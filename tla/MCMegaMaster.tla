---------------------------- MODULE MCMegaMaster ----------------------------
(* Small instances of MegaMaster for TLC.                                   *)
EXTENDS MegaMasterClaims

CONSTANTS ann, bob

MCPerson == {ann, bob}
\* ann is phoned (group 1), bob only gets texts (group 2).
MCGroupOf == [p \in MCPerson |-> IF p = ann THEN 1 ELSE 2]
MCInterval == [i \in Inputs |-> 1]

\* Transfers that succeed, with one list, one that changes, or that may fail.
OneList == {<<bob, ann>>}
TwoLists == {<<bob, ann>>, <<ann>>}
FailingLists == {<<bob, ann>>, <<>>}
=============================================================================
