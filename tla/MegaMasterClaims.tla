--------------------------- MODULE MegaMasterClaims ---------------------------
(***************************************************************************)
(* What comments and messages of the code say of the loop of the Mega and  *)
(* the code does not do.  Each definition quotes the claim it states; TLC  *)
(* shows a behaviour of MegaMaster that breaks it.                         *)
(***************************************************************************)
EXTENDS MegaMaster

(* "If someone has responded but it has been over the allotted time"       *)
(* (MegaMaster.cpp): an alarm is restarted only when someone had responded *)
(* to it.                                                                  *)
RestartOnlyAfterResponse ==
  [][\A i \in Inputs :
       pc = "restart" /\ justPressed[i] = 0 /\ justPressed'[i] = 1 =>
         whoResponded[i] # NoOne]_vars

(* "If it is trusted, take action based on the message contents"           *)
(* (GSMFunctions.cpp): the message acted on is the one whose sender was    *)
(* looked up.                                                              *)
ActsOnTrustedMessage ==
  [][~wireFailureResponse /\ wireFailureResponse' =>
       lastSMS.from = contacts[contactId]]_vars
===============================================================================
