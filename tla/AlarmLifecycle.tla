---------------------------- MODULE AlarmLifecycle ----------------------------
(***************************************************************************)
(* What the Mega promises about its alarms, without its loop, its modem,   *)
(* its clock or its flags.  An alarm is turned on and off by the inputs    *)
(* while the system is up and enabled; one contact of the list in force    *)
(* may own an alarm that asks for an answer; an owned alarm that goes off  *)
(* is first called off; the list changes and the system is disabled only   *)
(* while nothing is going on; a slave remembers alarms over a crash.       *)
(***************************************************************************)
EXTENDS Integers, Sequences

CONSTANTS Inputs, Person, Nobody, Lists, RequiresResponse, Reliable

VARIABLES
  up,        \* setup() has finished
  enabled,
  on,        \* 1 while the alarm of the input is on
  owner,     \* who has taken responsibility for it
  list,      \* the contact list in force
  known      \* the alarms the slave remembers

lifeVars == <<up, enabled, on, owner, list, known>>

Off     == [i \in Inputs |-> 0]
Unowned == [i \in Inputs |-> Nobody]
Quiet   == on = Off /\ owner = Unowned

Open(i) == on[i] = 1 /\ owner[i] = Nobody /\ i \in RequiresResponse

Init ==
  /\ up = FALSE /\ enabled = TRUE /\ list = <<>>
  /\ on = Off /\ owner = Unowned
  /\ known \in [Inputs -> {0, 1}]

(* The inputs are read; no alarm starts while its owner is being told that *)
(* the last one is over.                                                   *)
Sense ==
  /\ up /\ enabled
  /\ on' \in [Inputs -> {0, 1}]
  /\ \A i \in Inputs : on'[i] > on[i] => owner[i] = Nobody
  /\ UNCHANGED <<up, enabled, owner, list, known>>

(* A contact answers, and takes the first alarm that nobody has taken.     *)
Answer(i, j) ==
  /\ Open(i) /\ \A k \in Inputs : k < i => ~Open(k)
  /\ j \in DOMAIN list
  /\ owner' = [owner EXCEPT ![i] = list[j]]
  /\ UNCHANGED <<up, enabled, on, list, known>>

(* The owner is relieved: the alarm is over, or it is restarted.           *)
Relieve(i) ==
  /\ owner[i] # Nobody
  /\ owner' = [owner EXCEPT ![i] = Nobody]
  /\ UNCHANGED <<up, enabled, on, list, known>>

Tell(i) ==
  /\ known' = [known EXCEPT ![i] = on[i]]
  /\ UNCHANGED <<up, enabled, on, owner, list>>

Load ==
  /\ Quiet
  /\ list' \in Lists
  /\ UNCHANGED <<up, enabled, on, owner, known>>

Disable ==
  /\ Quiet
  /\ enabled' = FALSE
  /\ UNCHANGED <<up, on, owner, list, known>>

Enable ==
  /\ enabled' = TRUE
  /\ UNCHANGED <<up, on, owner, list, known>>

Crash ==
  /\ up' = FALSE /\ enabled' = TRUE /\ list' = <<>>
  /\ on' = Off /\ owner' = Unowned
  /\ UNCHANGED known

Recover ==
  /\ ~up /\ up' = TRUE
  /\ on' = known \/ (~Reliable /\ UNCHANGED on)
  /\ list' \in Lists
  /\ UNCHANGED <<enabled, owner, known>>

Next ==
  \/ Sense
  \/ \E i \in Inputs : Relieve(i) \/ Tell(i) \/ \E j \in DOMAIN list : Answer(i, j)
  \/ Load \/ Disable \/ Enable \/ Crash \/ Recover

Spec == Init /\ [][Next]_lifeVars
===============================================================================
