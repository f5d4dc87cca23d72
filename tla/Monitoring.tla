------------------------------ MODULE Monitoring ------------------------------
(***************************************************************************)
(* MonitoringFunctions.cpp: the switch inputs of the Mega and the three    *)
(* status arrays the rest of the program reads.  Inputs are numbered from  *)
(* 1 (0 in the code), as are contacts.  A flag is 0 or 1, as in the code.  *)
(* currentState is left out: it is written and read only inside            *)
(* checkInputs and equals previousState when it returns.                   *)
(***************************************************************************)
EXTENDS Integers

CONSTANT NUMINPUTS   \* number of switch inputs

ASSUME NumInputsAssumption == NUMINPUTS \in Nat \ {0}

VARIABLES
  pin,            \* level of each input pin; LOW means the switch is closed
  pressed,        \* debounced state: 1 while the input is in alarm
  justPressed,    \* 1 when a new alarm waits to be handled
  justReleased,   \* 1 when a cleared alarm waits to be handled
  previousState   \* level seen by the last sample

monVars == <<pin, pressed, justPressed, justReleased, previousState>>

Inputs == 1 .. NUMINPUTS
LOW    == 0
HIGH   == 1
Bit    == {0, 1}
Flags  == [Inputs -> Bit]

AllClear == [i \in Inputs |-> 0]

\* Two consecutive samples of input i agree when the level just read equals
\* the level of the sample before.
Agrees(i) == pin[i] = previousState[i]

\* Mutant: an edge without two agreeing samples.
PressEdgeUndebounced(i) == pressed[i] = LOW /\ pin[i] = LOW

PressEdge(i)   == Agrees(i) /\ pressed[i] = LOW /\ pin[i] = LOW
ReleaseEdge(i) == Agrees(i) /\ pressed[i] = HIGH /\ pin[i] = HIGH

(* checkInputs once DEBOUNCE ms have passed: every flag is recomputed.     *)
Sample ==
  /\ justPressed'   = [i \in Inputs |-> IF PressEdge(i) THEN 1 ELSE 0]
  /\ justReleased'  = [i \in Inputs |-> IF ReleaseEdge(i) THEN 1 ELSE 0]
  /\ pressed'       = [i \in Inputs |->
                         IF Agrees(i) THEN 1 - pin[i] ELSE pressed[i]]
  /\ previousState' = pin
  /\ UNCHANGED pin

\* Mutant: an input is in alarm only while one of its edges is being handled.
inAlarmStateAtEdges == \E i \in Inputs : justPressed[i] = 1 \/ justReleased[i] = 1

(* Some input is, was or will be in alarm state.                           *)
inAlarmState ==
  \E i \in Inputs : justPressed[i] = 1 \/ pressed[i] = 1 \/ justReleased[i] = 1

(* The world outside: the switch of input i opens or closes.               *)
Flip(i) ==
  /\ pin' = [pin EXCEPT ![i] = 1 - @]
  /\ UNCHANGED <<pressed, justPressed, justReleased, previousState>>

MonTypeOK ==
  /\ pin \in [Inputs -> {LOW, HIGH}]
  /\ pressed \in Flags
  /\ justPressed \in Flags
  /\ justReleased \in Flags
  /\ previousState \in [Inputs -> {LOW, HIGH}]

(* Zeroed static memory: no flag is set and previousState reads LOW.       *)
MonCleared ==
  /\ pressed = AllClear /\ justPressed = AllClear /\ justReleased = AllClear
  /\ previousState = AllClear

MonClearedNext ==
  /\ pressed' = AllClear /\ justPressed' = AllClear /\ justReleased' = AllClear
  /\ previousState' = AllClear
===============================================================================
