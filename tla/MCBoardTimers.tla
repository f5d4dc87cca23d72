----------------------------- MODULE MCBoardTimers -----------------------------
(* A board runs a sketch with Tones or one with the watchdog: both define   *)
(* the interrupt of timer 1, so that no sketch links both.  The variables   *)
(* of the other one stay as they are at power on.                           *)
EXTENDS Tone, Watchdog

CONSTANTS x1, x2, p0, p1

Order == <<2, 1, 0>>

VARIABLE sketch

Init == ToneInit /\ WatchdogInit /\ sketch \in {"tones", "watchdog"}

allVars == <<toneVars, watchdogVars, sketch>>

ToneStep(A) == sketch = "tones" /\ A /\ UNCHANGED <<watchdogVars, sketch>>
WatchdogStep(A) == sketch = "watchdog" /\ A /\ UNCHANGED <<toneVars, sketch>>

Next == ToneStep(ToneNext) \/ WatchdogStep(WatchdogNext)

\* The fairness of the sketch that runs.
Fairness ==
  /\ WF_allVars(ToneStep(Player))
  /\ \A t \in Timers : WF_allVars(ToneStep(Compare(t)))
  /\ WF_allVars(WatchdogStep(Match))
  /\ WF_allVars(WatchdogStep(CompareA))

Spec == Init /\ [][Next]_allVars /\ Fairness
===============================================================================
