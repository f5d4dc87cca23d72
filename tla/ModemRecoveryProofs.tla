-------------------------- MODULE ModemRecoveryProofs --------------------------
(***************************************************************************)
(* For any number of operations in a pass and any watchdog timeout, the    *)
(* count of timeouts that nothing resets stays bounded.  The soft reset    *)
(* lets it grow for one more pass; Base is the bound after a check before  *)
(* and after it, and CountFits says what each place of a pass may add.     *)
(***************************************************************************)
EXTENDS ModemRecovery, TLAPS

LEMMA InitIInv == Init => IInv
<1> SUFFICES ASSUME Init PROVE IInv
  OBVIOUS
<1>1. soft \in BOOLEAN /\ doneSoftReset \in BOOLEAN /\ forwarding \in BOOLEAN
      /\ well \in BOOLEAN
  BY DEF Init
<1>2. TypeOK
  BY <1>1, RecoveryAssumption DEF Init, TypeOK, Places, Statuses
<1>3. CountFits /\ TimeoutsBounded
  BY RecoveryAssumption DEF Init, CountFits, TimeoutsBounded, Base, Place, Places
<1> QED BY <1>2, <1>3 DEF IInv

\* A reset of the board clears the count.
LEMMA HardwareResetIInv ==
  ASSUME IInv, HardwareReset PROVE IInv'
<1>1. soft' \in BOOLEAN /\ doneSoftReset' \in BOOLEAN
      /\ forwarding' \in BOOLEAN /\ well' \in BOOLEAN
  BY DEF HardwareReset, IInv, TypeOK
<1>2. TypeOK'
  BY <1>1, RecoveryAssumption DEF HardwareReset, TypeOK, Places, Statuses
<1>3. CountFits' /\ TimeoutsBounded'
  BY RecoveryAssumption DEF HardwareReset, CountFits, TimeoutsBounded, Base,
     Place, Places
<1> QED BY <1>2, <1>3 DEF IInv

\* doIncrementalReset, wherever it is called, if the count fits the place it
\* returns to once the soft reset is done.
LEMMA IncrementalResetIInv ==
  ASSUME IInv, NEW site \in Places, NEW n \in Nat, NEW m \in 0 .. MaxOps,
         doIncrementalReset(site, n, m),
         ~doneSoftReset =>
           /\ site \in {"top", "rest"} => n <= 3 + 4 * MaxOps + 2 * m
           /\ site = "incoming" => n <= 3 + 6 * MaxOps + 2 * m
           /\ site \in {"errors", "timeouts"} => n <= 3 + 8 * MaxOps
           /\ site = "status" => n <= 3 + 4 * MaxOps
  PROVE  IInv'
<1>1. CASE doneSoftReset
  BY <1>1, HardwareResetIInv DEF doIncrementalReset
<1>2. CASE ~doneSoftReset
  <2>1. /\ CellReset /\ bootGSMShield(site, TRUE)
        /\ numTimeouts' = n /\ ops' = m
        /\ UNCHANGED <<cellStatus, doneSoftReset, watchdogSeconds, well>>
    BY <1>2 DEF doIncrementalReset
  <2>2. TypeOK'
    BY <2>1, RecoveryAssumption DEF IInv, TypeOK, CellReset, bootGSMShield, Statuses
  <2>3. CountFits' /\ TimeoutsBounded'
    BY <1>2, <2>1, RecoveryAssumption DEF bootGSMShield, CountFits,
       TimeoutsBounded, Base, Place, Places
  <2> QED BY <2>2, <2>3 DEF IInv
<1> QED BY <1>1, <1>2

LEMMA StepIInv == IInv /\ [Next]_vars => IInv'
<1> SUFFICES ASSUME IInv, [Next]_vars PROVE IInv'
  OBVIOUS
<1> USE RecoveryAssumption
<1> USE DEF IInv, TypeOK, CountFits, TimeoutsBounded, Base, Place, Places,
        Statuses, vars, boardVars, modemVars
<1>1. CASE Setup
  <2>1. soft' \in BOOLEAN /\ forwarding' \in BOOLEAN /\ numTimeouts' \in {0, 1}
    BY <1>1 DEF Setup, bootGSMShield
  <2>2. TypeOK'
    BY <1>1, <2>1 DEF Setup, bootGSMShield
  <2>3. CountFits' /\ TimeoutsBounded'
    BY <1>1, <2>1 DEF Setup, bootGSMShield
  <2> QED BY <2>2, <2>3
<1>2. CASE WaitPolls
  BY <1>2 DEF WaitPolls
<1>3. CASE WaitGivesUp
  BY <1>3, HardwareResetIInv DEF WaitGivesUp
<1>4. CASE WaitEnds
  BY <1>4 DEF WaitEnds
<1>5. CASE Top
  BY <1>5 DEF Top, Goto
<1>6. CASE IncomingDone
  BY <1>6 DEF IncomingDone, Goto
<1>7. CASE CheckErrors
  <2>1. CASE doIncrementalReset("timeouts", numTimeouts, ops)
    <3>1. numTimeouts <= 3 + 8 * MaxOps
      BY <1>7 DEF CheckErrors
    <3> QED BY <2>1, <3>1, IncrementalResetIInv
  <2>2. CASE Goto("timeouts") /\ UNCHANGED <<cellStatus, numTimeouts,
             doneSoftReset, ops, watchdogSeconds, modemVars>>
    BY <1>7, <2>2 DEF CheckErrors, Goto
  <2> QED BY <1>7, <2>1, <2>2 DEF CheckErrors
<1>8. CASE CheckTimeouts
  <2>1. CASE doIncrementalReset("status", numTimeouts, ops)
    <3>1. ~doneSoftReset => numTimeouts <= 3 + 4 * MaxOps
      BY <1>8 DEF CheckTimeouts
    <3> QED BY <2>1, <3>1, IncrementalResetIInv
  <2>2. CASE ~TooManyTimeouts /\ Goto("status") /\ UNCHANGED <<cellStatus,
             numTimeouts, doneSoftReset, ops, watchdogSeconds, modemVars>>
    BY <1>8, <2>2 DEF CheckTimeouts, TooManyTimeouts, Goto
  <2> QED BY <1>8, <2>1, <2>2 DEF CheckTimeouts
<1>9. CASE CheckStatus
  <2>1. CASE doIncrementalReset("rest", numTimeouts, ops)
    <3>1. ~doneSoftReset => numTimeouts <= 3 + 4 * MaxOps + 2 * ops
      BY <1>9 DEF CheckStatus
    <3> QED BY <2>1, <3>1, IncrementalResetIInv
  <2>2. CASE Goto("rest") /\ UNCHANGED <<cellStatus, numTimeouts,
             doneSoftReset, ops, watchdogSeconds, modemVars>>
    BY <1>9, <2>2 DEF CheckStatus, Goto
  <2>3. CASE bootGSMShield("rest", FALSE) /\ UNCHANGED <<cellStatus,
             numTimeouts, doneSoftReset, ops, watchdogSeconds, status,
             errorCode, well>>
    <3>1. soft' \in BOOLEAN /\ forwarding' \in BOOLEAN /\ soft' = FALSE
      BY <2>3 DEF bootGSMShield
    <3>2. TypeOK'
      BY <1>9, <2>3, <3>1 DEF CheckStatus, bootGSMShield
    <3>3. CountFits' /\ TimeoutsBounded'
      BY <1>9, <2>3, <3>1 DEF CheckStatus, bootGSMShield
    <3> QED BY <3>2, <3>3
  <2> QED BY <1>9, <2>1, <2>2, <2>3 DEF CheckStatus
<1>10. CASE trySendSMS
  <2>1. pc \in {"incoming", "rest"} /\ ops < MaxOps
    BY <1>10 DEF trySendSMS, MayOperate
  <2>2. CASE doIncrementalReset(pc, numTimeouts + 2, ops + 1)
    <3>1. /\ numTimeouts + 2 \in Nat /\ ops + 1 \in 0 .. MaxOps
          /\ ~doneSoftReset =>
               /\ pc = "rest" => numTimeouts + 2 <= 3 + 4 * MaxOps + 2 * (ops + 1)
               /\ pc = "incoming" => numTimeouts + 2 <= 3 + 6 * MaxOps + 2 * (ops + 1)
      BY <2>1
    <3> QED BY <2>1, <2>2, <3>1, IncrementalResetIInv
  <2>3. CASE /\ numTimeouts' \in {numTimeouts, numTimeouts + 1}
             /\ Goto(pc) /\ ops' = ops + 1 /\ watchdogSeconds' = 0
             /\ UNCHANGED <<cellStatus, doneSoftReset, modemVars>>
    BY <2>1, <2>3 DEF Goto
  <2> QED BY <1>10, <2>2, <2>3 DEF trySendSMS
<1>11. CASE TimesOut
  BY <1>11 DEF TimesOut, MayOperate, Goto
<1>12. CASE CheckWhileRinging
  BY <1>12 DEF CheckWhileRinging, Goto
<1>13. CASE FifteenSecondEvent
  BY <1>13 DEF FifteenSecondEvent
<1>14. CASE Tick
  <2>1. CASE HardwareReset
    BY <2>1, HardwareResetIInv
  <2>2. CASE ~WatchdogExpires /\ watchdogSeconds' = watchdogSeconds + 1
             /\ UNCHANGED <<boardVars, modemVars>>
    BY <2>2 DEF WatchdogExpires
  <2> QED BY <1>14, <2>1, <2>2 DEF Tick
<1>15. CASE ModemChanges
  <2>1. forwarding' \in BOOLEAN
    BY <1>15 DEF ModemChanges
  <2> QED BY <1>15, <2>1 DEF ModemChanges
<1>16. CASE Recovers
  BY <1>16 DEF Recovers
<1>17. CASE Registers
  BY <1>17 DEF Registers
<1>18. CASE UNCHANGED vars
  BY <1>18
<1> QED
  BY <1>1, <1>2, <1>3, <1>4, <1>5, <1>6, <1>7, <1>8, <1>9, <1>10, <1>11, <1>12,
     <1>13, <1>14, <1>15, <1>16, <1>17, <1>18 DEF Next, Step

(* The inductive invariant holds in every reachable state.                 *)
THEOREM RecoveryInvariant == Spec => []IInv
BY InitIInv, StepIInv, PTL DEF Spec

(* Every variable of the board and the modem keeps its type; the watchdog  *)
(* never counts past its timeout.                                          *)
THEOREM RecoveryTypeCorrect == Spec => []TypeOK
<1>1. IInv => TypeOK
  BY DEF IInv
<1> QED BY <1>1, RecoveryInvariant, PTL

(* numTimeouts, which the code never resets, cannot overflow: it is        *)
(* bounded by what four halves of a pass add.                              *)
THEOREM TimeoutsBoundedCorrect == Spec => []TimeoutsBounded
<1>1. IInv => TimeoutsBounded
  BY DEF IInv
<1> QED BY <1>1, RecoveryInvariant, PTL
===============================================================================
