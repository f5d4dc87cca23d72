----------------------------- MODULE ModemRecovery -----------------------------
(***************************************************************************)
(* Recovery from faults of the modem: checkGSMProblems and                 *)
(* doIncrementalReset (DiagnosticFunctions.cpp), bootGSMShield and         *)
(* trySendSMS (GSMFunctions.cpp), the count of timeouts every modem        *)
(* operation and contact transfer adds to, and the watchdog that resets    *)
(* the board when a wait takes too long.                                   *)
(*                                                                         *)
(* pc is the place in setup() and loop(): "setup", "wait" (the loop of     *)
(* bootGSMShield, which goes on at back), "top", "incoming"                *)
(* (checkIncomingSMS), "errors", "timeouts" and "status" (the three tests  *)
(* of checkGSMProblems) and "rest" (everything after the diagnostics).     *)
(***************************************************************************)
EXTENDS Integers

CONSTANTS
  MaxOps,                   \* bound: modem operations of one pass
  WATCHDOG_TIMEOUT_SECONDS

ASSUME RecoveryAssumption ==
  MaxOps \in Nat /\ WATCHDOG_TIMEOUT_SECONDS \in Nat \ {0}

VARIABLES
  pc,
  back,             \* where bootGSMShield returns to
  soft,             \* bootGSMShield was called by doIncrementalReset
  cellStatus,       \* status bootGSMShield read last
  numTimeouts,
  doneSoftReset,
  ops,              \* modem operations of this pass
  watchdogSeconds,
  status,           \* GetGSMStatus(); 0 stands for every value not tested for
  errorCode,        \* GetErrorCode(), 0 or not
  forwarding,       \* the modem passes texts on
  well              \* from now on the modem, and the slave, work

boardVars == <<pc, back, soft, cellStatus, numTimeouts, doneSoftReset, ops>>
modemVars == <<status, errorCode, forwarding, well>>
vars      == <<boardVars, watchdogSeconds, modemVars>>

Statuses == {0, 1, 4, 7}    \* 1: has reset itself (also 10), 4: ready, 7: failed
Places   == {"top", "incoming", "errors", "timeouts", "status", "rest"}

TypeOK ==
  /\ pc \in Places \cup {"setup", "wait"}
  /\ back \in Places
  /\ soft \in BOOLEAN
  /\ cellStatus \in Statuses
  /\ numTimeouts \in Nat
  /\ doneSoftReset \in BOOLEAN
  /\ ops \in 0 .. MaxOps
  /\ watchdogSeconds \in 0 .. WATCHDOG_TIMEOUT_SECONDS - 1
  /\ status \in Statuses
  /\ errorCode \in {0, 1}
  /\ forwarding \in BOOLEAN
  /\ well \in BOOLEAN

Init ==
  /\ pc = "setup" /\ back = "top" /\ soft = FALSE
  /\ cellStatus = 0 /\ numTimeouts = 0 /\ doneSoftReset = FALSE /\ ops = 0
  /\ watchdogSeconds = 0
  /\ status = 0 /\ errorCode = 0 /\ forwarding = FALSE /\ well = FALSE

-------------------------------------------------------------------------------
(* Resets.                                                                 *)

Goto(place) == pc' = place /\ UNCHANGED <<back, soft>>

(* HardwareReset(), and resetFunc(): the program starts again with cleared *)
(* variables, those of the modem library included; the modem itself keeps  *)
(* its settings.                                                           *)
HardwareReset ==
  /\ pc' = "setup" /\ back' = "top" /\ soft' = FALSE
  /\ cellStatus' = 0 /\ numTimeouts' = 0 /\ doneSoftReset' = FALSE /\ ops' = 0
  /\ watchdogSeconds' = 0
  /\ status' = 0 /\ errorCode' = 0
  /\ UNCHANGED <<forwarding, well>>

(* cell.Boot() and FwdSMS2Serial(), which a modem that is starting may     *)
(* miss; then the wait for status 4.                                       *)
bootGSMShield(site, isSoft) ==
  /\ pc' = "wait" /\ back' = site /\ soft' = isSoft
  /\ forwarding' \in BOOLEAN

\* cell.Reset(): the modem starts again; if it does not work, in any state.
CellReset ==
  IF well THEN status' = 0 /\ errorCode' = 0
          ELSE status' \in Statuses /\ errorCode' \in {0, 1}

\* The shield the first time, the board from then on.  n and m are the counts
\* of timeouts and of operations at the call.
doIncrementalReset(site, n, m) ==
  \/ /\ ~doneSoftReset
     /\ CellReset
     /\ bootGSMShield(site, TRUE)
     /\ numTimeouts' = n /\ ops' = m
     /\ UNCHANGED <<cellStatus, doneSoftReset, watchdogSeconds, well>>
  \/ /\ doneSoftReset
     /\ HardwareReset

-------------------------------------------------------------------------------
(* setup(): load the contacts, a failure of which counts as a timeout, and *)
(* boot the shield.                                                        *)
Setup ==
  /\ pc = "setup"
  /\ numTimeouts' \in IF well THEN {0} ELSE {0, 1}
  /\ bootGSMShield("top", FALSE)
  /\ UNCHANGED <<cellStatus, doneSoftReset, ops, watchdogSeconds, status,
                 errorCode, well>>

\* Mutant: the wait feeds the watchdog.
WaitPollsFed ==
  /\ pc = "wait" /\ cellStatus \notin {4, 7}
  /\ cellStatus' = status
  /\ watchdogSeconds' = 0
  /\ UNCHANGED <<pc, back, soft, numTimeouts, doneSoftReset, ops, modemVars>>

WaitPolls ==
  /\ pc = "wait" /\ cellStatus \notin {4, 7}
  /\ cellStatus' = status
  /\ UNCHANGED <<pc, back, soft, numTimeouts, doneSoftReset, ops,
                 watchdogSeconds, modemVars>>

WaitGivesUp ==
  /\ pc = "wait" /\ cellStatus = 7
  /\ HardwareReset

\* Mutant: doIncrementalReset does not record that it has been here.
WaitEndsUnrecorded ==
  /\ pc = "wait" /\ cellStatus = 4
  /\ pc' = back /\ soft' = FALSE
  /\ UNCHANGED <<back, cellStatus, numTimeouts, doneSoftReset, ops,
                 watchdogSeconds, modemVars>>

WaitEnds ==
  /\ pc = "wait" /\ cellStatus = 4
  /\ pc' = back /\ soft' = FALSE
  /\ doneSoftReset' = (doneSoftReset \/ soft)
  /\ UNCHANGED <<back, cellStatus, numTimeouts, ops, watchdogSeconds, modemVars>>

(* The start of a pass feeds the watchdog.                                 *)
Top ==
  /\ pc \in {"top", "rest"}
  /\ Goto("incoming")
  /\ ops' = 0 /\ watchdogSeconds' = 0
  /\ UNCHANGED <<cellStatus, numTimeouts, doneSoftReset, modemVars>>

IncomingDone ==
  /\ pc = "incoming"
  /\ Goto("errors")
  /\ UNCHANGED <<cellStatus, numTimeouts, doneSoftReset, ops, watchdogSeconds,
                 modemVars>>

(* checkGSMProblems, the three tests one after the other: a reset by one   *)
(* of them does not end the others.                                        *)
CheckErrors ==
  /\ pc = "errors"
  /\ \/ errorCode # 0 /\ doIncrementalReset("timeouts", numTimeouts, ops)
     \/ /\ errorCode = 0
        /\ Goto("timeouts")
        /\ UNCHANGED <<cellStatus, numTimeouts, doneSoftReset, ops,
                       watchdogSeconds, modemVars>>

\* Mutant: the count is compared with = and may step over the limit.
TooManyTimeoutsExactly == numTimeouts = 4
TooManyTimeouts        == numTimeouts > 3

CheckTimeouts ==
  /\ pc = "timeouts"
  /\ \/ TooManyTimeouts /\ doIncrementalReset("status", numTimeouts, ops)
     \/ /\ ~TooManyTimeouts
        /\ Goto("status")
        /\ UNCHANGED <<cellStatus, numTimeouts, doneSoftReset, ops,
                       watchdogSeconds, modemVars>>

\* Mutant: the status bootGSMShield read is tested instead of the modem's.
HasFailedWhenBooted == cellStatus = 7
HasFailed           == status = 7

CheckStatus ==
  /\ pc = "status"
  /\ \/ /\ status = 1
        /\ bootGSMShield("rest", FALSE)
        /\ UNCHANGED <<cellStatus, numTimeouts, doneSoftReset, ops,
                       watchdogSeconds, status, errorCode, well>>
     \/ /\ status # 1 /\ HasFailed
        /\ doIncrementalReset("rest", numTimeouts, ops)
     \/ /\ status # 1 /\ ~HasFailed
        /\ Goto("rest")
        /\ UNCHANGED <<cellStatus, numTimeouts, doneSoftReset, ops,
                       watchdogSeconds, modemVars>>

-------------------------------------------------------------------------------
(* The operations of a pass, those of checkIncomingSMS included.           *)

MayOperate == pc \in {"incoming", "rest"} /\ ops < MaxOps

(* One contact of notifyContactsSMS: feed the watchdog and send a text, at *)
(* the second attempt if the first fails; a second failure is a reset.     *)
trySendSMS ==
  /\ MayOperate
  /\ \/ /\ numTimeouts' \in {numTimeouts} \cup (IF well THEN {} ELSE {numTimeouts + 1})
        /\ Goto(pc)
        /\ ops' = ops + 1 /\ watchdogSeconds' = 0
        /\ UNCHANGED <<cellStatus, doneSoftReset, modemVars>>
     \/ /\ ~well
        /\ doIncrementalReset(pc, numTimeouts + 2, ops + 1)

(* Call, Hangup or DeleteAllSMS times out, or a contact transfer fails.    *)
TimesOut ==
  /\ MayOperate
  /\ ~well
  /\ numTimeouts' = numTimeouts + 1
  /\ ops' = ops + 1
  /\ Goto(pc)
  /\ UNCHANGED <<cellStatus, doneSoftReset, watchdogSeconds, modemVars>>

(* While a phone rings checkGSMProblems is called from inside the pass.    *)
CheckWhileRinging ==
  /\ pc = "rest" /\ ops < MaxOps
  /\ ops' = ops + 1
  /\ Goto("errors")
  /\ UNCHANGED <<cellStatus, numTimeouts, doneSoftReset, watchdogSeconds, modemVars>>

\* Mutant: the event does not ask the modem to pass texts on.
FifteenSecondEventSilent ==
  /\ pc = "rest"
  /\ UNCHANGED vars

(* The 15 second event; a modem that is not ready may miss the command.    *)
FifteenSecondEvent ==
  /\ pc = "rest"
  /\ forwarding' \in IF status = 4 THEN {TRUE} ELSE BOOLEAN
  /\ UNCHANGED <<boardVars, watchdogSeconds, status, errorCode, well>>

-------------------------------------------------------------------------------
WatchdogExpires     == watchdogSeconds + 1 >= WATCHDOG_TIMEOUT_SECONDS

(* The watchdog's interrupt, once a second.  With a modem that works only  *)
(* the wait for it takes seconds.                                          *)
Tick ==
  /\ well => pc = "wait" /\ 4 \notin {cellStatus, status}
  /\ IF WatchdogExpires
       THEN HardwareReset
       ELSE /\ watchdogSeconds' = watchdogSeconds + 1
            /\ UNCHANGED <<boardVars, modemVars>>

(* The modem: faults of any kind until it works for good, then its start   *)
(* ends in status 4.                                                       *)
ModemChanges ==
  /\ ~well
  /\ status' \in Statuses
  /\ errorCode' \in {0, 1}
  /\ forwarding' \in IF status' = 1 THEN {FALSE} ELSE {forwarding}
  /\ UNCHANGED <<boardVars, watchdogSeconds, well>>

Recovers ==
  /\ ~well
  /\ well' = TRUE
  /\ UNCHANGED <<boardVars, watchdogSeconds, status, errorCode, forwarding>>

Registers ==
  /\ well
  /\ status # 4 /\ status' = 4
  /\ UNCHANGED <<boardVars, watchdogSeconds, errorCode, forwarding, well>>

Step ==
  \/ Setup \/ WaitPolls \/ WaitGivesUp \/ WaitEnds
  \/ Top \/ IncomingDone \/ CheckErrors \/ CheckTimeouts \/ CheckStatus
  \/ trySendSMS \/ TimesOut \/ CheckWhileRinging \/ FifteenSecondEvent

Next == Step \/ Tick \/ ModemChanges \/ Recovers \/ Registers

Spec == Init /\ [][Next]_vars

(* The board executes and its clock ticks; the event comes every 15        *)
(* seconds; a modem that works registers with its network.                 *)
Fairness ==
  /\ WF_vars(Step) /\ WF_vars(Top) /\ WF_vars(Tick)
  /\ SF_vars(FifteenSecondEvent)
  /\ WF_vars(Registers)

FairSpec == Spec /\ Fairness

-------------------------------------------------------------------------------
(* numTimeouts is never reset, yet it is an int that cannot overflow: past *)
(* the limit of checkGSMProblems the first check resets the shield and the *)
(* next one the board, and a pass adds a bounded number to it.             *)
TimeoutsBounded == numTimeouts <= 3 + 8 * MaxOps

(* A modem that fails in any way and then works is recovered from: after   *)
(* finitely many resets the loop runs for good, although checkGSMProblems  *)
(* still meets the timeouts counted before.                                *)
RecoversForGood == <>well => <>[](pc \notin {"setup", "wait"})

(* bootGSMShield does not wait for ever for a modem that reports neither   *)
(* success nor failure: the watchdog ends the wait.                        *)
WaitIsEnded == pc = "wait" ~> pc # "wait"

(* A modem that reports status 7 and stays there makes the board restart:  *)
(* the loop does not go on with it.                                        *)
FailedModemIsReset == ~<>[](status = 7 /\ pc # "setup")

(* A modem that works passes texts on for good, whatever start missed the  *)
(* command of bootGSMShield: the 15 second event repeats it.               *)
TextsForwarded == <>well => <>[]forwarding

(* What TimeoutsBounded rests on.  Base bounds numTimeouts after a check;   *)
(* each of the two halves of a pass adds at most two per operation.        *)
Base == IF doneSoftReset \/ soft THEN 3 + 4 * MaxOps ELSE 3

\* Where the program is, or goes on when the shield has booted.
Place == IF pc = "wait" THEN back ELSE pc

CountFits ==
  /\ soft => pc = "wait"
  /\ Place = "setup" => numTimeouts = 0 /\ ~doneSoftReset /\ ~soft
  /\ Place \in {"top", "rest"} => numTimeouts <= Base + 2 * ops
  /\ Place = "incoming" => numTimeouts <= Base + 2 * MaxOps + 2 * ops
  /\ Place \in {"errors", "timeouts"} => numTimeouts <= Base + 4 * MaxOps
  /\ Place = "status" => numTimeouts <= Base

IInv == TypeOK /\ CountFits /\ TimeoutsBounded
===============================================================================
