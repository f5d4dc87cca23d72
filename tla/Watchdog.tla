-------------------------------- MODULE Watchdog -------------------------------
(***************************************************************************)
(* The watchdog of MegaMaster (WatchdogFunctions.cpp): the interrupt of    *)
(* timer 1 counts seconds, and pulls the board's reset pin when the loop   *)
(* has not set them back for too long.  watchdogSeconds has two bytes, and *)
(* the loop writes it in two instructions.                                 *)
(***************************************************************************)
EXTENDS Integers

CONSTANTS
  BYTE,                  \* values of a byte (256)
  WATCHDOG_TIMEOUT_SECONDS

ASSUME WatchdogAssumption ==
  /\ BYTE \in Nat /\ WATCHDOG_TIMEOUT_SECONDS \in Nat \ {0}
  /\ WATCHDOG_TIMEOUT_SECONDS < BYTE

VARIABLES
  low, high,             \* the bytes of watchdogSeconds
  pending,               \* timer 1 has matched and its interrupt has not run yet
  loop,                  \* what the loop does
  since,                 \* interrupts since the loop last wrote the low byte
  resets                 \* the last reset came after that many of them

watchdogVars == <<low, high, pending, loop, since, resets>>

Loops == {"works", "low written", "high written", "hangs"}

watchdogSeconds == high * BYTE + low

\* After a reset the variables are zero again and the loop starts.
Booted(after) ==
  /\ low' = 0 /\ high' = 0 /\ pending' = FALSE /\ loop' = "works" /\ since' = 0
  /\ resets' = after

WatchdogInit ==
  low = 0 /\ high = 0 /\ pending = FALSE /\ loop = "works" /\ since = 0 /\ resets = 0

\* A second is over; a match that finds the one before still pending is lost, but
\* no code keeps interrupts off for that long.
Match ==
  ~pending /\ pending' = TRUE /\ UNCHANGED <<low, high, loop, since, resets>>

HardwareReset(after) == Booted(after)

\* Mutant: resets one second late.
CompareLate ==
  LET seconds == watchdogSeconds + 1
  IN  /\ pending
      /\ IF seconds > WATCHDOG_TIMEOUT_SECONDS THEN HardwareReset(since + 1)
         ELSE /\ low' = seconds % BYTE /\ high' = seconds \div BYTE
              /\ pending' = FALSE /\ since' = since + 1 /\ UNCHANGED <<loop, resets>>

\* Mutant: the reset is never pulled.
CompareNoReset ==
  LET seconds == watchdogSeconds + 1
  IN  /\ pending
      /\ low' = seconds % BYTE /\ high' = (seconds \div BYTE) % BYTE
      /\ pending' = FALSE /\ UNCHANGED <<loop, since, resets>>

\* The interrupt.
CompareA ==
  LET seconds == watchdogSeconds + 1
  IN  /\ pending
      /\ IF seconds >= WATCHDOG_TIMEOUT_SECONDS THEN HardwareReset(since + 1)
         ELSE /\ low' = seconds % BYTE /\ high' = seconds \div BYTE
              /\ pending' = FALSE /\ since' = since + 1 /\ UNCHANGED <<loop, resets>>

\* ResetWatchdog: one byte and then the other, in the order the compiler chooses.
LowFirst  == loop = "works" /\ loop' = "low written"
HighFirst == loop = "works" /\ loop' = "high written"

WriteLow ==
  /\ LowFirst \/ (loop = "high written" /\ loop' = "works")
  /\ low' = 0 /\ since' = 0 /\ UNCHANGED <<high, pending, resets>>

WriteHigh ==
  /\ HighFirst \/ (loop = "low written" /\ loop' = "works")
  /\ high' = 0 /\ UNCHANGED <<low, pending, since, resets>>

ResetWatchdog == WriteLow \/ WriteHigh

\* A call that does not return: a modem, an EEPROM or a bus that never answers.
Hang == loop = "works" /\ loop' = "hangs" /\ UNCHANGED <<low, high, pending, since, resets>>

WatchdogNext == Match \/ CompareA \/ ResetWatchdog \/ Hang

WatchdogFairness == WF_watchdogVars(Match) /\ WF_watchdogVars(CompareA)

WatchdogSpec == WatchdogInit /\ [][WatchdogNext]_watchdogVars /\ WatchdogFairness

-------------------------------------------------------------------------------
(* Properties.                                                             *)

\* A board is reset when its loop has let the whole time-out go by and no sooner or
\* later, however the interrupt falls between the two writes of ResetWatchdog: the
\* write of the low byte is the one that counts.
NoEarlyReset == resets # 0 => resets = WATCHDOG_TIMEOUT_SECONDS

\* A loop that hangs is reset.
HungLoopsReset == (loop = "hangs") ~> (loop # "hangs")
===============================================================================
