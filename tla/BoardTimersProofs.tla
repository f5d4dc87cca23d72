---------------------------- MODULE BoardTimersProofs ---------------------------
(***************************************************************************)
(* What the timers of the board are for: the watchdog, and the tones.      *)
(*                                                                         *)
(* The watchdog never resets a board early, for every time-out that fits   *)
(* in one byte.  The interrupt never carries into the high byte, so that   *)
(* the low byte alone is the time since the loop last fed the watchdog,    *)
(* and a reset that falls between the two writes finds one of the two      *)
(* counts, never a mixture.                                                *)
(*                                                                         *)
(* Tones have the length and the pitch that were asked for, and timers of  *)
(* their own, for any Tones, pins, frequencies, durations and clock.  The  *)
(* invariant ToneInv says what play has written so far (Counts, Tuned):    *)
(* the bytes of the count below the one that is next are those of the new  *)
(* count, unless the interrupt of this timer has come in between, which    *)
(* spoils the count and is seen (spoilt); and by the time the interrupt is *)
(* enabled the prescaler and the compare register are those of the         *)
(* frequency.  A timer has one Tone, because a Tone that begins takes the  *)
(* next of TimerOrder and no timer is in it twice (Owners).                *)
(***************************************************************************)
EXTENDS Tone, Watchdog, TLAPS

-------------------------------------------------------------------------------
(* The watchdog.                                                           *)

\* The strengthening: the counter is the history variable, in one byte.
WatchdogInv ==
  /\ low \in Nat /\ high = 0 /\ since = low
  /\ low < WATCHDOG_TIMEOUT_SECONDS
  /\ resets \in {0, WATCHDOG_TIMEOUT_SECONDS}

\* The counter starts at zero (setup), below any time-out.
LEMMA WatchdogStarts == WatchdogInit => WatchdogInv
BY WatchdogAssumption DEF WatchdogInit, WatchdogInv

\* The interrupt counts, or resets the board at the time-out and no sooner.
LEMMA CompareAKeeps == WatchdogInv /\ CompareA => WatchdogInv'
<1> SUFFICES ASSUME WatchdogInv, CompareA PROVE WatchdogInv'
    OBVIOUS
<1> USE WatchdogAssumption
<1>1. watchdogSeconds + 1 = low + 1 /\ low + 1 \in Nat /\ low + 1 <= WATCHDOG_TIMEOUT_SECONDS
      BY DEF WatchdogInv, watchdogSeconds
<1>2. CASE watchdogSeconds + 1 >= WATCHDOG_TIMEOUT_SECONDS
      BY <1>1, <1>2 DEF CompareA, HardwareReset, Booted, WatchdogInv
<1>3. CASE ~(watchdogSeconds + 1 >= WATCHDOG_TIMEOUT_SECONDS)
  <2>1. low' = (low + 1) % BYTE /\ high' = (low + 1) \div BYTE
        /\ since' = since + 1 /\ resets' = resets
        BY <1>1, <1>3 DEF CompareA
  <2>2. low + 1 < BYTE
        BY <1>1
  <2>3. (low + 1) % BYTE = low + 1 /\ (low + 1) \div BYTE = 0
        BY <1>1, <2>2
  <2> QED
      BY <1>1, <1>3, <2>1, <2>3 DEF WatchdogInv
<1> QED
    BY <1>2, <1>3

\* Either half of ResetWatchdog leaves a count that is the time since then.
LEMMA FeedingKeeps == WatchdogInv /\ ResetWatchdog => WatchdogInv'
<1> SUFFICES ASSUME WatchdogInv, ResetWatchdog PROVE WatchdogInv'
    OBVIOUS
<1>0. 0 < WATCHDOG_TIMEOUT_SECONDS
      BY WatchdogAssumption
<1>1. CASE WriteLow
  <2>1. low' = 0 /\ since' = 0 /\ high' = high /\ resets' = resets
        BY <1>1 DEF WriteLow
  <2> QED
      BY <1>0, <2>1 DEF WatchdogInv
<1>2. CASE WriteHigh
      BY <1>2 DEF WriteHigh, HighFirst, WatchdogInv
<1> QED
    BY <1>1, <1>2 DEF ResetWatchdog

LEMMA WatchdogSteps == WatchdogInv /\ [WatchdogNext]_watchdogVars => WatchdogInv'
<1> SUFFICES ASSUME WatchdogInv, [WatchdogNext]_watchdogVars PROVE WatchdogInv'
    OBVIOUS
<1>1. CASE Match
      BY <1>1 DEF Match, WatchdogInv
<1>2. CASE CompareA
      BY <1>2, CompareAKeeps
<1>3. CASE ResetWatchdog
      BY <1>3, FeedingKeeps
<1>4. CASE Hang
      BY <1>4 DEF Hang, WatchdogInv
<1>5. CASE UNCHANGED watchdogVars
      BY <1>5 DEF watchdogVars, WatchdogInv
<1> QED
    BY <1>1, <1>2, <1>3, <1>4, <1>5 DEF WatchdogNext

\* The counter is the time since the loop wrote its low byte.
THEOREM WatchdogCounts == WatchdogSpec => []WatchdogInv
BY WatchdogStarts, WatchdogSteps, PTL DEF WatchdogSpec

\* A board is reset exactly when its loop has let the whole time-out go by, however
\* the interrupt falls between the two writes of ResetWatchdog.
THEOREM NoEarlyResetCorrect == WatchdogSpec => []NoEarlyReset
<1>1. WatchdogInv => NoEarlyReset
      BY DEF WatchdogInv, NoEarlyReset
<1> QED
    BY <1>1, WatchdogCounts, PTL

-------------------------------------------------------------------------------
(* Tones.                                                                  *)

\* What a byte holds.
Digit == 0 .. Byte - 1

\* Division with rest, of a number of two digits at most.
LEMMA DivMod ==
  ASSUME NEW n \in Nat, NEW b \in Nat \ {0}, NEW c \in Nat, n < b * c
  PROVE  n \div b \in Nat /\ n \div b < c /\ n % b \in 0 .. b - 1
           /\ n = b * (n \div b) + (n % b)
<1>1. n \div b \in Nat /\ n % b \in 0 .. b - 1 /\ n = b * (n \div b) + (n % b)
      OBVIOUS
<1>2. n \div b < c
      BY <1>1
<1> QED
    BY <1>1, <1>2

\* The bytes of a count of four bytes make that count again.
LEMMA BytesMakeNumber ==
  ASSUME NEW n \in 0 .. ULong - 1
  PROVE  Bytes(n) \in Digit \X Digit \X Digit \X Digit /\ Number(Bytes(n)) = n
<1>0. Byte \in Nat \ {0}
      BY ToneAssumption
<1> DEFINE n2 == n \div Byte  n3 == n2 \div Byte  n4 == n3 \div Byte
<1>1. Bytes(n) = <<n % Byte, n2 % Byte, n3 % Byte, n4>>
      BY DEF Bytes
<1>2. n2 \in Nat /\ n2 < Byte * (Byte * Byte) /\ n % Byte \in Digit /\ n = Byte * n2 + (n % Byte)
  <2>1. n \in Nat /\ n < Byte * (Byte * (Byte * Byte)) /\ Byte * (Byte * Byte) \in Nat
        BY <1>0 DEF ULong, UInt
  <2> QED
      BY <1>0, <2>1, DivMod DEF Digit
<1>3. n3 \in Nat /\ n3 < Byte * Byte /\ n2 % Byte \in Digit /\ n2 = Byte * n3 + (n2 % Byte)
  <2> HIDE DEF n2
  <2>1. Byte * Byte \in Nat
        BY <1>0
  <2> QED
      BY <1>0, <1>2, <2>1, DivMod DEF Digit
<1>4. n4 \in Digit /\ n3 % Byte \in Digit /\ n3 = Byte * n4 + (n3 % Byte)
  <2> HIDE DEF n3
  <2>1. n4 \in Nat /\ n4 < Byte /\ n3 % Byte \in Digit /\ n3 = Byte * n4 + (n3 % Byte)
        BY <1>0, <1>3, DivMod DEF Digit
  <2> QED
      BY <1>0, <2>1 DEF Digit
<1> HIDE DEF n2, n3, n4
<1>5. Number(Bytes(n)) = n
      BY <1>0, <1>1, <1>2, <1>3, <1>4 DEF Number, Digit
<1> QED
    BY <1>1, <1>2, <1>3, <1>4, <1>5

\* The counts of toggles, byte by byte.
Count == Digit \X Digit \X Digit \X Digit

\* The timers there may be, and how far play or stop may have come.
Toned == [ctc : BOOLEAN, bits : Nat, ocr : Int, toggle_count : Count, on : BOOLEAN,
          pin : Pins \cup {"none"}, f : Nat, due : 0 .. ULong - 1, spoilt : BOOLEAN]

Runs ==
  {Idle} \cup [at : {"ocr"}, t : Timers, f : Frequencies, d : Durations, ocr : Int]
    \cup [at : {"count"}, t : Timers, f : Frequencies, d : Durations, low : BOOLEAN, k : 1 .. 4,
          new : 0 .. ULong - 1]
    \cup [at : {"enable"}, t : Timers] \cup [at : {"low"}, pin : Pins]

ToneTypeOK ==
  /\ _tone_pin_count \in 0 .. Len(TimerOrder)
  /\ tone \in [Tones -> [_pin : Pins, _timer : Timers \cup {-1}, begun : BOOLEAN]]
  /\ timer \in [Timers -> Toned]
  /\ level \in [Pins -> {0, 1}]
  /\ run \in Runs

\* The timers that have been given away.
Taken == {TimerOrder[i] : i \in 1 .. _tone_pin_count}

\* play is at work on the timer t.
Playing(t) == run.at \in {"ocr", "count", "enable"} /\ run.t = t

\* A Tone that has been begun has a timer of its own and its pin, and a timer that
\* nobody has got is as it was at power on.
Owners ==
  /\ \A x \in Tones : tone[x].begun /\ TimerOf(x) # -1 =>
       TimerOf(x) \in Taken /\ timer[TimerOf(x)].pin = tone[x]._pin
  /\ \A x, y \in Tones :
       x # y /\ tone[x].begun /\ tone[y].begun /\ TimerOf(x) = TimerOf(y) => TimerOf(x) = -1
  /\ \A t \in Taken : timer[t].ctc /\ timer[t].pin \in Pins
  /\ \A t \in Timers \ Taken : timer[t] = Unused /\ ~Playing(t)

\* A pin that is high is toggled by a timer, or is about to be set low.
Lows ==
  \A p \in Pins :
    \/ level[p] = 0
    \/ \E t \in Timers : timer[t].pin = p /\ timer[t].on
    \/ run.at = "low" /\ run.pin = p

\* The bytes that play has written, when no interrupt came between.
Written(i) == IF run.low THEN i < run.k ELSE i > 5 - run.k

\* The interrupt of t is about to be enabled.
Enabling(t) == run.at = "enable" /\ run.t = t

\* A count that play has written is the number of toggles still due, or spoilt.
Counts ==
  /\ \A t \in Timers : timer[t].spoilt /\ ~Writes(t) => timer[t].due = 0
  /\ \A t \in Timers :
       (timer[t].on \/ Enabling(t)) /\ ~timer[t].spoilt /\ ~Writes(t) =>
         Number(timer[t].toggle_count) = timer[t].due
  /\ run.at = "count" /\ run.k > 1 /\ ~timer[run.t].spoilt =>
       /\ TogglesOf(run.f, run.d) = run.new /\ timer[run.t].due = run.new
       /\ \A i \in 1 .. 4 : Written(i) => timer[run.t].toggle_count[i] = Bytes(run.new)[i]

\* A timer whose interrupt is, or is about to be, enabled has the prescaler and the
\* compare value of its frequency.
HasBits(t, f) == timer[t].bits = PrescalarBits(t, Prescalar(t, f))
HasOcr(t, f, ocr) == ocr = Ocr(t, Prescalar(t, f), f) % (Top(t) + 1)

\* The registers fit the frequency from the moment play has written them.
Tuned ==
  /\ run.at = "ocr" => HasBits(run.t, run.f) /\ HasOcr(run.t, run.f, run.ocr)
  /\ \A t \in Timers :
       (IF Playing(t) THEN run.at # "ocr" ELSE timer[t].on) =>
         /\ timer[t].f \in Frequencies
         /\ HasBits(t, timer[t].f) /\ HasOcr(t, timer[t].f, timer[t].ocr)

\* The inductive invariant.
ToneInv == ToneTypeOK /\ Owners /\ Lows /\ Counts /\ Tuned

-------------------------------------------------------------------------------
(* The constants.                                                          *)

\* The width of a count.
LEMMA ULongIsNat == ULong \in Nat /\ ULong >= 16 /\ ULong \div 2 \in Nat /\ ULong \div 2 <= ULong
<1>1. Byte \in Nat /\ Byte >= 2
      BY ToneAssumption
<1>2. UInt \in Nat /\ UInt >= 4
      BY <1>1 DEF UInt
<1>3. ULong \in Nat /\ ULong >= 16
      BY <1>2 DEF ULong
<1> QED
    BY <1>3

\* The timers: timer 0, and those of TimerOrder, each once.
LEMMA TimersAre ==
  /\ Timers \subseteq 0 .. 5 /\ 0 \in Timers
  /\ Len(TimerOrder) \in Nat
  /\ \A i \in 1 .. Len(TimerOrder) : TimerOrder[i] \in Timers
  /\ \A i, j \in 1 .. Len(TimerOrder) : TimerOrder[i] = TimerOrder[j] => i = j
  /\ \A i \in 1 .. Len(TimerOrder) : TimerOrder[i] = 0 => i = Len(TimerOrder)
  /\ \A t \in Timers \ {0} : \E i \in 1 .. Len(TimerOrder) : t = TimerOrder[i]
BY ToneAssumption DEF Timers

LEMMA TakenAre == ASSUME ToneTypeOK PROVE Taken \subseteq Timers
BY TimersAre DEF ToneTypeOK, Taken

LEMMA UnusedIsToned == Unused \in Toned
<1>1. Bytes(0) \in Count
      BY BytesMakeNumber, ULongIsNat DEF Count
<1> QED
    BY <1>1, ULongIsNat DEF Unused, Toned

\* Two states of a timer with the same tone in them.
SameTone(r, q) ==
  /\ r.f = q.f /\ r.bits = q.bits /\ r.ocr = q.ocr
  /\ r.toggle_count = q.toggle_count /\ r.due = q.due /\ r.spoilt = q.spoilt

\* A timer whose interrupt has been disabled: it keeps what a play under way writes.
LEMMA SilencedIs ==
  ASSUME ToneTypeOK, NEW t \in Timers
  PROVE  /\ Silenced(t) \in Toned
         /\ ~Silenced(t).on /\ Silenced(t).pin = timer[t].pin /\ Silenced(t).ctc = timer[t].ctc
         /\ SameTone(Silenced(t), timer[t])
              \/ (~Playing(t) /\ ~Silenced(t).spoilt /\ Silenced(t).due = 0)
<1>1. timer[t] \in Toned
      BY DEF ToneTypeOK
<1>2. CASE Playing(t)
  <2>1. Silenced(t) = [timer[t] EXCEPT !.on = FALSE]
        BY <1>2 DEF Silenced, Playing
  <2> QED
      BY <1>1, <2>1 DEF Toned, SameTone
<1>3. CASE ~Playing(t)
  <2>1. Silenced(t) = [Unused EXCEPT !.ctc = timer[t].ctc, !.pin = timer[t].pin]
        BY <1>3 DEF Silenced, Playing
  <2>2. ~Unused.on /\ ~Unused.spoilt /\ Unused.due = 0
        BY DEF Unused
  <2> QED
      BY <1>1, <1>3, <2>1, <2>2, UnusedIsToned DEF Toned
<1> QED
    BY <1>2, <1>3

\* A product of 32 bits, divided, is a count of four bytes.
LEMMA TogglesInWidth ==
  ASSUME NEW f \in Frequencies, NEW d \in Durations
  PROVE  Toggles(f, d) \in 0 .. ULong - 1
<1>1. f \in Nat /\ d \in Nat /\ Second \in Nat \ {0}
      BY ToneAssumption
<1>2. UInt \in Nat \ {0} /\ ULong \in Nat \ {0}
      BY ULongIsNat, ToneAssumption DEF UInt
<1> DEFINE m == (((2 * f) % UInt) * d) % ULong
<1>3. m \in 0 .. ULong - 1
  <2>1. (2 * f) % UInt \in Nat
        BY <1>1, <1>2
  <2>2. ((2 * f) % UInt) * d \in Nat
        BY <1>1, <2>1
  <2> QED
      BY <1>2, <2>2
<1> HIDE DEF m
<1>4. m \div Second \in 0 .. ULong - 1
      BY <1>1, <1>2, <1>3
<1>5. Toggles(f, d) = IF d = 0 THEN ULong - 1 ELSE m \div Second
      BY DEF Toggles, Infinite, m
<1> QED
    BY <1>2, <1>4, <1>5

-------------------------------------------------------------------------------
(* The prescaler that play chooses.                                        *)

\* The search of play ends at one of the divisions.
LEMMA PrescalarIs ==
  ASSUME NEW t \in Timers, NEW f \in Frequencies
  PROVE  /\ Len(Prescalars(t)) \in 1 .. 7
         /\ Prescalar(t, f) \in 1 .. Len(Prescalars(t))
         /\ Prescalars(t)[Prescalar(t, f)] \in 1 .. 1024
         /\ (\E j \in 1 .. Len(Prescalars(t)) : Fits(t, j, f)) => Fits(t, Prescalar(t, f), f)
<1> DEFINE n == Len(Prescalars(t))
<1>1. n \in {2, 5, 7}
      BY DEF Prescalars
<1>2. \A j \in 1 .. n : Prescalars(t)[j] \in 1 .. 1024
      BY DEF Prescalars
<1> DEFINE First(i) == /\ \A j \in 1 .. i - 1 : ~Fits(t, j, f)
                       /\ i = n \/ Fits(t, i, f)
<1> HIDE DEF n
<1>3. \E i \in 1 .. n : First(i)
  <2>1. CASE \E j \in 1 .. n : Fits(t, j, f)
    <3>1. \E i \in 1 .. n : Fits(t, i, f) /\ \A j \in 1 .. i - 1 : ~Fits(t, j, f)
          BY <1>1, <2>1
    <3> QED
        BY <3>1
  <2>2. CASE ~\E j \in 1 .. n : Fits(t, j, f)
        BY <1>1, <2>2
  <2> QED
      BY <2>1, <2>2
<1>4. Prescalar(t, f) \in 1 .. n /\ First(Prescalar(t, f))
      BY <1>3 DEF Prescalar, n
<1>5. (\E j \in 1 .. n : Fits(t, j, f)) => Fits(t, Prescalar(t, f), f)
      BY <1>1, <1>4
<1>6. Prescalars(t)[Prescalar(t, f)] \in 1 .. 1024
      BY <1>2, <1>4
<1>7. n \in 1 .. 7
      BY <1>1
<1> QED
    BY <1>4, <1>5, <1>6, <1>7 DEF n

\* What play writes into the registers of the timer.
LEMMA PrescalarTypes ==
  ASSUME NEW t \in Timers, NEW f \in Frequencies
  PROVE  /\ PrescalarBits(t, Prescalar(t, f)) \in Nat
         /\ Ocr(t, Prescalar(t, f), f) \in Int
         /\ Top(t) \in Nat
         /\ Ocr(t, Prescalar(t, f), f) % (Top(t) + 1) \in Int
<1> DEFINE i == Prescalar(t, f)  p == Prescalars(t)[i]
<1>1. i \in 1 .. 7 /\ p \in 1 .. 1024
      BY PrescalarIs
<1>2. F_CPU \in Nat /\ f \in Nat \ {0} /\ Byte \in Nat /\ Byte >= 2
      BY ToneAssumption
<1> HIDE DEF i, p
<1>3. Ocr(t, i, f) \in Int
      BY SMTT(30), <1>1, <1>2 DEF Ocr, p
<1>4. UInt \in Nat /\ UInt >= 4
      BY <1>2 DEF UInt
<1>5. Top(t) \in Nat
      BY <1>2, <1>4 DEF Top
<1>6. PrescalarBits(t, i) \in Nat
      BY <1>1 DEF PrescalarBits
<1>7. Ocr(t, i, f) % (Top(t) + 1) \in Int
      BY <1>3, <1>5
<1> QED
    BY <1>3, <1>5, <1>6, <1>7 DEF i

-------------------------------------------------------------------------------
(* The invariant holds at power on, and every step keeps it.               *)

\* At power on nothing sounds and no timer has been given away.
LEMMA ToneStarts == ASSUME ToneInit PROVE ToneInv
<1> USE DEF ToneInit
<1>1. Pin0 \in Pins
      BY ToneAssumption
<1>2. ToneTypeOK
      BY <1>1, UnusedIsToned, TimersAre DEF ToneTypeOK, Runs
<1>3. Taken = {} /\ ~Unused.on /\ ~Unused.spoilt /\ Unused.due = 0 /\ run.at = "none"
      BY DEF Taken, Unused, Idle
<1>4. Owners /\ Lows /\ Counts /\ Tuned
      BY <1>3 DEF Owners, Lows, Counts, Tuned, Playing, Enabling
<1> QED
    BY <1>2, <1>4 DEF ToneInv

\* begin takes the next timer, which nobody has got, or none.
LEMMA BeginKeeps ==
  ASSUME ToneInv, NEW x \in Tones, NEW pin \in Pins, begin(x, pin)
  PROVE  ToneInv'
<1> USE DEF ToneInv
<1>0. run = Idle /\ run' = run /\ level' = level /\ run.at = "none"
      BY DEF begin, Idle
<1>1. CASE _tone_pin_count < Len(TimerOrder)
  <2> DEFINE t == TimerOrder[_tone_pin_count + 1]
  <2>1. /\ _tone_pin_count' = _tone_pin_count + 1
        /\ tone' = [tone EXCEPT ![x] = [_pin |-> pin, _timer |-> t, begun |-> TRUE]]
        /\ timer' = [timer EXCEPT ![t].ctc = TRUE, ![t].bits = 1, ![t].pin = pin]
        BY <1>1 DEF begin
  <2>2. t \in Timers /\ t \notin Taken /\ Taken' = Taken \cup {t} /\ t # -1
        BY <1>1, <2>1, TimersAre DEF ToneTypeOK, Taken
  <2>3. timer[t] = Unused /\ ~Unused.on
        BY <2>2 DEF Owners, Unused
  <2> HIDE DEF t
  <2>a. timer \in [Timers -> Toned] /\ timer[t] \in Toned
        BY <2>2 DEF ToneTypeOK
  <2> DEFINE r == [timer[t] EXCEPT !.ctc = TRUE, !.bits = 1, !.pin = pin]
  <2>b. /\ r \in Toned /\ r.ctc /\ r.pin = pin /\ r.on = timer[t].on /\ r.spoilt = timer[t].spoilt
        /\ r.due = timer[t].due /\ r.toggle_count = timer[t].toggle_count
        BY <2>a DEF Toned
  <2>c. timer' = [timer EXCEPT ![t] = r]
        BY <2>1, <2>a
  <2> HIDE DEF r
  <2> DEFINE q == [_pin |-> pin, _timer |-> t, begun |-> TRUE]
  <2>d. /\ q \in [_pin : Pins, _timer : Timers \cup {-1}, begun : BOOLEAN]
        /\ q._timer = t /\ q._pin = pin
        BY <2>2
  <2>e. tone' = [tone EXCEPT ![x] = q]
        BY <2>1
  <2> HIDE DEF q
  <2>4. ToneTypeOK'
    <3>1. _tone_pin_count' \in 0 .. Len(TimerOrder)
          BY <1>1, <2>1, TimersAre DEF ToneTypeOK
    <3> QED
        BY <1>0, <2>2, <2>b, <2>c, <2>d, <2>e, <3>1 DEF ToneTypeOK
  <2>5. Owners'
    <3> USE <2>d, <2>e DEF ToneTypeOK
    <3>1. \A y \in Tones : y # x => tone'[y] = tone[y]
          OBVIOUS
    <3>2. tone'[x] = q
          OBVIOUS
    <3>3. timer'[t] = r /\ \A u \in Timers : u # t => timer'[u] = timer[u]
          BY <2>2, <2>c
    <3>4. \A y \in Tones : y # x /\ tone[y].begun => tone[y]._timer # t
          BY <2>2 DEF Owners, TimerOf
    <3>5. \A y \in Tones : tone'[y].begun /\ TimerOf(y)' # -1 =>
            TimerOf(y)' \in Taken' /\ timer'[TimerOf(y)'].pin = tone'[y]._pin
          BY <2>2, <2>b, <3>1, <3>2, <3>3, <3>4 DEF Owners, TimerOf
    <3>6. \A y, z \in Tones :
            y # z /\ tone'[y].begun /\ tone'[z].begun /\ TimerOf(y)' = TimerOf(z)' =>
              TimerOf(y)' = -1
          BY <3>1, <3>2, <3>4 DEF Owners, TimerOf
    <3>7. \A u \in Taken' : timer'[u].ctc /\ timer'[u].pin \in Pins
          BY <2>2, <2>b, <3>3, TakenAre DEF Owners
    <3>8. \A u \in Timers \ Taken' : timer'[u] = Unused /\ ~Playing(u)'
          BY <1>0, <2>2, <3>3 DEF Owners, Playing
    <3> QED
        BY <3>5, <3>6, <3>7, <3>8 DEF Owners
  <2>6. Lows'
        BY <1>0, <2>2, <2>3, <2>b, <2>c DEF Lows, ToneTypeOK
  <2>7. Counts'
        BY <1>0, <2>2, <2>b, <2>c DEF Counts, ToneTypeOK, Enabling, Writes
  <2>8. Tuned'
        BY <1>0, <2>2, <2>3, <2>b, <2>c DEF Tuned, ToneTypeOK, Playing, HasBits, HasOcr
  <2> QED
      BY <2>4, <2>5, <2>6, <2>7, <2>8
<1>2. CASE ~(_tone_pin_count < Len(TimerOrder))
  <2>1. tone' = [tone EXCEPT ![x]._timer = -1, ![x].begun = TRUE]
        BY <1>2 DEF begin
  <2>2. UNCHANGED <<_tone_pin_count, timer>>
        BY <1>2 DEF begin
  <2>3. ToneTypeOK'
        BY <1>0, <2>1, <2>2 DEF ToneTypeOK
  <2>4. Owners'
        BY <1>0, <2>1, <2>2 DEF Owners, ToneTypeOK, TimerOf, Playing, Taken
  <2>5. Lows' /\ Counts' /\ Tuned'
        BY <1>0, <2>2 DEF Lows, Counts, Tuned, Enabling, Writes, Playing, HasBits, HasOcr, Written
  <2> QED
      BY <2>3, <2>4, <2>5
<1> QED
    BY <1>1, <1>2

\* play writes the mode and the prescaler of its timer.
LEMMA PlayKeeps ==
  ASSUME ToneInv, NEW x \in Tones, NEW f \in Frequencies, NEW d \in Durations,
         tone[x].begun, play(x, f, d)
  PROVE  ToneInv'
<1> USE DEF ToneInv
<1> DEFINE t == TimerOf(x)
<1>0. run.at = "none" /\ UNCHANGED <<_tone_pin_count, tone, level>>
      BY DEF play, Idle
<1>1. CASE t = -1
  <2>1. UNCHANGED <<timer, run>>
        BY <1>1 DEF play
  <2> QED
      BY <1>0, <2>1 DEF ToneTypeOK, Owners, Lows, Counts, Tuned, Enabling, Writes, Playing,
                        HasBits, HasOcr, Written, Taken, TimerOf
<1>2. CASE t # -1
  <2> DEFINE i == Prescalar(t, f)
  <2>1. /\ timer' = [timer EXCEPT ![t].bits = PrescalarBits(t, i)]
        /\ run' = [at |-> "ocr", t |-> t, f |-> f, d |-> d, ocr |-> Ocr(t, i, f) % (Top(t) + 1)]
        BY <1>2 DEF play
  <2>2. t \in Taken /\ t \in Timers
        BY <1>2 DEF Owners, ToneTypeOK, TimerOf
  <2>3. PrescalarBits(t, i) \in Nat /\ Ocr(t, i, f) % (Top(t) + 1) \in Int
        BY <2>2, PrescalarTypes
  <2> HIDE DEF t, i
  <2>a. timer \in [Timers -> Toned] /\ timer[t] \in Toned
        BY <2>2 DEF ToneTypeOK
  <2> DEFINE r == [timer[t] EXCEPT !.bits = PrescalarBits(t, i)]
  <2>b. /\ r \in Toned /\ r.ctc = timer[t].ctc /\ r.pin = timer[t].pin /\ r.on = timer[t].on
        /\ r.spoilt = timer[t].spoilt /\ r.due = timer[t].due
        /\ r.toggle_count = timer[t].toggle_count /\ r.bits = PrescalarBits(t, i)
        BY <2>3, <2>a DEF Toned
  <2>c. timer' = [timer EXCEPT ![t] = r]
        BY <2>1, <2>a
  <2> HIDE DEF r
  <2>4. ToneTypeOK'
        BY <1>0, <2>1, <2>2, <2>3, <2>b, <2>c DEF ToneTypeOK, Runs
  <2>5. Owners'
        BY <1>0, <2>1, <2>2, <2>b, <2>c DEF Owners, ToneTypeOK, TimerOf, Playing, Taken
  <2>6. Lows'
        BY <1>0, <2>1, <2>2, <2>b, <2>c DEF Lows, ToneTypeOK
  <2>7. Counts'
        BY <1>0, <2>1, <2>2, <2>b, <2>c DEF Counts, ToneTypeOK, Enabling, Writes
  <2>8. Tuned'
        BY <1>0, <2>1, <2>2, <2>b, <2>c DEF Tuned, ToneTypeOK, Playing, HasBits, HasOcr, i
  <2> QED
      BY <2>4, <2>5, <2>6, <2>7, <2>8
<1> QED
    BY <1>1, <1>2

\* play writes the compare register.
LEMMA PlayOcrKeeps == ASSUME ToneInv, PlayOcr PROVE ToneInv'
<1> USE DEF ToneInv
<1> DEFINE t == run.t
<1>0. run.at = "ocr" /\ UNCHANGED <<_tone_pin_count, tone, level>>
      BY DEF PlayOcr
<1>1. /\ t \in Timers /\ run.f \in Frequencies /\ run.d \in Durations /\ run.ocr \in Int
      /\ run.f \in Nat
  <2>1. run \in [at : {"ocr"}, t : Timers, f : Frequencies, d : Durations, ocr : Int]
        BY <1>0 DEF ToneTypeOK, Runs, Idle
  <2>2. Frequencies \subseteq Nat
        BY ToneAssumption
  <2> QED
      BY <2>1, <2>2
<1>2. PICK lowest \in BOOLEAN :
        run' = [at |-> "count", t |-> t, f |-> run.f, d |-> run.d, low |-> lowest, k |-> 1,
                new |-> Toggles(run.f, run.d)]
      BY DEF PlayOcr
<1>3. Toggles(run.f, run.d) \in 0 .. ULong - 1
      BY <1>1, TogglesInWidth
<1> DEFINE r == [timer[t] EXCEPT !.ocr = run.ocr, !.f = run.f]
<1>4. timer \in [Timers -> Toned] /\ timer[t] \in Toned
      BY <1>1 DEF ToneTypeOK
<1>5. /\ r \in Toned /\ r.ctc = timer[t].ctc /\ r.pin = timer[t].pin /\ r.on = timer[t].on
      /\ r.bits = timer[t].bits /\ r.f = run.f /\ r.ocr = run.ocr
      /\ r.toggle_count = timer[t].toggle_count /\ r.due = timer[t].due
      /\ r.spoilt = timer[t].spoilt
      BY <1>1, <1>4 DEF Toned
<1>6. timer' = [timer EXCEPT ![t] = r]
      BY <1>0, <1>4 DEF PlayOcr
<1> HIDE DEF t, r
<1>7. t \in Taken
      BY <1>0, <1>1 DEF Owners, Playing, t
<1>a. /\ run'.at = "count" /\ run'.t = t /\ run'.k = 1 /\ run'.f = run.f /\ run'.d = run.d
      BY <1>2
<1>8. ToneTypeOK'
      BY <1>0, <1>1, <1>2, <1>3, <1>5, <1>6 DEF ToneTypeOK, Runs
<1>9. Owners'
      BY <1>0, <1>a, <1>1, <1>5, <1>6, <1>7 DEF Owners, ToneTypeOK, TimerOf, Playing, Taken
<1>10. Lows'
      BY <1>0, <1>a, <1>1, <1>5, <1>6 DEF Lows, ToneTypeOK
<1>11. Counts'
      BY <1>0, <1>a, <1>1, <1>5, <1>6 DEF Counts, ToneTypeOK, Enabling, Writes
<1>12. Tuned'
      BY <1>0, <1>a, <1>1, <1>5, <1>6 DEF Tuned, ToneTypeOK, Playing, HasBits, HasOcr, t
<1> QED
    BY <1>8, <1>9, <1>10, <1>11, <1>12

\* play writes one byte of the count.
LEMMA PlayCountKeeps == ASSUME ToneInv, PlayCount PROVE ToneInv'
<1> USE DEF ToneInv
<1> DEFINE t == run.t
           i == IF run.low THEN run.k ELSE 5 - run.k
<1>0. run.at = "count" /\ UNCHANGED <<_tone_pin_count, tone, level>>
      BY DEF PlayCount
<1>1. /\ t \in Timers /\ run.f \in Frequencies /\ run.d \in Durations /\ run.k \in 1 .. 4
      /\ run.new \in 0 .. ULong - 1 /\ run.low \in BOOLEAN /\ i \in 1 .. 4
  <2>1. run \in [at : {"count"}, t : Timers, f : Frequencies, d : Durations, low : BOOLEAN,
                 k : 1 .. 4, new : 0 .. ULong - 1]
        BY <1>0 DEF ToneTypeOK, Runs, Idle
  <2> QED
      BY <2>1
<1>2. run' = IF run.k = 4 THEN [at |-> "enable", t |-> t] ELSE [run EXCEPT !.k = @ + 1]
      BY DEF PlayCount
<1> DEFINE due == IF Spoils THEN 0 ELSE run.new
           count == [timer[t].toggle_count EXCEPT ![i] = Bytes(run.new)[i]]
           r == [timer[t] EXCEPT !.toggle_count = count, !.due = due, !.spoilt = Spoils]
<1>3. timer \in [Timers -> Toned] /\ timer[t] \in Toned /\ timer[t].toggle_count \in Count
      BY <1>1 DEF ToneTypeOK, Toned
<1>4. Bytes(run.new) \in Count /\ Number(Bytes(run.new)) = run.new
      BY <1>1, BytesMakeNumber DEF Count
<1>5. due \in 0 .. ULong - 1
      BY <1>1, ULongIsNat
<1>6. count \in Count /\ count[i] = Bytes(run.new)[i]
        /\ \A j \in 1 .. 4 : j # i => count[j] = timer[t].toggle_count[j]
      BY <1>1, <1>3, <1>4 DEF Count
<1>7. Spoils \in BOOLEAN
      BY DEF Spoils
<1>8. timer' = [timer EXCEPT ![t] = r]
      BY <1>0, <1>3 DEF PlayCount
<1> HIDE DEF t, i, due, count
<1>9. /\ r \in Toned /\ r.ctc = timer[t].ctc /\ r.pin = timer[t].pin /\ r.on = timer[t].on
      /\ r.bits = timer[t].bits /\ r.f = timer[t].f /\ r.ocr = timer[t].ocr
      /\ r.toggle_count = count /\ r.due = due /\ r.spoilt = Spoils
      BY <1>3, <1>5, <1>6, <1>7 DEF Toned
<1> HIDE DEF r
<1>10. t \in Taken
      BY <1>0, <1>1 DEF Owners, Playing, t
<1>a. /\ run'.t = t
      /\ IF run.k = 4 THEN run'.at = "enable" ELSE run'.at = "count" /\ run'.k = run.k + 1
  <2>1. run \in [at : {"count"}, t : Timers, f : Frequencies, d : Durations, low : BOOLEAN,
                 k : 1 .. 4, new : 0 .. ULong - 1]
        BY <1>0 DEF ToneTypeOK, Runs, Idle
  <2> QED
      BY <1>0, <1>1, <1>2, <2>1 DEF t
<1>11. ToneTypeOK'
  <2>1. run' \in Runs
    <3>1. CASE run.k = 4
          BY <1>1, <1>2, <3>1 DEF Runs
    <3>2. CASE run.k # 4
      <4>1. run \in [at : {"count"}, t : Timers, f : Frequencies, d : Durations, low : BOOLEAN,
                     k : 1 .. 4, new : 0 .. ULong - 1]
            BY <1>0 DEF ToneTypeOK, Runs, Idle
      <4> QED
          BY <1>1, <1>2, <3>2, <4>1 DEF Runs
    <3> QED
        BY <3>1, <3>2
  <2> QED
      BY <1>0, <1>1, <1>8, <1>9, <2>1 DEF ToneTypeOK
<1>12. Owners'
      BY <1>0, <1>a, <1>1, <1>8, <1>9, <1>10 DEF Owners, ToneTypeOK, TimerOf, Playing, Taken
<1>13. Lows'
      BY <1>0, <1>a, <1>1, <1>8, <1>9 DEF Lows, ToneTypeOK
<1>b. /\ timer'[t] = r /\ \A u \in Timers : u # t => timer'[u] = timer[u]
      BY <1>1, <1>3, <1>8
<1>c. ~Spoils => /\ TogglesOf(run.f, run.d) = run.new /\ due = run.new
                 /\ \A j \in 1 .. 4 : Written(j) \/ j = i => count[j] = Bytes(run.new)[j]
  <2> SUFFICES ASSUME ~Spoils
               PROVE  /\ TogglesOf(run.f, run.d) = run.new /\ due = run.new
                      /\ \A j \in 1 .. 4 : Written(j) \/ j = i => count[j] = Bytes(run.new)[j]
      OBVIOUS
  <2>1. TogglesOf(run.f, run.d) = run.new /\ due = run.new /\ (run.k > 1 => ~timer[t].spoilt)
        BY DEF Spoils, due, t
  <2>2. run.k = 1 => \A j \in 1 .. 4 : ~Written(j)
        BY DEF Written
  <2>3. \A j \in 1 .. 4 : Written(j) => timer[t].toggle_count[j] = Bytes(run.new)[j]
        BY <1>0, <1>1, <2>1, <2>2 DEF Counts, t
  <2> QED
      BY <1>6, <2>1, <2>3
<1>14. Counts'
  <2>1. \A u \in Timers : timer'[u].spoilt /\ ~Writes(u)' => timer'[u].due = 0
        BY <1>0, <1>a, <1>b, <1>9 DEF Counts, Writes, due, t
  <2>2. CASE run.k = 4
    <3>1. \A j \in 1 .. 4 : Written(j) \/ j = i
          BY <1>1, <2>2 DEF Written, i
    <3>2. ~Spoils => count = Bytes(run.new)
          BY <1>c, <1>4, <1>6, <3>1 DEF Count
    <3>3. ~Spoils => Number(count) = due
          BY <1>c, <1>4, <3>2
    <3>4. \A u \in Timers :
            (timer'[u].on \/ Enabling(u)') /\ ~timer'[u].spoilt /\ ~Writes(u)' =>
              Number(timer'[u].toggle_count) = timer'[u].due
          BY <1>0, <1>a, <1>b, <1>9, <2>2, <3>3 DEF Counts, Writes, Enabling, t
    <3> QED
        BY <1>a, <2>1, <2>2, <3>4 DEF Counts
  <2>3. CASE run.k # 4
    <3>1. run'.low = run.low /\ run'.f = run.f /\ run'.d = run.d /\ run'.new = run.new
      <4>1. run \in [at : {"count"}, t : Timers, f : Frequencies, d : Durations, low : BOOLEAN,
                     k : 1 .. 4, new : 0 .. ULong - 1]
            BY <1>0 DEF ToneTypeOK, Runs, Idle
      <4> QED
          BY <1>2, <2>3, <4>1
    <3>2. \A u \in Timers :
            (timer'[u].on \/ Enabling(u)') /\ ~timer'[u].spoilt /\ ~Writes(u)' =>
              Number(timer'[u].toggle_count) = timer'[u].due
          BY <1>0, <1>a, <1>b, <1>9, <2>3 DEF Counts, Writes, Enabling, t
    <3>3. \A j \in 1 .. 4 : Written(j)' => Written(j) \/ j = i
          BY <1>1, <1>a, <2>3, <3>1 DEF Written, i
    <3>4. TogglesOf(run'.f, run'.d) = TogglesOf(run.f, run.d)
          BY <3>1
    <3>5. ~timer'[t].spoilt =>
            /\ TogglesOf(run'.f, run'.d) = run'.new /\ timer'[t].due = run'.new
            /\ \A j \in 1 .. 4 : Written(j)' => timer'[t].toggle_count[j] = Bytes(run'.new)[j]
          BY <1>c, <1>b, <1>9, <3>1, <3>3, <3>4
    <3> QED
        BY <1>a, <2>1, <3>2, <3>5 DEF Counts
  <2> QED
      BY <2>2, <2>3
<1>15. Tuned'
      BY <1>0, <1>a, <1>1, <1>8, <1>9 DEF Tuned, ToneTypeOK, Playing, HasBits, HasOcr, t
<1> QED
    BY <1>11, <1>12, <1>13, <1>14, <1>15

\* play enables the interrupt: what it has written is complete.
LEMMA PlayEnableKeeps == ASSUME ToneInv, PlayEnable PROVE ToneInv'
<1> USE DEF ToneInv
<1> DEFINE t == run.t
<1>0. run.at = "enable" /\ UNCHANGED <<_tone_pin_count, tone, level>> /\ run' = Idle
        /\ run'.at = "none"
      BY DEF PlayEnable, Idle
<1>1. t \in Timers
      BY <1>0 DEF ToneTypeOK, Runs, Idle
<1> DEFINE r == [timer[t] EXCEPT !.on = TRUE]
<1>3. timer \in [Timers -> Toned] /\ timer[t] \in Toned
      BY <1>1 DEF ToneTypeOK
<1>4. /\ r \in Toned /\ r.ctc = timer[t].ctc /\ r.pin = timer[t].pin /\ r.on
      /\ r.bits = timer[t].bits /\ r.f = timer[t].f /\ r.ocr = timer[t].ocr
      /\ r.toggle_count = timer[t].toggle_count /\ r.due = timer[t].due
      /\ r.spoilt = timer[t].spoilt
      BY <1>3 DEF Toned
<1>5. timer' = [timer EXCEPT ![t] = r]
      BY <1>0, <1>3 DEF PlayEnable
<1> HIDE DEF r
<1>6. t \in Taken
      BY <1>0, <1>1 DEF Owners, Playing
<1>7. ToneTypeOK'
      BY <1>0, <1>1, <1>4, <1>5 DEF ToneTypeOK, Runs
<1>8. Owners'
      BY <1>0, <1>1, <1>4, <1>5, <1>6 DEF Owners, ToneTypeOK, TimerOf, Playing, Taken
<1>9. Lows'
      BY <1>0, <1>1, <1>4, <1>5 DEF Lows, ToneTypeOK
<1>10. Counts'
      BY <1>0, <1>1, <1>4, <1>5 DEF Counts, ToneTypeOK, Enabling, Writes
<1>11. Tuned'
      BY <1>0, <1>1, <1>4, <1>5 DEF Tuned, ToneTypeOK, Playing, HasBits, HasOcr
<1> QED
    BY <1>7, <1>8, <1>9, <1>10, <1>11

\* stop silences the timer of the Tone, and has its pin still to set low.
LEMMA StopKeeps ==
  ASSUME ToneInv, NEW x \in Tones, tone[x].begun, stop(x)
  PROVE  ToneInv'
<1> USE DEF ToneInv
<1> DEFINE t == TimerOf(x)
<1>0. /\ run.at = "none" /\ UNCHANGED <<_tone_pin_count, tone, level>>
      /\ run' = [at |-> "low", pin |-> tone[x]._pin]
      /\ run'.at = "low" /\ run'.pin = tone[x]._pin
      BY DEF stop, Idle
<1>1. tone[x]._pin \in Pins
      BY DEF ToneTypeOK
<1>2. run' \in Runs
      BY <1>0, <1>1 DEF Runs
<1>3. CASE t = -1
  <2>1. timer' = timer
        BY <1>3 DEF stop
  <2>2. ToneTypeOK'
        BY <1>0, <1>2, <2>1 DEF ToneTypeOK
  <2>3. Owners'
        BY <1>0, <2>1 DEF Owners, Playing, Taken, TimerOf
  <2>4. Lows'
        BY <1>0, <2>1 DEF Lows
  <2>5. Counts'
        BY <1>0, <2>1 DEF Counts, Enabling, Writes
  <2>6. Tuned'
        BY <1>0, <2>1 DEF Tuned, Playing, HasBits, HasOcr
  <2> QED
      BY <2>2, <2>3, <2>4, <2>5, <2>6
<1>4. CASE t # -1
  <2>1. t \in Taken /\ t \in Timers /\ timer[t].pin = tone[x]._pin
        BY <1>4, TakenAre DEF Owners
  <2>2. timer' = [timer EXCEPT ![t] = Silenced(t)]
        BY <1>4 DEF stop
  <2> DEFINE r == Silenced(t)
  <2>3. /\ r \in Toned /\ ~r.on /\ r.pin = timer[t].pin /\ r.ctc = timer[t].ctc
        /\ SameTone(r, timer[t]) \/ (~Playing(t) /\ ~r.spoilt /\ r.due = 0)
        BY <2>1, SilencedIs
  <2> HIDE DEF t, r
  <2>a. timer'[t] = r /\ \A u \in Timers : u # t => timer'[u] = timer[u]
        BY <2>1, <2>2 DEF ToneTypeOK, r
  <2>4. ToneTypeOK'
        BY <1>0, <1>2, <2>1, <2>2, <2>3 DEF ToneTypeOK, r
  <2>5. Owners'
    <3>1. /\ Taken' = Taken /\ Taken \subseteq Timers
          /\ \A u \in Tones : tone'[u] = tone[u] /\ TimerOf(u)' = TimerOf(u)
          BY <1>0, TakenAre DEF Taken, TimerOf
    <3>2. \A u \in Timers : timer'[u].pin = timer[u].pin /\ timer'[u].ctc = timer[u].ctc
          BY <2>3, <2>a
    <3>3. \A u \in Tones : tone[u].begun /\ TimerOf(u) # -1 =>
             TimerOf(u) \in Taken /\ timer'[TimerOf(u)].pin = tone[u]._pin
          BY <3>1, <3>2 DEF Owners
    <3>4. \A u \in Taken : timer'[u].ctc /\ timer'[u].pin \in Pins
          BY <3>1, <3>2 DEF Owners
    <3>5. \A u \in Timers \ Taken : timer'[u] = Unused /\ ~Playing(u)'
          BY <1>0, <2>1, <2>a DEF Owners, Playing
    <3> QED
        BY <3>1, <3>3, <3>4, <3>5 DEF Owners
  <2>6. Lows'
        BY <1>0, <2>1, <2>3, <2>a DEF Lows
  <2>7. Counts'
        BY <1>0, <2>3, <2>a DEF Counts, Enabling, Writes, SameTone
  <2>8. Tuned'
        BY <1>0, <2>3, <2>a DEF Tuned, Playing, HasBits, HasOcr
  <2> QED
      BY <2>4, <2>5, <2>6, <2>7, <2>8
<1> QED
    BY <1>3, <1>4

\* stop sets the pin low.
LEMMA StopLowKeeps == ASSUME ToneInv, StopLow PROVE ToneInv'
<1> USE DEF ToneInv
<1>0. /\ run.at = "low" /\ run' = Idle /\ run'.at = "none"
      /\ level' = [level EXCEPT ![run.pin] = 0]
      /\ UNCHANGED <<_tone_pin_count, tone, timer>>
      BY DEF StopLow, Idle
<1>1. ToneTypeOK'
      BY <1>0 DEF ToneTypeOK, Runs
<1>2. Owners'
      BY <1>0 DEF Owners, Playing, Taken, TimerOf
<1>3. Lows'
      BY <1>0 DEF Lows, ToneTypeOK
<1>4. Counts'
      BY <1>0 DEF Counts, Enabling, Writes
<1>5. Tuned'
      BY <1>0 DEF Tuned, Playing, HasBits, HasOcr
<1> QED
    BY <1>1, <1>2, <1>3, <1>4, <1>5

\* Four bytes make a count of the width of one.
LEMMA NumberInWidth == ASSUME NEW c \in Count PROVE Number(c) \in 0 .. ULong - 1
<1>0. Byte \in Nat \ {0} /\ c[1] \in Digit /\ c[2] \in Digit /\ c[3] \in Digit /\ c[4] \in Digit
      BY ToneAssumption DEF Count
<1> DEFINE n2 == c[3] + Byte * c[4]
           n3 == c[2] + Byte * n2
<1>1. n2 \in 0 .. Byte * Byte - 1
      BY <1>0 DEF Digit
<1> HIDE DEF n2
<1>2. n3 \in 0 .. Byte * (Byte * Byte) - 1
      BY <1>0, <1>1 DEF Digit
<1> HIDE DEF n3
<1>3. c[1] + Byte * n3 \in 0 .. Byte * (Byte * (Byte * Byte)) - 1
  <2>1. Byte * (Byte * Byte) \in Nat
        BY <1>0
  <2> QED
      BY <1>0, <1>2, <2>1 DEF Digit
<1>4. ULong = Byte * (Byte * (Byte * Byte))
      BY <1>0 DEF ULong, UInt
<1> QED
    BY <1>3, <1>4 DEF Number, n3, n2

\* The interrupt toggles the pin and counts down, or silences the timer.
LEMMA CompareKeeps == ASSUME ToneInv, NEW t \in Timers, Compare(t) PROVE ToneInv'
<1> USE DEF ToneInv
<1> DEFINE n == Number(timer[t].toggle_count)
<1>0. timer[t].on /\ UNCHANGED <<_tone_pin_count, tone, run>>
      BY DEF Compare
<1>1. timer \in [Timers -> Toned] /\ timer[t] \in Toned
      BY DEF ToneTypeOK
<1>2. n \in 0 .. ULong - 1 /\ timer[t].due \in 0 .. ULong - 1
      BY <1>1, NumberInWidth DEF Toned
<1>3. t \in Taken /\ timer[t].pin \in Pins
  <2>1. t \in Taken
        BY <1>0 DEF Owners, Unused
  <2> QED
      BY <2>1 DEF Owners
<1>4. CASE n # 0
  <2> DEFINE due == IF timer[t].due = 0 \/ Writes(t) THEN 0 ELSE Counted(timer[t].due)
             spoilt == timer[t].spoilt \/ Writes(t)
             r == [timer[t] EXCEPT !.toggle_count = Bytes(Counted(n)), !.spoilt = spoilt,
                                   !.due = due]
  <2>1. level' = Toggled(t) /\ timer' = [timer EXCEPT ![t] = r]
    <3>1. /\ level' = Toggled(t)
          /\ timer' = [timer EXCEPT
               ![t].toggle_count = Bytes(Counted(n)), ![t].spoilt = @ \/ Writes(t),
               ![t].due = IF @ = 0 \/ Writes(t) THEN 0 ELSE Counted(@)]
          BY <1>4 DEF Compare
    <3> QED
        BY <1>1, <3>1
  <2>2. Counted(n) \in 0 .. ULong - 1 /\ due \in 0 .. ULong - 1 /\ spoilt \in BOOLEAN
    <3>1. \A m \in 1 .. ULong - 1 : Counted(m) \in 0 .. ULong - 1
          BY ULongIsNat DEF Counted
    <3>2. n \in 1 .. ULong - 1
          BY <1>2, <1>4, ULongIsNat
    <3>3. timer[t].due # 0 => timer[t].due \in 1 .. ULong - 1
          BY <1>2, ULongIsNat
    <3> HIDE DEF n
    <3> QED
        BY <3>1, <3>2, <3>3, ULongIsNat
  <2>3. Bytes(Counted(n)) \in Count /\ Number(Bytes(Counted(n))) = Counted(n)
        BY <2>2, BytesMakeNumber DEF Count
  <2>4. n = timer[t].due => due = IF Writes(t) THEN 0 ELSE Counted(n)
        BY <1>4
  <2> HIDE DEF n, due, spoilt
  <2>5. /\ r \in Toned /\ r.on /\ r.ctc = timer[t].ctc /\ r.pin = timer[t].pin
        /\ r.f = timer[t].f /\ r.bits = timer[t].bits /\ r.ocr = timer[t].ocr
        /\ r.toggle_count = Bytes(Counted(n)) /\ r.spoilt = spoilt /\ r.due = due
        BY <1>0, <1>1, <2>2, <2>3 DEF Toned
  <2> HIDE DEF r
  <2>6. timer'[t] = r /\ \A u \in Timers : u # t => timer'[u] = timer[u]
        BY <1>1, <2>1
  <2>7. /\ level' \in [Pins -> {0, 1}]
        /\ \A p \in Pins : p # timer[t].pin => level'[p] = level[p]
        BY <1>3, <2>1 DEF ToneTypeOK, Toggled
  <2>8. ToneTypeOK'
        BY <1>0, <2>1, <2>5, <2>7 DEF ToneTypeOK
  <2>9. Owners'
    <3>1. /\ Taken' = Taken /\ Taken \subseteq Timers
          /\ \A u \in Tones : tone'[u] = tone[u] /\ TimerOf(u)' = TimerOf(u)
          BY <1>0, TakenAre DEF Taken, TimerOf
    <3>2. \A u \in Timers : timer'[u].pin = timer[u].pin /\ timer'[u].ctc = timer[u].ctc
          BY <2>5, <2>6
    <3>3. \A u \in Tones : tone[u].begun /\ TimerOf(u) # -1 =>
             TimerOf(u) \in Taken /\ timer'[TimerOf(u)].pin = tone[u]._pin
          BY <3>1, <3>2 DEF Owners
    <3>4. \A u \in Taken : timer'[u].ctc /\ timer'[u].pin \in Pins
          BY <3>1, <3>2 DEF Owners
    <3>5. \A u \in Timers \ Taken : timer'[u] = Unused /\ ~Playing(u)'
          BY <1>0, <1>3, <2>6 DEF Owners, Playing
    <3> QED
        BY <3>1, <3>3, <3>4, <3>5 DEF Owners
  <2>10. Lows'
        BY <1>0, <2>5, <2>6, <2>7 DEF Lows
  <2>11. Counts'
    <3>1. \A u \in Timers : timer'[u].spoilt /\ ~Writes(u)' => timer'[u].due = 0
          BY <1>0, <2>5, <2>6 DEF Counts, Writes, due, spoilt
    <3>2. \A u \in Timers :
            (timer'[u].on \/ Enabling(u)') /\ ~timer'[u].spoilt /\ ~Writes(u)' =>
              Number(timer'[u].toggle_count) = timer'[u].due
      <4>1. ~spoilt /\ ~Writes(t) => Number(Bytes(Counted(n))) = due
            BY <1>0, <2>3, <2>4 DEF Counts, spoilt, n
      <4> QED
          BY <1>0, <2>5, <2>6, <4>1 DEF Counts, Writes, Enabling
    <3>3. run.at = "count" /\ run.t = t => spoilt
          BY DEF spoilt, Writes
    <3>4. run.at = "count" => run.t \in Timers
          BY DEF ToneTypeOK, Runs, Idle
    <3> QED
        BY <1>0, <2>5, <2>6, <3>1, <3>2, <3>3, <3>4 DEF Counts, Written
  <2>12. Tuned'
    <3>1. run.at = "ocr" => run.t \in Timers
          BY DEF ToneTypeOK, Runs, Idle
    <3> QED
        BY <1>0, <2>5, <2>6, <3>1 DEF Tuned, Playing, HasBits, HasOcr
  <2> QED
      BY <2>8, <2>9, <2>10, <2>11, <2>12
<1>5. CASE n = 0
  <2> DEFINE r == [Silenced(t) EXCEPT !.spoilt = Writes(t)]
  <2>1. level' = [level EXCEPT ![timer[t].pin] = 0] /\ timer' = [timer EXCEPT ![t] = r]
    <3>1. /\ timer' = [timer EXCEPT ![t] = Silenced(t), ![t].spoilt = Writes(t)]
          /\ level' = [level EXCEPT ![timer[t].pin] = 0]
          BY <1>5 DEF Compare
    <3> QED
        BY <1>1, <3>1
  <2>2. /\ Silenced(t) \in Toned
        /\ ~Silenced(t).on /\ Silenced(t).pin = timer[t].pin /\ Silenced(t).ctc = timer[t].ctc
        /\ SameTone(Silenced(t), timer[t])
             \/ (~Playing(t) /\ ~Silenced(t).spoilt /\ Silenced(t).due = 0)
        BY SilencedIs
  <2>3. /\ r \in Toned /\ ~r.on /\ r.ctc = timer[t].ctc /\ r.pin = timer[t].pin
        /\ r.spoilt = Writes(t)
        /\ Playing(t) => /\ r.f = timer[t].f /\ r.bits = timer[t].bits /\ r.ocr = timer[t].ocr
                         /\ r.toggle_count = timer[t].toggle_count /\ r.due = timer[t].due
    <3>1. Writes(t) \in BOOLEAN
          BY DEF Writes
    <3> QED
        BY <2>2, <3>1 DEF Toned, SameTone
  <2> HIDE DEF r
  <2>6. timer'[t] = r /\ \A u \in Timers : u # t => timer'[u] = timer[u]
        BY <1>1, <2>1
  <2>7. /\ level' \in [Pins -> {0, 1}] /\ level'[timer[t].pin] = 0
        /\ \A p \in Pins : p # timer[t].pin => level'[p] = level[p]
        BY <1>3, <2>1 DEF ToneTypeOK
  <2>8. ToneTypeOK'
        BY <1>0, <2>1, <2>3, <2>7 DEF ToneTypeOK
  <2>9. Owners'
        BY <1>0, <1>3, <2>3, <2>6, TakenAre DEF Owners, ToneTypeOK, TimerOf, Playing, Taken
  <2>10. Lows'
        BY <1>0, <2>3, <2>6, <2>7 DEF Lows
  <2>11. Counts'
    <3>1. \A u \in Timers : timer'[u].spoilt /\ ~Writes(u)' => timer'[u].due = 0
          BY <1>0, <2>3, <2>6 DEF Counts, Writes
    <3>2. Enabling(t) /\ ~Writes(t) => timer[t].due = n
          BY <1>0, <1>5 DEF Counts
    <3>3. \A u \in Timers :
            (timer'[u].on \/ Enabling(u)') /\ ~timer'[u].spoilt /\ ~Writes(u)' =>
              Number(timer'[u].toggle_count) = timer'[u].due
          BY <1>0, <2>3, <2>6, <3>2 DEF Counts, Writes, Enabling, Playing
    <3>4. run.at = "count" => run.t \in Timers
          BY DEF ToneTypeOK, Runs, Idle
    <3> QED
        BY <1>0, <2>3, <2>6, <3>1, <3>3, <3>4 DEF Counts, Written, Writes
  <2>12. Tuned'
    <3>1. run.at = "ocr" => run.t \in Timers
          BY DEF ToneTypeOK, Runs, Idle
    <3> QED
        BY <1>0, <2>3, <2>6, <3>1 DEF Tuned, Playing, HasBits, HasOcr
  <2> QED
      BY <2>8, <2>9, <2>10, <2>11, <2>12
<1> QED
    BY <1>4, <1>5

\* Every step keeps the invariant.
LEMMA ToneSteps == ASSUME ToneInv, [ToneNext]_toneVars PROVE ToneInv'
<1>1. CASE UNCHANGED toneVars
      BY <1>1 DEF toneVars, ToneInv, ToneTypeOK, Owners, Lows, Counts, Tuned, Taken, TimerOf,
         Playing, Enabling, Writes, Written, HasBits, HasOcr
<1>2. CASE Player
      BY <1>2, PlayOcrKeeps, PlayCountKeeps, PlayEnableKeeps, StopLowKeeps DEF Player
<1>3. CASE \E x \in Tones, pin \in Pins : begin(x, pin)
      BY <1>3, BeginKeeps
<1>4. CASE \E x \in Tones, f \in Frequencies, d \in Durations : MayPlay(x) /\ play(x, f, d)
      BY <1>4, PlayKeeps DEF MayPlay
<1>5. CASE \E x \in Tones : tone[x].begun /\ stop(x)
      BY <1>5, StopKeeps
<1>6. CASE \E t \in Timers : Compare(t)
      BY <1>6, CompareKeeps
<1> QED
    BY <1>1, <1>2, <1>3, <1>4, <1>5, <1>6 DEF ToneNext

-------------------------------------------------------------------------------
(* What the invariant says of the tones.                                   *)

\* The parts of TonesAreRight follow from the invariant.
LEMMA PitchFollows == ASSUME ToneInv PROVE PitchIsRight
<1> SUFFICES ASSUME NEW t \in Timers, timer[t].on, run = Idle,
                    \E i \in DOMAIN Prescalars(t) : Fits(t, i, timer[t].f)
             PROVE  (timer[t].ocr + 1) * Division(t, timer[t].bits) \in
                      ((F_CPU \div timer[t].f) \div 2) - Division(t, timer[t].bits) + 1 ..
                      ((F_CPU \div timer[t].f) \div 2)
    BY DEF PitchIsRight
<1> DEFINE f == timer[t].f
           i == Prescalar(t, f)
           p == Prescalars(t)[i]
           half == (F_CPU \div f) \div 2
<1>1. f \in Frequencies /\ HasBits(t, f) /\ HasOcr(t, f, timer[t].ocr)
      BY DEF ToneInv, Tuned, Playing, Idle
<1>2. \E j \in 1 .. Len(Prescalars(t)) : Fits(t, j, f)
  <2>1. CASE t = 0
        BY <2>1 DEF Prescalars
  <2>2. CASE t = 2
        BY <2>2 DEF Prescalars
  <2>3. CASE t \notin {0, 2}
        BY <2>3 DEF Prescalars
  <2> QED
      BY <2>1, <2>2, <2>3
<1>3. i \in 1 .. Len(Prescalars(t)) /\ p \in 1 .. 1024 /\ Fits(t, i, f)
  <2> HIDE DEF f
  <2> QED
      BY <1>1, <1>2, PrescalarIs
<1>4. Top(t) \in Nat /\ Ocr(t, i, f) \in Int
      BY <1>1, PrescalarTypes
<1>5. timer[t].ocr = Ocr(t, i, f)
  <2>1. Ocr(t, i, f) \in 0 .. Top(t)
        BY <1>3 DEF Fits
  <2> HIDE DEF i, f
  <2>2. Ocr(t, i, f) % (Top(t) + 1) = Ocr(t, i, f)
        BY <1>4, <2>1
  <2> QED
      BY <1>1, <2>2 DEF HasOcr, i
<1>6. Division(t, timer[t].bits) = p
  <2>1. timer[t].bits = PrescalarBits(t, i)
        BY <1>1 DEF HasBits
  <2> HIDE DEF i
  <2>2. CASE t = 0
        BY <1>3, <2>1, <2>2 DEF Division, Prescalars, PrescalarBits
  <2>3. CASE t = 2
        BY <1>3, <2>1, <2>3 DEF Division, Prescalars, PrescalarBits
  <2>4. CASE t \notin {0, 2}
    <3>1. Prescalars(t) = <<1, 64>> /\ i \in {1, 2}
          BY <1>3, <2>4 DEF Prescalars
    <3> QED
        BY <2>1, <2>4, <3>1 DEF Division, PrescalarBits
  <2> QED
      BY <2>2, <2>3, <2>4
<1>7. F_CPU \in Nat /\ f \in Nat \ {0}
  <2> HIDE DEF f
  <2> QED
      BY <1>1, ToneAssumption
<1>8. half \in Nat /\ Ocr(t, i, f) = (half \div p) - 1
  <2> HIDE DEF f
  <2> QED
      BY <1>7 DEF Ocr
<1> HIDE DEF f, i, p, half
<1>9. (half \div p) * p \in half - p + 1 .. half
      BY <1>3, <1>8
<1>10. timer[t].ocr + 1 = half \div p
      BY <1>3, <1>5, <1>8
<1> QED
    BY <1>6, <1>9, <1>10 DEF half, f

LEMMA OwnTimersFollow == ASSUME ToneInv PROVE TimersAreOwn
<1> USE DEF ToneInv
<1> SUFFICES ASSUME timer[0] # Unused, NEW t \in Timers \ {0} PROVE timer[t].ctc
    BY DEF TimersAreOwn, Owners
<1>1. 0 \in Taken
      BY TimersAre DEF Owners
<1>2. _tone_pin_count = Len(TimerOrder)
      BY <1>1, TimersAre DEF Taken, ToneTypeOK
<1>3. t \in Taken
      BY <1>2, TimersAre DEF Taken
<1> QED
    BY <1>3 DEF Owners

\* Tones that sound together, follow one another and are stopped, write by write
\* against the interrupts, have the length and the pitch that were asked for, leave
\* their pin low and have timers of their own (Tone::begin, play and stop and the
\* interrupts), for any Tones, pins, frequencies, durations and clock.
THEOREM TonesAreRightCorrect == ToneSpec => []TonesAreRight
<1>1. ToneInit => ToneInv
      BY ToneStarts
<1>2. ToneInv /\ [ToneNext]_toneVars => ToneInv'
      BY ToneSteps
<1>3. ToneInv => TonesAreRight
  <2> SUFFICES ASSUME ToneInv PROVE TonesAreRight
      OBVIOUS
  <2>1. PlaysAsLong
        BY DEF ToneInv, Counts, PlaysAsLong
  <2>2. SilentIsLow
        BY DEF ToneInv, Lows, SilentIsLow
  <2> QED
      BY <2>1, <2>2, PitchFollows, OwnTimersFollow DEF TonesAreRight
<1> QED
    BY <1>1, <1>2, <1>3, PTL DEF ToneSpec
================================================================================
