---------------------------------- MODULE Tone ---------------------------------
(***************************************************************************)
(* The tone library (Tone.cpp): Tone objects take the timers of the        *)
(* microcontroller one after the other; the interrupt of a timer toggles   *)
(* the pin and counts the toggles of the tone down.                        *)
(*                                                                         *)
(* play and stop run step by step, because the interrupt of a timer that   *)
(* still sounds may come between two of their writes; the count of toggles *)
(* has four bytes, and is written byte by byte.                            *)
(***************************************************************************)
EXTENDS Integers, Sequences, FiniteSets

CONSTANTS
  Tones,                 \* Tone objects, all of them global variables
  Pins, Pin0,            \* pins, and the one with number 0
  TimerOrder,            \* tone_pin_to_timer_PGM
  Frequencies, Durations,
  Byte,                  \* 256
  F_CPU,                 \* 16000000
  Second,                \* 1000
  Voices                 \* bound of the model: timers that sound at the same time

Timers == {0} \cup {TimerOrder[i] : i \in DOMAIN TimerOrder}
UInt == Byte * Byte
ULong == UInt * UInt
Infinite == ULong - 1    \* -1, in 32 bits

ASSUME ToneAssumption ==
  /\ Byte \in Nat /\ Byte >= 2 /\ F_CPU \in Nat /\ Second \in Nat \ {0}
  /\ Frequencies \subseteq 1 .. F_CPU \div 2 /\ Durations \subseteq Nat
  /\ TimerOrder \in Seq(0 .. 5) /\ Pin0 \in Pins
  /\ \A i, j \in DOMAIN TimerOrder : TimerOrder[i] = TimerOrder[j] => i = j
  /\ \A i \in DOMAIN TimerOrder : TimerOrder[i] = 0 => i = Len(TimerOrder)

VARIABLES
  _tone_pin_count,
  tone,                  \* of a Tone: _pin and _timer, -1 if it has got none; it has been begun
  timer,                 \* of a timer, see Unused
  level,                 \* of a pin
  run                    \* what play or stop is about to do, see Idle

toneVars == <<_tone_pin_count, tone, timer, level, run>>

\* The four bytes of a count, the lowest first, and the count they make.
Bytes(n) ==
  LET n2 == n \div Byte  n3 == n2 \div Byte
  IN  <<n % Byte, n2 % Byte, n3 % Byte, n3 \div Byte>>
Number(c) == c[1] + Byte * (c[2] + Byte * (c[3] + Byte * c[4]))

(* A timer: its mode and the bits of its prescaler, the compare register,  *)
(* the bytes of the count of toggles, whether its interrupt is enabled,    *)
(* and its pin; and f, the frequency that the last play asked for, due,    *)
(* the toggles it asked for that are not yet done, and spoilt: an          *)
(* interrupt came while that play wrote the count, or the count is too     *)
(* large for its width.                                                    *)

Unused == [ctc |-> FALSE, bits |-> 0, ocr |-> 0, toggle_count |-> Bytes(0), on |-> FALSE,
           pin |-> "none", f |-> 0, due |-> 0, spoilt |-> FALSE]

Idle == [at |-> "none"]

TimerOf(x) == tone[x]._timer

\* The timer when its interrupt is disabled.  What it keeps of the tone means nothing,
\* play writes all of it before it enables the interrupt, and the model forgets it;
\* unless a play of a tone for this timer is under way.
Silenced(t) ==
  IF run.at \in {"ocr", "count", "enable"} /\ run.t = t THEN [timer[t] EXCEPT !.on = FALSE]
  ELSE [Unused EXCEPT !.ctc = timer[t].ctc, !.pin = timer[t].pin]

-------------------------------------------------------------------------------
(* Numbers.                                                                *)

\* The divisions of the clock that play tries, from the finest.
Prescalars(t) == CASE t = 0 -> <<1, 8, 64, 256, 1024>>
                   [] t = 2 -> <<1, 8, 32, 64, 128, 256, 1024>>
                   [] OTHER -> <<1, 64>>

\* What the bits of a prescaler do.
Division(t, bits) == IF t = 2 THEN <<1, 8, 32, 64, 128, 256, 1024>>[bits]
                     ELSE <<1, 8, 64, 256, 1024>>[bits]

Top(t) == IF t \in {0, 2} THEN Byte - 1 ELSE UInt - 1

Ocr(t, i, f) == (((F_CPU \div f) \div 2) \div Prescalars(t)[i]) - 1

Fits(t, i, f) == Ocr(t, i, f) \in 0 .. Top(t)

\* prescalarbits for the i-th of the divisions.
PrescalarBits(t, i) == IF t \in {0, 2} THEN i ELSE IF i = 1 THEN 1 ELSE 3

\* The first division that fits, or the last one.
Prescalar(t, f) ==
  LET n == Len(Prescalars(t))
  IN  CHOOSE i \in 1 .. n :
        /\ \A j \in 1 .. i - 1 : ~Fits(t, j, f)
        /\ i = n \/ Fits(t, i, f)

\* The toggles of a tone, and as play computes them, in the widths of the expression:
\* 2 * frequency is an unsigned int, its product with the duration an unsigned long.
TogglesOf(f, d) == IF d = 0 THEN Infinite ELSE (2 * f * d) \div Second

Toggles(f, d) ==
  IF d = 0 THEN Infinite ELSE ((((2 * f) % UInt) * d) % ULong) \div Second

-------------------------------------------------------------------------------
(* Operations.                                                             *)

\* A Tone that begins again takes another timer; the one it had keeps its pin.
begin(x, pin) ==
  /\ run = Idle /\ UNCHANGED <<level, run>>
  /\ IF _tone_pin_count < Len(TimerOrder)
       THEN LET t == TimerOrder[_tone_pin_count + 1]
            IN  /\ _tone_pin_count' = _tone_pin_count + 1
                /\ tone' = [tone EXCEPT ![x] = [_pin |-> pin, _timer |-> t, begun |-> TRUE]]
                /\ timer' = [timer EXCEPT ![t].ctc = TRUE, ![t].bits = 1, ![t].pin = pin]
     ELSE /\ tone' = [tone EXCEPT ![x]._timer = -1, ![x].begun = TRUE]
          /\ UNCHANGED <<_tone_pin_count, timer>>

\* A program plays on Tones that it has begun: one that it has not has timer 0.
play(x, f, d) ==
  LET t == TimerOf(x)
      i == Prescalar(t, f)
  IN  /\ run = Idle /\ UNCHANGED <<_tone_pin_count, tone, level>>
      /\ IF t = -1 THEN UNCHANGED <<timer, run>>
         ELSE /\ timer' = [timer EXCEPT ![t].bits = PrescalarBits(t, i)]
              /\ run' = [at |-> "ocr", t |-> t, f |-> f, d |-> d,
                         ocr |-> Ocr(t, i, f) % (Top(t) + 1)]

PlayOcr ==
  /\ run.at = "ocr" /\ UNCHANGED <<_tone_pin_count, tone, level>>
  /\ timer' = [timer EXCEPT ![run.t].ocr = run.ocr, ![run.t].f = run.f]
  /\ \E low \in BOOLEAN :
       run' = [at |-> "count", t |-> run.t, f |-> run.f, d |-> run.d, low |-> low, k |-> 1,
               new |-> Toggles(run.f, run.d)]

\* The count that is written will not be the one that was asked for.
Spoils == (timer[run.t].spoilt /\ run.k > 1) \/ TogglesOf(run.f, run.d) # run.new

\* One byte of the count; which end comes first is up to the compiler.
PlayCount ==
  /\ run.at = "count" /\ UNCHANGED <<_tone_pin_count, tone, level>>
  /\ LET i == IF run.low THEN run.k ELSE 5 - run.k
     IN  timer' = [timer EXCEPT
           ![run.t].toggle_count[i] = Bytes(run.new)[i],
           ![run.t].due = IF Spoils THEN 0 ELSE run.new, ![run.t].spoilt = Spoils]
  /\ run' = IF run.k = 4 THEN [at |-> "enable", t |-> run.t] ELSE [run EXCEPT !.k = @ + 1]

PlayEnable ==
  /\ run.at = "enable" /\ UNCHANGED <<_tone_pin_count, tone, level>>
  /\ timer' = [timer EXCEPT ![run.t].on = TRUE]
  /\ run' = Idle

\* The pin of a Tone that has never got a timer is pin 0.
stop(x) ==
  /\ run = Idle /\ UNCHANGED <<_tone_pin_count, tone, level>>
  /\ timer' = IF TimerOf(x) = -1 THEN timer
              ELSE [timer EXCEPT ![TimerOf(x)] = Silenced(TimerOf(x))]
  /\ run' = [at |-> "low", pin |-> tone[x]._pin]

StopLow ==
  /\ run.at = "low" /\ run' = Idle
  /\ level' = [level EXCEPT ![run.pin] = 0] /\ UNCHANGED <<_tone_pin_count, tone, timer>>

isPlaying(x) == TimerOf(x) # -1 /\ timer[TimerOf(x)].on

-------------------------------------------------------------------------------
(* Interrupts.                                                             *)

\* play is about to write bytes of the count.
Writes(t) == run.at = "count" /\ run.t = t

Toggled(t) == [level EXCEPT ![timer[t].pin] = 1 - @]

\* The count after a toggle: one that is negative stays.
Counted(n) == IF n < ULong \div 2 THEN n - 1 ELSE n

\* Mutant: the interrupt stays enabled after the tone.
CompareStaysOn(t) ==
  /\ timer[t].on /\ UNCHANGED <<_tone_pin_count, tone, run>>
  /\ LET n == Number(timer[t].toggle_count)
     IN  IF n # 0
           THEN /\ level' = Toggled(t)
                /\ timer' = [timer EXCEPT ![t].toggle_count = Bytes(Counted(n)),
                                          ![t].due = IF @ = 0 THEN 0 ELSE Counted(@)]
         ELSE UNCHANGED timer /\ level' = [level EXCEPT ![timer[t].pin] = 0]

\* Mutant: a tone without end is counted as well.
CompareCountsAll(t) ==
  /\ timer[t].on /\ UNCHANGED <<_tone_pin_count, tone, run>>
  /\ LET n == Number(timer[t].toggle_count)
     IN  IF n # 0
           THEN /\ level' = Toggled(t)
                /\ timer' = [timer EXCEPT ![t].toggle_count = Bytes(n - 1),
                                          ![t].due = IF @ = 0 THEN 0 ELSE Counted(@)]
         ELSE /\ timer' = [timer EXCEPT ![t] = Silenced(t)]
              /\ level' = [level EXCEPT ![timer[t].pin] = 0]

Compare(t) ==
  /\ timer[t].on /\ UNCHANGED <<_tone_pin_count, tone, run>>
  /\ LET n == Number(timer[t].toggle_count)
     IN  IF n # 0
           THEN /\ level' = Toggled(t)
                /\ timer' = [timer EXCEPT
                     ![t].toggle_count = Bytes(Counted(n)), ![t].spoilt = @ \/ Writes(t),
                     ![t].due = IF @ = 0 \/ Writes(t) THEN 0 ELSE Counted(@)]
         ELSE /\ timer' = [timer EXCEPT ![t] = Silenced(t), ![t].spoilt = Writes(t)]
              /\ level' = [level EXCEPT ![timer[t].pin] = 0]

-------------------------------------------------------------------------------
ToneInit ==
  /\ _tone_pin_count = 0
  /\ tone = [x \in Tones |-> [_pin |-> Pin0, _timer |-> 0, begun |-> FALSE]]
  /\ timer = [t \in Timers |-> Unused]
  /\ level = [p \in Pins |-> 0]
  /\ run = Idle

MayPlay(x) ==
  /\ tone[x].begun
  /\ Cardinality({t \in Timers \ {TimerOf(x)} : timer[t].on}) < Voices

Player ==
  \/ PlayOcr \/ PlayCount \/ PlayEnable \/ StopLow

ToneNext ==
  \/ Player
  \/ \E x \in Tones, pin \in Pins : begin(x, pin)
  \/ \E x \in Tones, f \in Frequencies, d \in Durations : MayPlay(x) /\ play(x, f, d)
  \/ \E x \in Tones : tone[x].begun /\ stop(x)
  \/ \E t \in Timers : Compare(t)

ToneFairness == WF_toneVars(Player) /\ \A t \in Timers : WF_toneVars(Compare(t))

ToneSpec == ToneInit /\ [][ToneNext]_toneVars /\ ToneFairness

-------------------------------------------------------------------------------
(* Properties.                                                             *)

\* A tone has as many toggles before it as were asked for and are not yet done,
\* when nothing came between the writes of its count; a tone without end has no
\* count.
PlaysAsLong ==
  \A t \in Timers :
    timer[t].on /\ ~timer[t].spoilt /\ ~Writes(t) => Number(timer[t].toggle_count) = timer[t].due

\* A timer that sounds at rest has the pitch that was asked for, as near as a count
\* of its clock allows, where one of its divisions fits.
PitchIsRight ==
  \A t \in Timers :
    timer[t].on /\ run = Idle /\ (\E i \in DOMAIN Prescalars(t) : Fits(t, i, timer[t].f)) =>
      LET division == Division(t, timer[t].bits)
          half == (F_CPU \div timer[t].f) \div 2
      IN  (timer[t].ocr + 1) * division \in half - division + 1 .. half

\* When a tone is over or has been stopped its pin is low, unless another Tone
\* sounds on that pin.
SilentIsLow ==
  \A p \in Pins :
    (run.at # "low" /\ \A t \in Timers : timer[t].pin = p => ~timer[t].on) => level[p] = 0

\* No two Tones have the same timer, and timer 0, which millis() counts with, is left
\* alone until all the others are given away.
TimersAreOwn ==
  /\ \A x, y \in Tones :
       x # y /\ tone[x].begun /\ tone[y].begun /\ TimerOf(x) = TimerOf(y) => TimerOf(x) = -1
  /\ timer[0] # Unused => \A t \in Timers \ {0} : timer[t].ctc

\* Tones that sound together, follow one another and are stopped are each heard as they
\* were asked for: length, pitch, pin and timer.
TonesAreRight == PlaysAsLong /\ PitchIsRight /\ SilentIsLow /\ TimersAreOwn

\* A tone that has an end comes to it, unless its count is written again.
TonesEnd ==
  \A t \in Timers :
    (timer[t].on /\ Number(timer[t].toggle_count) < ULong \div 2) ~> (~timer[t].on \/ Writes(t))
===============================================================================
