-------------------------------- MODULE Sd2Card --------------------------------
(***************************************************************************)
(* The driver of an SD card on the SPI bus (Sd2Card.cpp) and the card.     *)
(* The driver sends commands and polls the card byte by byte for answers;  *)
(* the card answers only while it is selected, ignores commands while it   *)
(* programs, and may be out of order, fall silent or lose its power.       *)
(*                                                                         *)
(* pc is what the driver does next: "poll" and "frame" and "response" are  *)
(* cardCommand, "token" and "transfer" are readData, "writable" and "send" *)
(* are writeData; the others are the code after one of these.  A poll that *)
(* brings nothing takes one unit of time.                                  *)
(***************************************************************************)
EXTENDS Integers, Sequences

CONSTANTS
  Block, Data,           \* block numbers, and what a block may hold
  Unit,                  \* bytes of a block (512)
  ClockMax,              \* millis() counts modulo this (2^16)
  SD_INIT_TIMEOUT, SD_READ_TIMEOUT, SD_WRITE_TIMEOUT, SD_ERASE_TIMEOUT,
  Tries,                 \* polls for the response to a command (256)
  Starts                 \* readings of the clock at which a call may begin

ASSUME CardAssumption ==
  /\ Block \subseteq Nat /\ \A b, n \in Block : b .. n \subseteq Block
  /\ Data \subseteq Nat /\ 0 \in Data /\ Unit \in Nat \ {0, 1}
  /\ {SD_INIT_TIMEOUT, SD_READ_TIMEOUT, SD_WRITE_TIMEOUT, SD_ERASE_TIMEOUT}
       \subseteq 0 .. ClockMax - 2
  /\ ClockMax \in Nat /\ Tries \in Nat \ {0} /\ Starts \subseteq 0 .. ClockMax - 1

VARIABLES
  drv,                   \* the driver, see Fresh
  call,                  \* the call that runs, or the last one, and its result
  clock,                 \* millis()
  card,                  \* the card, see NewCard
  store,                 \* its blocks
  job,                   \* what it programs, or has programmed last, for this call
  fate                   \* of the job: "busy", "done" or "failed"

vars == <<drv, call, clock, card, store, job, fate>>
memory == <<store, job, fate>>

High == 255              \* the byte of a bus that nobody drives
Busy == 0
Token == 254             \* DATA_START_BLOCK
ErrorToken == 8
R1_READY_STATE == 0
R1_IDLE_STATE == 1
R1_ILLEGAL_COMMAND == 4
R1_ERROR == 64
DATA_RES_ACCEPTED == 5
DATA_RES_REJECTED == 11
Echo == 170

Types == {"SD1", "SD2", "SDHC"}

-------------------------------------------------------------------------------
(* The card.                                                               *)
(*    kind  its type                                                       *)
(*    mode  "off" before CMD0, "idle" before ACMD41 is done, "ready",      *)
(*          "data" or "stream": it has a block, or blocks, to deliver,     *)
(*          "data!" or "stream!": their token has been sent, "block" or    *)
(*          "blocks": it takes a block, or blocks                          *)
(*    busy  it programs                                                    *)
(*    dead  it has fallen silent                                           *)
(*    out   what it answers before anything else                           *)
(*    at    the block for the next data                                    *)
(*    app   the command before was CMD55                                   *)
(*    range the blocks of an erase command                                 *)
(*    crc   it checks what it takes                                        *)

NewCard(kind) == [kind |-> kind, mode |-> "off", busy |-> FALSE, dead |-> FALSE,
                  out |-> <<>>, at |-> 0, app |-> FALSE, range |-> <<0, 0>>, crc |-> FALSE]

Drives(c) == drv.cs /\ ~c.dead /\ c.mode # "off"

\* The card waits for a command.
Ready(c) == [c EXCEPT !.mode = "ready", !.at = 0]

\* A block has gone over the bus.
Passed(c) == IF c.mode \in {"stream!", "blocks"}
               THEN [c EXCEPT !.mode = IF @ = "blocks" THEN @ ELSE "stream", !.at = @ + 1]
             ELSE Ready(c)

\* The bytes a poll may read, each with the card after it.
Answers(c) ==
  IF ~Drives(c) THEN {<<High, c>>}
  ELSE IF c.out # <<>> THEN {<<Head(c.out), [c EXCEPT !.out = Tail(@)]>>}
  ELSE IF c.busy THEN {<<Busy, c>>, <<High, [c EXCEPT !.busy = FALSE]>>}
  ELSE CASE c.mode = "data"    -> {<<Token, [c EXCEPT !.mode = "data!"]>>,
                                   <<ErrorToken, Ready(c)>>}
         [] c.mode = "data!"   -> {<<Busy, c>>, <<High, Passed(c)>>}
         [] c.mode = "stream"  -> {<<High, c>>, <<ErrorToken, c>>} \cup
                                  IF c.at \in Block
                                    THEN {<<Token, [c EXCEPT !.mode = "stream!"]>>} ELSE {}
         [] c.mode = "stream!" -> {<<Busy, c>>, <<High, Passed(c)>>}
         [] OTHER -> {<<High, c>>}

\* The block an argument addresses: bytes, or blocks of an SDHC card.
IsAddress(c, arg) ==
  IF c.kind = "SDHC" THEN arg \in Block
  ELSE arg % Unit = 0 /\ arg \div Unit \in Block
BlockOf(c, arg) == IF c.kind = "SDHC" THEN arg ELSE arg \div Unit

Says(c, r) == [c EXCEPT !.out = <<r>>]
R1(c) == IF c.mode = "idle" THEN R1_IDLE_STATE ELSE R1_READY_STATE
Illegal(c) == {Says(c, R1(c) + R1_ILLEGAL_COMMAND)}

\* What may become of the card c that takes command k.  One that programs or
\* waits for a block takes none.
Takes(c, k) ==
  LET d == [c EXCEPT !.app = k.c = 55, !.out = <<>>]
      ToBlock(mode) ==
        {Says(d, R1_ERROR)} \cup
        IF d.mode # "ready" THEN Illegal(d)
        ELSE IF ~IsAddress(d, k.arg) THEN {}
        ELSE {[Says(d, R1_READY_STATE) EXCEPT !.mode = mode, !.at = BlockOf(d, k.arg)]}
      IfReady(next) == IF d.mode = "ready" THEN {next} ELSE Illegal(d)
  IN  IF \/ ~drv.cs \/ c.dead \/ c.busy
         \/ c.mode \in {"block", "blocks"}
         \/ c.mode = "off" /\ k.c # 0
        THEN {c}
      ELSE IF c.mode \in {"stream", "stream!"} /\ k.c \notin {0, 12} THEN Illegal(d)
      ELSE CASE k.c = 0  -> {[Says(NewCard(c.kind), R1_IDLE_STATE) EXCEPT !.mode = "idle"]}
             [] k.c = 59 -> {[Says(d, R1(d)) EXCEPT !.crc = TRUE]}
             [] k.c = 8  -> IF c.kind = "SD1" THEN Illegal(d)
                            ELSE {[d EXCEPT !.out = <<R1(d), 0, 0, 1, Echo>>]}
             [] k.c = 55 -> {Says(d, R1(d))}
             [] k.c = 41 -> IF ~c.app THEN Illegal(d)
                            ELSE {Says(d, R1_IDLE_STATE),
                                  [Says(d, R1_READY_STATE) EXCEPT !.mode = "ready"]}
             [] k.c = 58 -> {[d EXCEPT !.out = <<R1(d), IF c.kind = "SDHC" THEN 192 ELSE 128,
                                                 255, 128, 0>>]}
             [] k.c = 9  -> IfReady([Says(d, 0) EXCEPT !.mode = "data"])
             [] k.c = 17 -> ToBlock("data")
             [] k.c = 18 -> ToBlock("stream")
             [] k.c = 24 -> ToBlock("block")
             [] k.c = 25 -> ToBlock("blocks")
             [] k.c = 23 -> IF c.app /\ c.mode = "ready" THEN {Says(d, 0)} ELSE Illegal(d)
             [] k.c = 12 -> IF d.mode = "idle" THEN Illegal(d)
                            ELSE {[Ready(Says(d, R1(d))) EXCEPT !.busy = TRUE]}
             [] k.c = 32 -> IfReady([Says(d, 0) EXCEPT !.range = <<k.arg, k.arg>>])
             [] k.c = 33 -> IfReady([Says(d, 0) EXCEPT !.range[2] = k.arg])
             [] k.c = 38 -> IfReady([Says(d, 0) EXCEPT !.busy = TRUE, !.range = <<0, 0>>])

\* Blocks to be programmed with the same data; an erased block is 0.
Job(from, to, data) == [from |-> from, to |-> to, data |-> data]
NoJob == Job(1, 0, 0)
Programmed == job.from .. job.to

\* The card is free again: what it was programming is in its blocks, or the programming has
\* failed, or was cut off, and they hold anything.
JobEnds ==
  /\ UNCHANGED job
  /\ IF fate # "busy" \/ card'.busy THEN UNCHANGED <<store, fate>>
     ELSE \/ /\ fate' = "done"
             /\ store' = [b \in Block |-> IF b \in Programmed THEN job.data ELSE store[b]]
          \/ /\ fate' = "failed"
             /\ \E spoilt \in [Block -> Data] :
                  store' = [b \in Block |-> IF b \in Programmed THEN spoilt[b] ELSE store[b]]

\* The card begins to program.
JobBegins(from, to, data) ==
  job' = Job(from, to, data) /\ fate' = "busy" /\ UNCHANGED store

\* The card c has taken command k.
CommandBegins(k, c) ==
  IF k.c = 38 /\ c.busy /\ ~card.busy
    THEN JobBegins(BlockOf(card, card.range[1]), BlockOf(card, card.range[2]), 0)
  ELSE UNCHANGED memory

-------------------------------------------------------------------------------
(* The driver.                                                             *)
(*    pc        what it does next, "none" between calls                    *)
(*    cmd, to   the command that is sent, and where to go on after it      *)
(*    tries     polls for its response                                     *)
(*    since, init   t0 of the loop that waits, and of begin                *)
(*    m_status, m_type                                                     *)
(*    cs        the card is selected                                       *)
(*    sequence, next   the sequence of multiple blocks the program is in   *)
(*    crc       USE_SD_CRC of this build                                   *)
(* and of a call: its arguments, what it returned and the trouble it met.  *)

Fresh(crc) == [pc |-> "none", cmd |-> [c |-> 0, arg |-> 0], to |-> "none", tries |-> 0,
               since |-> 0, init |-> 0, m_status |-> High, m_type |-> "none", cs |-> FALSE,
               sequence |-> "none", next |-> 0, crc |-> crc]

\* Mutant: the difference is not taken modulo the clock.
ElapsedInt(t0) == clock - t0

\* (uint16_t)millis() - t0, in 16 bits: an int of the AVR boards, which this program is
\* for.  Where an int has 32 bits the difference is negative once the 16 bits have wrapped.
Elapsed(t0) == (clock - t0) % ClockMax
TimePasses == clock' = (clock + 1) % ClockMax

NoCall == [op |-> "none", b |-> 0, n |-> 0, data |-> 0, ok |-> FALSE, returned |-> TRUE,
           trouble |-> {}]

At(label) == drv.pc = label
OK == drv.m_status = R1_READY_STATE

\* Mutant: a byte address for every card.
ByteAddress(b) == b * Unit

Address(b) == IF drv.m_type = "SDHC" THEN b ELSE b * Unit

Go(d, label) == [d EXCEPT !.pc = label, !.m_status = High]
Wait(d, label) == [Go(d, label) EXCEPT !.since = clock]

\* cardCommand as far as the wait for a card that is busy.
Command(d, c, arg, to) ==
  [Wait(d, "poll") EXCEPT !.cmd = [c |-> c, arg |-> arg], !.to = to, !.cs = TRUE]

\* The driver goes on with d.
Step(d) == drv' = d /\ UNCHANGED call

Keep == UNCHANGED <<clock, card, memory>>

Trouble(what) == call' = [call EXCEPT !.trouble = @ \cup {what}]

\* The call returns; a program gives up a sequence of blocks if it fails.  What
\* the driver keeps for the loops of a call means nothing after it.
Returned(ok) ==
  [Fresh(drv.crc) EXCEPT
     !.m_type = drv.m_type,
     !.sequence = IF ~ok THEN "none"
                  ELSE CASE call.op = "readStart"  -> "read"
                         [] call.op = "writeStart" -> "write"
                         [] call.op \in {"readData", "writeData"} -> drv.sequence
                         [] OTHER -> "none",
     !.next = IF ~ok THEN 0
              ELSE CASE call.op \in {"readStart", "writeStart"} -> call.b
                     [] call.op \in {"readData", "writeData"} -> drv.next + 1
                     [] OTHER -> 0]

ReturnsWith(data, trouble) ==
  /\ drv' = Returned(TRUE)
  /\ call' = [call EXCEPT !.returned = TRUE, !.ok = TRUE, !.data = data,
                          !.trouble = @ \cup trouble]

Return(data) == ReturnsWith(data, {})

Error == drv' = Returned(FALSE) /\ call' = NoCall

-------------------------------------------------------------------------------
(* cardCommand.                                                            *)

\* waitNotBusy: the command is sent even if the card is still busy.
PollBusy ==
  /\ At("poll")
  /\ \E a \in Answers(card) :
       /\ card' = a[2] /\ JobEnds
       /\ \/ a[1] = High /\ Step(Go(drv, "frame")) /\ UNCHANGED clock
          \/ /\ a[1] # High /\ Elapsed(drv.since) >= SD_WRITE_TIMEOUT
             /\ drv' = Go(drv, "frame") /\ Trouble("late") /\ UNCHANGED clock
          \/ /\ a[1] # High /\ Elapsed(drv.since) < SD_WRITE_TIMEOUT
             /\ TimePasses /\ UNCHANGED <<drv, call>>

Frame ==
  /\ At("frame") /\ UNCHANGED clock
  /\ \E c \in Takes(card, drv.cmd) : card' = c /\ CommandBegins(drv.cmd, c)
  /\ Step([drv EXCEPT !.pc = "response", !.tries = 0])

\* The response is the byte a.
Responded(a) == [Go(drv, drv.to) EXCEPT !.m_status = a, !.tries = 0, !.since = 0,
                   !.to = "none", !.cmd = Fresh(drv.crc).cmd]

\* The loop that waits for a byte without bit 7.
Response ==
  /\ At("response") /\ UNCHANGED clock
  /\ \E a \in Answers(card) :
       /\ card' = a[2] /\ JobEnds
       /\ Step(IF a[1] >= 128 /\ drv.tries < Tries THEN [drv EXCEPT !.tries = @ + 1]
               ELSE Responded(a[1]))

\* The response to a command is an error.
Refused(label) == At(label) /\ ~OK /\ Error /\ Keep

-------------------------------------------------------------------------------
(* Calls.  A program goes through a sequence of blocks as SdBaseFile does  *)
(* and gives it up when a call fails; it calls begin first, and again when *)
(* it likes.                                                               *)

Call(op, b, n, data, d) ==
  /\ At("none") /\ clock' \in Starts /\ UNCHANGED <<card, store>>
  /\ IF fate = "busy" THEN UNCHANGED <<job, fate>> ELSE job' = NoJob /\ fate' = "done"
  /\ drv' = [d EXCEPT !.since = clock', !.init = IF op = "begin" THEN clock' ELSE 0]
  /\ call' = [op |-> op, b |-> b, n |-> n, data |-> data, ok |-> FALSE,
              returned |-> FALSE,
              trouble |-> IF drv.sequence = "none" THEN {} ELSE call.trouble]

In(sequence) == drv.m_type # "none" /\ drv.sequence = sequence

begin ==
  Call("begin", 0, 0, 0, Command(Fresh(drv.crc), 0, 0, "cmd0"))

\* A command is sent until it is answered as it should be.
Again(c, arg, to) ==
  IF Elapsed(drv.init) > SD_INIT_TIMEOUT THEN Error /\ UNCHANGED clock
  ELSE Step(Command(drv, c, arg, to)) /\ TimePasses

SendIfCond(d) == Command(d, 8, 426, "cmd8")

Begin0 ==
  /\ At("cmd0") /\ UNCHANGED <<card, memory>>
  /\ IF drv.m_status # R1_IDLE_STATE THEN Again(0, 0, "cmd0")
     ELSE /\ Step(IF drv.crc THEN Command(drv, 59, 1, "cmd59") ELSE SendIfCond(drv))
          /\ UNCHANGED clock

Begin59 ==
  /\ At("cmd59") /\ Keep
  /\ IF drv.m_status # R1_IDLE_STATE THEN Error ELSE Step(SendIfCond(drv))

\* The last of the four bytes after the response to CMD8.
Echoed == IF Drives(card) /\ Len(card.out) = 4 THEN card.out[4] ELSE High

Begin8 ==
  LET v1 == drv.m_status = R1_IDLE_STATE + R1_ILLEGAL_COMMAND
  IN  /\ At("cmd8") /\ UNCHANGED memory
      /\ card' = [card EXCEPT !.out = <<>>]
      /\ IF v1 \/ Echoed = Echo
           THEN /\ Step(Command([drv EXCEPT !.m_type = IF v1 THEN "SD1" ELSE "SD2"],
                                55, 0, "acmd41"))
                /\ UNCHANGED clock
         ELSE Again(8, 426, "cmd8")

\* The argument of ACMD41 says that the host knows SDHC cards.
Begin55 ==
  /\ At("acmd41") /\ Keep
  /\ Step(Command(drv, 41, IF drv.m_type = "SD2" THEN 1 ELSE 0, "init"))

Begin41 ==
  /\ At("init") /\ UNCHANGED <<card, memory>>
  /\ IF ~OK THEN Again(55, 0, "acmd41")
     ELSE /\ UNCHANGED clock
          /\ IF drv.m_type = "SD2" THEN Step(Command(drv, 58, 0, "ocr")) ELSE Return(0)

\* Mutant: the capacity bit is not looked at.
TypeIgnored(ocr) == "SD2"

OcrType(ocr) == IF ocr >= 192 THEN "SDHC" ELSE "SD2"

Begin58 ==
  \/ Refused("ocr")
  \/ /\ At("ocr") /\ OK /\ UNCHANGED clock
     /\ \E a \in Answers(card) :
          /\ card' = [a[2] EXCEPT !.out = <<>>] /\ JobEnds
          /\ drv' = [Returned(TRUE) EXCEPT !.m_type = OcrType(a[1])]
          /\ call' = [call EXCEPT !.returned = TRUE, !.ok = TRUE]

-------------------------------------------------------------------------------
(* Reading: readData waits for the token and transfers the block.          *)

readBlock ==
  In("none") /\ \E b \in Block :
    Call("readBlock", b, 0, 0, Command(drv, 17, Address(b), "read17"))

ReadBlockGoesOn ==
  \/ Refused("read17")
  \/ At("read17") /\ OK /\ Step(Wait(drv, "token")) /\ Keep

readStart ==
  In("none") /\ \E b \in Block :
    Call("readStart", b, 0, 0, Command(drv, 18, Address(b), "start18"))

ReadStarts ==
  Refused("start18") \/ (At("start18") /\ OK /\ Return(0) /\ Keep)

readData ==
  In("read") /\ Call("readData", 0, 0, 0, [Wait(drv, "token") EXCEPT !.cs = TRUE])

PollToken ==
  /\ At("token")
  /\ \E a \in Answers(card) :
       /\ card' = a[2] /\ JobEnds
       /\ \/ a[1] = Token /\ Step(Go(drv, "transfer")) /\ UNCHANGED clock
          \/ a[1] \notin {Token, High} /\ Error /\ UNCHANGED clock
          \/ a[1] = High /\ Elapsed(drv.since) > SD_READ_TIMEOUT
               /\ Error /\ UNCHANGED clock
          \/ a[1] = High /\ Elapsed(drv.since) <= SD_READ_TIMEOUT
               /\ TimePasses /\ UNCHANGED <<drv, call>>

\* A block has been received, or the register CSD.
Received(data) ==
  IF call.op = "erase" THEN Step([Go(drv, "csd") EXCEPT !.cs = FALSE]) ELSE Return(data)

\* What the bus makes of a block on its way: another one, if the check sum is
\* not looked at.
Garbled(data) ==
  IF drv.crc THEN Error
  ELSE IF call.op = "erase" THEN Step([Go(drv, "csd") EXCEPT !.cs = FALSE])
  ELSE ReturnsWith(data, {"garbled"})

Transfer ==
  /\ At("transfer") /\ UNCHANGED <<clock, memory>>
  /\ card' = IF Drives(card) THEN Passed(card) ELSE card
  /\ \/ /\ Drives(card) /\ card.mode \in {"data!", "stream!"}
        /\ Received(IF card.at \in Block THEN store[card.at] ELSE 0)
     \/ \E data \in Data : Garbled(data)

\* The transfer of a SPI with DMA may fail.
TransferFails == At("transfer") /\ Error /\ Keep

readStop ==
  In("read") /\ Call("readStop", 0, 0, 0, Command(drv, 12, 0, "stop12"))

ReadStops == Refused("stop12") \/ (At("stop12") /\ OK /\ Return(0) /\ Keep)

readCSD == In("none") /\ Call("readCSD", 0, 0, 0, Command(drv, 9, 0, "register"))

ReadRegister ==
  \/ Refused("register")
  \/ At("register") /\ OK /\ Step(Wait(drv, "token")) /\ Keep

-------------------------------------------------------------------------------
(* Writing.                                                                *)

writeBlock ==
  In("none") /\ \E b \in Block, data \in Data :
    Call("writeBlock", b, 0, data, Command(drv, 24, Address(b), "write24"))

WriteBlockGoesOn ==
  \/ Refused("write24")
  \/ At("write24") /\ OK /\ Step(Go(drv, "send")) /\ Keep

\* ACMD23 says how many blocks will come.
writeStart ==
  In("none") /\ \E b \in Block :
    Call("writeStart", b, 0, 0, Command(drv, 55, 0, "acmd23"))

WriteStarts ==
  \/ At("acmd23") /\ Step(Command(drv, 23, 1, "start23")) /\ Keep
  \/ Refused("start23")
  \/ At("start23") /\ OK /\ Step(Command(drv, 25, Address(call.b), "start25")) /\ Keep
  \/ Refused("start25")
  \/ At("start25") /\ OK /\ Return(0) /\ Keep

writeData ==
  In("write") /\ \E data \in Data :
    Call("writeData", 0, 0, data, [Wait(drv, "writable") EXCEPT !.cs = TRUE])

\* waitNotBusy that fails the call.
Await(label, limit, Then) ==
  /\ At(label)
  /\ \E a \in Answers(card) :
       /\ card' = a[2] /\ JobEnds
       /\ \/ a[1] = High /\ Then /\ UNCHANGED clock
          \/ a[1] # High /\ IF Elapsed(drv.since) >= limit THEN Error /\ UNCHANGED clock
             ELSE TimePasses /\ UNCHANGED <<drv, call>>

\* The card is free, and the driver goes on.
Free(label) == Step(Wait(drv, label))

AwaitWritable == Await("writable", SD_WRITE_TIMEOUT, Free("send"))

\* The card takes a block it waits for, if it begins with the right token, and answers
\* it; only then it programs what it has taken, and what becomes of that nobody asks
\* (CHECK_PROGRAMMING is 0).
Accepts(c) ==
  /\ Drives(c) /\ ~c.busy
  /\ c.mode = IF call.op = "writeBlock" THEN "block" ELSE "blocks"

SendData ==
  /\ At("send") /\ UNCHANGED clock
  /\ \/ ~Accepts(card) /\ UNCHANGED <<call, card, memory>>
     \/ /\ Accepts(card)
        /\ card' = [IF card.mode = "block" THEN Ready(card) ELSE card
                      EXCEPT !.out = <<DATA_RES_REJECTED>>]
        /\ UNCHANGED <<call, memory>>
     \/ /\ Accepts(card) /\ card.at \in Block
        /\ card' = [Passed(card) EXCEPT !.out = <<DATA_RES_ACCEPTED>>, !.busy = TRUE]
        /\ \/ JobBegins(card.at, card.at, call.data) /\ UNCHANGED call
           \/ /\ ~card.crc /\ Trouble("garbled")
              /\ \E data \in Data : JobBegins(card.at, card.at, data)
  /\ drv' = Go(drv, "sent")

\* Mutant: the card's answer to the data is not looked at.
AnswerIgnored ==
  /\ At("sent") /\ UNCHANGED clock
  /\ \E a \in Answers(card) : card' = a[2] /\ JobEnds /\ Return(call.data)

DataResponse ==
  /\ At("sent") /\ UNCHANGED clock
  /\ \E a \in Answers(card) :
       /\ card' = a[2] /\ JobEnds
       /\ IF a[1] % 32 = DATA_RES_ACCEPTED THEN Return(call.data)
          ELSE Error

writeStop ==
  In("write") /\ Call("writeStop", 0, 0, 0, [Wait(drv, "stop") EXCEPT !.cs = TRUE])

\* The card takes STOP_TRAN_TOKEN.
Stopped(c) == IF Drives(c) /\ c.mode = "blocks" THEN [Ready(c) EXCEPT !.busy = TRUE]
              ELSE c

AwaitStop == Await("stop", SD_WRITE_TIMEOUT, Free("ending"))

SendStop ==
  /\ At("ending") /\ UNCHANGED <<clock, memory>>
  /\ Step(Wait(drv, "stopped")) /\ card' = Stopped(card)

AwaitStopped == Await("stopped", SD_WRITE_TIMEOUT, Return(0))

-------------------------------------------------------------------------------
(* Erasing.  An SD1 card of the model erases blocks in pairs only.         *)

erase ==
  In("none") /\ \E b, n \in Block :
    b <= n /\ Call("erase", b, n, 0, Command(drv, 9, 0, "register"))

CanErase(b, n) == card.kind # "SD1" \/ (b % 2 = 0 /\ n % 2 = 1)

EraseChecked ==
  /\ At("csd") /\ Keep
  /\ IF CanErase(call.b, call.n) THEN Step(Command(drv, 32, Address(call.b), "erase32"))
     ELSE Error

EraseGoesOn ==
  \/ \E label \in {"erase32", "erase33", "erase38"} : Refused(label)
  \/ At("erase32") /\ OK /\ Step(Command(drv, 33, Address(call.n), "erase33")) /\ Keep
  \/ At("erase33") /\ OK /\ Step(Command(drv, 38, 0, "erase38")) /\ Keep
  \/ At("erase38") /\ OK /\ Step(Wait(drv, "erasing")) /\ Keep

AwaitErased == Await("erasing", SD_ERASE_TIMEOUT, Return(0))

-------------------------------------------------------------------------------
(* The card.                                                               *)

FallsSilent ==
  /\ ~card.dead /\ card' = [NewCard(card.kind) EXCEPT !.dead = TRUE]
  /\ UNCHANGED <<drv, call, clock>> /\ JobEnds

LosesPower ==
  /\ card.mode # "off" /\ card' = NewCard(card.kind)
  /\ UNCHANGED <<drv, call, clock>> /\ JobEnds

Init ==
  /\ \E crc \in BOOLEAN : drv = Fresh(crc)
  /\ call = NoCall /\ clock \in Starts
  /\ \E kind \in Types : card = NewCard(kind)
  /\ store = [b \in Block |-> 0] /\ job = NoJob /\ fate = "done"

Driver ==
  \/ PollBusy \/ Frame \/ Response
  \/ Begin0 \/ Begin59 \/ Begin8 \/ Begin55 \/ Begin41 \/ Begin58
  \/ ReadBlockGoesOn \/ ReadStarts \/ PollToken \/ Transfer \/ TransferFails
  \/ ReadStops \/ ReadRegister
  \/ WriteBlockGoesOn \/ WriteStarts \/ AwaitWritable \/ SendData \/ DataResponse
  \/ AwaitStop \/ SendStop \/ AwaitStopped
  \/ EraseChecked \/ EraseGoesOn \/ AwaitErased

Next ==
  \/ Driver
  \/ begin \/ readBlock \/ readStart \/ readData \/ readStop \/ readCSD
  \/ writeBlock \/ writeStart \/ writeData \/ writeStop \/ erase
  \/ FallsSilent \/ LosesPower

Spec == Init /\ [][Next]_vars /\ WF_vars(Driver)

-------------------------------------------------------------------------------
(* Properties.                                                             *)

\* Types; a sequence of blocks is one of a card that has been begun.
TypeOK ==
  /\ drv.m_type \in Types \cup {"none"} /\ drv.tries \in 0 .. Tries
  /\ drv.since \in 0 .. ClockMax - 1 /\ drv.init \in 0 .. ClockMax - 1
  /\ drv.sequence \in {"none", "read", "write"}
  /\ drv.sequence # "none" => drv.m_type # "none"
  /\ clock \in 0 .. ClockMax - 1 /\ card.mode \in {"off", "idle", "ready", "data", "data!",
       "stream", "stream!", "block", "blocks"}
  /\ store \in [Block -> Data] /\ fate \in {"busy", "done", "failed"}
  /\ call.trouble \subseteq {"late", "garbled"}

\* The card has taken data for just these blocks, and they hold it, unless they are still
\* being programmed or that has failed.
Taken(from, to, data) ==
  job = Job(from, to, data) /\ (fate = "done" => \A b \in from .. to : store[b] = data)

OnTime == "late" \notin call.trouble

\* A call that returns true has done it, so far as the driver asks the card: the block read
\* is the one the card has at that number, the card has taken the block written for just
\* that number, and the blocks erased and no others.  A build without check sums may be
\* deceived by noise.  A card that is busy for longer than cardCommand waits deceives
\* writeStart, which takes its busy signal for the response of a command that it has
\* ignored, and so the calls of writeData after it, but no other call.
SuccessMeansDone ==
  call.returned /\ call.ok /\ (drv.crc \/ "garbled" \notin call.trouble) =>
    CASE call.op = "readBlock"  -> store[call.b] = call.data
      [] call.op = "readData"   -> drv.next - 1 \in Block /\ store[drv.next - 1] = call.data
      [] call.op = "writeBlock" -> Taken(call.b, call.b, call.data)
      [] call.op = "writeData"  -> OnTime => Taken(drv.next - 1, drv.next - 1, call.data)
      [] call.op = "erase"      -> Taken(call.b, call.n, 0) /\ fate # "busy"
      [] OTHER -> TRUE

\* No call has a block programmed that it was not asked to write or to erase, whatever a
\* call before it has left behind in the card, and no other block ever changes.  The
\* exception again is writeData after a writeStart that has been deceived by a card busy
\* for too long: its block goes to where the sequence before was given up.
OnlyWhatIsWritten ==
  [][/\ \A b \in Block : store'[b] # store[b] => b \in Programmed
     /\ fate # "busy" /\ fate' = "busy" =>
          \/ call.op = "writeBlock" /\ Programmed' = call.b .. call.b
          \/ call.op = "writeData" /\ (OnTime => Programmed' = drv.next .. drv.next)
          \/ call.op = "erase" /\ Programmed' = call.b .. call.n]_vars

\* Between calls the card is not selected, so that others may use the bus.
BusReleased == At("none") => ~drv.cs

\* A card that works and that begin has found has the type begin has found.
TypeIsRight ==
  At("none") /\ drv.m_type # "none" /\ call.ok /\ card.mode \notin {"off", "idle"}
    => drv.m_type = card.kind

\* Whatever a call has met, the driver is fit for the next one: the bus is free, and it
\* knows the type of the card.
DriverIsFit == TypeOK /\ BusReleased /\ TypeIsRight

\* Every call returns, whatever the card does and wherever millis() stands.
CallsReturn == ~At("none") ~> At("none")
===============================================================================
