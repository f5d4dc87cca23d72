----------------------------- MODULE Sd2CardProofs -----------------------------
(***************************************************************************)
(* The driver of the SD card is right for every set of blocks, every time- *)
(* out and every card: DriverIsFit, SuccessMeansDone, OnlyWhatIsWritten.   *)
(*                                                                         *)
(* The invariant IInv follows a call from command to command.  It rests on *)
(* one argument about the card: a card that was not busy when the command  *)
(* came has either taken it, and what the command asks has been done, or   *)
(* has said nothing, and then the driver reads 255 and fails.  The only    *)
(* way to a response that is none is a card that stays busy for longer     *)
(* than cardCommand waits; such a card has ignored the command and is Deaf *)
(* to what follows: it gives no data and answers none, so that the call    *)
(* fails after all, but for writeData, where a sequence given up before    *)
(* may still be open (OnTime).  Remembers, the second invariant, says that *)
(* the job of the card stays what a call made it until the next one.       *)
(***************************************************************************)
EXTENDS Sd2Card, SequenceTheorems, TLAPS

-------------------------------------------------------------------------------
(* The inductive invariant.                                                *)

\* The modes of a card; Begun are those after ACMD41.
Modes == {"off", "idle", "ready", "data", "data!", "stream", "stream!", "block", "blocks"}
Clock == 0 .. ClockMax - 1
Begun == {"ready", "data", "data!", "stream", "stream!", "block", "blocks"}

\* The cards, drivers and calls there may be, and the places where a driver may be.
Cards ==
  [kind : Types, mode : Modes, busy : BOOLEAN, dead : BOOLEAN, out : Seq(Nat), at : Nat,
   app : BOOLEAN, range : Nat \X Nat, crc : BOOLEAN]

Labels ==
  {"none", "poll", "frame", "response", "cmd0", "cmd59", "cmd8", "acmd41", "init", "ocr",
   "read17", "start18", "token", "transfer", "stop12", "register", "write24", "acmd23",
   "start23", "start25", "writable", "send", "sent", "stop", "ending", "stopped", "csd", "erase32",
   "erase33", "erase38", "erasing"}

Drivers ==
  [pc : Labels, cmd : [c : Nat, arg : Nat], to : Labels, tries : 0 .. Tries, since : Clock,
   init : Clock, m_status : Nat, m_type : Types \cup {"none"}, cs : BOOLEAN,
   sequence : {"none", "read", "write"}, next : Nat, crc : BOOLEAN]

Ops ==
  {"none", "begin", "readBlock", "readStart", "readData", "readStop", "readCSD", "writeBlock",
   "writeStart", "writeData", "writeStop", "erase"}

Calls ==
  [op : Ops, b : Nat, n : Nat, data : Nat, ok : BOOLEAN, returned : BOOLEAN,
   trouble : SUBSET {"late", "garbled"}]

Typed ==
  drv \in Drivers /\ call \in Calls /\ clock \in Clock /\ card \in Cards

\* A command is on its way, or its response.
Sending == At("poll") \/ At("frame") \/ At("response")

\* The place where the driver is, or goes on after the command it sends.
Label == IF Sending THEN drv.to ELSE drv.pc

\* The places of each call, and the command that leads to them.
Beginning == {"cmd0", "cmd59", "cmd8", "acmd41", "init", "ocr"}
Places(op, label) ==
  \/ op = "begin" /\ label \in Beginning
  \/ op = "readBlock" /\ label \in {"read17", "token", "transfer"}
  \/ op = "readStart" /\ label = "start18"
  \/ op = "readData" /\ label \in {"token", "transfer"}
  \/ op = "readStop" /\ label = "stop12"
  \/ op = "readCSD" /\ label \in {"register", "token", "transfer"}
  \/ op = "writeBlock" /\ label \in {"write24", "send", "sent"}
  \/ op = "writeStart" /\ label \in {"acmd23", "start23", "start25"}
  \/ op = "writeData" /\ label \in {"writable", "send", "sent"}
  \/ op = "writeStop" /\ label \in {"stop", "ending", "stopped"}
  \/ op = "erase" /\ label \in {"register", "token", "transfer", "csd", "erase32", "erase33",
                                "erase38", "erasing"}

\* The command c is sent for the sake of the place label.
Sends(c, label) ==
  \/ c = 0 /\ label = "cmd0"
  \/ c = 8 /\ label = "cmd8"
  \/ c = 9 /\ label = "register"
  \/ c = 12 /\ label = "stop12"
  \/ c = 17 /\ label = "read17"
  \/ c = 18 /\ label = "start18"
  \/ c = 23 /\ label = "start23"
  \/ c = 24 /\ label = "write24"
  \/ c = 25 /\ label = "start25"
  \/ c = 32 /\ label = "erase32"
  \/ c = 33 /\ label = "erase33"
  \/ c = 38 /\ label = "erase38"
  \/ c = 41 /\ label = "init"
  \/ c = 55 /\ label \in {"acmd41", "acmd23"}
  \/ c = 58 /\ label = "ocr"
  \/ c = 59 /\ label = "cmd59"

\* Where the driver is fits the call that runs, and the command that is on its way.
Control ==
  /\ drv.cs <=> ~At("none") /\ ~At("csd")
  /\ ~At("none") => ~call.returned /\ Places(call.op, Label)
  /\ Sending => Sends(drv.cmd.c, drv.to)

\* A call keeps to its blocks, and the argument of a command is their address.
Arguments ==
  /\ ~At("none") /\ call.op \in {"readBlock", "readStart", "writeBlock", "writeStart",
                                 "erase"} => call.b \in Block
  /\ ~At("none") /\ call.op = "erase" => call.n \in Block
  /\ ~At("none") /\ call.op \in {"writeBlock", "writeData"} => call.data \in Data
  /\ Sending /\ drv.to \in {"read17", "start18", "write24", "start25", "erase32"} =>
       drv.cmd.arg = Address(call.b)
  /\ Sending /\ drv.to = "erase33" => drv.cmd.arg = Address(call.n)

\* The sequences of blocks, and the type of the card that they are of.
InSequence ==
  /\ drv.sequence # "none" => drv.m_type # "none"
  /\ ~At("none") /\ call.op = "begin" => drv.sequence = "none" /\ drv.m_type # "SDHC"
  /\ ~At("none") /\ call.op # "begin" => drv.m_type # "none"
  /\ ~At("none") /\ call.op \in {"readData", "readStop"} => drv.sequence = "read"
  /\ ~At("none") /\ call.op \in {"writeData", "writeStop"} => drv.sequence = "write"

Off == card.mode = "off"

Silent == card.out = <<>>

\* What the card has still to say.
Outputs ==
  /\ Off => Silent
  /\ ~At("response") /\ ~At("sent") /\ ~At("cmd8") /\ ~At("ocr") => Silent
  /\ At("response") =>
       Silent \/ (Head(card.out) < 128 /\ (drv.to \notin {"cmd8", "ocr"} => Len(card.out) = 1))
  /\ At("response") /\ drv.to = "cmd8" =>
       \/ Silent
       \/ Len(card.out) = 1 /\ Head(card.out) = 5 /\ card.kind = "SD1"
       \/ Len(card.out) = 5 /\ Head(card.out) = 1 /\ card.kind # "SD1"
  /\ At("cmd8") =>
       \/ Silent
       \/ Len(card.out) = 4 /\ drv.m_status = 1 /\ card.kind # "SD1"
  /\ At("cmd8") /\ drv.m_status = 5 => card.kind = "SD1"
  /\ At("response") /\ drv.to = "ocr" =>
       Silent \/ (Len(card.out) = 5 /\ card.out[2] \in {128, 192}
                    /\ (card.out[2] = 192 <=> card.kind = "SDHC"))
  /\ At("ocr") =>
       Silent \/ (card.out[1] \in {128, 192} /\ (card.out[1] = 192 <=> card.kind = "SDHC"))
  /\ At("sent") => Silent \/ Head(card.out) \in {DATA_RES_ACCEPTED, DATA_RES_REJECTED}
  /\ At("sent") => Silent \/ Len(card.out) = 1

\* The card, and what begin has made of it.
CardFits ==
  /\ card.dead => Off
  /\ card.busy => card.mode \in {"ready", "blocks"}
  /\ drv.crc /\ card.mode \in Begun => card.crc
  /\ card.mode = "stream!" => card.at \in Block
  /\ ~(~At("none") /\ call.op = "begin") /\ card.mode \in Begun =>
       drv.m_type \in {"none", card.kind}

\* A card that has been reset since begin refuses every command of the other calls.
Refuses ==
  card.mode = "idle" =>
    /\ drv.sequence = "none" /\ ~At("token") /\ ~At("transfer")
    /\ At("response") /\ ~Silent /\ call.op # "begin" => Head(card.out) # 0
    /\ ~Sending /\ ~At("none") /\ call.op # "begin" => ~OK

TypeFound == IF card.kind = "SD1" THEN "SD1" ELSE "SD2"

\* What begin knows of the card at each of its places.
Begins ==
  ~At("none") /\ call.op = "begin" =>
    /\ Label \in {"cmd0", "cmd59", "cmd8"} => drv.m_type = "none"
    /\ Label \in {"acmd41", "init", "ocr"} => drv.m_type = TypeFound
    /\ Label = "ocr" => card.kind # "SD1" /\ card.mode \in {"off", "ready"}
    /\ At("response") /\ drv.to = "cmd0" =>
         Silent \/ (Head(card.out) = 1 /\ card.mode = "idle")
    /\ At("cmd0") /\ drv.m_status = 1 => card.mode \in {"off", "idle"}
    /\ Label \in {"cmd59", "cmd8", "acmd41"} => card.mode \in {"off", "idle"}
    /\ At("response") /\ drv.to = "cmd59" => Silent \/ card.crc
    /\ At("cmd59") /\ drv.m_status = 1 => Off \/ card.crc
    /\ Label \in {"cmd8", "acmd41", "init", "ocr"} /\ drv.crc => Off \/ card.crc
    /\ Label \in {"init", "ocr"} => ~card.busy
    /\ drv.to = "init" /\ (At("poll") \/ At("frame")) => card.mode \in {"off", "idle"}
    /\ At("response") /\ drv.to = "init" =>
         Off \/ (~Silent /\ card.mode = IF Head(card.out) = 0 THEN "ready" ELSE "idle")
    /\ At("init") => Off \/ card.mode = IF OK THEN "ready" ELSE "idle"
    /\ At("response") /\ drv.to = "ocr" => Off \/ (~Silent /\ Head(card.out) = 0)
    /\ At("ocr") => Off \/ (OK /\ ~Silent)

\* The card is in mode m, with the block b next; the blocks of an erase are marked.
Mode(m, b) == card.mode = m /\ card.at = b
EraseRange(n) == card.mode = "ready" /\ card.range = <<Address(call.b), Address(n)>>

\* What a command has done to the card whose response is 0, at the place after it.
Effect(to) ==
  /\ to = "read17" => Mode("data", call.b)
  /\ to = "start18" => Mode("stream", call.b)
  /\ to = "write24" => Mode("block", call.b)
  /\ to = "start25" => Mode("blocks", call.b)
  /\ to = "erase32" => EraseRange(call.b)
  /\ to = "erase33" => EraseRange(call.n)

\* A card that ignores what it is told: it has nothing to deliver and waits for no single
\* block.
Deaf == card.mode \in {"ready", "blocks"}

\* The card erases, or has erased, what it was asked to.
Erased == job = Job(call.b, call.n, 0)

\* An erase that has read the register CSD has found a card that is not busy, and none of
\* its commands before the last makes it so.
Marking == Label \in {"csd", "erase32", "erase33", "erase38", "erasing"}

\* The card surely takes the command that is sent.
Sure == OnTime \/ Marking

\* A card that has been given the time it wants has taken the command it answers; one that
\* has not may have ignored it, but then it does nothing else either.
Answered ==
  /\ At("response") /\ Silent => card.mode \in {"off", "ready", "block", "blocks"}
  /\ At("response") /\ ~Silent /\ Head(card.out) = 0 =>
       Effect(drv.to) /\ (drv.to = "erase38" => Erased)
  /\ ~Sending /\ ~At("none") /\ OK => Off \/ Effect(drv.pc) \/ (~Sure /\ Deaf)
  /\ At("erase38") /\ OK => Erased
  /\ At("poll") \/ At("frame") =>
       /\ drv.to = "erase33" => Off \/ EraseRange(call.b)
       /\ drv.to = "erase38" => Off \/ EraseRange(call.n)
  /\ Label \in {"csd", "erase32", "erase33"} => ~card.busy
  /\ Label = "erase38" /\ (At("poll") \/ At("frame")) => ~card.busy
  /\ Sure /\ At("frame") => ~card.busy
  /\ Sure /\ At("response") /\ Silent => ~card.busy

Target == IF call.op = "writeBlock" THEN call.b ELSE drv.next

\* The card has or takes the block that the driver is about.
Transfers ==
  /\ At("transfer") => Off \/ card.mode \in {"data!", "stream!"}
  /\ At("token") /\ call.op = "readBlock" => Off \/ Deaf \/ Mode("data", call.b)
  /\ At("transfer") /\ call.op = "readBlock" => Off \/ Mode("data!", call.b)
  /\ At("token") /\ call.op = "readData" => Off \/ Deaf \/ Mode("stream", drv.next)
  /\ At("transfer") /\ call.op = "readData" => Off \/ Mode("stream!", drv.next)
  /\ At("none") /\ drv.sequence = "read" => Off \/ Deaf \/ Mode("stream", drv.next)
  /\ OnTime /\ At("none") /\ drv.sequence = "write" => Off \/ Mode("blocks", drv.next)
  /\ OnTime /\ At("writable") => Off \/ Mode("blocks", drv.next)
  /\ At("send") /\ call.op = "writeBlock" => Off \/ Deaf \/ Mode("block", call.b)
  /\ OnTime /\ At("send") /\ call.op = "writeData" => Off \/ Mode("blocks", drv.next)
  /\ At("sent") /\ ~Silent /\ Head(card.out) = DATA_RES_ACCEPTED =>
       /\ OnTime \/ call.op = "writeBlock" =>
            /\ Target \in Block
            /\ drv.crc \/ "garbled" \notin call.trouble =>
                 job = Job(Target, Target, call.data)
       /\ OnTime /\ call.op = "writeData" => Mode("blocks", drv.next + 1)
  /\ At("erasing") => Erased

\* What a call that has returned true has done: SuccessMeansDone, without what the card
\* remembers of it.
Achieved ==
  call.returned /\ call.ok /\ (drv.crc \/ "garbled" \notin call.trouble) =>
    /\ call.op = "readBlock" => store[call.b] = call.data /\ fate # "busy"
    /\ call.op = "readData" =>
         drv.next - 1 \in Block /\ store[drv.next - 1] = call.data /\ fate # "busy"
    /\ call.op = "writeBlock" => call.b \in Block /\ job = Job(call.b, call.b, call.data)
    /\ call.op = "writeData" /\ OnTime =>
         drv.next - 1 \in Block /\ job = Job(drv.next - 1, drv.next - 1, call.data)
    /\ call.op = "erase" => call.b .. call.n \subseteq Block /\ Erased /\ fate # "busy"

\* The inductive invariant of the driver and the card's answers.
IInv ==
  /\ Typed /\ Control /\ Arguments /\ InSequence /\ Outputs /\ CardFits /\ Refuses /\ Begins
  /\ Answered /\ Transfers /\ Achieved

\* The card programs only while it is busy, and has what it has programmed.
Remembers ==
  /\ store \in [Block -> Data] /\ job \in [from : Nat, to : Nat, data : Data]
  /\ fate \in {"busy", "done", "failed"}
  /\ fate = "busy" => card.busy
  /\ fate = "done" => \A b \in Block : b \in Programmed => store[b] = job.data

-------------------------------------------------------------------------------
(* The card's operators.                                                   *)

\* The assumptions on the constants, in the form the proofs use.
LEMMA Constants ==
  /\ Block \subseteq Nat /\ \A b, n \in Block : b .. n \subseteq Block
  /\ Data \subseteq Nat /\ 0 \in Data /\ Unit \in Nat \ {0, 1} /\ ClockMax \in Nat
  /\ Tries \in Nat \ {0} /\ Starts \subseteq Clock
BY CardAssumption DEF Clock

\* A card is the record of its fields.
LEMMA Fields ==
  ASSUME NEW c \in Cards
  PROVE  /\ c.kind \in Types /\ c.mode \in Modes /\ c.busy \in BOOLEAN /\ c.dead \in BOOLEAN
         /\ c.out \in Seq(Nat) /\ c.at \in Nat /\ c.app \in BOOLEAN
         /\ c.range \in Nat \X Nat /\ c.crc \in BOOLEAN
         /\ c = [kind |-> c.kind, mode |-> c.mode, busy |-> c.busy, dead |-> c.dead,
                 out |-> c.out, at |-> c.at, app |-> c.app, range |-> c.range, crc |-> c.crc]
BY DEF Cards

\* What is left of an answer.
LEMMA TailOf ==
  ASSUME NEW s \in Seq(Nat), s # <<>>
  PROVE  /\ Len(s) = 1 => Tail(s) = <<>>
         /\ Len(s) = 5 => Len(Tail(s)) = 4 /\ Tail(s)[1] = s[2] /\ Tail(s) # <<>>
<1>1. /\ Tail(s) \in Seq(Nat) /\ Len(Tail(s)) = Len(s) - 1
      /\ \A i \in 1 .. Len(Tail(s)) : Tail(s)[i] = s[i + 1]
      BY HeadTailProperties
<1>2. ASSUME Len(s) = 1 PROVE Tail(s) = <<>>
  <2>1. Len(Tail(s)) = 0
        BY <1>1, <1>2
  <2> QED
      BY <1>1, <2>1, EmptySeq
<1>3. ASSUME Len(s) = 5 PROVE Len(Tail(s)) = 4 /\ Tail(s)[1] = s[2] /\ Tail(s) # <<>>
  <2>1. Len(Tail(s)) = 4 /\ Tail(s)[1] = s[2]
        BY <1>1, <1>3
  <2>2. Len(<<>>) = 0
        BY EmptySeq
  <2>3. Tail(s) # <<>>
    <3>1. ASSUME Tail(s) = <<>> PROVE Len(Tail(s)) = 0
          BY ONLY <2>2, <3>1, Zenon
    <3> QED
        BY <2>1, <3>1
  <2> QED
      BY <2>1, <2>3
<1> QED
    BY <1>2, <1>3

\* d is the card c, in another state.
Same(c, d) ==
  d \in Cards /\ d.kind = c.kind /\ d.dead = c.dead /\ d.range = c.range /\ d.crc = c.crc

\* A block that has gone over the bus.
LEMMA PassedOn ==
  ASSUME NEW c \in Cards
  PROVE  /\ Same(c, Passed(c)) /\ Passed(c).busy = c.busy /\ Passed(c).out = c.out
         /\ c.mode = "stream!" => Passed(c).mode = "stream" /\ Passed(c).at = c.at + 1
         /\ c.mode = "blocks" => Passed(c).mode = "blocks" /\ Passed(c).at = c.at + 1
         /\ c.mode \notin {"stream!", "blocks"} => Passed(c).mode = "ready" /\ Passed(c).at = 0
<1>1. c.at \in Nat /\ c.at + 1 \in Nat
      BY Fields
<1>2. CASE c.mode = "stream!"
  <2> DEFINE d == [c EXCEPT !.mode = "stream", !.at = c.at + 1]
  <2>1. Passed(c) = d
        BY <1>2 DEF Passed
  <2>2. Same(c, d) /\ d.busy = c.busy /\ d.out = c.out /\ d.mode = "stream" /\ d.at = c.at + 1
        BY <1>1 DEF Cards, Same, Modes
  <2> HIDE DEF d
  <2> QED
      BY <1>2, <2>1, <2>2
<1>3. CASE c.mode = "blocks"
  <2> DEFINE d == [c EXCEPT !.mode = "blocks", !.at = c.at + 1]
  <2>1. Passed(c) = d
        BY <1>3 DEF Passed
  <2>2. Same(c, d) /\ d.busy = c.busy /\ d.out = c.out /\ d.mode = "blocks" /\ d.at = c.at + 1
        BY <1>1 DEF Cards, Same, Modes
  <2> HIDE DEF d
  <2> QED
      BY <1>3, <2>1, <2>2
<1>4. CASE c.mode \notin {"stream!", "blocks"}
  <2> DEFINE d == [c EXCEPT !.mode = "ready", !.at = 0]
  <2>1. Passed(c) = d
        BY <1>4 DEF Passed, Ready
  <2>2. Same(c, d) /\ d.busy = c.busy /\ d.out = c.out /\ d.mode = "ready" /\ d.at = 0
        BY <1>1 DEF Cards, Same, Modes
  <2> HIDE DEF d
  <2> QED
      BY <1>4, <2>1, <2>2
<1> QED
    BY <1>2, <1>3, <1>4

\* The bytes that a card may send, and what becomes of it.
LEMMA AnswersAre ==
  ASSUME NEW c \in Cards, NEW a \in Answers(c)
  PROVE  \/ ~Drives(c) /\ a = <<High, c>>
         \/ Drives(c) /\ c.out # <<>> /\ a = <<Head(c.out), [c EXCEPT !.out = Tail(@)]>>
         \/ /\ Drives(c) /\ c.out = <<>> /\ c.busy
            /\ a \in {<<Busy, c>>, <<High, [c EXCEPT !.busy = FALSE]>>}
         \/ /\ Drives(c) /\ c.out = <<>> /\ ~c.busy
            /\ \/ c.mode \notin {"data", "data!", "stream!"} /\ a = <<High, c>>
               \/ c.mode = "data" /\ a = <<Token, [c EXCEPT !.mode = "data!"]>>
               \/ c.mode = "data" /\ a = <<ErrorToken, Passed(c)>>
               \/ c.mode \in {"data!", "stream!"} /\ a \in {<<Busy, c>>, <<High, Passed(c)>>}
               \/ c.mode = "stream" /\ a = <<ErrorToken, c>>
               \/ /\ c.mode = "stream" /\ c.at \in Block
                  /\ a = <<Token, [c EXCEPT !.mode = "stream!"]>>
BY DEF Answers, Passed

\* It stays the card that it is, and says first what it has to say.
LEMMA AnswersGive ==
  ASSUME NEW c \in Cards, NEW a \in Answers(c)
  PROVE  /\ a[1] \in Nat /\ Same(c, a[2]) /\ (a[2].busy => c.busy)
         /\ a[2].mode \in {"off", "idle"} <=> c.mode \in {"off", "idle"}
         /\ a[2].mode = "off" <=> c.mode = "off"
         /\ c.mode \notin {"data", "data!", "stream", "stream!"} =>
              a[2].mode = c.mode /\ a[2].at = c.at
         /\ a[2].mode = "stream!" => a[2].at \in Block \/ (c.mode = "stream!" /\ a[2].at = c.at)
         /\ a[1] = High /\ c.mode \in {"data", "stream"} => a[2].mode = c.mode /\ a[2].at = c.at
         /\ a[1] = Token /\ c.out = <<>> =>
              /\ \/ c.mode = "data" /\ a[2].mode = "data!"
                 \/ c.mode = "stream" /\ a[2].mode = "stream!"
              /\ a[2].at = c.at
         /\ c.out = <<>> => a[1] \in {High, Busy, Token, ErrorToken} /\ a[2].out = <<>>
         /\ a[1] = High /\ c.out = <<>> /\ Drives(c) => ~a[2].busy
         /\ c.out # <<>> /\ Drives(c) =>
              /\ a[1] = Head(c.out) /\ a[2].out = Tail(c.out)
              /\ a[2].mode = c.mode /\ a[2].busy = c.busy /\ a[2].at = c.at
         /\ c.out = <<>> /\ ~c.busy /\ c.mode \notin {"data", "data!", "stream", "stream!"} =>
              a[1] = High /\ a[2] = c
<1> USE DEF High, Busy, Token, ErrorToken
<1>1. c.out \in Seq(Nat) /\ c.at \in Nat /\ c.mode \in Modes /\ c.busy \in BOOLEAN /\ Same(c, c)
      BY Fields DEF Same
<1>2. CASE ~Drives(c) /\ a = <<High, c>>
      BY <1>1, <1>2
<1>3. CASE Drives(c) /\ c.out # <<>> /\ a = <<Head(c.out), [c EXCEPT !.out = Tail(@)]>>
  <2>1. Head(c.out) \in Nat /\ Tail(c.out) \in Seq(Nat)
        BY <1>1, <1>3
  <2> QED
      BY <1>1, <1>3, <2>1 DEF Cards, Same
<1>4. CASE c.out = <<>> /\ c.busy /\ a = <<Busy, c>>
      BY <1>1, <1>4
<1>5. CASE c.out = <<>> /\ c.busy /\ a = <<High, [c EXCEPT !.busy = FALSE]>>
  <2> DEFINE d == [c EXCEPT !.busy = FALSE]
  <2>1. /\ Same(c, d) /\ ~d.busy /\ d.mode = c.mode /\ d.at = c.at /\ d.out = c.out
        /\ a[1] = High /\ a[2] = d /\ c.out = <<>> /\ c.busy
        BY <1>5 DEF Cards, Same
  <2> HIDE DEF d
  <2> QED
      BY <1>1, <2>1
<1>6. CASE c.out = <<>> /\ ~c.busy /\ a = <<High, c>>
      BY <1>1, <1>6
<1>7. CASE /\ c.out = <<>> /\ ~c.busy /\ c.mode = "data"
           /\ a = <<Token, [c EXCEPT !.mode = "data!"]>>
      BY <1>1, <1>7 DEF Cards, Same, Modes
<1>8. CASE c.out = <<>> /\ ~c.busy /\ c.mode = "data" /\ a = <<ErrorToken, Passed(c)>>
      BY <1>1, <1>8, PassedOn
<1>9. CASE c.out = <<>> /\ ~c.busy /\ c.mode \in {"data!", "stream!"} /\ a = <<Busy, c>>
      BY <1>1, <1>9
<1>10. CASE /\ c.out = <<>> /\ ~c.busy /\ c.mode \in {"data!", "stream!"}
            /\ a = <<High, Passed(c)>>
      BY <1>1, <1>10, PassedOn
<1>11. CASE c.out = <<>> /\ ~c.busy /\ c.mode = "stream" /\ a = <<ErrorToken, c>>
      BY <1>1, <1>11
<1>12. CASE /\ c.out = <<>> /\ ~c.busy /\ c.mode = "stream" /\ c.at \in Block
            /\ a = <<Token, [c EXCEPT !.mode = "stream!"]>>
      BY <1>1, <1>12 DEF Cards, Same, Modes
<1> QED
    BY <1>2, <1>3, <1>4, <1>5, <1>6, <1>7, <1>8, <1>9, <1>10, <1>11, <1>12, AnswersAre
\* A card takes no command as long as it programs or waits for a block.
Ignores(c, k) ==
  \/ ~drv.cs \/ c.dead \/ c.busy \/ c.mode \in {"block", "blocks"}
  \/ c.mode = "off" /\ k.c # 0

\* A command that the card does not take changes nothing.
LEMMA Ignored ==
  ASSUME NEW c, NEW k, Ignores(c, k), NEW n \in Takes(c, k)
  PROVE  n = c
BY DEF Takes, Ignores

Responses == {0, 1, 4, 5, 64}

\* A response of one byte.
Short(n) == Len(n.out) = 1 /\ n.out # <<>> /\ Head(n.out) \in Responses

\* A card with a response of one byte is the same card.
LEMMA CardSays ==
  ASSUME NEW c \in Cards, NEW r \in Responses
  PROVE  /\ Same(c, Says(c, r)) /\ Short(Says(c, r)) /\ Head(Says(c, r).out) = r
         /\ Says(c, r).mode = c.mode /\ Says(c, r).at = c.at /\ Says(c, r).busy = c.busy
<1>1. <<r>> \in Seq(Nat) /\ <<r>> # <<>> /\ Len(<<r>>) = 1 /\ Head(<<r>>) = r
      BY DEF Responses
<1>2. /\ Same(c, Says(c, r)) /\ Says(c, r).out = <<r>>
      /\ Says(c, r).mode = c.mode /\ Says(c, r).at = c.at /\ Says(c, r).busy = c.busy
      BY <1>1 DEF Says, Cards, Same
<1> QED
    BY <1>1, <1>2 DEF Short

\* The response to a command that the card does not know, or not now.
LEMMA IllegalGives ==
  ASSUME NEW c \in Cards, NEW n \in Illegal(c)
  PROVE  /\ Same(c, n) /\ Short(n) /\ Head(n.out) = IF c.mode = "idle" THEN 5 ELSE 4
         /\ n.mode = c.mode /\ n.at = c.at /\ n.busy = c.busy
<1>1. n = Says(c, IF c.mode = "idle" THEN 5 ELSE 4)
      BY DEF Illegal, R1, R1_IDLE_STATE, R1_READY_STATE, R1_ILLEGAL_COMMAND
<1> QED
    BY <1>1, CardSays DEF Responses

\* The commands that lead to data, see Takes.
DataMode(command) ==
  CASE command = 17 -> "data" [] command = 18 -> "stream" [] command = 24 -> "block"
    [] command = 25 -> "blocks"

\* An address that a card accepts is that of one of its blocks.
LEMMA BlockIsNat ==
  ASSUME NEW c \in Cards, NEW arg \in Nat, IsAddress(c, arg)
  PROVE  BlockOf(c, arg) \in Block /\ BlockOf(c, arg) \in Nat
BY Constants DEF IsAddress, BlockOf

\* What the card c is, as n, when it has taken the command k.
TakenAs(c, k, n) ==
  /\ n \in Cards /\ n.kind = c.kind /\ n.dead = c.dead /\ n.mode # "off"
  /\ n.out # <<>> /\ Head(n.out) \in Responses /\ (k.c \notin {8, 58} => Len(n.out) = 1)
  /\ n.mode = "stream!" => c.mode = "stream!" /\ n.at = c.at
  /\ n.mode = "idle" \/ k.c \notin {12, 38} => ~n.busy
  /\ k.c = 0 => n.mode = "idle" /\ Head(n.out) = 1
  /\ c.mode = "idle" /\ k.c # 41 => Head(n.out) # 0
  /\ k.c # 0 /\ c.crc => n.crc
  /\ k.c = 59 /\ c.mode = "idle" => n.crc
  /\ k.c \in {8, 9, 12, 55, 58, 59, 17, 18, 23, 24, 25, 32, 33, 38} =>
       (n.mode = "idle" <=> c.mode = "idle")
  /\ k.c \in {8, 55, 58, 59} => n.mode = c.mode
  /\ k.c = 41 /\ c.mode = "idle" => n.mode = IF Head(n.out) = 0 THEN "ready" ELSE "idle"
  /\ k.c = 8 /\ c.mode = "idle" =>
       IF c.kind = "SD1" THEN Len(n.out) = 1 /\ Head(n.out) = 5
       ELSE Len(n.out) = 5 /\ Head(n.out) = 1
  /\ k.c = 58 /\ c.mode = "ready" =>
       /\ Head(n.out) = 0 /\ Len(n.out) = 5
       /\ n.out[2] = IF c.kind = "SDHC" THEN 192 ELSE 128
  /\ k.c \in {17, 18, 24, 25} /\ Head(n.out) = 0 =>
       /\ c.mode = "ready" /\ IsAddress(c, k.arg)
       /\ n.mode = DataMode(k.c) /\ n.at = BlockOf(c, k.arg)
  /\ k.c \in {32, 33, 38} /\ Head(n.out) = 0 => c.mode = "ready" /\ n.mode = "ready"
  /\ k.c = 32 /\ Head(n.out) = 0 => n.range = <<k.arg, k.arg>>
  /\ k.c = 33 /\ Head(n.out) = 0 => n.range = <<c.range[1], k.arg>>
  /\ k.c = 38 => (Head(n.out) = 0 <=> n.busy) /\ (n.busy => c.mode = "ready")
  /\ k.c = 12 /\ n.busy => n.mode = "ready"

\* A command refused as illegal is one that has been taken.
LEMMA IllegalTaken ==
  ASSUME NEW c \in Cards, NEW k \in [c : Nat, arg : Nat], ~Ignores(c, k), k.c # 0,
         k.c = 58 => c.mode # "ready", k.c = 59 => c.mode # "idle",
         k.c = 8 => c.mode # "idle" \/ c.kind = "SD1",
         NEW d \in Cards, Same(c, d), d.mode = c.mode, d.at = c.at, d.busy = c.busy,
         NEW n \in Illegal(d)
  PROVE  TakenAs(c, k, n)
BY IllegalGives DEF TakenAs, Same, Short, Ignores

\* Every command the driver sends is taken like this, or ignored.
LEMMA TakesGive ==
  ASSUME NEW c \in Cards, NEW k \in [c : Nat, arg : Nat], ~Ignores(c, k),
         NEW label, Sends(k.c, label), NEW n \in Takes(c, k)
  PROVE  TakenAs(c, k, n)
<1> DEFINE app == k.c = 55
           d == [c EXCEPT !.app = app, !.out = <<>>]
<1>1. /\ Same(c, d) /\ d.mode = c.mode /\ d.at = c.at /\ d.busy = c.busy /\ d \in Cards
      /\ ~c.busy /\ c.mode \notin {"block", "blocks"} /\ k.c \in Nat /\ k.arg \in Nat
      /\ c.dead = FALSE /\ (c.mode = "off" => k.c = 0) /\ c.mode \in Modes /\ c.kind \in Types
      /\ c.at \in Nat
  <2>1. app \in BOOLEAN /\ <<>> \in Seq(Nat)
        OBVIOUS
  <2> HIDE DEF app
  <2>2. Same(c, d) /\ d.mode = c.mode /\ d.at = c.at /\ d.busy = c.busy
        BY <2>1 DEF Cards, Same
  <2> QED
      BY <2>2, Fields DEF Same, Ignores
<1> HIDE DEF d, app
<1>2. CASE k.c = 0
  <2>1. n = [Says(NewCard(c.kind), R1_IDLE_STATE) EXCEPT !.mode = "idle"]
        BY <1>2 DEF Takes, Ignores
  <2>2. <<1>> \in Seq(Nat) /\ Len(<<1>>) = 1 /\ Head(<<1>>) = 1 /\ <<1>> # <<>>
        OBVIOUS
  <2>3. /\ n \in Cards /\ n.mode = "idle" /\ ~n.busy /\ n.kind = c.kind /\ n.dead = FALSE
        /\ Len(n.out) = 1 /\ Head(n.out) = 1 /\ n.out # <<>>
        BY <1>1, <2>1, <2>2 DEF Says, NewCard, R1_IDLE_STATE, Cards, Modes
  <2>4. Head(n.out) \in Responses /\ (n.mode = "stream!" => FALSE) /\ n.mode # "off"
        BY <2>3 DEF Responses
  <2>5. /\ k.c \notin {8, 9, 12, 17, 18, 23, 24, 25, 32, 33, 38, 41, 55, 58, 59}
        /\ n.dead = c.dead
    <3>1. n.dead \in BOOLEAN /\ c.dead \in BOOLEAN
          BY <2>3, Fields
    <3> QED
        BY <1>1, <1>2, <2>3, <3>1
  <2> QED
      BY ONLY <1>2, <2>3, <2>4, <2>5 DEF TakenAs
<1>3. CASE c.mode \in {"stream", "stream!"} /\ k.c \notin {0, 12}
  <2>1. n \in Illegal(d)
        BY <1>3 DEF Takes, Ignores, d, app
  <2> QED
      BY <1>1, <1>3, <2>1, IllegalTaken
<1> DEFINE Listening == k.c = 12 \/ c.mode \notin {"stream", "stream!"}
           s == Says(d, R1(d))
           z == Says(d, 0)
<1>4. /\ Same(d, s) /\ Short(s) /\ s.mode = d.mode /\ s.at = d.at /\ s.busy = d.busy
      /\ Head(s.out) = IF c.mode = "idle" THEN 1 ELSE 0
      /\ Same(d, z) /\ Short(z) /\ z.mode = d.mode /\ z.at = d.at /\ z.busy = d.busy
      /\ Head(z.out) = 0 /\ s \in Cards /\ z \in Cards
  <2>1. R1(d) = (IF c.mode = "idle" THEN 1 ELSE 0) /\ R1(d) \in Responses /\ 0 \in Responses
        BY <1>1 DEF R1, R1_IDLE_STATE, R1_READY_STATE, Responses
  <2> QED
      BY <1>1, <2>1, CardSays DEF Same
<1> HIDE DEF s, z
<1>5. CASE k.c = 59 /\ Listening
  <2>1. n = [s EXCEPT !.crc = TRUE]
        BY <1>5 DEF Takes, Ignores, d, app, s
  <2>2. /\ n \in Cards /\ n.kind = s.kind /\ n.dead = s.dead /\ n.out = s.out
        /\ n.mode = s.mode /\ n.busy = s.busy /\ n.at = s.at /\ n.crc
        BY <1>4, <2>1 DEF Cards
  <2> QED
      BY <1>1, <1>4, <1>5, <2>2 DEF TakenAs, Same, Short
<1>6. CASE k.c = 55 /\ Listening
  <2>1. n = s
        BY <1>6 DEF Takes, Ignores, d, app, s
  <2> QED
      BY <1>1, <1>4, <1>6, <2>1 DEF TakenAs, Same, Short
<1>7. CASE k.c = 8 /\ Listening
  <2>1. CASE c.kind = "SD1"
    <3>1. n \in Illegal(d)
          BY <1>7, <2>1 DEF Takes, Ignores, d, app
    <3> QED
        BY <1>1, <1>7, <2>1, <3>1, IllegalTaken
  <2>2. CASE c.kind # "SD1"
    <3> DEFINE out == <<R1(d), 0, 0, 1, Echo>>
    <3>1. n = [d EXCEPT !.out = out]
          BY <1>7, <2>2 DEF Takes, Ignores, d, app
    <3>2. /\ out \in Seq(Nat) /\ Len(out) = 5 /\ out # <<>>
          /\ Head(out) = IF c.mode = "idle" THEN 1 ELSE 0
          BY <1>1 DEF R1, R1_IDLE_STATE, R1_READY_STATE, Echo
    <3> HIDE DEF out
    <3>3. Same(d, n) /\ n.out = out /\ n.mode = d.mode /\ n.busy = d.busy /\ n.at = d.at
          BY <1>1, <3>1, <3>2 DEF Cards, Same
    <3> QED
        BY <1>1, <1>7, <2>2, <3>2, <3>3 DEF TakenAs, Same, Responses
  <2> QED
      BY <2>1, <2>2
<1>8. CASE k.c = 41 /\ Listening
  <2>1. CASE n \in Illegal(d)
        BY <1>1, <1>8, <2>1, IllegalTaken
  <2>2. CASE n = Says(d, 1)
    <3>1. Same(d, n) /\ Short(n) /\ n.mode = d.mode /\ n.at = d.at /\ n.busy = d.busy
            /\ Head(n.out) = 1
          BY <1>1, <2>2, CardSays DEF Responses
    <3> QED
        BY <1>1, <1>8, <3>1 DEF TakenAs, Same, Short
  <2>3. CASE n = [z EXCEPT !.mode = "ready"]
    <3>1. Same(z, n) /\ n.out = z.out /\ n.busy = z.busy /\ n.mode = "ready"
          BY <1>4, <2>3 DEF Cards, Same, Modes
    <3> QED
        BY <1>1, <1>4, <1>8, <3>1 DEF TakenAs, Same, Short
  <2> QED
      BY <1>8, <2>1, <2>2, <2>3
         DEF Takes, Ignores, d, app, z, R1_IDLE_STATE, R1_READY_STATE
<1>9. CASE k.c = 58 /\ Listening
  <2> DEFINE out == <<R1(d), IF c.kind = "SDHC" THEN 192 ELSE 128, 255, 128, 0>>
  <2>1. n = [d EXCEPT !.out = out]
        BY <1>9 DEF Takes, Ignores, d, app
  <2>2. /\ out \in Seq(Nat) /\ Len(out) = 5 /\ out # <<>>
        /\ Head(out) = (IF c.mode = "idle" THEN 1 ELSE 0)
        /\ out[2] = IF c.kind = "SDHC" THEN 192 ELSE 128
        BY <1>1 DEF R1, R1_IDLE_STATE, R1_READY_STATE
  <2> HIDE DEF out
  <2>3. Same(d, n) /\ n.out = out /\ n.mode = d.mode /\ n.busy = d.busy /\ n.at = d.at
        BY <1>1, <2>1, <2>2 DEF Cards, Same
  <2> QED
      BY <1>1, <1>9, <2>2, <2>3 DEF TakenAs, Same, Responses
<1>10. CASE k.c = 9 /\ Listening
  <2>1. CASE n \in Illegal(d)
        BY <1>1, <1>10, <2>1, IllegalTaken
  <2>2. CASE d.mode = "ready" /\ n = [z EXCEPT !.mode = "data"]
    <3>1. Same(z, n) /\ n.out = z.out /\ n.busy = z.busy /\ n.mode = "data"
          BY <1>4, <2>2 DEF Cards, Same, Modes
    <3> QED
        BY <1>1, <1>4, <1>10, <2>2, <3>1 DEF TakenAs, Same, Short
  <2> QED
      BY <1>10, <2>1, <2>2 DEF Takes, Ignores, d, app, z
<1>11. CASE k.c = 23 /\ Listening
  <2>1. CASE n \in Illegal(d)
        BY <1>1, <1>11, <2>1, IllegalTaken
  <2>2. CASE c.mode = "ready" /\ n = z
        BY <1>1, <1>4, <1>11, <2>2 DEF TakenAs, Same, Short
  <2> QED
      BY <1>11, <2>1, <2>2 DEF Takes, Ignores, d, app, z
<1>12. CASE k.c = 12
  <2>1. CASE n \in Illegal(d)
        BY <1>1, <1>12, <2>1, IllegalTaken
  <2>2. CASE d.mode # "idle" /\ n = [Ready(s) EXCEPT !.busy = TRUE]
    <3> DEFINE r == [s EXCEPT !.mode = "ready", !.at = 0]
    <3>1. n = [r EXCEPT !.busy = TRUE]
          BY <2>2 DEF Ready
    <3>2. Same(s, r) /\ r.out = s.out /\ r.mode = "ready"
          BY <1>4 DEF Cards, Same, Modes
    <3> HIDE DEF r
    <3>3. Same(r, n) /\ n.out = r.out /\ n.mode = r.mode
          BY <3>1, <3>2 DEF Cards, Same
    <3> QED
        BY <1>1, <1>4, <1>12, <2>2, <3>2, <3>3 DEF TakenAs, Same, Short
  <2> QED
      BY <1>12, <2>1, <2>2 DEF Takes, Ignores, d, app, s
<1>13. CASE k.c \in {17, 18, 24, 25} /\ Listening
  <2>1. CASE n \in Illegal(d)
        BY <1>1, <1>13, <2>1, IllegalTaken
  <2>2. CASE n = Says(d, R1_ERROR)
    <3>1. Same(d, n) /\ Short(n) /\ n.mode = d.mode /\ n.at = d.at /\ n.busy = d.busy
            /\ Head(n.out) = 64
          BY <1>1, <2>2, CardSays DEF Responses, R1_ERROR
    <3> QED
        BY <1>1, <1>13, <3>1 DEF TakenAs, Same, Short
  <2>3. CASE /\ d.mode = "ready" /\ IsAddress(d, k.arg)
             /\ n = [z EXCEPT !.mode = DataMode(k.c), !.at = BlockOf(d, k.arg)]
    <3> DEFINE at == BlockOf(d, k.arg)
               mode == DataMode(k.c)
    <3>1. at \in Nat /\ at = BlockOf(c, k.arg) /\ IsAddress(c, k.arg)
          BY <1>1, <2>3, BlockIsNat DEF BlockOf, IsAddress, Same
    <3>2. mode \in {"data", "stream", "block", "blocks"}
          BY <1>13 DEF DataMode
    <3> HIDE DEF at, mode
    <3>3. n = [z EXCEPT !.mode = mode, !.at = at]
          BY <2>3 DEF at, mode
    <3>4. Same(z, n) /\ n.out = z.out /\ n.busy = z.busy /\ n.mode = mode /\ n.at = at
          BY <1>4, <3>1, <3>2, <3>3 DEF Cards, Same, Modes
    <3>5. d.mode = "ready" /\ mode = DataMode(k.c)
          BY <2>3 DEF mode
    <3> QED
        BY <1>1, <1>4, <1>13, <3>1, <3>2, <3>4, <3>5 DEF TakenAs, Same, Short
  <2> USE DEF Takes, Ignores, d, app, z, R1_READY_STATE, DataMode
  <2>4. CASE k.c = 17
        BY <1>13, <2>1, <2>2, <2>3, <2>4
  <2>5. CASE k.c = 18
        BY <1>13, <2>1, <2>2, <2>3, <2>5
  <2>6. CASE k.c = 24
        BY <1>13, <2>1, <2>2, <2>3, <2>6
  <2>7. CASE k.c = 25
        BY <1>13, <2>1, <2>2, <2>3, <2>7
  <2> QED
      BY <1>13, <2>4, <2>5, <2>6, <2>7
<1>14. CASE k.c = 32 /\ Listening
  <2>1. CASE n \in Illegal(d)
        BY <1>1, <1>14, <2>1, IllegalTaken
  <2>2. CASE d.mode = "ready" /\ n = [z EXCEPT !.range = <<k.arg, k.arg>>]
    <3>1. /\ n \in Cards /\ n.kind = z.kind /\ n.dead = z.dead /\ n.crc = z.crc /\ n.out = z.out
          /\ n.busy = z.busy /\ n.mode = z.mode /\ n.range = <<k.arg, k.arg>>
          BY <1>1, <1>4, <2>2 DEF Cards
    <3>2. d.mode = "ready"
          BY <2>2
    <3> QED
        BY <1>1, <1>4, <1>14, <3>1, <3>2 DEF TakenAs, Same, Short
  <2> QED
      BY <1>14, <2>1, <2>2 DEF Takes, Ignores, d, app, z
<1>15. CASE k.c = 33 /\ Listening
  <2>1. CASE n \in Illegal(d)
        BY <1>1, <1>15, <2>1, IllegalTaken
  <2>2. CASE d.mode = "ready" /\ n = [z EXCEPT !.range[2] = k.arg]
    <3>1. /\ n \in Cards /\ n.kind = z.kind /\ n.dead = z.dead /\ n.crc = z.crc /\ n.out = z.out
          /\ n.busy = z.busy /\ n.mode = z.mode /\ n.range = <<z.range[1], k.arg>>
      <4> DEFINE range == [z.range EXCEPT ![2] = k.arg]
      <4>1. n = [z EXCEPT !.range = range]
            BY <2>2
      <4>2. range \in Nat \X Nat /\ range = <<z.range[1], k.arg>>
        <5>1. z.range \in Nat \X Nat
              BY <1>4, Fields
        <5> QED
            BY <1>1, <5>1
      <4> HIDE DEF range
      <4> QED
          BY <1>4, <4>1, <4>2 DEF Cards
    <3>2. d.mode = "ready"
          BY <2>2
    <3> QED
        BY <1>1, <1>4, <1>15, <3>1, <3>2 DEF TakenAs, Same, Short
  <2> QED
      BY <1>15, <2>1, <2>2 DEF Takes, Ignores, d, app, z
<1>16. CASE k.c = 38 /\ Listening
  <2>1. CASE n \in Illegal(d)
        BY <1>1, <1>16, <2>1, IllegalTaken
  <2>2. CASE d.mode = "ready" /\ n = [z EXCEPT !.busy = TRUE, !.range = <<0, 0>>]
    <3>1. /\ n \in Cards /\ n.kind = z.kind /\ n.dead = z.dead /\ n.crc = z.crc /\ n.out = z.out
          /\ n.busy /\ n.mode = z.mode
      <4> DEFINE range == <<0, 0>>
      <4>1. n = [z EXCEPT !.busy = TRUE, !.range = range]
            BY <2>2
      <4>2. range \in Nat \X Nat
            OBVIOUS
      <4> HIDE DEF range
      <4> QED
          BY <1>4, <4>1, <4>2 DEF Cards
    <3>2. d.mode = "ready"
          BY <2>2
    <3> QED
        BY <1>1, <1>4, <1>16, <3>1, <3>2 DEF TakenAs, Same, Short
  <2> QED
      BY <1>16, <2>1, <2>2 DEF Takes, Ignores, d, app, z
<1> QED
    BY <1>2, <1>3, <1>7, <1>10, <1>12, <1>13, <1>11, <1>14, <1>15, <1>16,
       <1>8, <1>6, <1>9, <1>5 DEF Sends

-------------------------------------------------------------------------------
(* The driver's operators.                                                 *)

\* What the driver keeps from step to step of a call.
Keeps(d, e) ==
  /\ e \in Drivers /\ e.m_type = d.m_type /\ e.sequence = d.sequence /\ e.next = d.next
  /\ e.crc = d.crc

\* The fields of a driver.
LEMMA DriverFields ==
  ASSUME NEW d \in Drivers
  PROVE  /\ d.pc \in Labels /\ d.cmd \in [c : Nat, arg : Nat] /\ d.to \in Labels
         /\ d.tries \in 0 .. Tries /\ d.since \in Clock /\ d.init \in Clock
         /\ d.m_status \in Nat
         /\ d.m_type \in Types \cup {"none"} /\ d.cs \in BOOLEAN
         /\ d.sequence \in {"none", "read", "write"} /\ d.next \in Nat /\ d.crc \in BOOLEAN
BY DEF Drivers

\* No time and no tries are a time and a number of tries.
LEMMA Zero == 0 \in Clock /\ 0 \in 0 .. Tries
<1>1. SD_INIT_TIMEOUT \in 0 .. ClockMax - 2 /\ ClockMax \in Nat /\ Tries \in Nat
      BY CardAssumption
<1> QED
    BY <1>1 DEF Clock

\* The driver d goes to another place, as e.
Moves(d, e, label) ==
  /\ Keeps(d, e) /\ e.pc = label /\ e.cs = d.cs /\ e.m_status = 255 /\ e.to = d.to
  /\ e.cmd = d.cmd

\* Go and Wait lead to another place.
LEMMA GoesTo ==
  ASSUME NEW d \in Drivers, NEW label \in Labels
  PROVE  Moves(d, Go(d, label), label)
BY DEF Drivers, Keeps, Moves, Go, High

LEMMA WaitsAt ==
  ASSUME NEW d \in Drivers, NEW label \in Labels, clock \in Clock
  PROVE  Moves(d, Wait(d, label), label)
<1> DEFINE e == Go(d, label)
<1>1. Moves(d, e, label)
      BY GoesTo
<1> HIDE DEF e
<1>2. Wait(d, label) = [e EXCEPT !.since = clock]
      BY DEF Wait, e
<1> QED
    BY <1>1, <1>2 DEF Drivers, Keeps, Moves

\* The driver e is about to send a command, and goes on at the place to.
Carries(d, e, c, arg, to) ==
  /\ Keeps(d, e) /\ e.pc = "poll" /\ e.cs = TRUE /\ e.m_status = 255
  /\ e.cmd.c = c /\ e.cmd.arg = arg /\ e.to = to

\* Command makes a driver that sends the command.
LEMMA CommandSent ==
  ASSUME NEW d \in Drivers, NEW c \in Nat, NEW arg \in Nat, NEW to \in Labels, clock \in Clock
  PROVE  Carries(d, Command(d, c, arg, to), c, arg, to)
<1> DEFINE e == Wait(d, "poll")
           k == [c |-> c, arg |-> arg]
<1>1. Keeps(d, e) /\ e.pc = "poll" /\ e.m_status = 255
      BY WaitsAt DEF Labels, Moves
<1>2. k \in [c : Nat, arg : Nat] /\ k.c = c /\ k.arg = arg
      OBVIOUS
<1> HIDE DEF e, k
<1> DEFINE f == [e EXCEPT !.cmd = k, !.to = to, !.cs = TRUE]
<1>3. Command(d, c, arg, to) = f
      BY DEF Command, e, k
<1>4. f \in Drivers /\ f.m_type = e.m_type /\ f.sequence = e.sequence /\ f.next = e.next
      BY <1>1, <1>2 DEF Drivers, Keeps
<1>5. /\ f.crc = e.crc /\ f.pc = e.pc /\ f.cs = TRUE /\ f.m_status = e.m_status
      /\ f.to = to /\ f.cmd = k
      BY <1>1, <1>2 DEF Drivers, Keeps
<1> HIDE DEF f
<1> QED
    BY <1>1, <1>2, <1>3, <1>4, <1>5 DEF Keeps, Carries

\* A driver that knows nothing.
LEMMA FreshDriver ==
  ASSUME NEW crc \in BOOLEAN
  PROVE  /\ Fresh(crc) \in Drivers /\ Fresh(crc).pc = "none" /\ Fresh(crc).cs = FALSE
         /\ Fresh(crc).m_type = "none" /\ Fresh(crc).sequence = "none" /\ Fresh(crc).next = 0
         /\ Fresh(crc).crc = crc /\ Fresh(crc).cmd \in [c : Nat, arg : Nat]
         /\ Fresh(crc).to = "none"
         /\ Fresh(crc).m_status = 255
<1> DEFINE k == [c |-> 0, arg |-> 0]
<1>1. k \in [c : Nat, arg : Nat] /\ 0 \in Clock /\ 0 \in 0 .. Tries
      BY Zero
<1> HIDE DEF k
<1> DEFINE d == [pc |-> "none", cmd |-> k, to |-> "none", tries |-> 0,
                 since |-> 0, init |-> 0, m_status |-> 255, m_type |-> "none", cs |-> FALSE,
                 sequence |-> "none", next |-> 0, crc |-> crc]
<1>2. Fresh(crc) = d
      BY DEF Fresh, High, k
<1>3. d \in Drivers
      BY <1>1 DEF Drivers, Labels
<1> QED
    BY <1>1, <1>2, <1>3

\* The driver has taken a for the response.
Heard(e, a) ==
  /\ Keeps(drv, e) /\ e.pc = drv.to /\ e.cs = drv.cs /\ e.m_status = a

\* Responded makes a driver that has heard the response.
LEMMA ResponseIs ==
  ASSUME drv \in Drivers, NEW a \in Nat
  PROVE  Heard(Responded(a), a)
<1> DEFINE e == Go(drv, drv.to)
           k == Fresh(drv.crc).cmd
<1>1. drv.to \in Labels /\ drv.crc \in BOOLEAN
      BY DriverFields
<1>2. /\ Keeps(drv, e) /\ e.pc = drv.to /\ e.cs = drv.cs
      /\ k \in [c : Nat, arg : Nat] /\ 0 \in Clock /\ 0 \in 0 .. Tries
  <2>1. Keeps(drv, e) /\ e.pc = drv.to /\ e.cs = drv.cs
        BY <1>1, GoesTo DEF Moves
  <2>2. k \in [c : Nat, arg : Nat]
        BY <1>1, FreshDriver
  <2> QED
      BY <2>1, <2>2, Zero
<1> HIDE DEF e, k
<1> DEFINE f == [e EXCEPT !.m_status = a, !.tries = 0, !.since = 0, !.to = "none", !.cmd = k]
<1>3. Responded(a) = f
      BY DEF Responded, e, k
<1>4. f \in Drivers
      BY <1>2 DEF Drivers, Keeps, Labels
<1>5. /\ f.m_type = e.m_type /\ f.sequence = e.sequence /\ f.next = e.next
      /\ f.crc = e.crc /\ f.pc = e.pc /\ f.cs = e.cs /\ f.m_status = a
      BY <1>2 DEF Drivers, Keeps
<1> HIDE DEF f
<1> QED
    BY <1>2, <1>3, <1>4, <1>5 DEF Keeps, Heard

\* The driver after a call.
LEMMA ReturnedDriver ==
  ASSUME drv \in Drivers, call.b \in Nat, NEW ok \in BOOLEAN
  PROVE  LET d == Returned(ok) IN
         /\ d \in Drivers /\ d.pc = "none" /\ d.cs = FALSE /\ d.m_type = drv.m_type
         /\ d.crc = drv.crc /\ d.to = "none" /\ d.m_status = 255
         /\ ~ok => d.sequence = "none"
         /\ ok => /\ d.sequence = CASE call.op = "readStart" -> "read"
                                    [] call.op = "writeStart" -> "write"
                                    [] call.op \in {"readData", "writeData"} -> drv.sequence
                                    [] OTHER -> "none"
                  /\ call.op \in {"readStart", "writeStart"} => d.next = call.b
                  /\ call.op \in {"readData", "writeData"} => d.next = drv.next + 1
<1> DEFINE f == Fresh(drv.crc)
           sequence == IF ~ok THEN "none"
                  ELSE CASE call.op  = "readStart"  -> "read"
                         [] call.op = "writeStart" -> "write"
                         [] call.op \in {"readData", "writeData"} -> drv.sequence
                         [] OTHER -> "none"
           next == IF ~ok THEN 0
                   ELSE CASE call.op \in {"readStart", "writeStart"} -> call.b
                          [] call.op \in {"readData", "writeData"} -> drv.next + 1
                          [] OTHER -> 0
           d == [f EXCEPT !.m_type = drv.m_type, !.sequence = sequence, !.next = next]
<1>1. Returned(ok) = d
      BY DEF Returned
<1>2. /\ f \in Drivers /\ f.pc = "none" /\ f.cs = FALSE /\ f.crc = drv.crc /\ f.to = "none"
      /\ f.m_status = 255 /\ drv.m_type \in Types \cup {"none"}
      BY DriverFields, FreshDriver
<1>3. sequence \in {"none", "read", "write"} /\ next \in Nat
      BY DriverFields
<1>4. /\ ~ok => sequence = "none"
      /\ ok => /\ sequence = CASE call.op = "readStart" -> "read"
                                    [] call.op = "writeStart" -> "write"
                                    [] call.op \in {"readData", "writeData"} -> drv.sequence
                                    [] OTHER -> "none"
               /\ call.op \in {"readStart", "writeStart"} => next = call.b
               /\ call.op \in {"readData", "writeData"} => next = drv.next + 1
      OBVIOUS
<1> HIDE DEF f, sequence, next
<1>5. /\ d \in Drivers /\ d.pc = f.pc /\ d.cs = f.cs /\ d.m_type = drv.m_type
      /\ d.crc = f.crc /\ d.to = f.to /\ d.m_status = f.m_status /\ d.sequence = sequence
      /\ d.next = next
      BY <1>2, <1>3 DEF Drivers
<1> HIDE DEF d
<1> QED
    BY <1>1, <1>2, <1>3, <1>4, <1>5

-------------------------------------------------------------------------------
(* Steps that many actions share.                                          *)

\* The card has answered, or done nothing.
Tame ==
  /\ Same(card, card') /\ (card'.busy => card.busy /\ card'.mode = card.mode)
  /\ (card'.mode \in {"off", "idle"} <=> card.mode \in {"off", "idle"})
  /\ (card'.mode = "off" <=> card.mode = "off")
  /\ (card'.mode = "stream!" => card'.at \in Block)
  /\ (card.out = <<>> => card'.out = <<>>)

\* An answer, and no step of the card at all, are tame.
LEMMA TameAnswer ==
  ASSUME IInv, NEW a \in Answers(card), card' = a[2]
  PROVE  Tame
BY AnswersGive DEF Tame, IInv, Typed, Outputs, CardFits

LEMMA TameCard ==
  ASSUME IInv, card' = card
  PROVE  Tame
BY DEF Tame, IInv, Typed, CardFits, Same

\* What is true of the card in every state stays true.
LEMMA TameFits ==
  ASSUME IInv, Tame, drv'.crc = drv.crc,
         card.mode \in Begun =>
           (~At("none") /\ call.op = "begin")' \/ drv'.m_type \in {"none", card.kind}
  PROVE  CardFits'
<1>1. CardFits /\ card.mode \in Modes /\ card'.mode \in Modes
      BY Fields DEF IInv, Typed, Tame, Same
<1>2. card'.mode \in Begun <=> card.mode \in Begun
      BY <1>1 DEF Modes, Begun, Tame
<1>3. (card.dead => Off)'
      BY <1>1 DEF CardFits, Tame, Same, Off
<1>4. (card.busy => card.mode \in {"ready", "blocks"})'
      BY <1>1 DEF CardFits, Tame
<1>5. (drv.crc /\ card.mode \in Begun => card.crc)'
      BY <1>1, <1>2 DEF CardFits, Tame, Same
<1>6. (card.mode = "stream!" => card.at \in Block)'
      BY DEF Tame
<1>7. (card.mode \in Begun =>
         (~At("none") /\ call.op = "begin") \/ drv.m_type \in {"none", card.kind})'
      BY <1>2 DEF Tame, Same
<1> QED
    BY <1>3, <1>4, <1>5, <1>6, <1>7 DEF CardFits

\* What the card is about to program, or has programmed, stays the same, and so do its blocks
\* if it has nothing to program.
Kept == job' = job /\ (fate # "busy" => UNCHANGED <<store, fate>>)

\* That is so in every step in which no programming begins.
LEMMA JobKept == ASSUME JobEnds \/ UNCHANGED memory PROVE Kept
BY DEF JobEnds, memory, Kept

\* A call that fails.
LEMMA Errs ==
  ASSUME IInv, ~At("none"), Error, Tame, Silent', clock' \in Clock,
         call.op = "begin" => drv.m_type = "none" \/ card.mode \in {"off", "idle"}
  PROVE  IInv'
<1>1. drv \in Drivers /\ call \in Calls /\ card \in Cards /\ call.b \in Nat
      BY DEF IInv, Typed, Calls
<1>2. /\ drv' \in Drivers /\ drv'.pc = "none" /\ drv'.cs = FALSE /\ drv'.m_type = drv.m_type
      /\ drv'.crc = drv.crc /\ drv'.to = "none" /\ drv'.m_status = 255 /\ drv'.sequence = "none"
      BY <1>1, ReturnedDriver DEF Error
<1>3. call' \in Calls /\ call'.op = "none" /\ call'.ok = FALSE
      BY DEF Error, NoCall, Calls, Ops
<1>4. Typed'
      BY <1>2, <1>3 DEF Typed, IInv, Tame, Same
<1>5. Control' /\ Arguments' /\ InSequence'
      BY <1>2 DEF Control, Arguments, InSequence, At, Sending, Label
<1>6. Outputs' /\ Begins' /\ Answered'
      BY <1>2 DEF Outputs, Begins, Answered, At, Sending, Label, Silent
<1>7. CardFits'
  <2>1. card.mode \notin Begun \/ drv.m_type \in {"none", card.kind}
        BY DEF IInv, CardFits, Begun
  <2> QED
      BY <1>2, <2>1, TameFits
<1>8. Refuses' /\ Transfers' /\ Achieved'
      BY <1>2, <1>3 DEF Refuses, Transfers, Achieved, At, Sending, Off
<1> QED
    BY <1>4, <1>5, <1>6, <1>7, <1>8 DEF IInv

\* A loop that waits goes on.
LEMMA Polls ==
  ASSUME IInv, drv.pc \in {"poll", "token", "writable", "stop", "stopped", "erasing"},
         UNCHANGED <<drv, call>>, Kept, clock' \in Clock,
         NEW a \in Answers(card), card' = a[2], At("token") => a[1] = High
  PROVE  IInv'
<1>1. drv \in Drivers /\ call \in Calls /\ card \in Cards /\ card.mode \in Modes
      BY Fields DEF IInv, Typed
<1>2. /\ Tame
      /\ card.mode \notin {"data", "data!", "stream", "stream!"} =>
           card'.mode = card.mode /\ card'.at = card.at
      /\ At("token") /\ card.mode \in {"data", "stream"} =>
           card'.mode = card.mode /\ card'.at = card.at
      BY <1>1, TameAnswer, AnswersGive
<1>3. Typed'
      BY <1>2 DEF Typed, IInv, Tame, Same
<1>4. Control' /\ Arguments' /\ InSequence'
      BY DEF IInv, Control, Arguments, InSequence, At, Sending, Label, Address, OK
<1>5. Outputs'
      BY <1>2 DEF Outputs, At, Silent, Tame, IInv
<1>6. CardFits'
      BY <1>2, TameFits DEF IInv, CardFits, At
<1>7. Refuses'
      BY <1>2 DEF IInv, Refuses, At, Sending, Silent, Tame, OK
<1>8. Begins'
      BY <1>2 DEF IInv, Begins, At, Sending, Label, Silent, Tame, Same, OK, TypeFound, Off
<1>9. Answered'
      BY <1>2
         DEF IInv, Answered, Sure, OnTime, Marking, Label, At, Sending, Off, EraseRange, Effect,
             Deaf, Erased, Tame, Same, OK, Address, Kept
<1>10. Transfers'
      BY <1>2 DEF IInv, Transfers, OnTime, At, Off, Mode, Deaf, Erased, Target, Tame, Same, Kept
<1>11. Achieved'
      BY DEF IInv, Achieved, Control, At
<1> QED
    BY <1>3, <1>4, <1>5, <1>6, <1>7, <1>8, <1>9, <1>10, <1>11 DEF IInv

\* The card is as it was, but has nothing more to say.
Quiet ==
  /\ Same(card, card') /\ card'.mode = card.mode /\ card'.at = card.at
  /\ card'.busy = card.busy /\ card'.out = <<>>

\* A card that is quiet is tame.
LEMMA QuietIsTame ==
  ASSUME IInv, Quiet
  PROVE  Tame
BY DEF IInv, CardFits, Quiet, Tame

\* What the driver, as d, must know of the card when it sends a command.
MaySend(d, c, arg, to) ==
  /\ d \in Drivers /\ d.sequence = drv.sequence /\ d.next = drv.next /\ d.crc = drv.crc
  /\ c \in Nat /\ arg \in Nat /\ to \in Labels /\ Sends(c, to) /\ Places(call.op, to)
  /\ call.op # "begin" => d.m_type = drv.m_type
  /\ to \in {"read17", "start18", "write24", "start25", "erase32"} => arg = Address(call.b)
  /\ to = "erase33" => arg = Address(call.n)
  /\ to = "erase33" => Off \/ EraseRange(call.b)
  /\ to = "erase38" => Off \/ EraseRange(call.n)
  /\ to \in {"erase32", "erase33", "erase38"} => ~card.busy
  /\ call.op = "begin" =>
       /\ to \in {"cmd0", "cmd59", "cmd8"} => d.m_type = "none"
       /\ to \in {"acmd41", "init", "ocr"} => d.m_type = TypeFound
       /\ to = "ocr" => card.kind # "SD1" /\ card.mode \in {"off", "ready"}
       /\ to \in {"cmd59", "cmd8", "acmd41", "init"} => card.mode \in {"off", "idle"}
       /\ to \in {"cmd8", "acmd41", "init", "ocr"} /\ drv.crc => Off \/ card.crc
       /\ to \in {"init", "ocr"} => ~card.busy

\* A call sends a command.
LEMMA SendsCommand ==
  ASSUME IInv, ~At("none"), Quiet, clock' \in Clock, UNCHANGED call, Kept,
         NEW d, NEW c, NEW arg, NEW to, MaySend(d, c, arg, to), drv' = Command(d, c, arg, to)
  PROVE  IInv'
<1>1. drv \in Drivers /\ call \in Calls /\ card \in Cards /\ clock \in Clock
      BY DEF IInv, Typed
<1>2. /\ drv' \in Drivers /\ drv'.pc = "poll" /\ drv'.cs = TRUE /\ drv'.m_type = d.m_type
      /\ drv'.crc = drv.crc /\ drv'.to = to /\ drv'.cmd.c = c /\ drv'.cmd.arg = arg
      /\ drv'.m_status = 255 /\ drv'.sequence = drv.sequence /\ drv'.next = drv.next
  <2>1. d \in Drivers /\ c \in Nat /\ arg \in Nat /\ to \in Labels
        BY DEF MaySend
  <2>2. Carries(d, drv', c, arg, to)
        BY <1>1, <2>1, CommandSent
  <2> QED
      BY <2>2 DEF Keeps, Carries, MaySend
<1>3. to \in {"read17", "start18", "write24", "start25", "erase32", "erase33", "erase38"} =>
        drv'.m_type = drv.m_type
      BY <1>2 DEF Places, Beginning, MaySend
<1>4. Typed' /\ Tame
      BY <1>2, QuietIsTame DEF Typed, IInv, Quiet, Same
<1>5. Control'
      BY <1>2 DEF MaySend, IInv, Control, At, Sending, Label
<1>6. Arguments'
      BY <1>3, <1>2 DEF MaySend, IInv, Arguments, At, Sending, Address
<1>7. InSequence'
      BY <1>2 DEF MaySend, IInv, InSequence, At, TypeFound, Places, Beginning
<1>8. Outputs'
      BY <1>2 DEF Outputs, At, Silent, Quiet
<1>9. CardFits'
      BY <1>2, <1>4, TameFits DEF MaySend, IInv, CardFits, At
<1>10. Refuses'
      BY <1>2 DEF IInv, Refuses, At, Sending, Quiet
<1>11. Begins'
      BY <1>2 DEF MaySend, IInv, Begins, At, Sending, Label, Quiet, Same, TypeFound, Off
<1>12. Answered'
  <2>1. Label' = to /\ to # "csd"
        BY <1>2 DEF MaySend, Sends, Label, Sending, At
  <2>2. /\ to = "erase33" => (Off \/ EraseRange(call.b))'
        /\ to = "erase38" => (Off \/ EraseRange(call.n))'
        BY <1>3, <1>2 DEF MaySend, Off, EraseRange, Quiet, Same, Address
  <2>3. to \in {"erase32", "erase33", "erase38"} => ~card'.busy
        BY DEF MaySend, Quiet
  <2> QED
      BY <1>2, <2>1, <2>2, <2>3 DEF Answered, At, Sending
<1>13. Transfers'
      BY <1>2 DEF Transfers, At
<1>14. Achieved'
      BY DEF IInv, Control, Achieved
<1> QED
    BY <1>4, <1>5, <1>6, <1>7, <1>8, <1>9, <1>10, <1>11, <1>12, <1>13, <1>14 DEF IInv

\* The clock stays a clock, also where it wraps.
LEMMA ClockGoes == ASSUME clock \in Clock, TimePasses PROVE clock' \in Clock
<1>1. ClockMax \in Nat /\ ClockMax > 0 /\ clock \in Nat
      BY Zero, Constants DEF Clock
<1>2. (clock + 1) % ClockMax \in 0 .. ClockMax - 1
      BY <1>1
<1> QED
    BY <1>2 DEF TimePasses, Clock

\* Where nothing is left to say, a card that does nothing is quiet.
LEMMA QuietCard ==
  ASSUME IInv, card' = card, drv.pc \notin {"response", "sent", "cmd8", "ocr"}
  PROVE  Quiet
BY DEF IInv, Typed, Outputs, At, Silent, Quiet, Same

\* The places of begin are its own.
LEMMA InBegin ==
  ASSUME IInv, drv.pc \in Beginning
  PROVE  call.op = "begin" /\ ~At("none") /\ ~Sending /\ Label = drv.pc
BY DEF IInv, Control, Places, Beginning, At, Sending, Label

\* begin sends the command again, or gives up.
LEMMA AgainKeeps ==
  ASSUME IInv, call.op = "begin", ~At("none"), Quiet, Kept,
         NEW c, NEW arg, NEW to, MaySend(drv, c, arg, to), Again(c, arg, to),
         drv.m_type = "none" \/ card.mode \in {"off", "idle"}
  PROVE  IInv'
<1>1. clock \in Clock /\ Tame /\ Silent'
      BY QuietIsTame DEF IInv, Typed, Quiet, Silent
<1>2. CASE Error /\ UNCHANGED clock
      BY <1>1, <1>2, Errs
<1>3. CASE drv' = Command(drv, c, arg, to) /\ UNCHANGED call /\ TimePasses
      BY <1>1, <1>3, SendsCommand, ClockGoes
<1> QED
    BY <1>2, <1>3 DEF Again, Step

\* The steps of begin.
LEMMA Begin0Keeps == ASSUME IInv, Begin0 PROVE IInv'
<1>1. /\ call.op = "begin" /\ drv.m_type = "none" /\ ~At("none") /\ Quiet /\ Kept
      /\ drv.m_status = 1 => card.mode \in {"off", "idle"}
      /\ drv \in Drivers /\ clock \in Clock
      BY InBegin, QuietCard, JobKept DEF IInv, Typed, Begins, Begin0, At, Beginning
<1>2. CASE Again(0, 0, "cmd0")
  <2>1. MaySend(drv, 0, 0, "cmd0")
        BY <1>1 DEF MaySend, Labels, Sends, Places, Beginning
  <2> QED
      BY <1>1, <1>2, <2>1, AgainKeeps
<1>3. CASE drv.m_status = 1 /\ drv' = Command(drv, 59, 1, "cmd59") /\ UNCHANGED <<call, clock>>
  <2>1. MaySend(drv, 59, 1, "cmd59")
        BY <1>1, <1>3 DEF MaySend, Labels, Sends, Places, Beginning
  <2> QED
      BY <1>1, <1>3, <2>1, SendsCommand
<1>4. CASE /\ drv.m_status = 1 /\ ~drv.crc /\ drv' = Command(drv, 8, 426, "cmd8")
           /\ UNCHANGED <<call, clock>>
  <2>1. MaySend(drv, 8, 426, "cmd8")
        BY <1>1, <1>4 DEF MaySend, Labels, Sends, Places, Beginning
  <2> QED
      BY <1>1, <1>4, <2>1, SendsCommand
<1> QED
    BY <1>2, <1>3, <1>4 DEF Begin0, Step, SendIfCond, R1_IDLE_STATE

LEMMA Begin59Keeps == ASSUME IInv, Begin59 PROVE IInv'
<1>1. /\ call.op = "begin" /\ drv.m_type = "none" /\ ~At("none") /\ Quiet
      /\ UNCHANGED clock /\ Kept
      /\ card.mode \in {"off", "idle"} /\ (drv.m_status = 1 => Off \/ card.crc)
      /\ drv \in Drivers /\ clock \in Clock
      BY InBegin, QuietCard, JobKept DEF IInv, Typed, Begins, Begin59, At, Beginning, Keep
<1>2. CASE Error
      BY <1>1, <1>2, Errs, QuietIsTame DEF Quiet, Silent
<1>3. CASE drv.m_status = 1 /\ drv' = Command(drv, 8, 426, "cmd8") /\ UNCHANGED call
  <2>1. MaySend(drv, 8, 426, "cmd8")
        BY <1>1, <1>3 DEF MaySend, Labels, Sends, Places, Beginning
  <2> QED
      BY <1>1, <1>3, <2>1, SendsCommand
<1> QED
    BY <1>2, <1>3 DEF Begin59, Step, SendIfCond, R1_IDLE_STATE

LEMMA Begin8Keeps == ASSUME IInv, Begin8 PROVE IInv'
<1>1. /\ call.op = "begin" /\ drv.m_type = "none" /\ ~At("none") /\ Kept
      /\ card.mode \in {"off", "idle"} /\ (drv.crc => Off \/ card.crc)
      /\ drv \in Drivers /\ clock \in Clock /\ card \in Cards
      /\ drv.m_status = 5 => card.kind = "SD1"
      /\ Silent \/ card.kind # "SD1"
      BY InBegin, JobKept DEF IInv, Typed, Begins, Begin8, At, Beginning, Outputs
<1>2. Quiet
  <2>1. card' = [card EXCEPT !.out = <<>>] /\ card \in Cards /\ <<>> \in Seq(Nat)
        BY <1>1 DEF Begin8
  <2> QED
      BY <2>1 DEF Quiet, Same, Cards
<1>3. CASE Again(8, 426, "cmd8")
  <2>1. MaySend(drv, 8, 426, "cmd8")
        BY <1>1 DEF MaySend, Labels, Sends, Places, Beginning
  <2> QED
      BY <1>1, <1>2, <1>3, <2>1, AgainKeeps
<1>4. ASSUME NEW type, drv' = Command([drv EXCEPT !.m_type = type], 55, 0, "acmd41"),
             UNCHANGED <<call, clock>>, type \in Types, type = TypeFound
      PROVE  IInv'
  <2> DEFINE d == [drv EXCEPT !.m_type = type]
  <2>1. /\ d \in Drivers /\ d.sequence = drv.sequence /\ d.next = drv.next /\ d.crc = drv.crc
        /\ d.m_type = type
        BY <1>1, <1>4 DEF Drivers
  <2>2. drv' = Command(d, 55, 0, "acmd41")
        BY <1>4
  <2> HIDE DEF d
  <2>3. MaySend(d, 55, 0, "acmd41")
        BY <1>1, <1>4, <2>1 DEF MaySend, Labels, Sends, Places, Beginning
  <2> QED
      BY <1>1, <1>2, <1>4, <2>2, <2>3, SendsCommand
<1>5. CASE /\ drv.m_status = 5 /\ UNCHANGED <<call, clock>>
           /\ drv' = Command([drv EXCEPT !.m_type = "SD1"], 55, 0, "acmd41")
  <2>1. "SD1" \in Types /\ TypeFound = "SD1"
        BY <1>1, <1>5 DEF TypeFound, Types
  <2> QED
      BY <1>4, <1>5, <2>1
<1>6. CASE /\ drv.m_status # 5 /\ Echoed = Echo /\ UNCHANGED <<call, clock>>
           /\ drv' = Command([drv EXCEPT !.m_type = "SD2"], 55, 0, "acmd41")
  <2>1. ~Silent
        BY <1>6 DEF Echoed, Echo, High, Silent
  <2>2. "SD2" \in Types /\ TypeFound = "SD2"
        BY <1>1, <2>1 DEF TypeFound, Types
  <2> QED
      BY <1>4, <1>6, <2>2
<1> QED
    BY <1>3, <1>5, <1>6 DEF Begin8, Step, R1_IDLE_STATE, R1_ILLEGAL_COMMAND

LEMMA Begin55Keeps == ASSUME IInv, Begin55 PROVE IInv'
<1> DEFINE arg == IF drv.m_type = "SD2" THEN 1 ELSE 0
<1>1. /\ call.op = "begin" /\ drv.m_type = TypeFound /\ ~At("none") /\ Quiet
      /\ UNCHANGED <<clock, call>> /\ Kept /\ card.mode \in {"off", "idle"} /\ ~card.busy
      /\ (drv.crc => Off \/ card.crc)
      /\ drv \in Drivers /\ clock \in Clock /\ arg \in Nat
      BY InBegin, QuietCard, JobKept
         DEF IInv, Typed, Begins, Begin55, At, Beginning, Keep, CardFits, Step
<1>2. drv' = Command(drv, 41, arg, "init")
      BY DEF Begin55, Step
<1> HIDE DEF arg
<1>3. MaySend(drv, 41, arg, "init")
      BY <1>1 DEF MaySend, Labels, Sends, Places, Beginning
<1> QED
    BY <1>1, <1>2, <1>3, SendsCommand

\* What must be known of a call that returns: it has done what it was asked, and
\* the card goes on with the sequence of blocks.
MayReturn(data, trouble) ==
  /\ data \in Nat /\ trouble \subseteq {"garbled"}
  /\ call.op = "begin" /\ card.mode \in Begun => drv.m_type = card.kind
  /\ call.op \in {"readStart", "writeStart"} => card.mode # "idle"
  /\ ~Off =>
       /\ call.op = "readStart" => Deaf' \/ (card'.mode = "stream" /\ card'.at = call.b)
       /\ call.op = "readData" =>
            Deaf' \/ (card'.mode = "stream" /\ card'.at = drv.next + 1)
       /\ OnTime /\ call.op = "writeStart" => card'.mode = "blocks" /\ card'.at = call.b
       /\ OnTime /\ call.op = "writeData" => card'.mode = "blocks" /\ card'.at = drv.next + 1
  /\ drv.crc \/ "garbled" \notin call.trouble \cup trouble =>
       /\ call.op = "readBlock" => store'[call.b] = data /\ fate' # "busy"
       /\ call.op = "readData" =>
            drv.next \in Block /\ store'[drv.next] = data /\ fate' # "busy"
       /\ call.op = "writeBlock" => call.b \in Block /\ job = Job(call.b, call.b, data)
       /\ call.op = "writeData" /\ OnTime =>
            drv.next \in Block /\ job = Job(drv.next, drv.next, data)
       /\ call.op = "erase" =>
            call.b .. call.n \subseteq Block /\ Erased /\ fate' # "busy"

LEMMA Returns ==
  ASSUME IInv, ~At("none"), Tame, Silent', clock' \in Clock, Kept,
         NEW data, NEW trouble, MayReturn(data, trouble), ReturnsWith(data, trouble)
  PROVE  IInv'
<1>1. /\ drv \in Drivers /\ call \in Calls /\ card \in Cards /\ call.b \in Nat
      /\ drv.next \in Nat
      /\ data \in Nat /\ trouble \in SUBSET {"late", "garbled"}
      BY DriverFields DEF IInv, Typed, Calls, MayReturn
<1>2. /\ drv' \in Drivers /\ drv'.pc = "none" /\ drv'.cs = FALSE /\ drv'.m_type = drv.m_type
      /\ drv'.crc = drv.crc /\ drv'.to = "none" /\ drv'.m_status = 255
      /\ drv'.sequence = CASE call.op = "readStart" -> "read"
                           [] call.op = "writeStart" -> "write"
                           [] call.op \in {"readData", "writeData"} -> drv.sequence
                           [] OTHER -> "none"
      /\ call.op \in {"readStart", "writeStart"} => drv'.next = call.b
      /\ call.op \in {"readData", "writeData"} => drv'.next = drv.next + 1
      BY <1>1, ReturnedDriver DEF ReturnsWith
<1>3. /\ call' \in Calls /\ call'.op = call.op /\ call'.b = call.b /\ call'.n = call.n
      /\ call'.data = data /\ call'.trouble = call.trouble \cup trouble /\ call'.returned
  <2>1. call' = [call EXCEPT !.returned = TRUE, !.ok = TRUE, !.data = data,
                             !.trouble = call.trouble \cup trouble]
        BY DEF ReturnsWith
  <2>2. call.trouble \cup trouble \in SUBSET {"late", "garbled"}
        BY <1>1 DEF Calls
  <2> QED
      BY <1>1, <2>1, <2>2 DEF Calls
<1>4. Typed'
      BY <1>2, <1>3 DEF Typed, IInv, Tame, Same
<1>5. Control' /\ Arguments'
      BY <1>2 DEF Control, Arguments, At, Sending, Label
<1>6. InSequence'
      BY <1>2 DEF InSequence, At, IInv
<1>7. Outputs' /\ Begins' /\ Answered'
      BY <1>2 DEF Outputs, Begins, Answered, At, Sending, Label, Silent
<1>8. CardFits'
  <2>1. card.mode \in Begun => drv.m_type \in {"none", card.kind}
        BY DEF IInv, CardFits, MayReturn
  <2> QED
      BY <1>2, <2>1, TameFits
<1>9. Refuses'
      BY <1>2 DEF Refuses, At, Sending, Tame, MayReturn, IInv, InSequence
<1>10. OnTime' => OnTime
       BY <1>3 DEF OnTime
<1>11. Transfers'
       BY <1>2, <1>3, <1>10
          DEF Transfers, At, Off, Mode, Tame, MayReturn, IInv, InSequence
<1>12. Achieved'
       BY <1>1, <1>2, <1>3, <1>10 DEF Achieved, MayReturn, Erased, Kept
<1> QED
    BY <1>4, <1>5, <1>6, <1>7, <1>8, <1>9, <1>11, <1>12 DEF IInv

LEMMA Begin41Keeps == ASSUME IInv, Begin41 PROVE IInv'
<1>1. /\ call.op = "begin" /\ drv.m_type = TypeFound /\ ~At("none") /\ Quiet
      /\ Kept /\ ~card.busy /\ (drv.crc => Off \/ card.crc)
      /\ Off \/ card.mode = IF OK THEN "ready" ELSE "idle"
      /\ drv \in Drivers /\ clock \in Clock /\ card.kind \in Types
      BY InBegin, QuietCard, Fields, JobKept DEF IInv, Typed, Begins, Begin41, At, Beginning
<1>2. CASE ~OK /\ Again(55, 0, "acmd41")
  <2>1. MaySend(drv, 55, 0, "acmd41") /\ card.mode \in {"off", "idle"}
        BY <1>1, <1>2 DEF MaySend, Labels, Sends, Places, Beginning, Off
  <2> QED
      BY <1>1, <1>2, <2>1, AgainKeeps
<1>3. CASE /\ OK /\ drv.m_type = "SD2" /\ drv' = Command(drv, 58, 0, "ocr")
           /\ UNCHANGED <<call, clock>>
  <2>1. MaySend(drv, 58, 0, "ocr")
        BY <1>1, <1>3 DEF MaySend, Labels, Sends, Places, Beginning, Off, TypeFound
  <2> QED
      BY <1>1, <1>3, <2>1, SendsCommand
<1>4. CASE drv.m_type # "SD2" /\ Return(0) /\ UNCHANGED clock
  <2>1. MayReturn(0, {})
        BY <1>1, <1>4 DEF MayReturn, TypeFound
  <2> QED
      BY <1>1, <1>4, <2>1, Returns, QuietIsTame DEF Return, Quiet, Silent
<1> QED
    BY <1>2, <1>3, <1>4 DEF Begin41, Step

\* The response to a command is an error.
LEMMA RefusedKeeps ==
  ASSUME IInv, NEW label, label \notin {"none", "response", "sent", "cmd8"}, Refused(label),
         Quiet, call.op = "begin" => Off
  PROVE  IInv'
BY Errs, QuietIsTame DEF Refused, At, Keep, Off, IInv, Typed, Quiet, Silent

LEMMA Begin58Keeps == ASSUME IInv, Begin58 PROVE IInv'
<1>1. /\ call.op = "begin" /\ ~At("none") /\ Kept /\ drv.cs = TRUE
      /\ card.kind \in {"SD2", "SDHC"} /\ card.mode \in {"off", "ready"}
      /\ (drv.crc => Off \/ card.crc) /\ (Off \/ (OK /\ ~Silent))
      /\ Silent \/ (card.out[1] \in {128, 192} /\ (card.out[1] = 192 <=> card.kind = "SDHC"))
      /\ drv \in Drivers /\ clock \in Clock /\ call \in Calls /\ card \in Cards
      /\ card.kind \in Types /\ call.b \in Nat
      /\ (card.dead => Off) /\ (Off => Silent)
      BY InBegin, Fields, JobKept
         DEF IInv, Typed, Begins, Begin58, At, Beginning, Refused, Control, Keep, Outputs,
             Calls, Types, CardFits
<1>2. CASE Refused("ocr")
  <2>1. Off /\ card' = card /\ clock' = clock /\ Error
        BY <1>1, <1>2 DEF Refused, Keep
  <2>2. Tame /\ Silent'
        BY <1>1, <2>1, TameCard DEF Silent
  <2> QED
      BY <1>1, <2>1, <2>2, Errs DEF Off
<1>3. ASSUME NEW a \in Answers(card), card' = [a[2] EXCEPT !.out = <<>>],
             drv' = [Returned(TRUE) EXCEPT !.m_type = OcrType(a[1])],
             call' = [call EXCEPT !.returned = TRUE, !.ok = TRUE], UNCHANGED clock
      PROVE  IInv'
  <2>1. /\ Same(card, a[2]) /\ (a[2].busy => card.busy)
        /\ a[2].mode = card.mode /\ a[2].at = card.at
        /\ card.out # <<>> /\ Drives(card) => a[1] = Head(card.out)
        /\ a[1] \in Nat
        BY <1>1, AnswersGive
  <2>2. OcrType(a[1]) \in Types
        BY DEF OcrType, Types
  <2>3. ~Off => OcrType(a[1]) = card.kind
        BY <1>1, <2>1 DEF OcrType, Drives, Off, Silent
  <2>4. Tame /\ Silent'
    <3>1. a[2] \in Cards /\ <<>> \in Seq(Nat)
          BY <2>1 DEF Same
    <3>2. /\ Same(a[2], card') /\ card'.out = <<>> /\ card'.mode = a[2].mode
          /\ card'.at = a[2].at
          /\ card'.busy = a[2].busy
          BY <1>3, <3>1 DEF Cards, Same
    <3> QED
        BY <1>1, <2>1, <3>2 DEF Tame, Silent, Same
  <2>5. /\ drv' \in Drivers /\ drv'.pc = "none" /\ drv'.cs = FALSE
        /\ drv'.m_type = OcrType(a[1])
        /\ drv'.crc = drv.crc /\ drv'.to = "none" /\ drv'.m_status = 255
        /\ drv'.sequence = "none"
    <3> DEFINE d == Returned(TRUE)
               type == OcrType(a[1])
    <3>1. /\ d \in Drivers /\ d.pc = "none" /\ d.cs = FALSE
          /\ d.crc = drv.crc /\ d.to = "none" /\ d.m_status = 255 /\ d.sequence = "none"
          BY <1>1, ReturnedDriver
    <3>2. drv' = [d EXCEPT !.m_type = type] /\ type \in Types
          BY <1>3, <2>2
    <3> HIDE DEF d, type
    <3>3. drv' \in Drivers /\ drv'.pc = "none" /\ drv'.cs = FALSE /\ drv'.m_type = type
          BY <3>1, <3>2 DEF Drivers
    <3>4. /\ drv'.crc = drv.crc /\ drv'.to = "none" /\ drv'.m_status = 255
          /\ drv'.sequence = "none"
          BY <3>1, <3>2 DEF Drivers
    <3> QED
        BY <3>3, <3>4 DEF type
  <2>6. call' \in Calls /\ call'.op = "begin"
        BY <1>1, <1>3 DEF Calls
  <2>7. Typed'
        BY <1>3, <2>4, <2>5, <2>6 DEF Typed, IInv, Tame, Same
  <2>8. Control' /\ Arguments' /\ InSequence'
        BY <2>5 DEF Control, Arguments, InSequence, At, Sending, Label
  <2>9. Outputs' /\ Begins' /\ Answered'
        BY <2>4, <2>5 DEF Outputs, Begins, Answered, At, Sending, Label, Silent
  <2>10. CardFits'
    <3>1. card.mode \in Begun => OcrType(a[1]) = card.kind
          BY <2>3 DEF Begun, Off
    <3> QED
        BY <2>4, <2>5, <3>1, TameFits
  <2>11. Refuses' /\ Transfers' /\ Achieved'
        BY <2>5, <2>6 DEF Refuses, Transfers, Achieved, At, Sending, Off
  <2> QED
      BY <2>7, <2>8, <2>9, <2>10, <2>11 DEF IInv
<1> QED
    BY <1>2, <1>3 DEF Begin58

\* What the trouble of a call changes of it.
LEMMA TroubleOnly ==
  ASSUME call \in Calls, NEW what \in {"late", "garbled"}, Trouble(what)
  PROVE  /\ call' \in Calls /\ call'.trouble = call.trouble \cup {what} /\ call'.op = call.op
         /\ call'.b = call.b /\ call'.n = call.n /\ call'.data = call.data
         /\ call'.returned = call.returned /\ call'.ok = call.ok
<1> DEFINE trouble == call.trouble \cup {what}
<1>1. trouble \in SUBSET {"late", "garbled"}
      BY DEF Calls
<1>2. call' = [call EXCEPT !.trouble = trouble]
      BY DEF Trouble
<1> HIDE DEF trouble
<1>3. /\ call' \in Calls /\ call'.trouble = trouble /\ call'.op = call.op
      /\ call'.b = call.b /\ call'.n = call.n /\ call'.data = call.data
      /\ call'.returned = call.returned /\ call'.ok = call.ok
      BY <1>1, <1>2 DEF Calls
<1> QED
    BY <1>3 DEF trouble

\* The wait for a card that is busy is over, one way or the other.
LEMMA FrameComes ==
  ASSUME IInv, At("poll"), UNCHANGED clock, Kept, drv' = Go(drv, "frame"),
         NEW a \in Answers(card), card' = a[2],
         \/ UNCHANGED call /\ a[1] = High
         \/ Trouble("late")
  PROVE  IInv'
<1>1. drv \in Drivers /\ call \in Calls /\ card \in Cards /\ drv.cs /\ Silent
      BY DEF IInv, Typed, Outputs, Control, At
<1>2. /\ drv' \in Drivers /\ drv'.pc = "frame" /\ drv'.cs = drv.cs /\ drv'.m_type = drv.m_type
      /\ drv'.crc = drv.crc /\ drv'.to = drv.to /\ drv'.cmd = drv.cmd
      /\ drv'.m_status = 255 /\ drv'.sequence = drv.sequence /\ drv'.next = drv.next
  <2>1. "frame" \in Labels
        BY DEF Labels
  <2>2. Moves(drv, drv', "frame")
        BY <1>1, <2>1, GoesTo
  <2> QED
      BY <2>2 DEF Keeps, Moves
<1>3. /\ Tame
      /\ card.mode \notin {"data", "data!", "stream", "stream!"} =>
           card'.mode = card.mode /\ card'.at = card.at
      BY <1>1, TameAnswer, AnswersGive
<1>4. /\ call' \in Calls /\ call'.op = call.op
      /\ call'.b = call.b /\ call'.n = call.n /\ call'.data = call.data
      /\ call'.returned = call.returned
      /\ OnTime' => OnTime /\ a[1] = High
  <2>1. CASE UNCHANGED call /\ a[1] = High
        BY <1>1, <2>1 DEF OnTime
  <2>2. CASE Trouble("late")
        BY <1>1, <2>2, TroubleOnly DEF OnTime
  <2> QED
      BY <2>1, <2>2
<1>5. Sure' => ~card'.busy
  <2>1. CASE OnTime' /\ Drives(card)
        BY <1>1, <1>4, <2>1, AnswersGive DEF Silent
  <2>2. CASE ~Drives(card)
        BY <1>1, <1>3, <2>2 DEF Drives, IInv, CardFits, Off, Tame
  <2>3. CASE Marking'
    <3>1. drv.to \in {"erase32", "erase33", "erase38"}
          BY <1>2, <2>3 DEF Marking, Label, Sending, At, IInv, Control, Sends
    <3> QED
        BY <1>3, <3>1 DEF IInv, Answered, Label, Sending, Tame
  <2> QED
      BY <2>1, <2>2, <2>3 DEF Sure
<1>6. Typed'
      BY <1>2, <1>3, <1>4 DEF Typed, IInv, Tame, Same
<1>7. Control'
      BY <1>2, <1>4 DEF IInv, Control, At, Sending, Label
<1>8. Arguments'
      BY <1>2, <1>4 DEF IInv, Arguments, At, Sending, Address
<1>9. InSequence'
      BY <1>2, <1>4 DEF IInv, InSequence, At
<1>10. Outputs'
      BY <1>1, <1>2, <1>3 DEF Outputs, At, Silent, Tame
<1>11. CardFits'
      BY <1>2, <1>3, <1>4, TameFits DEF IInv, CardFits, At
<1>12. Refuses'
      BY <1>2, <1>3 DEF IInv, Refuses, At, Sending, Tame
<1>13. Begins'
      BY <1>2, <1>3, <1>4 DEF IInv, Begins, At, Sending, Label, Tame, Same, TypeFound, Off
<1>14. Answered'
      BY <1>2, <1>3, <1>4, <1>5
         DEF IInv, Answered, At, Sending, Label, Off, EraseRange, Tame, Same, Address
<1>15. Transfers'
      BY <1>2 DEF Transfers, At
<1>16. Achieved'
      BY <1>4 DEF IInv, Control, At, Achieved
<1> QED
    BY <1>6, <1>7, <1>8, <1>9, <1>10, <1>11, <1>12, <1>13, <1>14, <1>15, <1>16 DEF IInv

\* The wait of cardCommand for a card that is busy.
LEMMA PollBusyKeeps == ASSUME IInv, PollBusy PROVE IInv'
<1>1. PICK a \in Answers(card) :
        /\ card' = a[2]
        /\ \/ a[1] = High /\ Step(Go(drv, "frame")) /\ UNCHANGED clock
           \/ drv' = Go(drv, "frame") /\ Trouble("late") /\ UNCHANGED clock
           \/ TimePasses /\ UNCHANGED <<drv, call>>
      BY DEF PollBusy
<1>2. At("poll") /\ Kept /\ clock \in Clock
      BY JobKept DEF PollBusy, IInv, Typed
<1>3. CASE a[1] = High /\ Step(Go(drv, "frame")) /\ UNCHANGED clock
      BY <1>1, <1>2, <1>3, FrameComes DEF Step
<1>4. CASE drv' = Go(drv, "frame") /\ Trouble("late") /\ UNCHANGED clock
      BY <1>1, <1>2, <1>4, FrameComes
<1>5. CASE TimePasses /\ UNCHANGED <<drv, call>>
      BY <1>1, <1>2, <1>5, Polls, ClockGoes DEF At
<1> QED
    BY <1>1, <1>3, <1>4, <1>5

\* The loop of cardCommand that reads the response.
LEMMA ResponseKeeps == ASSUME IInv, Response PROVE IInv'
<1>1. PICK a \in Answers(card) :
        /\ card' = a[2]
        /\ Step(IF a[1] >= 128 /\ drv.tries < Tries THEN [drv EXCEPT !.tries = @ + 1]
                ELSE Responded(a[1]))
      BY DEF Response
<1>2. /\ At("response") /\ UNCHANGED <<call, clock>> /\ Kept /\ drv \in Drivers
      /\ card \in Cards /\ drv.cs /\ ~call.returned
      BY <1>1, JobKept DEF Response, IInv, Typed, Control, At, Step
<1>3. Sends(drv.cmd.c, drv.to) /\ Places(call.op, drv.to) /\ Label = drv.to /\ Sending
      BY <1>2 DEF IInv, Control, Sending, Label, At
<1>4. drv.to \notin {"none", "poll", "frame", "response", "token", "transfer", "writable",
                     "send", "sent", "stop", "stopped", "csd", "erasing"}
      BY <1>3 DEF Sends
<1>5. /\ Tame /\ a[1] \in Nat
      /\ card.mode \notin {"data", "data!", "stream", "stream!"} =>
           card'.mode = card.mode /\ card'.at = card.at
      BY <1>1, <1>2, TameAnswer, AnswersGive
<1>6. ~Silent => Drives(card)
      BY <1>2 DEF IInv, Outputs, CardFits, Off, Drives
<1>7. /\ Silent => a[1] \in {255, 0, 254, 8} /\ Silent'
      /\ ~Silent => /\ a[1] = Head(card.out) /\ card'.out = Tail(card.out)
                    /\ card'.mode = card.mode /\ card'.at = card.at /\ card'.busy = card.busy
      /\ Silent /\ ~card.busy /\ card.mode \notin {"data", "data!", "stream", "stream!"} =>
           a[1] = 255
      BY <1>1, <1>2, <1>6, AnswersGive DEF Silent, High, Busy, Token, ErrorToken
<1>8. CASE a[1] >= 128 /\ drv.tries < Tries /\ drv' = [drv EXCEPT !.tries = @ + 1]
  <2>1. Silent /\ Silent'
        BY <1>2, <1>5, <1>7, <1>8 DEF IInv, Outputs
  <2>2. /\ drv' \in Drivers /\ drv'.pc = "response" /\ drv'.cs = drv.cs
        /\ drv'.m_type = drv.m_type
        /\ drv'.crc = drv.crc /\ drv'.to = drv.to /\ drv'.cmd = drv.cmd
        /\ drv'.sequence = drv.sequence /\ drv'.next = drv.next
    <3> DEFINE tries == drv.tries + 1
    <3>1. tries \in 0 .. Tries /\ drv' = [drv EXCEPT !.tries = tries]
          BY <1>2, <1>8, DriverFields, Constants
    <3> HIDE DEF tries
    <3> QED
        BY <1>2, <3>1 DEF Drivers, At
  <2>3. Typed'
        BY <1>2, <1>5, <2>2 DEF Typed, IInv, Tame, Same
  <2>4. Control'
        BY <1>2, <2>2 DEF IInv, Control, At, Sending, Label
  <2>5. Arguments'
        BY <1>2, <2>2 DEF IInv, Arguments, At, Sending, Address
  <2>6. InSequence'
        BY <1>2, <2>2 DEF IInv, InSequence, At
  <2>7. Outputs'
        BY <2>1, <2>2 DEF Outputs, At
  <2>8. CardFits'
        BY <1>2, <1>5, <2>2, TameFits DEF IInv, CardFits, At
  <2>9. Refuses'
        BY <1>2, <1>5, <2>1, <2>2 DEF IInv, Refuses, At, Sending, Tame
  <2>10. Begins'
        BY <1>2, <1>5, <2>1, <2>2
           DEF IInv, Begins, At, Sending, Label, Tame, Same, TypeFound, Off
  <2>11. Answered'
        BY <1>2, <1>5, <2>1, <2>2
           DEF IInv, Answered, At, Sending, Label, Sure, OnTime, Marking, Tame
  <2>12. Transfers'
        BY <2>2 DEF Transfers, At
  <2>13. Achieved'
        BY <1>2 DEF Achieved
  <2> QED
      BY <2>3, <2>4, <2>5, <2>6, <2>7, <2>8, <2>9, <2>10, <2>11, <2>12, <2>13 DEF IInv
<1>9. CASE drv' = Responded(a[1])
  <2>1. /\ drv' \in Drivers /\ drv'.pc = drv.to /\ drv'.cs = drv.cs /\ drv'.m_type = drv.m_type
        /\ drv'.crc = drv.crc /\ drv'.m_status = a[1]
        /\ drv'.sequence = drv.sequence /\ drv'.next = drv.next
    <3>1. Heard(drv', a[1])
          BY <1>2, <1>5, <1>9, ResponseIs
    <3> QED
        BY <3>1 DEF Heard, Keeps
  <2>2. ~Sending' /\ ~At("none")' /\ ~At("none") /\ Label' = drv.to
        BY <1>2, <1>4, <2>1 DEF Sending, Label, At
  <2>3. Typed'
        BY <1>2, <1>5, <2>1 DEF Typed, IInv, Tame, Same
  <2>4. Control'
        BY <1>2, <1>3, <1>4, <2>1, <2>2 DEF IInv, Control, At
  <2>5. Arguments'
        BY <1>2, <2>1, <2>2 DEF IInv, Arguments, At, Address
  <2>6. InSequence'
        BY <1>2, <2>1, <2>2 DEF IInv, InSequence
  <2>7. card.out \in Seq(Nat) /\ card'.out \in Seq(Nat)
        BY <1>2, <1>5, Fields DEF Tame, Same
  <2>8. ~Silent => /\ Len(card.out) = 1 => Silent'
                   /\ Len(card.out) = 5 =>
                        Len(card'.out) = 4 /\ card'.out[1] = card.out[2] /\ ~Silent'
        BY <1>7, <2>7, TailOf DEF Silent
  <2>9. Outputs'
    <3>1. (Off => Silent)'
          BY <1>5, <1>7 DEF IInv, Outputs, Off, Tame, Silent
    <3>2. drv.to \notin {"cmd8", "ocr"} => Silent'
          BY <1>2, <1>7, <2>8 DEF IInv, Outputs
    <3>3. drv.to = "cmd8" =>
            /\ Silent' \/ (Len(card'.out) = 4 /\ a[1] = 1 /\ card'.kind # "SD1")
            /\ a[1] = 5 => card'.kind = "SD1"
          BY <1>2, <1>5, <1>7, <2>8 DEF IInv, Outputs, Tame, Same
    <3>4. drv.to = "ocr" =>
            \/ Silent'
            \/ card'.out[1] \in {128, 192} /\ (card'.out[1] = 192 <=> card'.kind = "SDHC")
          BY <1>2, <1>5, <1>7, <2>8 DEF IInv, Outputs, Tame, Same
    <3> QED
        BY <1>4, <2>1, <3>1, <3>2, <3>3, <3>4 DEF Outputs, At
  <2>10. CardFits'
        BY <1>2, <1>5, <2>1, <2>2, TameFits DEF IInv, CardFits
  <2>11. Refuses'
        BY <1>2, <1>4, <1>5, <1>7, <2>1, <2>2
           DEF IInv, Refuses, CardFits, At, Sending, Tame, OK, R1_READY_STATE
  <2>12. Begins'
        BY <1>2, <1>3, <1>4, <1>5, <1>7, <2>1, <2>2, <2>8
           DEF IInv, Begins, Outputs, At, Sending, Tame, Same, TypeFound, Off, OK,
               R1_READY_STATE
  <2>13. Answered'
    <3>1. Sure' <=> Sure
          BY <1>2, <1>3, <2>2 DEF Sure, OnTime, Marking
    <3>2. OK' /\ ~Silent => Effect(drv.pc)' /\ (drv.to = "erase38" => Erased')
      <4> SUFFICES ASSUME OK', ~Silent
                   PROVE  Effect(drv.pc)' /\ (drv.to = "erase38" => Erased')
          OBVIOUS
      <4>1. Effect(drv.to) /\ (drv.to = "erase38" => Erased)
            BY <1>2, <1>7, <2>1 DEF IInv, Answered, OK, R1_READY_STATE
      <4>2. card'.mode = card.mode /\ card'.at = card.at /\ card'.range = card.range
            BY <1>5, <1>7 DEF Tame, Same
      <4> QED
          BY <1>2, <2>1, <4>1, <4>2 DEF Effect, Mode, EraseRange, Address, Erased, Kept
    <3>3. OK' /\ Silent => ~Sure /\ Deaf'
          BY <1>2, <1>5, <1>7, <2>1
             DEF IInv, Answered, CardFits, OK, R1_READY_STATE, Off, Deaf
    <3>4. drv.to \in {"erase32", "erase33"} => ~card'.busy
          BY <1>2, <1>3, <1>5 DEF IInv, Answered, Tame
    <3>5. drv.to = "erase38" => Sure
          BY <1>3 DEF Sure, Marking
    <3> QED
        BY <1>4, <2>1, <2>2, <3>1, <3>2, <3>3, <3>4, <3>5 DEF Answered, At
  <2>14. Transfers'
        BY <1>4, <2>1 DEF Transfers, At
  <2>15. Achieved'
        BY <1>2 DEF Achieved
  <2> QED
      BY <2>3, <2>4, <2>5, <2>6, <2>9, <2>10, <2>11, <2>12, <2>13, <2>14, <2>15 DEF IInv
<1> QED
    BY <1>1, <1>8, <1>9 DEF Step

\* The card finds the block that the driver means, if they agree on its type.
LEMMA AddressIsRight ==
  ASSUME drv.m_type = card.kind, NEW b \in Block
  PROVE  Address(b) \in Nat /\ BlockOf(card, Address(b)) = b
<1>1. b \in Nat /\ Unit \in Nat /\ Unit > 0
      BY Constants
<1>2. b * Unit \in Nat /\ (b * Unit) \div Unit = b
      BY <1>1
<1> QED
    BY <1>1, <1>2 DEF Address, BlockOf

\* Every address is a number.
LEMMA AddressIsNat ==
  ASSUME NEW b \in Block
  PROVE  Address(b) \in Nat
<1>1. b \in Nat /\ Unit \in Nat /\ b * Unit \in Nat
      BY Constants
<1> QED
    BY <1>1 DEF Address

\* The command itself, whether the card takes it or not.
LEMMA FrameKeeps == ASSUME IInv, Frame PROVE IInv'
<1>1. PICK n \in Takes(card, drv.cmd) : card' = n /\ CommandBegins(drv.cmd, n)
      BY DEF Frame
<1>2. /\ At("frame") /\ UNCHANGED <<call, clock>> /\ drv \in Drivers /\ card \in Cards
      /\ drv.cs /\ ~call.returned /\ Silent /\ card.mode \in Modes /\ card.busy \in BOOLEAN
      /\ drv.cmd \in [c : Nat, arg : Nat] /\ call.op \in Ops
      BY DriverFields, Fields DEF Frame, IInv, Typed, Control, At, Step, Outputs, Calls
<1>3. Sends(drv.cmd.c, drv.to) /\ Places(call.op, drv.to) /\ Label = drv.to
      BY <1>2 DEF IInv, Control, Sending, Label, At
<1>4. /\ drv' \in Drivers /\ drv'.pc = "response" /\ drv'.cs = drv.cs
      /\ drv'.m_type = drv.m_type
      /\ drv'.crc = drv.crc /\ drv'.to = drv.to /\ drv'.cmd = drv.cmd
      /\ drv'.sequence = drv.sequence /\ drv'.next = drv.next
  <2>1. drv' = [drv EXCEPT !.pc = "response", !.tries = 0] /\ 0 \in 0 .. Tries
        BY Zero DEF Frame, Step
  <2> QED
      BY <1>2, <2>1 DEF Drivers, Labels
<1>5. Control'
      BY <1>2, <1>4 DEF IInv, Control, At, Sending, Label
<1>6. Arguments'
      BY <1>2, <1>4 DEF IInv, Arguments, At, Sending, Address
<1>7. InSequence'
      BY <1>2, <1>4 DEF IInv, InSequence, At
<1>8. Transfers'
      BY <1>4 DEF Transfers, At
<1>9. Achieved'
      BY <1>2 DEF Achieved
<1>10. CASE Ignores(card, drv.cmd)
  <2>1. card' = card /\ Tame
        BY <1>1, <1>10, Ignored, TameCard
  <2>3. Typed'
        BY <1>2, <1>4, <2>1 DEF Typed, IInv
  <2>4. Outputs'
        BY <1>2, <1>4, <2>1 DEF Outputs, At, Silent
  <2>5. CardFits'
        BY <1>2, <1>4, <2>1, TameFits DEF IInv, CardFits, At
  <2>6. Refuses'
        BY <1>2, <1>4, <2>1 DEF IInv, Refuses, At, Sending, Silent
  <2>7. Begins'
        BY <1>2, <1>4, <1>10, <2>1
           DEF IInv, Begins, CardFits, At, Sending, Label, Silent, TypeFound, Off, Ignores
  <2>8. Answered'
        BY <1>2, <1>3, <1>4, <1>10, <2>1
           DEF IInv, Answered, CardFits, At, Sending, Label, Sure, OnTime, Marking, Silent, Off,
               Ignores
  <2> QED
      BY <1>5, <1>6, <1>7, <1>8, <1>9, <2>3, <2>4, <2>5, <2>6, <2>7, <2>8 DEF IInv
<1>11. CASE ~Ignores(card, drv.cmd)
  <2>1. TakenAs(card, drv.cmd, card')
        BY <1>1, <1>2, <1>3, <1>11, TakesGive
  <2>2. /\ card' \in Cards /\ card'.mode # "off" /\ card'.out # <<>>
        /\ Head(card'.out) \in Responses
        BY <2>1 DEF TakenAs
  <2>3. Typed'
        BY <1>2, <1>4, <2>2 DEF Typed, IInv
  <2>4. ~card.dead /\ ~card.busy /\ (card.mode = "off" => drv.cmd.c = 0)
        BY <1>11 DEF Ignores
  <2>5. drv.to \in Beginning <=> call.op = "begin"
        BY <1>3 DEF Places, Beginning, Sends
  <2>6. /\ drv.to \in {"cmd59", "cmd8", "acmd41", "init"} => card.mode = "idle"
        /\ drv.to = "ocr" => card.mode = "ready" /\ card.kind # "SD1"
        /\ drv.to \in {"cmd8", "acmd41", "init", "ocr"} /\ drv.crc => card.crc
        /\ drv.to \in {"cmd0", "cmd59", "cmd8"} => drv.m_type = "none"
        /\ drv.to \in {"acmd41", "init", "ocr"} => drv.m_type = TypeFound
        BY <1>2, <1>3, <2>4, <2>5
           DEF IInv, Begins, At, Beginning, Sends, Off
  <2>7. Outputs'
    <3>1. Head(card'.out) < 128 /\ Head(card'.out) \in Nat
          BY <2>2 DEF Responses
    <3>2. drv.to \notin {"cmd8", "ocr"} => Len(card'.out) = 1
          BY <1>3, <2>1 DEF TakenAs, Sends
    <3>3. drv.to = "cmd8" =>
            \/ Len(card'.out) = 1 /\ Head(card'.out) = 5 /\ card'.kind = "SD1"
            \/ Len(card'.out) = 5 /\ Head(card'.out) = 1 /\ card'.kind # "SD1"
          BY <1>3, <2>1, <2>6 DEF TakenAs, Sends
    <3>4. drv.to = "ocr" =>
            Len(card'.out) = 5 /\ card'.out[2] \in {128, 192}
              /\ (card'.out[2] = 192 <=> card'.kind = "SDHC")
          BY <1>3, <2>1, <2>6 DEF TakenAs, Sends
    <3> QED
        BY <1>4, <2>2, <3>1, <3>2, <3>3, <3>4 DEF Outputs, At, Off, Silent
  <2>8. /\ card'.mode = "idle" => drv.to = "cmd0" \/ card.mode = "idle"
        /\ drv.to = "cmd0" => card'.mode = "idle"
        /\ card.mode = "idle" /\ drv.to # "init" => card'.mode = "idle"
        /\ drv.to # "cmd0" => card.mode \in Begun \cup {"idle"}
    <3>1. card.mode \in Begun \cup {"idle", "off"}
          BY <1>2 DEF Modes, Begun
    <3> QED
        BY <1>3, <2>1, <2>4, <2>6, <3>1 DEF TakenAs, Sends
  <2>9. CardFits'
    <3>1. (card.dead => Off)'
          BY <2>1, <2>4 DEF TakenAs
    <3>2. (card.busy => card.mode \in {"ready", "blocks"})'
          BY <2>1, <2>2 DEF TakenAs
    <3>3. (drv.crc /\ card.mode \in Begun => card.crc)'
      <4>1. card'.mode \in Begun /\ drv.crc => card.crc /\ drv.to # "cmd0"
            BY <2>6, <2>8 DEF IInv, CardFits, Begun
      <4> QED
          BY <1>3, <1>4, <2>1, <4>1 DEF TakenAs, Sends
    <3>4. (card.mode = "stream!" => card.at \in Block)'
          BY <2>1 DEF TakenAs, IInv, CardFits
    <3>5. (~(~At("none") /\ call.op = "begin") /\ card.mode \in Begun =>
             drv.m_type \in {"none", card.kind})'
      <4>1. call.op # "begin" /\ card'.mode \in Begun => card.mode \in Begun
            BY <2>5, <2>8 DEF Begun, Beginning
      <4> QED
          BY <1>2, <1>4, <2>1, <4>1 DEF TakenAs, IInv, CardFits, At
    <3> QED
        BY <3>1, <3>2, <3>3, <3>4, <3>5 DEF CardFits
  <2>10. Refuses'
    <3>1. card'.mode = "idle" => drv.sequence = "none"
          BY <1>2, <2>5, <2>8 DEF IInv, Refuses, InSequence, At, Beginning
    <3>2. card'.mode = "idle" /\ call.op # "begin" => Head(card'.out) # 0
          BY <1>3, <2>1, <2>5, <2>8 DEF TakenAs, Sends, Beginning
    <3> QED
        BY <1>2, <1>4, <3>1, <3>2 DEF Refuses, At, Sending
  <2>11. Begins'
    <3>1. TypeFound' = TypeFound /\ card'.kind = card.kind
          BY <2>1 DEF TypeFound, TakenAs
    <3>2. drv.to = "ocr" =>
            card'.mode = "ready" /\ Head(card'.out) = 0 /\ ~card'.busy
          BY <1>3, <2>1, <2>6 DEF TakenAs, Sends
    <3>3. drv.to = "cmd0" => Head(card'.out) = 1 /\ card'.mode = "idle"
          BY <1>3, <2>1 DEF TakenAs, Sends
    <3>4. drv.to \in {"cmd59", "cmd8", "acmd41"} => card'.mode = "idle"
          BY <2>6, <2>8
    <3>5. /\ drv.to = "cmd59" => card'.crc
          /\ drv.to \in {"cmd8", "acmd41", "init", "ocr"} /\ drv.crc => card'.crc
          BY <1>3, <2>1, <2>6 DEF TakenAs, Sends
    <3>6. drv.to = "init" =>
            ~card'.busy /\ card'.mode = IF Head(card'.out) = 0 THEN "ready" ELSE "idle"
          BY <1>3, <2>1, <2>6 DEF TakenAs, Sends
    <3>7. Label' = drv.to
          BY <1>4 DEF Label, Sending, At
    <3> QED
        BY <1>4, <2>2, <2>6, <3>1, <3>2, <3>3, <3>4, <3>5, <3>6, <3>7
           DEF Begins, At, Off, Silent
  <2>12. Answered'
    <3> SUFFICES /\ Head(card'.out) = 0 =>
                      Effect(drv.to)' /\ (drv.to = "erase38" => Erased')
                 /\ drv.to \in {"erase32", "erase33"} => ~card'.busy
      <4>1. Label' = drv.to /\ drv.to # "csd" /\ At("response")' /\ Sending' /\ ~Silent'
            BY <1>3, <1>4, <2>2 DEF Sends, At, Sending, Label, Silent
      <4>2. ~At("poll")' /\ ~At("frame")' /\ ~At("none")' /\ ~At("erase38")'
            BY <1>4 DEF At
      <4> QED
          BY <1>4, <4>1, <4>2 DEF Answered
    <3>0. drv.to \in {"erase32", "erase33"} => ~card'.busy
          BY <1>3, <2>1, <2>9 DEF TakenAs, Sends, CardFits
    <3>1. SUFFICES ASSUME Head(card'.out) = 0
                   PROVE  Effect(drv.to)' /\ (drv.to = "erase38" => Erased')
          BY <3>0
    <3>2. /\ drv.to \in {"read17", "start18", "write24", "start25", "erase32", "erase33",
                         "erase38"} =>
               card.mode = "ready" /\ drv.m_type = card.kind
      <4>1. drv.to \in {"read17", "start18", "write24", "start25", "erase32", "erase33",
                        "erase38"} =>
              card.mode = "ready" /\ call.op # "begin"
            BY <1>3, <2>1, <2>5, <3>1 DEF TakenAs, Sends, Beginning
      <4> QED
          BY <1>2, <4>1 DEF IInv, CardFits, InSequence, At, Begun
    <3>3. drv.to \in {"read17", "start18", "write24", "start25", "erase32"} =>
            /\ call.b \in Block /\ BlockOf(card, Address(call.b)) = call.b
            /\ drv.cmd.arg = Address(call.b)
      <4>1. drv.to \in {"read17", "start18", "write24", "start25", "erase32"} =>
              call.b \in Block /\ drv.cmd.arg = Address(call.b)
            BY <1>2, <1>3 DEF IInv, Arguments, Places, Beginning, Sending, At
      <4> QED
          BY <3>2, <4>1, AddressIsRight
    <3>4. /\ drv.to = "read17" => Mode("data", call.b)'
          /\ drv.to = "start18" => Mode("stream", call.b)'
          /\ drv.to = "write24" => Mode("block", call.b)'
          /\ drv.to = "start25" => Mode("blocks", call.b)'
      <4>1. drv.to \in {"read17", "start18", "write24", "start25"} =>
              card'.mode = DataMode(drv.cmd.c) /\ card'.at = call.b
            BY <1>3, <2>1, <3>1, <3>3 DEF TakenAs, Sends
      <4>2. /\ drv.to = "read17" => drv.cmd.c = 17
            /\ drv.to = "start18" => drv.cmd.c = 18
            /\ drv.to = "write24" => drv.cmd.c = 24
            /\ drv.to = "start25" => drv.cmd.c = 25
            BY <1>3 DEF Sends
      <4> QED
          BY <1>2, <4>1, <4>2 DEF DataMode, Mode
    <3>5. drv.to = "erase32" => EraseRange(call.b)'
          BY <1>2, <1>3, <1>4, <2>1, <3>1, <3>3 DEF TakenAs, Sends, EraseRange, Address
    <3>6. drv.to = "erase33" => EraseRange(call.n)'
      <4>1. drv.to = "erase33" => EraseRange(call.b) /\ drv.cmd.arg = Address(call.n)
            BY <1>2, <3>1, <3>2 DEF IInv, Answered, Arguments, Sending, At, Off
      <4> QED
          BY <1>2, <1>3, <1>4, <2>1, <3>1, <4>1 DEF TakenAs, Sends, EraseRange, Address
    <3>7. drv.to = "erase38" => Erased'
      <4> SUFFICES ASSUME drv.to = "erase38" PROVE Erased'
          OBVIOUS
      <4>1. /\ EraseRange(call.n) /\ call.b \in Block /\ call.n \in Block /\ drv.cmd.c = 38
            /\ card'.busy
        <5>1. EraseRange(call.n)
              BY <1>2, <3>1, <3>2 DEF IInv, Answered, At, Off
        <5>2. drv.cmd.c = 38 /\ call.op = "erase"
              BY <1>3 DEF Sends, Places, Beginning
        <5> QED
            BY <1>2, <2>1, <3>1, <5>1, <5>2 DEF TakenAs, IInv, Arguments, At
      <4>2. BlockOf(card, card.range[1]) = call.b /\ BlockOf(card, card.range[2]) = call.n
        <5>1. card.range[1] = Address(call.b) /\ card.range[2] = Address(call.n)
              BY <4>1 DEF EraseRange
        <5>2. BlockOf(card, Address(call.b)) = call.b /\ BlockOf(card, Address(call.n)) = call.n
              BY <3>2, <4>1, AddressIsRight
        <5> QED
            BY <5>1, <5>2
      <4>3. JobBegins(call.b, call.n, 0)
            BY <1>1, <2>4, <4>1, <4>2 DEF CommandBegins
      <4> QED
          BY <1>2, <4>3 DEF Erased, JobBegins
    <3> QED
        BY <1>4, <3>4, <3>5, <3>6, <3>7 DEF Effect
  <2> QED
      BY <1>5, <1>6, <1>7, <1>8, <1>9, <2>3, <2>7, <2>9, <2>10, <2>11, <2>12 DEF IInv
<1> QED
    BY <1>10, <1>11

\* The card is still the card it was, and off, reset or begun as before.
Settled ==
  /\ Same(card, card') /\ (card'.busy => card'.mode \in {"ready", "blocks"})
  /\ (card'.mode \in {"off", "idle"} <=> card.mode \in {"off", "idle"})
  /\ (card'.mode = "off" <=> card.mode = "off")
  /\ (card'.mode = "stream!" => card'.at \in Block)

\* A card that has answered is settled, and keeps what all cards keep.
LEMMA TameIsSettled == ASSUME IInv, Tame PROVE Settled
BY DEF Tame, Settled, IInv, CardFits

LEMMA SettledFits ==
  ASSUME IInv, Settled, drv'.crc = drv.crc, drv'.m_type = drv.m_type,
         ~(~At("none") /\ call.op = "begin")
  PROVE  CardFits'
<1>1. CardFits /\ card.mode \in Modes /\ card'.mode \in Modes
      BY Fields DEF IInv, Typed, Settled, Same
<1>2. card'.mode \in Begun <=> card.mode \in Begun
      BY <1>1 DEF Modes, Begun, Settled
<1> QED
    BY <1>1, <1>2 DEF CardFits, Settled, Same, Off

\* A call goes on to where it waits, or where it has the block of the card.
LEMMA MovesOn ==
  ASSUME IInv, ~At("none"), call.op # "begin", UNCHANGED call, clock' \in Clock,
         NEW label,
         label \in {"token", "transfer", "send", "ending", "stopped", "csd", "erasing"},
         label = "csd" => ~card'.busy,
         Places(call.op, label), Keeps(drv, drv'), drv'.pc = label, drv'.m_status = 255,
         drv'.cs <=> label # "csd",
         Settled, Silent', label \in {"token", "transfer"} => card.mode # "idle", Transfers'
  PROVE  IInv'
<1>1. /\ drv' \in Drivers /\ drv'.m_type = drv.m_type /\ drv'.sequence = drv.sequence
      /\ drv'.next = drv.next /\ drv'.crc = drv.crc /\ ~At("none")' /\ ~Sending'
      BY DEF Keeps, At, Sending
<1>2. Typed'
      BY <1>1 DEF IInv, Typed, Settled, Same
<1>3. Control'
      BY <1>1 DEF IInv, Control, At, Label
<1>4. Arguments'
      BY <1>1 DEF IInv, Arguments
<1>5. InSequence'
      BY <1>1 DEF IInv, InSequence
<1>6. Outputs'
      BY DEF Outputs, At, Silent
<1>7. CardFits'
      BY <1>1, SettledFits
<1>8. Refuses'
      BY <1>1 DEF IInv, Refuses, At, Settled, OK, R1_READY_STATE
<1>9. Begins'
      BY DEF Begins
<1>10. Answered'
      BY <1>1 DEF Answered, At, Sending, Label, OK, R1_READY_STATE
<1>11. Achieved'
      BY DEF IInv, Control, Achieved
<1> QED
    BY <1>2, <1>3, <1>4, <1>5, <1>6, <1>7, <1>8, <1>9, <1>10, <1>11 DEF IInv

\* The call and the state of the card at a place where a response has been heard.
LEMMA AtPlace ==
  ASSUME IInv, drv.pc \in {"read17", "start18", "stop12", "register", "write24", "acmd23",
                           "start23", "start25", "erase32", "erase33", "erase38"}
  PROVE  /\ ~At("none") /\ ~Sending /\ Label = drv.pc /\ call.op # "begin" /\ drv.cs
         /\ drv \in Drivers /\ card \in Cards /\ clock \in Clock /\ call \in Calls
         /\ Silent /\ Places(call.op, drv.pc)
         /\ OK => card.mode # "idle"
         /\ OK => Off \/ Effect(drv.pc) \/ (~OnTime /\ Deaf)
         /\ OK /\ drv.pc \in {"erase32", "erase33", "erase38"} => Off \/ Effect(drv.pc)
         /\ drv.pc \in {"erase32", "erase33"} => ~card.busy
BY DEF IInv, Typed, Control, Outputs, Refuses, Answered, At, Sending, Label, Places, Beginning,
       Sure, Marking

\* A command that is refused ends the call.
LEMMA RefusedHere ==
  ASSUME IInv, NEW label \in {"read17", "start18", "stop12", "register", "write24",
                              "start23", "start25", "erase32", "erase33", "erase38"},
         Refused(label)
  PROVE  IInv'
<1>1. drv.pc = label /\ card' = card
      BY DEF Refused, At, Keep
<1>2. call.op # "begin" /\ Quiet
      BY <1>1, AtPlace, QuietCard
<1> QED
    BY <1>1, <1>2, RefusedKeeps

\* A call waits for the card or sends it a block, after the response to its command.
LEMMA WaitsThere ==
  ASSUME IInv, drv.pc \in {"read17", "register", "write24", "erase38"}, OK, Keep,
         UNCHANGED call,
         NEW label, label \in {"token", "send", "erasing"}, Places(call.op, label),
         drv' = Wait(drv, label) \/ drv' = Go(drv, label), Transfers'
  PROVE  IInv'
<1>1. /\ ~At("none") /\ call.op # "begin" /\ drv.cs /\ drv \in Drivers /\ card.mode # "idle"
      /\ clock \in Clock /\ Silent /\ card' = card /\ UNCHANGED clock
      BY AtPlace DEF Keep
<1>2. Moves(drv, drv', label)
      BY <1>1, GoesTo, WaitsAt DEF Labels
<1>3. Settled /\ Silent'
      BY <1>1, TameCard, TameIsSettled DEF Silent
<1> QED
    BY <1>1, <1>2, <1>3, MovesOn DEF Moves

\* The steps between the response to a command and the next wait or command.
LEMMA ReadBlockGoesOnKeeps == ASSUME IInv, ReadBlockGoesOn PROVE IInv'
<1>1. CASE Refused("read17")
      BY <1>1, RefusedHere
<1>2. CASE At("read17") /\ OK /\ Step(Wait(drv, "token")) /\ Keep
  <2>1. drv' = Wait(drv, "token") /\ UNCHANGED call /\ drv.pc = "read17" /\ Keep
        BY <1>2 DEF At, Step
  <2>2. Places(call.op, "read17") /\ (Off \/ Deaf \/ Effect("read17"))
        BY <1>2, <2>1, AtPlace
  <2>3. call.op = "readBlock" /\ Places(call.op, "token")
        BY <2>2 DEF Places, Beginning
  <2>4. drv'.pc = "token"
    <3>1. Moves(drv, drv', "token")
          BY <2>1, WaitsAt DEF IInv, Typed, Labels
    <3> QED
        BY <3>1 DEF Moves
  <2>5. Transfers'
        BY <2>1, <2>2, <2>3, <2>4 DEF Transfers, At, Effect, Mode, Off, Deaf, Keep
  <2> QED
      BY <1>2, <2>1, <2>3, <2>5, WaitsThere
<1> QED
    BY <1>1, <1>2 DEF ReadBlockGoesOn

LEMMA ReadRegisterKeeps == ASSUME IInv, ReadRegister PROVE IInv'
<1>1. CASE Refused("register")
      BY <1>1, RefusedHere
<1>2. CASE At("register") /\ OK /\ Step(Wait(drv, "token")) /\ Keep
  <2>1. drv' = Wait(drv, "token") /\ UNCHANGED call /\ drv.pc = "register" /\ Keep
        BY <1>2 DEF At, Step
  <2>2. Places(call.op, "register")
        BY <2>1, AtPlace
  <2>3. call.op \in {"readCSD", "erase"} /\ Places(call.op, "token")
        BY <2>2 DEF Places, Beginning
  <2>4. drv'.pc = "token"
    <3>1. Moves(drv, drv', "token")
          BY <2>1, WaitsAt DEF IInv, Typed, Labels
    <3> QED
        BY <3>1 DEF Moves
  <2>5. Transfers'
        BY <2>1, <2>3, <2>4 DEF Transfers, At
  <2> QED
      BY <1>2, <2>1, <2>3, <2>5, WaitsThere
<1> QED
    BY <1>1, <1>2 DEF ReadRegister

LEMMA WriteBlockGoesOnKeeps == ASSUME IInv, WriteBlockGoesOn PROVE IInv'
<1>1. CASE Refused("write24")
      BY <1>1, RefusedHere
<1>2. CASE At("write24") /\ OK /\ Step(Go(drv, "send")) /\ Keep
  <2>1. drv' = Go(drv, "send") /\ UNCHANGED call /\ drv.pc = "write24" /\ Keep
        BY <1>2 DEF At, Step
  <2>2. Places(call.op, "write24") /\ (Off \/ Deaf \/ Effect("write24"))
        BY <1>2, <2>1, AtPlace
  <2>3. call.op = "writeBlock" /\ Places(call.op, "send")
        BY <2>2 DEF Places, Beginning
  <2>4. drv'.pc = "send"
    <3>1. Moves(drv, drv', "send")
          BY <2>1, GoesTo DEF IInv, Typed, Labels
    <3> QED
        BY <3>1 DEF Moves
  <2>5. Transfers'
        BY <2>1, <2>2, <2>3, <2>4 DEF Transfers, At, Effect, Mode, Off, Deaf, Keep
  <2> QED
      BY <1>2, <2>1, <2>3, <2>5, WaitsThere
<1> QED
    BY <1>1, <1>2 DEF WriteBlockGoesOn

\* The wait for the token of a block.
LEMMA PollTokenKeeps == ASSUME IInv, PollToken PROVE IInv'
<1>1. PICK a \in Answers(card) :
        /\ card' = a[2]
        /\ \/ a[1] = Token /\ Step(Go(drv, "transfer")) /\ UNCHANGED clock
           \/ Error /\ UNCHANGED clock
           \/ a[1] = High /\ TimePasses /\ UNCHANGED <<drv, call>>
      BY DEF PollToken
<1>2. /\ At("token") /\ ~At("none") /\ ~Sending /\ Kept /\ clock \in Clock
      /\ drv \in Drivers /\ card \in Cards /\ drv.cs /\ Silent /\ card.mode # "idle"
      /\ Places(call.op, "token")
      BY JobKept DEF PollToken, IInv, Typed, Control, Outputs, Refuses, At, Sending, Label
<1>3. call.op \in {"readBlock", "readData", "readCSD", "erase"}
      BY <1>2 DEF Places, Beginning
<1>4. Tame /\ Silent'
      BY <1>1, <1>2, TameAnswer DEF Tame, Silent
<1>5. CASE a[1] = Token /\ Step(Go(drv, "transfer")) /\ UNCHANGED clock
  <2>1. Moves(drv, drv', "transfer") /\ UNCHANGED call
        BY <1>2, <1>5, GoesTo DEF Labels, Step
  <2>2. /\ \/ card.mode = "data" /\ card'.mode = "data!"
           \/ card.mode = "stream" /\ card'.mode = "stream!"
        /\ card'.at = card.at
        BY <1>1, <1>2, <1>5, AnswersGive DEF Silent
  <2>3. Transfers'
        BY <1>2, <2>1, <2>2 DEF Transfers, IInv, At, Mode, Off, Deaf, Moves, Keeps
  <2>4. Places(call.op, "transfer")
        BY <1>3 DEF Places
  <2> QED
      BY <1>2, <1>3, <1>4, <1>5, <2>1, <2>3, <2>4, MovesOn, TameIsSettled DEF Moves
<1>6. CASE Error /\ UNCHANGED clock
      BY <1>2, <1>3, <1>4, <1>6, Errs
<1>7. CASE a[1] = High /\ TimePasses /\ UNCHANGED <<drv, call>>
      BY <1>1, <1>2, <1>7, Polls, ClockGoes DEF At
<1> QED
    BY <1>1, <1>5, <1>6, <1>7

\* A call sends its next command.
LEMMA SendsNext ==
  ASSUME IInv, drv.pc \in {"acmd23", "start23", "csd", "erase32", "erase33"},
         call.op # "begin", Keep, UNCHANGED call,
         NEW c, NEW arg, NEW to, c \in Nat, arg \in Nat, to \in Labels, Sends(c, to),
         Places(call.op, to), drv' = Command(drv, c, arg, to),
         to \in {"read17", "start18", "write24", "start25", "erase32"} => arg = Address(call.b),
         to = "erase33" => arg = Address(call.n) /\ (Off \/ EraseRange(call.b)),
         to = "erase38" => Off \/ EraseRange(call.n),
         to \in {"erase32", "erase33", "erase38"} => ~card.busy
  PROVE  IInv'
<1>1. ~At("none") /\ Quiet /\ clock' \in Clock /\ Kept /\ drv \in Drivers
      BY QuietCard, JobKept DEF IInv, Typed, Keep, At
<1>2. MaySend(drv, c, arg, to)
      BY <1>1 DEF MaySend
<1> QED
    BY <1>1, <1>2, SendsCommand

\* A call that has been answered as it should be is done.
LEMMA ReturnsThere ==
  ASSUME IInv, drv.pc \in {"start18", "stop12", "start25"}, OK, Return(0), Keep
  PROVE  IInv'
<1>1. /\ ~At("none") /\ card.mode # "idle" /\ Silent /\ clock \in Clock /\ card' = card
      /\ UNCHANGED clock /\ Kept /\ Places(call.op, drv.pc)
      /\ Off \/ Effect(drv.pc) \/ (~OnTime /\ Deaf)
      BY AtPlace, JobKept DEF Keep
<1>2. /\ drv.pc = "start18" => call.op = "readStart"
      /\ drv.pc = "stop12" => call.op = "readStop"
      /\ drv.pc = "start25" => call.op = "writeStart"
      BY <1>1 DEF Places, Beginning
<1>3. MayReturn(0, {})
      BY <1>1, <1>2 DEF MayReturn, Effect, Mode, Off, Deaf
<1>4. Tame /\ Silent'
      BY <1>1, TameCard DEF Silent
<1> QED
    BY <1>1, <1>3, <1>4, Returns DEF Return

\* The responses that end a call, and the next commands of those that go on.
LEMMA ReadStartsKeeps == ASSUME IInv, ReadStarts PROVE IInv'
BY RefusedHere, ReturnsThere DEF ReadStarts, At

LEMMA ReadStopsKeeps == ASSUME IInv, ReadStops PROVE IInv'
BY RefusedHere, ReturnsThere DEF ReadStops, At

LEMMA WriteStartsKeeps == ASSUME IInv, WriteStarts PROVE IInv'
<1>1. CASE Refused("start23") \/ Refused("start25")
      BY <1>1, RefusedHere
<1>2. CASE At("start25") /\ OK /\ Return(0) /\ Keep
      BY <1>2, ReturnsThere DEF At
<1>3. CASE At("acmd23") /\ Step(Command(drv, 23, 1, "start23")) /\ Keep
  <2>1. drv.pc = "acmd23" /\ UNCHANGED call /\ drv' = Command(drv, 23, 1, "start23")
        BY <1>3 DEF At, Step
  <2>2. call.op # "begin" /\ Places(call.op, "acmd23")
        BY <2>1, AtPlace
  <2>3. Places(call.op, "start23") /\ Sends(23, "start23") /\ "start23" \in Labels
        BY <2>2 DEF Places, Beginning, Sends, Labels
  <2> QED
      BY <1>3, <2>1, <2>2, <2>3, SendsNext
<1>4. CASE At("start23") /\ OK /\ Step(Command(drv, 25, Address(call.b), "start25")) /\ Keep
  <2>1. /\ drv.pc = "start23" /\ UNCHANGED call
        /\ drv' = Command(drv, 25, Address(call.b), "start25")
        BY <1>4 DEF At, Step
  <2>2. call.op # "begin" /\ Places(call.op, "start23") /\ ~At("none")
        BY <2>1, AtPlace
  <2>3. /\ Places(call.op, "start25") /\ Sends(25, "start25") /\ "start25" \in Labels
        /\ call.op = "writeStart"
        BY <2>2 DEF Places, Beginning, Sends, Labels
  <2>4. Address(call.b) \in Nat
        BY <2>2, <2>3, AddressIsNat DEF IInv, Arguments
  <2> QED
      BY <1>4, <2>1, <2>2, <2>3, <2>4, SendsNext
<1> QED
    BY <1>1, <1>2, <1>3, <1>4 DEF WriteStarts

LEMMA EraseCheckedKeeps == ASSUME IInv, EraseChecked PROVE IInv'
<1>1. /\ drv.pc = "csd" /\ ~At("none") /\ Keep /\ Places(call.op, "csd") /\ Silent
      /\ card' = card /\ clock \in Clock /\ ~card.busy
      BY DEF EraseChecked, At, Keep, IInv, Typed, Control, Sending, Label, Outputs, Answered
<1>2. call.op = "erase" /\ Places(call.op, "erase32")
      BY <1>1 DEF Places, Beginning
<1>3. CASE Error
  <2>1. Tame /\ Silent'
        BY <1>1, TameCard DEF Silent
  <2> QED
      BY <1>1, <1>2, <1>3, <2>1, Errs DEF Keep
<1>4. CASE drv' = Command(drv, 32, Address(call.b), "erase32") /\ UNCHANGED call
  <2>1. Sends(32, "erase32") /\ "erase32" \in Labels
        BY DEF Sends, Labels
  <2>2. Address(call.b) \in Nat
        BY <1>1, <1>2, AddressIsNat DEF IInv, Arguments
  <2> QED
      BY <1>1, <1>2, <1>4, <2>1, <2>2, SendsNext
<1> QED
    BY <1>3, <1>4 DEF EraseChecked, Step

LEMMA EraseGoesOnKeeps == ASSUME IInv, EraseGoesOn PROVE IInv'
<1>1. CASE \E label \in {"erase32", "erase33", "erase38"} : Refused(label)
      BY <1>1, RefusedHere
<1>2. CASE At("erase32") /\ OK /\ Step(Command(drv, 33, Address(call.n), "erase33")) /\ Keep
  <2>1. /\ drv.pc = "erase32" /\ UNCHANGED call
        /\ drv' = Command(drv, 33, Address(call.n), "erase33")
        BY <1>2 DEF At, Step
  <2>2. /\ call.op # "begin" /\ Places(call.op, "erase32") /\ ~At("none") /\ ~card.busy
        /\ Off \/ Effect("erase32")
        BY <1>2, <2>1, AtPlace
  <2>3. /\ Places(call.op, "erase33") /\ Sends(33, "erase33") /\ "erase33" \in Labels
        /\ call.op = "erase" /\ (Off \/ EraseRange(call.b))
        BY <2>2 DEF Places, Beginning, Sends, Labels, Effect
  <2>4. Address(call.n) \in Nat
        BY <2>2, <2>3, AddressIsNat DEF IInv, Arguments
  <2> QED
      BY <1>2, <2>1, <2>2, <2>3, <2>4, SendsNext
<1>3. CASE At("erase33") /\ OK /\ Step(Command(drv, 38, 0, "erase38")) /\ Keep
  <2>1. drv.pc = "erase33" /\ UNCHANGED call /\ drv' = Command(drv, 38, 0, "erase38")
        BY <1>3 DEF At, Step
  <2>2. /\ call.op # "begin" /\ Places(call.op, "erase33") /\ ~card.busy
        /\ Off \/ Effect("erase33")
        BY <1>3, <2>1, AtPlace
  <2>3. /\ Places(call.op, "erase38") /\ Sends(38, "erase38") /\ "erase38" \in Labels
        /\ Off \/ EraseRange(call.n)
        BY <2>2 DEF Places, Beginning, Sends, Labels, Effect
  <2> QED
      BY <1>3, <2>1, <2>2, <2>3, SendsNext
<1>4. CASE At("erase38") /\ OK /\ Step(Wait(drv, "erasing")) /\ Keep
  <2>1. drv' = Wait(drv, "erasing") /\ UNCHANGED call /\ drv.pc = "erase38" /\ Keep
        BY <1>4 DEF At, Step
  <2>2. Places(call.op, "erase38")
        BY <2>1, AtPlace
  <2>3. Places(call.op, "erasing")
        BY <2>2 DEF Places, Beginning
  <2>4. drv'.pc = "erasing"
    <3>1. Moves(drv, drv', "erasing")
          BY <2>1, WaitsAt DEF IInv, Typed, Labels
    <3> QED
        BY <3>1 DEF Moves
  <2>5. Transfers'
        BY <1>4, <2>1, <2>4 DEF Transfers, At, IInv, Answered, Erased, Keep, memory
  <2> QED
      BY <1>4, <2>1, <2>3, <2>5, WaitsThere
<1> QED
    BY <1>1, <1>2, <1>3, <1>4 DEF EraseGoesOn

\* What is known where a block comes over the bus, and what becomes of the card then.
LEMMA AtTransfer ==
  ASSUME IInv, At("transfer")
  PROVE  /\ ~At("none") /\ ~Sending /\ clock \in Clock /\ drv \in Drivers /\ card \in Cards
         /\ Silent /\ card.mode # "idle" /\ (Drives(card) <=> ~Off)
         /\ call.op \in {"readBlock", "readData", "readCSD", "erase"}
         /\ call.op = "readBlock" => call.b \in Block
         /\ call.op = "erase" => call.b \in Block /\ call.n \in Block
         /\ card.mode = "stream!" => card.at \in Block
         /\ Off \/ card.mode \in {"data!", "stream!"}
         /\ ~card.busy
         /\ call.op = "readBlock" => Off \/ Mode("data!", call.b)
         /\ call.op = "readData" => Off \/ Mode("stream!", drv.next)
<1>1. /\ ~At("none") /\ ~Sending /\ Places(call.op, "transfer") /\ drv.cs
      BY DEF IInv, Control, At, Sending, Label
<1>2. call.op \in {"readBlock", "readData", "readCSD", "erase"}
      BY <1>1 DEF Places, Beginning
<1> QED
    BY <1>1, <1>2
       DEF IInv, Typed, Outputs, Refuses, At, CardFits, Drives, Off, Arguments, Transfers

\* The block comes over the bus, or the transfer fails.
LEMMA TransferFailsKeeps == ASSUME IInv, TransferFails PROVE IInv'
<1>1. At("transfer") /\ Error /\ card' = card /\ UNCHANGED clock
      BY DEF TransferFails, Keep
<1>2. Tame /\ Silent'
      BY <1>1, AtTransfer, TameCard DEF Silent
<1> QED
    BY <1>1, <1>2, AtTransfer, Errs

LEMMA TransferKeeps == ASSUME IInv, Remembers, Transfer PROVE IInv'
<1>1. /\ At("transfer") /\ UNCHANGED <<clock, memory>>
      /\ card' = IF Off THEN card ELSE Passed(card)
      /\ \/ /\ ~Off /\ card.mode \in {"data!", "stream!"}
            /\ Received(IF card.at \in Block THEN store[card.at] ELSE 0)
         \/ \E data \in Data : Garbled(data)
      BY AtTransfer DEF Transfer
<1>2. Tame /\ Silent'
  <2>1. CASE Off
        BY <1>1, <2>1, AtTransfer, TameCard DEF Silent
  <2>2. CASE ~Off
    <3>1. /\ Same(card, card') /\ card'.busy = card.busy /\ card'.out = card.out
          /\ card'.mode \in {"stream", "blocks", "ready"}
          BY <1>1, <2>2, AtTransfer, PassedOn
    <3> QED
        <4>1. card'.busy \in BOOLEAN /\ card.busy \in BOOLEAN
              BY <1>1, <3>1, AtTransfer, Fields DEF Same
        <4> QED
            BY <1>1, <2>2, <3>1, <4>1, AtTransfer DEF Tame, Silent, Off
  <2> QED
      BY <2>1, <2>2
<1>2a. Kept /\ store' = store /\ fate' # "busy"
      BY <1>1, AtTransfer, JobKept DEF memory, Remembers
<1>3. CASE Error
      BY <1>1, <1>2, <1>3, AtTransfer, Errs
<1>4. CASE call.op = "erase" /\ Step([Go(drv, "csd") EXCEPT !.cs = FALSE])
  <2>1. /\ Keeps(drv, drv') /\ drv'.pc = "csd" /\ drv'.m_status = 255 /\ drv'.cs = FALSE
        /\ UNCHANGED call
    <3> DEFINE d == Go(drv, "csd")
    <3>1. Moves(drv, d, "csd")
          BY AtTransfer, <1>1, GoesTo DEF Labels
    <3>2. drv' = [d EXCEPT !.cs = FALSE] /\ UNCHANGED call
          BY <1>4 DEF Step
    <3> HIDE DEF d
    <3> QED
        BY <3>1, <3>2 DEF Moves, Keeps, Drivers
  <2>2. Transfers'
        BY <2>1 DEF Transfers, At
  <2>3. Places(call.op, "csd") /\ ~card'.busy
        BY <1>1, <1>2, <1>4, AtTransfer DEF Places, Tame
  <2> QED
      BY <1>1, <1>2, <1>4, <2>1, <2>2, <2>3, AtTransfer, MovesOn, TameIsSettled
<1>5. ASSUME NEW data \in Data, NEW trouble \in {{}, {"garbled"}}, ReturnsWith(data, trouble),
             ~drv.crc \/ trouble = {}, call.op # "erase",
             trouble = {} => /\ ~Off /\ card.mode \in {"data!", "stream!"}
                             /\ card.at \in Block => data = store[card.at]
      PROVE  IInv'
  <2>1. data \in Nat /\ trouble \subseteq {"garbled"} /\ (trouble # {} => "garbled" \in trouble)
        BY <1>5, Constants
  <2>2. ~Off /\ call.op = "readData" =>
          /\ card'.mode = "stream" /\ card'.at = drv.next + 1
          /\ drv.next \in Block /\ card.at = drv.next
        BY <1>1, AtTransfer, PassedOn DEF Mode
  <2>3. ~Off /\ call.op = "readBlock" => card.at = call.b /\ call.b \in Block
        BY <1>1, AtTransfer DEF Mode
  <2>5. drv.crc \/ "garbled" \notin call.trouble \cup trouble =>
          /\ call.op = "readBlock" => store[call.b] = data
          /\ call.op = "readData" => drv.next \in Block /\ store[drv.next] = data
        BY <1>5, <2>1, <2>2, <2>3
  <2>6. MayReturn(data, trouble)
    <3>1. call.op \in {"readBlock", "readData", "readCSD"}
          BY <1>1, <1>5, AtTransfer
    <3> QED
        BY <1>2a, <2>1, <2>2, <2>5, <3>1 DEF MayReturn
  <2> QED
      BY <1>2a, <1>1, <1>2, <1>5, <2>6, AtTransfer, Returns
<1>6. CASE /\ ~Off /\ card.mode \in {"data!", "stream!"}
           /\ Received(IF card.at \in Block THEN store[card.at] ELSE 0)
  <2> DEFINE data == IF card.at \in Block THEN store[card.at] ELSE 0
  <2>1. data \in Data
        BY Constants DEF Remembers
  <2>2. CASE call.op # "erase" /\ ReturnsWith(data, {})
        BY <1>5, <1>6, <2>1, <2>2
  <2> QED
      BY <1>4, <1>6, <2>2 DEF Received, Return
<1>7. CASE \E data \in Data : Garbled(data)
  <2>1. PICK data \in Data : Garbled(data)
        BY <1>7
  <2>2. CASE call.op # "erase" /\ ~drv.crc /\ ReturnsWith(data, {"garbled"})
        BY <1>5, <2>2
  <2> QED
      BY <1>3, <1>4, <2>1, <2>2 DEF Garbled
<1> QED
    BY <1>1, <1>6, <1>7

\* Where a call waits for a card that programs.
LEMMA AtWait ==
  ASSUME IInv, drv.pc \in {"writable", "stop", "ending", "stopped", "erasing"}
  PROVE  /\ ~At("none") /\ ~Sending /\ clock \in Clock /\ drv \in Drivers /\ card \in Cards
         /\ Silent /\ drv.cs /\ call.op # "begin" /\ (card.dead => Off) /\ (Off => ~card.busy)
         /\ At("writable") => call.op = "writeData"
         /\ At("stop") \/ At("ending") \/ At("stopped") => call.op = "writeStop"
         /\ At("erasing") =>
              call.op = "erase" /\ Erased /\ call.b \in Block /\ call.n \in Block
         /\ OnTime /\ At("writable") => Off \/ Mode("blocks", drv.next)
<1>1. /\ ~At("none") /\ ~Sending /\ Places(call.op, drv.pc) /\ drv.cs
      BY DEF IInv, Control, At, Sending, Label
<1>2. /\ call.op # "begin"
      /\ At("writable") => call.op = "writeData"
      /\ At("stop") \/ At("ending") \/ At("stopped") => call.op = "writeStop"
      /\ At("erasing") => call.op = "erase"
      BY <1>1 DEF Places, Beginning, At
<1> QED
    BY <1>1, <1>2 DEF IInv, Typed, Outputs, At, Transfers, CardFits, Off, Arguments

\* The card is still busy: the call waits, or fails.
StillBusy(a) ==
  /\ card' = a[2] /\ Kept
  /\ (Error /\ UNCHANGED clock) \/ (TimePasses /\ UNCHANGED <<drv, call>>)

\* Waiting, and giving up, keep the invariant.
LEMMA StillBusyKeeps ==
  ASSUME IInv, drv.pc \in {"writable", "stop", "stopped", "erasing"},
         NEW a \in Answers(card), StillBusy(a)
  PROVE  IInv'
<1>1. Tame /\ Silent'
      BY AtWait, TameAnswer DEF StillBusy, Tame, Silent
<1>2. CASE Error /\ UNCHANGED clock
      BY <1>1, <1>2, AtWait, Errs DEF StillBusy
<1>3. CASE TimePasses /\ UNCHANGED <<drv, call>>
      BY <1>3, AtWait, Polls, ClockGoes DEF StillBusy, At
<1> QED
    BY <1>2, <1>3 DEF StillBusy

\* A poll of the card finds it free, and the call goes on with Then, or it does not.
LEMMA Awaits ==
  ASSUME IInv, NEW label \in {"writable", "stop", "stopped", "erasing"}, NEW limit, NEW ACTION Then,
         Await(label, limit, Then)
  PROVE  /\ drv.pc = label /\ At(label)
         /\ \/ /\ Then /\ UNCHANGED clock /\ Kept /\ Tame /\ Silent' /\ JobEnds /\ ~card'.busy
               /\ card.mode = "blocks" => card'.mode = "blocks" /\ card'.at = card.at
            \/ \E a \in Answers(card) : StillBusy(a)
<1>1. drv.pc = label /\ At(label)
      BY DEF Await, At
<1>2. PICK a \in Answers(card) :
        /\ card' = a[2] /\ JobEnds
        /\ \/ a[1] = High /\ Then /\ UNCHANGED clock
           \/ (Error /\ UNCHANGED clock) \/ (TimePasses /\ UNCHANGED <<drv, call>>)
      BY DEF Await
<1>3. Kept
      BY <1>2, JobKept
<1>4. CASE a[1] = High /\ Then /\ UNCHANGED clock
  <2>1. Tame /\ Silent'
        BY <1>1, <1>2, AtWait, TameAnswer DEF Tame, Silent
  <2>2. Drives(card) \/ Off
        BY <1>1, AtWait DEF Drives, Off
  <2>3. ~card'.busy
        BY <1>1, <1>2, <1>4, <2>1, <2>2, AtWait, AnswersGive DEF Silent, Tame
  <2>4. card.mode = "blocks" => card'.mode = "blocks" /\ card'.at = card.at
        BY <1>1, <1>2, AtWait, AnswersGive
  <2> QED
      BY <1>1, <1>2, <1>3, <1>4, <2>1, <2>3, <2>4
<1> QED
    BY <1>1, <1>2, <1>3, <1>4 DEF StillBusy

\* The waits of writeData, writeStop and erase.
LEMMA AwaitWritableKeeps == ASSUME IInv, AwaitWritable PROVE IInv'
<1>1. Await("writable", SD_WRITE_TIMEOUT, Free("send"))
      BY DEF AwaitWritable
<1>2. drv.pc = "writable" /\ At("writable")
      BY <1>1, Awaits
<1>3. CASE /\ Free("send") /\ UNCHANGED clock /\ Tame /\ Silent'
           /\ card.mode = "blocks" => card'.mode = "blocks" /\ card'.at = card.at
  <2>1. Moves(drv, drv', "send") /\ UNCHANGED call
        BY <1>2, <1>3, AtWait, WaitsAt DEF Labels, Free, Step
  <2>3. OnTime => Off' \/ Mode("blocks", drv.next)'
    <3>1. OnTime => Off \/ Mode("blocks", drv.next)
          BY <1>2, AtWait
    <3> QED
        BY <1>3, <2>1, <3>1 DEF Off, Mode, Tame, Moves, Keeps
  <2>4. call.op = "writeData" /\ Places(call.op, "send")
        BY <1>2, AtWait DEF Places
  <2>5. Transfers'
        BY <2>1, <2>3, <2>4 DEF Transfers, At, OnTime, Moves
  <2> QED
      BY <1>2, <1>3, <2>1, <2>4, <2>5, AtWait, MovesOn, TameIsSettled DEF Moves
<1>4. CASE \E a \in Answers(card) : StillBusy(a)
      BY <1>2, <1>4, StillBusyKeeps
<1> QED
    BY <1>1, <1>3, <1>4, Awaits

LEMMA AwaitStopKeeps == ASSUME IInv, AwaitStop PROVE IInv'
<1>1. Await("stop", SD_WRITE_TIMEOUT, Free("ending"))
      BY DEF AwaitStop
<1>2. drv.pc = "stop" /\ At("stop")
      BY <1>1, Awaits
<1>3. CASE Free("ending") /\ UNCHANGED clock /\ Tame /\ Silent'
  <2>1. Moves(drv, drv', "ending") /\ UNCHANGED call
        BY <1>2, <1>3, AtWait, WaitsAt DEF Labels, Free, Step
  <2>2. Transfers'
        BY <2>1 DEF Transfers, At, Moves
  <2>3. call.op = "writeStop" /\ Places(call.op, "ending")
        BY <1>2, AtWait DEF Places
  <2> QED
      BY <1>2, <1>3, <2>1, <2>2, <2>3, AtWait, MovesOn, TameIsSettled DEF Moves
<1>4. CASE \E a \in Answers(card) : StillBusy(a)
      BY <1>2, <1>4, StillBusyKeeps
<1> QED
    BY <1>1, <1>3, <1>4, Awaits

\* The token that ends a sequence of blocks.
LEMMA SendStopKeeps == ASSUME IInv, SendStop PROVE IInv'
<1>1. /\ drv.pc = "ending" /\ At("ending") /\ UNCHANGED <<call, clock>>
      /\ drv' = Wait(drv, "stopped") /\ card' = Stopped(card)
      BY DEF SendStop, At, Step
<1>2. Moves(drv, drv', "stopped")
      BY <1>1, AtWait, WaitsAt DEF Labels
<1>3. Settled /\ Silent'
  <2>1. CASE card' = card
        BY <1>1, <2>1, AtWait, TameCard, TameIsSettled DEF Silent
  <2>2. CASE card.mode = "blocks" /\ card' = [Ready(card) EXCEPT !.busy = TRUE]
    <3> DEFINE d == [card EXCEPT !.mode = "ready", !.at = 0]
    <3>1. card' = [d EXCEPT !.busy = TRUE] /\ card \in Cards
          BY <1>1, <2>2, AtWait DEF Ready
    <3>2. Same(card, d) /\ d.mode = "ready" /\ d.out = card.out
          BY <3>1 DEF Same, Cards, Modes
    <3> HIDE DEF d
    <3>3. Same(d, card') /\ card'.mode = d.mode /\ card'.out = d.out
          BY <3>1, <3>2 DEF Same, Cards
    <3> QED
        BY <1>1, <2>2, <3>2, <3>3, AtWait DEF Settled, Silent, Same
  <2> QED
      BY <1>1, <2>1, <2>2 DEF Stopped
<1>4. Transfers'
      BY <1>2 DEF Transfers, At, Moves
<1>5. call.op = "writeStop" /\ Places(call.op, "stopped")
      BY <1>1, AtWait DEF Places
<1> QED
    BY <1>1, <1>2, <1>3, <1>4, <1>5, AtWait, MovesOn DEF Moves

LEMMA AwaitStoppedKeeps == ASSUME IInv, AwaitStopped PROVE IInv'
<1>1. Await("stopped", SD_WRITE_TIMEOUT, Return(0))
      BY DEF AwaitStopped
<1>2. drv.pc = "stopped" /\ At("stopped")
      BY <1>1, Awaits
<1>3. CASE Return(0) /\ UNCHANGED clock /\ Kept /\ Tame /\ Silent'
  <2>1. MayReturn(0, {})
        BY <1>2, AtWait DEF MayReturn
  <2> QED
      BY <1>2, <1>3, <2>1, AtWait, Returns DEF Return
<1>4. CASE \E a \in Answers(card) : StillBusy(a)
      BY <1>2, <1>4, StillBusyKeeps
<1> QED
    BY <1>1, <1>3, <1>4, Awaits

LEMMA AwaitErasedKeeps == ASSUME IInv, AwaitErased PROVE IInv'
<1>1. Await("erasing", SD_ERASE_TIMEOUT, Return(0))
      BY DEF AwaitErased
<1>2. drv.pc = "erasing" /\ At("erasing")
      BY <1>1, Awaits
<1>3. CASE Return(0) /\ UNCHANGED clock /\ Kept /\ Tame /\ Silent' /\ JobEnds /\ ~card'.busy
  <2>1. fate' # "busy"
        BY <1>3 DEF JobEnds
  <2>2. Erased /\ call.b .. call.n \subseteq Block /\ call.op = "erase"
        BY <1>2, AtWait, Constants
  <2>3. MayReturn(0, {})
        BY <2>1, <2>2 DEF MayReturn
  <2> QED
      BY <1>2, <1>3, <2>3, AtWait, Returns DEF Return
<1>4. CASE \E a \in Answers(card) : StillBusy(a)
      BY <1>2, <1>4, StillBusyKeeps
<1> QED
    BY <1>1, <1>3, <1>4, Awaits

\* Where a call has a block for the card, or has sent it.
LEMMA AtSend ==
  ASSUME IInv, drv.pc \in {"send", "sent"}
  PROVE  /\ ~At("none") /\ ~Sending /\ clock \in Clock /\ drv \in Drivers /\ card \in Cards
         /\ call \in Calls /\ drv.cs
         /\ call.op \in {"writeBlock", "writeData"} /\ call.data \in Data /\ ~call.returned
         /\ call.op = "writeBlock" => call.b \in Block
         /\ At("send") => Silent
         /\ At("send") /\ call.op = "writeBlock" => Off \/ Deaf \/ Mode("block", call.b)
         /\ At("send") /\ call.op = "writeData" /\ OnTime => Off \/ Mode("blocks", drv.next)
<1>1. ~At("none") /\ ~Sending /\ Places(call.op, drv.pc) /\ drv.cs /\ ~call.returned
      BY DEF IInv, Control, At, Sending, Label
<1>2. call.op \in {"writeBlock", "writeData"}
      BY <1>1 DEF Places, Beginning
<1> QED
    BY <1>1, <1>2 DEF IInv, Typed, Outputs, At, Arguments, Transfers

\* The block has been sent.
LEMMA SentKeeps ==
  ASSUME IInv, At("send"), drv' = Go(drv, "sent"), UNCHANGED clock, Settled,
         UNCHANGED call \/ Trouble("garbled"),
         \/ Silent'
         \/ /\ Len(card'.out) = 1 /\ Head(card'.out) \in {DATA_RES_ACCEPTED, DATA_RES_REJECTED}
            /\ ~Off,
         ~Silent' /\ Head(card'.out) = DATA_RES_ACCEPTED =>
           /\ OnTime \/ call.op = "writeBlock" =>
                /\ Target \in Block
                /\ drv.crc \/ "garbled" \notin call'.trouble =>
                     job' = Job(Target, Target, call.data)
           /\ OnTime /\ call.op = "writeData" =>
                card'.mode = "blocks" /\ card'.at = drv.next + 1
  PROVE  IInv'
<1>1. drv.pc = "send"
      BY DEF At
<1>2. /\ drv' \in Drivers /\ drv'.m_type = drv.m_type /\ drv'.sequence = drv.sequence
      /\ drv'.next = drv.next /\ drv'.crc = drv.crc /\ drv'.pc = "sent" /\ drv'.cs = drv.cs
      /\ drv'.m_status = 255
  <2>1. Moves(drv, drv', "sent")
        BY <1>1, AtSend, GoesTo DEF Labels
  <2> QED
      BY <2>1 DEF Moves, Keeps
<1>3. /\ call' \in Calls /\ call'.op = call.op /\ call'.b = call.b /\ call'.n = call.n
      /\ call'.data = call.data /\ call'.returned = call.returned
      /\ OnTime' => OnTime
  <2>1. CASE UNCHANGED call
        BY <1>1, <2>1, AtSend DEF OnTime
  <2>2. CASE Trouble("garbled")
        BY <1>1, <2>2, AtSend, TroubleOnly DEF OnTime
  <2> QED
      BY <2>1, <2>2
<1>4. ~At("none")' /\ ~Sending' /\ Label' = "sent"
      BY <1>2 DEF At, Sending, Label
<1>5. Typed'
      BY <1>1, <1>2, <1>3, AtSend DEF Typed, Settled, Same
<1>6. Control'
  <2>1. Places(call.op, "sent")
        BY <1>1, AtSend DEF Places
  <2> QED
      BY <1>1, <1>2, <1>3, <1>4, <2>1, AtSend DEF Control, At
<1>7. Arguments'
      BY <1>1, <1>3, <1>4, AtSend DEF Arguments
<1>8. InSequence'
      BY <1>1, <1>2, <1>3, AtSend DEF IInv, InSequence, At
<1>9. Outputs'
      BY <1>2 DEF Outputs, At, Silent, Off, Settled
<1>10. CardFits'
       BY <1>1, <1>2, <1>3, AtSend, SettledFits
<1>11. Refuses'
       BY <1>1, <1>2, <1>4, AtSend DEF IInv, Refuses, At, Settled, OK, R1_READY_STATE
<1>12. Begins'
       BY <1>1, <1>3, AtSend DEF Begins
<1>13. Answered'
       BY <1>2, <1>4 DEF Answered, At, Sending, OK, R1_READY_STATE
<1>14. Transfers'
       BY <1>1, <1>2, <1>3, AtSend DEF Transfers, At, Target, Mode
<1>15. Achieved'
       BY <1>1, <1>3, AtSend DEF Achieved
<1> QED
    BY <1>5, <1>6, <1>7, <1>8, <1>9, <1>10, <1>11, <1>12, <1>13, <1>14, <1>15 DEF IInv

\* The block goes to the card, which takes it or not.
LEMMA SendDataKeeps == ASSUME IInv, SendData PROVE IInv'
<1>1. /\ At("send") /\ drv.pc = "send" /\ UNCHANGED clock /\ drv' = Go(drv, "sent") /\ Silent
      /\ card.mode \in Modes /\ card.busy \in BOOLEAN
      BY AtSend, Fields DEF SendData, At
<1>2. CASE UNCHANGED <<call, card>>
  <2>1. Settled /\ Silent'
        BY <1>1, <1>2, TameCard, TameIsSettled DEF Silent
  <2> QED
      BY <1>1, <1>2, <2>1, AtSend, SentKeeps
<1>3. Accepts(card) => /\ ~Off /\ ~card.busy
                       /\ card.mode = IF call.op = "writeBlock" THEN "block" ELSE "blocks"
      BY DEF Accepts, Drives, Off
<1>4. CASE /\ Accepts(card)
           /\ card' = [IF card.mode = "block" THEN Ready(card) ELSE card
                         EXCEPT !.out = <<DATA_RES_REJECTED>>]
           /\ UNCHANGED call
  <2> DEFINE c == IF card.mode = "block" THEN Ready(card) ELSE card
  <2>1. Same(card, c) /\ c.busy = card.busy /\ c.mode \in {"ready", "blocks"}
    <3>1. CASE card.mode = "block"
      <4>1. c = [card EXCEPT !.mode = "ready", !.at = 0]
            BY <3>1 DEF Ready
      <4> HIDE DEF c
      <4> QED
          BY <1>1, <4>1, AtSend DEF Same, Cards, Modes
    <3>2. CASE card.mode # "block"
          BY <1>1, <1>3, <1>4, <3>2, AtSend DEF Same
    <3> QED
        BY <3>1, <3>2
  <2>2. card' = [c EXCEPT !.out = <<11>>]
        BY <1>4 DEF DATA_RES_REJECTED
  <2> HIDE DEF c
  <2>3. /\ Same(c, card') /\ card'.busy = c.busy /\ card'.mode = c.mode
        /\ Len(card'.out) = 1 /\ Head(card'.out) = 11
    <3> DEFINE out == <<11>>
    <3>1. out \in Seq(Nat) /\ Len(out) = 1 /\ Head(out) = 11
          OBVIOUS
    <3>2. c \in Cards /\ card' = [c EXCEPT !.out = out]
          BY <2>1, <2>2 DEF Same
    <3> HIDE DEF out
    <3>3. Same(c, card') /\ card'.busy = c.busy /\ card'.mode = c.mode /\ card'.out = out
          BY <3>1, <3>2 DEF Same, Cards
    <3> QED
        BY <3>1, <3>3
  <2>4. Settled
        BY <1>1, <1>3, <1>4, <2>1, <2>3 DEF Settled, Same, Off
  <2> QED
      BY <1>1, <1>3, <1>4, <2>3, <2>4, AtSend, SentKeeps
         DEF DATA_RES_REJECTED, DATA_RES_ACCEPTED
<1>5. CASE /\ Accepts(card) /\ card.at \in Block
           /\ card' = [Passed(card) EXCEPT !.out = <<DATA_RES_ACCEPTED>>, !.busy = TRUE]
           /\ \/ JobBegins(card.at, card.at, call.data) /\ UNCHANGED call
              \/ ~card.crc /\ Trouble("garbled")
  <2> DEFINE c == Passed(card)
  <2>1. /\ Same(card, c) /\ c.mode \in {"ready", "blocks"}
        /\ call.op = "writeData" => c.mode = "blocks" /\ c.at = card.at + 1
        BY <1>1, <1>3, <1>5, AtSend, PassedOn
  <2>2. card' = [c EXCEPT !.out = <<5>>, !.busy = TRUE] /\ c \in Cards
        BY <1>5, <2>1 DEF DATA_RES_ACCEPTED, Same
  <2> HIDE DEF c
  <2>3. /\ Same(c, card') /\ card'.mode = c.mode /\ card'.at = c.at
        /\ Len(card'.out) = 1 /\ Head(card'.out) = 5
    <3> DEFINE out == <<5>>
    <3>1. out \in Seq(Nat) /\ Len(out) = 1 /\ Head(out) = 5
          OBVIOUS
    <3>2. card' = [c EXCEPT !.out = out, !.busy = TRUE]
          BY <2>2
    <3> HIDE DEF out
    <3>3. Same(c, card') /\ card'.mode = c.mode /\ card'.at = c.at /\ card'.out = out
          BY <2>2, <3>1, <3>2 DEF Same, Cards
    <3> QED
        BY <3>1, <3>3
  <2>4. Settled
        BY <1>1, <1>3, <1>5, <2>1, <2>3 DEF Settled, Same, Off
  <2>5. OnTime \/ call.op = "writeBlock" => card.at = Target
        BY <1>1, <1>3, <1>5, AtSend DEF Mode, Deaf, Target
  <2>7. UNCHANGED call \/ Trouble("garbled")
        BY <1>5
  <2>8. drv.crc \/ "garbled" \notin call'.trouble => job' = Job(card.at, card.at, call.data)
    <3>1. CASE JobBegins(card.at, card.at, call.data)
          BY <3>1 DEF JobBegins
    <3>2. CASE ~card.crc /\ Trouble("garbled")
      <4>1. drv.crc = FALSE
            BY <1>1, <1>3, <1>5, <3>2, AtSend, DriverFields DEF IInv, CardFits, Begun
      <4>2. "garbled" \in call'.trouble
            BY <1>1, <3>2, AtSend, TroubleOnly
      <4> QED
          BY <4>1, <4>2
    <3> QED
        BY <1>5, <3>1, <3>2
  <2>9. /\ OnTime \/ call.op = "writeBlock" =>
             /\ Target \in Block
             /\ drv.crc \/ "garbled" \notin call'.trouble =>
                  job' = Job(Target, Target, call.data)
        /\ OnTime /\ call.op = "writeData" => card'.mode = "blocks" /\ card'.at = drv.next + 1
        BY <1>5, <2>1, <2>3, <2>5, <2>8 DEF Target
  <2> QED
      BY <1>1, <1>3, <1>5, <2>3, <2>4, <2>7, <2>9, AtSend, SentKeeps
         DEF DATA_RES_ACCEPTED
<1> QED
    BY <1>2, <1>4, <1>5 DEF SendData

\* The card's answer to the data ends the call.
LEMMA DataResponseKeeps == ASSUME IInv, DataResponse PROVE IInv'
<1>1. PICK a \in Answers(card) :
        card' = a[2] /\ IF a[1] % 32 = 5 THEN Return(call.data) ELSE Error
      BY DEF DataResponse, DATA_RES_ACCEPTED
<1>2. /\ At("sent") /\ drv.pc = "sent" /\ UNCHANGED clock /\ Kept
      /\ Silent \/ (Len(card.out) = 1 /\ Head(card.out) \in {5, 11} /\ ~Off)
      BY JobKept DEF DataResponse, At, IInv, Outputs, DATA_RES_ACCEPTED, DATA_RES_REJECTED
<1>3. Tame
      BY <1>1, TameAnswer
<1>4. ~Silent => Drives(card)
      BY <1>2, AtSend DEF IInv, CardFits, Drives, Off
<1>5. /\ Silent => a[1] \in {255, 0, 254, 8} /\ Silent'
      /\ ~Silent => /\ a[1] = Head(card.out) /\ Silent'
                    /\ card'.mode = card.mode /\ card'.at = card.at
  <2>1. ~Silent => Tail(card.out) = <<>>
        BY <1>2, AtSend, TailOf, Fields DEF Silent
  <2>2. card \in Cards /\ a \in Answers(card) /\ card' = a[2]
        BY <1>1, <1>2, AtSend
  <2>3. Silent => a[1] \in {255, 0, 254, 8} /\ Silent'
        BY <2>2, AnswersGive DEF Silent, High, Busy, Token, ErrorToken
  <2>4. ~Silent => /\ a[1] = Head(card.out) /\ card'.out = Tail(card.out)
                   /\ card'.mode = card.mode /\ card'.at = card.at
        BY <1>4, <2>2, AnswersGive DEF Silent
  <2> QED
      BY <2>1, <2>3, <2>4 DEF Silent
<1>6. CASE Error
      BY <1>2, <1>3, <1>5, <1>6, AtSend, Errs
<1>7. CASE a[1] % 32 = 5 /\ Return(call.data)
  <2>1. ~Silent /\ Head(card.out) = DATA_RES_ACCEPTED
        BY <1>2, <1>5, <1>7 DEF DATA_RES_ACCEPTED
  <2>2. /\ OnTime \/ call.op = "writeBlock" =>
             /\ Target \in Block
             /\ drv.crc \/ "garbled" \notin call.trouble => job = Job(Target, Target, call.data)
        /\ OnTime /\ call.op = "writeData" => Mode("blocks", drv.next + 1)
        BY <1>2, <2>1 DEF IInv, Transfers
  <2>3. MayReturn(call.data, {})
    <3>1. call.data \in Nat
          BY <1>2, AtSend, Constants
    <3>2. /\ OnTime /\ call.op = "writeData" =>
               card'.mode = "blocks" /\ card'.at = drv.next + 1
          BY <1>5, <2>1, <2>2 DEF Mode
    <3>3. drv.crc \/ "garbled" \notin call.trouble =>
            /\ call.op = "writeBlock" => call.b \in Block /\ job = Job(call.b, call.b, call.data)
            /\ call.op = "writeData" /\ OnTime =>
                 drv.next \in Block /\ job = Job(drv.next, drv.next, call.data)
          BY <2>2 DEF Target
    <3>4. call.op \in {"writeBlock", "writeData"}
          BY <1>2, AtSend
    <3> QED
        BY <3>1, <3>2, <3>3, <3>4 DEF MayReturn
  <2> QED
      BY <1>2, <1>3, <1>5, <1>7, <2>1, <2>3, AtSend, Returns DEF Return
<1> QED
    BY <1>1, <1>6, <1>7

\* A call of op begins, and the driver is as d.
Started(op, b, n, data, d) ==
  /\ At("none") /\ clock' \in Clock /\ card' = card
  /\ drv' \in Drivers /\ drv'.pc = d.pc /\ drv'.cmd = d.cmd /\ drv'.to = d.to
  /\ drv'.m_status = d.m_status /\ drv'.m_type = d.m_type /\ drv'.cs = d.cs
  /\ drv'.sequence = d.sequence /\ drv'.next = d.next /\ drv'.crc = d.crc
  /\ call' \in Calls /\ call'.op = op /\ call'.b = b /\ call'.n = n /\ call'.data = data
  /\ call'.returned = FALSE
  /\ drv.sequence # "none" => call'.trouble = call.trouble

\* The fields of a driver and of a call that begin.
LEMMA CallStarts ==
  ASSUME IInv, NEW op, NEW b, NEW n, NEW data, NEW d, Call(op, b, n, data, d),
         op \in Ops, b \in Nat, n \in Nat, data \in Nat, d \in Drivers
  PROVE  Started(op, b, n, data, d)
<1> DEFINE init == IF op = "begin" THEN clock' ELSE 0
           trouble == IF drv.sequence = "none" THEN {} ELSE call.trouble
<1>1. /\ clock' \in Clock /\ init \in Clock /\ call \in Calls /\ At("none")
      /\ UNCHANGED card
      BY Zero, Constants DEF Call, IInv, Typed
<1>2. /\ drv' = [d EXCEPT !.since = clock', !.init = init]
      /\ call' = [op |-> op, b |-> b, n |-> n, data |-> data, ok |-> FALSE,
                  returned |-> FALSE, trouble |-> trouble]
      BY DEF Call
<1>3. /\ trouble \in SUBSET {"late", "garbled"}
      /\ drv.sequence # "none" => trouble = call.trouble
      BY <1>1 DEF Calls
<1> HIDE DEF init, trouble
<1>4. /\ drv' \in Drivers /\ drv'.pc = d.pc /\ drv'.cmd = d.cmd /\ drv'.to = d.to
      /\ drv'.m_status = d.m_status /\ drv'.m_type = d.m_type /\ drv'.cs = d.cs
      /\ drv'.sequence = d.sequence /\ drv'.next = d.next /\ drv'.crc = d.crc
      BY <1>1, <1>2 DEF Drivers
<1>5. /\ call' \in Calls /\ call'.op = op /\ call'.b = b /\ call'.n = n /\ call'.data = data
      /\ call'.returned = FALSE /\ call'.trouble = trouble
      BY <1>2, <1>3 DEF Calls
<1> QED
    BY <1>1, <1>3, <1>4, <1>5 DEF Started

\* The driver is free, and so is the bus.
LEMMA AtNone ==
  ASSUME IInv, At("none")
  PROVE  /\ drv \in Drivers /\ card \in Cards /\ call \in Calls /\ clock \in Clock
         /\ Silent /\ (card.mode = "idle" => drv.sequence = "none")
         /\ (card.dead => Off) /\ (card.busy => card.mode \in {"ready", "blocks"})
         /\ (drv.crc /\ card.mode \in Begun => card.crc)
         /\ (card.mode = "stream!" => card.at \in Block)
         /\ (card.mode \in Begun => drv.m_type \in {"none", card.kind})
         /\ (drv.sequence # "none" => drv.m_type # "none")
         /\ drv.sequence = "read" => Off \/ Deaf \/ Mode("stream", drv.next)
         /\ OnTime /\ drv.sequence = "write" => Off \/ Mode("blocks", drv.next)
BY DEF IInv, Typed, Outputs, Refuses, CardFits, InSequence, Transfers, At

\* What is left to see of a call that begins.
LEMMA StartKeeps ==
  ASSUME IInv, NEW op, NEW b, NEW n, NEW data, NEW d, Started(op, b, n, data, d),
         d.pc \in {"poll", "token", "writable", "stop"}, d.m_status = 255, d.cs = TRUE,
         d.crc = drv.crc,
         op = "begin" => d.m_type = "none" /\ d.to = "cmd0" /\ d.pc = "poll",
         op # "begin" => d.m_type = drv.m_type,
         Control', Arguments', InSequence', Transfers',
         d.sequence = drv.sequence \/ op = "begin",
         d.pc # "poll" => drv.sequence # "none",
         d.to \notin {"init", "ocr", "csd", "erase32", "erase33", "erase38"} \/ d.pc # "poll"
  PROVE  IInv'
<1>1. /\ drv'.pc = d.pc /\ drv'.to = d.to /\ drv'.m_status = 255 /\ drv'.m_type = d.m_type
      /\ drv'.crc = drv.crc /\ drv'.sequence = d.sequence /\ call'.op = op
      /\ card' = card /\ call'.returned = FALSE /\ At("none")
      BY DEF Started
<1>2. Typed'
      BY AtNone, <1>1 DEF Started, Typed
<1>3. Outputs'
      BY AtNone, <1>1 DEF Outputs, At, Silent
<1>4. CardFits'
      BY AtNone, <1>1 DEF CardFits, At, Off
<1>5. Refuses'
  <2>1. card.mode = "idle" => drv'.sequence = "none" /\ d.pc = "poll"
        BY AtNone, <1>1 DEF InSequence, At
  <2> QED
      BY <1>1, <2>1 DEF Refuses, At, Sending
<1>6. Begins'
      BY <1>1 DEF Begins, At, Sending, Label
<1>7. Answered'
      BY <1>1 DEF Answered, At, Sending, Label, OK, R1_READY_STATE
<1>8. Achieved'
      BY <1>1 DEF Achieved
<1> QED
    BY <1>2, <1>3, <1>4, <1>5, <1>6, <1>7, <1>8 DEF IInv

\* A call that begins with a command.
LEMMA CallSends ==
  ASSUME IInv, NEW op, NEW b, NEW n, NEW data, NEW c, NEW arg, NEW to,
         Call(op, b, n, data, Command(drv, c, arg, to)),
         op \in Ops \ {"begin", "none"}, b \in Nat, n \in Nat, data \in Nat,
         c \in Nat, arg \in Nat, to \in Labels, Sends(c, to), Places(op, to),
         drv.m_type # "none",
         op \in {"readData", "readStop"} => drv.sequence = "read",
         op \in {"writeData", "writeStop"} => drv.sequence = "write",
         op \in {"readBlock", "readStart", "writeBlock", "writeStart", "erase"} => b \in Block,
         op = "erase" => n \in Block, op \in {"writeBlock", "writeData"} => data \in Data,
         to \in {"read17", "start18", "write24", "start25", "erase32"} => arg = Address(b),
         to \notin {"init", "ocr", "csd", "erase32", "erase33", "erase38"}
  PROVE  IInv'
<1> DEFINE d == Command(drv, c, arg, to)
<1>1. At("none") /\ drv \in Drivers /\ clock \in Clock
      BY DEF Call, IInv, Typed
<1>2. Carries(drv, d, c, arg, to)
      BY <1>1, CommandSent
<1>3. Started(op, b, n, data, d)
  <2>1. d \in Drivers /\ op \in Ops
        BY <1>2 DEF Carries, Keeps
  <2>2. Call(op, b, n, data, d)
        OBVIOUS
  <2> HIDE DEF d
  <2> QED
      BY <2>1, <2>2, CallStarts
<1> HIDE DEF d
<1>4. /\ d.pc = "poll" /\ d.cs = TRUE /\ d.m_status = 255 /\ d.cmd.c = c /\ d.cmd.arg = arg
      /\ d.to = to /\ d.m_type = drv.m_type /\ d.sequence = drv.sequence /\ d.crc = drv.crc
      BY <1>2 DEF Carries, Keeps
<1>5. /\ drv'.pc = "poll" /\ drv'.cs = TRUE /\ drv'.cmd.c = c /\ drv'.cmd.arg = arg
      /\ drv'.to = to /\ drv'.m_type = drv.m_type /\ drv'.sequence = drv.sequence
      /\ call'.op = op /\ call'.b = b /\ call'.n = n /\ call'.data = data
      /\ call'.returned = FALSE
      BY <1>3, <1>4 DEF Started
<1>6. Control'
      BY <1>5 DEF Control, At, Sending, Label
<1>7. Arguments'
      BY <1>5 DEF Arguments, At, Sending, Address, Places, Beginning
<1>8. InSequence'
      BY <1>5 DEF InSequence, At
<1>9. Transfers'
      BY <1>5 DEF Transfers, At
<1> QED
    BY <1>3, <1>4, <1>6, <1>7, <1>8, <1>9, StartKeeps

\* A call that goes on with a sequence of blocks.
LEMMA CallWaits ==
  ASSUME IInv, NEW op, NEW data, NEW label, drv.sequence # "none",
         Call(op, 0, 0, data, [Wait(drv, label) EXCEPT !.cs = TRUE]),
         \/ op = "readData" /\ label = "token" /\ drv.sequence = "read" /\ data = 0
         \/ op = "writeData" /\ label = "writable" /\ drv.sequence = "write" /\ data \in Data
         \/ op = "writeStop" /\ label = "stop" /\ drv.sequence = "write" /\ data = 0
  PROVE  IInv'
<1>1. At("none") /\ drv \in Drivers /\ clock \in Clock /\ label \in Labels
      BY DEF Call, IInv, Typed, Labels
<1> DEFINE d == [Wait(drv, label) EXCEPT !.cs = TRUE]
<1>2. /\ d \in Drivers /\ d.pc = label /\ d.cs = TRUE /\ d.m_status = 255
      /\ d.m_type = drv.m_type /\ d.sequence = drv.sequence /\ d.next = drv.next
      /\ d.crc = drv.crc
  <2> DEFINE e == Wait(drv, label)
  <2>1. Moves(drv, e, label)
        BY <1>1, WaitsAt
  <2>2. d = [e EXCEPT !.cs = TRUE]
        OBVIOUS
  <2> HIDE DEF d, e
  <2> QED
      BY <2>1, <2>2 DEF Moves, Keeps, Drivers
<1>3. Started(op, 0, 0, data, d)
  <2>1. op \in Ops /\ data \in Nat /\ 0 \in Nat
        BY Constants DEF Ops
  <2>2. Call(op, 0, 0, data, d)
        OBVIOUS
  <2> HIDE DEF d
  <2> QED
      BY <1>2, <2>1, <2>2, CallStarts
<1> HIDE DEF d
<1>4. /\ drv'.pc = label /\ drv'.cs = TRUE /\ drv'.m_type = drv.m_type
      /\ drv'.sequence = drv.sequence /\ drv'.next = drv.next
      /\ call'.op = op /\ call'.data = data /\ call'.returned = FALSE
      /\ call'.trouble = call.trouble
      /\ card' = card
      BY <1>2, <1>3 DEF Started
<1>5. Control'
      BY <1>4 DEF Control, At, Sending, Label, Places
<1>6. Arguments'
      BY <1>4 DEF Arguments, At, Sending
<1>7. InSequence'
      BY <1>1, <1>4, AtNone DEF InSequence, At
<1>8. Transfers'
      BY <1>1, <1>4, AtNone DEF Transfers, At, OnTime, Off, Mode, Deaf
<1> QED
    BY <1>2, <1>3, <1>5, <1>6, <1>7, <1>8, StartKeeps

\* The calls of a program.
LEMMA BeginKeeps == ASSUME IInv, begin PROVE IInv'
<1> DEFINE d == Command(Fresh(drv.crc), 0, 0, "cmd0")
<1>1. At("none") /\ drv \in Drivers /\ clock \in Clock /\ drv.crc \in BOOLEAN
      BY DriverFields DEF begin, Call, IInv, Typed
<1>2. /\ d \in Drivers /\ d.pc = "poll" /\ d.cs = TRUE /\ d.m_status = 255 /\ d.cmd.c = 0
      /\ d.to = "cmd0" /\ d.m_type = "none" /\ d.sequence = "none" /\ d.crc = drv.crc
  <2> DEFINE f == Fresh(drv.crc)
  <2>1. f \in Drivers /\ f.m_type = "none" /\ f.sequence = "none" /\ f.crc = drv.crc
        BY <1>1, FreshDriver
  <2> HIDE DEF f
  <2>2. Carries(f, Command(f, 0, 0, "cmd0"), 0, 0, "cmd0")
        BY <1>1, <2>1, CommandSent DEF Labels
  <2>3. d = Command(f, 0, 0, "cmd0")
        BY DEF f
  <2> HIDE DEF d
  <2> QED
      BY <2>1, <2>2, <2>3 DEF Carries, Keeps
<1>3. Started("begin", 0, 0, 0, d)
  <2>1. Call("begin", 0, 0, 0, d) /\ "begin" \in Ops /\ 0 \in Nat
        BY DEF begin, Ops
  <2> HIDE DEF d
  <2> QED
      BY <1>2, <2>1, CallStarts
<1> HIDE DEF d
<1>4. /\ drv'.pc = "poll" /\ drv'.cs = TRUE /\ drv'.cmd.c = 0 /\ drv'.to = "cmd0"
      /\ drv'.m_type = "none" /\ drv'.sequence = "none"
      /\ call'.op = "begin" /\ call'.returned = FALSE
      BY <1>2, <1>3 DEF Started
<1>5. Control'
      BY <1>4 DEF Control, At, Sending, Label, Sends, Places, Beginning
<1>6. Arguments' /\ InSequence' /\ Transfers'
      BY <1>4 DEF Arguments, InSequence, Transfers, At, Sending
<1> QED
    BY <1>2, <1>3, <1>5, <1>6, StartKeeps

LEMMA ReadingKeeps == ASSUME IInv, readBlock \/ readStart \/ readCSD \/ readStop PROVE IInv'
<1>1. CASE readBlock
  <2>1. PICK b \in Block : Call("readBlock", b, 0, 0, Command(drv, 17, Address(b), "read17"))
        BY <1>1 DEF readBlock
  <2>2. drv.m_type # "none" /\ b \in Nat /\ Address(b) \in Nat
        BY <1>1, AddressIsNat, Constants DEF readBlock, In
  <2>3. Sends(17, "read17") /\ Places("readBlock", "read17") /\ "read17" \in Labels
        BY DEF Sends, Places, Labels
  <2> QED
      BY <2>1, <2>2, <2>3, CallSends DEF Ops
<1>2. CASE readStart
  <2>1. PICK b \in Block : Call("readStart", b, 0, 0, Command(drv, 18, Address(b), "start18"))
        BY <1>2 DEF readStart
  <2>2. drv.m_type # "none" /\ b \in Nat /\ Address(b) \in Nat
        BY <1>2, AddressIsNat, Constants DEF readStart, In
  <2>3. Sends(18, "start18") /\ Places("readStart", "start18") /\ "start18" \in Labels
        BY DEF Sends, Places, Labels
  <2> QED
      BY <2>1, <2>2, <2>3, CallSends DEF Ops
<1>3. CASE readCSD
  <2>1. /\ Call("readCSD", 0, 0, 0, Command(drv, 9, 0, "register"))
        /\ drv.m_type # "none"
        BY <1>3 DEF readCSD, In
  <2>2. Sends(9, "register") /\ Places("readCSD", "register") /\ "register" \in Labels
        BY DEF Sends, Places, Labels
  <2> QED
      BY <2>1, <2>2, CallSends DEF Ops
<1>4. CASE readStop
  <2>1. /\ Call("readStop", 0, 0, 0, Command(drv, 12, 0, "stop12"))
        /\ drv.m_type # "none" /\ drv.sequence = "read"
        BY <1>4 DEF readStop, In
  <2>2. Sends(12, "stop12") /\ Places("readStop", "stop12") /\ "stop12" \in Labels
        BY DEF Sends, Places, Labels
  <2> QED
      BY <2>1, <2>2, CallSends DEF Ops
<1> QED
    BY <1>1, <1>2, <1>3, <1>4

LEMMA WritingKeeps == ASSUME IInv, writeBlock \/ writeStart \/ erase PROVE IInv'
<1>1. CASE writeBlock
  <2>1. PICK b \in Block, data \in Data :
          Call("writeBlock", b, 0, data, Command(drv, 24, Address(b), "write24"))
        BY <1>1 DEF writeBlock
  <2>2. drv.m_type # "none" /\ b \in Nat /\ data \in Nat /\ Address(b) \in Nat
        BY <1>1, AddressIsNat, Constants DEF writeBlock, In
  <2>3. Sends(24, "write24") /\ Places("writeBlock", "write24") /\ "write24" \in Labels
        BY DEF Sends, Places, Labels
  <2> QED
      BY <2>1, <2>2, <2>3, CallSends DEF Ops
<1>2. CASE writeStart
  <2>1. PICK b \in Block : Call("writeStart", b, 0, 0, Command(drv, 55, 0, "acmd23"))
        BY <1>2 DEF writeStart
  <2>2. drv.m_type # "none" /\ b \in Nat
        BY <1>2, Constants DEF writeStart, In
  <2>3. Sends(55, "acmd23") /\ Places("writeStart", "acmd23") /\ "acmd23" \in Labels
        BY DEF Sends, Places, Labels
  <2> QED
      BY <2>1, <2>2, <2>3, CallSends DEF Ops
<1>3. CASE erase
  <2>1. PICK b \in Block, n \in Block :
          Call("erase", b, n, 0, Command(drv, 9, 0, "register"))
        BY <1>3 DEF erase
  <2>2. drv.m_type # "none" /\ b \in Nat /\ n \in Nat
        BY <1>3, Constants DEF erase, In
  <2>3. Sends(9, "register") /\ Places("erase", "register") /\ "register" \in Labels
        BY DEF Sends, Places, Labels
  <2> QED
      BY <2>1, <2>2, <2>3, CallSends DEF Ops
<1> QED
    BY <1>1, <1>2, <1>3

LEMMA SequenceKeeps == ASSUME IInv, readData \/ writeData \/ writeStop PROVE IInv'
<1>1. CASE readData
      BY <1>1, CallWaits DEF readData, In
<1>2. CASE writeData
      BY <1>2, CallWaits DEF writeData, In
<1>3. CASE writeStop
      BY <1>3, CallWaits DEF writeStop, In
<1> QED
    BY <1>1, <1>2, <1>3

\* The card falls silent, or loses its power.
LEMMA CardLost ==
  ASSUME IInv, UNCHANGED <<drv, call, clock>>, Kept,
         card' = NewCard(card.kind) \/ card' = [NewCard(card.kind) EXCEPT !.dead = TRUE]
  PROVE  IInv'
<1>1. card \in Cards /\ card.kind \in Types
      BY Fields DEF IInv, Typed
<1>2. /\ card' \in Cards /\ card'.kind = card.kind /\ card'.mode = "off" /\ ~card'.busy
      /\ card'.out = <<>>
  <2> DEFINE out == <<>>
             range == <<0, 0>>
             n == [kind |-> card.kind, mode |-> "off", busy |-> FALSE, dead |-> FALSE,
                   out |-> out, at |-> 0, app |-> FALSE, range |-> range, crc |-> FALSE]
             m == [n EXCEPT !.dead = TRUE]
  <2>1. out \in Seq(Nat) /\ range \in Nat \X Nat
        OBVIOUS
  <2>2. card' = n \/ card' = m
        BY DEF NewCard
  <2> HIDE DEF out, range
  <2>3. n \in Cards /\ n.kind = card.kind /\ n.mode = "off" /\ ~n.busy /\ n.out = out
        BY <1>1, <2>1 DEF Cards, Modes
  <2> HIDE DEF n
  <2>4. m \in Cards /\ m.kind = card.kind /\ m.mode = "off" /\ ~m.busy /\ m.out = out
        BY <2>3 DEF Cards
  <2> HIDE DEF m
  <2> QED
      BY <2>2, <2>3, <2>4 DEF out
<1>3. Typed'
      BY <1>2 DEF IInv, Typed
<1>4. Control' /\ Arguments' /\ InSequence'
      BY DEF IInv, Control, Arguments, InSequence, At, Sending, Label, Address
<1>5. Outputs'
      BY <1>2 DEF IInv, Outputs, At, Silent
<1>6. CardFits'
      BY <1>2 DEF CardFits, Begun, Off
<1>7. Refuses'
      BY <1>2 DEF Refuses
<1>8. Begins'
      BY <1>2 DEF IInv, Begins, At, Sending, Label, Silent, Off, TypeFound, OK
<1>9. Answered'
      BY <1>2
         DEF IInv, Answered, At, Sending, Sure, OnTime, Marking, Label, Silent, Off, OK, Erased,
             Kept
<1>10. Transfers'
       BY <1>2 DEF IInv, Transfers, At, OnTime, Silent, Off, Erased, Kept
<1>11. Achieved'
       BY DEF IInv, Achieved, OnTime, Erased, Kept
<1> QED
    BY <1>3, <1>4, <1>5, <1>6, <1>7, <1>8, <1>9, <1>10, <1>11 DEF IInv

\* A step in which nothing happens, and the first state.
LEMMA Stutters == ASSUME IInv, UNCHANGED vars PROVE IInv'
<1>1. UNCHANGED <<drv, call, clock, card, store, job, fate>>
      BY DEF vars
<1> QED
    BY <1>1 DEF IInv, Typed, Control, Arguments, InSequence, Outputs, CardFits, Refuses, Begins,
                Answered, Transfers, Achieved, At, Sending, Label, Silent, Off, OK, OnTime,
                Effect, Mode, EraseRange, Erased, Sure, Marking, Deaf, Target, Address, TypeFound

LEMMA Starting == ASSUME Init PROVE IInv
<1>1. PICK crc \in BOOLEAN : drv = Fresh(crc)
      BY DEF Init
<1>2. /\ drv \in Drivers /\ drv.pc = "none" /\ drv.cs = FALSE /\ drv.m_type = "none"
      /\ drv.sequence = "none" /\ drv.crc = crc /\ drv.to = "none"
      BY <1>1, FreshDriver
<1>3. PICK kind \in Types : card = NewCard(kind)
      BY DEF Init
<1>4. card \in Cards /\ card.mode = "off" /\ ~card.busy /\ card.out = <<>>
  <2> DEFINE out == <<>>
             range == <<0, 0>>
  <2>1. out \in Seq(Nat) /\ range \in Nat \X Nat
        OBVIOUS
  <2>2. card = [kind |-> kind, mode |-> "off", busy |-> FALSE, dead |-> FALSE,
                out |-> out, at |-> 0, app |-> FALSE, range |-> range, crc |-> FALSE]
        BY <1>3 DEF NewCard
  <2> HIDE DEF out, range
  <2>3. card \in Cards /\ card.mode = "off" /\ ~card.busy /\ card.out = out
        BY <2>1, <2>2 DEF Cards, Modes
  <2> QED
      BY <2>3 DEF out
<1>5. call \in Calls /\ call.op = "none" /\ call.returned /\ call.ok = FALSE
      BY DEF Init, NoCall, Calls, Ops
<1>6. Typed
      BY <1>2, <1>4, <1>5, Constants DEF Init, Typed
<1>7. Control /\ Arguments /\ InSequence
      BY <1>2 DEF Control, Arguments, InSequence, At, Sending
<1>8. Outputs /\ Refuses /\ CardFits
  <2>1. Silent /\ Off
        BY <1>4 DEF Silent, Off
  <2>2. Outputs
        BY <1>2, <2>1 DEF Outputs, At
  <2>3. Refuses /\ CardFits
        BY <1>4, <2>1 DEF Refuses, CardFits, Begun
  <2> QED
      BY <2>2, <2>3
<1>9. Begins /\ Answered /\ Transfers /\ Achieved
      BY <1>2, <1>4, <1>5 DEF Begins, Answered, Transfers, Achieved, At, Sending, Label, Off
<1> QED
    BY <1>6, <1>7, <1>8, <1>9 DEF IInv

\* Every step of the driver, of a program and of the card keeps the invariant.
LEMMA NextKeeps == ASSUME IInv, Remembers, [Next]_vars PROVE IInv'
<1>1. CASE Driver
      BY <1>1, PollBusyKeeps, FrameKeeps, ResponseKeeps, Begin0Keeps, Begin59Keeps, Begin8Keeps,
         Begin55Keeps, Begin41Keeps, Begin58Keeps, ReadBlockGoesOnKeeps, ReadStartsKeeps,
         PollTokenKeeps, TransferKeeps, TransferFailsKeeps, ReadStopsKeeps, ReadRegisterKeeps,
         WriteBlockGoesOnKeeps, WriteStartsKeeps, AwaitWritableKeeps, SendDataKeeps,
         DataResponseKeeps, AwaitStopKeeps, SendStopKeeps, AwaitStoppedKeeps, EraseCheckedKeeps,
         EraseGoesOnKeeps, AwaitErasedKeeps
         DEF Driver
<1>2. CASE begin
      BY <1>2, BeginKeeps
<1>3. CASE readBlock \/ readStart \/ readCSD \/ readStop
      BY <1>3, ReadingKeeps
<1>4. CASE writeBlock \/ writeStart \/ erase
      BY <1>4, WritingKeeps
<1>5. CASE readData \/ writeData \/ writeStop
      BY <1>5, SequenceKeeps
<1>6. CASE FallsSilent
      BY <1>6, CardLost, JobKept DEF FallsSilent
<1>7. CASE LosesPower
      BY <1>7, CardLost, JobKept DEF LosesPower
<1>8. CASE UNCHANGED vars
      BY <1>8, Stutters
<1> QED
    BY <1>1, <1>2, <1>3, <1>4, <1>5, <1>6, <1>7, <1>8 DEF Next

\* The card goes on programming as long as it is busy.
LEMMA RemembersStill ==
  ASSUME Remembers, UNCHANGED memory, card.busy => card'.busy
  PROVE  Remembers'
BY DEF Remembers, memory, Programmed

\* It ends, one way or the other.
LEMMA RemembersDone ==
  ASSUME Remembers, JobEnds
  PROVE  Remembers'
<1>1. job' = job /\ Programmed' = Programmed /\ job.data \in Data
      BY DEF JobEnds, Programmed, Remembers
<1>2. CASE UNCHANGED <<store, fate>> /\ (fate # "busy" \/ card'.busy)
      BY <1>1, <1>2 DEF Remembers
<1>3. CASE /\ fate' = "done"
           /\ store' = [b \in Block |-> IF b \in Programmed THEN job.data ELSE store[b]]
  <2>1. store' \in [Block -> Data]
        BY <1>1, <1>3 DEF Remembers
  <2>2. \A b \in Block : b \in Programmed => store'[b] = job.data
        BY <1>3
  <2> QED
      BY <1>1, <1>3, <2>1, <2>2 DEF Remembers
<1>4. CASE /\ fate' = "failed"
           /\ \E spoilt \in [Block -> Data] :
                store' = [b \in Block |-> IF b \in Programmed THEN spoilt[b] ELSE store[b]]
  <2>1. store' \in [Block -> Data]
        BY <1>4 DEF Remembers
  <2> QED
      BY <1>1, <1>4, <2>1 DEF Remembers
<1> QED
    BY <1>2, <1>3, <1>4 DEF JobEnds

\* It begins with a card that is busy.
LEMMA RemembersNew ==
  ASSUME Remembers, NEW from \in Nat, NEW to \in Nat, NEW data \in Data,
         JobBegins(from, to, data), card'.busy
  PROVE  Remembers'
BY DEF Remembers, JobBegins, Job

\* The command for it is that of an erase.
LEMMA FrameRemembers == ASSUME IInv, Remembers, Frame PROVE Remembers'
<1>1. PICK n \in Takes(card, drv.cmd) : card' = n /\ CommandBegins(drv.cmd, n)
      BY DEF Frame
<1>2. /\ card \in Cards /\ drv.cmd \in [c : Nat, arg : Nat] /\ Sends(drv.cmd.c, drv.to)
      /\ card.range \in Nat \X Nat
      BY DriverFields, Fields DEF Frame, IInv, Typed, Control, At, Sending
<1>3. CASE drv.cmd.c = 38 /\ n.busy /\ ~card.busy
  <2> DEFINE from == BlockOf(card, card.range[1])
             to == BlockOf(card, card.range[2])
  <2>1. Unit \in Nat /\ Unit > 0
        BY Constants
  <2>2. \A arg \in Nat : arg \div Unit \in Nat
        BY <2>1
  <2>3. from \in Nat /\ to \in Nat /\ 0 \in Data
        BY <1>2, <2>2, Constants DEF BlockOf
  <2>4. JobBegins(from, to, 0)
        BY <1>1, <1>3 DEF CommandBegins
  <2> HIDE DEF from, to
  <2> QED
      BY <1>1, <1>3, <2>3, <2>4, RemembersNew
<1>4. CASE ~(drv.cmd.c = 38 /\ n.busy /\ ~card.busy)
  <2>1. UNCHANGED memory
        BY <1>1, <1>4 DEF CommandBegins
  <2>2. card.busy => card'.busy
        BY <1>1, Ignored DEF Ignores
  <2> QED
      BY <2>1, <2>2, RemembersStill
<1> QED
    BY <1>3, <1>4

\* A block that is sent to the card is programmed if the card accepts it.
LEMMA SendDataRemembers == ASSUME IInv, Remembers, SendData PROVE Remembers'
<1>1. drv.pc = "send" /\ At("send")
      BY DEF SendData, At
<1>2. CASE UNCHANGED <<card, memory>>
      BY <1>2, RemembersStill
<1>3. CASE Accepts(card) /\ UNCHANGED memory
      BY <1>3, RemembersStill DEF Accepts
<1>4. ASSUME card.at \in Block,
             card' = [Passed(card) EXCEPT !.out = <<DATA_RES_ACCEPTED>>, !.busy = TRUE],
             NEW data \in Data, JobBegins(card.at, card.at, data)
      PROVE  Remembers'
  <2>1. card'.busy
    <3>1. Passed(card) \in Cards
          BY <1>1, AtSend, PassedOn DEF Same
    <3> QED
        BY <1>4, <3>1 DEF Cards
  <2> QED
      BY <1>4, <2>1, RemembersNew, Constants
<1>5. call.data \in Data
      BY <1>1, AtSend
<1> QED
    BY <1>2, <1>3, <1>4, <1>5 DEF SendData

\* A call that begins forgets what has been programmed.
LEMMA CallRemembers ==
  ASSUME Remembers, UNCHANGED <<card, store>>,
         IF fate = "busy" THEN UNCHANGED <<job, fate>> ELSE job' = NoJob /\ fate' = "done"
  PROVE  Remembers'
<1>1. CASE fate = "busy" /\ UNCHANGED <<job, fate>>
      BY <1>1 DEF Remembers, Programmed
<1>2. CASE job' = NoJob /\ fate' = "done"
  <2>1. job' \in [from : Nat, to : Nat, data : Data] /\ job'.from = 1 /\ job'.to = 0
        BY <1>2, Constants DEF NoJob, Job
  <2>2. Programmed' = {}
        BY <2>1 DEF Programmed
  <2> QED
      BY <1>2, <2>1, <2>2 DEF Remembers
<1> QED
    BY <1>1, <1>2

\* The block that has come over the bus leaves the card as busy as it was, and so does the
\* end of a sequence.
LEMMA TransferRemembers == ASSUME IInv, Remembers, Transfer PROVE Remembers'
<1>1. At("transfer") /\ UNCHANGED memory
      BY DEF Transfer
<1>2. card.busy => card'.busy
      BY <1>1, AtTransfer
<1> QED
    BY <1>1, <1>2, RemembersStill

LEMMA SendStopRemembers == ASSUME IInv, Remembers, SendStop PROVE Remembers'
<1>1. card' = Stopped(card) /\ UNCHANGED memory /\ card \in Cards
      BY DEF SendStop, IInv, Typed
<1>2. card.busy => card'.busy
  <2>1. CASE card' = card
        BY <2>1
  <2>2. CASE card' = [Ready(card) EXCEPT !.busy = TRUE]
        BY <1>1, <2>2 DEF Ready, Cards
  <2> QED
      BY <1>1, <2>1, <2>2 DEF Stopped
<1> QED
    BY <1>1, <1>2, RemembersStill

\* What the card has said is forgotten, but not what it programs.
LEMMA Begin8Remembers == ASSUME IInv, Remembers, Begin8 PROVE Remembers'
<1>1. card' = [card EXCEPT !.out = <<>>] /\ UNCHANGED memory /\ card \in Cards
      BY DEF Begin8, IInv, Typed
<1>2. card'.busy = card.busy
      BY <1>1 DEF Cards
<1> QED
    BY <1>1, <1>2, RemembersStill

\* The steps in which the card answers, and those in which it does nothing.
LEMMA AnswerRemembers ==
  ASSUME Remembers,
         PollBusy \/ Response \/ PollToken \/ AwaitWritable \/ DataResponse \/ AwaitStop
           \/ AwaitStopped \/ AwaitErased \/ Begin58 \/ FallsSilent \/ LosesPower
  PROVE  Remembers'
<1>1. JobEnds \/ UNCHANGED <<card, memory>>
      BY DEF PollBusy, Response, PollToken, AwaitWritable, DataResponse, AwaitStop, AwaitStopped,
             AwaitErased, Await, Begin58, Refused, Keep, FallsSilent, LosesPower
<1> QED
    BY <1>1, RemembersDone, RemembersStill

LEMMA KeepRemembers ==
  ASSUME Remembers,
         Begin0 \/ Begin59 \/ Begin55 \/ Begin41 \/ ReadBlockGoesOn \/ ReadStarts
           \/ TransferFails \/ ReadStops \/ ReadRegister \/ WriteBlockGoesOn \/ WriteStarts
           \/ EraseChecked \/ EraseGoesOn \/ UNCHANGED vars
  PROVE  Remembers'
<1>1. UNCHANGED <<card, memory>>
      BY DEF Begin0, Begin59, Begin55, Begin41, ReadBlockGoesOn, ReadStarts, TransferFails,
             ReadStops, ReadRegister, WriteBlockGoesOn, WriteStarts, EraseChecked, EraseGoesOn,
             Refused, Keep, vars, memory
<1> QED
    BY <1>1, RemembersStill

LEMMA NextRemembers == ASSUME IInv, Remembers, [Next]_vars PROVE Remembers'
<1>1. CASE begin \/ readBlock \/ readStart \/ readData \/ readStop \/ readCSD
           \/ writeBlock \/ writeStart \/ writeData \/ writeStop \/ erase
      BY <1>1, CallRemembers
         DEF begin, readBlock, readStart, readData, readStop, readCSD, writeBlock, writeStart,
             writeData, writeStop, erase, Call
<1> QED
    BY <1>1, FrameRemembers, SendDataRemembers, TransferRemembers, SendStopRemembers,
       Begin8Remembers, AnswerRemembers, KeepRemembers DEF Next, Driver

LEMMA Remembered == ASSUME Init PROVE Remembers
<1>1. store \in [Block -> Data] /\ fate = "done"
      BY Constants DEF Init
<1>2. job \in [from : Nat, to : Nat, data : Data] /\ job.from = 1 /\ job.to = 0
      BY Constants DEF Init, NoJob, Job
<1>3. Programmed = {}
      BY <1>2 DEF Programmed
<1> QED
    BY <1>1, <1>2, <1>3 DEF Remembers

\* The invariant holds of every state the driver, its programs and the card can reach.
THEOREM Invariance == Spec => [](IInv /\ Remembers)
<1>1. Init => IInv /\ Remembers
      BY Starting, Remembered
<1>2. (IInv /\ Remembers) /\ [Next]_vars => (IInv /\ Remembers)'
      BY NextKeeps, NextRemembers
<1> QED
    BY <1>1, <1>2, PTL DEF Spec

\* Whatever the card does and whatever a call has met, between calls the bus is free and
\* the driver knows the type of a card that works: CardFits, for every card and timeout.
THEOREM DriverIsFitCorrect == Spec => []DriverIsFit
<1>1. IInv /\ Remembers => TypeOK
  <2> SUFFICES ASSUME IInv, Remembers PROVE TypeOK
      OBVIOUS
  <2>1. drv \in Drivers /\ card \in Cards /\ call \in Calls
        BY DEF IInv, Typed
  <2>2. card.mode \in Modes
        BY <2>1, Fields
  <2>3. call.trouble \subseteq {"late", "garbled"}
        BY <2>1 DEF Calls
  <2> QED
      BY <2>1, <2>2, <2>3, DriverFields
         DEF IInv, Typed, InSequence, TypeOK, Clock, Modes, Remembers
<1>2. IInv => BusReleased
      BY DEF IInv, Control, BusReleased
<1>3. IInv => TypeIsRight
  <2> SUFFICES ASSUME IInv, At("none"), card.mode \notin {"off", "idle"}, drv.m_type # "none"
               PROVE  drv.m_type = card.kind
      BY DEF TypeIsRight
  <2>1. card.mode \in Modes
        BY Fields DEF IInv, Typed
  <2> QED
      BY <2>1 DEF IInv, CardFits, Modes, Begun
<1> QED
    BY <1>1, <1>2, <1>3, Invariance, PTL DEF DriverIsFit

\* A call that returns true has done what it was asked, so far as the driver asks the card:
\* what it has read is in the block, and what it has written or erased the card has taken
\* for just those blocks, and holds unless the programming fails.  Achieved is the part of
\* the invariant that says so, and Answered and Transfers are what makes it inductive.
THEOREM SuccessMeansDoneCorrect == Spec => []SuccessMeansDone
<1>1. IInv /\ Remembers => SuccessMeansDone
  <2> SUFFICES ASSUME IInv, Remembers, call.returned, call.ok,
                      drv.crc \/ "garbled" \notin call.trouble
               PROVE  SuccessMeansDone
      BY DEF SuccessMeansDone
  <2>1. Achieved
        BY DEF IInv
  <2>2. ASSUME NEW from \in Nat, NEW to \in Nat, NEW data, from .. to \subseteq Block,
               job = Job(from, to, data)
        PROVE  Taken(from, to, data)
    <3>1. Programmed = from .. to /\ job.data = data
          BY <2>2 DEF Programmed, Job
    <3> QED
        BY <2>2, <3>1 DEF Taken, Remembers
  <2>3. ASSUME NEW b \in Block, NEW data, job = Job(b, b, data)
        PROVE  Taken(b, b, data)
    <3>1. b \in Nat /\ b .. b \subseteq Block
          BY Constants
    <3> QED
        BY <2>2, <2>3, <3>1
  <2>4. call.op = "erase" => Taken(call.b, call.n, 0) /\ fate # "busy"
    <3>1. call.b \in Nat /\ call.n \in Nat
          BY DEF IInv, Typed, Calls
    <3> QED
        BY <2>1, <2>2, <3>1 DEF Achieved, Erased
  <2>5. /\ call.op = "writeBlock" => Taken(call.b, call.b, call.data)
        /\ call.op = "writeData" /\ OnTime => Taken(drv.next - 1, drv.next - 1, call.data)
        BY <2>1, <2>3 DEF Achieved
  <2> QED
      BY <2>1, <2>4, <2>5 DEF Achieved, SuccessMeansDone
<1> QED
    BY <1>1, Invariance, PTL

\* What is programmed is what a call was asked to write or to erase: of all the steps only
\* Frame, for CMD38, and SendData begin to program, and the card is where they mean; and no
\* block changes but those that are being programmed.
THEOREM OnlyWhatIsWrittenCorrect == Spec => OnlyWhatIsWritten
<1> DEFINE Aimed ==
             fate # "busy" /\ fate' = "busy" =>
               \/ call.op = "writeBlock" /\ Programmed' = call.b .. call.b
               \/ call.op = "writeData" /\ (OnTime => Programmed' = drv.next .. drv.next)
               \/ call.op = "erase" /\ Programmed' = call.b .. call.n
           Only ==
             /\ \A b \in Block : store'[b] # store[b] => b \in Programmed
             /\ Aimed
<1>1. IInv /\ Remembers /\ [Next]_vars => [Only]_vars
  <2> SUFFICES ASSUME IInv, Remembers, Next PROVE Only
      OBVIOUS
  <2>1. CASE JobEnds
        BY <2>1 DEF JobEnds
  <2>2. CASE Frame
    <3>1. PICK n \in Takes(card, drv.cmd) : card' = n /\ CommandBegins(drv.cmd, n)
          BY <2>2 DEF Frame
    <3>2. /\ At("frame") /\ ~At("none") /\ Sending /\ Sends(drv.cmd.c, drv.to)
          /\ Places(call.op, drv.to) /\ drv.cmd \in [c : Nat, arg : Nat] /\ card \in Cards
          BY <2>2, DriverFields DEF Frame, IInv, Typed, Control, At, Sending, Label
    <3>3. CASE ~(drv.cmd.c = 38 /\ n.busy /\ ~card.busy)
      <4>1. UNCHANGED memory
            BY <3>1, <3>3 DEF CommandBegins
      <4> QED
          BY <4>1 DEF memory
    <3>4. CASE drv.cmd.c = 38 /\ n.busy /\ ~card.busy
      <4>1. card.mode = "ready" /\ drv.to = "erase38" /\ call.op = "erase"
        <5>1. ~Ignores(card, drv.cmd)
              BY <3>4, Ignored
        <5>2. TakenAs(card, drv.cmd, n)
              BY <3>1, <3>2, <5>1, TakesGive
        <5> QED
            BY <3>2, <3>4, <5>2 DEF TakenAs, Sends, Places, Beginning
      <4>2. /\ EraseRange(call.n) /\ drv.m_type = card.kind /\ call.b \in Block
            /\ call.n \in Block
            BY <3>2, <3>4, <4>1
               DEF IInv, Answered, Arguments, CardFits, InSequence, At, Off, Begun
      <4>3. card.range[1] = Address(call.b) /\ card.range[2] = Address(call.n)
            BY <4>2 DEF EraseRange
      <4>4. BlockOf(card, Address(call.b)) = call.b /\ BlockOf(card, Address(call.n)) = call.n
            BY <4>2, AddressIsRight
      <4>5. JobBegins(call.b, call.n, 0)
            BY <3>1, <3>4, <4>3, <4>4 DEF CommandBegins
      <4>6. Programmed' = call.b .. call.n /\ store' = store
            BY <4>5 DEF JobBegins, Programmed, Job
      <4> QED
          BY <4>1, <4>6
    <3> QED
        BY <3>3, <3>4
  <2>3. CASE SendData
    <3>1. /\ At("send") /\ drv.pc = "send"
          /\ \/ UNCHANGED memory
             \/ Accepts(card) /\ \E data : JobBegins(card.at, card.at, data)
          BY <2>3 DEF SendData, At
    <3>2. /\ Accepts(card) /\ call.op = "writeBlock" => card.at = call.b
          /\ Accepts(card) /\ call.op = "writeData" /\ OnTime => card.at = drv.next
          /\ call.op \in {"writeBlock", "writeData"}
          BY <3>1, AtSend DEF Accepts, Drives, Off, Mode, Deaf
    <3>3. CASE UNCHANGED memory
          BY <3>3 DEF memory
    <3>4. CASE Accepts(card) /\ \E data : JobBegins(card.at, card.at, data)
      <4>1. Programmed' = card.at .. card.at /\ store' = store
            BY <3>4 DEF JobBegins, Programmed, Job
      <4> QED
          BY <3>2, <3>4, <4>1
    <3> QED
        BY <3>1, <3>3, <3>4
  <2>4. CASE ~Frame /\ ~SendData
    <3>1. \/ JobEnds
          \/ UNCHANGED <<store, fate>>
          \/ UNCHANGED store /\ fate' # "busy"
          BY <2>4
             DEF Next, Driver, PollBusy, Response, Begin0, Begin59, Begin8, Begin55, Begin41,
               Begin58, ReadBlockGoesOn, ReadStarts, PollToken, Transfer, TransferFails, ReadStops,
               ReadRegister, WriteBlockGoesOn, WriteStarts, AwaitWritable, DataResponse, AwaitStop,
               SendStop, AwaitStopped, EraseChecked, EraseGoesOn, AwaitErased, Await, Refused, Keep,
               begin, readBlock, readStart, readData, readStop, readCSD, writeBlock, writeStart,
               writeData, writeStop, erase, Call, FallsSilent, LosesPower, memory
    <3> QED
        BY <2>1, <3>1
  <2> QED
      BY <2>2, <2>3, <2>4
<1> QED
    BY <1>1, Invariance, PTL DEF Spec, OnlyWhatIsWritten
===============================================================================
