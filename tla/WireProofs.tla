------------------------------- MODULE WireProofs -------------------------------
(***************************************************************************)
(* The driver of the wire is fit for the next call, and what it says of a  *)
(* call is true, for messages, answers and buffers of every size.          *)
(*                                                                         *)
(* For the first, IInv counts how many bytes a transaction that the        *)
(* program has given up can still store: twi_init and a new START each     *)
(* acknowledge a byte that was to be the last one.  For the second,        *)
(* BytesInv keeps the two halves of the driver in step: the master's       *)
(* index, the bytes the slave has acknowledged or sent, and the byte of    *)
(* which the two interrupts, which run in any order, have still to learn.  *)
(***************************************************************************)
EXTENDS Wire, SequenceTheorems, TLAPS

Writing == {"w_claim", "w_start", "w_wait"}
Reading == {"r_claim", "r_start", "r_wait"}

\* The driver is READY or does what the program waits for.
StateFits ==
  /\ pc = "idle" => twi_state = "READY"
  /\ pc \in Writing => twi_state \in {"READY", "MTX"}
  /\ pc \in Reading => twi_state \in {"READY", "MRX"}

\* The bytes that may be acknowledged: what was asked for, but two at least, as one
\* event fits between the claim and TWSTA, which acknowledges the next; and one more
\* when the time-out has let the program go on.
Limit ==
  (IF twi_masterBufferLength > 2 THEN twi_masterBufferLength ELSE 2)
    + (IF pc = "idle" THEN 1 ELSE 0)

\* Until the slave has been addressed no byte has been moved but that one.
FirstBytes ==
  /\ pc \in {"w_claim", "r_claim"} => twi_masterBufferIndex = 0 /\ int = "none"
  /\ pc \in {"w_start", "r_start"} =>
       twi_masterBufferIndex <= 1 /\ (int # "none" => twi_masterBufferIndex = 0)
  /\ sta \/ bus = "sla" \/ int \in {"START", "MT_SLA_ACK", "MT_SLA_NACK",
                                    "MR_SLA_ACK", "MR_SLA_NACK"} =>
       twi_masterBufferIndex <= 1

\* A byte that is acknowledged, or on its way to be, leaves room for the one after it.
IndexFits ==
  /\ twi_masterBufferLength = TWI_BUFFER_LENGTH - 1 => quantity = TWI_BUFFER_LENGTH
  /\ bus = "rx" => twi_masterBufferIndex <= IF ack THEN Limit - 1 ELSE Limit
  /\ int = "MR_DATA_ACK" => twi_masterBufferIndex <= Limit - 1
  /\ int = "MR_DATA_NACK" => twi_masterBufferIndex <= Limit
  /\ twi_masterBufferIndex <= Limit + 1

MasterInv == DriverTypeOK /\ BusTypeOK /\ StateFits /\ FirstBytes /\ IndexFits

IInv == MasterInv /\ SlaveTypeOK

\* The sizes, without the messages and the answers.
LEMMA Sizes ==
  /\ TWI_BUFFER_LENGTH \in Nat /\ TWI_BUFFER_LENGTH > 3
  /\ TWI_TOUT \in Nat /\ TWI_TOUT > 1
BY WireAssumption

LEMMA WireStarts == ASSUME Init PROVE IInv
<1>0. DriverTypeOK
      BY Sizes DEF Init, DriverTypeOK
<1>1. BusTypeOK
      BY DEF Init, BusTypeOK
<1>3. StateFits /\ FirstBytes /\ IndexFits
      BY Sizes DEF Init, StateFits, FirstBytes, IndexFits, Limit, Writing, Reading
<1>2. SlaveTypeOK
      BY DEF Init, SlaveTypeOK
<1> QED
    BY <1>0, <1>1, <1>2, <1>3 DEF IInv, MasterInv

\* What the master does leaves the slave as it is until the bus moves.
LEMMA SlaveUnmoved == ASSUME SlaveTypeOK, UNCHANGED slaveVars PROVE SlaveTypeOK'
BY DEF SlaveTypeOK, slaveVars

\* endTransmission and requestFrom set the index back, whatever is still under way.
LEMMA CallKeeps == ASSUME MasterInv, Call PROVE MasterInv'
<1> USE Sizes DEF MasterInv, DriverTypeOK, BusTypeOK, StateFits, FirstBytes, IndexFits, Limit,
        Writing, Reading, Claim, Running, hwVars, SLA_W, SLA_R
<1>1. ASSUME NEW m \in Messages, endTransmission(m) PROVE MasterInv'
  <2>1. Len(m) \in 1 .. TWI_BUFFER_LENGTH - 2
        BY WireAssumption
  <2> QED
      BY <1>1, <2>1 DEF endTransmission
<1>2. ASSUME NEW n \in Quantities, requestFrom(n) PROVE MasterInv'
  <2>1. n \in 1 .. TWI_BUFFER_LENGTH
        BY WireAssumption
  <2> QED
      BY <1>2, <2>1 DEF requestFrom
<1> QED
    BY <1>1, <1>2 DEF Call

\* The program: the START, the polls and the returns.
LEMMA ProgramKeeps == ASSUME MasterInv, Program PROVE MasterInv'
<1> USE Sizes DEF MasterInv, DriverTypeOK, BusTypeOK, StateFits, FirstBytes, IndexFits, Limit,
        Writing, Reading, Running, hwVars, history, KeepDriver
<1>1. CASE SendStart
      BY <1>1 DEF SendStart
<1>2. CASE AwaitWritten
  <2>0. DriverTypeOK'
        BY <1>2 DEF AwaitWritten, twi_tout, twi_init, WriteReturns
  <2>1. BusTypeOK'
        BY <1>2 DEF AwaitWritten, twi_tout, twi_init, WriteReturns
  <2>2. StateFits' /\ FirstBytes'
        BY <1>2 DEF AwaitWritten, twi_tout, twi_init, WriteReturns
  <2>3. IndexFits'
        BY <1>2 DEF AwaitWritten, twi_tout, twi_init, WriteReturns
  <2> QED
      BY <2>0, <2>1, <2>2, <2>3
<1>3. CASE Written
      BY <1>3 DEF Written, WriteReturns
<1>4. CASE AwaitRead
  <2>0. DriverTypeOK'
        BY <1>4 DEF AwaitRead, twi_tout, twi_init, ReadReturns
  <2>1. BusTypeOK'
        BY <1>4 DEF AwaitRead, twi_tout, twi_init, ReadReturns
  <2>2. StateFits' /\ FirstBytes'
        BY <1>4 DEF AwaitRead, twi_tout, twi_init, ReadReturns
  <2>3. IndexFits'
        BY <1>4 DEF AwaitRead, twi_tout, twi_init, ReadReturns
  <2> QED
      BY <2>0, <2>1, <2>2, <2>3
<1>5. CASE ReadDone
      BY <1>5 DEF ReadDone, ReadReturns
<1> QED
    BY <1>1, <1>2, <1>3, <1>4, <1>5 DEF Program

\* The interrupt, event by event.
LEMMA InterruptKeeps == ASSUME MasterInv, Interrupt PROVE MasterInv'
<1> USE Sizes DEF MasterInv, DriverTypeOK, BusTypeOK, StateFits, FirstBytes, IndexFits, Limit,
        Writing, Reading, callVars, history, KeepBuffer
<1>0. isr = "none" /\ UNCHANGED <<callVars, twi_slarw, twi_masterBufferLength>>
      BY DEF Interrupt
<1>1. CASE OnStart
  <2>0. DriverTypeOK'
        BY <1>0, <1>1 DEF OnStart, twi_reply
  <2>1. BusTypeOK'
        BY <1>0, <1>1 DEF OnStart, twi_reply
  <2>2. StateFits' /\ FirstBytes'
        BY <1>0, <1>1 DEF OnStart, twi_reply
  <2>3. IndexFits'
        BY <1>0, <1>1 DEF OnStart, twi_reply
  <2> QED
      BY <2>0, <2>1, <2>2, <2>3
<1>2. CASE OnTransmitted
  <2>0. DriverTypeOK'
        BY <1>0, <1>2 DEF OnTransmitted, twi_reply, twi_stop
  <2>1. BusTypeOK'
        BY <1>0, <1>2 DEF OnTransmitted, twi_reply, twi_stop
  <2>2. StateFits'
        BY <1>0, <1>2 DEF OnTransmitted, twi_reply, twi_stop
  <2>3. FirstBytes'
    <3>1. bus' \in {"tx", "stopping"} /\ int' = "none" /\ sta' = FALSE /\ int # "none"
          BY <1>2 DEF OnTransmitted, twi_reply, twi_stop
    <3>2. twi_masterBufferIndex' \in {twi_masterBufferIndex, twi_masterBufferIndex + 1}
          BY <1>2 DEF OnTransmitted
    <3> QED
        BY <1>0, <3>1, <3>2
  <2>4. IndexFits'
        BY <1>0, <1>2 DEF OnTransmitted, twi_reply, twi_stop
  <2> QED
      BY <2>0, <2>1, <2>2, <2>3, <2>4
<1>3. CASE OnRefused
  <2>0. DriverTypeOK'
        BY <1>0, <1>3 DEF OnRefused, twi_stop
  <2>1. BusTypeOK'
        BY <1>0, <1>3 DEF OnRefused, twi_stop
  <2>2. StateFits' /\ FirstBytes'
        BY <1>0, <1>3 DEF OnRefused, twi_stop
  <2>3. IndexFits'
        BY <1>0, <1>3 DEF OnRefused, twi_stop
  <2> QED
      BY <2>0, <2>1, <2>2, <2>3
<1>4. CASE OnArbitrationLost
      BY <1>0, <1>4 DEF OnArbitrationLost, twi_releaseBus
<1>5. CASE OnReceived
  <2>1. /\ bus' = "rx" /\ int' = "none" /\ sta' = FALSE /\ twi_toutc' = twi_toutc
        /\ twi_state' = twi_state /\ isr' = isr /\ twi_error' = twi_error
        BY <1>5 DEF OnReceived, twi_reply
  <2>a. \/ twi_masterBufferIndex' < twi_masterBufferLength /\ ack' = TRUE
        \/ ~(twi_masterBufferIndex' < twi_masterBufferLength) /\ ack' = FALSE
    <3> DEFINE more == twi_masterBufferIndex' < twi_masterBufferLength
    <3>1. ack' = more
          BY <1>5 DEF OnReceived, twi_reply
    <3>2. more \in BOOLEAN
          OBVIOUS
    <3> HIDE DEF more
    <3>3. (more /\ ack' = TRUE) \/ (~more /\ ack' = FALSE)
          BY <3>1, <3>2
    <3> QED
        BY <3>3 DEF more
  <2>2. \/ int = "MR_DATA_ACK" /\ twi_masterBufferIndex' = twi_masterBufferIndex + 1
        \/ int = "MR_SLA_ACK" /\ twi_masterBufferIndex' = twi_masterBufferIndex
        BY <1>5 DEF OnReceived, Receive
  <2>3. DriverTypeOK'
        BY <1>0, <2>1, <2>2, <2>a
  <2>4. BusTypeOK'
        BY <1>0, <2>1, <2>2, <2>a
  <2>5. StateFits'
        BY <1>0, <2>1, <2>2, <2>a
  <2>6. FirstBytes'
        BY <1>0, <2>1, <2>2, <2>a
  <2>7. IndexFits'
        BY <1>0, <2>1, <2>2, <2>a
  <2> QED
      BY <2>3, <2>4, <2>5, <2>6, <2>7
<1>6. CASE OnLastReceived
  <2>1. /\ bus' = "stopping" /\ int' = "none" /\ sta' = FALSE /\ ack' = TRUE
        /\ twi_toutc' = 0 /\ twi_state' = twi_state /\ isr' = "stop"
        /\ twi_error' = twi_error
        BY <1>6 DEF OnLastReceived, twi_stop
  <2>2. \/ int = "MR_DATA_NACK" /\ twi_masterBufferIndex' = twi_masterBufferIndex + 1
        \/ int = "MR_SLA_NACK" /\ twi_masterBufferIndex' = twi_masterBufferIndex
        BY <1>6 DEF OnLastReceived, Receive
  <2>3. DriverTypeOK'
        BY <1>0, <2>1, <2>2
  <2>4. BusTypeOK'
        BY <1>0, <2>1, <2>2
  <2>5. StateFits'
        BY <1>0, <2>1, <2>2
  <2>6. FirstBytes'
        BY <1>0, <2>1, <2>2
  <2>7. IndexFits'
        BY <1>0, <2>1, <2>2
  <2> QED
      BY <2>3, <2>4, <2>5, <2>6, <2>7
<1> QED
    BY <1>1, <1>2, <1>3, <1>4, <1>5, <1>6 DEF Interrupt

LEMMA StopKeeps == ASSUME MasterInv, StopWaits PROVE MasterInv'
<1> USE Sizes DEF MasterInv, DriverTypeOK, BusTypeOK, StateFits, FirstBytes, IndexFits, Limit,
        Writing, Reading, callVars, StopWaits, twi_tout, twi_init
<1>0. DriverTypeOK'
      OBVIOUS
<1>1. BusTypeOK'
      OBVIOUS
<1>2. StateFits' /\ FirstBytes'
      OBVIOUS
<1>3. IndexFits'
      OBVIOUS
<1> QED
    BY <1>0, <1>1, <1>2, <1>3

\* The slave moves nothing of the master.
LEMMA SlaveKeeps == ASSUME IInv, Slave PROVE IInv'
<1>1. MasterInv'
  <2>1. UNCHANGED <<callVars, driverVars, hwVars>>
        BY DEF Slave, SlaveInterrupt, onReceiveService, SlaveReset
  <2> QED
      BY <2>1 DEF IInv, MasterInv, DriverTypeOK, BusTypeOK, StateFits, FirstBytes, IndexFits,
         Limit,
         callVars, driverVars, hwVars
<1>2. SlaveTypeOK'
  <2> USE DEF IInv, SlaveTypeOK, SlaveStatus, s_reply
  <2>1. CASE OnAddressed
        BY <2>1 DEF OnAddressed
  <2>2. CASE OnByte
        BY <2>2 DEF OnByte
  <2>3. CASE OnByteRefused
        BY <2>3 DEF OnByteRefused
  <2>4. CASE OnStop
        BY <2>4 DEF OnStop
  <2>5. ASSUME NEW reply \in Replies, onRequestService(reply) PROVE SlaveTypeOK'
        BY <2>5 DEF onRequestService
  <2>6. CASE OnByteTaken
        BY <2>6 DEF OnByteTaken
  <2>7. CASE OnAnswered
        BY <2>7 DEF OnAnswered
  <2>8. CASE OnBusError
        BY <2>8 DEF OnBusError
  <2>9. CASE onReceiveService
        BY <2>9 DEF onReceiveService
  <2>10. CASE SlaveReset
        BY <2>10 DEF SlaveReset
  <2> QED
      BY <2>1, <2>2, <2>3, <2>4, <2>5, <2>6, <2>7, <2>8, <2>9, <2>10
      DEF Slave, SlaveInterrupt
<1> QED
    BY <1>1, <1>2 DEF IInv

\* An event of the bus finds the program before TWSTA once at most.
LEMMA BusKeeps == ASSUME IInv, Bus PROVE IInv'
<1> USE Sizes DEF IInv, MasterInv, SlaveTypeOK, DriverTypeOK, BusTypeOK, StateFits, FirstBytes,
        IndexFits, Limit, Writing, Reading, driverVars, SlaveStatus, MasterStatus, Clocked
<1>1. CASE BusStart
      BY <1>1 DEF BusStart, SlaveSees
<1>2. CASE BusAddress
      BY <1>2 DEF BusAddress
<1>3. CASE BusTransmit
      BY <1>3 DEF BusTransmit
<1>4. CASE BusReceive
      BY <1>4 DEF BusReceive
<1>5. CASE BusStop
      BY <1>5 DEF BusStop, SlaveSees
<1>6. CASE Noise
      BY <1>6 DEF Noise
<1> QED
    BY <1>1, <1>2, <1>3, <1>4, <1>5, <1>6 DEF Bus

LEMMA WireSteps == ASSUME IInv, [Next]_vars PROVE IInv'
<1>1. CASE Call \/ Program \/ Interrupt \/ StopWaits
  <2>1. MasterInv'
        BY <1>1, CallKeeps, ProgramKeeps, InterruptKeeps, StopKeeps DEF IInv
  <2>2. UNCHANGED slaveVars
        BY <1>1 DEF Call, endTransmission, requestFrom, Claim, Program, SendStart,
           AwaitWritten, Written, AwaitRead, ReadDone, Interrupt, StopWaits
  <2> QED
      BY <2>1, <2>2, SlaveUnmoved DEF IInv
<1>2. CASE UNCHANGED vars
  <2>1. MasterInv'
        BY <1>2 DEF vars, callVars, driverVars, hwVars, IInv, MasterInv, DriverTypeOK,
           BusTypeOK,
           StateFits, FirstBytes, IndexFits, Limit
  <2> QED
      BY <1>2, <2>1, SlaveUnmoved DEF vars, IInv
<1> QED
    BY <1>1, <1>2, SlaveKeeps, BusKeeps DEF Next

\* The driver is READY for every call, and stores at most one byte behind its buffer,
\* and that only after a request for a full buffer has timed out, however late the
\* slave is and whatever the lines do (twi_readFrom, twi_writeTo, SIGNAL(TWI_vect)).
THEOREM DriverIsFitCorrect == Spec => []DriverIsFit
<1>1. Init => IInv
      BY WireStarts
<1>2. IInv /\ [Next]_vars => IInv'
      BY WireSteps
<1>3. IInv => DriverIsFit
  <2> SUFFICES ASSUME IInv PROVE DriverIsFit
      OBVIOUS
  <2>1. TypeOK /\ DriverIsReady
        BY DEF IInv, MasterInv, TypeOK, StateFits, DriverIsReady
  <2>2. TheBufferHolds
        BY Sizes DEF IInv, MasterInv, DriverTypeOK, BusTypeOK, IndexFits, Limit, TheBufferHolds,
           GivenUpWhenFull
  <2> QED
      BY <2>1, <2>2 DEF DriverIsFit
<1> QED
    BY <1>1, <1>2, <1>3, PTL DEF Spec

-------------------------------------------------------------------------------
(* The bytes arrive: what a call sends or asks for, from the START to its  *)
(* end, on both boards and on the bus between them.                        *)

\* The driver is the call's and nothing has happened on the bus since.
JustClaimed == pc \in {"w_claim", "r_claim"}

\* The call that runs, or was the last, is an endTransmission.
Writes == msg # <<>>

\* The hardware waits for its interrupt, and the interrupt for the STOP it asked for.
HardwareFits ==
  /\ bus = "held" <=> int # "none"
  /\ isr = "stop" => int = "none" /\ ~sta /\ bus \in {"stopping", "free"}
  /\ twi_masterBufferIndex \in Nat

\* The slave has not been addressed in this call: no byte has been moved.
Unaddressed ==
  \/ JustClaimed \/ pc \in {"w_start", "r_start"}
  \/ sta /\ bus = "free"
  \/ int = "START" \/ bus = "sla"

\* Nothing is under way on the slave.
SlaveRests == s_mode = "none" /\ s_int = "none" /\ s_isr = "none"

\* The contents of twi_masterBuffer.
Buffers == [0 .. TWI_BUFFER_LENGTH -> Byte]

\* The call that runs, or was the last: what the driver has been told.
CallFits ==
  /\ pc \in {"idle", "w_claim", "w_start", "w_wait", "r_claim", "r_start", "r_wait"}
  /\ msg \in Messages \cup {<<>>}
  /\ pc \in {"w_claim", "w_start", "w_wait"} => Writes
  /\ pc \in {"r_claim", "r_start", "r_wait"} => ~Writes /\ quantity \in Quantities
       /\ twi_masterBufferLength = quantity - 1
  /\ Writes => twi_masterBufferLength = Len(msg)
  /\ pc # "idle" => twi_slarw = IF Writes THEN SLA_W ELSE SLA_R
  /\ pc # "idle" => twi_state = "READY" \/ (Writes /\ twi_state = "MTX")
       \/ (~Writes /\ twi_state = "MRX")
  /\ pc # "idle" \/ Writes => twi_masterBuffer \in Buffers
  /\ Writes => \A i \in 1 .. Len(msg) : twi_masterBuffer[i - 1] = msg[i]

\* A call makes one START and one address, which says who sends the bytes.
Addressing ==
  /\ JustClaimed => bus = "free" /\ int = "none" /\ isr = "none" /\ twi_state # "READY"
  /\ pc \in {"w_start", "r_start"} => (int = "START" \/ bus = "sla") /\ twi_state # "READY"
  /\ sta => pc # "idle" /\ bus \notin {"tx", "rx", "stopping"}
  /\ sta => twi_state # "READY"
       /\ int \notin {"MT_DATA_ACK", "MT_DATA_NACK", "MR_DATA_ACK", "MR_DATA_NACK"}
  /\ int = "START" => twi_state # "READY" /\ pc # "idle"
  /\ bus = "sla" => twdr = IF Writes THEN SLA_W ELSE SLA_R
  /\ Writes => bus # "rx"
       /\ int \notin {"MR_SLA_ACK", "MR_SLA_NACK", "MR_DATA_ACK", "MR_DATA_NACK"}
       /\ s_mode # "ST" /\ s_int # "ST_SLA_ACK"
  /\ ~Writes => bus # "tx"
       /\ int \notin {"MT_SLA_ACK", "MT_SLA_NACK", "MT_DATA_ACK", "MT_DATA_NACK"}
       /\ s_mode # "SR"
  /\ Unaddressed => SlaveRests /\ twi_masterBufferIndex = 0 /\ heard = <<>> /\ answer = <<>>

\* What the slave has acknowledged is the message up to the index, or up to the byte
\* before it while that one is on its way; and without an error the driver becomes
\* READY only after the whole of it.
HeardFits ==
  /\ heard \in Seq(Byte)
  /\ Len(heard) <= Len(msg)
  /\ \A i \in 1 .. Len(heard) : heard[i] = msg[i]
  /\ bus = "tx" => /\ twi_masterBufferIndex \in 1 .. Len(msg)
                   /\ twdr = msg[twi_masterBufferIndex]
                   /\ Len(heard) = twi_masterBufferIndex - 1
  /\ int \in {"MT_SLA_ACK", "MT_DATA_ACK"} => Len(heard) = twi_masterBufferIndex
  /\ Writes /\ (isr = "stop" \/ (pc = "w_wait" /\ twi_state = "READY")) =>
       bus \in {"free", "stopping"} /\ (twi_error = "none" => Len(heard) = Len(msg))
  /\ pc = "w_wait" /\ twi_state = "READY" => ~sta /\ int = "none"

\* The slave has what it has acknowledged, but for the byte its interrupt will take.
SlaveHears ==
  /\ s_mode = "SR" => s_int \in {"SR_SLA_ACK", "SR_DATA_ACK", "none"}
  /\ s_mode = "SR" /\ s_int = "SR_SLA_ACK" => heard = <<>>
  /\ s_mode = "SR" /\ s_int = "SR_DATA_ACK" =>
       s_rx \in Seq(Byte) /\ s_twdr \in Byte /\ heard = Append(s_rx, s_twdr)
  /\ s_mode = "SR" /\ s_int = "none" => s_rx = heard
  /\ s_int \in {"SR_SLA_ACK", "SR_DATA_ACK"} => s_mode = "SR"
  /\ s_int = "SR_STOP" => s_rx = heard
  /\ s_int \in {"SR_STOP", "SR_DATA_NACK", "ST_DATA_NACK", "ST_LAST_DATA"} => s_mode = "none"
  /\ s_isr = "callback" => s_mode = "none"
  /\ s_isr = "callback" => s_int = "none"

\* The bytes that have come over the bus, the last of which the interrupt has still to
\* store, and what they are.
Moved == twi_masterBufferIndex + IF int \in {"MR_DATA_ACK", "MR_DATA_NACK"} THEN 1 ELSE 0
Got(i) == IF i <= twi_masterBufferIndex THEN twi_masterBuffer[i - 1] ELSE twdr

\* They are the answer's, up to where the slave ended or was reset, and then Pad.
Carried == \E k \in 0 .. Len(answer) :
             \A i \in 1 .. Moved : Got(i) = IF i <= k THEN answer[i] ELSE Pad

\* While requestFrom waits: the slave's index is in step with the master's for as long
\* as it sends, and no byte is acknowledged that there is no room for.
AnswerFits ==
  pc = "r_wait" =>
    /\ answer \in Seq(Byte)
    /\ Carried
    /\ int \in {"MR_SLA_ACK", "MR_SLA_NACK"} => twi_masterBufferIndex = 0
    /\ bus = "rx" => twi_masterBufferIndex <= twi_masterBufferLength
    /\ bus = "rx" /\ ack => twi_masterBufferIndex < twi_masterBufferLength
    /\ int = "MR_DATA_ACK" => twi_masterBufferIndex < twi_masterBufferLength
    /\ int = "MR_DATA_NACK" => twi_masterBufferIndex <= twi_masterBufferLength
    /\ int \in {"MR_DATA_ACK", "MR_DATA_NACK"} => twdr \in Byte
    /\ s_int = "ST_SLA_ACK" => Moved = 0 /\ s_mode = "ST"
    /\ s_mode = "ST" => s_int \in {"ST_SLA_ACK", "ST_DATA_ACK", "none"}
    /\ s_int = "ST_DATA_ACK" => s_mode = "ST"
    /\ s_mode = "ST" /\ s_int # "ST_SLA_ACK" =>
         /\ s_tx = answer /\ Len(answer) <= TWI_BUFFER_LENGTH
         /\ Moved <= Len(answer)
         /\ \A i \in 1 .. Moved : Got(i) = answer[i]
         /\ s_int = "ST_DATA_ACK" => s_txi = Moved /\ s_txi < Len(answer)
         /\ s_int = "none" => /\ s_txi = Moved + 1 /\ s_txi <= Len(answer)
                              /\ s_twdr = answer[s_txi]
                              /\ s_ack = (s_txi < Len(answer))

\* The invariant: of a call that found the bus and the slave at rest, until the next.
TransferFits == CallFits /\ Addressing /\ HeardFits /\ SlaveHears /\ AnswerFits
BytesInv == HardwareFits /\ (clean => TransferFits)

\* What is passed to Wire.write.
LEMMA MessageIs ==
  ASSUME NEW m \in Messages
  PROVE  m \in Seq(Byte) /\ Len(m) \in 1 .. TWI_BUFFER_LENGTH - 2 /\ m # <<>>
<1>1. m \in Seq(Byte) /\ Len(m) \in 1 .. TWI_BUFFER_LENGTH - 2
      BY WireAssumption
<1>2. m # <<>>
  <2>1. SUFFICES ASSUME m = <<>> PROVE FALSE
        OBVIOUS
  <2>2. Len(m) = 0
        BY <2>1
  <2> QED
      BY <1>1, <2>2, Sizes
<1> QED
    BY <1>1, <1>2

LEMMA HardwareStarts == ASSUME Init PROVE HardwareFits
BY DEF Init, HardwareFits

\* The hardware, whether the call found the bus at rest or not.
LEMMA HardwareKeeps == ASSUME HardwareFits, [Next]_vars PROVE HardwareFits'
<1> USE DEF HardwareFits
<1>1. CASE Call
  <2>1. UNCHANGED <<isr, int, sta, bus>> /\ twi_masterBufferIndex' = 0
        BY <1>1 DEF Call, endTransmission, requestFrom, Claim, hwVars
  <2> QED
      BY <2>1
<1>2. CASE Program
  <2>1. UNCHANGED <<isr, int, bus, twi_masterBufferIndex>> /\ isr = "none" /\ int = "none"
        BY <1>2 DEF Program, SendStart, AwaitWritten, Written, AwaitRead, ReadDone, hwVars,
           KeepDriver,
           Running
  <2> QED
      BY <2>1
<1>3. CASE Interrupt
  <2>1. isr = "none"
        BY <1>3 DEF Interrupt
  <2>2. twi_masterBufferIndex' \in {twi_masterBufferIndex, twi_masterBufferIndex + 1}
    <3>1. CASE OnTransmitted
          BY <3>1 DEF OnTransmitted
    <3>2. CASE OnReceived \/ OnLastReceived
          BY <3>2 DEF OnReceived, OnLastReceived, Receive, KeepBuffer
    <3>3. CASE OnStart \/ OnRefused \/ OnArbitrationLost
          BY <3>3 DEF OnStart, OnRefused, OnArbitrationLost, KeepBuffer
    <3> QED
        BY <1>3, <3>1, <3>2, <3>3 DEF Interrupt
  <2>3. bus' # "held" /\ int' = "none" /\ sta' = FALSE
        BY <1>3 DEF Interrupt, OnStart, OnTransmitted, OnRefused, OnArbitrationLost, OnReceived,
                    OnLastReceived, twi_reply, twi_stop, twi_releaseBus
  <2>4. isr' = "stop" => bus' \in {"stopping", "free"}
        BY <1>3 DEF Interrupt, OnStart, OnTransmitted, OnRefused, OnArbitrationLost, OnReceived,
                    OnLastReceived, twi_reply, twi_stop, twi_releaseBus
  <2> QED
      BY <2>2, <2>3, <2>4
<1>4. CASE StopWaits
      BY <1>4 DEF StopWaits, twi_tout, twi_init
<1>5. CASE Bus
  <2>1. UNCHANGED <<isr, sta, twi_masterBufferIndex>>
        BY <1>5 DEF Bus, BusStart, BusAddress, BusTransmit, BusReceive, BusStop, Noise,
           Clocked, driverVars
  <2>2. bus # "held" /\ int = "none"
        BY <1>5 DEF Bus, BusStart, BusAddress, BusTransmit, BusReceive, BusStop, Noise,
           Clocked, driverVars
  <2>3. bus' = "held" <=> int' # "none"
        BY <1>5 DEF Bus, BusStart, BusAddress, BusTransmit, BusReceive, BusStop, Noise,
           Clocked, driverVars
  <2>4. isr = "stop" => bus' \in {"stopping", "free"} /\ int' = "none"
        BY <1>5, <2>2 DEF Bus, BusStart, BusAddress, BusTransmit, BusReceive, BusStop, Noise,
           Clocked, driverVars
  <2> QED
      BY <2>1, <2>2, <2>3, <2>4
<1>6. CASE Slave
  <2>1. UNCHANGED <<bus, int, isr, sta, twi_masterBufferIndex>>
        BY <1>6 DEF Slave, SlaveInterrupt, onReceiveService, SlaveReset, hwVars, driverVars
  <2> QED
      BY <2>1
<1>7. CASE UNCHANGED vars
      BY <1>7 DEF vars, hwVars, driverVars
<1> QED
    BY <1>1, <1>2, <1>3, <1>4, <1>5, <1>6, <1>7 DEF Next


LEMMA TransferStarts == ASSUME Init PROVE TransferFits
<1>1. CallFits
      BY Sizes DEF Init, CallFits, Writes, Buffers, Byte
<1>2. Addressing
      BY DEF Init, Addressing, Unaddressed, JustClaimed, Writes, SlaveRests
<1>3. HeardFits
      BY DEF Init, HeardFits, Writes
<1>4. SlaveHears
      BY DEF Init, SlaveHears
<1>5. AnswerFits
      BY DEF Init, AnswerFits
<1> QED
    BY <1>1, <1>2, <1>3, <1>4, <1>5 DEF TransferFits

\* A call that finds bus and slave at rest.
LEMMA CallTransfers == ASSUME HardwareFits, Call, clean' PROVE TransferFits'
<1>1. /\ AtRest /\ int = "none" /\ isr = "none" /\ twi_masterBufferIndex' = 0
      /\ heard' = <<>> /\ answer' = <<>>
      /\ UNCHANGED <<isr, int, sta, ack, twdr, bus>>
      /\ UNCHANGED <<s_state, s_rx, s_tx, s_txi, s_isr, s_int, s_ack, s_twdr, s_mode>>
      BY DEF Call, endTransmission, requestFrom, Claim, Running, hwVars, slaveVars
<1>2. \/ /\ pc' = "w_claim" /\ msg' \in Messages /\ twi_state' = "MTX" /\ twi_slarw' = SLA_W
         /\ twi_masterBufferLength' = Len(msg')
         /\ twi_masterBuffer' = [i \in 0 .. TWI_BUFFER_LENGTH |->
              IF i < Len(msg') THEN msg'[i + 1] ELSE 0]
      \/ /\ pc' = "r_claim" /\ msg' = <<>> /\ twi_state' = "MRX" /\ twi_slarw' = SLA_R
         /\ quantity' \in Quantities /\ twi_masterBufferLength' = quantity' - 1
         /\ twi_masterBuffer' = [i \in 0 .. TWI_BUFFER_LENGTH |-> 0]
      BY DEF Call, endTransmission, requestFrom
<1>3. CallFits'
  <2>1. CASE pc' = "w_claim"
    <3>1. msg' \in Seq(Byte) /\ Len(msg') \in 1 .. TWI_BUFFER_LENGTH - 2 /\ msg' # <<>>
          BY <1>2, <2>1, MessageIs
    <3>2. \A i \in 1 .. Len(msg') : msg'[i] \in Byte
          BY <3>1
    <3>3. twi_masterBuffer' \in Buffers
      <4>1. \A i \in 0 .. TWI_BUFFER_LENGTH :
              (IF i < Len(msg') THEN msg'[i + 1] ELSE 0) \in Byte
        <5>1. \A i \in 0 .. TWI_BUFFER_LENGTH : i < Len(msg') => i + 1 \in 1 .. Len(msg')
              BY <3>1, Sizes
        <5> QED
            BY <3>2, <5>1 DEF Byte
      <4> QED
          BY <1>2, <2>1, <4>1 DEF Buffers
    <3>4. \A i \in 1 .. Len(msg') : twi_masterBuffer'[i - 1] = msg'[i]
          BY <1>2, <2>1, <3>1, Sizes
    <3> QED
        BY <1>2, <2>1, <3>1, <3>3, <3>4 DEF CallFits, Writes
  <2>2. CASE pc' = "r_claim"
    <3>3. twi_masterBuffer' \in Buffers
          BY <1>2, <2>2, Sizes DEF Buffers, Byte
    <3> QED
        BY <1>2, <2>2, <3>3 DEF CallFits, Writes
  <2> QED
      BY <1>2, <2>1, <2>2
<1>4. Addressing'
      BY <1>1, <1>2 DEF Addressing, JustClaimed, Unaddressed, SlaveRests, Writes, AtRest
<1>5. HeardFits'
  <2>1. Len(msg') \in Nat
        BY <1>2, MessageIs
  <2> QED
      BY <1>1, <1>2, <2>1 DEF HeardFits, Writes, AtRest
<1>6. SlaveHears'
      BY <1>1 DEF SlaveHears, AtRest
<1>7. AnswerFits'
      BY <1>2 DEF AnswerFits
<1> QED
    BY <1>3, <1>4, <1>5, <1>6, <1>7 DEF TransferFits

\* The program: the START, the polls, the returns.
LEMMA ProgramTransfers == ASSUME HardwareFits, TransferFits, Program PROVE TransferFits'
<1> USE DEF TransferFits
<1>1. /\ isr = "none" /\ int = "none" /\ bus # "held" /\ twi_masterBufferIndex \in Nat
      /\ UNCHANGED <<msg, quantity, twi_error, twi_slarw, twi_masterBuffer, twi_masterBufferIndex,
                     twi_masterBufferLength, isr, int, twdr, bus, heard, answer>>
      /\ UNCHANGED <<s_state, s_rx, s_tx, s_txi, s_isr, s_int, s_ack, s_twdr, s_mode>>
      BY DEF Program, SendStart, AwaitWritten, Written, AwaitRead, ReadDone, hwVars, KeepDriver,
         Running, slaveVars, history, HardwareFits
<1>2. \/ /\ pc \in {"w_claim", "w_start"} /\ pc' = "w_wait"
         /\ sta' = TRUE /\ ack' = TRUE /\ twi_state' = twi_state
      \/ /\ pc \in {"r_claim", "r_start"} /\ pc' = "r_wait"
         /\ sta' = TRUE /\ ack' = TRUE /\ twi_state' = twi_state
      \/ pc \in {"w_wait", "r_wait"} /\ UNCHANGED <<pc, sta, ack, twi_state>>
      \/ /\ pc \in {"w_wait", "r_wait"} /\ pc' = "idle" /\ sta' = FALSE /\ ack' = TRUE
         /\ twi_state' = "READY"
      \/ /\ pc = "w_wait" /\ twi_state # "MTX" /\ pc' = "idle"
         /\ UNCHANGED <<sta, ack, twi_state>>
      \/ /\ pc = "r_wait" /\ twi_state # "MRX" /\ pc' = "idle"
         /\ UNCHANGED <<sta, ack, twi_state>>
  <2>1. CASE SendStart
        BY <2>1 DEF SendStart
  <2>2. CASE AwaitWritten
        BY <2>2 DEF AwaitWritten, twi_tout, twi_init, WriteReturns
  <2>3. CASE AwaitRead
        BY <2>3 DEF AwaitRead, twi_tout, twi_init, ReadReturns
  <2>4. CASE Written
        BY <2>4 DEF Written, WriteReturns, hwVars
  <2>5. CASE ReadDone
        BY <2>5 DEF ReadDone, ReadReturns, hwVars
  <2> QED
      BY <2>1, <2>2, <2>3, <2>4, <2>5 DEF Program
<1>3. CallFits'
      BY <1>1, <1>2 DEF CallFits, Writes
<1>4. Addressing'
      BY <1>1, <1>2 DEF Addressing, JustClaimed, Unaddressed, SlaveRests, Writes, CallFits
<1>5. HeardFits'
      BY <1>1, <1>2 DEF HeardFits, Addressing, JustClaimed, Unaddressed, SlaveRests, Writes,
         CallFits
<1>6. SlaveHears'
      BY <1>1 DEF SlaveHears
<1>7. AnswerFits'
  <2>1. CASE pc = "r_wait"
        BY <1>1, <1>2, <2>1 DEF AnswerFits, Carried, Moved, Got, Unaddressed, JustClaimed,
           Addressing
  <2>2. CASE pc # "r_wait" /\ pc' = "r_wait"
    <3>1. Unaddressed /\ SlaveRests /\ twi_masterBufferIndex = 0 /\ answer = <<>> /\ bus # "rx"
          BY <1>1, <1>2, <2>2 DEF Unaddressed, JustClaimed, Addressing
    <3>2. Moved' = 0
          BY <1>1, <3>1 DEF Moved
    <3>3. Carried'
          BY <1>1, <3>1, <3>2 DEF Carried
    <3> QED
        BY <1>1, <1>2, <2>2, <3>1, <3>2, <3>3 DEF AnswerFits, SlaveRests
  <2>3. CASE pc' # "r_wait"
        BY <2>3 DEF AnswerFits
  <2> QED
      BY <2>1, <2>2, <2>3
<1> QED
    BY <1>3, <1>4, <1>5, <1>6, <1>7


\* The interrupt: a byte is sent, stored, or the STOP asked for.
LEMMA InterruptTransfers == ASSUME HardwareFits, TransferFits, Interrupt PROVE TransferFits'
<1> USE DEF TransferFits
<1>1. /\ isr = "none" /\ int # "none" /\ bus = "held" /\ twi_masterBufferIndex \in Nat
      /\ UNCHANGED <<pc, msg, quantity, twi_slarw, twi_masterBufferLength, heard, answer>>
      /\ UNCHANGED <<s_state, s_rx, s_tx, s_txi, s_isr, s_int, s_ack, s_twdr, s_mode>>
      BY DEF Interrupt, OnStart, OnTransmitted, OnRefused, OnArbitrationLost, OnReceived,
         OnLastReceived, callVars, slaveVars, history, HardwareFits
<1>2. SlaveHears'
      BY <1>1 DEF SlaveHears
<1>3. CASE OnStart
  <2>1. /\ int = "START" /\ twdr' = twi_slarw /\ bus' = "sla" /\ int' = "none" /\ sta' = FALSE
        /\ UNCHANGED <<twi_state, isr, twi_masterBuffer, twi_masterBufferIndex, twi_error>>
        BY <1>3 DEF OnStart, twi_reply, KeepBuffer
  <2>2. Unaddressed
        BY <2>1 DEF Unaddressed
  <2>3. CallFits'
        BY <1>1, <2>1 DEF CallFits, Writes
  <2>4. Addressing'
        BY <1>1, <2>1, <2>2 DEF Addressing, JustClaimed, Unaddressed, SlaveRests, Writes,
           CallFits
  <2>5. HeardFits'
        BY <1>1, <2>1 DEF HeardFits, Writes, Addressing
  <2>6. AnswerFits'
        BY <1>1, <2>1, <2>2 DEF AnswerFits, Addressing, SlaveRests, Carried, Moved, Got
  <2> QED
      BY <1>2, <2>3, <2>4, <2>5, <2>6
<1>4. CASE OnTransmitted
  <2>1. /\ Writes /\ ~Unaddressed /\ ~JustClaimed /\ pc \notin {"w_start", "r_start"} /\ pc # "r_wait"
        BY <1>1, <1>4 DEF OnTransmitted, Addressing, Unaddressed, JustClaimed, CallFits
  <2>2. /\ int \in {"MT_SLA_ACK", "MT_DATA_ACK"}
        /\ Len(heard) = twi_masterBufferIndex /\ twi_masterBufferLength = Len(msg)
        /\ Len(msg) \in Nat
        BY <1>4, <2>1, MessageIs DEF OnTransmitted, HeardFits, CallFits, Writes
  <2>3. CASE twi_masterBufferIndex < twi_masterBufferLength
    <3>1. /\ twdr' = twi_masterBuffer[twi_masterBufferIndex]
          /\ twi_masterBufferIndex' = twi_masterBufferIndex + 1
          /\ bus' = "tx" /\ int' = "none" /\ sta' = FALSE
          /\ UNCHANGED <<twi_state, isr, twi_masterBuffer, twi_error>>
          BY <1>4, <2>3 DEF OnTransmitted, twi_reply
    <3>2. twdr' = msg[twi_masterBufferIndex']
      <4>1. twi_masterBufferIndex' \in 1 .. Len(msg)
            BY <1>1, <2>2, <2>3, <3>1
      <4>2. twi_masterBuffer[twi_masterBufferIndex' - 1] = msg[twi_masterBufferIndex']
            BY <4>1, <2>1 DEF CallFits
      <4> QED
          BY <1>1, <3>1, <4>2
    <3>3. CallFits'
          BY <1>1, <3>1 DEF CallFits, Writes
    <3>4. Addressing'
          BY <1>1, <2>1, <3>1 DEF Addressing, JustClaimed, Unaddressed, Writes
    <3>5. HeardFits'
          BY <1>1, <2>1, <2>2, <2>3, <3>1, <3>2 DEF HeardFits, Writes
    <3>6. AnswerFits'
          BY <1>1, <2>1 DEF AnswerFits
    <3> QED
        BY <1>2, <3>3, <3>4, <3>5, <3>6
  <2>4. CASE ~(twi_masterBufferIndex < twi_masterBufferLength)
    <3>1. /\ bus' = "stopping" /\ int' = "none" /\ sta' = FALSE /\ isr' = "stop"
          /\ UNCHANGED <<twi_state, twi_masterBuffer, twi_error, twdr, twi_masterBufferIndex>>
          BY <1>4, <2>2, <2>4 DEF OnTransmitted, twi_stop
    <3>2. Len(heard) = Len(msg)
          BY <1>1, <2>2, <2>4 DEF HeardFits
    <3>3. CallFits'
          BY <1>1, <3>1 DEF CallFits, Writes
    <3>4. Addressing'
          BY <1>1, <2>1, <3>1 DEF Addressing, JustClaimed, Unaddressed, Writes
    <3>5. HeardFits'
          BY <1>1, <2>1, <3>1, <3>2 DEF HeardFits, Writes
    <3>6. AnswerFits'
          BY <1>1, <2>1 DEF AnswerFits
    <3> QED
        BY <1>2, <3>3, <3>4, <3>5, <3>6
  <2> QED
      BY <2>3, <2>4
<1>5. CASE OnRefused \/ OnArbitrationLost
  <2>1. /\ int \notin {"START", "none"}
        /\ twi_error' = int /\ bus' \in {"stopping", "free"} /\ int' = "none" /\ sta' = FALSE
        /\ \/ isr' = "stop" /\ twi_state' = twi_state
           \/ isr' = "none" /\ twi_state' = "READY"
        /\ UNCHANGED <<twdr, twi_masterBuffer, twi_masterBufferIndex>>
        BY <1>1, <1>5 DEF OnRefused, OnArbitrationLost, twi_stop, twi_releaseBus, KeepBuffer
  <2>2. pc \notin {"w_claim", "r_claim", "w_start", "r_start"}
        BY <1>1, <2>1 DEF Addressing, JustClaimed
  <2>3. CallFits'
        BY <1>1, <2>1 DEF CallFits, Writes
  <2>4. Addressing'
        BY <1>1, <2>1, <2>2 DEF Addressing, JustClaimed, Unaddressed, Writes
  <2>5. HeardFits'
        BY <1>1, <2>1, <2>2 DEF HeardFits, Writes
  <2>6. AnswerFits'
    <3>1. SUFFICES ASSUME pc = "r_wait" PROVE AnswerFits'
          BY <1>1 DEF AnswerFits
    <3>2. int \notin {"MR_DATA_ACK", "MR_DATA_NACK", "MR_SLA_ACK", "MR_SLA_NACK"}
          BY <1>1, <1>5 DEF OnRefused, OnArbitrationLost
    <3>3. ~Unaddressed /\ ~Unaddressed'
          BY <1>1, <2>1, <2>2 DEF Unaddressed, JustClaimed
    <3>4. Moved' = Moved /\ \A i : Got(i)' = Got(i)
          BY <1>1, <2>1, <3>2 DEF Moved, Got
    <3>5. Carried'
          BY <1>1, <3>1, <3>4 DEF AnswerFits, Carried
    <3> QED
        BY <1>1, <2>1, <3>1, <3>2, <3>3, <3>4, <3>5 DEF AnswerFits
  <2> QED
      BY <1>2, <2>3, <2>4, <2>5, <2>6
<1>6. CASE OnReceived \/ OnLastReceived
  <2>1. /\ int \in {"MR_SLA_ACK", "MR_SLA_NACK", "MR_DATA_ACK", "MR_DATA_NACK"}
        /\ int' = "none" /\ sta' = FALSE /\ twi_state' = twi_state
        /\ UNCHANGED <<twdr, twi_error>>
        BY <1>6 DEF OnReceived, OnLastReceived, twi_reply, twi_stop
  <2>2. ~Writes /\ pc \notin {"w_claim", "r_claim", "w_start", "r_start", "w_wait"}
        BY <1>1, <2>1 DEF Addressing, JustClaimed, CallFits
  <2>3. \/ /\ int \in {"MR_SLA_ACK", "MR_SLA_NACK"}
           /\ UNCHANGED <<twi_masterBuffer, twi_masterBufferIndex>>
        \/ /\ int \in {"MR_DATA_ACK", "MR_DATA_NACK"} /\ Receive
        BY <1>6 DEF OnReceived, OnLastReceived, KeepBuffer
  <2>4. \/ /\ bus' = "rx" /\ isr' = "none"
           /\ ack' = (twi_masterBufferIndex' < twi_masterBufferLength)
           /\ int \in {"MR_SLA_ACK", "MR_DATA_ACK"}
        \/ /\ bus' = "stopping" /\ isr' = "stop" /\ int \in {"MR_SLA_NACK", "MR_DATA_NACK"}
        BY <1>1, <1>6 DEF OnReceived, OnLastReceived, twi_reply, twi_stop
  <2>5. CallFits'
    <3>1. pc = "r_wait" => twi_masterBuffer' \in Buffers
          BY <1>1, <2>3 DEF CallFits, Receive, AnswerFits, Buffers
    <3> QED
        BY <1>1, <2>1, <2>2, <3>1 DEF CallFits, Writes
  <2>6. Addressing'
        BY <1>1, <2>1, <2>2, <2>4 DEF Addressing, JustClaimed, Unaddressed, Writes
  <2>7. HeardFits'
        BY <1>1, <2>1, <2>2, <2>4 DEF HeardFits, Writes
  <2>8. AnswerFits'
    <3>1. SUFFICES ASSUME pc = "r_wait" PROVE AnswerFits'
          BY <1>1 DEF AnswerFits
    <3>2. ~Unaddressed /\ ~Unaddressed'
          BY <1>1, <2>1, <2>2, <2>4 DEF Unaddressed, JustClaimed
    <3>3. /\ quantity \in 1 .. TWI_BUFFER_LENGTH /\ twi_masterBufferLength = quantity - 1
          /\ twi_masterBuffer \in Buffers /\ twi_masterBufferIndex <= twi_masterBufferLength
          /\ int \in {"MR_SLA_ACK", "MR_DATA_ACK"} =>
               twi_masterBufferIndex' <= twi_masterBufferLength
      <4>1. /\ quantity \in 1 .. TWI_BUFFER_LENGTH /\ twi_masterBufferLength = quantity - 1
            /\ twi_masterBuffer \in Buffers
        <5>1. quantity \in Quantities /\ twi_masterBufferLength = quantity - 1
              /\ twi_masterBuffer \in Buffers
              BY <3>1 DEF CallFits
        <5>2. Quantities \subseteq 1 .. TWI_BUFFER_LENGTH
              BY WireAssumption
        <5> QED
            BY <5>1, <5>2
      <4>2. \/ int \in {"MR_SLA_ACK", "MR_SLA_NACK"} /\ twi_masterBufferIndex = 0
            \/ int = "MR_DATA_ACK" /\ twi_masterBufferIndex < twi_masterBufferLength
            \/ int = "MR_DATA_NACK" /\ twi_masterBufferIndex <= twi_masterBufferLength
            BY <2>1, <3>1 DEF AnswerFits
      <4>3. \/ int \in {"MR_SLA_ACK", "MR_SLA_NACK"}
                 /\ twi_masterBufferIndex' = twi_masterBufferIndex
            \/ int \in {"MR_DATA_ACK", "MR_DATA_NACK"}
                 /\ twi_masterBufferIndex' = twi_masterBufferIndex + 1
            BY <2>3 DEF Receive
      <4> QED
          BY <1>1, <4>1, <4>2, <4>3, Sizes
    <3>4. twi_masterBufferIndex' = Moved /\ Moved' = Moved /\ Moved \in Nat
          BY <1>1, <2>1, <2>3 DEF Moved, Receive
    <3>5. \A i \in 1 .. Moved : Got(i)' = Got(i)
      <4>1. CASE UNCHANGED <<twi_masterBuffer, twi_masterBufferIndex>>
            BY <2>1, <4>1 DEF Got
      <4>2. CASE int \in {"MR_DATA_ACK", "MR_DATA_NACK"} /\ Receive
        <5>1. /\ twi_masterBufferIndex \in 0 .. TWI_BUFFER_LENGTH
              /\ Moved = twi_masterBufferIndex + 1
              BY <1>1, <3>3, <4>2, Sizes DEF Moved
        <5>2. /\ twi_masterBuffer'[twi_masterBufferIndex] = twdr
              /\ \A j \in 0 .. twi_masterBufferIndex - 1 :
                   twi_masterBuffer'[j] = twi_masterBuffer[j]
              BY <3>3, <4>2, <5>1, Sizes DEF Receive, Buffers
        <5> QED
            BY <3>4, <5>1, <5>2 DEF Got
      <4> QED
          BY <2>3, <4>1, <4>2
    <3>6. Carried'
          BY <1>1, <3>1, <3>4, <3>5 DEF AnswerFits, Carried
    <3> QED
        BY <1>1, <2>1, <2>4, <3>1, <3>2, <3>3, <3>4, <3>5, <3>6 DEF AnswerFits
  <2> QED
      BY <1>2, <2>5, <2>6, <2>7, <2>8
<1> QED
    BY <1>3, <1>4, <1>5, <1>6 DEF Interrupt

\* The loop of twi_stop.
LEMMA StopTransfers == ASSUME HardwareFits, TransferFits, StopWaits PROVE TransferFits'
<1> USE DEF TransferFits
<1>1. /\ isr = "stop" /\ int = "none" /\ ~sta /\ bus \in {"stopping", "free"}
      /\ UNCHANGED <<pc, msg, quantity, twi_error, twi_slarw, twi_masterBuffer,
                     twi_masterBufferIndex, twi_masterBufferLength, int, twdr, bus, heard, answer>>
      /\ UNCHANGED <<s_state, s_rx, s_tx, s_txi, s_isr, s_int, s_ack, s_twdr, s_mode>>
      BY DEF StopWaits, HardwareFits, callVars, slaveVars, history
<1>2. \/ UNCHANGED <<isr, twi_state, sta, ack>>
      \/ isr' = "none" /\ twi_state' = "READY" /\ sta' = FALSE
  <2>1. CASE bus = "stopping"
        BY <1>1, <2>1 DEF StopWaits, twi_tout, twi_init
  <2>2. CASE bus # "stopping"
        BY <1>1, <2>2 DEF StopWaits
  <2> QED
      BY <2>1, <2>2
<1>3. pc \notin {"w_claim", "r_claim", "w_start", "r_start"}
      BY <1>1 DEF Addressing, JustClaimed
<1>4. CallFits'
      BY <1>1, <1>2, <1>3 DEF CallFits, Writes
<1>5. Addressing'
      BY <1>1, <1>2, <1>3 DEF Addressing, JustClaimed, Unaddressed, Writes
<1>6. HeardFits'
      BY <1>1, <1>2, <1>3 DEF HeardFits, Writes, CallFits
<1>7. SlaveHears'
      BY <1>1 DEF SlaveHears
<1>8. AnswerFits'
  <2>1. ~Unaddressed'
        BY <1>1, <1>2, <1>3 DEF Unaddressed, JustClaimed
  <2> QED
      BY <1>1, <2>1 DEF AnswerFits, Carried, Moved, Got
<1> QED
    BY <1>4, <1>5, <1>6, <1>7, <1>8


\* The interrupt of the slave, its program and its reset.
LEMMA SlaveTransfers == ASSUME HardwareFits, clean, TransferFits, Slave PROVE TransferFits'
<1> USE DEF TransferFits
<1>1. /\ UNCHANGED <<pc, msg, quantity, twi_error, twi_slarw, twi_masterBuffer, twi_state, isr,
                     twi_masterBufferIndex, twi_masterBufferLength, int, twdr, bus, heard>>
      /\ UNCHANGED <<sta, ack>> /\ twi_masterBufferIndex \in Nat
      BY DEF Slave, SlaveInterrupt, onReceiveService, SlaveReset, callVars, driverVars, hwVars,
         history, HardwareFits
<1>2. CallFits'
      BY <1>1 DEF CallFits, Writes
<1>3. HeardFits'
      BY <1>1 DEF HeardFits, Writes
<1>4. Unaddressed' <=> Unaddressed
      BY <1>1 DEF Unaddressed, JustClaimed
<1>5. Moved' = Moved /\ \A i : Got(i)' = Got(i)
      BY <1>1 DEF Moved, Got
<1>6. CASE SlaveReset \/ onReceiveService
  <2>1. /\ s_rx' = <<>> /\ s_int' = "none" /\ s_isr' = "none" /\ answer' = answer
        /\ s_mode' = "none"
        BY <1>6 DEF SlaveReset, onReceiveService, s_reply, history, SlaveHears
  <2>2. Addressing'
        BY <1>1, <1>4, <2>1 DEF Addressing, JustClaimed, Writes, SlaveRests
  <2>3. SlaveHears'
        BY <2>1 DEF SlaveHears
  <2>4. AnswerFits'
        BY <1>1, <1>5, <2>1 DEF AnswerFits, Carried
  <2> QED
      BY <1>2, <1>3, <2>2, <2>3, <2>4
<1>7. CASE SlaveInterrupt
  <2>1. s_isr = "none" /\ s_int # "none"
        BY <1>7 DEF SlaveInterrupt, OnAddressed, OnByte, OnByteRefused, OnStop,
           onRequestService,
           OnByteTaken, OnAnswered, OnBusError
  <2>2. ~Unaddressed
        BY <2>1 DEF Addressing, SlaveRests
  <2>3. CASE OnAddressed \/ OnByte
    <3>1. /\ s_mode = "SR" /\ s_mode' = "SR" /\ s_int' = "none" /\ s_isr' = s_isr
          /\ answer' = answer
          /\ s_int \in {"SR_SLA_ACK", "SR_DATA_ACK"}
          BY <2>3 DEF OnAddressed, OnByte, s_reply, SlaveHears
    <3>2. s_rx' = heard
      <4>1. CASE OnAddressed
            BY <3>1, <4>1 DEF OnAddressed, SlaveHears
      <4>2. CASE OnByte
        <5>1. /\ s_rx \in Seq(Byte) /\ s_twdr \in Byte /\ heard = Append(s_rx, s_twdr)
              BY <3>1, <4>2 DEF OnByte, SlaveHears
        <5>2. Len(heard) = Len(s_rx) + 1 /\ Len(s_rx) \in Nat
              BY <5>1
        <5>3. Len(msg) <= TWI_BUFFER_LENGTH
              BY Sizes, MessageIs, <3>1 DEF CallFits, Addressing, Writes
        <5>4. Len(msg) \in Nat
              BY Sizes, MessageIs DEF CallFits
        <5>5. Len(s_rx) < TWI_BUFFER_LENGTH
              BY <5>2, <5>3, <5>4, Sizes DEF HeardFits
        <5> QED
            BY <4>2, <5>1, <5>5 DEF OnByte
      <4> QED
          BY <2>3, <4>1, <4>2
    <3>3. Addressing'
          BY <1>1, <1>4, <2>2, <3>1 DEF Addressing, JustClaimed, Writes, SlaveRests
    <3>4. SlaveHears'
          BY <1>1, <2>1, <3>1, <3>2 DEF SlaveHears
    <3>5. AnswerFits'
          BY <1>1, <1>5, <3>1 DEF AnswerFits, Carried
    <3> QED
        BY <1>2, <1>3, <3>3, <3>4, <3>5
  <2>4. CASE OnByteRefused \/ OnStop \/ OnAnswered \/ OnBusError
    <3>1. /\ s_mode' = "none" /\ s_int' = "none" /\ answer' = answer
          BY <2>4 DEF OnByteRefused, OnStop, OnAnswered, OnBusError, s_reply, SlaveHears
    <3>3. Addressing'
          BY <1>1, <1>4, <2>2, <3>1 DEF Addressing, JustClaimed, Writes, SlaveRests
    <3>4. SlaveHears'
          BY <1>1, <2>1, <3>1 DEF SlaveHears
    <3>5. AnswerFits'
          BY <1>1, <1>5, <3>1 DEF AnswerFits, Carried
    <3> QED
        BY <1>2, <1>3, <3>3, <3>4, <3>5
  <2>5. ASSUME NEW reply \in Replies, onRequestService(reply) PROVE TransferFits'
    <3>1. /\ s_int = "ST_SLA_ACK" /\ s_int' = "none" /\ UNCHANGED <<s_isr, s_mode>>
          /\ s_tx' = IF reply = <<>> THEN <<0>> ELSE reply
          /\ s_twdr' = s_tx'[1] /\ s_txi' = 1 /\ s_ack' = (1 < Len(s_tx'))
          BY <2>5 DEF onRequestService, s_reply
    <3>3. Addressing'
          BY <1>1, <1>4, <2>2, <3>1 DEF Addressing, JustClaimed, Writes, SlaveRests
    <3>4. SlaveHears'
          BY <1>1, <2>1, <3>1 DEF SlaveHears
    <3>5. AnswerFits'
      <4>1. SUFFICES ASSUME pc = "r_wait" PROVE AnswerFits'
            BY <1>1 DEF AnswerFits
      <4>2. /\ Moved = 0 /\ Moved' = 0 /\ s_mode = "ST" /\ s_mode' = "ST"
            BY <1>5, <3>1, <4>1 DEF AnswerFits
      <4>3. s_tx' \in Seq(Byte) /\ Len(s_tx') \in 1 .. TWI_BUFFER_LENGTH
        <5>1. CASE reply = <<>>
          <6>1. s_tx' = <<0>> /\ 0 \in Byte
                BY <3>1, <5>1 DEF Byte
          <6> QED
              BY <6>1, Sizes
        <5>2. CASE reply # <<>>
          <6>1. s_tx' = reply /\ reply \in Seq(Byte) /\ Len(reply) <= TWI_BUFFER_LENGTH
                BY <3>1, <5>2, WireAssumption
          <6>2. Len(reply) # 0
                BY <5>2, <6>1, EmptySeq
          <6> QED
              BY <6>1, <6>2, Sizes
        <5> QED
            BY <5>1, <5>2
      <4>4. answer' = s_tx'
            BY <2>5 DEF onRequestService
      <4>5. Carried'
            BY <4>2, <4>3, <4>4 DEF Carried
      <4> HIDE DEF Got, Moved
      <4> QED
          BY <1>1, <1>5, <3>1, <4>1, <4>2, <4>3, <4>4, <4>5, Sizes DEF AnswerFits
    <3> QED
        BY <1>2, <1>3, <3>3, <3>4, <3>5
  <2>6. CASE OnByteTaken
    <3>1. /\ s_int = "ST_DATA_ACK" /\ s_int' = "none"
          /\ UNCHANGED <<s_isr, s_mode, answer, s_tx>>
          BY <2>6 DEF OnByteTaken, s_reply
    <3>3. Addressing'
          BY <1>1, <1>4, <2>2, <3>1 DEF Addressing, JustClaimed, Writes, SlaveRests
    <3>4. SlaveHears'
          BY <1>1, <2>1, <3>1 DEF SlaveHears
    <3>5. AnswerFits'
      <4>1. SUFFICES ASSUME pc = "r_wait" PROVE AnswerFits'
            BY <1>1 DEF AnswerFits
      <4>2. /\ s_mode = "ST" /\ s_tx = answer /\ Len(answer) <= TWI_BUFFER_LENGTH
            /\ answer \in Seq(Byte) /\ Moved <= Len(answer)
            /\ s_txi = Moved /\ s_txi < Len(answer) /\ \A i \in 1 .. Moved : Got(i) = answer[i]
            BY <3>1, <4>1 DEF AnswerFits
      <4>3. Moved \in Nat
            BY <1>1 DEF Moved
      <4>4. /\ s_twdr' = answer[s_txi + 1] /\ s_txi' = s_txi + 1
            /\ s_ack' = (s_txi + 1 < Len(answer))
            BY <2>6, <4>2, <4>3, Sizes DEF OnByteTaken, Least, s_reply
      <4>5. Carried'
            BY <1>5, <3>1, <4>1 DEF AnswerFits, Carried
      <4> QED
          BY <1>1, <1>5, <3>1, <4>1, <4>2, <4>3, <4>4, <4>5 DEF AnswerFits
    <3> QED
        BY <1>2, <1>3, <3>3, <3>4, <3>5
  <2> QED
      BY <1>7, <2>3, <2>4, <2>5, <2>6 DEF SlaveInterrupt
<1> QED
    BY <1>6, <1>7 DEF Slave


\* The bus: what both sides are told of a byte is the same.
LEMMA BusTransfers == ASSUME HardwareFits, clean, TransferFits, Bus PROVE TransferFits'
<1> USE DEF TransferFits
<1>1. /\ UNCHANGED <<msg, quantity, twi_error, twi_slarw, twi_masterBuffer, twi_state, isr,
                     twi_masterBufferIndex, twi_masterBufferLength, sta, ack, answer>>
      /\ UNCHANGED <<s_state, s_rx, s_tx, s_txi, s_isr, s_ack>>
      /\ int = "none" /\ s_int = "none" /\ bus # "held" /\ twi_masterBufferIndex \in Nat
      /\ pc \notin {"w_start", "r_start"}
      /\ pc' = IF pc = "w_claim" THEN "w_start" ELSE IF pc = "r_claim" THEN "r_start" ELSE pc
      BY DEF Bus, BusStart, BusAddress, BusTransmit, BusReceive, BusStop, Noise, Clocked,
         driverVars, HardwareFits
<1>2. bus # "free" => pc \notin {"w_claim", "r_claim"} /\ pc' = pc
      BY <1>1 DEF Addressing, JustClaimed
<1>3. CallFits'
      BY <1>1 DEF CallFits, Writes
<1>4. CASE BusStart
  <2>1. /\ bus = "free" /\ sta /\ bus' = "held" /\ int' = "START" /\ UNCHANGED <<twdr, heard>>
        BY <1>4 DEF BusStart
  <2>2. Unaddressed /\ s_mode' = "none" /\ s_int' = "none"
        BY <1>4, <2>1 DEF Unaddressed, BusStart, SlaveSees, Addressing, SlaveRests
  <2>3. Addressing'
        BY <1>1, <2>1, <2>2 DEF Addressing, JustClaimed, Unaddressed, Writes, SlaveRests
  <2>4. HeardFits'
        BY <1>1, <2>1, <2>2 DEF HeardFits, Writes, Addressing, HardwareFits
  <2>5. SlaveHears'
        BY <1>1, <2>2 DEF SlaveHears
  <2>6. AnswerFits'
        BY <1>1, <2>1, <2>2 DEF AnswerFits, Carried, Moved, Got
  <2> QED
      BY <1>3, <2>3, <2>4, <2>5, <2>6
<1>5. CASE BusAddress
  <2>1. /\ bus = "sla" /\ bus' = "held" /\ UNCHANGED <<twdr, heard>>
        /\ twdr = IF Writes THEN SLA_W ELSE SLA_R
        /\ Unaddressed /\ SlaveRests /\ twi_masterBufferIndex = 0 /\ heard = <<>> /\ answer = <<>>
        BY <1>5 DEF BusAddress, Unaddressed, Addressing
  <2>2. CASE Writes
    <3>1. /\ int' \in {"MT_SLA_ACK", "MT_SLA_NACK"}
          /\ \/ s_mode' = "SR" /\ s_int' = "SR_SLA_ACK"
             \/ s_mode' = "none" /\ s_int' = "none"
          BY <1>5, <2>1, <2>2 DEF BusAddress, SLA_W
    <3>2. Addressing'
          BY <1>1, <1>2, <2>1, <2>2, <3>1 DEF Addressing, JustClaimed, Unaddressed, Writes
    <3>3. HeardFits'
          BY <1>1, <1>2, <2>1, <2>2, <3>1 DEF HeardFits, Writes
    <3>4. SlaveHears'
          BY <1>1, <2>1, <3>1 DEF SlaveHears, SlaveRests
    <3>5. AnswerFits'
          BY <1>1, <1>2, <2>2 DEF AnswerFits, CallFits
    <3> QED
        BY <1>3, <3>2, <3>3, <3>4, <3>5
  <2>3. CASE ~Writes
    <3>1. /\ int' \in {"MR_SLA_ACK", "MR_SLA_NACK"}
          /\ \/ s_mode' = "ST" /\ s_int' = "ST_SLA_ACK"
             \/ s_mode' = "none" /\ s_int' = "none"
          BY <1>5, <2>1, <2>3 DEF BusAddress, SLA_W, SLA_R
    <3>2. Addressing'
          BY <1>1, <1>2, <2>1, <2>3, <3>1 DEF Addressing, JustClaimed, Unaddressed, Writes
    <3>3. HeardFits'
          BY <1>1, <1>2, <2>1, <2>3, <3>1 DEF HeardFits, Writes, CallFits
    <3>4. SlaveHears'
          BY <1>1, <2>1, <3>1 DEF SlaveHears, SlaveRests
    <3>5. AnswerFits'
      <4>1. Moved = 0 /\ Moved' = 0
            BY <1>1, <2>1, <3>1 DEF Moved
      <4>2. Carried'
            BY <1>1, <2>1, <4>1 DEF Carried
      <4> QED
          BY <1>1, <2>1, <3>1, <4>1, <4>2 DEF AnswerFits
    <3> QED
        BY <1>3, <3>2, <3>3, <3>4, <3>5
  <2> QED
      BY <2>2, <2>3
<1>6. CASE BusTransmit
  <2>1. /\ bus = "tx" /\ bus' = "held" /\ twdr' = twdr /\ Writes /\ ~Unaddressed /\ ~sta
        /\ twi_masterBufferIndex \in 1 .. Len(msg) /\ twdr = msg[twi_masterBufferIndex]
        /\ Len(heard) = twi_masterBufferIndex - 1 /\ heard \in Seq(Byte)
        /\ \A i \in 1 .. Len(heard) : heard[i] = msg[i]
        BY <1>1, <1>2, <1>6 DEF BusTransmit, Unaddressed, JustClaimed, Addressing, HeardFits
  <2>2. msg \in Seq(Byte) /\ Len(msg) \in Nat /\ twdr \in Byte
    <3>1. msg \in Seq(Byte)
          BY <2>1, MessageIs DEF CallFits, Writes
    <3> QED
        BY <2>1, <3>1
  <2>3. \/ /\ s_mode = "SR" /\ s_mode' = "SR" /\ s_int' = "SR_DATA_ACK" /\ int' = "MT_DATA_ACK"
           /\ s_twdr' = twdr /\ heard' = Append(heard, twdr)
        \/ /\ s_mode = "SR" /\ s_mode' = "none" /\ s_int' = "SR_DATA_NACK"
           /\ int' = "MT_DATA_NACK" /\ heard' = heard
        \/ /\ s_mode # "SR" /\ s_mode' = s_mode /\ s_int' = "none" /\ s_mode # "ST"
           /\ int' = "MT_DATA_NACK" /\ heard' = heard
        BY <1>1, <1>6, <2>1 DEF BusTransmit, Addressing
  <2>4. Addressing'
        BY <1>1, <1>2, <2>1, <2>3 DEF Addressing, JustClaimed, Unaddressed, Writes
  <2>5. HeardFits'
    <3>1. /\ heard' \in Seq(Byte) /\ Len(heard') <= Len(msg)
          /\ \A i \in 1 .. Len(heard') : heard'[i] = msg[i]
          /\ int' = "MT_DATA_ACK" => Len(heard') = twi_masterBufferIndex
      <4>1. CASE heard' = Append(heard, twdr)
        <5>1. /\ heard' \in Seq(Byte) /\ Len(heard') = Len(heard) + 1
              /\ \A i \in 1 .. Len(heard) : heard'[i] = heard[i]
              /\ heard'[Len(heard) + 1] = twdr
              BY <2>1, <2>2, <4>1, AppendProperties
        <5> QED
            BY <2>1, <2>2, <5>1
      <4>2. CASE heard' = heard /\ int' = "MT_DATA_NACK"
            BY <2>1, <2>2, <4>2
      <4> QED
          BY <2>3, <4>1, <4>2
    <3>2. ~(isr = "stop" \/ (pc = "w_wait" /\ twi_state = "READY"))
          BY <2>1 DEF HeardFits
    <3> QED
        BY <1>1, <1>2, <2>1, <2>3, <3>1, <3>2 DEF HeardFits, Writes
  <2>6. SlaveHears'
        BY <1>1, <2>1, <2>2, <2>3 DEF SlaveHears
  <2>7. AnswerFits'
        BY <1>1, <1>2, <2>1 DEF AnswerFits, CallFits
  <2> QED
      BY <1>3, <2>4, <2>5, <2>6, <2>7
<1>7. CASE BusReceive
  <2>1. /\ bus = "rx" /\ bus' = "held" /\ heard' = heard /\ ~Writes /\ ~Unaddressed /\ ~sta
        /\ s_mode # "SR" /\ int' \in {"MR_DATA_ACK", "MR_DATA_NACK"}
        /\ s_int' \in {"none", "ST_DATA_ACK", "ST_DATA_NACK", "ST_LAST_DATA"}
        /\ s_mode' \in {"ST", "none"} /\ (s_mode' = "ST" <=> s_int' = "ST_DATA_ACK")
        /\ s_int' # "none" => s_mode = "ST"
        /\ int' = "MR_DATA_ACK" => ack
        BY <1>1, <1>2, <1>7 DEF BusReceive, Unaddressed, JustClaimed, Addressing
  <2>2. Addressing'
        BY <1>1, <1>2, <2>1 DEF Addressing, JustClaimed, Unaddressed, Writes
  <2>3. HeardFits'
        BY <1>1, <1>2, <2>1 DEF HeardFits, Writes, CallFits
  <2>4. SlaveHears'
        BY <1>1, <2>1 DEF SlaveHears
  <2>5. AnswerFits'
    <3>1. SUFFICES ASSUME pc = "r_wait" PROVE AnswerFits'
          BY <1>1, <1>2, <2>1 DEF AnswerFits
    <3>2. /\ Moved = twi_masterBufferIndex /\ Moved' = Moved + 1 /\ Moved \in Nat
          /\ \A i \in 1 .. Moved : Got(i)' = Got(i)
          /\ \A i : i = Moved + 1 => Got(i)' = twdr'
          BY <1>1, <2>1 DEF Moved, Got
    <3>3. CASE s_mode = "ST"
      <4>1. /\ s_tx = answer /\ Len(answer) <= TWI_BUFFER_LENGTH /\ answer \in Seq(Byte)
            /\ Len(answer) \in Nat
            /\ \A i \in 1 .. Moved : Got(i) = answer[i]
            /\ s_txi = Moved + 1 /\ s_txi <= Len(answer) /\ s_twdr = answer[s_txi]
            /\ s_ack = (s_txi < Len(answer))
            BY <1>1, <3>1, <3>3 DEF AnswerFits
      <4>2. /\ twdr' = answer[Moved'] /\ twdr' \in Byte /\ Moved' <= Len(answer)
            BY <1>7, <3>2, <3>3, <4>1 DEF BusReceive
      <4>3. \A i \in 1 .. Moved' : Got(i)' = answer[i]
            BY <3>2, <4>1, <4>2
      <4>4. Carried'
            BY <1>1, <3>2, <4>1, <4>2, <4>3 DEF Carried
      <4>5. s_int' = "ST_DATA_ACK" => s_txi < Len(answer)
            BY <1>7, <3>3, <4>1 DEF BusReceive
      <4> QED
          BY <1>1, <2>1, <3>1, <3>2, <4>1, <4>2, <4>3, <4>4, <4>5 DEF AnswerFits
    <3>4. CASE s_mode # "ST"
      <4>1. twdr' = Pad /\ Pad \in Byte /\ s_mode' = "none" /\ s_int' = "none"
            BY <1>7, <2>1, <3>4 DEF BusReceive, Pad, Byte
      <4>2. Carried'
        <5>1. PICK k \in 0 .. Len(answer) :
                \A i \in 1 .. Moved : Got(i) = IF i <= k THEN answer[i] ELSE Pad
              BY <3>1 DEF AnswerFits, Carried
        <5>2. PICK l \in 0 .. Len(answer) : l <= Moved /\ l <= k /\ (l = k \/ l = Moved)
          <6>1. CASE k <= Moved
                BY <6>1
          <6>2. CASE ~(k <= Moved)
                BY <3>2, <5>1, <6>2
          <6> QED
              BY <6>1, <6>2
        <5>3. \A i \in 1 .. Moved' : Got(i)' = IF i <= l THEN answer[i] ELSE Pad
              BY <3>2, <4>1, <5>1, <5>2
        <5> QED
            BY <1>1, <5>2, <5>3 DEF Carried
      <4> QED
          BY <1>1, <2>1, <3>1, <3>2, <4>1, <4>2 DEF AnswerFits
    <3> QED
        BY <3>3, <3>4
  <2> QED
      BY <1>3, <2>2, <2>3, <2>4, <2>5
<1>8. CASE BusStop
  <2>1. /\ bus = "stopping" /\ bus' = "free" /\ UNCHANGED <<int, twdr, heard>> /\ ~sta /\ ~Unaddressed
        BY <1>1, <1>2, <1>8 DEF BusStop, Unaddressed, JustClaimed, Addressing
  <2>2. /\ s_mode' = "none"
        /\ s_int' = IF s_mode = "SR" THEN "SR_STOP"
                     ELSE IF s_mode = "ST" THEN "BUS_ERROR" ELSE "none"
        BY <1>8 DEF BusStop, SlaveSees
  <2>3. Addressing'
        BY <1>1, <1>2, <2>1, <2>2 DEF Addressing, JustClaimed, Unaddressed, Writes
  <2>4. HeardFits'
        BY <1>1, <1>2, <2>1 DEF HeardFits, Writes
  <2>5. SlaveHears'
        BY <1>1, <2>1, <2>2 DEF SlaveHears
  <2>6. AnswerFits'
        BY <1>1, <1>2, <2>1, <2>2 DEF AnswerFits, Carried, Moved, Got
  <2> QED
      BY <1>3, <2>3, <2>4, <2>5, <2>6
<1>9. CASE Noise
  <2>1. /\ bus \in {"sla", "tx", "rx"} /\ bus' = "held" /\ int' \in {"ARB_LOST", "BUS_ERROR"}
        /\ UNCHANGED <<twdr, heard, s_int, s_twdr, s_mode>> /\ pc' = pc
        /\ pc \notin {"w_claim", "r_claim", "w_start", "r_start"}
        BY <1>1, <1>2, <1>9 DEF Noise
  <2>2. ~Unaddressed'
        BY <2>1 DEF Unaddressed, JustClaimed
  <2>3. Addressing'
        BY <1>1, <2>1, <2>2 DEF Addressing, JustClaimed, Writes
  <2>4. HeardFits'
        BY <1>1, <2>1 DEF HeardFits, Writes, Addressing, HardwareFits, CallFits
  <2>5. SlaveHears'
        BY <1>1, <2>1 DEF SlaveHears
  <2>6. AnswerFits'
    <3>1. Moved' = Moved /\ \A i : Got(i)' = Got(i)
          BY <1>1, <2>1 DEF Moved, Got
    <3>2. pc = "r_wait" => Carried'
          BY <1>1, <3>1 DEF AnswerFits, Carried
    <3> QED
        BY <1>1, <2>1, <3>1, <3>2 DEF AnswerFits
  <2> QED
      BY <1>3, <2>3, <2>4, <2>5, <2>6
<1> QED
    BY <1>4, <1>5, <1>6, <1>7, <1>8, <1>9 DEF Bus


\* Every step keeps the invariant; a call that finds the bus busy has nothing to keep.
LEMMA BytesStep == ASSUME BytesInv, [Next]_vars PROVE BytesInv'
<1>1. HardwareFits'
      BY HardwareKeeps DEF BytesInv
<1>2. ASSUME clean' PROVE TransferFits'
  <2>1. CASE Call
        BY <1>2, <2>1, CallTransfers DEF BytesInv
  <2>2. CASE Program \/ Interrupt \/ StopWaits \/ Bus \/ Slave
    <3>1. clean' = clean
      <4>1. CASE Program
            BY <4>1 DEF Program, SendStart, AwaitWritten, Written, AwaitRead, ReadDone, history
      <4>2. CASE Interrupt \/ StopWaits
            BY <4>2 DEF Interrupt, StopWaits, history
      <4>3. CASE Bus
            BY <4>3 DEF Bus, BusStart, BusAddress, BusTransmit, BusReceive, BusStop, Noise,
               Clocked
      <4>4. CASE Slave
            BY <4>4 DEF Slave, SlaveInterrupt, onReceiveService, SlaveReset, history
      <4> QED
          BY <2>2, <4>1, <4>2, <4>3, <4>4
    <3> QED
        BY <1>2, <2>2, <3>1, ProgramTransfers, InterruptTransfers, StopTransfers, BusTransfers,
           SlaveTransfers DEF BytesInv
  <2>3. CASE UNCHANGED vars
    <3>1. clean /\ TransferFits
          BY <1>2, <2>3 DEF BytesInv, vars, history
    <3>2. /\ UNCHANGED callVars /\ UNCHANGED driverVars /\ UNCHANGED hwVars
          /\ UNCHANGED slaveVars /\ UNCHANGED history
          BY <2>3 DEF vars
    <3>3. CallFits'
          BY <3>1, <3>2 DEF TransferFits, CallFits, Writes, callVars, driverVars
    <3>4. Unaddressed' <=> Unaddressed
          BY <3>2 DEF Unaddressed, JustClaimed, callVars, hwVars
    <3>5. Addressing'
          BY <3>1, <3>2, <3>4 DEF TransferFits, Addressing, JustClaimed, SlaveRests, Writes,
             callVars,
             driverVars, hwVars, slaveVars, history
    <3>6. HeardFits'
          BY <3>1, <3>2 DEF TransferFits, HeardFits, Writes, callVars, driverVars, hwVars,
             history
    <3>7. SlaveHears'
          BY <3>1, <3>2 DEF TransferFits, SlaveHears, slaveVars, history
    <3>8. AnswerFits'
          BY <3>1, <3>2 DEF TransferFits, AnswerFits, Carried, Moved, Got, callVars,
             driverVars, hwVars,
             slaveVars, history
    <3> QED
        BY <3>3, <3>5, <3>6, <3>7, <3>8 DEF TransferFits
  <2> QED
      BY <2>1, <2>2, <2>3 DEF Next
<1> QED
    BY <1>1, <1>2 DEF BytesInv

\* The inductive invariant of the bytes on their way (twi_writeTo, twi_readFrom,
\* SIGNAL(TWI_vect) of both boards).
THEOREM BytesAreRight == Spec => []BytesInv
<1>1. Init => BytesInv
      BY HardwareStarts, TransferStarts DEF BytesInv
<1>2. BytesInv /\ [Next]_vars => BytesInv'
      BY BytesStep
<1> QED
    BY <1>1, <1>2, PTL DEF Spec

\* endTransmission returns 0 only when the slave has acknowledged every byte of the
\* message in order, for any messages, answers and buffer, with resets of the slave,
\* disturbances and time-outs at any moment.
THEOREM SuccessMeansHeardCorrect == Spec => SuccessMeansHeard
<1>1. BytesInv /\ [Next]_vars =>
        [pc = "w_wait" /\ pc' = "idle" /\ ret' = 0 /\ clean => heard = msg /\ bus # "tx"]_vars
  <2>1. SUFFICES ASSUME BytesInv, Next, pc = "w_wait", pc' = "idle", ret' = 0, clean
                 PROVE  heard = msg /\ bus # "tx"
        OBVIOUS
  <2>2. CallFits /\ HeardFits
        BY <2>1 DEF BytesInv, TransferFits
  <2>3. Writes /\ (twi_state \in {"READY", "MTX"})
        BY <2>1, <2>2 DEF CallFits
  <2>4. CASE Written
    <3>1. twi_state = "READY" /\ twi_error = "none"
          BY <2>1, <2>3, <2>4 DEF Written, WriteReturns
    <3>2. Len(heard) = Len(msg) /\ bus # "tx"
          BY <2>1, <2>2, <2>3, <3>1 DEF HeardFits
    <3>3. msg \in Seq(Byte) /\ heard \in Seq(Byte) /\ \A i \in 1 .. Len(heard) : heard[i] = msg[i]
          BY <2>2, <2>3, MessageIs DEF CallFits, Writes, HeardFits
    <3> QED
        BY <3>2, <3>3, SeqEqual
  <2>5. CASE ~Written
    <3>1. ret' # 0 \/ pc' # "idle"
          BY <2>1, <2>5 DEF Next, Call, endTransmission, requestFrom, Program, SendStart,
             AwaitWritten,
             AwaitRead, ReadDone, twi_tout, WriteReturns, Interrupt, StopWaits, Bus, BusStart,
             BusAddress, BusTransmit, BusReceive, BusStop, Noise, Clocked, Slave,
             SlaveInterrupt,
             onReceiveService, SlaveReset, callVars
    <3> QED
        BY <2>1, <3>1
  <2> QED
      BY <2>4, <2>5
<1> QED
    BY <1>1, BytesAreRight, PTL DEF Spec, SuccessMeansHeard

\* requestFrom delivers the slave's answer from its first byte on, and nothing else but
\* the level of an idle bus, a full buffer included.
THEOREM ReadIsTheAnswerCorrect == Spec => ReadIsTheAnswer
<1>1. BytesInv /\ [Next]_vars =>
        [pc = "r_wait" /\ pc' = "idle" /\ clean
           => \E k \in 0 .. Len(answer) :
                \A i \in 1 .. Len(data') :
                  data'[i] = IF i <= k THEN answer[i] ELSE Pad]_vars
  <2>1. SUFFICES ASSUME BytesInv, Next, pc = "r_wait", pc' = "idle", clean
                 PROVE  \E k \in 0 .. Len(answer) :
                          \A i \in 1 .. Len(data') :
                            data'[i] = IF i <= k THEN answer[i] ELSE Pad
        OBVIOUS
  <2>2. AnswerFits /\ CallFits /\ twi_masterBufferIndex \in Nat
        BY <2>1 DEF BytesInv, TransferFits, HardwareFits
  <2>3. ReadReturns
        BY <2>1 DEF Next, Call, endTransmission, requestFrom, Claim, Program, SendStart,
           AwaitWritten, Written, AwaitRead, ReadDone, twi_tout, Interrupt, StopWaits, Bus,
           BusStart,
           BusAddress, BusTransmit, BusReceive, BusStop, Noise, Clocked, Slave, SlaveInterrupt,
           onReceiveService, SlaveReset, callVars
  <2> DEFINE n == Least(twi_masterBufferIndex, quantity)
  <2>4. n \in Nat /\ n <= twi_masterBufferIndex
    <3>1. quantity \in Quantities
          BY <2>1, <2>2 DEF CallFits
    <3>2. Quantities \subseteq 1 .. TWI_BUFFER_LENGTH
          BY WireAssumption
    <3>3. quantity \in Nat
          BY <3>1, <3>2, Sizes
    <3> QED
        BY <2>2, <3>3 DEF Least
  <2> HIDE DEF n
  <2>5. Len(data') = n /\ \A i \in 1 .. n : data'[i] = twi_masterBuffer[i - 1]
        BY <2>3, <2>4 DEF ReadReturns, n
  <2>6. PICK k \in 0 .. Len(answer) :
          \A i \in 1 .. Moved : Got(i) = IF i <= k THEN answer[i] ELSE Pad
        BY <2>1, <2>2 DEF AnswerFits, Carried
  <2>7. \A i \in 1 .. n : i \in 1 .. Moved /\ Got(i) = data'[i]
        BY <2>2, <2>4, <2>5 DEF Moved, Got
  <2> QED
      BY <2>5, <2>6, <2>7
<1> QED
    BY <1>1, BytesAreRight, PTL DEF Spec, ReadIsTheAnswer

\* The slave's program is called with the bytes that the slave has acknowledged, even
\* when the master has given the call up (onReceiveService).
THEOREM MessageIsWholeCorrect == Spec => MessageIsWhole
<1>1. BytesInv /\ [Next]_vars =>
        [s_isr = "none" /\ s_isr' = "callback" /\ clean => s_rx' = heard]_vars
  <2>1. SUFFICES ASSUME BytesInv, Next, s_isr = "none", s_isr' = "callback", clean
                 PROVE  s_rx' = heard
        OBVIOUS
  <2>2. SlaveHears
        BY <2>1 DEF BytesInv, TransferFits
  <2>3. OnStop
        BY <2>1 DEF Next, Call, endTransmission, requestFrom, Claim, Program, SendStart,
           AwaitWritten, Written, AwaitRead, ReadDone, twi_tout, Interrupt, StopWaits, Bus,
           BusStart,
           BusAddress, BusTransmit, BusReceive, BusStop, Noise, Clocked, Slave, SlaveInterrupt,
           onReceiveService, SlaveReset, slaveVars, OnAddressed, OnByte, OnByteRefused,
           onRequestService, OnByteTaken, OnAnswered, OnBusError
  <2> QED
      BY <2>2, <2>3 DEF OnStop, SlaveHears
<1> QED
    BY <1>1, BytesAreRight, PTL DEF Spec, MessageIsWhole
===============================================================================
