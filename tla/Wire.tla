--------------------------------- MODULE Wire ---------------------------------
(***************************************************************************)
(* The two wire bus: TwoWire (WSWire.cpp) and the driver under it (twi.c), *)
(* on the board, which is the master, and on the Ethernet board, which is  *)
(* a slave and runs the same driver.  Between the two driver halves is the *)
(* TWI hardware, which works on its own: it moves a byte, says in TW_STATUS*)
(* what happened and holds the clock until the interrupt is handled.       *)
(*                                                                         *)
(* The master's program waits for the driver in a loop, which gives up     *)
(* after TWI_TOUT polls and then calls twi_init; the hardware goes on with *)
(* what it was doing.  pc is the place in endTransmission ("w_...") or     *)
(* requestFrom ("r_..."): "wait" is that loop, "claim" is before it, when  *)
(* the call owns the driver and has not asked for a START yet, and "start" *)
(* is the same place after an event of the bus: that stretch of code is    *)
(* much shorter than a byte, so that one event fits in it, two do not.     *)
(* twi_masterBuffer has one byte more than in the code, the one behind its *)
(* end, which is taken to be none of the driver's variables.               *)
(***************************************************************************)
EXTENDS Integers, Sequences

CONSTANTS
  Messages,            \* what the program passes to Wire.write
  Quantities,          \* what it asks requestFrom for
  Replies,             \* what the slave's program answers; <<>> is no answer
  TWI_BUFFER_LENGTH,   \* also BUFFER_LENGTH of Wire
  TWI_TOUT             \* polls after which twi_tout gives up (100000)

Pad  == 255            \* what a bus nobody drives reads as
Byte == 0 .. 255
SLA_W == 4             \* the address byte of slave 2
SLA_R == 5

ASSUME WireAssumption ==
  /\ TWI_BUFFER_LENGTH \in Nat /\ TWI_BUFFER_LENGTH > 3
  /\ TWI_TOUT \in Nat /\ TWI_TOUT > 1
  /\ Messages \subseteq Seq(Byte)
  /\ \A m \in Messages : Len(m) \in 1 .. TWI_BUFFER_LENGTH - 2
  /\ Quantities \subseteq 1 .. TWI_BUFFER_LENGTH
  /\ Replies \subseteq Seq(Byte)
  /\ \A r \in Replies : Len(r) <= TWI_BUFFER_LENGTH

VARIABLES
  pc,
  msg,          \* the message of an endTransmission, or <<>>
  quantity,     \* what a requestFrom asks for, or 0
  ret,          \* what the last endTransmission returned, -1 before
  data,         \* what the last requestFrom left in rxBuffer
  twi_state, twi_error, twi_slarw, twi_toutc,
  twi_masterBuffer, twi_masterBufferIndex, twi_masterBufferLength,
  isr,          \* "stop": the interrupt waits in twi_stop
  int,          \* TW_STATUS while TWINT is set, or "none"
  sta, ack,     \* TWSTA and TWEA of TWCR
  twdr,
  bus,          \* what the bus does for the master: "free", "held" by it,
                \* "sla", "tx", "rx" (a byte is on its way), "stopping"
  s_state,      \* the slave's twi_state
  s_rx,         \* its twi_rxBuffer up to twi_rxBufferIndex
  s_tx, s_txi,  \* its twi_txBuffer up to its length, and the index
  s_isr,        \* "callback": it is in twi_onSlaveReceive
  s_int, s_ack, s_twdr,
  s_mode,       \* how its hardware is addressed: "none", "SR", "ST"
  clean,        \* history: the call found bus and slave at rest
  heard,        \* history: bytes the slave acknowledged since then
  answer        \* history: the answer the slave has begun to send since then

callVars   == <<pc, msg, quantity, ret, data>>
driverVars == <<twi_state, twi_error, twi_slarw, twi_toutc, twi_masterBuffer,
                twi_masterBufferIndex, twi_masterBufferLength, isr>>
hwVars     == <<int, sta, ack, twdr, bus>>
slaveVars  == <<s_state, s_rx, s_tx, s_txi, s_isr, s_int, s_ack, s_twdr,
                s_mode>>
history    == <<clean, heard, answer>>
vars       == <<callVars, driverVars, hwVars, slaveVars, history>>

MasterStatus == {"START", "MT_SLA_ACK", "MT_SLA_NACK", "MT_DATA_ACK",
                 "MT_DATA_NACK", "MR_SLA_ACK", "MR_SLA_NACK", "MR_DATA_ACK",
                 "MR_DATA_NACK", "ARB_LOST", "BUS_ERROR"}
SlaveStatus  == {"SR_SLA_ACK", "SR_DATA_ACK", "SR_DATA_NACK", "SR_STOP",
                 "ST_SLA_ACK", "ST_DATA_ACK", "ST_DATA_NACK", "ST_LAST_DATA",
                 "BUS_ERROR"}

\* Types of the control state: of the master's program and driver, of its hardware, and
\* of the slave.
DriverTypeOK ==
  /\ pc \in {"idle", "w_claim", "w_start", "w_wait",
             "r_claim", "r_start", "r_wait"}
  /\ ret \in {-1, 0, 2, 3, 4, 6}
  /\ twi_state \in {"READY", "MTX", "MRX"}
  /\ twi_error \in MasterStatus \cup {"none"}
  /\ twi_slarw \in {SLA_W, SLA_R}
  /\ twi_toutc \in 0 .. TWI_TOUT - 1
  /\ twi_masterBufferIndex \in Nat
  /\ twi_masterBufferLength \in 0 .. TWI_BUFFER_LENGTH - 1

BusTypeOK ==
  /\ isr \in {"none", "stop"}
  /\ int \in MasterStatus \cup {"none"}
  /\ sta \in BOOLEAN /\ ack \in BOOLEAN
  /\ bus \in {"free", "held", "sla", "tx", "rx", "stopping"}

SlaveTypeOK ==
  /\ s_state \in {"READY", "SRX", "STX"}
  /\ s_isr \in {"none", "callback"}
  /\ s_int \in SlaveStatus \cup {"none"}
  /\ s_ack \in BOOLEAN
  /\ s_mode \in {"none", "SR", "ST"}

TypeOK == DriverTypeOK /\ BusTypeOK /\ SlaveTypeOK

\* Wire.begin() and Wire.begin(2): twi_init on both boards.
Init ==
  /\ pc = "idle" /\ msg = <<>> /\ quantity = 0 /\ ret = -1 /\ data = <<>>
  /\ twi_state = "READY" /\ twi_error = "none" /\ twi_slarw = SLA_W
  /\ twi_toutc = 0 /\ twi_masterBuffer = [i \in 0 .. TWI_BUFFER_LENGTH |-> 0]
  /\ twi_masterBufferIndex = 0 /\ twi_masterBufferLength = 0
  /\ isr = "none" /\ int = "none" /\ sta = FALSE /\ ack = TRUE /\ twdr = 0
  /\ bus = "free"
  /\ s_state = "READY" /\ s_rx = <<>> /\ s_tx = <<>> /\ s_txi = 0
  /\ s_isr = "none" /\ s_int = "none" /\ s_ack = TRUE /\ s_twdr = 0
  /\ s_mode = "none"
  /\ clean = TRUE /\ heard = <<>> /\ answer = <<>>

-------------------------------------------------------------------------------
(* The master's program: endTransmission, requestFrom and the loops of     *)
(* twi_writeTo and twi_readFrom.  An interrupt that is pending goes first. *)

Running == isr = "none" /\ int = "none"

\* Mutant: twi_init does not set the state.
twi_initKeepsState == sta' = FALSE /\ ack' = TRUE /\ UNCHANGED twi_state

\* TWCR without TWSTA: what was asked for and has not begun is forgotten.
twi_init == twi_state' = "READY" /\ sta' = FALSE /\ ack' = TRUE

\* Mutant: the library of the platform, which waits for ever.
NoTimeOut(Gone, Stays) == Stays /\ UNCHANGED <<twi_toutc, twi_state, sta, ack>>

\* twi_tout(0): one more poll, and the last one starts the driver again.
twi_tout(Gone, Stays) ==
  \/ /\ twi_toutc + 1 < TWI_TOUT
     /\ twi_toutc' = twi_toutc + 1
     /\ Stays
     /\ UNCHANGED <<twi_state, sta, ack>>
  \/ /\ twi_toutc + 1 >= TWI_TOUT
     /\ twi_toutc' = 0
     /\ twi_init
     /\ Gone

Least(a, b) == IF a <= b THEN a ELSE b

KeepDriver == UNCHANGED <<twi_error, twi_slarw, twi_masterBuffer,
                          twi_masterBufferIndex, twi_masterBufferLength, isr>>

AtRest == /\ bus = "free" /\ s_mode = "none" /\ s_int = "none"
          /\ s_isr = "none"

(* The first loop of both calls: it waits for a driver that is READY, and  *)
(* finds it so (DriverIsReady), because a call only returns when it is.    *)
Claim ==
  /\ pc = "idle" /\ Running /\ twi_state = "READY"
  /\ twi_error' = "none" /\ twi_masterBufferIndex' = 0 /\ twi_toutc' = 0
  /\ clean' = AtRest /\ heard' = <<>> /\ answer' = <<>>
  /\ ret' = -1 /\ data' = <<>>
  /\ UNCHANGED <<isr, hwVars, slaveVars>>

\* beginTransmission, the write of each byte and endTransmission.  0 stands for
\* the bytes an earlier call left in a buffer, here and below.
endTransmission(m) ==
  /\ Claim
  /\ twi_state' = "MTX" /\ pc' = "w_claim" /\ msg' = m
  /\ quantity' = 0
  /\ twi_slarw' = SLA_W /\ twi_masterBufferLength' = Len(m)
  /\ twi_masterBuffer' = [i \in 0 .. TWI_BUFFER_LENGTH |->
        IF i < Len(m) THEN m[i + 1] ELSE 0]

\* The last byte that is to come is refused, so that the slave stops: the
\* length is one less than asked for.
requestFrom(n) ==
  /\ Claim
  /\ twi_state' = "MRX" /\ pc' = "r_claim" /\ quantity' = n
  /\ msg' = <<>>
  /\ twi_slarw' = SLA_R /\ twi_masterBufferLength' = n - 1
  /\ twi_masterBuffer' = [i \in 0 .. TWI_BUFFER_LENGTH |-> 0]

\* TWCR with TWSTA, and the second loop begins.
SendStart ==
  /\ pc \in {"w_claim", "w_start", "r_claim", "r_start"} /\ Running
  /\ pc' = IF pc \in {"w_claim", "w_start"} THEN "w_wait" ELSE "r_wait"
  /\ sta' = TRUE /\ ack' = TRUE /\ twi_toutc' = 0
  /\ UNCHANGED <<msg, quantity, ret, data, twi_state, int, twdr, bus, slaveVars, history>>
  /\ KeepDriver

\* The bytes that have arrived, but no more than were asked for.
ReadReturns ==
  /\ pc' = "idle" /\ UNCHANGED ret
  /\ data' = [i \in 1 .. Least(twi_masterBufferIndex, quantity) |->
                twi_masterBuffer[i - 1]]

WriteReturns(code) == pc' = "idle" /\ ret' = code /\ UNCHANGED data

AwaitWritten ==
  /\ pc = "w_wait" /\ Running
  /\ twi_state = "MTX"
  /\ twi_tout(WriteReturns(6), UNCHANGED <<pc, ret, data>>)
  /\ UNCHANGED <<msg, quantity, int, twdr, bus, slaveVars, history>>
  /\ KeepDriver

Written ==
  /\ pc = "w_wait" /\ Running
  /\ twi_state # "MTX"
  /\ WriteReturns(IF twi_error = "none" THEN 0
                  ELSE IF twi_error = "MT_SLA_NACK" THEN 2
                  ELSE IF twi_error = "MT_DATA_NACK" THEN 3 ELSE 4)
  /\ UNCHANGED <<msg, quantity, twi_state, twi_toutc, hwVars, slaveVars, history>>
  /\ KeepDriver

AwaitRead ==
  /\ pc = "r_wait" /\ Running
  /\ twi_state = "MRX"
  /\ twi_tout(ReadReturns, UNCHANGED <<pc, ret, data>>)
  /\ UNCHANGED <<msg, quantity, int, twdr, bus, slaveVars, history>>
  /\ KeepDriver

ReadDone ==
  /\ pc = "r_wait" /\ Running
  /\ twi_state # "MRX"
  /\ ReadReturns
  /\ UNCHANGED <<msg, quantity, twi_state, twi_toutc, hwVars, slaveVars, history>>
  /\ KeepDriver

-------------------------------------------------------------------------------
(* The master's half of SIGNAL(TWI_vect).                                  *)

\* The interrupt hands the bus on and returns.
twi_reply(doing, yes) ==
  /\ bus' = doing /\ ack' = yes /\ int' = "none" /\ sta' = FALSE
  /\ UNCHANGED <<twi_state, twi_toutc, isr>>

\* TWCR with TWSTO, and the interrupt waits for the STOP.
twi_stop ==
  /\ bus' = IF int = "BUS_ERROR" THEN "free" ELSE "stopping"
  /\ int' = "none" /\ sta' = FALSE /\ ack' = TRUE
  /\ isr' = "stop" /\ twi_toutc' = 0
  /\ UNCHANGED twi_state

twi_releaseBus ==
  /\ bus' = "free" /\ int' = "none" /\ sta' = FALSE /\ ack' = TRUE
  /\ twi_state' = "READY"
  /\ UNCHANGED <<twi_toutc, isr>>

Receive ==
  /\ twi_masterBuffer' = [twi_masterBuffer EXCEPT ![twi_masterBufferIndex] = twdr]
  /\ twi_masterBufferIndex' = twi_masterBufferIndex + 1

KeepBuffer == UNCHANGED <<twi_masterBuffer, twi_masterBufferIndex>>

OnStart ==
  /\ int = "START"
  /\ twdr' = twi_slarw
  /\ twi_reply("sla", TRUE)
  /\ KeepBuffer /\ UNCHANGED twi_error

OnTransmitted ==
  /\ int \in {"MT_SLA_ACK", "MT_DATA_ACK"}
  /\ IF twi_masterBufferIndex < twi_masterBufferLength
       THEN /\ twdr' = twi_masterBuffer[twi_masterBufferIndex]
            /\ twi_masterBufferIndex' = twi_masterBufferIndex + 1
            /\ twi_reply("tx", TRUE)
       ELSE /\ twi_stop
            /\ UNCHANGED <<twdr, twi_masterBufferIndex>>
  /\ UNCHANGED <<twi_masterBuffer, twi_error>>

\* Mutant: a refused byte is not recorded.
RefusedUnnoticed ==
  /\ int \in {"MT_SLA_NACK", "MT_DATA_NACK", "BUS_ERROR"}
  /\ twi_stop
  /\ KeepBuffer /\ UNCHANGED <<twdr, twi_error>>

OnRefused ==
  /\ int \in {"MT_SLA_NACK", "MT_DATA_NACK", "BUS_ERROR"}
  /\ twi_error' = int
  /\ twi_stop
  /\ KeepBuffer /\ UNCHANGED twdr

OnArbitrationLost ==
  /\ int = "ARB_LOST"
  /\ twi_error' = int
  /\ twi_releaseBus
  /\ KeepBuffer /\ UNCHANGED twdr

OnReceived ==
  /\ int \in {"MR_SLA_ACK", "MR_DATA_ACK"}
  /\ IF int = "MR_DATA_ACK" THEN Receive ELSE KeepBuffer
  /\ twi_reply("rx", twi_masterBufferIndex' < twi_masterBufferLength)
  /\ UNCHANGED <<twi_error, twdr>>

OnLastReceived ==
  /\ int \in {"MR_SLA_NACK", "MR_DATA_NACK"}
  /\ IF int = "MR_DATA_NACK" THEN Receive ELSE KeepBuffer
  /\ twi_stop
  /\ UNCHANGED <<twi_error, twdr>>

Interrupt ==
  /\ isr = "none"
  /\ \/ OnStart \/ OnTransmitted \/ OnRefused \/ OnArbitrationLost
     \/ OnReceived \/ OnLastReceived
  /\ UNCHANGED <<callVars, twi_slarw, twi_masterBufferLength, slaveVars, history>>

\* The loop of twi_stop, in the interrupt: it ends when the hardware has
\* cleared TWSTO, or by the time-out.
StopWaits ==
  /\ isr = "stop"
  /\ \/ /\ bus = "stopping"
        /\ twi_tout(isr' = "none", UNCHANGED isr)
     \/ /\ bus # "stopping"
        /\ isr' = "none" /\ twi_state' = "READY"
        /\ UNCHANGED <<twi_toutc, sta, ack>>
  /\ UNCHANGED <<callVars, twi_error, twi_slarw, twi_masterBuffer,
                 twi_masterBufferIndex, twi_masterBufferLength,
                 int, twdr, bus, slaveVars, history>>

-------------------------------------------------------------------------------
(* The slave's half of SIGNAL(TWI_vect), and the services of Wire it calls.*)

s_reply(yes) == s_int' = "none" /\ s_ack' = yes

\* Addressed to receive: the buffer is free again.
OnAddressed ==
  /\ s_int = "SR_SLA_ACK"
  /\ s_state' = "SRX" /\ s_rx' = <<>>
  /\ s_reply(TRUE)
  /\ UNCHANGED <<s_tx, s_txi, s_isr, s_twdr, s_mode, answer>>

\* A byte has come; the one that no longer fits has been acknowledged too.
OnByte ==
  /\ s_int = "SR_DATA_ACK"
  /\ IF Len(s_rx) < TWI_BUFFER_LENGTH
       THEN s_rx' = Append(s_rx, s_twdr) /\ s_reply(TRUE)
       ELSE UNCHANGED s_rx /\ s_reply(FALSE)
  /\ UNCHANGED <<s_state, s_tx, s_txi, s_isr, s_twdr, s_mode, answer>>

\* A byte was refused: the slave does not answer to its address from now on.
OnByteRefused ==
  /\ s_int = "SR_DATA_NACK"
  /\ s_reply(FALSE)
  /\ UNCHANGED <<s_state, s_rx, s_tx, s_txi, s_isr, s_twdr, s_mode, answer>>

\* Mutant: the buffer is emptied before the program is called.
OnStopEmptied ==
  /\ s_int = "SR_STOP"
  /\ s_mode' = "none" /\ s_state' = "READY" /\ s_isr' = "callback"
  /\ s_reply(TRUE) /\ s_rx' = <<>>
  /\ UNCHANGED <<s_tx, s_txi, s_twdr, answer>>

\* The message is over: twi_stop, which leaves the hardware ready for the next
\* transaction, and the program is called in the interrupt.
OnStop ==
  /\ s_int = "SR_STOP"
  /\ s_mode' = "none" /\ s_state' = "READY" /\ s_isr' = "callback"
  /\ s_reply(TRUE)
  /\ UNCHANGED <<s_rx, s_tx, s_txi, s_twdr, answer>>

\* Mutant: the index is not moved past the first byte.
FirstByteTwice(reply) ==
  /\ s_int = "ST_SLA_ACK"
  /\ s_state' = "STX"
  /\ s_tx' = IF reply = <<>> THEN <<0>> ELSE reply
  /\ answer' = IF clean THEN s_tx' ELSE answer
  /\ s_twdr' = s_tx'[1] /\ s_txi' = 0
  /\ s_reply(1 < Len(s_tx'))
  /\ UNCHANGED <<s_rx, s_isr, s_mode>>

\* onRequestService: the program answers, or not, and the first byte is ready.
onRequestService(reply) ==
  /\ s_int = "ST_SLA_ACK"
  /\ s_state' = "STX"
  /\ s_tx' = IF reply = <<>> THEN <<0>> ELSE reply
  /\ answer' = IF clean THEN s_tx' ELSE answer
  /\ s_twdr' = s_tx'[1] /\ s_txi' = 1
  /\ s_reply(1 < Len(s_tx'))
  /\ UNCHANGED <<s_rx, s_isr, s_mode>>

\* The next byte; beyond the reply, whatever the buffer held.
OnByteTaken ==
  /\ s_int = "ST_DATA_ACK"
  /\ s_twdr' = IF s_txi < Len(s_tx) THEN s_tx[s_txi + 1] ELSE 0
  /\ s_txi' = Least(s_txi + 1, TWI_BUFFER_LENGTH)
  /\ s_reply(s_txi + 1 < Len(s_tx))
  /\ UNCHANGED <<s_state, s_rx, s_tx, s_isr, s_mode, answer>>

OnAnswered ==
  /\ s_int \in {"ST_DATA_NACK", "ST_LAST_DATA"}
  /\ s_state' = "READY" /\ s_tx' = <<>> /\ s_txi' = 0 /\ s_twdr' = 0
  /\ s_reply(TRUE)
  /\ UNCHANGED <<s_rx, s_isr, s_mode, answer>>

OnBusError ==
  /\ s_int = "BUS_ERROR"
  /\ s_state' = "READY" /\ s_mode' = "none"
  /\ s_tx' = <<>> /\ s_txi' = 0 /\ s_twdr' = 0
  /\ s_reply(TRUE)
  /\ UNCHANGED <<s_rx, s_isr, answer>>

SlaveInterrupt ==
  /\ s_isr = "none"
  /\ \/ OnAddressed \/ OnByte \/ OnByteRefused \/ OnStop
     \/ \E reply \in Replies : onRequestService(reply)
     \/ OnByteTaken \/ OnAnswered \/ OnBusError
  /\ UNCHANGED <<callVars, driverVars, hwVars, clean, heard>>

\* onReceiveService returns from the program's callback (it drops the message
\* while the program has not read the one before, which nobody can tell), and
\* then twi_releaseBus clears TWINT: what the hardware reported meanwhile is
\* never handled.
onReceiveService ==
  /\ s_isr = "callback"
  /\ s_rx' = <<>> /\ s_twdr' = 0
  /\ s_isr' = "none" /\ s_state' = "READY"
  /\ s_reply(TRUE)
  /\ UNCHANGED <<callVars, driverVars, hwVars, history, s_tx, s_txi, s_mode>>

\* The Ethernet board starts again.
SlaveReset ==
  /\ s_state' = "READY" /\ s_rx' = <<>> /\ s_tx' = <<>> /\ s_txi' = 0
  /\ s_isr' = "none" /\ s_int' = "none" /\ s_ack' = TRUE /\ s_twdr' = 0
  /\ s_mode' = "none"
  /\ UNCHANGED <<callVars, driverVars, hwVars, history>>

-------------------------------------------------------------------------------
(* The TWI hardware of both boards.                                        *)

\* Nobody holds the clock, and the event is the first in the stretch between
\* the claim and TWSTA.
Clocked ==
  /\ int = "none" /\ s_int = "none"
  /\ pc \notin {"w_start", "r_start"}
  /\ pc' = IF pc = "w_claim" THEN "w_start" ELSE IF pc = "r_claim" THEN "r_start" ELSE pc
  /\ UNCHANGED <<msg, quantity, ret, data, driverVars, sta, ack, s_state, s_rx, s_tx,
                 s_txi, s_isr, s_ack, clean, answer>>

\* What a START, or a STOP, says to a slave that is still addressed.
SlaveSees ==
  /\ s_int' = IF s_mode = "SR" THEN "SR_STOP" ELSE IF s_mode = "ST" THEN "BUS_ERROR" ELSE "none"
  /\ s_mode' = "none"
  /\ UNCHANGED s_twdr

BusStart ==
  /\ bus = "free" /\ sta
  /\ Clocked /\ SlaveSees
  /\ int' = "START" /\ bus' = "held"
  /\ UNCHANGED <<twdr, heard>>

BusAddress ==
  /\ bus = "sla"
  /\ Clocked
  /\ bus' = "held"
  /\ s_mode' = IF ~s_ack THEN "none" ELSE IF twdr = SLA_W THEN "SR" ELSE "ST"
  /\ s_int' = IF ~s_ack THEN "none" ELSE IF twdr = SLA_W THEN "SR_SLA_ACK" ELSE "ST_SLA_ACK"
  /\ int' = IF twdr = SLA_W THEN IF s_ack THEN "MT_SLA_ACK" ELSE "MT_SLA_NACK"
            ELSE IF s_ack THEN "MR_SLA_ACK" ELSE "MR_SLA_NACK"
  /\ UNCHANGED <<twdr, s_twdr, heard>>

BusTransmit ==
  /\ bus = "tx"
  /\ Clocked
  /\ bus' = "held"
  /\ IF s_mode = "SR"
       THEN /\ s_twdr' = twdr
            /\ s_int' = IF s_ack THEN "SR_DATA_ACK" ELSE "SR_DATA_NACK"
            /\ s_mode' = IF s_ack THEN "SR" ELSE "none"
       ELSE UNCHANGED <<s_twdr, s_int, s_mode>>
  /\ int' = IF s_int' = "SR_DATA_ACK" THEN "MT_DATA_ACK" ELSE "MT_DATA_NACK"
  /\ heard' = IF clean /\ s_int' = "SR_DATA_ACK" THEN Append(heard, twdr) ELSE heard
  /\ UNCHANGED twdr

BusReceive ==
  /\ bus = "rx"
  /\ Clocked
  /\ bus' = "held"
  /\ twdr' = IF s_mode = "ST" THEN s_twdr ELSE Pad
  /\ s_int' = IF s_mode # "ST" THEN "none"
              ELSE IF ~ack THEN "ST_DATA_NACK"
              ELSE IF s_ack THEN "ST_DATA_ACK" ELSE "ST_LAST_DATA"
  /\ s_mode' = IF s_int' = "ST_DATA_ACK" THEN "ST" ELSE "none"
  /\ int' = IF ack THEN "MR_DATA_ACK" ELSE "MR_DATA_NACK"
  /\ UNCHANGED <<s_twdr, heard>>

BusStop ==
  /\ bus = "stopping"
  /\ Clocked /\ SlaveSees
  /\ bus' = "free"
  /\ UNCHANGED <<int, twdr, heard>>

\* A disturbance of the lines, which the hardware takes for another master or
\* for a START or STOP where none may be.
Noise ==
  /\ bus \in {"sla", "tx", "rx"}
  /\ Clocked
  /\ bus' = "held" /\ int' \in {"ARB_LOST", "BUS_ERROR"}
  /\ UNCHANGED <<twdr, heard, s_int, s_twdr, s_mode>>

-------------------------------------------------------------------------------
Call ==
  \/ \E m \in Messages : endTransmission(m)
  \/ \E n \in Quantities : requestFrom(n)

Program == SendStart \/ AwaitWritten \/ Written \/ AwaitRead \/ ReadDone

Bus == \/ BusStart \/ BusAddress \/ BusTransmit \/ BusReceive \/ BusStop
       \/ Noise

Slave == SlaveInterrupt \/ onReceiveService \/ SlaveReset

Next == Call \/ Program \/ Interrupt \/ StopWaits \/ Bus \/ Slave

(* The master's processor keeps running; the slave, and the hardware, need *)
(* not go on at all.                                                       *)
Spec == Init /\ [][Next]_vars /\ WF_vars(Program \/ Interrupt \/ StopWaits)

-------------------------------------------------------------------------------
(* No call finds the driver busy with an earlier one, so that the loop     *)
(* that waits for it, and return code 5, are never needed: a call returns  *)
(* only when the interrupt, or the time-out, has made it READY.            *)
DriverIsReady == pc = "idle" => twi_state = "READY"

(* endTransmission returns 0 only if the slave has acknowledged the bytes  *)
(* of the message, in their order and nothing else, when the call found    *)
(* the bus at rest.                                                        *)
SuccessMeansHeard ==
  [][pc = "w_wait" /\ pc' = "idle" /\ ret' = 0 /\ clean
        => heard = msg /\ bus # "tx"]_vars

(* What requestFrom delivers is what the slave's program answered to this  *)
(* request, from the first byte on, and then the level of an idle bus if   *)
(* more was asked for or the slave was reset, when the call found bus and  *)
(* slave at rest.                                                          *)
ReadIsTheAnswer ==
  [][pc = "r_wait" /\ pc' = "idle" /\ clean
        => \E k \in 0 .. Len(answer) :
             \A i \in 1 .. Len(data') :
               data'[i] = IF i <= k THEN answer[i] ELSE Pad]_vars

(* The slave's program is called with exactly the bytes the slave has      *)
(* acknowledged, when the call found bus and slave at rest.                *)
MessageIsWhole ==
  [][s_isr = "none" /\ s_isr' = "callback" /\ clean => s_rx' = heard]_vars

(* What a request stores when the time-out has given it up: the program    *)
(* has asked for a full buffer, has gone on, and twi_init has acknowledged *)
(* the byte that was to be the last, so that one more comes.               *)
GivenUpWhenFull == pc = "idle" /\ quantity = TWI_BUFFER_LENGTH

(* The driver stores within its buffer (the index is where the next byte   *)
(* would go), except for one byte behind the end after a request for a     *)
(* full buffer that was given up.  The length is checked when the call     *)
(* begins, but old transactions may still be moving bytes.                 *)
TheBufferHolds ==
  twi_masterBufferIndex <= TWI_BUFFER_LENGTH + (IF GivenUpWhenFull THEN 1 ELSE 0)

(* The driver is fit for the next call, after answers, refusals, time-outs *)
(* and transactions that go on when the program has given them up.         *)
DriverIsFit == TypeOK /\ DriverIsReady /\ TheBufferHolds

(* Every call returns, whatever the slave and the bus do: the driver with  *)
(* time-outs is why this library replaces the one of the platform.         *)
CallsReturn == pc # "idle" ~> pc = "idle"
===============================================================================
