---------------------------- MODULE ContactTransfer ----------------------------
(***************************************************************************)
(* The contact list on its way from the slave: loadAndValidateContacts     *)
(* (ContactManagementFunctions.cpp) with slaveGetContacts and              *)
(* slaveGetContactsCheckSum (SlaveCommunicationFunctions.cpp).             *)
(*                                                                         *)
(* The Mega asks for the file in replies of Chunk bytes until it has seen  *)
(* FileSize bytes, cuts what it receives into contacts, one per line, and  *)
(* compares a checksum.  A byte of the file is NL, High (one of 0x80 and   *)
(* more, negative in the Mega's char) or Chr (any other); PAD are the      *)
(* zeros the slave sends past the end of the file.  digest holds the bytes *)
(* that went into the checksum and ends[k] the place in digest where       *)
(* contact k ends, so that numContacts is Len(ends).                       *)
(***************************************************************************)
EXTENDS Integers, Sequences

CONSTANTS
  NL, Chr, High, PAD,
  Chunk,                \* bytes of an I2C reply (32 in the code)
  LineMax,              \* length of lineBuffer (64)
  CONTACTS_MAX_NUMBER,
  Files,                \* what the contacts file of the slave may hold
  Checksum(_),          \* CRC32; taken to tell the contents apart
  MaxRequests           \* replies the watchdog gives the transfer time for

FileSize == CONTACTS_MAX_NUMBER * LineMax
Data     == {NL, Chr}            \* the bytes with c > 0
Byte     == Data \cup {High}

\* A reply may make total step over FileSize by less than Chunk.
UpToASize(S) == UNION {[1 .. n -> S] : n \in 0 .. FileSize + Chunk}
Contents     == UpToASize(Byte)
Hashed       == UpToASize(Data)  \* what the Mega may have hashed

ASSUME TransferAssumption ==
  /\ NL \notin {Chr, High, PAD} /\ Chr \notin {High, PAD} /\ High # PAD
  /\ Chunk \in Nat \ {0} /\ LineMax \in Nat \ {0}
  /\ CONTACTS_MAX_NUMBER \in Nat /\ MaxRequests \in Nat
  /\ Files \subseteq Contents

\* crc starts and ends complemented: nothing received gives 0.
ASSUME ChecksumAssumption ==
  /\ Checksum(<<>>) = 0
  /\ \A s \in Hashed, t \in Files : Checksum(s) = Checksum(t) => s = t

VARIABLES
  pc,        \* "idle", "receive" (the do-while loop) or "validate"
  arriving,  \* bytes of the last reply not yet read
  total,     \* totalBytes
  requests,  \* replies asked for since the watchdog was fed
  digest,
  ends,
  file,      \* the slave's file
  pos,       \* bytes of it the slave has sent
  settled    \* from now on the wire works and the file is left alone

megaVars == <<pc, arriving, total, requests, digest, ends>>
vars     == <<megaVars, file, pos, settled>>

numContacts == Len(ends)

TypeOK ==
  /\ pc \in {"idle", "receive", "validate"}
  /\ arriving \in Seq(Byte \cup {PAD})
  /\ total \in Nat
  /\ requests \in 0 .. MaxRequests
  /\ digest \in Seq(Data)
  /\ ends \in Seq(Nat)
  /\ file \in Files
  /\ pos \in 0 .. FileSize + Chunk
  /\ settled \in BOOLEAN

Init ==
  /\ pc = "idle" /\ arriving = <<>> /\ total = 0 /\ requests = 0
  /\ digest = <<>> /\ ends = <<>>
  /\ file \in Files /\ pos = 0 /\ settled = FALSE

-------------------------------------------------------------------------------
Min2(a, b) == IF a < b THEN a ELSE b

(* slaveGetContacts up to its loop.  loop() asks for a list when it has    *)
(* none or the slave says that the file has changed.  A request that is    *)
(* lost leaves the slave where it was in the file.                         *)
Load ==
  /\ pc = "idle"
  /\ pc' = "receive"
  /\ digest' = <<>> /\ ends' = <<>>
  /\ pos' \in IF settled THEN {0} ELSE {0, pos}
  /\ UNCHANGED <<arriving, total, requests, file, settled>>

\* Byte i of what the slave sends.
SentByte(i) == IF i \in DOMAIN file THEN file[i] ELSE PAD

\* "Loop as long data is coming in and there's still some remaining"
MoreToCome == total > 0 /\ total < FileSize

(* Wire.requestFrom: n bytes of the next reply arrive.  pos is capped past *)
(* the end of every file.                                                  *)
Request ==
  /\ pc = "receive" /\ arriving = <<>>
  /\ requests = 0 \/ MoreToCome
  /\ requests < MaxRequests
  /\ requests' = requests + 1
  /\ \E n \in IF settled THEN {Chunk} ELSE 0 .. Chunk :
       /\ arriving' = [i \in 1 .. n |-> SentByte(pos + i)]
       /\ pos' \in {Min2(pos + Chunk, FileSize + Chunk)} \cup (IF n = 0 THEN {pos} ELSE {})
  /\ UNCHANGED <<pc, total, digest, ends, file, settled>>

LineStart == IF ends = <<>> THEN 0 ELSE ends[Len(ends)]

IsData(b)       == b \notin {PAD, High}

\* Mutant: padding does not count towards the total.
CountsIfData(b) == IF b = PAD THEN 0 ELSE 1
Counts(b)       == 1

\* b, with the bytes since the last contact, makes a contact; lIndex is the
\* number of those bytes, b included if it is stored.
LineIsFull(b) ==
  LET lIndex == Len(digest) - LineStart + (IF IsData(b) THEN 1 ELSE 0)
  IN  b = NL \/ lIndex >= LineMax

(* One byte of the reply.  Padding and bytes of 0x80 and more only count   *)
(* towards the total.                                                      *)
ReadByte ==
  LET b == Head(arriving) IN
  /\ pc = "receive" /\ arriving # <<>>
  /\ arriving' = Tail(arriving)
  /\ total' = total + Counts(b)
  /\ digest' = IF IsData(b) THEN Append(digest, b) ELSE digest
  /\ ends' = IF LineIsFull(b) THEN Append(ends, Len(digest')) ELSE ends
  /\ UNCHANGED <<pc, requests, file, pos, settled>>

ReceivedAll ==
  /\ pc = "receive" /\ arriving = <<>>
  /\ requests > 0 /\ ~MoreToCome
  /\ pc' = "validate"
  /\ UNCHANGED <<arriving, total, requests, digest, ends, file, pos, settled>>

\* Mutant: a failed read of the checksum, 0, is taken for that of an empty list.
AcceptedEvenIfZero(checkSum) == Checksum(digest) = checkSum \/ checkSum = 0

Accepted(checkSum) == checkSum = Checksum(digest) /\ checkSum > 0

(* Compare with the checksum the slave computes now, 0 if its reply is     *)
(* lost; without a match there are no contacts.                            *)
Validate ==
  /\ pc = "validate"
  /\ pc' = "idle" /\ total' = 0 /\ requests' = 0
  /\ \E checkSum \in {Checksum(file)} \cup (IF settled THEN {} ELSE {0}) :
       \/ Accepted(checkSum) /\ UNCHANGED <<digest, ends>>
       \/ ~Accepted(checkSum) /\ digest' = <<>> /\ ends' = <<>>
  /\ UNCHANGED <<arriving, file, pos, settled>>

\* Mutant: the loop feeds the watchdog.
WatchdogFed ==
  /\ pc = "receive" /\ requests = MaxRequests
  /\ requests' = 1
  /\ UNCHANGED <<pc, arriving, total, digest, ends, file, pos, settled>>

(* A slave that stops half way leaves the loop waiting; the watchdog       *)
(* resets the board, and setup() asks again.                               *)
WatchdogReset ==
  /\ pc = "receive" /\ requests = MaxRequests
  /\ pc' = "idle" /\ arriving' = <<>> /\ total' = 0 /\ requests' = 0
  /\ digest' = <<>> /\ ends' = <<>>
  /\ UNCHANGED <<file, pos, settled>>

\* Somebody edits the file on the slave.
FileChanges ==
  /\ ~settled
  /\ file' \in Files
  /\ UNCHANGED <<megaVars, pos, settled>>

Settles ==
  /\ ~settled /\ settled' = TRUE
  /\ UNCHANGED <<megaVars, file, pos>>

Step == Load \/ Request \/ ReadByte \/ ReceivedAll \/ Validate \/ WatchdogReset

Next == Step \/ FileChanges \/ Settles

Spec == Init /\ [][Next]_vars

\* The board executes.
FairSpec == Spec /\ WF_vars(Step)

-------------------------------------------------------------------------------
(* No line of the file is longer than LineMax, its newline included.       *)
Newlines(f) == {i \in DOMAIN f : f[i] = NL}

ShortLines(f) ==
  \A i \in 0 .. Len(f) - LineMax : \E j \in i + 1 .. i + LineMax : f[j] = NL

(* Whatever is lost on the wire, and whenever the file changes, a list     *)
(* that is accepted is the slave's file, cut exactly at its newlines:      *)
(* never a part of it, two versions of it, or a contact run into another.  *)
ListIsComplete ==
  [][pc = "validate" /\ pc' = "idle" /\ ends' # <<>> =>
       /\ digest = file
       /\ ShortLines(file) => {ends[k] : k \in DOMAIN ends} = Newlines(file)]_vars

(* No contact is stored twice and the contacts do not overlap.             *)
ContactsInOrder ==
  \A k \in 1 .. Len(ends) - 1 : ends[k] < ends[k + 1]

(* slaveGetContacts returns, or the watchdog ends it, although it waits    *)
(* for the rest of a file for as long as some of it has come.              *)
TransferEnds == pc = "receive" ~> pc = "idle"

(* The files the transfer can bring over: a byte of 0x80 or more is left   *)
(* out of the Mega's checksum and not of the slave's, and bytes after the  *)
(* last newline that do not fill lineBuffer make no contact.               *)
Loadable(f) ==
  /\ \A i \in DOMAIN f : IsData(f[i])
  /\ Newlines(f) # {} \/ Len(f) >= LineMax

(* A list that could not be loaded is asked for until it is: once the wire *)
(* works and the slave's file stays one that can be loaded, it is in force *)
(* again and again.                                                        *)
ListLoadedAtLast ==
  <>(settled /\ Loadable(file)) => []<>(pc = "idle" /\ ends # <<>>)

-------------------------------------------------------------------------------
(* What ListIsComplete rests on.                                           *)

TotalFits ==
  /\ pc # "idle" => Len(digest) <= total
  /\ total + Len(arriving) <= FileSize + Chunk
  /\ requests = 0 => total = 0 /\ arriving = <<>>
  /\ pc # "receive" => arriving = <<>>

\* lineBuffer never overflows; contacts end at newlines, or where a line fills
\* it; no newline is passed over.
CutAtLines ==
  /\ LineStart \in 0 .. Len(digest) /\ Len(digest) - LineStart < LineMax
  /\ \A k \in DOMAIN ends :
       /\ ends[k] \in DOMAIN digest /\ ends[k] <= LineStart
       /\ \/ digest[ends[k]] = NL
          \/ /\ ends[k] >= LineMax
             /\ \A j \in ends[k] - LineMax + 1 .. ends[k] : digest[j] # NL
  /\ \A i \in DOMAIN digest : digest[i] = NL => \E k \in DOMAIN ends : ends[k] = i

IInv == TypeOK /\ TotalFits /\ CutAtLines /\ ContactsInOrder
===============================================================================
