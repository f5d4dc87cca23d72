------------------------- MODULE ContactTransferProofs -------------------------
(***************************************************************************)
(* For any file, reply size, line length and number of contacts, and any   *)
(* loss on the wire: a contact list that is accepted is the slave's file,  *)
(* cut at its newlines.  The checksum is only assumed to tell contents     *)
(* apart; where the contacts end is what the proof is about.               *)
(***************************************************************************)
EXTENDS ContactTransfer, SequenceTheorems, TLAPS

LEMMA FileSizeNat == FileSize \in Nat
BY TransferAssumption DEF FileSize

LEMMA EmptyFits ==
  ASSUME digest = <<>>, ends = <<>>
  PROVE  CutAtLines /\ ContactsInOrder
BY TransferAssumption DEF CutAtLines, ContactsInOrder, LineStart

LEMMA InitIInv == Init => IInv
<1> SUFFICES ASSUME Init PROVE IInv
  OBVIOUS
<1> USE TransferAssumption, FileSizeNat DEF Init
<1>1. TypeOK
  <2>1. settled \in BOOLEAN
    OBVIOUS
  <2>2. pos \in 0 .. FileSize + Chunk /\ requests \in 0 .. MaxRequests /\ total \in Nat
    OBVIOUS
  <2>3. arriving \in Seq(Byte \cup {PAD}) /\ digest \in Seq(Data) /\ ends \in Seq(Nat)
    BY EmptySeq
  <2> QED BY <2>1, <2>2, <2>3 DEF TypeOK
<1>2. TotalFits
  BY DEF TotalFits
<1> QED BY <1>1, <1>2, EmptyFits DEF IInv

\* Steps that leave the contacts as they are.
LEMMA SameContacts ==
  ASSUME CutAtLines, ContactsInOrder, UNCHANGED <<digest, ends>>
  PROVE  CutAtLines' /\ ContactsInOrder'
BY DEF CutAtLines, ContactsInOrder, LineStart

\* Steps that forget the contacts.
LEMMA NoContacts ==
  ASSUME digest' = <<>>, ends' = <<>>
  PROVE  CutAtLines' /\ ContactsInOrder'
BY TransferAssumption DEF CutAtLines, ContactsInOrder, LineStart

\* The byte read next makes a contact end, or the line goes on.
LEMMA ReadByteCuts ==
  ASSUME IInv, ReadByte
  PROVE  /\ digest' \in Seq(Data) /\ ends' \in Seq(Nat)
         /\ Len(digest') <= Len(digest) + 1
         /\ CutAtLines' /\ ContactsInOrder'
<1> DEFINE b == Head(arriving)
           e == Len(digest) + 1
<1> USE TransferAssumption
<1>1. b \in Byte \cup {PAD}
  BY HeadTailProperties DEF IInv, TypeOK, ReadByte
<1>2. digest \in Seq(Data) /\ ends \in Seq(Nat)
      /\ Len(digest) \in Nat /\ Len(ends) \in Nat
      /\ DOMAIN digest = 1 .. Len(digest) /\ DOMAIN ends = 1 .. Len(ends)
  BY LenProperties DEF IInv, TypeOK
<1>3. LineStart \in 0 .. Len(digest) /\ Len(digest) - LineStart < LineMax
  BY DEF IInv, CutAtLines
<1>4. CASE ~IsData(b)
  <2>1. digest' = digest
    BY <1>4 DEF ReadByte, IsData
  <2>2. ~LineIsFull(b)
    BY <1>2, <1>3, <1>4 DEF LineIsFull, IsData, Data
  <2>3. ends' = ends
    BY <2>2 DEF ReadByte
  <2> QED BY <1>2, <2>1, <2>3, SameContacts DEF IInv
<1>5. CASE IsData(b)
  <2>1. b \in Data /\ digest' = Append(digest, b)
    BY <1>1, <1>5 DEF ReadByte, IsData, Byte
  <2>2. /\ digest' \in Seq(Data) /\ Len(digest') = e
        /\ \A i \in 1 .. Len(digest) : digest'[i] = digest[i]
        /\ digest'[e] = b /\ DOMAIN digest' = 1 .. e
    BY <1>2, <2>1, AppendProperties, LenProperties
  <2>3. CASE LineIsFull(b)
    <3>1. ends' = Append(ends, e)
      BY <2>2, <2>3 DEF ReadByte
    <3>2. /\ ends' \in Seq(Nat) /\ Len(ends') = Len(ends) + 1
          /\ \A k \in 1 .. Len(ends) : ends'[k] = ends[k]
          /\ ends'[Len(ends) + 1] = e /\ DOMAIN ends' = 1 .. Len(ends) + 1
          /\ ends' # <<>>
      BY <1>2, <3>1, AppendProperties, LenProperties
    <3>3. LineStart' = e
      BY <3>2 DEF LineStart
    <3>4. ASSUME NEW k \in 1 .. Len(ends)
          PROVE  /\ ends'[k] \in 1 .. e /\ ends'[k] <= e
                 /\ \/ digest'[ends'[k]] = NL
                    \/ /\ ends'[k] >= LineMax
                       /\ \A j \in ends'[k] - LineMax + 1 .. ends'[k] : digest'[j] # NL
      <4>1. ends[k] \in 1 .. Len(digest) /\ ends'[k] = ends[k]
        BY <1>2, <3>2 DEF IInv, CutAtLines
      <4>2. CASE digest[ends[k]] = NL
        BY <1>2, <2>2, <4>1, <4>2
      <4>3. CASE /\ ends[k] >= LineMax
                 /\ \A j \in ends[k] - LineMax + 1 .. ends[k] : digest[j] # NL
        <5>1. ASSUME NEW j \in ends[k] - LineMax + 1 .. ends[k] PROVE digest'[j] # NL
          <6>1. digest[j] # NL /\ j \in 1 .. Len(digest)
            BY <1>2, <4>1, <4>3
          <6> QED BY <2>2, <6>1
        <5> QED BY <1>2, <4>1, <4>3, <5>1
      <4> QED BY <1>2, <4>1, <4>2, <4>3 DEF IInv, CutAtLines
    <3>5. \/ digest'[e] = NL
          \/ /\ e >= LineMax
             /\ \A j \in e - LineMax + 1 .. e : digest'[j] # NL
      <4>1. CASE b = NL
        BY <2>2, <4>1
      <4>2. CASE b # NL
        <5>1. e - LineStart = LineMax
          BY <1>2, <1>3, <1>5, <2>3, <4>2 DEF LineIsFull, IsData
        <5>2. ASSUME NEW j \in LineStart + 1 .. e, digest'[j] = NL PROVE FALSE
          <6>1. j \in DOMAIN digest /\ digest[j] = NL
            BY <1>2, <1>3, <2>2, <4>2, <5>2
          <6>2. \E k \in DOMAIN ends : ends[k] = j
            BY <6>1 DEF IInv, CutAtLines
          <6>3. \A k \in DOMAIN ends : ends[k] <= LineStart
            BY DEF IInv, CutAtLines
          <6> QED BY <1>2, <1>3, <6>2, <6>3
        <5> QED BY <1>2, <1>3, <5>1, <5>2
      <4> QED BY <4>1, <4>2
    <3>6. ASSUME NEW i \in 1 .. e, digest'[i] = NL
          PROVE  \E k \in DOMAIN ends' : ends'[k] = i
      <4>1. CASE i = e
        BY <1>2, <3>2, <4>1
      <4>2. CASE i # e
        <5>1. i \in DOMAIN digest /\ digest[i] = NL
          BY <1>2, <2>2, <3>6, <4>2
        <5>2. PICK k \in DOMAIN ends : ends[k] = i
          BY <5>1 DEF IInv, CutAtLines
        <5> QED BY <1>2, <3>2, <5>2
      <4> QED BY <4>1, <4>2
    <3>7. CutAtLines'
      <4>1. \A k \in DOMAIN ends' :
              /\ ends'[k] \in DOMAIN digest' /\ ends'[k] <= LineStart'
              /\ \/ digest'[ends'[k]] = NL
                 \/ /\ ends'[k] >= LineMax
                    /\ \A j \in ends'[k] - LineMax + 1 .. ends'[k] : digest'[j] # NL
        <5> TAKE k \in DOMAIN ends'
        <5>1. CASE k = Len(ends) + 1
          BY <1>2, <2>2, <3>2, <3>3, <3>5, <5>1
        <5>2. CASE k # Len(ends) + 1
          <6>1. k \in 1 .. Len(ends)
            BY <1>2, <3>2, <5>2
          <6> QED BY <2>2, <3>3, <3>4, <6>1
        <5> QED BY <5>1, <5>2
      <4>2. LineStart' \in 0 .. Len(digest') /\ Len(digest') - LineStart' < LineMax
        BY <1>2, <2>2, <3>3
      <4> QED BY <2>2, <3>6, <4>1, <4>2 DEF CutAtLines
    <3>8. ContactsInOrder'
      <4> SUFFICES ASSUME NEW k \in 1 .. Len(ends) PROVE ends'[k] < ends'[k + 1]
        BY <1>2, <3>2 DEF ContactsInOrder
      <4>1. CASE k = Len(ends)
        <5>1. k \in DOMAIN ends
          BY <1>2, <3>2, <4>1
        <5>2. ends[k] \in 1 .. Len(digest)
          BY <1>2, <5>1 DEF IInv, CutAtLines
        <5> QED BY <1>2, <3>2, <4>1, <5>1, <5>2
      <4>2. CASE k # Len(ends)
        <5>1. k \in 1 .. Len(ends) - 1
          <6> DEFINE n == Len(ends)
          <6>1. n \in Nat /\ k \in 1 .. n /\ k # n
            BY <1>2, <4>2
          <6> HIDE DEF n
          <6>2. k \in 1 .. n - 1
            BY <6>1
          <6> QED BY <6>2 DEF n
        <5>2. ends[k] < ends[k + 1]
          BY <5>1 DEF IInv, ContactsInOrder
        <5> QED BY <1>2, <3>2, <5>1, <5>2
      <4> QED BY <4>1, <4>2
    <3> QED BY <1>2, <2>2, <3>2, <3>7, <3>8
  <2>4. CASE ~LineIsFull(b)
    <3>1. ends' = ends /\ LineStart' = LineStart
      BY <2>4 DEF ReadByte, LineStart
    <3>2. b # NL /\ e - LineStart < LineMax
      BY <1>2, <1>3, <1>5, <2>4 DEF LineIsFull, IsData
    <3>3. \A i \in 1 .. e : digest'[i] = NL => i \in DOMAIN digest /\ digest[i] = NL
      BY <1>2, <2>2, <3>2
    <3>4. \A k \in DOMAIN ends : \A j \in 1 .. ends[k] : digest'[j] = digest[j]
      BY <1>2, <2>2 DEF IInv, CutAtLines
    <3>5. CutAtLines'
      <4>1. \A k \in DOMAIN ends' :
              /\ ends'[k] \in DOMAIN digest' /\ ends'[k] <= LineStart'
              /\ \/ digest'[ends'[k]] = NL
                 \/ /\ ends'[k] >= LineMax
                    /\ \A j \in ends'[k] - LineMax + 1 .. ends'[k] : digest'[j] # NL
        <5> SUFFICES ASSUME NEW k \in DOMAIN ends
                     PROVE  /\ ends[k] \in DOMAIN digest' /\ ends[k] <= LineStart
                            /\ \/ digest'[ends[k]] = NL
                               \/ /\ ends[k] >= LineMax
                                  /\ \A j \in ends[k] - LineMax + 1 .. ends[k] : digest'[j] # NL
          BY <3>1
        <5>1. ends[k] \in 1 .. Len(digest) /\ ends[k] <= LineStart
          BY <1>2 DEF IInv, CutAtLines
        <5>2. CASE digest[ends[k]] = NL
          BY <1>2, <2>2, <3>4, <5>1, <5>2
        <5>3. CASE /\ ends[k] >= LineMax
                   /\ \A j \in ends[k] - LineMax + 1 .. ends[k] : digest[j] # NL
          BY <1>2, <2>2, <3>4, <5>1, <5>3
        <5> QED BY <5>1, <5>2, <5>3 DEF IInv, CutAtLines
      <4>2. LineStart' \in 0 .. Len(digest') /\ Len(digest') - LineStart' < LineMax
        BY <1>2, <1>3, <2>2, <3>1, <3>2
      <4>3. \A i \in DOMAIN digest' : digest'[i] = NL => \E k \in DOMAIN ends' : ends'[k] = i
        BY <2>2, <3>1, <3>3 DEF IInv, CutAtLines
      <4> QED BY <4>1, <4>2, <4>3 DEF CutAtLines
    <3>6. ContactsInOrder'
      BY <3>1 DEF IInv, ContactsInOrder
    <3> QED BY <1>2, <2>2, <3>1, <3>5, <3>6
  <2> QED BY <2>3, <2>4
<1> QED BY <1>4, <1>5

LEMMA StepIInv == IInv /\ [Next]_vars => IInv'
<1> SUFFICES ASSUME IInv, [Next]_vars PROVE IInv'
  OBVIOUS
<1> USE TransferAssumption, FileSizeNat
<1> USE DEF IInv, TypeOK, TotalFits, vars, megaVars
<1>1. CASE Load
  <2>1. CutAtLines' /\ ContactsInOrder'
    BY <1>1, NoContacts DEF Load
  <2>2. TypeOK'
    BY <1>1, EmptySeq DEF Load
  <2>3. TotalFits'
    BY <1>1, EmptySeq DEF Load
  <2> QED BY <2>1, <2>2, <2>3
<1>2. CASE Request
  <2>1. CutAtLines' /\ ContactsInOrder'
    BY <1>2, SameContacts DEF Request
  <2>2. PICK n \in IF settled THEN {Chunk} ELSE 0 .. Chunk :
          /\ arriving' = [i \in 1 .. n |-> SentByte(pos + i)]
          /\ pos' \in {Min2(pos + Chunk, FileSize + Chunk)}
                        \cup (IF n = 0 THEN {pos} ELSE {})
    BY <1>2, Zenon DEF Request
  <2>a. n \in 0 .. Chunk
    BY <2>2
  <2>3. \A i \in Int : SentByte(i) \in Byte \cup {PAD}
    <3>1. PICK m \in 0 .. FileSize + Chunk : file \in [1 .. m -> Byte]
      BY DEF Contents, UpToASize
    <3> QED BY <3>1 DEF SentByte
  <2>4. arriving' \in Seq(Byte \cup {PAD}) /\ Len(arriving') = n
    BY <2>2, <2>a, <2>3
  <2>5. pos' \in 0 .. FileSize + Chunk
    BY <2>2, <2>a DEF Min2
  <2>6. TypeOK'
    BY <1>2, <2>4, <2>5 DEF Request
  <2>7. total <= FileSize
    BY <1>2 DEF Request, MoreToCome
  <2>8. TotalFits'
    BY <1>2, <2>4, <2>7, <2>a DEF Request
  <2> QED BY <2>1, <2>6, <2>8
<1>3. CASE ReadByte
  <2>1. CutAtLines' /\ ContactsInOrder' /\ digest' \in Seq(Data)
        /\ ends' \in Seq(Nat) /\ Len(digest') <= Len(digest) + 1
    BY <1>3, ReadByteCuts
  <2>2. /\ arriving' \in Seq(Byte \cup {PAD})
        /\ Len(arriving') = Len(arriving) - 1
        /\ Len(arriving) \in Nat \ {0}
    BY <1>3, HeadTailProperties, EmptySeq, LenProperties DEF ReadByte
  <2>3. total' = total + 1 /\ UNCHANGED <<pc, requests, file, pos, settled>>
    BY <1>3 DEF ReadByte, Counts
  <2>4. TypeOK'
    BY <2>1, <2>2, <2>3
  <2>5. Len(digest) \in Nat /\ Len(digest') \in Nat
    BY <2>1, LenProperties
  <2>6. pc = "receive" /\ requests # 0
    BY <1>3, <2>2 DEF ReadByte
  <2>7. TotalFits'
    BY <2>1, <2>2, <2>3, <2>5, <2>6
  <2> QED BY <2>1, <2>4, <2>7
<1>4. CASE ReceivedAll
  <2>1. CutAtLines' /\ ContactsInOrder'
    BY <1>4, SameContacts DEF ReceivedAll
  <2> QED BY <1>4, <2>1 DEF ReceivedAll
<1>5. CASE Validate
  <2>1. CASE UNCHANGED <<digest, ends>>
    <3>1. CutAtLines' /\ ContactsInOrder'
      BY <2>1, SameContacts
    <3> QED BY <1>5, <2>1, <3>1, EmptySeq DEF Validate
  <2>2. CASE digest' = <<>> /\ ends' = <<>>
    <3>1. CutAtLines' /\ ContactsInOrder'
      BY <2>2, NoContacts
    <3> QED BY <1>5, <2>2, <3>1, EmptySeq DEF Validate
  <2> QED BY <1>5, <2>1, <2>2 DEF Validate
<1>6. CASE WatchdogReset
  <2>1. CutAtLines' /\ ContactsInOrder'
    BY <1>6, NoContacts DEF WatchdogReset
  <2> QED BY <1>6, <2>1, EmptySeq DEF WatchdogReset
<1>7. CASE FileChanges
  <2>1. CutAtLines' /\ ContactsInOrder'
    BY <1>7, SameContacts DEF FileChanges
  <2> QED BY <1>7, <2>1 DEF FileChanges
<1>8. CASE Settles
  <2>1. CutAtLines' /\ ContactsInOrder'
    BY <1>8, SameContacts DEF Settles
  <2> QED BY <1>8, <2>1 DEF Settles
<1>9. CASE UNCHANGED vars
  <2>1. CutAtLines' /\ ContactsInOrder'
    BY <1>9, SameContacts
  <2> QED BY <1>9, <2>1
<1> QED
  BY <1>1, <1>2, <1>3, <1>4, <1>5, <1>6, <1>7, <1>8, <1>9 DEF Next, Step

(* The inductive invariant holds in every reachable state.                 *)
THEOREM TransferInvariant == Spec => []IInv
BY InitIInv, StepIInv, PTL DEF Spec

(* Every variable keeps its type.                                          *)
THEOREM TransferTypeCorrect == Spec => []TypeOK
<1>1. IInv => TypeOK
  BY DEF IInv
<1> QED BY <1>1, TransferInvariant, PTL

(* Contacts are cut off in order and never overlap.                        *)
THEOREM ContactsInOrderCorrect == Spec => []ContactsInOrder
<1>1. IInv => ContactsInOrder
  BY DEF IInv
<1> QED BY <1>1, TransferInvariant, PTL

(* In a file without long lines, the contacts end exactly at the newlines. *)
LEMMA CutsAreNewlines ==
  ASSUME IInv, ShortLines(digest)
  PROVE  {ends[k] : k \in DOMAIN ends} = Newlines(digest)
<1> USE TransferAssumption
<1>1. Len(digest) \in Nat /\ DOMAIN digest = 1 .. Len(digest)
  BY LenProperties DEF IInv, TypeOK
<1>2. ASSUME NEW k \in DOMAIN ends PROVE ends[k] \in Newlines(digest)
  <2>1. ends[k] \in 1 .. Len(digest)
    BY <1>1 DEF IInv, CutAtLines
  <2>2. CASE /\ ends[k] >= LineMax
             /\ \A j \in ends[k] - LineMax + 1 .. ends[k] : digest[j] # NL
    <3>1. ends[k] - LineMax \in 0 .. Len(digest) - LineMax
      BY <1>1, <2>1, <2>2
    <3>2. PICK j \in ends[k] - LineMax + 1 .. ends[k] - LineMax + LineMax : digest[j] = NL
      BY <3>1 DEF ShortLines
    <3> QED BY <2>1, <2>2, <3>2
  <2>3. CASE digest[ends[k]] = NL
    BY <1>1, <2>1, <2>3 DEF Newlines
  <2> QED BY <2>2, <2>3 DEF IInv, CutAtLines
<1>3. ASSUME NEW i \in Newlines(digest) PROVE \E k \in DOMAIN ends : ends[k] = i
  BY DEF Newlines, IInv, CutAtLines
<1> QED BY <1>2, <1>3

(* A list that is accepted is the whole file of the slave, cut at its      *)
(* newlines, whatever was lost and whenever the file changed.              *)
THEOREM ListIsCompleteCorrect == Spec => ListIsComplete
<1> DEFINE Complete ==
      pc = "validate" /\ pc' = "idle" /\ ends' # <<>> =>
        /\ digest = file
        /\ ShortLines(file) => {ends[k] : k \in DOMAIN ends} = Newlines(file)
<1>1. IInv /\ [Next]_vars => [Complete]_vars
  <2> SUFFICES ASSUME IInv, Next, pc = "validate", pc' = "idle", ends' # <<>>
               PROVE  /\ digest = file
                      /\ ShortLines(file) =>
                           {ends[k] : k \in DOMAIN ends} = Newlines(file)
    OBVIOUS
  <2>1. Validate
    BY DEF Next, Step, Load, Request, ReadByte, ReceivedAll, WatchdogReset,
       FileChanges, Settles, megaVars
  <2>2. PICK checkSum \in {Checksum(file)} \cup (IF settled THEN {} ELSE {0}) :
          Accepted(checkSum)
    BY <2>1 DEF Validate
  <2>3. Checksum(digest) = Checksum(file)
    <3>1. checkSum # 0
      BY <2>2 DEF Accepted
    <3> QED BY <2>2, <3>1 DEF Accepted
  <2>4. digest \in Hashed
    <3>1. digest \in [1 .. Len(digest) -> Data] /\ Len(digest) \in Nat
      BY LenProperties DEF IInv, TypeOK
    <3>2. Len(arriving) \in Nat
      BY LenProperties DEF IInv, TypeOK
    <3>3. Len(digest) \in 0 .. FileSize + Chunk
      BY <3>1, <3>2, FileSizeNat, TransferAssumption DEF IInv, TypeOK, TotalFits
    <3> QED BY <3>1, <3>3 DEF Hashed, UpToASize
  <2>5. digest = file
    BY <2>3, <2>4, TransferAssumption, ChecksumAssumption DEF IInv, TypeOK
  <2> QED BY <2>5, CutsAreNewlines
<1> QED BY <1>1, TransferInvariant, PTL DEF Spec, ListIsComplete
===============================================================================
