--------------------------- MODULE AlgorithmProofs ---------------------------
(***************************************************************************)
(* Proofs: about SockIO for every number of bytes, every largest call,     *)
(* every capacity of the connection and every patience; about Config for   *)
(* every configuration file, every command line and every width of the     *)
(* integers; about the sizes and the line ends of Conversions for every    *)
(* width of a size, every size of that width and every text.               *)
(***************************************************************************)
EXTENDS SockIO, Conversions, Config, SequenceTheorems, FiniteSetTheorems, TLAPS

-----------------------------------------------------------------------------
(* Socket input and output: SockIO.                                        *)

\* The bytes that have arrived at the receiver, and those that have left
\* the sender.
Arrived == IF dir = "read" THEN Total ELSE far
Left == IF dir = "read" THEN far ELSE Total

\* InOrder byte by byte: what has moved, and what the connection holds,
\* which are the bytes between those that have arrived and those that left.
Lined ==
  /\ Total <= Size
  /\ \A i \in 1..Total : moved[i] = i
  /\ Left = Arrived + Len(wire)
  /\ \A i \in 1..Len(wire) : wire[i] = Arrived + i
  /\ status = "success" => Total = Size

\* The counter of the loop against the calls that have moved nothing: after
\* progress it starts at 1, not at 0.
Counted ==
  /\ status = "running" => cnt <= silent + 1
  /\ PatientWithThePeer

\* the inductive invariant
IInv == TypeOK /\ Lined /\ Counted

-----------------------------------------------------------------------------
\* The sequence of the first n bytes.
LEMMA BytesProperties ==
  ASSUME NEW n \in Nat
  PROVE  /\ Bytes(n) \in Seq(Nat)
         /\ Len(Bytes(n)) = n
         /\ \A i \in 1..n : Bytes(n)[i] = i
BY SMT DEF Bytes

LEMMA StreamLength ==
  ASSUME SockIOAssumption
  PROVE  /\ Stream \in Seq(Nat) /\ Len(Stream) = 2 * Size
         /\ \A i \in 1..(2 * Size) : Stream[i] = i
<1>1. 2 * Size \in Nat
  BY DEF SockIOAssumption
<1> QED
  BY <1>1, BytesProperties DEF Stream

\* Bytes that are lined up are InOrder.
LEMMA LinedIsInOrder ==
  ASSUME SockIOAssumption, TypeOK, Lined
  PROVE  InOrder
<1>1. /\ moved \in Seq(Nat) /\ wire \in Seq(Nat) /\ far \in Nat
      /\ Total \in Nat /\ Len(wire) \in Nat
  BY StreamLength, LenProperties DEF TypeOK, Total, SockIOAssumption
<1>2. moved = Bytes(Total)
  <2>1. Len(moved) = Len(Bytes(Total)) /\ Bytes(Total) \in Seq(Nat)
    BY <1>1, BytesProperties DEF Total
  <2>2. \A i \in 1..Len(moved) : moved[i] = Bytes(Total)[i]
    BY <1>1, BytesProperties DEF Lined, Total
  <2> QED
    BY <1>1, <2>1, <2>2, SeqEqual
<1>3. ASSUME dir = "read"
      PROVE  moved \o wire = Bytes(far)
  <2> DEFINE all == moved \o wire
  <2>1. far = Total + Len(wire)
    BY <1>3 DEF Lined, Arrived, Left
  <2>2. /\ all \in Seq(Nat) /\ Len(all) = Len(moved) + Len(wire)
        /\ \A i \in 1..(Len(moved) + Len(wire)) : all[i] =
             IF i <= Len(moved) THEN moved[i] ELSE wire[i - Len(moved)]
    BY <1>1, ConcatProperties
  <2> HIDE DEF all
  <2>3. /\ Len(moved) = Total /\ Len(all) = far
        /\ \A i \in 1..far : all[i] =
             IF i <= Total THEN moved[i] ELSE wire[i - Total]
    BY <2>1, <2>2 DEF Total
  <2>4. ASSUME NEW i \in 1..far
        PROVE  all[i] = i
    <3>1. CASE i <= Total
      <4>1. all[i] = moved[i] /\ i \in 1..Total
        BY <1>1, <2>3, <3>1
      <4> QED
        BY <4>1 DEF Lined
    <3>2. CASE i > Total
      <4>1. all[i] = wire[i - Total]
        BY <1>1, <2>3, <3>2
      <4>2. i - Total \in 1..Len(wire)
        BY <1>1, <2>1, <3>2
      <4>3. wire[i - Total] = Total + (i - Total)
        BY <1>3, <4>2 DEF Lined, Arrived
      <4>4. Total + (i - Total) = i
        BY <1>1
      <4> QED
        BY <4>1, <4>3, <4>4
    <3>3. i <= Total \/ i > Total
      BY <1>1
    <3> QED
      BY <3>1, <3>2, <3>3
  <2>5. all = Bytes(far)
    BY <1>1, <2>2, <2>3, <2>4, BytesProperties, SeqEqual
  <2> QED
    BY <2>5 DEF all
<1>4. ASSUME dir = "write"
      PROVE  \A i \in 1..Len(wire) : wire[i] = far + i
  BY <1>4 DEF Lined, Arrived
<1> QED
  BY <1>2, <1>3, <1>4 DEF InOrder, Lined

-----------------------------------------------------------------------------
(* The steps.                                                              *)

\* Calls that move nothing, in a row; the history variable stops at
\* Patience + 2.
LEMMA LeastProperties ==
  ASSUME NEW a \in Nat, NEW b \in Nat
  PROVE  /\ Least(a, b) \in Nat /\ Least(a, b) <= a /\ Least(a, b) <= b
         /\ Least(a, b) = a \/ Least(a, b) = b
BY DEF Least

\* What a call asks for fits into what is left.
LEMMA RequestFits ==
  ASSUME SockIOAssumption, TypeOK, Lined, Calling
  PROVE  /\ Total \in Nat /\ Size \in Nat
         /\ Request \in Nat /\ Request <= Size - Total
<1>1. Total \in Nat /\ Size \in Nat /\ MaxCall \in Nat /\ Size - Total \in Nat
  BY LenProperties DEF TypeOK, Total, SockIOAssumption, Lined
<1> QED
  BY <1>1, LeastProperties DEF Request

\* A call that reads moves the head of what the connection holds.
LEMMA ReadsInOrder ==
  ASSUME SockIOAssumption, TypeOK, Lined, status = "running", Calling,
         NEW j \in 1..Request, CallReads(j), UNCHANGED <<dir, far, status>>
  PROVE  /\ moved' \in Seq(Nat) /\ wire' \in Seq(Nat) /\ Len(wire') <= Capacity
         /\ Lined'
<1> DEFINE head == SubSeq(wire, 1, j)
<1>1. /\ moved \in Seq(Nat) /\ wire \in Seq(Nat) /\ far \in Nat
      /\ Total \in Nat /\ Len(wire) \in Nat /\ Total = Len(moved)
      /\ j \in 1..Len(wire) /\ Request \in Nat /\ Request <= Size - Total
      /\ Size \in Nat /\ Capacity \in Nat
  BY RequestFits, StreamLength, LenProperties DEF TypeOK, Total, SockIOAssumption, CallReads
<1>2. /\ head \in Seq(Nat) /\ Len(head) = j
      /\ \A i \in 1..j : head[i] = wire[i]
  <2>1. \A i \in 1..j : wire[i] \in Nat
    BY <1>1, ElementOfSeq
  <2> QED
    BY <1>1, <2>1, SubSeqProperties
<1>3. /\ wire' \in Seq(Nat) /\ Len(wire') = Len(wire) - j
      /\ \A i \in 1..(Len(wire) - j) : wire'[i] = wire[j + i]
  <2>1. \A i \in (j + 1)..Len(wire) : wire[i] \in Nat
    BY <1>1, ElementOfSeq
  <2>2. /\ SubSeq(wire, j + 1, Len(wire)) \in Seq(Nat)
        /\ Len(SubSeq(wire, j + 1, Len(wire)))
             = (IF j + 1 <= Len(wire) THEN Len(wire) - (j + 1) + 1 ELSE 0)
        /\ \A i \in 1..(Len(wire) - (j + 1) + 1) :
             SubSeq(wire, j + 1, Len(wire))[i] = wire[(j + 1) + i - 1]
    BY <1>1, <2>1, SubSeqProperties
  <2>3. wire' = SubSeq(wire, j + 1, Len(wire))
    BY DEF CallReads
  <2>4. Len(wire') = Len(wire) - j
    BY <1>1, <2>2, <2>3
  <2>5. ASSUME NEW i \in 1..(Len(wire) - j)
        PROVE  wire'[i] = wire[j + i]
    <3>1. i \in 1..(Len(wire) - (j + 1) + 1) /\ (j + 1) + i - 1 = j + i
      BY <1>1
    <3> QED
      BY <2>2, <2>3, <3>1
  <2> QED
    BY <2>2, <2>3, <2>4, <2>5
<1>4. /\ moved' \in Seq(Nat) /\ Len(moved') = Total + j
      /\ \A i \in 1..(Total + j) : moved'[i] =
           IF i <= Total THEN moved[i] ELSE head[i - Total]
  <2> DEFINE all == moved \o head
  <2>1. moved' = all
    BY DEF CallReads
  <2> HIDE DEF head
  <2>2. /\ all \in Seq(Nat) /\ Len(all) = Len(moved) + Len(head)
        /\ \A i \in 1..(Len(moved) + Len(head)) : all[i] =
             IF i <= Len(moved) THEN moved[i] ELSE head[i - Len(moved)]
    BY <1>1, <1>2, ConcatProperties
  <2> HIDE DEF all
  <2>3. Len(moved) = Total /\ Len(head) = j
    BY <1>1, <1>2
  <2> QED
    BY <2>1, <2>2, <2>3
<1>5. dir = "read" /\ dir' = "read" /\ far' = far /\ status' = "running" /\ Total' = Total + j
  BY <1>4 DEF CallReads, Total
<1> HIDE DEF head
<1>6. \A i \in 1..(Total + j) : moved'[i] = i
  <2> TAKE i \in 1..(Total + j)
  <2>1. CASE i <= Total
    <3>1. moved'[i] = moved[i] /\ i \in 1..Total
      BY <1>1, <1>4, <2>1
    <3> QED
      BY <3>1 DEF Lined
  <2>2. CASE i > Total
    <3>1. moved'[i] = head[i - Total]
      BY <1>1, <1>4, <2>2
    <3>2. i - Total \in 1..j /\ i - Total \in 1..Len(wire)
      BY <1>1, <2>2
    <3>3. head[i - Total] = wire[i - Total] /\ wire[i - Total] = Total + (i - Total)
      BY <1>2, <1>5, <3>2 DEF Lined, Arrived
    <3>4. Total + (i - Total) = i
      BY <1>1
    <3> QED
      BY <3>1, <3>3, <3>4
  <2>3. i <= Total \/ i > Total
    BY <1>1
  <2> QED
    BY <2>1, <2>2, <2>3
<1>7. \A i \in 1..(Len(wire) - j) : wire'[i] = (Total + j) + i
  <2> TAKE i \in 1..(Len(wire) - j)
  <2>1. j + i \in 1..Len(wire)
    BY <1>1
  <2>2. wire[j + i] = Total + (j + i)
    BY <1>5, <2>1 DEF Lined, Arrived
  <2> QED
    BY <1>1, <1>3, <2>2
<1>8. far = Total + Len(wire)
  BY <1>5 DEF Lined, Arrived, Left
<1>9. Len(wire') <= Capacity /\ Total + j <= Size
  BY <1>1, <1>3 DEF TypeOK
<1>10. Lined'
  <2>1. Arrived' = Total + j /\ Left' = far
    BY <1>5 DEF Arrived, Left
  <2>2. far = Total + j + Len(wire')
    BY <1>1, <1>3, <1>8
  <2>3. \A i \in 1..Len(wire') : wire'[i] = Total + j + i
    BY <1>3, <1>7
  <2> QED
    BY <1>5, <1>6, <1>9, <2>1, <2>2, <2>3 DEF Lined
<1> QED
  BY <1>3, <1>4, <1>9, <1>10

\* Sequences that are continued by the numbers behind a base line keep to it.
LEMMA Continued ==
  ASSUME NEW s \in Seq(Nat), NEW base \in Nat, NEW j \in Nat,
         \A i \in 1..Len(s) : s[i] = base + i
  PROVE  LET next == [i \in 1..j |-> base + Len(s) + i]
         IN /\ s \o next \in Seq(Nat)
            /\ Len(s \o next) = Len(s) + j
            /\ \A i \in 1..(Len(s) + j) : (s \o next)[i] = base + i
<1> DEFINE next == [i \in 1..j |-> base + Len(s) + i]
<1> HIDE DEF next
<1>1. Len(s) \in Nat
  BY LenProperties
<1>2. /\ next \in Seq(Nat) /\ Len(next) = j
      /\ \A i \in 1..j : next[i] = base + Len(s) + i
  BY <1>1, SMT DEF next
<1>3. /\ s \o next \in Seq(Nat)
      /\ Len(s \o next) = Len(s) + j
      /\ \A i \in 1..(Len(s) + j) : (s \o next)[i] =
           IF i <= Len(s) THEN s[i] ELSE next[i - Len(s)]
  BY <1>2, ConcatProperties
<1>4. ASSUME NEW i \in 1..(Len(s) + j)
      PROVE  (s \o next)[i] = base + i
  <2>1. CASE i <= Len(s)
    BY <1>1, <1>3, <2>1
  <2>2. CASE i > Len(s)
    <3>1. i - Len(s) \in 1..j
      BY <1>1, <2>2
    <3> QED
      BY <1>1, <1>2, <1>3, <2>2, <3>1
  <2>3. i <= Len(s) \/ i > Len(s)
    BY <1>1
  <2> QED
    BY <2>1, <2>2, <2>3
<1> QED
  BY <1>3, <1>4 DEF next

\* A call that writes lines up the next bytes behind those in the connection.
LEMMA WritesInOrder ==
  ASSUME SockIOAssumption, TypeOK, Lined, status = "running", Calling,
         NEW j \in 1..Request, CallWrites(j), UNCHANGED <<dir, far, status>>
  PROVE  /\ moved' \in Seq(Nat) /\ wire' \in Seq(Nat) /\ Len(wire') <= Capacity
         /\ Lined'
<1>1. /\ moved \in Seq(Nat) /\ wire \in Seq(Nat) /\ far \in Nat
      /\ Total \in Nat /\ Len(wire) \in Nat /\ Total = Len(moved)
      /\ j \in Nat /\ Request \in Nat /\ Request <= Size - Total
      /\ Size \in Nat /\ Capacity \in Nat
  BY RequestFits, StreamLength, LenProperties DEF TypeOK, Total, SockIOAssumption
<1>2. /\ dir = "write" /\ dir' = "write" /\ far' = far /\ status' = "running"
      /\ Len(wire) + j <= Capacity
      /\ moved' = moved \o [i \in 1..j |-> Total + i]
      /\ wire' = wire \o [i \in 1..j |-> Total + i]
  BY DEF CallWrites
<1>3. Total = far + Len(wire) /\ \A i \in 1..Len(wire) : wire[i] = far + i
  BY <1>2 DEF Lined, Arrived, Left
<1>4. /\ wire' \in Seq(Nat) /\ Len(wire') = Len(wire) + j
      /\ \A i \in 1..(Len(wire) + j) : wire'[i] = far + i
  <2>1. [i \in 1..j |-> Total + i] = [i \in 1..j |-> far + Len(wire) + i]
    BY <1>3
  <2>2. LET next == [i \in 1..j |-> far + Len(wire) + i]
        IN /\ wire \o next \in Seq(Nat)
           /\ Len(wire \o next) = Len(wire) + j
           /\ \A i \in 1..(Len(wire) + j) : (wire \o next)[i] = far + i
    BY <1>1, <1>3, Continued
  <2> QED
    BY <1>2, <2>1, <2>2
<1>5. /\ moved' \in Seq(Nat) /\ Len(moved') = Total + j
      /\ \A i \in 1..(Total + j) : moved'[i] = i
  <2>1. \A i \in 1..Len(moved) : moved[i] = 0 + i
    BY <1>1 DEF Lined
  <2>2. [i \in 1..j |-> Total + i] = [i \in 1..j |-> 0 + Len(moved) + i]
    BY <1>1
  <2> QED
    BY <1>1, <1>2, <2>1, <2>2, Continued
<1>6. Total' = Total + j /\ Total + j <= Size
  BY <1>1, <1>5 DEF Total
<1>7. Arrived' = far /\ Left' = Total + j
  BY <1>2, <1>6 DEF Arrived, Left
<1>8. Lined'
  <2>1. Total + j = far + Len(wire')
    BY <1>1, <1>3, <1>4
  <2> QED
    BY <1>2, <1>4, <1>5, <1>6, <1>7, <2>1 DEF Lined
<1> QED
  BY <1>1, <1>2, <1>4, <1>5, <1>8

\* The peer sends the next byte of its stream.
LEMMA PeerSendsInOrder ==
  ASSUME SockIOAssumption, TypeOK, Lined, PeerSends
  PROVE  TypeOK' /\ Lined'
<1>1. /\ wire \in Seq(Nat) /\ far \in Nat /\ Total \in Nat /\ Size \in Nat
      /\ Len(wire) \in Nat /\ Len(wire) < Capacity /\ Capacity \in Nat
      /\ far < 2 * Size /\ Len(Stream) = 2 * Size /\ Stream[far + 1] = far + 1
  BY StreamLength, LenProperties DEF TypeOK, Total, SockIOAssumption, PeerSends
<1>2. dir = "read" /\ far = Total + Len(wire)
  BY DEF PeerSends, Lined, Arrived, Left
<1>3. wire' = Append(wire, far + 1) /\ far' = far + 1
  BY <1>1 DEF PeerSends
<1>4. /\ wire' \in Seq(Nat) /\ Len(wire') = Len(wire) + 1
      /\ \A i \in 1..Len(wire) : wire'[i] = wire[i]
      /\ wire'[Len(wire) + 1] = far + 1
  BY <1>1, <1>3, AppendProperties
<1>5. Arrived' = Total /\ Left' = far + 1 /\ Total' = Total
  BY <1>2, <1>3 DEF PeerSends, Arrived, Left, Total
<1>6. ASSUME NEW i \in 1..(Len(wire) + 1)
      PROVE  wire'[i] = Total + i
  <2>1. CASE i \in 1..Len(wire)
    BY <1>2, <1>4, <2>1 DEF Lined, Arrived
  <2>2. CASE i = Len(wire) + 1
    BY <1>1, <1>2, <1>4, <2>2
  <2> QED
    BY <1>1, <2>1, <2>2
<1>7. Lined'
  BY <1>1, <1>2, <1>4, <1>5, <1>6 DEF Lined, PeerSends
<1>8. TypeOK'
  <2>1. Len(Stream') = 2 * Size /\ far' \in 0..(2 * Size) /\ Len(wire') <= Capacity
    BY <1>1, <1>3, <1>4 DEF Stream, Bytes
  <2> QED
    BY <1>4, <2>1 DEF TypeOK, PeerSends
<1> QED
  BY <1>7, <1>8

\* The peer receives the oldest byte in the connection.
LEMMA PeerReceivesInOrder ==
  ASSUME SockIOAssumption, TypeOK, Lined, PeerReceives
  PROVE  TypeOK' /\ Lined'
<1>1. /\ wire \in Seq(Nat) /\ wire # <<>> /\ far \in Nat /\ Total \in Nat
      /\ Size \in Nat /\ Len(wire) \in Nat \ {0} /\ Capacity \in Nat
      /\ Len(Stream) = 2 * Size
  BY StreamLength, LenProperties, EmptySeq DEF TypeOK, Total, SockIOAssumption, PeerReceives
<1>2. dir = "write" /\ Total = far + Len(wire)
  BY DEF PeerReceives, Lined, Arrived, Left
<1>3. wire' = Tail(wire) /\ far' = far + 1
  BY DEF PeerReceives
<1>4. /\ wire' \in Seq(Nat) /\ Len(wire') = Len(wire) - 1
      /\ \A i \in 1..(Len(wire) - 1) : wire'[i] = wire[i + 1]
  BY <1>1, <1>3, HeadTailProperties
<1>5. Arrived' = far + 1 /\ Left' = Total /\ Total' = Total
  BY <1>2, <1>3 DEF PeerReceives, Arrived, Left, Total
<1>6. ASSUME NEW i \in 1..(Len(wire) - 1)
      PROVE  wire'[i] = far + 1 + i
  <2>1. i + 1 \in 1..Len(wire)
    BY <1>1
  <2>2. wire[i + 1] = far + (i + 1)
    BY <1>2, <2>1 DEF Lined, Arrived
  <2> QED
    BY <1>1, <1>4, <2>2
<1>7. Lined'
  BY <1>1, <1>2, <1>4, <1>5, <1>6 DEF Lined, PeerReceives
<1>8. TypeOK'
  <2>1. /\ Len(Stream') = 2 * Size /\ far' \in 0..(2 * Size)
        /\ Len(wire') <= Capacity
    BY <1>1, <1>2, <1>3, <1>4 DEF Stream, Bytes, TypeOK, Lined
  <2> QED
    BY <1>4, <2>1 DEF TypeOK, PeerReceives
<1> QED
  BY <1>7, <1>8

-----------------------------------------------------------------------------
(* The theorems.                                                           *)

LEMMA InitIInv ==
  ASSUME SockIOAssumption, Init
  PROVE  IInv
<1>1. Size \in Nat /\ Capacity \in Nat /\ Patience \in Nat
  BY DEF SockIOAssumption
<1>2. moved = <<>> /\ wire = <<>> /\ Len(moved) = 0 /\ Len(wire) = 0
  BY EmptySeq DEF Init
<1>3. TypeOK
  BY <1>1, <1>2, StreamLength, EmptySeq DEF Init, TypeOK
<1>4. Lined
  BY <1>1, <1>2 DEF Init, Lined, Total, Arrived, Left
<1>5. Counted
  BY DEF Init, Counted, PatientWithThePeer
<1> QED
  BY <1>3, <1>4, <1>5 DEF IInv

LEMMA NextIInv ==
  ASSUME SockIOAssumption, IInv, [Next]_vars
  PROVE  IInv'
<1>1. /\ TypeOK /\ Lined /\ Counted /\ Patience \in Nat /\ Size \in Nat
      /\ cnt \in Nat /\ silent \in Nat /\ Stream' = Stream
  BY DEF IInv, TypeOK, SockIOAssumption, Stream, Bytes
<1>2. LET more == Least(silent + 1, Patience + 2)
      IN /\ more \in 0..(Patience + 2)
         /\ more = silent + 1 \/ more = Patience + 2
  <2>1. silent + 1 \in Nat /\ Patience + 2 \in Nat
    BY <1>1
  <2> QED
    BY <2>1, LeastProperties
<1>3. CASE Progress
  <2>1. PICK j \in 1..Request : CallReads(j) \/ CallWrites(j)
    BY <1>3 DEF Progress
  <2>2. /\ status = "running" /\ Calling /\ UNCHANGED <<dir, far, status>>
        /\ cnt' = 1 /\ silent' = 0 /\ UNCHANGED alive
    BY <1>3 DEF Progress, Calling
  <2>3. /\ moved' \in Seq(Nat) /\ wire' \in Seq(Nat) /\ Len(wire') <= Capacity
        /\ Lined'
    BY <1>1, <2>1, <2>2, ReadsInOrder, WritesInOrder
  <2>4. TypeOK'
    BY <1>1, <2>2, <2>3 DEF TypeOK
  <2>5. Counted'
    BY <2>2 DEF Counted, PatientWithThePeer
  <2> QED
    BY <2>3, <2>4, <2>5 DEF IInv
<1>4. CASE Retry
  <2>1. Lined'
    BY <1>1, <1>4 DEF Retry, Lined, Total, Arrived, Left
  <2>2. TypeOK'
    BY <1>1, <1>2, <1>4 DEF TypeOK, Retry
  <2>3. Counted'
    BY <1>1, <1>2, <1>4 DEF Retry, Calling, Counted, PatientWithThePeer, TypeOK
  <2> QED
    BY <2>1, <2>2, <2>3 DEF IInv
<1>5. CASE GiveUp
  <2>1. Lined'
    BY <1>1, <1>5 DEF GiveUp, Lined, Total, Arrived, Left
  <2>2. TypeOK'
    BY <1>1, <1>2, <1>5 DEF TypeOK, GiveUp
  <2>3. silent' >= Patience + 1
    <3>1. cnt <= silent + 1 /\ cnt > Patience
      BY <1>1, <1>5 DEF GiveUp, Calling, Counted
    <3> QED
      BY <1>1, <1>2, <1>5, <3>1 DEF GiveUp
  <2>4. Counted'
    BY <1>5, <2>3 DEF GiveUp, Counted, PatientWithThePeer
  <2> QED
    BY <2>1, <2>2, <2>4 DEF IInv
<1>6. CASE Fatal
  BY <1>1, <1>6 DEF IInv, Fatal, TypeOK, Lined, Total, Arrived, Left, Counted, PatientWithThePeer
<1>7. CASE Success
  <2>1. Total = Size
    BY <1>1, <1>7, LenProperties DEF Success, Lined, Total, TypeOK
  <2> QED
    BY <1>1, <1>7, <2>1 DEF IInv, Success, TypeOK, Lined, Total, Arrived, Left, Counted, PatientWithThePeer
<1>8. CASE PeerSends
  <2>1. TypeOK' /\ Lined'
    BY <1>1, <1>8, PeerSendsInOrder
  <2>2. Counted'
    BY <1>1, <1>8 DEF PeerSends, Counted, PatientWithThePeer
  <2> QED
    BY <2>1, <2>2 DEF IInv
<1>9. CASE PeerReceives
  <2>1. TypeOK' /\ Lined'
    BY <1>1, <1>9, PeerReceivesInOrder
  <2>2. Counted'
    BY <1>1, <1>9 DEF PeerReceives, Counted, PatientWithThePeer
  <2> QED
    BY <2>1, <2>2 DEF IInv
<1>10. CASE PeerGoes
  BY <1>1, <1>10 DEF IInv, PeerGoes, TypeOK, Lined, Total, Arrived, Left, Counted, PatientWithThePeer
<1>11. CASE UNCHANGED vars
  BY <1>1, <1>11 DEF IInv, vars, TypeOK, Lined, Total, Arrived, Left, Counted, PatientWithThePeer
<1> QED
  BY <1>3, <1>4, <1>5, <1>6, <1>7, <1>8, <1>9, <1>10, <1>11 DEF Next, Loop, Peer

\* The inductive invariant holds in every state.
LEMMA Inductive == Spec => []IInv
<1>1. Init => IInv
  BY SockIOAssumption, InitIInv
<1>2. IInv /\ [Next]_vars => IInv'
  BY SockIOAssumption, NextIInv
<1> QED
  BY <1>1, <1>2, PTL DEF Spec

\* The counter of timeouts and the numbers of bytes stay in their ranges.
THEOREM SockIOTypeCorrect == Spec => []TypeOK
<1>1. IInv => TypeOK
  BY DEF IInv
<1> QED
  BY <1>1, Inductive, PTL

\* read_sock() and write_sock() move each byte once and in order, however the
\* calls split them, and report success only when all of them have moved.
THEOREM InOrderHolds == Spec => []InOrder
<1>1. IInv => InOrder
  BY SockIOAssumption, LinedIsInOrder DEF IInv
<1> QED
  BY <1>1, Inductive, PTL

\* They do not give up on a peer that is there before Patience + 1 calls in a
\* row have moved nothing.
THEOREM PatientHolds == Spec => []PatientWithThePeer
<1>1. IInv => PatientWithThePeer
  BY DEF IInv, Counted
<1> QED
  BY <1>1, Inductive, PTL

-----------------------------------------------------------------------------
(* From the configuration file to the servers: Config.                     *)

LinesOf(key) == {i \in 1..(at - 1) : file[i].key = key}
Value(key) == file[LastLine(key)].value

\* While the file is read, or at the line that stops the program.
Reading == conf_pc \in {"parse", "clients"} \/ (conf_pc = "error" /\ at <= Len(file))

Placed ==
  /\ file \in ConfigFiles /\ at \in 1..(Len(file) + 1)
  /\ cfg \in [Keys -> Int] /\ names \in Nat
  /\ conf_pc = "clients" =>
       /\ at <= Len(file) /\ ssl /\ row \in 1..(Len(Rows) + 1)
       /\ Line.key = "allowed_clients" /\ Line.value.word = "clients"
  /\ conf_pc \in {"args", "exit", "start", "running"} => at = Len(file) + 1
  /\ conf_pc # "running" => servers = <<>>

\* The last line with a key is known.
LastKnown ==
  \A key \in Keys :
    IF LastLine(key) = 0 THEN LinesOf(key) = {}
    ELSE LastLine(key) \in LinesOf(key) /\ \A j \in LinesOf(key) : j <= LastLine(key)

\* An option holds what its last line says, and is not set before.
Held ==
  Reading =>
    \A key \in Keys \ {"allowed_clients"} :
      IF LastLine(key) = 0 \/ (key \in CertKeys /\ ~ssl)
      THEN cfg[key] = IF key \in BoolKeys THEN -1 ELSE 0
      ELSE cfg[key] \in Outcomes(key, Value(key)) /\ cfg[key] # Error

\* The program stops only at a line that it cannot take.
Refused ==
  conf_pc = "error" /\ at <= Len(file) /\ Line.utf8 /\ Line.key \in NumericKeys
    => Line.value.word = "empty" \/ Error \in Outcomes(Line.key, Line.value)

\* A client is counted when there is one, or in a loop that does not end.
Counting ==
  conf_pc = "clients" /\ names > 0 =>
    \/ \E r \in 1..(row - 1) : Rows[r] = "name"
    \/ row <= Len(Rows) /\ Rows[row] = "blank"

\* What a TLS server needs comes from the file.
Needed ==
  /\ \A key \in CertKeys : cfg[key] = 1 => LastLine(key) # 0
  /\ cfg["allowed_clients"] > 0 =>
       /\ ssl /\ LastLine("allowed_clients") # 0
       /\ \E r \in DOMAIN Value("allowed_clients").rows : Value("allowed_clients").rows[r] = "name"

\* The plaintext mode as the file decides it.
Modes ==
  conf_pc \in {"args", "start", "running"} =>
    (cfg["insecure_mode_enabled"] = 1
       <=> \/ Says("insecure_mode_enabled", 1)
           \/ LastLine("insecure_mode_enabled") = 0 /\ ~Says("secure_mode_enabled", 1))

Serving ==
  conf_pc = "running" =>
    /\ "plain" \in DOMAIN servers <=> cfg["insecure_mode_enabled"] = 1
    /\ \A s \in DOMAIN servers \ {"plain"} : servers[s] = "listening" => HasKeys

ConfigInv ==
  /\ Placed /\ LastKnown /\ Held /\ Refused /\ Counting /\ Needed
  /\ VersionsInForce /\ Modes /\ Serving

-----------------------------------------------------------------------------
\* Numbers: a bound on a quotient is one on the product.
LEMMA DivBound ==
  \A n \in Nat, m \in Nat, f \in Nat \ {0} :
    /\ n > m \div f <=> n * f > m
    /\ n <= n * f
OBVIOUS

LEMMA TimesNotZero ==
  \A a, b \in Nat \ {0} : a * b \in Nat \ {0}
OBVIOUS

LEMMA OneNotZero == 1 \in Nat \ {0}
OBVIOUS

LEMMA FactorNotZero ==
  ASSUME NEW x \in {"", "k", "m", "g", "t"}
  PROVE  Factor(x) \in Nat \ {0}
<1> DEFINE one == Kilo
           two == Kilo * Kilo
           three == Kilo * Kilo * Kilo
           four == Kilo * Kilo * Kilo * Kilo
           Good(n) == n \in Nat \ {0}
<1>1. Good(one)
  BY ConfigAssumption
<1>2. Good(two)
  BY <1>1, TimesNotZero
<1>3. Good(three)
  BY <1>1, <1>2, TimesNotZero
<1>4. Good(four)
  BY <1>1, <1>3, TimesNotZero
<1>5. Good(1)
  BY OneNotZero
<1>6. Factor(x) \in {1, one, two, three, four}
  <2> HIDE DEF one, two, three, four
  <2>1. Factor(x) = CASE x = "" -> 1 [] x = "k" -> one [] x = "m" -> two
                      [] x = "g" -> three [] x = "t" -> four
    BY DEF Factor, one, two, three, four
  <2> QED
    BY <2>1
<1> HIDE DEF one, two, three, four, Good
<1>7. Good(Factor(x))
  BY <1>1, <1>2, <1>3, <1>4, <1>5, <1>6
<1> QED
  BY <1>7 DEF Good

LEMMA NoFactor == Factor("") = 1
BY DEF Factor

\* What the widths are.
LEMMA Widths ==
  /\ Size64 \in Nat \ {0} /\ MaxInt64 \in Nat /\ Limit64 \in Nat
  /\ Limit64 <= MaxInt64 /\ MaxInt64 <= Size64 - 1
  /\ MaxUint32 \in Nat \ {0} /\ MaxUint16 \in Nat /\ ProtoMax <= MaxUint16
<1>1. /\ Size64 \in Nat \ {0} /\ Size64 % 8 = 0
      /\ Size32 \in Nat \ {0, 1} /\ Size16 \in Nat \ {0}
      /\ ProtoMax \in Nat /\ ProtoMax < Size16
  BY ConfigAssumption
<1> QED
  BY <1>1 DEF MaxInt64, Limit64, MaxUint32, MaxUint16

LEMMA SignedIs ==
  \A n \in Nat : n <= MaxInt64 => Signed64(n) = n
<1>1. Size64 \in Nat \ {0}
  BY ConfigAssumption
<1> QED
  BY <1>1 DEF Signed64, MaxInt64

LEMMA SignedInt ==
  \A n \in Int : Signed64(n) \in Int
<1>1. Size64 \in Nat \ {0}
  BY ConfigAssumption
<1> QED
  BY <1>1 DEF Signed64

LEMMA StrtoullIs ==
  ASSUME NEW v, v.n \in Nat
  PROVE  /\ Strtoull(v) \in Int
         /\ ~v.neg /\ v.n <= MaxInt64 => Strtoull(v) = v.n
<1> DEFINE n == v.n
           minus == v.neg
<1>1. Strtoull(v) = IF n > Size64 - 1 THEN Size64 - 1
                    ELSE IF minus THEN (Size64 - n) % Size64 ELSE n
  BY DEF Strtoull
<1>2. n \in Nat /\ Size64 \in Nat \ {0} /\ MaxInt64 <= Size64 - 1 /\ MaxInt64 \in Nat
  BY Widths
<1> HIDE DEF n, minus
<1>3. (Size64 - n) % Size64 \in Int
  BY <1>2
<1>4. Strtoull(v) \in Int
  BY <1>1, <1>2, <1>3
<1>5. ~minus /\ n <= MaxInt64 => Strtoull(v) = n
  <2>1. n <= MaxInt64 => ~(n > Size64 - 1)
    BY <1>2
  <2> QED
    BY <1>1, <2>1, Zenon
<1> QED
  BY <1>4, <1>5 DEF n, minus

\* What the code takes, its two exceptions from the comments included.
Accepts(key, v) ==
  CASE key \in Uint16Keys -> Suffixed(v, {""}) /\ v.n <= MaxUint16
    [] key \in Uint32Keys -> Suffixed(v, {"", "k", "m", "g"}) /\ Meaning64(v) \in 1..(MaxUint32 - 1)
    [] key \in Int64Keys ->
         /\ Suffixed(v, {"", "k", "m", "g", "t"})
         /\ Meaning64(v) \in 1..(IF v.suffix = "" THEN MaxInt64 ELSE Limit64)

\* set_int64(): the value of a number without a sign is what it says, or it
\* is refused.
LEMMA SetInt64Is ==
  ASSUME NEW v, v.word = "number" => v.n \in Nat
  PROVE  /\ SetInt64(v) \subseteq Int
         /\ Honest(v) => SetInt64(v) = {IF Accepts("max_file_size", v) THEN Meaning64(v) ELSE Error}
<1> DEFINE allowed == {"", "k", "m", "g", "t"}
           Fits == Meaning64(v) \in 1..(IF v.suffix = "" THEN MaxInt64 ELSE Limit64)
<1>t. Accepts("max_file_size", v) <=> Suffixed(v, allowed) /\ Fits
  BY DEF Accepts, Uint16Keys, Uint32Keys, Int64Keys
<1>1. CASE ~Suffixed(v, allowed)
  <2>1. SetInt64(v) = {Error}
    BY <1>1, Zenon DEF SetInt64
  <2>2. Error \in Int
    BY DEF Error
  <2> QED
    BY <1>1, <1>t, <2>1, <2>2, Zenon
<1>2. CASE Suffixed(v, allowed)
  <2> DEFINE f == Factor(v.suffix)
             n == v.n
             plain == v.suffix = ""
             value == Signed64(Strtoull(v))
             product == value * f
             wrapped == Signed64(product)
             large == TooLarge64(value, v.suffix)
             result(x) == IF x <= 0 THEN Error ELSE x
  <2>1. n \in Nat /\ v.suffix \in allowed
    BY <1>2 DEF Suffixed
  <2>2. f \in Nat \ {0} /\ (plain => f = 1)
    BY <2>1, FactorNotZero, NoFactor
  <2>5. value \in Int
    BY <2>1, StrtoullIs, SignedInt
  <2>7. SetInt64(v) = IF large THEN {Error}
                      ELSE IF product = wrapped THEN {result(product)}
                      ELSE {Error, result(wrapped)}
    BY <1>2 DEF SetInt64
  <2>l. large <=> ~plain /\ value > Limit64 \div f
    BY DEF TooLarge64
  <2>m. Meaning64(v) = n * f
    BY DEF Meaning64
  <2>n. Fits <=> Meaning64(v) \in 1..(IF plain THEN MaxInt64 ELSE Limit64)
    OBVIOUS
  <2> HIDE DEF Fits, f, plain, n, large
  <2>h. Honest(v) => n <= MaxInt64 /\ value = n
    BY <2>1, StrtoullIs, SignedIs DEF Honest, n
  <2> HIDE DEF value
  <2>6. product \in Int
    BY <2>2, <2>5
  <2> HIDE DEF product
  <2>9. wrapped \in Int
    BY <2>6, SignedInt
  <2>8. SetInt64(v) \subseteq Int
    <3> HIDE DEF wrapped
    <3> QED
      BY <2>6, <2>7, <2>9 DEF Error
  <2>10. ASSUME Honest(v)
         PROVE  SetInt64(v) = {IF Fits THEN Meaning64(v) ELSE Error}
    <3>1. n \in Nat /\ n <= MaxInt64 /\ value = n
      BY <2>1, <2>h, <2>10
    <3>5. product = Meaning64(v)
      BY <2>m, <3>1 DEF product
    <3>6. n > Limit64 \div f <=> product > Limit64
      BY <2>2, <3>1, Widths, DivBound DEF product
    <3>7. product \in Nat /\ (plain => product = n)
      BY <2>2, <3>1 DEF product
    <3>8. CASE large
      <4>1. ~plain /\ product > Limit64
        BY <2>l, <3>1, <3>6, <3>8
      <4>2. ~Fits
        BY <2>n, <3>5, <4>1, Widths
      <4> QED
        BY <2>7, <3>8, <4>2
    <3>9. CASE ~large
      <4>1. product <= (IF plain THEN MaxInt64 ELSE Limit64)
        BY <2>l, <3>1, <3>6, <3>7, <3>9, Widths
      <4>2. product <= MaxInt64
        BY <3>7, <4>1, Widths
      <4>3. wrapped = product
        BY <3>7, <4>2, SignedIs
      <4> HIDE DEF wrapped
      <4>4. SetInt64(v) = {result(product)}
        BY <2>7, <3>9, <4>3
      <4>5. Fits <=> ~(product <= 0)
        BY <2>n, <3>5, <3>7, <4>1, Widths
      <4> QED
        BY <3>5, <4>4, <4>5
    <3> QED
      BY <3>8, <3>9
  <2> QED
    BY <1>2, <1>t, <2>8, <2>10
<1> QED
  BY <1>1, <1>2

\* set_uint32()
LEMMA SetUint32Is ==
  ASSUME NEW v, v.word = "number" => v.n \in Nat
  PROVE  /\ SetUint32(v) \subseteq Int
         /\ Honest(v) => SetUint32(v) = {IF Accepts("max_text_length", v) THEN Meaning64(v) ELSE Error}
<1> DEFINE allowed == {"", "k", "m", "g"}
           Fits == Meaning64(v) \in 1..(MaxUint32 - 1)
<1>t. Accepts("max_text_length", v) <=> Suffixed(v, allowed) /\ Fits
  BY DEF Accepts, Uint16Keys, Uint32Keys, Int64Keys
<1>1. CASE ~Suffixed(v, allowed)
  <2>1. SetUint32(v) = {Error}
    BY <1>1, Zenon DEF SetUint32
  <2>2. Error \in Int
    BY DEF Error
  <2> QED
    BY <1>1, <1>t, <2>1, <2>2, Zenon
<1>2. CASE Suffixed(v, allowed)
  <2> DEFINE f == Factor(v.suffix)
             n == v.n
             value == Signed64(Strtoull(v))
             product == value * f
             large == value > (MaxUint32 - 1) \div f
             bad == value \notin 0..(MaxUint32 - 1) \/ large
                    \/ product <= 0 \/ product >= MaxUint32
  <2>1. n \in Nat /\ v.suffix \in {"", "k", "m", "g", "t"}
    BY <1>2 DEF Suffixed
  <2>2. f \in Nat \ {0}
    BY <2>1, FactorNotZero
  <2>3. value \in Int
    BY <2>1, StrtoullIs, SignedInt
  <2>4. SetUint32(v) = IF bad THEN {Error} ELSE {product}
    BY <1>2 DEF SetUint32
  <2>5. Meaning64(v) = n * f
    BY DEF Meaning64
  <2> HIDE DEF f, n
  <2>6. Honest(v) => n <= MaxInt64 /\ value = n
    BY <2>1, StrtoullIs, SignedIs DEF Honest, n
  <2> HIDE DEF value
  <2>7. product \in Int
    BY <2>2, <2>3
  <2>8. SetUint32(v) \subseteq Int
    <3> HIDE DEF product, bad
    <3> QED
      BY <2>4, <2>7 DEF Error
  <2>9. ASSUME Honest(v)
        PROVE  SetUint32(v) = {IF Fits THEN Meaning64(v) ELSE Error}
    <3>1. n \in Nat /\ value = n
      BY <2>1, <2>6, <2>9
    <3>2. MaxUint32 - 1 \in Nat
      BY Widths
    <3>3. (n > (MaxUint32 - 1) \div f <=> n * f > MaxUint32 - 1) /\ n <= n * f
      BY <2>2, <3>1, <3>2, DivBound
    <3>4. product = Meaning64(v) /\ product = n * f
      BY <2>5, <3>1
    <3>5. product \in Nat
      BY <2>2, <3>1, <3>4
    <3> HIDE DEF product
    <3>6. large <=> product > MaxUint32 - 1
      BY <3>1, <3>3, <3>4
    <3> HIDE DEF large
    <3>7. bad <=> ~Fits
      BY <3>1, <3>2, <3>3, <3>4, <3>5, <3>6, Widths
    <3> HIDE DEF bad, Fits
    <3> QED
      BY <2>4, <3>4, <3>7
  <2> QED
    BY <1>2, <1>t, <2>8, <2>9
<1> QED
  BY <1>1, <1>2

\* set_uint16()
LEMMA SetUint16Is ==
  ASSUME NEW v, v.word = "number" => v.n \in Nat,
         NEW key \in Uint16Keys
  PROVE  /\ SetUint16(v) \subseteq Int
         /\ Honest(v) => SetUint16(v) = {IF Accepts(key, v) THEN Meaning64(v) ELSE Error}
         /\ \A r \in SetUint16(v) : r # Error => r = v.n \/ (r = 0 /\ v.n = 0)
<1> DEFINE n == v.n
           minus == v.neg
           value == IF minus THEN -n ELSE n
           good == Suffixed(v, {""})
<1>t. Accepts(key, v) <=> good /\ n <= MaxUint16
  BY DEF Accepts, Uint16Keys, Uint32Keys, Int64Keys
<1>1. SetUint16(v) = IF ~good \/ value \notin 0..MaxUint16 THEN {Error} ELSE {value}
  BY DEF SetUint16
<1>2. good => n \in Nat /\ Meaning64(v) = n
  <2>1. good => n \in Nat /\ v.suffix = ""
    BY DEF Suffixed
  <2>2. good => Meaning64(v) = n * 1
    BY <2>1, NoFactor DEF Meaning64
  <2>3. \A x \in Nat : x * 1 = x
    OBVIOUS
  <2> HIDE DEF n, good
  <2>4. good => n * 1 = n
    BY <2>1, <2>3, Zenon
  <2> QED
    BY <2>1, <2>2, <2>4, Zenon
<1>3. Honest(v) => ~minus
  BY DEF Honest
<1> HIDE DEF n, minus, good
<1>4. good => value \in Int
  BY <1>2
<1>5. good /\ ~minus => value = n
  OBVIOUS
<1>6. good /\ value \in 0..MaxUint16 => value = n
  BY <1>2
<1>7. Honest(v) /\ good => (value \in 0..MaxUint16 <=> n <= MaxUint16)
  BY <1>2, <1>3, <1>5, Widths
<1>8. Error \in Int
  BY DEF Error
<1> HIDE DEF value
<1> QED
  BY <1>1, <1>2, <1>3, <1>4, <1>5, <1>6, <1>7, <1>8, <1>t DEF n

\* set_is_true() and load_file()
LEMMA SetIsTrueIs ==
  ASSUME NEW v
  PROVE  \/ SetIsTrue(v) = {1}
         \/ SetIsTrue(v) = {0}
         \/ SetIsTrue(v) = {Error}
BY Zenon DEF SetIsTrue

LEMMA LoadFileIs ==
  ASSUME NEW v
  PROVE  LoadFile(v) = {1} \/ LoadFile(v) = {Error}
BY Zenon DEF LoadFile

\* What the line of an option makes of it.
LEMMA OutcomesAre ==
  ASSUME NEW v, v.word = "number" => v.n \in Nat,
         NEW key \in Keys \ {"allowed_clients"}
  PROVE  /\ Outcomes(key, v) \subseteq Int
         /\ key \in NumericKeys /\ Honest(v) =>
              Outcomes(key, v) = {IF Accepts(key, v) THEN Meaning64(v) ELSE Error}
<1>1. /\ key \in BoolKeys => Outcomes(key, v) = SetIsTrue(v)
      /\ key \in Uint16Keys => Outcomes(key, v) = SetUint16(v)
      /\ key \in Uint32Keys => Outcomes(key, v) = SetUint32(v)
      /\ key \in Int64Keys => Outcomes(key, v) = SetInt64(v)
      /\ key \in CertKeys => Outcomes(key, v) = LoadFile(v)
  BY DEF Outcomes, BoolKeys, Uint16Keys, Uint32Keys, Int64Keys, CertKeys
<1>2. Error \in Int /\ 0 \in Int /\ 1 \in Int
  BY DEF Error
<1>3. CASE key \in BoolKeys
  <2>1. key \notin NumericKeys
    BY <1>3 DEF BoolKeys, NumericKeys, Uint16Keys, Uint32Keys, Int64Keys
  <2> QED
    BY <1>1, <1>2, <1>3, <2>1, SetIsTrueIs, Zenon
<1>4. CASE key \in CertKeys
  <2>1. key \notin NumericKeys
    BY <1>4 DEF CertKeys, NumericKeys, Uint16Keys, Uint32Keys, Int64Keys
  <2> QED
    BY <1>1, <1>2, <1>4, <2>1, LoadFileIs, Zenon
<1>5. CASE key \in Uint16Keys
  BY <1>1, <1>5, SetUint16Is
<1>6. CASE key \in Uint32Keys
  <2>1. key = "max_text_length"
    BY <1>6 DEF Uint32Keys
  <2> QED
    BY <1>1, <1>6, <2>1, SetUint32Is
<1>7. CASE key \in Int64Keys
  <2>1. key = "max_file_size"
    BY <1>7 DEF Int64Keys
  <2> QED
    BY <1>1, <1>7, <2>1, SetInt64Is
<1> QED
  BY <1>3, <1>4, <1>5, <1>6, <1>7 DEF Keys, NumericKeys

-----------------------------------------------------------------------------
\* Lines.
LEMMA SameLines ==
  ASSUME file' = file, at' = at
  PROVE  /\ \A key \in Keys : LastLine(key)' = LastLine(key) /\ Value(key)' = Value(key)
         /\ LastKnown => LastKnown'
<1>1. \A key \in Keys : LastLine(key)' = LastLine(key)
  BY DEF LastLine
<1>2. \A key \in Keys : LinesOf(key)' = LinesOf(key)
  BY DEF LinesOf
<1>3. \A key \in Keys : Value(key)' = Value(key)
  BY <1>1 DEF Value
<1> QED
  BY <1>1, <1>2, <1>3 DEF LastKnown

LEMMA NextLine ==
  ASSUME Placed, LastKnown, file' = file, at' = at + 1, NEW key \in Keys
  PROVE  /\ Line.key = key => LastLine(key)' = at /\ Value(key)' = Line.value
         /\ Line.key # key => LastLine(key)' = LastLine(key) /\ Value(key)' = Value(key)
         /\ IF LastLine(key)' = 0 THEN LinesOf(key)' = {}
            ELSE LastLine(key)' \in LinesOf(key)' /\ \A j \in LinesOf(key)' : j <= LastLine(key)'
<1>1. at \in Nat \ {0}
  BY DEF Placed
<1>2. LinesOf(key) \subseteq 1..(at - 1)
  BY DEF LinesOf
<1>3. LinesOf(key)' = {i \in 1..at : file[i].key = key}
  BY <1>1 DEF LinesOf
<1>4. LinesOf(key)' = IF Line.key = key THEN LinesOf(key) \cup {at} ELSE LinesOf(key)
  BY <1>1, <1>3 DEF LinesOf, Line
<1>5. LastLine(key)' = IF LinesOf(key)' = {} THEN 0
                       ELSE CHOOSE i \in LinesOf(key)' : \A j \in LinesOf(key)' : j <= i
  BY DEF LastLine, LinesOf
<1>6. LastLine(key) = IF LinesOf(key) = {} THEN 0
                      ELSE CHOOSE i \in LinesOf(key) : \A j \in LinesOf(key) : j <= i
  BY DEF LastLine, LinesOf
<1>7. CASE Line.key = key
  <2>1. at \in LinesOf(key)' /\ LinesOf(key)' \subseteq 1..at
    BY <1>1, <1>2, <1>4, <1>7
  <2>2. \A j \in LinesOf(key)' : j <= at
    BY <1>1, <2>1
  <2>3. LastLine(key)' \in LinesOf(key)' /\ \A j \in LinesOf(key)' : j <= LastLine(key)'
    BY <1>5, <2>1, <2>2, Zenon
  <2>4. LastLine(key)' = at
    BY <1>1, <2>1, <2>3
  <2>5. Value(key)' = Line.value
    BY <2>4 DEF Value, Line
  <2> QED
    BY <1>1, <1>7, <2>3, <2>4, <2>5
<1>8. CASE Line.key # key
  <2>1. LinesOf(key)' = LinesOf(key)
    BY <1>4, <1>8, Zenon
  <2>2. LastLine(key)' = LastLine(key)
    BY <1>5, <1>6, <2>1, Zenon
  <2>3. Value(key)' = Value(key)
    BY <2>2 DEF Value
  <2>4. IF LastLine(key) = 0 THEN LinesOf(key) = {}
        ELSE LastLine(key) \in LinesOf(key) /\ \A j \in LinesOf(key) : j <= LastLine(key)
    BY DEF LastKnown
  <2> QED
    BY <1>8, <2>1, <2>2, <2>3, <2>4, Zenon
<1> QED
  BY <1>7, <1>8

\* The contents of a line.
LEMMA LineTyped ==
  ASSUME Placed, NEW i \in 1..Len(file)
  PROVE  /\ file[i].value.word = "number" => file[i].value.n \in Nat
         /\ file[i].value.word = "clients" =>
              /\ Len(file[i].value.rows) \in Nat
              /\ DOMAIN file[i].value.rows = 1..Len(file[i].value.rows)
BY ConfigAssumption DEF Placed

\* A line that is read, with what it sets, if it sets anything.
LEMMA LineStep ==
  ASSUME ConfigInv, Parsing, file' = file, at' = at + 1, ssl' = ssl, names' = names,
         conf_pc' = "parse", servers' = servers,
         \/ /\ cfg' = cfg
            /\ Line.key \notin Keys \/ (~ssl /\ Line.key \in CertKeys \cup {"allowed_clients"})
         \/ /\ Line.key \in Keys \ {"allowed_clients"}
            /\ ssl \/ Line.key \notin CertKeys
            /\ \E r \in Outcomes(Line.key, Line.value) :
                 r # Error /\ cfg' = [cfg EXCEPT ![Line.key] = r]
  PROVE  ConfigInv'
<1>1. Placed /\ LastKnown /\ Held /\ Needed
  BY DEF ConfigInv
<1>2. /\ at \in Nat \ {0} /\ Len(file) \in Nat /\ at <= Len(file)
      /\ cfg \in [Keys -> Int] /\ servers = <<>> /\ conf_pc = "parse"
  BY <1>1, ConfigAssumption DEF Placed, Parsing
<1>3. \A key \in Keys :
        /\ Line.key = key => LastLine(key)' = at /\ Value(key)' = Line.value
        /\ Line.key # key => LastLine(key)' = LastLine(key) /\ Value(key)' = Value(key)
        /\ IF LastLine(key)' = 0 THEN LinesOf(key)' = {}
           ELSE LastLine(key)' \in LinesOf(key)' /\ \A j \in LinesOf(key)' : j <= LastLine(key)'
  BY <1>1, NextLine
<1>4. at \in 1..Len(file) /\ at # 0
  BY <1>2
<1>5. Line.value.word = "number" => Line.value.n \in Nat
  BY <1>1, <1>4, LineTyped DEF Line
<1>6. cfg' \in [Keys -> Int]
  <2>1. CASE cfg' = cfg
    BY <1>2, <2>1
  <2>2. ASSUME Line.key \in Keys \ {"allowed_clients"},
               NEW r \in Outcomes(Line.key, Line.value), cfg' = [cfg EXCEPT ![Line.key] = r]
        PROVE  cfg' \in [Keys -> Int]
    <3>1. r \in Int
      BY <1>5, <2>2, OutcomesAre
    <3> QED
      BY <1>2, <2>2, <3>1
  <2> QED
    BY <2>1, <2>2
<1>7. Placed'
  <2>1. file \in ConfigFiles /\ names \in Nat
    BY <1>1 DEF Placed
  <2>2. at' \in 1..(Len(file) + 1)
    BY <1>2
  <2> QED
    BY <1>2, <1>6, <2>1, <2>2 DEF Placed
<1>8. LastKnown'
  BY <1>3 DEF LastKnown
<1>9. Held'
  <2> SUFFICES ASSUME NEW key \in Keys \ {"allowed_clients"}
               PROVE  IF LastLine(key)' = 0 \/ (key \in CertKeys /\ ~ssl)
                      THEN cfg'[key] = IF key \in BoolKeys THEN -1 ELSE 0
                      ELSE cfg'[key] \in Outcomes(key, Value(key)') /\ cfg'[key] # Error
    BY DEF Held, Outcomes, SetIsTrue, SetUint16, SetUint32, SetInt64, LoadFile
  <2>1. IF LastLine(key) = 0 \/ (key \in CertKeys /\ ~ssl)
        THEN cfg[key] = IF key \in BoolKeys THEN -1 ELSE 0
        ELSE cfg[key] \in Outcomes(key, Value(key)) /\ cfg[key] # Error
    BY <1>1, <1>2 DEF Held, Reading
  <2>2. CASE Line.key # key
    <3>1. cfg'[key] = cfg[key]
      BY <1>2, <2>2
    <3> QED
      BY <1>3, <2>1, <2>2, <3>1, Zenon
  <2>3. CASE Line.key = key
    <3>1. CASE key \in CertKeys /\ ~ssl
      <4>1. cfg' = cfg
        BY <2>3, <3>1
      <4> QED
        BY <2>1, <3>1, <4>1, Zenon
    <3>2. CASE ssl \/ key \notin CertKeys
      <4>1. PICK r \in Outcomes(Line.key, Line.value) :
              r # Error /\ cfg' = [cfg EXCEPT ![Line.key] = r]
        BY <2>3, <3>2
      <4>2. cfg'[key] = r
        BY <1>2, <2>3, <4>1
      <4> QED
        BY <1>3, <1>4, <2>3, <3>2, <4>1, <4>2, Zenon
    <3> QED
      BY <3>1, <3>2
  <2> QED
    BY <2>2, <2>3
<1>10. Needed'
  <2>1. \A key \in Keys : LastLine(key) # 0 => LastLine(key)' # 0
    BY <1>3, <1>4
  <2>2. ASSUME NEW key \in CertKeys, cfg'[key] = 1
        PROVE  LastLine(key)' # 0
    <3>1. key \in Keys
      BY DEF CertKeys, Keys
    <3>2. CASE Line.key = key
      BY <1>3, <1>4, <3>1, <3>2
    <3>3. CASE Line.key # key
      <4>1. cfg'[key] = cfg[key]
        BY <1>2, <3>1, <3>3
      <4> QED
        BY <1>1, <2>1, <2>2, <3>1, <4>1 DEF Needed
    <3> QED
      BY <3>2, <3>3
  <2>3. ASSUME cfg'["allowed_clients"] > 0
        PROVE  /\ ssl /\ LastLine("allowed_clients")' # 0
               /\ \E r \in DOMAIN Value("allowed_clients")'.rows :
                    Value("allowed_clients")'.rows[r] = "name"
    <3>1. "allowed_clients" \in Keys
      BY DEF Keys
    <3>2. cfg'["allowed_clients"] = cfg["allowed_clients"]
      BY <1>2, <3>1
    <3>3. /\ ssl /\ LastLine("allowed_clients") # 0
          /\ \E r \in DOMAIN Value("allowed_clients").rows :
               Value("allowed_clients").rows[r] = "name"
      BY <1>1, <2>3, <3>2 DEF Needed
    <3>4. Line.key # "allowed_clients"
      BY <3>1, <3>3
    <3> QED
      BY <1>3, <2>1, <3>1, <3>3, <3>4
  <2> QED
    BY <2>2, <2>3 DEF Needed
<1>11. Refused' /\ Counting' /\ VersionsInForce' /\ Modes' /\ Serving'
  BY DEF Refused, Counting, VersionsInForce, Modes, Serving
<1> QED
  BY <1>7, <1>8, <1>9, <1>10, <1>11 DEF ConfigInv

\* What the options hold, and what a server needs, while nothing of it changes.
LEMMA HeldStays ==
  ASSUME Held, Reading, ssl' = ssl,
         \A key \in Keys \ {"allowed_clients"} :
           LastLine(key)' = LastLine(key) /\ Value(key)' = Value(key) /\ cfg'[key] = cfg[key]
  PROVE  Held'
<1> SUFFICES ASSUME NEW key \in Keys \ {"allowed_clients"}
             PROVE  IF LastLine(key)' = 0 \/ (key \in CertKeys /\ ~ssl)
                    THEN cfg'[key] = IF key \in BoolKeys THEN -1 ELSE 0
                    ELSE cfg'[key] \in Outcomes(key, Value(key)') /\ cfg'[key] # Error
  BY DEF Held, Outcomes, SetIsTrue, SetUint16, SetUint32, SetInt64, LoadFile
<1>1. IF LastLine(key) = 0 \/ (key \in CertKeys /\ ~ssl)
      THEN cfg[key] = IF key \in BoolKeys THEN -1 ELSE 0
      ELSE cfg[key] \in Outcomes(key, Value(key)) /\ cfg[key] # Error
  BY DEF Held
<1> QED
  BY <1>1, Zenon

LEMMA NeededStays ==
  ASSUME Needed, ssl' = ssl,
         \A key \in Keys : LastLine(key)' = LastLine(key) /\ Value(key)' = Value(key),
         \A key \in CertKeys \cup {"allowed_clients"} : cfg'[key] = cfg[key]
  PROVE  Needed'
<1>1. \A key \in CertKeys \cup {"allowed_clients"} : key \in Keys
  BY DEF CertKeys, Keys
<1>2. \A key \in CertKeys : cfg'[key] = 1 => LastLine(key)' # 0
  BY <1>1 DEF Needed
<1>3. cfg'["allowed_clients"] = cfg["allowed_clients"]
  BY Zenon
<1>4. /\ LastLine("allowed_clients")' = LastLine("allowed_clients")
      /\ Value("allowed_clients")' = Value("allowed_clients")
  BY <1>1, Zenon
<1> QED
  BY <1>2, <1>3, <1>4 DEF Needed

\* A line that stops the program.
LEMMA StopStep ==
  ASSUME ConfigInv, conf_pc \in {"parse", "clients"}, at <= Len(file),
         file' = file, at' = at, ssl' = ssl, cfg' = cfg, names' \in Nat,
         conf_pc' = "error", servers' = servers,
         \/ ~Line.utf8
         \/ Line.key \notin NumericKeys
         \/ Line.value.word = "empty"
         \/ Line.key \in Keys \ {"allowed_clients"} /\ Error \in Outcomes(Line.key, Line.value)
  PROVE  ConfigInv'
<1>1. Placed /\ LastKnown /\ Held /\ Needed
  BY DEF ConfigInv
<1>2. /\ \A key \in Keys : LastLine(key)' = LastLine(key) /\ Value(key)' = Value(key)
      /\ LastKnown'
  BY <1>1, SameLines
<1>3. Placed'
  BY <1>1 DEF Placed
<1>4. Held'
  BY <1>1, <1>2, HeldStays DEF Reading
<1>5. Refused'
  BY DEF Refused, Line, Outcomes, SetIsTrue, SetUint16, SetUint32, SetInt64, LoadFile
<1>6. Needed'
  BY <1>1, <1>2, NeededStays
<1>7. Counting' /\ VersionsInForce' /\ Modes' /\ Serving'
  BY DEF Counting, VersionsInForce, Modes, Serving
<1> QED
  BY <1>2, <1>3, <1>4, <1>5, <1>6, <1>7 DEF ConfigInv

\* The list of clients is being read.
LEMMA ClientsStep ==
  ASSUME ConfigInv, Reading, at <= Len(file),
         file' = file, at' = at, ssl' = ssl, cfg' = cfg, names' \in Nat,
         conf_pc' = "clients", servers' = servers, servers = <<>>, ssl,
         Line.key = "allowed_clients", Line.value.word = "clients",
         row' \in 1..(Len(Rows) + 1),
         names' > 0 => \/ \E r \in 1..(row' - 1) : Rows[r] = "name"
                       \/ row' <= Len(Rows) /\ Rows[row'] = "blank"
  PROVE  ConfigInv'
<1>1. Placed /\ LastKnown /\ Held /\ Needed
  BY DEF ConfigInv
<1>2. /\ \A key \in Keys : LastLine(key)' = LastLine(key) /\ Value(key)' = Value(key)
      /\ LastKnown'
  BY <1>1, SameLines
<1>3. Line' = Line /\ Rows' = Rows
  BY DEF Line, Rows
<1>4. Placed'
  BY <1>1, <1>3 DEF Placed
<1>5. Held'
  BY <1>1, <1>2, HeldStays
<1>6. Needed'
  BY <1>1, <1>2, NeededStays
<1>7. Counting'
  BY <1>3 DEF Counting
<1>8. Refused' /\ VersionsInForce' /\ Modes' /\ Serving'
  BY DEF Refused, VersionsInForce, Modes, Serving
<1> QED
  BY <1>2, <1>4, <1>5, <1>6, <1>7, <1>8 DEF ConfigInv

\* The end of the list.
LEMMA ScanEndStep ==
  ASSUME ConfigInv, ScanEnd
  PROVE  ConfigInv'
<1>1. Placed /\ LastKnown /\ Held /\ Counting /\ Needed
  BY DEF ConfigInv
<1>2. /\ conf_pc = "clients" /\ conf_pc' = "parse" /\ at' = at + 1
      /\ row > Len(Rows) /\ cfg' = [cfg EXCEPT !["allowed_clients"] = names]
      /\ file' = file /\ names' = names /\ ssl' = ssl /\ servers' = servers
  BY DEF ScanEnd
<1>3. /\ at \in Nat \ {0} /\ at <= Len(file) /\ ssl /\ row \in 1..(Len(Rows) + 1)
      /\ cfg \in [Keys -> Int] /\ names \in Nat /\ servers = <<>> /\ file \in ConfigFiles
      /\ Line.key = "allowed_clients" /\ Line.value.word = "clients"
  BY <1>1, <1>2 DEF Placed
<1>4. Len(file) \in Nat
  BY <1>3, ConfigAssumption
<1>5. "allowed_clients" \in Keys
  BY DEF Keys
<1>6. \A key \in Keys :
        /\ Line.key = key => LastLine(key)' = at /\ Value(key)' = Line.value
        /\ Line.key # key => LastLine(key)' = LastLine(key) /\ Value(key)' = Value(key)
        /\ IF LastLine(key)' = 0 THEN LinesOf(key)' = {}
           ELSE LastLine(key)' \in LinesOf(key)' /\ \A j \in LinesOf(key)' : j <= LastLine(key)'
  BY <1>1, <1>2, NextLine
<1>7. Placed'
  <2>1. cfg' \in [Keys -> Int]
    <3>1. names \in Int
      BY <1>3
    <3> QED
      BY <1>2, <1>3, <3>1, Zenon
  <2>2. at' \in 1..(Len(file) + 1)
    BY <1>2, <1>3, <1>4
  <2> QED
    BY <1>2, <1>3, <2>1, <2>2 DEF Placed
<1>8. LastKnown'
  BY <1>6 DEF LastKnown
<1>9. Held'
  <2>1. \A key \in Keys \ {"allowed_clients"} :
          LastLine(key)' = LastLine(key) /\ Value(key)' = Value(key) /\ cfg'[key] = cfg[key]
    BY <1>2, <1>3, <1>6
  <2> QED
    BY <1>1, <1>2, <2>1, HeldStays DEF Reading
<1>10. Needed'
  <2>1. \A key \in CertKeys : key \in Keys /\ key # "allowed_clients"
    BY DEF CertKeys, Keys
  <2>2. \A key \in CertKeys : cfg'[key] = 1 => LastLine(key)' # 0
    <3>1. \A key \in CertKeys : cfg'[key] = cfg[key] /\ LastLine(key)' = LastLine(key)
      BY <1>2, <1>3, <1>6, <2>1
    <3> QED
      BY <1>1, <3>1 DEF Needed
  <2>3. cfg'["allowed_clients"] = names
    BY <1>2, <1>3, <1>5
  <2>4. LastLine("allowed_clients")' = at /\ Value("allowed_clients")' = Line.value
    BY <1>3, <1>5, <1>6
  <2>5. at # 0
    BY <1>3
  <2>6. ASSUME names > 0
        PROVE  \E r \in DOMAIN Line.value.rows : Line.value.rows[r] = "name"
    <3>1. DOMAIN Rows = 1..Len(Rows) /\ Len(Rows) \in Nat
      <4>1. at \in 1..Len(file)
        BY <1>3, <1>4
      <4> QED
        BY <1>1, <1>3, <4>1, LineTyped DEF Line, Rows
    <3>2. \E r \in 1..(row - 1) : Rows[r] = "name"
      BY <1>1, <1>2, <2>6, <1>3, <3>1 DEF Counting
    <3>3. 1..(row - 1) \subseteq DOMAIN Rows
      BY <1>3, <3>1
    <3> QED
      BY <3>2, <3>3 DEF Rows
  <2> QED
    BY <1>2, <1>3, <2>2, <2>3, <2>4, <2>5, <2>6 DEF Needed
<1>11. Refused' /\ Counting' /\ VersionsInForce' /\ Modes' /\ Serving'
  BY <1>2 DEF Refused, Counting, VersionsInForce, Modes, Serving
<1> QED
  BY <1>7, <1>8, <1>9, <1>10, <1>11 DEF ConfigInv

\* After the file, nothing of it changes.
LEMMA AfterStep ==
  ASSUME ConfigInv, file' = file, at' = at, ssl' = ssl, names' = names,
         at = Len(file) + 1, cfg' \in [Keys -> Int],
         \A key \in CertKeys \cup {"allowed_clients"} : cfg'[key] = cfg[key],
         conf_pc' \in {"args", "exit", "error", "start", "running"},
         conf_pc' # "running" => servers' = <<>>
  PROVE  /\ Placed' /\ LastKnown' /\ Held' /\ Refused' /\ Counting' /\ Needed'
         /\ \A key \in Keys : LastLine(key)' = LastLine(key) /\ Value(key)' = Value(key)
<1>1. Placed /\ LastKnown /\ Needed
  BY DEF ConfigInv
<1>2. /\ \A key \in Keys : LastLine(key)' = LastLine(key) /\ Value(key)' = Value(key)
      /\ LastKnown'
  BY <1>1, SameLines
<1>3. Len(file) \in Nat
  BY <1>1, ConfigAssumption DEF Placed
<1>4. ~(at <= Len(file))
  BY <1>3
<1>5. Placed'
  BY <1>1 DEF Placed
<1>6. Needed'
  BY <1>1, <1>2, NeededStays
<1>7. Held'
  BY <1>4 DEF Held, Reading
<1>8. Refused'
  BY <1>4 DEF Refused
<1>9. Counting'
  BY DEF Counting
<1> QED
  BY <1>2, <1>5, <1>6, <1>7, <1>8, <1>9

LEMMA ClampIs ==
  \A n \in Int : \A m \in Int :
    /\ ProtoMin <= VersionRange(n, m)[1] /\ VersionRange(n, m)[1] <= VersionRange(n, m)[2]
    /\ VersionRange(n, m)[2] <= ProtoMax
    /\ VersionRange(n, m)[1] \in Int /\ VersionRange(n, m)[2] \in Int
    /\ ProtoMin <= n /\ n <= m /\ m <= ProtoMax
         => VersionRange(n, m)[1] = n /\ VersionRange(n, m)[2] = m
<1>1. ProtoMin \in Int /\ ProtoMax \in Int /\ ProtoMin <= ProtoMax
  BY ConfigAssumption
<1> QED
  BY <1>1 DEF VersionRange, Clamp

\* What a Boolean says, as the options hold it when the file has been read.
LEMMA BooleanHeld ==
  ASSUME ConfigInv, Reading, NEW key \in BoolKeys
  PROVE  /\ LastLine(key) = 0 => cfg[key] = -1
         /\ LastLine(key) # 0 => cfg[key] \in {0, 1}
         /\ Says(key, 1) <=> cfg[key] = 1
<1>1. key \in Keys \ {"allowed_clients"} /\ key \notin CertKeys
  BY DEF BoolKeys, Keys, CertKeys
<1>2. IF LastLine(key) = 0 THEN cfg[key] = -1
      ELSE cfg[key] \in Outcomes(key, Value(key)) /\ cfg[key] # Error
  BY <1>1 DEF ConfigInv, Held
<1>3. Outcomes(key, Value(key)) = SetIsTrue(Value(key))
  BY DEF Outcomes, BoolKeys, Uint16Keys, Uint32Keys, Int64Keys, CertKeys
<1>4. Says(key, 1) <=> LastLine(key) # 0 /\ SetIsTrue(Value(key)) = {1}
  BY DEF Says, Value
<1>5. CASE LastLine(key) = 0
  BY <1>2, <1>4, <1>5
<1>6. CASE LastLine(key) # 0
  <2> DEFINE S == SetIsTrue(Value(key))
  <2>1. S = {1} \/ S = {0} \/ S = {Error}
    BY SetIsTrueIs
  <2>2. cfg[key] \in S /\ cfg[key] # Error
    BY <1>2, <1>3, <1>6
  <2> HIDE DEF S
  <2>3. (cfg[key] = 1 /\ S = {1}) \/ (cfg[key] = 0 /\ S = {0})
    BY <2>1, <2>2
  <2>4. S = {1} <=> cfg[key] = 1
    BY <2>3
  <2> QED
    BY <1>4, <1>6, <2>3, <2>4 DEF S
<1> QED
  BY <1>5, <1>6

LEMMA VersionHeld ==
  ASSUME ConfigInv, Reading, NEW key \in Uint16Keys, LastLine(key) # 0
  PROVE  Value(key).n = cfg[key] \/ (cfg[key] = 0 /\ Value(key).n = 0)
<1>1. key \in Keys \ {"allowed_clients"} /\ key \notin CertKeys
  BY DEF Uint16Keys, Int64Keys, Uint32Keys, NumericKeys, Keys, CertKeys
<1>2. cfg[key] \in Outcomes(key, Value(key)) /\ cfg[key] # Error
  BY <1>1 DEF ConfigInv, Held
<1>3. Outcomes(key, Value(key)) = SetUint16(Value(key))
  BY DEF Outcomes, BoolKeys, Uint16Keys, Uint32Keys, Int64Keys, CertKeys
<1>4. Placed /\ LastLine(key) \in LinesOf(key)
  BY <1>1 DEF ConfigInv, LastKnown
<1>5. LastLine(key) \in 1..Len(file)
  <2>1. Len(file) \in Nat /\ at \in 1..(Len(file) + 1)
    BY <1>4, ConfigAssumption DEF Placed
  <2> QED
    BY <1>4, <2>1 DEF LinesOf
<1>6. Value(key).word = "number" => Value(key).n \in Nat
  BY <1>4, <1>5, LineTyped DEF Value
<1> QED
  BY <1>2, <1>3, <1>6, SetUint16Is, Zenon

LEMMA SaysStays ==
  ASSUME file' = file, at' = at, NEW key \in Keys
  PROVE  Says(key, 1)' <=> Says(key, 1)
<1>1. LastLine(key)' = LastLine(key)
  BY DEF LastLine
<1>2. file'[LastLine(key)'] = file[LastLine(key)]
  BY <1>1
<1> QED
  BY <1>1, <1>2 DEF Says, SetIsTrue, Suffixed

\* Steps that leave the versions and the modes alone.
LEMMA VersionsStay ==
  ASSUME VersionsInForce, conf_pc \in {"args", "start", "running"}, file' = file, at' = at,
         cfg'["min_proto_version"] = cfg["min_proto_version"],
         cfg'["max_proto_version"] = cfg["max_proto_version"]
  PROVE  VersionsInForce'
<1>1. \A key \in Keys : LastLine(key)' = LastLine(key)
  BY DEF LastLine
<1>2. "min_proto_version" \in Keys /\ "max_proto_version" \in Keys
  BY DEF Keys, NumericKeys, Uint16Keys
<1>3. /\ LastLine("min_proto_version")' = LastLine("min_proto_version")
      /\ LastLine("max_proto_version")' = LastLine("max_proto_version")
  BY <1>1, <1>2
<1> QED
  BY <1>3, Zenon DEF VersionsInForce

LEMMA ModesStay ==
  ASSUME Modes, conf_pc \in {"args", "start", "running"}, file' = file, at' = at,
         cfg'["insecure_mode_enabled"] = cfg["insecure_mode_enabled"]
  PROVE  Modes'
<1>1. "insecure_mode_enabled" \in Keys /\ "secure_mode_enabled" \in Keys
  BY DEF Keys, BoolKeys
<1>2. /\ Says("insecure_mode_enabled", 1)' <=> Says("insecure_mode_enabled", 1)
      /\ Says("secure_mode_enabled", 1)' <=> Says("secure_mode_enabled", 1)
      /\ LastLine("insecure_mode_enabled")' = LastLine("insecure_mode_enabled")
  BY <1>1, SaysStays, SameLines
<1> QED
  BY <1>2, Zenon DEF Modes

\* _apply_default_conf()
LEMMA DefaultsStep ==
  ASSUME ConfigInv, ApplyDefaults
  PROVE  ConfigInv'
<1> DEFINE range == VersionRange(cfg["min_proto_version"], cfg["max_proto_version"])
           insecure == InsecureDefault(cfg["insecure_mode_enabled"], cfg["secure_mode_enabled"])
<1>1. /\ conf_pc = "parse" /\ at > Len(file) /\ conf_pc' = "args"
      /\ file' = file /\ at' = at /\ ssl' = ssl /\ names' = names /\ servers' = servers
  BY DEF ApplyDefaults
<1>2. /\ file \in ConfigFiles /\ at \in 1..(Len(file) + 1) /\ cfg \in [Keys -> Int]
      /\ servers = <<>>
  BY <1>1 DEF ConfigInv, Placed
<1>3. Len(file) \in Nat
  BY <1>2, ConfigAssumption
<1>4. at = Len(file) + 1
  BY <1>1, <1>2, <1>3
<1>5. cfg' = [cfg EXCEPT
         !["restart"] = Default(@, -1, 1),
         !["secure_mode_enabled"] = Default(@, -1, 0),
         !["insecure_mode_enabled"] = insecure,
         !["web_mode_enabled"] = Default(@, -1, 0),
         !["max_text_length"] = Default(@, 0, MaxUint32 \div 2),
         !["max_file_size"] = Default(@, 0, Limit64 \div 2),
         !["min_proto_version"] = range[1],
         !["max_proto_version"] = range[2]]
  <2>1. /\ "restart" \in Keys /\ "secure_mode_enabled" \in Keys /\ "insecure_mode_enabled" \in Keys
        /\ "web_mode_enabled" \in Keys
    BY DEF Keys, BoolKeys
  <2> QED
    BY <1>2, <2>1 DEF ApplyDefaults
<1>6. /\ range[1] \in Int /\ range[2] \in Int
      /\ cfg["min_proto_version"] \in Int /\ cfg["max_proto_version"] \in Int
  <2>1. cfg["min_proto_version"] \in Int /\ cfg["max_proto_version"] \in Int
    BY <1>2 DEF Keys, NumericKeys, Uint16Keys
  <2> QED
    BY <2>1, ClampIs
<1>7. insecure \in Int
  <2>1. cfg["insecure_mode_enabled"] \in Int
    BY <1>2 DEF Keys, BoolKeys
  <2> QED
    BY <2>1 DEF InsecureDefault, Default
<1> HIDE DEF range, insecure
<1>8. /\ cfg'["min_proto_version"] = range[1] /\ cfg'["max_proto_version"] = range[2]
      /\ cfg'["insecure_mode_enabled"] = insecure
      /\ \A key \in CertKeys \cup {"allowed_clients"} : cfg'[key] = cfg[key]
  BY <1>2, <1>5 DEF Keys, BoolKeys, NumericKeys, Uint16Keys, Uint32Keys, Int64Keys, CertKeys
<1>9. cfg' \in [Keys -> Int]
  <2>1. \A n \in Int, u \in Int, d \in Int : Default(n, u, d) \in Int
    BY DEF Default
  <2>2. MaxUint32 \div 2 \in Int /\ Limit64 \div 2 \in Int /\ -1 \in Int /\ 0 \in Int /\ 1 \in Int
    BY Widths
  <2> DEFINE half32 == MaxUint32 \div 2
             half64 == Limit64 \div 2
             minus == -1
  <2>3. /\ half32 \in Int /\ half64 \in Int /\ minus \in Int
    BY <2>2
  <2>4. \A key \in Keys : cfg[key] \in Int
    BY <1>2
  <2>5. cfg' = [cfg EXCEPT
         !["restart"] = Default(@, minus, 1),
         !["secure_mode_enabled"] = Default(@, minus, 0),
         !["insecure_mode_enabled"] = insecure,
         !["web_mode_enabled"] = Default(@, minus, 0),
         !["max_text_length"] = Default(@, 0, half32),
         !["max_file_size"] = Default(@, 0, half64),
         !["min_proto_version"] = range[1],
         !["max_proto_version"] = range[2]]
    BY <1>5
  <2> HIDE DEF half32, half64, minus
  <2> QED
    BY <1>2, <1>6, <1>7, <2>1, <2>2, <2>3, <2>4, <2>5
<1>10. /\ Placed' /\ LastKnown' /\ Held' /\ Refused' /\ Counting' /\ Needed'
       /\ \A key \in Keys : LastLine(key)' = LastLine(key) /\ Value(key)' = Value(key)
  BY <1>1, <1>2, <1>4, <1>8, <1>9, AfterStep
<1>11. VersionsInForce'
  <2> DEFINE low == cfg["min_proto_version"]
             high == cfg["max_proto_version"]
             lowLine == LastLine("min_proto_version")
             highLine == LastLine("max_proto_version")
             lowSaid == Value("min_proto_version").n
             highSaid == Value("max_proto_version").n
  <2>1. "min_proto_version" \in Keys /\ "max_proto_version" \in Keys
    BY DEF Keys, NumericKeys, Uint16Keys
  <2>2. /\ LastLine("min_proto_version")' = lowLine /\ LastLine("max_proto_version")' = highLine
        /\ Value("min_proto_version")'.n = lowSaid /\ Value("max_proto_version")'.n = highSaid
    BY <1>10, <2>1
  <2>3. lowLine # 0 => lowSaid = low \/ (low = 0 /\ lowSaid = 0)
    BY <1>1, VersionHeld DEF Reading, Uint16Keys
  <2>4. highLine # 0 => highSaid = high \/ (high = 0 /\ highSaid = 0)
    BY <1>1, VersionHeld DEF Reading, Uint16Keys
  <2>5. /\ ProtoMin <= range[1] /\ range[1] <= range[2] /\ range[2] <= ProtoMax
        /\ ProtoMin <= low /\ low <= high /\ high <= ProtoMax => range[1] = low /\ range[2] = high
    BY <1>6, ClampIs DEF range
  <2>6. VersionsInForce' <=>
          /\ ProtoMin <= cfg'["min_proto_version"]
          /\ cfg'["min_proto_version"] <= cfg'["max_proto_version"]
          /\ cfg'["max_proto_version"] <= ProtoMax
          /\ LastLine("min_proto_version")' # 0 /\ LastLine("max_proto_version")' # 0 =>
               (ProtoMin <= Value("min_proto_version")'.n
                /\ Value("min_proto_version")'.n <= Value("max_proto_version")'.n
                /\ Value("max_proto_version")'.n <= ProtoMax
                  => /\ cfg'["min_proto_version"] = Value("min_proto_version")'.n
                     /\ cfg'["max_proto_version"] = Value("max_proto_version")'.n)
    BY <1>1, Zenon DEF VersionsInForce, Value
  <2> HIDE DEF low, high, lowLine, highLine, lowSaid, highSaid
  <2> QED
    BY <1>8, <2>2, <2>3, <2>4, <2>5, <2>6, Zenon
<1>12. Modes'
  <2> DEFINE plain == cfg["insecure_mode_enabled"]
             tls == cfg["secure_mode_enabled"]
             plainLine == LastLine("insecure_mode_enabled")
             plainSays == Says("insecure_mode_enabled", 1)
             tlsSays == Says("secure_mode_enabled", 1)
  <2>1. /\ "insecure_mode_enabled" \in BoolKeys /\ "secure_mode_enabled" \in BoolKeys
        /\ "insecure_mode_enabled" \in Keys /\ "secure_mode_enabled" \in Keys
    BY DEF Keys, BoolKeys
  <2>2. Reading
    BY <1>1 DEF Reading
  <2>3. /\ plainLine = 0 => plain = -1
        /\ plainLine # 0 => plain \in {0, 1}
        /\ plainSays <=> plain = 1
    BY <2>1, <2>2, BooleanHeld
  <2>4. /\ tls \in {-1, 0, 1}
        /\ tlsSays <=> tls = 1
    BY <2>1, <2>2, BooleanHeld
  <2>5. /\ Says("insecure_mode_enabled", 1)' <=> plainSays
        /\ Says("secure_mode_enabled", 1)' <=> tlsSays
        /\ LastLine("insecure_mode_enabled")' = plainLine
    BY <1>1, <1>10, <2>1, SaysStays
  <2>6. insecure = InsecureDefault(plain, tls)
    BY DEF insecure
  <2> HIDE DEF plain, tls, plainLine, plainSays, tlsSays
  <2>7. insecure = 1 <=> plainSays \/ (plainLine = 0 /\ ~tlsSays)
    BY <2>3, <2>4, <2>6 DEF InsecureDefault, Default
  <2>8. Modes' <=> (cfg'["insecure_mode_enabled"] = 1
                      <=> \/ Says("insecure_mode_enabled", 1)'
                          \/ LastLine("insecure_mode_enabled")' = 0
                             /\ ~Says("secure_mode_enabled", 1)')
    BY <1>1, Zenon DEF Modes
  <2> QED
    BY <1>8, <2>5, <2>7, <2>8, Zenon
<1>13. Serving'
  BY <1>1 DEF Serving
<1> QED
  BY <1>10, <1>11, <1>12, <1>13 DEF ConfigInv

\* _parse_args(), kill_other_processes(), start_servers() and the servers.
LEMMA AfterDefaultsStep ==
  ASSUME ConfigInv, conf_pc \in {"args", "start", "running"},
         file' = file, at' = at, ssl' = ssl, names' = names, cfg' \in [Keys -> Int],
         \A key \in Keys \ {"restart"} : cfg'[key] = cfg[key],
         conf_pc' \in {"args", "exit", "error", "start", "running"},
         conf_pc' # "running" => servers' = <<>>,
         Serving'
  PROVE  ConfigInv'
<1>1. at = Len(file) + 1
  BY DEF ConfigInv, Placed
<1>2. \A key \in CertKeys \cup {"allowed_clients"} : cfg'[key] = cfg[key]
  BY DEF Keys, CertKeys
<1>3. Placed' /\ LastKnown' /\ Held' /\ Refused' /\ Counting' /\ Needed'
  BY <1>1, <1>2, AfterStep
<1>4. /\ cfg'["min_proto_version"] = cfg["min_proto_version"]
      /\ cfg'["max_proto_version"] = cfg["max_proto_version"]
      /\ cfg'["insecure_mode_enabled"] = cfg["insecure_mode_enabled"]
  BY DEF Keys, NumericKeys, Uint16Keys, BoolKeys
<1>5. VersionsInForce'
  BY <1>4, VersionsStay DEF ConfigInv
<1>6. Modes'
  BY <1>4, ModesStay DEF ConfigInv
<1> QED
  BY <1>3, <1>5, <1>6 DEF ConfigInv

LEMMA ServingStep ==
  ASSUME ConfigInv,
         StartServers \/ \E s \in {"plain", "tls", "web"} : ServerStarts(s)
  PROVE  ConfigInv'
<1>1. Placed /\ Serving
  BY DEF ConfigInv
<1>2. CASE StartServers
  <2> DEFINE enabled == [plain |-> "insecure_mode_enabled", tls |-> "secure_mode_enabled",
                         web |-> "web_mode_enabled"]
             chosen == {t \in DOMAIN enabled : cfg[enabled[t]] = 1}
  <2>1. /\ conf_pc = "start" /\ conf_pc' = "running" /\ file' = file /\ at' = at /\ ssl' = ssl
        /\ names' = names /\ cfg' = cfg
        /\ servers' = [s \in chosen |-> "starting"]
    BY <1>2 DEF StartServers
  <2>2. "plain" \in chosen <=> cfg["insecure_mode_enabled"] = 1
    BY DEF enabled
  <2> HIDE DEF chosen
  <2>3. /\ DOMAIN servers' = chosen
        /\ \A s \in DOMAIN servers' : servers'[s] = "starting"
    BY <2>1
  <2>4. Serving'
    BY <2>1, <2>2, <2>3 DEF Serving
  <2> QED
    BY <1>1, <2>1, <2>4, AfterDefaultsStep DEF Placed
<1>3. ASSUME NEW s \in {"plain", "tls", "web"}, ServerStarts(s)
      PROVE  ConfigInv'
  <2>1. /\ s \in DOMAIN servers /\ servers[s] = "starting"
        /\ file' = file /\ at' = at /\ ssl' = ssl /\ names' = names /\ cfg' = cfg
        /\ conf_pc' = conf_pc
    BY <1>3 DEF ServerStarts
  <2>2. conf_pc = "running"
    <3>1. servers # <<>>
      BY <2>1
    <3> QED
      BY <1>1, <3>1 DEF Placed
  <2>3. HasKeys' <=> HasKeys
    BY <2>1 DEF HasKeys
  <2>4. /\ DOMAIN servers' = DOMAIN servers
        /\ \A t \in DOMAIN servers : t # s => servers'[t] = servers[t]
        /\ servers'[s] = "listening" => s = "plain" \/ HasKeys
    BY <1>3, <2>1 DEF ServerStarts
  <2>5. /\ "plain" \in DOMAIN servers <=> cfg["insecure_mode_enabled"] = 1
        /\ \A t \in DOMAIN servers \ {"plain"} : servers[t] = "listening" => HasKeys
    BY <1>1, <2>2 DEF Serving
  <2>6. Serving'
    BY <2>1, <2>2, <2>3, <2>4, <2>5, Zenon DEF Serving
  <2> QED
    BY <1>1, <2>1, <2>2, <2>6, AfterDefaultsStep DEF Placed
<1> QED
  BY <1>2, <1>3

LEMMA ArgumentsStep ==
  ASSUME ConfigInv, ParseArg \/ KillOthers
  PROVE  ConfigInv'
<1>1. Placed
  BY DEF ConfigInv
<1>2. cfg \in [Keys -> Int] /\ "restart" \in Keys
  BY <1>1 DEF Placed, Keys, BoolKeys
<1>3. /\ conf_pc = "args" /\ file' = file /\ at' = at /\ ssl' = ssl /\ names' = names
      /\ servers' = servers /\ conf_pc' \in {"args", "exit", "error", "start"}
  BY DEF ParseArg, KillOthers
<1>4. servers = <<>>
  BY <1>1, <1>3 DEF Placed
<1>5. \/ cfg' = cfg
      \/ \E n \in Int : cfg' = [cfg EXCEPT !["restart"] = n]
  <2>1. CASE ParseArg
    <3>1. cfg' = [cfg EXCEPT !["restart"] =
                    IF Head(args) = "r" THEN 1 ELSE IF Head(args) = "R" THEN 0 ELSE @]
      BY <2>1 DEF ParseArg
    <3>2. cfg["restart"] \in Int /\ 0 \in Int /\ 1 \in Int
      BY <1>2
    <3> QED
      BY <3>1, <3>2, Zenon
  <2>2. CASE KillOthers
    BY <2>2 DEF KillOthers
  <2> QED
    BY <2>1, <2>2
<1>6. cfg' \in [Keys -> Int] /\ \A key \in Keys \ {"restart"} : cfg'[key] = cfg[key]
  BY <1>2, <1>5
<1>7. Serving'
  BY <1>3 DEF Serving
<1> QED
  BY <1>3, <1>4, <1>6, <1>7, AfterDefaultsStep

LEMMA InitConfigInv == ConfigInit => ConfigInv
<1> SUFFICES ASSUME ConfigInit PROVE ConfigInv
  OBVIOUS
<1>1. /\ file \in ConfigFiles /\ at = 1 /\ names = 0 /\ servers = <<>> /\ conf_pc = "parse"
      /\ cfg = [key \in Keys |-> IF key \in BoolKeys THEN -1 ELSE 0]
  BY DEF ConfigInit
<1>2. Len(file) \in Nat
  BY <1>1, ConfigAssumption
<1>3. \A key \in Keys : LinesOf(key) = {} /\ LastLine(key) = 0
  <2>1. 1..(at - 1) = {}
    BY <1>1
  <2> QED
    BY <2>1 DEF LinesOf, LastLine
<1>4. Placed
  BY <1>1, <1>2 DEF Placed
<1>5. LastKnown
  BY <1>3 DEF LastKnown
<1>6. Held
  BY <1>1, <1>3 DEF Held
<1>7. Needed
  <2>1. /\ \A key \in CertKeys : key \in Keys /\ key \notin BoolKeys
        /\ "allowed_clients" \in Keys /\ "allowed_clients" \notin BoolKeys
    BY DEF CertKeys, BoolKeys, Keys
  <2>2. /\ \A key \in CertKeys : cfg[key] = 0
        /\ cfg["allowed_clients"] = 0
    BY <1>1, <2>1
  <2> QED
    BY <2>2 DEF Needed
<1>8. Refused /\ Counting /\ VersionsInForce /\ Modes /\ Serving
  BY <1>1 DEF Refused, Counting, VersionsInForce, Modes, Serving
<1> QED
  BY <1>4, <1>5, <1>6, <1>7, <1>8 DEF ConfigInv

\* A turn of the loop over the list of clients.
LEMMA ScanStep ==
  ASSUME ConfigInv, ScanLine \/ ScanBlank
  PROVE  ConfigInv'
<1>1. Placed /\ Counting
  BY DEF ConfigInv
<1>2. conf_pc = "clients" /\ row <= Len(Rows)
  BY DEF ScanLine, ScanBlank
<1>3. /\ at <= Len(file) /\ ssl /\ row \in 1..(Len(Rows) + 1)
      /\ Line.key = "allowed_clients" /\ Line.value.word = "clients"
      /\ names \in Nat /\ servers = <<>>
  BY <1>1, <1>2 DEF Placed
<1>4. Len(Rows) \in Nat
  <2>1. at \in 1..Len(file)
    BY <1>1, <1>3, ConfigAssumption DEF Placed
  <2> QED
    BY <1>1, <1>3, <2>1, LineTyped DEF Line, Rows
<1>5. /\ file' = file /\ at' = at /\ ssl' = ssl /\ cfg' = cfg /\ servers' = servers
      /\ conf_pc' \in {"error", "clients"}
      /\ names' = names \/ names' = names + 1
  BY DEF ScanLine, ScanBlank, ScanTurn
<1>6. names' \in Nat
  BY <1>3, <1>5
<1>7. CASE conf_pc' = "error"
  <2>1. Line.key \notin NumericKeys
    BY <1>3 DEF NumericKeys, Uint16Keys, Uint32Keys, Int64Keys
  <2> QED
    BY <1>2, <1>3, <1>5, <1>6, <1>7, <2>1, StopStep
<1>8. CASE conf_pc' = "clients"
  <2>1. row' \in 1..(Len(Rows) + 1)
    <3>1. row' = row \/ row' = row + 1
      BY DEF ScanLine, ScanBlank
    <3> QED
      BY <1>2, <1>3, <1>4, <3>1
  <2>2. ASSUME names' > 0
        PROVE  \/ \E r \in 1..(row' - 1) : Rows[r] = "name"
               \/ row' <= Len(Rows) /\ Rows[row'] = "blank"
    <3>1. CASE ScanBlank
      <4>1. row' = row /\ Rows[row] = "blank"
        BY <3>1 DEF ScanBlank
      <4> QED
        BY <1>2, <4>1
    <3>2. CASE ScanLine
      <4>1. row' = row + 1 /\ Rows[row] # "blank"
        BY <3>2 DEF ScanLine
      <4>2. row \in 1..(row' - 1) /\ 1..(row - 1) \subseteq 1..(row' - 1)
        BY <1>3, <4>1
      <4>3. CASE Rows[row] = "name"
        BY <4>2, <4>3
      <4>4. CASE Rows[row] # "name"
        <5>1. names' = names
          BY <3>2, <4>4 DEF ScanLine, ScanTurn
        <5>2. \E r \in 1..(row - 1) : Rows[r] = "name"
          BY <1>1, <1>2, <2>2, <4>1, <5>1 DEF Counting
        <5> QED
          BY <4>2, <5>2
      <4> QED
        BY <4>3, <4>4
    <3> QED
      BY <3>1, <3>2
  <2>3. Reading
    BY <1>2 DEF Reading
  <2> QED
    BY <1>3, <1>5, <1>6, <1>8, <2>1, <2>2, <2>3, ClientsStep
<1> QED
  BY <1>5, <1>7, <1>8

LEMMA UnchangedStep ==
  ASSUME ConfigInv, UNCHANGED configVars
  PROVE  ConfigInv'
<1>1. /\ file' = file /\ at' = at /\ cfg' = cfg /\ names' = names /\ row' = row /\ ssl' = ssl
      /\ servers' = servers /\ conf_pc' = conf_pc
  BY DEF configVars
<1>2. Line' = Line /\ Rows' = Rows /\ (HasKeys' <=> HasKeys)
  BY <1>1 DEF Line, Rows, HasKeys
<1>3. /\ \A key \in Keys : LastLine(key)' = LastLine(key) /\ Value(key)' = Value(key)
      /\ LastKnown'
  BY <1>1, SameLines DEF ConfigInv
<1>4. Placed'
  BY <1>1, <1>2 DEF ConfigInv, Placed
<1>5. Held'
  <2>1. CASE Reading
    BY <1>1, <1>3, <2>1, HeldStays DEF ConfigInv
  <2>2. CASE ~Reading
    BY <1>1, <2>2 DEF Held, Reading
  <2> QED
    BY <2>1, <2>2
<1>6. Refused'
  BY <1>1, <1>2 DEF ConfigInv, Refused, Outcomes, SetIsTrue, SetUint16, SetUint32, SetInt64, LoadFile
<1>7. Counting'
  BY <1>1, <1>2 DEF ConfigInv, Counting
<1>8. Needed'
  BY <1>1, <1>3, NeededStays DEF ConfigInv
<1>9. VersionsInForce' /\ Modes'
  <2>1. CASE conf_pc \in {"args", "start", "running"}
    BY <1>1, <2>1, VersionsStay, ModesStay DEF ConfigInv
  <2>2. CASE conf_pc \notin {"args", "start", "running"}
    BY <1>1, <2>2 DEF VersionsInForce, Modes
  <2> QED
    BY <2>1, <2>2
<1>10. Serving'
  BY <1>1, <1>2 DEF ConfigInv, Serving
<1> QED
  BY <1>3, <1>4, <1>5, <1>6, <1>7, <1>8, <1>9, <1>10 DEF ConfigInv

LEMMA NextConfigInv == ConfigInv /\ [ConfigNext]_configVars => ConfigInv'
<1> SUFFICES ASSUME ConfigInv, [ConfigNext]_configVars PROVE ConfigInv'
  OBVIOUS
<1>1. Placed
  BY DEF ConfigInv
<1>2. CASE LineIgnored
  <2>1. Line.key \notin Keys
    BY <1>2 DEF LineIgnored, Keys, NumericKeys, BoolKeys, Uint16Keys, Uint32Keys, Int64Keys, CertKeys
  <2>2. /\ Parsing /\ file' = file /\ at' = at + 1 /\ ssl' = ssl /\ names' = names
        /\ conf_pc' = "parse" /\ servers' = servers /\ cfg' = cfg
    BY <1>2 DEF LineIgnored, Parsing
  <2> QED
    BY <2>1, <2>2, LineStep
<1>3. CASE LineInvalid
  <2>1. /\ conf_pc = "parse" /\ at <= Len(file) /\ file' = file /\ at' = at /\ ssl' = ssl
        /\ cfg' = cfg /\ names' = names /\ conf_pc' = "error" /\ servers' = servers
    BY <1>3 DEF LineInvalid, Parsing
  <2>2. ~Line.utf8 \/ Line.key \notin NumericKeys \/ Line.value.word = "empty"
    BY <1>3 DEF LineInvalid, NumericKeys, Uint16Keys, Uint32Keys, Int64Keys
  <2>3. names' \in Nat
    BY <1>1, <2>1 DEF Placed
  <2> QED
    BY <2>1, <2>2, <2>3, StopStep
<1>4. CASE SetOption
  <2>1. /\ Parsing /\ file' = file /\ ssl' = ssl /\ names' = names /\ servers' = servers
        /\ Line.key \in Keys \ {"allowed_clients"} /\ (ssl \/ Line.key \notin CertKeys)
    BY <1>4 DEF SetOption
  <2>2. PICK r \in Outcomes(Line.key, Line.value) :
          IF r = Error
          THEN conf_pc' = "error" /\ UNCHANGED <<at, cfg>>
          ELSE cfg' = [cfg EXCEPT ![Line.key] = r] /\ at' = at + 1 /\ UNCHANGED conf_pc
    BY <1>4 DEF SetOption
  <2>3. CASE r = Error
    <3>1. conf_pc' = "error" /\ at' = at /\ cfg' = cfg
      BY <2>2, <2>3
    <3>2. names' \in Nat /\ conf_pc = "parse" /\ at <= Len(file)
      BY <1>1, <2>1 DEF Placed, Parsing
    <3>3. Error \in Outcomes(Line.key, Line.value)
      BY <2>2, <2>3
    <3> QED
      BY <2>1, <3>1, <3>2, <3>3, StopStep
  <2>4. CASE r # Error
    <3>1. conf_pc' = "parse" /\ at' = at + 1 /\ cfg' = [cfg EXCEPT ![Line.key] = r]
      BY <2>1, <2>2, <2>4 DEF Parsing
    <3>2. \E q \in Outcomes(Line.key, Line.value) :
            q # Error /\ cfg' = [cfg EXCEPT ![Line.key] = q]
      BY <2>4, <3>1
    <3> QED
      BY <2>1, <3>1, <3>2, LineStep
  <2> QED
    BY <2>3, <2>4
<1>5. CASE LineWithoutTls
  <2>1. /\ Parsing /\ file' = file /\ at' = at + 1 /\ ssl' = ssl /\ names' = names
        /\ conf_pc' = "parse" /\ servers' = servers /\ cfg' = cfg
        /\ ~ssl /\ Line.key \in CertKeys \cup {"allowed_clients"}
    BY <1>5 DEF LineWithoutTls, Parsing
  <2> QED
    BY <2>1, LineStep
<1>6. CASE OpenClients
  <2>1. /\ conf_pc = "parse" /\ at <= Len(file) /\ file' = file /\ at' = at /\ ssl' = ssl /\ ssl
        /\ cfg' = cfg /\ servers' = servers /\ Line.key = "allowed_clients"
    BY <1>6 DEF OpenClients, Parsing
  <2>2. servers = <<>> /\ names \in Nat
    BY <1>1, <2>1 DEF Placed
  <2>3. CASE Line.value.word = "clients"
    <3>1. conf_pc' = "clients" /\ names' = 0 /\ row' = 1
      BY <1>6, <2>3 DEF OpenClients
    <3>2. Len(Rows) \in Nat
      <4>1. at \in 1..Len(file)
        BY <1>1, <2>1, ConfigAssumption DEF Placed
      <4> QED
        BY <1>1, <2>3, <4>1, LineTyped DEF Line, Rows
    <3>3. row' \in 1..(Len(Rows) + 1) /\ ~(names' > 0) /\ names' \in Nat
      BY <3>1, <3>2
    <3>4. Reading
      BY <2>1 DEF Reading
    <3> QED
      BY <2>1, <2>2, <2>3, <3>1, <3>3, <3>4, ClientsStep
  <2>4. CASE Line.value.word # "clients"
    <3>1. conf_pc' = "error" /\ names' = names
      BY <1>6, <2>4 DEF OpenClients
    <3>2. Line.key \notin NumericKeys
      BY <2>1 DEF NumericKeys, Uint16Keys, Uint32Keys, Int64Keys
    <3>3. names' \in Nat
      BY <2>2, <3>1
    <3> QED
      BY <2>1, <3>1, <3>2, <3>3, StopStep
  <2> QED
    BY <2>3, <2>4
<1>7. CASE ScanLine \/ ScanBlank
  BY <1>7, ScanStep
<1>8. CASE ScanEnd
  BY <1>8, ScanEndStep
<1>9. CASE ApplyDefaults
  BY <1>9, DefaultsStep
<1>10. CASE ParseArg \/ KillOthers
  BY <1>10, ArgumentsStep
<1>11. CASE StartServers \/ \E s \in {"plain", "tls", "web"} : ServerStarts(s)
  BY <1>11, ServingStep
<1>12. CASE UNCHANGED configVars
  BY <1>12, UnchangedStep
<1> QED
  BY <1>2, <1>3, <1>4, <1>5, <1>6, <1>7, <1>8, <1>9, <1>10, <1>11, <1>12 DEF ConfigNext

LEMMA ConfigInductive == ConfigSpec => []ConfigInv
BY InitConfigInv, NextConfigInv, PTL DEF ConfigSpec

\* A number that is taken is not the mark of an error.
LEMMA AcceptsPositive ==
  ASSUME NEW v, v.n \in Nat, NEW key \in NumericKeys, Accepts(key, v)
  PROVE  Meaning64(v) \in Nat
<1>1. v.suffix \in {"", "k", "m", "g", "t"}
  BY DEF Accepts, Suffixed, NumericKeys, Uint16Keys, Uint32Keys, Int64Keys
<1>2. Factor(v.suffix) \in Nat
  BY <1>1, FactorNotZero
<1> DEFINE f == Factor(v.suffix)
           n == v.n
<1>3. n \in Nat /\ f \in Nat
  BY <1>2
<1> HIDE DEF f, n
<1>4. n * f \in Nat
  BY <1>3
<1> QED
  BY <1>4 DEF Meaning64, f, n

\* The code takes what the comments promise, and TakesMore.
LEMMA AcceptsIs ==
  ASSUME NEW v, Honest(v), v.n \in Nat, NEW key \in NumericKeys
  PROVE  /\ Takes(key, v) => Accepts(key, v)
         /\ Accepts(key, v) => Takes(key, v) \/ TakesMore(key, v)
<1> DEFINE n == v.n
           means == Meaning64(v)
<1>1. n \in Nat /\ n <= MaxInt64
  BY DEF Honest
<1>2. v.suffix = "" => means = n
  <2>1. \A m \in Nat : m * 1 = m
    OBVIOUS
  <2>2. v.suffix = "" => means = n * 1
    BY NoFactor DEF Meaning64
  <2> QED
    BY <1>1, <2>1, <2>2, Zenon
<1>3. MaxInt64 \in Nat /\ Limit64 \in Nat /\ MaxUint16 \in Nat
  BY Widths
<1>4. CASE key \in Uint16Keys
  <2>1. Takes(key, v) <=> Suffixed(v, {""}) /\ n \in 1..MaxUint16
    BY <1>4 DEF Takes, Uint16Keys, Uint32Keys, Int64Keys
  <2>2. Accepts(key, v) <=> Suffixed(v, {""}) /\ n <= MaxUint16
    BY <1>4 DEF Accepts, Uint16Keys, Uint32Keys, Int64Keys
  <2>3. Suffixed(v, {""}) /\ n = 0 => TakesMore(key, v)
    BY <1>4 DEF TakesMore
  <2>4. \A m, max \in Nat : /\ m \in 1..max => m <= max
                            /\ m <= max => m \in 1..max \/ m = 0
    OBVIOUS
  <2> QED
    BY <1>1, <1>3, <2>1, <2>2, <2>3, <2>4, Zenon
<1>5. CASE key \in Uint32Keys
  <2>1. Takes(key, v) <=> Suffixed(v, {"", "k", "m", "g"}) /\ means \in 1..(MaxUint32 - 1)
    BY <1>5 DEF Takes, Uint16Keys, Uint32Keys, Int64Keys
  <2>2. Accepts(key, v) <=> Suffixed(v, {"", "k", "m", "g"}) /\ means \in 1..(MaxUint32 - 1)
    BY <1>5 DEF Accepts, Uint16Keys, Uint32Keys, Int64Keys
  <2> QED
    BY <2>1, <2>2
<1>6. CASE key \in Int64Keys
  <2> DEFINE all == Suffixed(v, {"", "k", "m", "g", "t"})
  <2>1. Takes(key, v) <=> all /\ means \in 1..Limit64
    BY <1>6 DEF Takes, Uint16Keys, Uint32Keys, Int64Keys
  <2>2. Accepts(key, v) <=> all /\ means \in 1..(IF v.suffix = "" THEN MaxInt64 ELSE Limit64)
    BY <1>6 DEF Accepts, Uint16Keys, Uint32Keys, Int64Keys
  <2>3. all /\ v.suffix = "" /\ n > Limit64 => TakesMore(key, v)
    BY <1>6 DEF TakesMore, Suffixed
  <2>4. CASE v.suffix = ""
    <3>1. \A m, low, high \in Nat :
             m <= high => /\ m \in 1..low => m \in 1..high
                          /\ m \in 1..high => m \in 1..low \/ m > low
      OBVIOUS
    <3>2. /\ Takes(key, v) <=> all /\ n \in 1..Limit64
          /\ Accepts(key, v) <=> all /\ n \in 1..MaxInt64
      BY <1>2, <2>1, <2>2, <2>4, Zenon
    <3> QED
      BY <1>1, <1>3, <2>3, <2>4, <3>1, <3>2, Zenon
  <2>5. CASE v.suffix # ""
    BY <2>1, <2>2, <2>5
  <2> QED
    BY <2>4, <2>5
<1> QED
  BY <1>4, <1>5, <1>6 DEF NumericKeys

LEMMA InvOptions == ConfigInv => OptionsInForce
<1> SUFFICES ASSUME ConfigInv PROVE OptionsInForce
  OBVIOUS
<1>1. VersionsInForce /\ Placed /\ Held /\ Refused /\ LastKnown
  BY DEF ConfigInv
<1>2. ASSUME conf_pc = "parse" \/ (conf_pc = "error" /\ at <= Len(file)),
             NEW key \in NumericKeys, LastLine(key) # 0, Honest(Value(key)),
             ~TakesMore(key, Value(key))
      PROVE  Takes(key, Value(key)) /\ cfg[key] = Meaning64(Value(key))
  <2>1. key \in Keys \ {"allowed_clients"} /\ key \notin CertKeys
    BY DEF Keys, NumericKeys, CertKeys, Uint16Keys, Uint32Keys, Int64Keys
  <2>2. cfg[key] \in Outcomes(key, Value(key)) /\ cfg[key] # Error
    BY <1>1, <1>2, <2>1 DEF Held, Reading
  <2>3. Value(key).word = "number" => Value(key).n \in Nat
    <3>1. LastLine(key) \in LinesOf(key)
      BY <1>1, <1>2, <2>1 DEF LastKnown
    <3>2. Len(file) \in Nat /\ at \in 1..(Len(file) + 1)
      BY <1>1, ConfigAssumption DEF Placed
    <3>3. LastLine(key) \in 1..Len(file)
      BY <3>1, <3>2 DEF LinesOf
    <3> QED
      BY <1>1, <3>3, LineTyped DEF Value
  <2>4. Outcomes(key, Value(key))
          = {IF Accepts(key, Value(key)) THEN Meaning64(Value(key)) ELSE Error}
    BY <1>2, <2>1, <2>3, OutcomesAre
  <2>5. Value(key).n \in Nat
    BY <1>2, <2>3 DEF Honest
  <2>6. Accepts(key, Value(key)) => Takes(key, Value(key))
    BY <1>2, <2>5, AcceptsIs
  <2> QED
    BY <2>2, <2>4, <2>6, Zenon
<1>3. ASSUME conf_pc = "error", at <= Len(file), Line.utf8, Line.key \in NumericKeys,
             Honest(Line.value)
      PROVE  ~Takes(Line.key, Line.value)
  <2>1. Line.key \in Keys \ {"allowed_clients"}
    BY <1>3 DEF Keys, NumericKeys, Uint16Keys, Uint32Keys, Int64Keys
  <2>2. Line.value.word = "number"
    BY <1>3 DEF Honest
  <2>3. Error \in Outcomes(Line.key, Line.value)
    BY <1>1, <1>3, <2>2 DEF Refused
  <2>4. at \in 1..Len(file)
    BY <1>1, <1>3, ConfigAssumption DEF Placed
  <2>5. Line.value.n \in Nat
    BY <1>1, <2>2, <2>4, LineTyped DEF Line
  <2>6. Outcomes(Line.key, Line.value)
          = {IF Accepts(Line.key, Line.value) THEN Meaning64(Line.value) ELSE Error}
    BY <1>3, <2>1, <2>5, OutcomesAre
  <2>7. Accepts(Line.key, Line.value) => Meaning64(Line.value) \in Nat
    BY <2>5, <1>3, AcceptsPositive
  <2>8. Error \notin Nat
    BY DEF Error
  <2>9. Takes(Line.key, Line.value) => Accepts(Line.key, Line.value)
    BY <1>3, <2>5, AcceptsIs
  <2> QED
    BY <2>3, <2>6, <2>7, <2>8, <2>9, Zenon
<1>4. NumbersMeanWhatTheySay
  BY <1>2, <1>3 DEF NumbersMeanWhatTheySay, Value
<1> QED
  BY <1>1, <1>4 DEF OptionsInForce

\* parse_conf() and _apply_default_conf(): whatever the file, an option has the
\* value that its last line says, or the program has refused it, and the
\* versions in force are a range that is not empty.
THEOREM OptionsInForceHolds == ConfigSpec => []OptionsInForce
BY ConfigInductive, InvOptions, PTL

LEMMA InvServers == ConfigInv => ServersAsConfigured
<1> SUFFICES ASSUME ConfigInv PROVE ServersAsConfigured
  OBVIOUS
<1>1. Placed /\ Needed /\ Modes /\ Serving
  BY DEF ConfigInv
<1>2. conf_pc = "running" =>
        ("plain" \in DOMAIN servers
           <=> \/ Says("insecure_mode_enabled", 1)
               \/ LastLine("insecure_mode_enabled") = 0 /\ ~Says("secure_mode_enabled", 1))
  BY <1>1, Zenon DEF Modes, Serving
<1>3. ASSUME NEW s \in DOMAIN servers \ {"plain"}, servers[s] = "listening"
      PROVE  /\ ssl
             /\ \A key \in CertKeys : LastLine(key) # 0
             /\ LastLine("allowed_clients") # 0
             /\ \E r \in DOMAIN Value("allowed_clients").rows :
                  Value("allowed_clients").rows[r] = "name"
  <2>1. conf_pc = "running"
    <3>1. servers # <<>>
      OBVIOUS
    <3> QED
      BY <1>1, <3>1 DEF Placed
  <2>2. HasKeys
    BY <1>1, <1>3, <2>1, Zenon DEF Serving
  <2>3. \A key \in CertKeys : cfg[key] = 1
    BY <2>2 DEF HasKeys, CertKeys
  <2>4. cfg["allowed_clients"] > 0
    BY <2>2 DEF HasKeys
  <2> QED
    BY <1>1, <2>3, <2>4, Zenon DEF Needed
<1> QED
  BY <1>2, <1>3, Zenon DEF ServersAsConfigured, Value

\* main() and start_servers(): whatever the file and the command line,
\* connections in the clear are served exactly if the file asks for them, or
\* asks neither for them nor for secure ones, and a TLS server listens only
\* with a certificate, an authority and a client that is allowed.
THEOREM ServersAsConfiguredHolds == ConfigSpec => []ServersAsConfigured
BY ConfigInductive, InvServers, PTL

-----------------------------------------------------------------------------
(* The conversion of line ends: Conversions.                               *)

Text == job.text
Crs == CrsBeforeLf(Text)
Bare == BareLfs(Text)

\* The text with its terminator
Original(i) == IF i <= Len(Text) THEN Text[i] ELSE NUL

\* Towards the start: `to' has fallen behind `from' by the CRs that are gone,
\* what is ahead is as it was, and what is behind `to' is in its place.
Shrinking ==
  job.kind = "lf" =>
    /\ job_pc \in {"lf", "done"}
    /\ job_pc = "lf" =>
         /\ mem \in [1..(Len(Text) + 1) -> Int]
         /\ from \in 1..(Len(Text) + 1)
         /\ to = from - UpTo(Crs, from - 1)
         /\ \A i \in from..(Len(Text) + 1) : mem[i] = Original(i)
         /\ \A i \in 1..(from - 1) : i \notin Crs =>
              i - UpTo(Crs, i) \in 1..(to - 1) /\ mem[i - UpTo(Crs, i)] = Text[i]

\* Towards the end: `to' is ahead of `from' by the CRs that are to come, what
\* is up to `from' is as it was, and what is behind it is in its place.
Place(i) == i + UpTo(Bare, i)
Growing ==
  job.kind = "crlf" =>
    /\ job_pc \in {"crlf", "terminate", "crlfback", "done"}
    /\ job_pc = "crlf" =>
         /\ mem \in [1..(Len(Text) + 1) -> Int]
         /\ \A i \in 1..(Len(Text) + 1) : mem[i] = Original(i)
    /\ job_pc \in {"terminate", "crlfback"} =>
         /\ out = Len(Text) + Cardinality(Bare) /\ mem \in [1..(out + 1) -> Int]
         /\ from \in 1..Len(Text) /\ to = Place(from)
         /\ \A i \in 1..from : mem[i] = Text[i]
         /\ \A i \in (from + 1)..Len(Text) :
              mem[Place(i)] = Text[i] /\ (i \in Bare => mem[Place(i) - 1] = CR)
         /\ job_pc = "crlfback" => mem[out + 1] = NUL

LinesInv ==
  /\ job \in Jobs
  /\ job.kind \notin {"lf", "crlf"} => job_pc \notin {"lf", "crlf", "terminate", "crlfback"}
  /\ Shrinking /\ Growing /\ LinesConverted

\* Counting the elements of a set of positions up to one of them.
LEMMA UpToProperties ==
  ASSUME NEW n \in Nat, NEW S, \A j \in S : j \in Int /\ 1 <= j /\ j <= n
  PROVE  /\ \A k \in 0..n : UpTo(S, k) \in 0..k
         /\ \A k \in 1..n : UpTo(S, k) = UpTo(S, k - 1) + (IF k \in S THEN 1 ELSE 0)
         /\ \A i, k \in 0..n : i <= k => UpTo(S, i) <= UpTo(S, k)
         /\ UpTo(S, 0) = 0 /\ UpTo(S, n) = Cardinality(S)
<1> DEFINE Low(k) == {j \in S : j <= k}
<1>1. ASSUME NEW k \in 0..n
      PROVE  IsFiniteSet(Low(k)) /\ Cardinality(Low(k)) \in 0..k
  <2>1. Low(k) \in SUBSET (1..k)
    OBVIOUS
  <2> HIDE DEF Low
  <2>2. IsFiniteSet(1..k) /\ Cardinality(1..k) = k
    BY FS_Interval
  <2>3. IsFiniteSet(Low(k)) /\ Cardinality(Low(k)) <= k
    BY <2>1, <2>2, FS_Subset
  <2> QED
    BY <2>3, FS_CardinalityType
<1>2. ASSUME NEW k \in 1..n
      PROVE  Cardinality(Low(k)) = Cardinality(Low(k - 1)) + (IF k \in S THEN 1 ELSE 0)
  <2>1. Low(k) = IF k \in S THEN Low(k - 1) \cup {k} ELSE Low(k - 1)
    OBVIOUS
  <2>2. k \notin Low(k - 1) /\ k - 1 \in 0..n
    OBVIOUS
  <2> DEFINE L == Low(k - 1)
  <2> HIDE DEF Low
  <2>3. IsFiniteSet(L) /\ Cardinality(L) \in Nat
    BY <1>1, <2>2
  <2> HIDE DEF L
  <2>4. Cardinality(L \cup {k}) = IF k \in L THEN Cardinality(L) ELSE Cardinality(L) + 1
    BY <2>3, FS_AddElement
  <2> QED
    BY <2>1, <2>2, <2>3, <2>4 DEF L
<1>3. ASSUME NEW i \in 0..n, NEW k \in 0..n, i <= k
      PROVE  Cardinality(Low(i)) <= Cardinality(Low(k))
  <2>1. Low(i) \in SUBSET Low(k)
    BY <1>3
  <2> HIDE DEF Low
  <2> QED
    BY <1>1, <2>1, FS_Subset
<1>4. Low(0) = {} /\ Low(n) = S
  OBVIOUS
<1>5. \A k : UpTo(S, k) = Cardinality(Low(k))
  BY DEF UpTo
<1> HIDE DEF Low
<1> QED
  BY <1>1, <1>2, <1>3, <1>4, <1>5, FS_EmptySet

LEMMA TextTyped ==
  ASSUME job \in Jobs, job.kind \in {"lf", "crlf"}
  PROVE  /\ Text \in Seq(Int) /\ Len(Text) \in Nat /\ DOMAIN Text = 1..Len(Text)
         /\ \A i \in 1..Len(Text) : Text[i] \in Int /\ Text[i] # NUL
         /\ Crs \in SUBSET (1..Len(Text)) /\ Bare \in SUBSET (1..Len(Text))
<1>1. Text \in Seq(Int) /\ \A i \in DOMAIN Text : Text[i] # 0
  BY ConversionsAssumption DEF Text
<1>2. Len(Text) \in Nat /\ DOMAIN Text = 1..Len(Text)
  BY <1>1
<1>3. \A i \in 1..Len(Text) : Text[i] \in Int /\ Text[i] # NUL
  BY <1>1, <1>2 DEF NUL
<1>4. Crs \in SUBSET (1..Len(Text)) /\ Bare \in SUBSET (1..Len(Text))
  BY <1>2 DEF Crs, Bare, CrsBeforeLf, BareLfs
<1> QED
  BY <1>1, <1>2, <1>3, <1>4

\* A turn of the loop for LF drops exactly a CR before an LF, and what it
\* writes is behind what it still has to read.
LEMMA LfTurnStep ==
  ASSUME LinesInv, LfTurn
  PROVE  LinesInv'
<1> DEFINE n == Len(Text)
           C(i) == UpTo(Crs, i)
<1>1. job \in Jobs /\ job.kind = "lf" /\ job' = job /\ Text' = Text /\ Crs' = Crs
  BY DEF LinesInv, Growing, LfTurn, Text, Crs
<1>2. /\ mem \in [1..(n + 1) -> Int] /\ from \in 1..(n + 1) /\ to = from - C(from - 1)
      /\ \A i \in from..(n + 1) : mem[i] = Original(i)
      /\ \A i \in 1..(from - 1) : i \notin Crs =>
           i - C(i) \in 1..(to - 1) /\ mem[i - C(i)] = Text[i]
  BY <1>1 DEF LinesInv, Shrinking, LfTurn
<1>3. /\ n \in Nat /\ Crs \in SUBSET (1..n)
      /\ \A i \in 1..n : Text[i] \in Int /\ Text[i] # NUL
  BY <1>1, TextTyped
<1>4. /\ \A i \in 1..n : Original(i) = Text[i]
      /\ Original(n + 1) = NUL
  BY <1>3 DEF Original
<1>5. from \in 1..n /\ mem[from] = Text[from]
  <2>1. mem[from] # NUL
    BY DEF LfTurn
  <2> HIDE DEF n
  <2> QED
    BY <1>2, <1>3, <1>4, <2>1
<1>6. KeptByLf(mem, from) <=> from \notin Crs
  <2>1. mem[from + 1] = IF from < n THEN Text[from + 1] ELSE NUL
    <3> HIDE DEF n
    <3> QED
      BY <1>2, <1>3, <1>4, <1>5
  <2>2. from \in Crs <=> Text[from] = CR /\ from < n /\ Text[from + 1] = LF
    BY <1>1, <1>5, TextTyped DEF Crs, CrsBeforeLf
  <2> QED
    BY <1>5, <2>1, <2>2 DEF KeptByLf, NUL, LF
<1>7. C(from) = C(from - 1) + (IF from \in Crs THEN 1 ELSE 0) /\ C(from - 1) \in 0..(from - 1)
  <2>1. from - 1 \in 0..n
    BY <1>3, <1>5
  <2>2. /\ \A k \in 0..n : C(k) \in 0..k
        /\ \A k \in 1..n : C(k) = C(k - 1) + (IF k \in Crs THEN 1 ELSE 0)
        /\ \A i, k \in 0..n : i <= k => C(i) <= C(k)
        /\ C(0) = 0 /\ C(n) = Cardinality(Crs)
    <3>1. \A j \in Crs : j \in Int /\ 1 <= j /\ j <= n
      BY <1>3
    <3> HIDE DEF n
    <3> QED
      BY <1>3, <3>1, UpToProperties
  <2> HIDE DEF C
  <2> QED
    BY <1>5, <2>1, <2>2
<1>8. /\ from' = from + 1 /\ job_pc' = "lf" /\ job_pc = "lf"
      /\ IF from \notin Crs THEN mem' = [mem EXCEPT ![to] = mem[from]] /\ to' = to + 1
         ELSE mem' = mem /\ to' = to
  BY <1>6 DEF LfTurn
<1> HIDE DEF n, C
<1>9. to \in 1..from
  BY <1>2, <1>5, <1>7
<1>10. /\ mem' \in [1..(n + 1) -> Int] /\ from' \in 1..(n + 1)
       /\ to' = from' - C(from' - 1)
       /\ \A i \in from'..(n + 1) : mem'[i] = Original(i)
       /\ \A i \in 1..(from' - 1) : i \notin Crs =>
            i - C(i) \in 1..(to' - 1) /\ mem'[i - C(i)] = Text[i]
  <2>1. CASE from \in Crs
    <3>1. mem' = mem /\ to' = to /\ from' - 1 = from
      BY <1>3, <1>5, <1>8, <2>1
    <3>2. to' = from' - C(from' - 1)
      BY <1>2, <1>5, <1>7, <1>8, <2>1, <3>1
    <3>3. \A i \in 1..(from' - 1) : i \notin Crs => i \in 1..(from - 1)
      BY <1>5, <2>1, <3>1
    <3> QED
      BY <1>2, <1>3, <1>5, <1>8, <3>1, <3>2, <3>3
  <2>2. CASE from \notin Crs
    <3>1. mem' = [mem EXCEPT ![to] = mem[from]] /\ to' = to + 1 /\ from' - 1 = from
      BY <1>3, <1>5, <1>8, <2>2
    <3>2. to' = from' - C(from' - 1)
      BY <1>2, <1>5, <1>7, <1>8, <2>2, <3>1
    <3>3. to \in 1..(n + 1) /\ mem[from] \in Int
      BY <1>2, <1>3, <1>5, <1>9
    <3>4. mem' \in [1..(n + 1) -> Int]
      BY <1>2, <3>1, <3>3
    <3>5. \A i \in from'..(n + 1) : mem'[i] = Original(i)
      BY <1>2, <1>3, <1>5, <1>8, <1>9, <3>1
    <3>6. \A i \in 1..(from - 1) : i \notin Crs =>
            i - C(i) \in 1..(to' - 1) /\ mem'[i - C(i)] = Text[i]
      <4> SUFFICES ASSUME NEW i \in 1..(from - 1), i \notin Crs
                   PROVE  i - C(i) \in 1..(to' - 1) /\ mem'[i - C(i)] = Text[i]
        OBVIOUS
      <4> DEFINE place == i - C(i)
      <4>1. place \in 1..(to - 1) /\ mem[place] = Text[i]
        BY <1>2
      <4> HIDE DEF place
      <4>2. place \in 1..(to' - 1) /\ place # to /\ place \in 1..(n + 1)
        BY <1>3, <1>5, <1>9, <3>1, <4>1
      <4>3. mem'[place] = mem[place]
        BY <1>2, <3>1, <4>2
      <4> QED
        BY <4>1, <4>2, <4>3 DEF place
    <3>7. from - C(from) = to /\ mem'[to] = Text[from] /\ to \in 1..(to' - 1)
      BY <1>2, <1>5, <1>7, <1>9, <2>2, <3>1, <3>3
    <3>8. \A i \in 1..(from' - 1) : i \in 1..(from - 1) \/ i = from
      BY <1>5, <3>1
    <3>9. \A i \in 1..(from' - 1) : i \notin Crs =>
            i - C(i) \in 1..(to' - 1) /\ mem'[i - C(i)] = Text[i]
      BY <3>6, <3>7, <3>8
    <3>10. from' \in 1..(n + 1)
      BY <1>3, <1>5, <1>8
    <3> QED
      BY <3>2, <3>4, <3>5, <3>9, <3>10
  <2> QED
    BY <2>1, <2>2
<1>11. Shrinking'
  <2>1. \A i \in Int : Original(i)' = Original(i)
    BY <1>1 DEF Original
  <2>2. \A i \in from'..(n + 1) : i \in Int
    BY <1>3, <1>10
  <2> QED
    BY <1>1, <1>8, <1>10, <2>1, <2>2 DEF Shrinking, n, C, UpTo
<1>12. Growing' /\ LinesConverted'
  BY <1>1, <1>8 DEF Growing, LinesConverted, Done
<1> QED
  BY <1>1, <1>11, <1>12 DEF LinesInv

LEMMA LfEndStep ==
  ASSUME LinesInv, LfEnd
  PROVE  LinesInv'
<1> DEFINE n == Len(Text)
           C(i) == UpTo(Crs, i)
<1>1. job \in Jobs /\ job.kind = "lf" /\ job' = job /\ Text' = Text /\ Crs' = Crs
  BY DEF LinesInv, Growing, LfEnd, Text, Crs
<1>2. /\ mem \in [1..(n + 1) -> Int] /\ from \in 1..(n + 1) /\ to = from - C(from - 1)
      /\ \A i \in from..(n + 1) : mem[i] = Original(i)
      /\ \A i \in 1..(from - 1) : i \notin Crs =>
           i - C(i) \in 1..(to - 1) /\ mem[i - C(i)] = Text[i]
  BY <1>1 DEF LinesInv, Shrinking, LfEnd
<1>3. /\ n \in Nat /\ DOMAIN Text = 1..n /\ \A j \in Crs : j \in Int /\ 1 <= j /\ j <= n
      /\ \A i \in 1..n : Text[i] \in Int /\ Text[i] # NUL
  BY <1>1, TextTyped
<1>4. /\ \A i \in 1..n : Original(i) = Text[i]
      /\ Original(n + 1) = NUL
  BY <1>3 DEF Original
<1>5. from = n + 1
  <2>1. mem[from] = NUL
    BY DEF LfEnd
  <2> HIDE DEF n
  <2> QED
    BY <1>2, <1>3, <1>4, <2>1
<1>6. C(n) = Cardinality(Crs) /\ C(n) \in 0..n
  <2>1. /\ \A k \in 0..n : C(k) \in 0..k
        /\ \A k \in 1..n : C(k) = C(k - 1) + (IF k \in Crs THEN 1 ELSE 0)
        /\ \A i, k \in 0..n : i <= k => C(i) <= C(k)
        /\ C(0) = 0 /\ C(n) = Cardinality(Crs)
    <3> HIDE DEF n
    <3> QED
      BY <1>3, UpToProperties
  <2> HIDE DEF n, C
  <2> QED
    BY <1>3, <2>1
<1>7. mem' = [mem EXCEPT ![to] = NUL] /\ out' = to - 1 /\ job_pc' = "done"
  BY DEF LfEnd
<1> HIDE DEF n, C
<1>8. to = n + 1 - C(n) /\ to \in 1..(n + 1)
  BY <1>2, <1>3, <1>5, <1>6
<1>9. /\ out' = n - Cardinality(Crs)
      /\ \A i \in 1..n : i \notin Crs => mem'[i - C(i)] = Text[i]
      /\ mem'[out' + 1] = NUL
  <2>1. out' = n - Cardinality(Crs) /\ out' + 1 = to
    BY <1>3, <1>6, <1>7, <1>8
  <2>2. mem'[to] = NUL
    BY <1>2, <1>7, <1>8
  <2>3. ASSUME NEW i \in 1..n, i \notin Crs
        PROVE  mem'[i - C(i)] = Text[i]
    <3> DEFINE place == i - C(i)
    <3>1. i \in 1..(from - 1)
      BY <1>3, <1>5
    <3>2. place \in 1..(to - 1) /\ mem[place] = Text[i]
      BY <1>2, <2>3, <3>1
    <3> HIDE DEF place
    <3>3. place # to /\ place \in 1..(n + 1)
      BY <1>3, <1>8, <3>2
    <3>4. mem'[place] = mem[place]
      BY <1>2, <1>7, <3>3
    <3> QED
      BY <3>2, <3>4 DEF place
  <2> QED
    BY <2>1, <2>2, <2>3
<1>10. LinesConverted'
  <2>1. DOMAIN Text \ Crs = {i \in 1..n : i \notin Crs}
    BY <1>3
  <2>2. job'.kind # "crlf"
    BY <1>1
  <2>3. /\ out' = Len(Text)' - Cardinality(Crs)'
        /\ \A i \in DOMAIN Text' \ Crs' : mem'[i - UpTo(Crs, i)'] = Text'[i]
        /\ mem'[out' + 1] = NUL
    BY <1>1, <1>9, <2>1 DEF n, C, UpTo
  <2> QED
    BY <2>2, <2>3 DEF LinesConverted, Done, Text, Crs
<1>11. Shrinking' /\ Growing'
  BY <1>1, <1>7 DEF Shrinking, Growing
<1> QED
  BY <1>1, <1>10, <1>11 DEF LinesInv

\* The length of a string is the place of its terminator.
LEMMA StrLenIs ==
  ASSUME NEW n \in Nat, NEW m, Len(m) = n + 1, m[n + 1] = NUL,
         \A i \in 1..n : m[i] # NUL
  PROVE  StrLen(m, 1) = n
<1>1. \A e \in 1..Len(m) : m[e] = NUL => e = n + 1
  OBVIOUS
<1>2. n + 1 \in 1..Len(m) /\ \A k \in 1..(n + 1 - 1) : m[k] # NUL
  OBVIOUS
<1>3. StrEnd(m, 1) = n + 1
  BY <1>1, <1>2 DEF StrEnd
<1> QED
  BY <1>3 DEF StrLen

\* Where the characters go in the conversion to CRLF.
LEMMA Places ==
  ASSUME job \in Jobs, job.kind \in {"lf", "crlf"}
  PROVE  /\ \A i \in 1..Len(Text) :
              /\ Place(i) \in i..(Len(Text) + Cardinality(Bare))
              /\ i \in Bare => Place(i) - 1 >= i
         /\ \A i, k \in 1..Len(Text) : i < k =>
              /\ Place(i) < Place(k)
              /\ k \in Bare => Place(i) < Place(k) - 1
         /\ \A i \in 1..Len(Text) :
              i > 1 => Place(i - 1) = Place(i) - (IF i \in Bare THEN 2 ELSE 1)
         /\ Place(Len(Text)) = Len(Text) + Cardinality(Bare)
         /\ Cardinality(Bare) \in Nat
         /\ \A i \in 1..Len(Text) : UpTo(Bare, i) \in Nat
<1> DEFINE n == Len(Text)
           C(i) == UpTo(Bare, i)
<1>1. n \in Nat /\ \A j \in Bare : j \in Int /\ 1 <= j /\ j <= n
  BY TextTyped
<1>2. /\ \A k \in 0..n : C(k) \in 0..k
      /\ \A k \in 1..n : C(k) = C(k - 1) + (IF k \in Bare THEN 1 ELSE 0)
      /\ \A i, k \in 0..n : i <= k => C(i) <= C(k)
      /\ C(0) = 0 /\ C(n) = Cardinality(Bare)
  <2> HIDE DEF n
  <2> QED
    BY <1>1, UpToProperties
<1>3. \A i : Place(i) = i + C(i)
  BY DEF Place
<1> HIDE DEF C, n
<1>4. ASSUME NEW i \in 1..n
      PROVE  /\ Place(i) \in i..(n + Cardinality(Bare))
             /\ i \in Bare => Place(i) - 1 >= i
  <2>1. i \in 0..n /\ i - 1 \in 0..n /\ n \in 0..n
    BY <1>1
  <2>2. C(i) \in 0..i /\ C(i) <= C(n) /\ C(n) \in 0..n /\ C(i - 1) \in 0..(i - 1)
    BY <1>1, <1>2, <2>1
  <2>3. i \in Bare => C(i) = C(i - 1) + 1
    BY <1>2
  <2> QED
    BY <1>1, <1>2, <1>3, <2>2, <2>3
<1>5. ASSUME NEW i \in 1..n, NEW k \in 1..n, i < k
      PROVE  /\ Place(i) < Place(k)
             /\ k \in Bare => Place(i) < Place(k) - 1
  <2>1. i \in 0..n /\ k - 1 \in 0..n /\ k \in 0..n /\ i <= k - 1
    BY <1>1, <1>5
  <2>2. /\ C(i) \in Int /\ C(k - 1) \in Int /\ C(k) \in Int
        /\ C(i) <= C(k - 1) /\ C(k) = C(k - 1) + (IF k \in Bare THEN 1 ELSE 0)
    <3>1. C(i) \in 0..i /\ C(k - 1) \in 0..(k - 1) /\ C(k) \in 0..k
      BY <1>2, <2>1
    <3>2. C(i) <= C(k - 1)
      BY <1>2, <2>1
    <3>3. C(k) = C(k - 1) + (IF k \in Bare THEN 1 ELSE 0)
      BY <1>2
    <3> QED
      BY <3>1, <3>2, <3>3
  <2> QED
    BY <1>3, <1>5, <2>2
<1>6. ASSUME NEW i \in 1..n, i > 1
      PROVE  Place(i - 1) = Place(i) - (IF i \in Bare THEN 2 ELSE 1)
  <2>1. i - 1 \in 0..n
    BY <1>1
  <2>2. C(i - 1) \in Int
    <3>1. C(i - 1) \in 0..(i - 1)
      BY <1>2, <2>1
    <3> QED
      BY <3>1
  <2>3. C(i) = C(i - 1) + (IF i \in Bare THEN 1 ELSE 0)
    BY <1>2
  <2>4. Place(i - 1) = (i - 1) + C(i - 1) /\ Place(i) = i + C(i)
    BY <1>3
  <2> QED
    BY <2>2, <2>3, <2>4
<1>7. Place(n) = n + Cardinality(Bare) /\ Cardinality(Bare) \in Nat
  <2>1. C(n) \in 0..n
    BY <1>1, <1>2
  <2> QED
    BY <1>1, <1>2, <1>3, <2>1
<1>8. \A i \in 1..n : C(i) \in Nat
  <2>1. \A i \in 1..n : i \in 0..n /\ i \in Nat
    BY <1>1
  <2>2. \A i \in 1..n : C(i) \in 0..i
    BY <1>2, <2>1
  <2> QED
    BY <2>1, <2>2
<1> QED
  BY <1>4, <1>5, <1>6, <1>7, <1>8 DEF n, C

LEMMA ReallocStep ==
  ASSUME LinesInv, ReallocForCrlf
  PROVE  LinesInv'
<1> DEFINE n == Len(Text)
           more == Cardinality(Bare)
<1>1. job \in Jobs /\ job.kind = "crlf" /\ job' = job /\ Text' = Text /\ Bare' = Bare
  BY DEF LinesInv, Shrinking, ReallocForCrlf, Text, Bare
<1>2. /\ mem \in [1..(n + 1) -> Int]
      /\ \A i \in 1..(n + 1) : mem[i] = Original(i)
  BY <1>1 DEF LinesInv, Growing, ReallocForCrlf
<1>3. /\ n \in Nat /\ DOMAIN Text = 1..n
      /\ \A i \in 1..n : Text[i] \in Int /\ Text[i] # NUL
      /\ Bare \in SUBSET (1..n)
  BY <1>1, TextTyped
<1>4. /\ \A i \in 1..n : Original(i) = Text[i]
      /\ Original(n + 1) = NUL
  BY <1>3 DEF Original
<1>5. /\ \A i \in 1..n : mem[i] = Text[i]
      /\ mem[n + 1] = NUL
  <2> HIDE DEF n
  <2> QED
    BY <1>2, <1>3, <1>4
<1>6. StrLen(mem, 1) = n
  <2> HIDE DEF n
  <2>1. Len(mem) = n + 1
    BY <1>2, <1>3
  <2>2. \A i \in 1..n : mem[i] # NUL
    BY <1>3, <1>5
  <2> QED
    BY <1>3, <1>5, <2>1, <2>2, StrLenIs
<1>7. {i \in 1..n : BareLf(mem, i)} = Bare
  <2>1. Bare = {i \in 1..n : BareLf(Text, i)}
    BY <1>3 DEF Bare, BareLfs
  <2>2. \A i \in 1..n : BareLf(mem, i) <=> BareLf(Text, i)
    <3> SUFFICES ASSUME NEW i \in 1..n PROVE BareLf(mem, i) <=> BareLf(Text, i)
      OBVIOUS
    <3>1. mem[i] = Text[i]
      BY <1>5
    <3>2. i # 1 => i - 1 \in 1..n
      BY <1>3
    <3>3. i # 1 => mem[i - 1] = Text[i - 1]
      BY <1>5, <3>2
    <3> HIDE DEF n
    <3> QED
      BY <3>1, <3>3, Zenon DEF BareLf
  <2> HIDE DEF n
  <2> QED
    BY <2>1, <2>2, Zenon
<1>8. /\ job_pc' = IF more = 0 THEN "done" ELSE "terminate"
      /\ out' = n + more /\ from' = n /\ to' = n + more
      /\ mem' = [i \in 1..(n + more + 1) |-> IF i <= n + 1 THEN mem[i] ELSE 255]
  BY <1>6, <1>7 DEF ReallocForCrlf
<1>9. /\ \A i \in 1..n : Place(i) \in i..(n + more)
      /\ Place(n) = n + more /\ more \in Nat
  BY <1>1, Places
<1> HIDE DEF n, more
<1>10. mem' \in [1..(n + more + 1) -> Int] /\ \A i \in 1..n : mem'[i] = Text[i]
  <2>1. ASSUME NEW i \in 1..(n + more + 1)
        PROVE  (IF i <= n + 1 THEN mem[i] ELSE 255) \in Int
    BY <1>2, <1>3, <1>9
  <2>2. \A i \in 1..n : i \in 1..(n + more + 1) /\ i <= n + 1
    BY <1>3, <1>9
  <2> QED
    BY <1>5, <1>8, <2>1, <2>2
<1>11. CASE more = 0
  <2>1. job_pc' = "done" /\ out' = n /\ mem'[n + 1] = NUL
    BY <1>3, <1>5, <1>8, <1>11
  <2>2. Bare = {}
    <3>1. IsFiniteSet(Bare)
      <4>1. IsFiniteSet(1..n)
        BY <1>3, FS_Interval
      <4> QED
        BY <1>3, <4>1, FS_Subset
    <3> QED
      BY <1>11, <3>1, FS_EmptySet DEF more
  <2>3. \A i \in 1..n : mem'[Place(i)] = Text[i]
    <3>1. \A i \in 1..n : Place(i) = i
      <4>1. \A i \in 1..n : {j \in Bare : j <= i} = {}
        BY <2>2
      <4>2. \A i \in 1..n : UpTo(Bare, i) = 0
        BY <4>1, FS_EmptySet DEF UpTo
      <4>3. \A i \in 1..n : Place(i) = i + UpTo(Bare, i)
        BY DEF Place
      <4> QED
        BY <1>3, <4>2, <4>3
    <3> QED
      BY <1>10, <3>1
  <2>4. LinesConverted'
    <3>1. job'.kind # "lf"
      BY <1>1
    <3>2. /\ out' = Len(Text)' + Cardinality(Bare)' /\ mem'[out' + 1] = NUL
          /\ \A i \in DOMAIN Text' : mem'[i + UpTo(Bare, i)'] = Text'[i]
          /\ \A i \in Bare' : mem'[i + UpTo(Bare, i)' - 1] = CR
      <4>1. /\ \A i \in 1..n : UpTo(Bare, i)' = UpTo(Bare, i) /\ Place(i) = i + UpTo(Bare, i)
            /\ Cardinality(Bare)' = more /\ Len(Text)' = n /\ DOMAIN Text' = 1..n
        BY <1>1, <1>3 DEF n, more, Place, UpTo
      <4>2. out' = Len(Text)' + Cardinality(Bare)' /\ mem'[out' + 1] = NUL
        BY <1>8, <2>1, <4>1
      <4>3. \A i \in DOMAIN Text' : mem'[i + UpTo(Bare, i)'] = Text'[i]
        BY <1>1, <2>3, <4>1
      <4>4. Bare' = {}
        BY <1>1, <2>2
      <4> QED
        BY <4>2, <4>3, <4>4
    <3> QED
      BY <3>1, <3>2 DEF LinesConverted, Done, Text, Bare
  <2>5. Shrinking' /\ Growing'
    BY <1>1, <2>1 DEF Shrinking, Growing
  <2> QED
    BY <1>1, <2>4, <2>5 DEF LinesInv
<1>12. CASE more # 0
  <2>1. job_pc' = "terminate"
    BY <1>8, <1>12
  <2>2. n >= 1
    <3>1. CASE n = 0
      <4>1. Bare = {}
        BY <1>3, <3>1
      <4> QED
        BY <1>12, <4>1, FS_EmptySet DEF more
    <3> QED
      BY <1>3, <3>1
  <2>3. from' \in 1..n /\ to' = Place(from')
    BY <1>3, <1>8, <1>9, <2>2
  <2>4. \A i \in 1..from' : mem'[i] = Text[i]
    BY <1>8, <1>10
  <2>5. (from' + 1)..n = {}
    BY <1>3, <1>8
  <2>6. Growing'
    <3>1. /\ Len(Text)' = n /\ Cardinality(Bare)' = more
          /\ Place(from)' = Place(from') /\ job'.kind = "crlf"
      BY <1>1 DEF n, more, Place, UpTo
    <3>2. /\ out' = Len(Text)' + Cardinality(Bare)' /\ mem' \in [1..(out' + 1) -> Int]
          /\ from' \in 1..Len(Text)' /\ to' = Place(from)'
      BY <1>8, <1>10, <2>3, <3>1
    <3>3. /\ \A i \in 1..from' : mem'[i] = Text'[i]
          /\ (from' + 1)..Len(Text)' = {}
      BY <1>1, <2>4, <2>5, <3>1
    <3> QED
      BY <2>1, <3>1, <3>2, <3>3 DEF Growing
  <2>7. Shrinking' /\ LinesConverted'
    BY <1>1, <2>1 DEF Shrinking, LinesConverted, Done
  <2> QED
    BY <1>1, <2>6, <2>7 DEF LinesInv
<1> QED
  BY <1>11, <1>12

LEMMA TerminateStep ==
  ASSUME LinesInv, Terminate
  PROVE  LinesInv'
<1> DEFINE n == Len(Text)
<1>1. job \in Jobs /\ job.kind = "crlf" /\ job' = job /\ Text' = Text /\ Bare' = Bare
  BY DEF LinesInv, Shrinking, Terminate, Text, Bare
<1>2. /\ out = n + Cardinality(Bare) /\ mem \in [1..(out + 1) -> Int]
      /\ from \in 1..n /\ to = Place(from)
      /\ \A i \in 1..from : mem[i] = Text[i]
      /\ \A i \in (from + 1)..n :
           mem[Place(i)] = Text[i] /\ (i \in Bare => mem[Place(i) - 1] = CR)
  BY <1>1 DEF LinesInv, Growing, Terminate
<1>3. /\ \A i \in 1..n : /\ Place(i) \in i..(n + Cardinality(Bare))
                         /\ i \in Bare => Place(i) - 1 >= i
      /\ Cardinality(Bare) \in Nat
  BY <1>1, Places
<1>4. n \in Nat
  BY <1>1, TextTyped
<1>5. /\ mem' = [mem EXCEPT ![out + 1] = NUL] /\ job_pc' = "crlfback"
      /\ from' = from /\ to' = to /\ out' = out
  BY DEF Terminate
<1> HIDE DEF n
<1>6. out \in Nat /\ NUL \in Int
  BY <1>2, <1>3, <1>4 DEF NUL
<1>7. mem' \in [1..(out + 1) -> Int] /\ mem'[out + 1] = NUL
  BY <1>2, <1>5, <1>6
<1>8. \A p \in 1..out : mem'[p] = mem[p]
  BY <1>2, <1>5, <1>6
<1>9. \A i \in 1..from : mem'[i] = Text[i]
  <2>1. \A i \in 1..from : i \in 1..out
    BY <1>2, <1>3, <1>4
  <2> QED
    BY <1>2, <1>8, <2>1
<1>10. ASSUME NEW i \in (from + 1)..n
       PROVE  mem'[Place(i)] = Text[i] /\ (i \in Bare => mem'[Place(i) - 1] = CR)
  <2>1. i \in 1..n /\ i \in Int
    BY <1>2, <1>4
  <2>2. Place(i) \in 1..out /\ (i \in Bare => Place(i) - 1 \in 1..out)
    BY <1>2, <1>3, <1>6, <2>1
  <2> QED
    BY <1>2, <1>8, <2>2
<1>11. Place(from)' = Place(from) /\ \A i \in (from + 1)..n : Place(i)' = Place(i)
  BY <1>1, <1>5 DEF Place, UpTo
<1>12. Growing'
  <2>1. Cardinality(Bare)' = Cardinality(Bare) /\ Len(Text)' = n
    BY <1>1 DEF n
  <2> QED
    BY <1>1, <1>2, <1>5, <1>7, <1>9, <1>10, <1>11, <2>1 DEF Growing
<1>13. Shrinking' /\ LinesConverted'
  BY <1>1, <1>5 DEF Shrinking, LinesConverted, Done
<1> QED
  BY <1>1, <1>12, <1>13, <1>5 DEF LinesInv

\* A turn of the loop for CRLF puts a CR before exactly an LF without one, and
\* what it writes is not before what it still has to read.
LEMMA CrlfTurnStep ==
  ASSUME LinesInv, CrlfTurn
  PROVE  LinesInv'
<1> DEFINE n == Len(Text)
           copied == [mem EXCEPT ![to] = mem[from]]
<1>1. job \in Jobs /\ job.kind = "crlf" /\ job' = job /\ Text' = Text /\ Bare' = Bare
  BY DEF LinesInv, Shrinking, CrlfTurn, Text, Bare
<1>2. /\ out = n + Cardinality(Bare) /\ mem \in [1..(out + 1) -> Int]
      /\ from \in 1..n /\ to = Place(from)
      /\ \A i \in 1..from : mem[i] = Text[i]
      /\ \A i \in (from + 1)..n :
           mem[Place(i)] = Text[i] /\ (i \in Bare => mem[Place(i) - 1] = CR)
      /\ mem[out + 1] = NUL
  BY <1>1 DEF LinesInv, Growing, CrlfTurn
<1>3. /\ \A i \in 1..n : /\ Place(i) \in i..(n + Cardinality(Bare))
                         /\ i \in Bare => Place(i) - 1 >= i
      /\ \A i, k \in 1..n : i < k => /\ Place(i) < Place(k)
                                     /\ k \in Bare => Place(i) < Place(k) - 1
      /\ \A i \in 1..n : i > 1 => Place(i - 1) = Place(i) - (IF i \in Bare THEN 2 ELSE 1)
      /\ Place(n) = n + Cardinality(Bare)
      /\ Cardinality(Bare) \in Nat
      /\ \A i \in 1..n : UpTo(Bare, i) \in Nat
  BY <1>1, Places
<1>4. n \in Nat /\ DOMAIN Text = 1..n /\ \A i \in 1..n : Text[i] \in Int
  BY <1>1, TextTyped
<1>5. from \in Bare <=> Text[from] = LF /\ (from = 1 \/ Text[from - 1] # CR)
  BY <1>2, <1>4 DEF Bare, BareLfs, BareLf
<1>6. /\ from' = from - 1 /\ out' = out /\ job_pc = "crlfback"
      /\ job_pc' = IF from = 1 THEN "done" ELSE "crlfback"
      /\ IF mem[from] = LF /\ (from = 1 \/ copied[from - 1] # CR)
         THEN mem' = [copied EXCEPT ![to - 1] = CR] /\ to' = to - 2
         ELSE mem' = copied /\ to' = to - 1
  BY DEF CrlfTurn
<1> HIDE DEF n
<1>7. out \in Nat /\ to \in from..out /\ to \in 1..(out + 1) /\ (from \in Bare => to - 1 >= from)
  <2>1. /\ to = Place(from) /\ from \in 1..n /\ Place(from) \in from..(n + Cardinality(Bare))
        /\ from \in Bare => Place(from) - 1 >= from
    BY <1>2, <1>3
  <2>2. out = n + Cardinality(Bare) /\ Cardinality(Bare) \in Nat
    BY <1>2, <1>3
  <2> QED
    BY <1>4, <2>1, <2>2
<1>8. mem[from] = Text[from] /\ mem[from] \in Int
  BY <1>2, <1>4
<1>9. copied \in [1..(out + 1) -> Int]
  BY <1>2, <1>7, <1>8
<1>10. copied[to] = Text[from] /\ \A p \in 1..(out + 1) : p # to => copied[p] = mem[p]
  BY <1>2, <1>7, <1>8
<1> HIDE DEF copied
<1>11. IF from \in Bare THEN mem' = [copied EXCEPT ![to - 1] = CR] /\ to' = to - 2
       ELSE mem' = copied /\ to' = to - 1
  <2>1. from # 1 => copied[from - 1] = Text[from - 1]
    <3>1. from # 1 => from - 1 \in 1..(out + 1) /\ from - 1 # to /\ from - 1 \in 1..from
      BY <1>2, <1>4, <1>7
    <3> QED
      BY <1>2, <1>10, <3>1
  <2> QED
    BY <1>5, <1>6, <1>8, <2>1, Zenon
<1>12. /\ mem' \in [1..(out + 1) -> Int]
       /\ mem'[to] = Text[from] /\ (from \in Bare => mem'[to - 1] = CR)
       /\ \A p \in 1..(out + 1) : p # to /\ (from \in Bare => p # to - 1) => mem'[p] = mem[p]
  <2>1. CASE from \in Bare
    <3>1. mem' = [copied EXCEPT ![to - 1] = CR] /\ CR \in Int
      BY <1>11, <2>1 DEF CR
    <3>2. to - 1 \in 1..(out + 1) /\ to - 1 # to
      BY <1>2, <1>4, <1>7, <2>1
    <3> QED
      BY <1>7, <1>9, <1>10, <2>1, <3>1, <3>2
  <2>2. CASE from \notin Bare
    BY <1>9, <1>10, <1>11, <2>2
  <2> QED
    BY <2>1, <2>2
<1>13. mem'[out + 1] = NUL
  BY <1>2, <1>7, <1>12
<1>14. \A i \in 1..(from - 1) : mem'[i] = Text[i]
  <2> SUFFICES ASSUME NEW i \in 1..(from - 1) PROVE mem'[i] = Text[i]
    OBVIOUS
  <2>1. i \in 1..from /\ i \in 1..(out + 1) /\ i # to /\ (from \in Bare => i # to - 1)
    BY <1>2, <1>4, <1>7
  <2> QED
    BY <1>2, <1>12, <2>1
<1>15. \A i \in from..n :
         mem'[Place(i)] = Text[i] /\ (i \in Bare => mem'[Place(i) - 1] = CR)
  <2> SUFFICES ASSUME NEW i \in from..n
               PROVE  mem'[Place(i)] = Text[i] /\ (i \in Bare => mem'[Place(i) - 1] = CR)
    OBVIOUS
  <2>1. CASE i = from
    BY <1>2, <1>12, <2>1
  <2>2. CASE i # from
    <3>1. i \in (from + 1)..n /\ i \in 1..n /\ from \in 1..n /\ from < i
      BY <1>2, <1>4, <2>2
    <3>2. to < Place(i) /\ (i \in Bare => to < Place(i) - 1)
      BY <1>2, <1>3, <3>1
    <3>3. Place(i) \in 1..(out + 1) /\ (i \in Bare => Place(i) - 1 \in 1..(out + 1))
      <4>1. Place(i) \in i..out /\ (i \in Bare => Place(i) - 1 >= i)
        BY <1>2, <1>3, <3>1
      <4> QED
        BY <1>4, <1>7, <3>1, <4>1
    <3>4. /\ Place(i) # to /\ Place(i) # to - 1
          /\ i \in Bare => Place(i) - 1 # to /\ Place(i) - 1 # to - 1
      BY <1>7, <3>2, <3>3
    <3>5. mem'[Place(i)] = mem[Place(i)]
      BY <1>12, <3>3, <3>4
    <3>6. i \in Bare => mem'[Place(i) - 1] = mem[Place(i) - 1]
      BY <1>12, <3>3, <3>4
    <3> QED
      BY <1>2, <3>1, <3>5, <3>6
  <2> QED
    BY <2>1, <2>2
<1>16. CASE from = 1
  <2>1. job_pc' = "done"
    BY <1>6, <1>16
  <2>2. /\ \A i \in 1..n : mem'[Place(i)] = Text[i]
        /\ \A i \in 1..n : i \in Bare => mem'[Place(i) - 1] = CR
    BY <1>15, <1>16
  <2>3. \A i \in Bare : i \in 1..n
    BY <1>1, TextTyped DEF n
  <2>4. LinesConverted'
    <3>1. job'.kind # "lf"
      BY <1>1
    <3>2. /\ out' = Len(Text)' + Cardinality(Bare)' /\ mem'[out' + 1] = NUL
          /\ \A i \in DOMAIN Text' : mem'[i + UpTo(Bare, i)'] = Text'[i]
          /\ \A i \in Bare' : mem'[i + UpTo(Bare, i)' - 1] = CR
      <4>1. /\ \A i \in 1..n : UpTo(Bare, i)' = UpTo(Bare, i) /\ Place(i) = i + UpTo(Bare, i)
            /\ Cardinality(Bare)' = Cardinality(Bare) /\ Len(Text)' = n /\ DOMAIN Text' = 1..n
        BY <1>1, <1>4 DEF n, Place, UpTo
      <4>2. out' = Len(Text)' + Cardinality(Bare)' /\ mem'[out' + 1] = NUL
        BY <1>2, <1>6, <1>13, <4>1
      <4>3. \A i \in DOMAIN Text' : mem'[i + UpTo(Bare, i)'] = Text'[i]
        BY <1>1, <2>2, <4>1
      <4>4. \A i \in Bare' : mem'[i + UpTo(Bare, i)' - 1] = CR
        <5> SUFFICES ASSUME NEW i \in Bare PROVE mem'[i + UpTo(Bare, i)' - 1] = CR
          BY <1>1
        <5>1. i \in 1..n /\ mem'[Place(i) - 1] = CR
          BY <2>2, <2>3
        <5> DEFINE u == UpTo(Bare, i)'
        <5>2. Place(i) = i + u /\ u \in Nat
          BY <1>3, <4>1, <5>1
        <5> HIDE DEF u
        <5>3. mem'[i + u - 1] = CR
          BY <5>1, <5>2
        <5> QED
          BY <5>3 DEF u
      <4> QED
        BY <4>2, <4>3, <4>4
    <3> QED
      BY <3>1, <3>2 DEF LinesConverted, Done, Text, Bare
  <2>5. Shrinking' /\ Growing'
    BY <1>1, <2>1 DEF Shrinking, Growing
  <2> QED
    BY <1>1, <2>4, <2>5 DEF LinesInv
<1>17. CASE from # 1
  <2>1. job_pc' = "crlfback"
    BY <1>6, <1>17
  <2>2. from' \in 1..n /\ from' + 1 = from
    BY <1>2, <1>4, <1>6, <1>17
  <2>3. to' = Place(from')
    <3>1. Place(from - 1) = Place(from) - (IF from \in Bare THEN 2 ELSE 1)
      <4>1. from \in 1..n /\ from > 1
        BY <1>2, <1>4, <1>17
      <4> QED
        BY <1>3, <4>1
    <3> QED
      BY <1>2, <1>6, <1>11, <3>1
  <2>4. \A i \in 1..from' : mem'[i] = Text[i]
    BY <1>6, <1>14
  <2>5. \A i \in (from' + 1)..n :
          mem'[Place(i)] = Text[i] /\ (i \in Bare => mem'[Place(i) - 1] = CR)
    BY <1>15, <2>2
  <2>6. Place(from)' = Place(from') /\ \A i \in (from' + 1)..n : Place(i)' = Place(i)
    BY <1>1 DEF Place, UpTo
  <2>7. Growing'
    <3>1. Cardinality(Bare)' = Cardinality(Bare) /\ Len(Text)' = n
      BY <1>1 DEF n
    <3> QED
      BY <1>1, <1>2, <1>6, <1>12, <1>13, <2>1, <2>2, <2>3, <2>4, <2>5, <2>6, <3>1 DEF Growing
  <2>8. Shrinking' /\ LinesConverted'
    BY <1>1, <2>1 DEF Shrinking, LinesConverted, Done
  <2> QED
    BY <1>1, <2>7, <2>8 DEF LinesInv
<1> QED
  BY <1>16, <1>17

LEMMA InitLinesInv == ConvInit => LinesInv
<1> SUFFICES ASSUME ConvInit PROVE LinesInv
  OBVIOUS
<1>1. /\ job \in Jobs /\ to = 1 /\ job_pc = FirstLabel(job)
      /\ job.kind \in {"lf", "crlf"} => from = 1 /\ mem = Append(job.text, NUL)
  BY DEF ConvInit
<1>2. ASSUME job.kind \in {"lf", "crlf"}
      PROVE  /\ mem \in [1..(Len(Text) + 1) -> Int]
             /\ \A i \in 1..(Len(Text) + 1) : mem[i] = Original(i)
             /\ Len(Text) \in Nat
  <2>1. Text \in Seq(Int) /\ Len(Text) \in Nat /\ NUL \in Int
    BY <1>1, <1>2, TextTyped DEF NUL
  <2>2. mem = Append(Text, NUL)
    BY <1>1, <1>2 DEF Text
  <2>3. mem \in Seq(Int) /\ Len(mem) = Len(Text) + 1
    BY <2>1, <2>2
  <2>4. mem \in [1..(Len(Text) + 1) -> Int]
    BY <2>3
  <2>5. \A i \in 1..(Len(Text) + 1) : mem[i] = Original(i)
    BY <2>1, <2>2 DEF Original
  <2> QED
    BY <2>1, <2>4, <2>5
<1>3. CASE job.kind = "lf"
  <2>1. job_pc = "lf"
    BY <1>1, <1>3 DEF FirstLabel
  <2>2. UpTo(Crs, 0) = 0
    <3>1. \A j \in Crs : j \in Int /\ 1 <= j /\ j <= Len(Text)
      BY <1>1, <1>2, <1>3, TextTyped
    <3> QED
      BY <1>2, <1>3, <3>1, UpToProperties
  <2>3. to = from - UpTo(Crs, from - 1)
    <3>1. from - 1 = 0
      BY <1>1, <1>3
    <3> QED
      BY <1>1, <1>3, <2>2, <3>1
  <2>4. Shrinking
    <3>1. 1..(from - 1) = {} /\ from..(Len(Text) + 1) = 1..(Len(Text) + 1)
      BY <1>1, <1>3
    <3>2. from \in 1..(Len(Text) + 1)
      BY <1>1, <1>2, <1>3
    <3> QED
      BY <1>2, <1>3, <2>1, <2>3, <3>1, <3>2 DEF Shrinking
  <2>5. Growing /\ LinesConverted
    BY <1>3, <2>1 DEF Growing, LinesConverted, Done
  <2> QED
    BY <1>1, <1>3, <2>1, <2>4, <2>5 DEF LinesInv
<1>4. CASE job.kind = "crlf"
  <2>1. job_pc = "crlf"
    BY <1>1, <1>4 DEF FirstLabel
  <2>2. Growing
    BY <1>2, <1>4, <2>1 DEF Growing
  <2>3. Shrinking /\ LinesConverted
    BY <1>4, <2>1 DEF Shrinking, LinesConverted, Done
  <2> QED
    BY <1>1, <1>4, <2>1, <2>2, <2>3 DEF LinesInv
<1>5. CASE job.kind \notin {"lf", "crlf"}
  <2>1. job_pc \notin {"lf", "crlf", "terminate", "crlfback"}
    <3>1. job.kind \in {"size", "paths", "urls"}
      BY <1>1, <1>5, ConversionsAssumption
    <3>2. job_pc \in {"size", "copy"}
      BY <1>1, <3>1 DEF FirstLabel
    <3> QED
      BY <3>2
  <2> QED
    BY <1>1, <1>5, <2>1 DEF LinesInv, Shrinking, Growing, LinesConverted, Done
<1> QED
  BY <1>3, <1>4, <1>5

LEMMA NextLinesInv == LinesInv /\ [ConvNext]_convVars => LinesInv'
<1> SUFFICES ASSUME LinesInv, [ConvNext]_convVars PROVE LinesInv'
  OBVIOUS
<1> DEFINE labels == {"lf", "crlf", "terminate", "crlfback"}
<1>1. CASE LfTurn
  BY <1>1, LfTurnStep
<1>2. CASE LfEnd
  BY <1>2, LfEndStep
<1>3. CASE ReallocForCrlf
  BY <1>3, ReallocStep
<1>4. CASE Terminate
  BY <1>4, TerminateStep
<1>5. CASE CrlfTurn
  BY <1>5, CrlfTurnStep
<1>6. CASE \/ SendByte \/ ReadSize \/ ReadByte
            \/ Copy \/ Split \/ NextFile \/ DecodeTurn \/ DecodeFails \/ TakeFile
  <2>1. /\ job' = job /\ job_pc \notin labels /\ job_pc # "done" /\ job_pc' \notin labels
    <3>1. CASE SendByte \/ ReadSize \/ ReadByte
      BY <3>1 DEF SendByte, ReadSize, ReadByte
    <3>2. CASE Copy \/ Split \/ NextFile \/ DecodeTurn \/ DecodeFails \/ TakeFile
      BY <3>2 DEF Copy, Split, NextFile, DecodeTurn, DecodeFails, TakeFile
    <3> QED
      BY <1>6, <3>1, <3>2
  <2>2. job.kind \notin {"lf", "crlf"}
    BY <2>1 DEF LinesInv, Shrinking, Growing
  <2>3. /\ job' \in Jobs /\ (job'.kind \notin {"lf", "crlf"} => job_pc' \notin labels)
        /\ job'.kind # "lf" /\ job'.kind # "crlf"
    BY <2>1, <2>2 DEF LinesInv
  <2> QED
    BY <2>3 DEF LinesInv, Shrinking, Growing, LinesConverted, Done
<1>7. CASE UNCHANGED convVars
  <2>1. /\ job' = job /\ mem' = mem /\ from' = from /\ to' = to /\ out' = out /\ job_pc' = job_pc
    BY <1>7 DEF convVars
  <2>2. LinesConverted'
    BY <2>1 DEF LinesInv, LinesConverted, Done, UpTo
  <2>3. Shrinking'
    BY <2>1 DEF LinesInv, Shrinking, Text, Crs, Original, UpTo
  <2>4. Growing'
    BY <2>1 DEF LinesInv, Growing, Text, Bare, Original, Place, UpTo
  <2> QED
    BY <2>1, <2>2, <2>3, <2>4 DEF LinesInv
<1> QED
  BY <1>1, <1>2, <1>3, <1>4, <1>5, <1>6, <1>7 DEF ConvNext

\* convert_eol(): for every text, working within one buffer makes no
\* difference.  Towards its start each CR before an LF goes, towards its end
\* one comes before each LF without one, every other character is in its place
\* and the length is the one returned.
THEOREM LinesConvertedHolds == ConvSpec => []LinesConverted
<1>1. ConvInit => LinesInv
  BY InitLinesInv
<1>2. LinesInv /\ [ConvNext]_convVars => LinesInv'
  BY NextLinesInv
<1>3. LinesInv => LinesConverted
  BY DEF LinesInv
<1> QED
  BY <1>1, <1>2, <1>3, PTL DEF ConvSpec

-----------------------------------------------------------------------------
(* The sizes: Conversions.                                                 *)

\* What send_size() has left when it comes to byte b, and the byte
Shifted(b) == job.size \div Weight[Digits - b]
Byte(b) == Shifted(b) % Base

\* One call shifts the bytes out from the last to the first, the other shifts
\* them in from the first, and has read the size without its last bytes.
BytesOut ==
  job_pc = "size" =>
    /\ from \in 1..Digits /\ count = Shifted(from)
    /\ \A b \in (from + 1)..Digits : mem[b] = Byte(b)
BytesIn ==
  job_pc = "read" =>
    /\ from \in 1..Digits
    /\ out = Shifted(from - 1) % Weight[from - 1]
    /\ Weight[from - 1] * Weight[Digits - (from - 1)] = Word

SizeInv ==
  /\ job \in Jobs
  /\ job.kind # "size" => job_pc \notin {"size", "sent", "read"}
  /\ job.kind = "size" =>
       /\ job_pc \in {"size", "sent", "read", "done"}
       /\ DOMAIN mem = 1..Digits
       /\ BytesOut /\ BytesIn
       /\ job_pc \in {"sent", "read"} => \A b \in 1..Digits : mem[b] = Byte(b)
       /\ job_pc = "done" => out = job.size

LEMMA QuotientUnique ==
  ASSUME NEW a \in Int, NEW n \in Int, n > 0, NEW q \in Int, NEW r \in Int,
         a = n * q + r, 0 <= r, r < n
  PROVE  a \div n = q /\ a % n = r
<1>1. a = n * (a \div n) + (a % n) /\ a % n \in 0..(n - 1) /\ a \div n \in Int
  OBVIOUS
<1>2. n * (q - (a \div n)) = (a % n) - r
  BY <1>1
<1>3. CASE q > a \div n
  <2>1. n * (q - (a \div n)) >= n
    BY <1>1, <1>3
  <2> QED
    BY <1>1, <1>2, <2>1
<1>4. CASE q < a \div n
  <2>1. n * (q - (a \div n)) <= -n
    BY <1>1, <1>4
  <2> QED
    BY <1>1, <1>2, <2>1
<1> QED
  BY <1>1, <1>2, <1>3, <1>4

\* Shifting twice
LEMMA NestedDivision ==
  ASSUME NEW a \in Int, NEW m \in Int, m > 0, NEW n \in Int, n > 0
  PROVE  (a \div m) \div n = a \div (m * n)
<1> DEFINE q == a \div m
           r == a % m
           q2 == q \div n
           s == q % n
<1>1. a = m * q + r /\ q \in Int /\ r \in Int /\ 0 <= r /\ r < m
  OBVIOUS
<1>2. q = n * q2 + s /\ q2 \in Int /\ s \in Int /\ 0 <= s /\ s <= n - 1
  BY <1>1
<1> HIDE DEF q, r, q2, s
<1>3. a = (m * n) * q2 + (m * s + r)
  BY <1>1, <1>2
<1>4. 0 <= m * s /\ m * s <= m * (n - 1)
  BY <1>2
<1>5. m * n \in Int /\ m * n > 0 /\ m * s + r \in Int /\ 0 <= m * s + r /\ m * s + r < m * n
  BY <1>1, <1>2, <1>4
<1>6. a \div (m * n) = q2
  BY <1>2, <1>3, <1>5, QuotientUnique
<1> QED
  BY <1>6 DEF q2, q

\* A remainder with one more digit
LEMMA NextRemainder ==
  ASSUME NEW q \in Int, NEW m \in Int, m > 0, NEW n \in Int, n > 0
  PROVE  ((q \div n) % m) * n + (q % n) = q % (m * n)
<1> DEFINE p == q \div n
           s == q % n
           t == p \div m
           r == p % m
<1>1. q = n * p + s /\ p \in Int /\ s \in Int /\ 0 <= s /\ s < n
  OBVIOUS
<1>2. p = m * t + r /\ t \in Int /\ r \in Int /\ 0 <= r /\ r <= m - 1
  BY <1>1
<1> HIDE DEF p, s, t, r
<1>3. q = (m * n) * t + (r * n + s)
  BY <1>1, <1>2
<1>4. 0 <= r * n /\ r * n <= (m - 1) * n
  BY <1>2
<1>5. m * n \in Int /\ m * n > 0 /\ r * n + s \in Int /\ 0 <= r * n + s /\ r * n + s < m * n
  BY <1>1, <1>2, <1>4
<1>6. q % (m * n) = r * n + s
  BY <1>2, <1>3, <1>5, QuotientUnique
<1> QED
  BY <1>6 DEF r, s, p

\* Two's complement, of Word values
LEMMA SignedRemainder ==
  ASSUME NEW n \in -(Word \div 2)..(Word \div 2 - 1), Word \in Int, Word > 0
  PROVE  Signed(n % Word) = n
<1> DEFINE W == Word
<1>1. W \in Int /\ W > 0 /\ n \in Int /\ -(W \div 2) <= n /\ n < W \div 2
  OBVIOUS
<1>2. Signed(n % Word)
      = LET u == (n % W) % W IN IF u >= W \div 2 THEN u - W ELSE u
  BY DEF Signed
<1> HIDE DEF W
<1>3. W \div 2 \in Int /\ 2 * (W \div 2) <= W
  BY <1>1
<1>4. CASE n >= 0
  <2>1. n % W = n /\ (n % W) % W = n
    <3>1. n = W * 0 + n /\ n < W
      BY <1>1, <1>3, <1>4
    <3>2. n % W = n
      BY <1>1, <1>4, <3>1, QuotientUnique
    <3> QED
      BY <3>2
  <2> QED
    BY <1>1, <1>2, <1>3, <1>4, <2>1
<1>5. CASE n < 0
  <2>1. n = W * (-1) + (n + W) /\ 0 <= n + W /\ n + W < W /\ n + W \in Int
    BY <1>1, <1>3, <1>5
  <2>2. n % W = n + W
    BY <1>1, <2>1, QuotientUnique
  <2>3. n + W = W * 0 + (n + W)
    BY <1>1
  <2>4. (n % W) % W = n + W
    BY <1>1, <2>1, <2>2, <2>3, QuotientUnique
  <2>5. n + W >= W \div 2
    BY <1>1, <1>3
  <2> QED
    BY <1>1, <1>2, <2>4, <2>5
<1> QED
  BY <1>1, <1>4, <1>5

\* What is not negative as a signed number
LEMMA SignedSmall ==
  ASSUME NEW n \in Int, 0 <= n, Word \in Int, 2 * n + 2 <= Word
  PROVE  Signed(n) = n
<1> DEFINE W == Word
<1>1. W \in Int /\ 2 * n + 2 <= W
  OBVIOUS
<1>2. Signed(n) = LET u == n % W IN IF u >= W \div 2 THEN u - W ELSE u
  BY DEF Signed
<1> HIDE DEF W
<1>3. n = W * 0 + n /\ n < W /\ n < W \div 2 /\ W > 0
  BY <1>1
<1>4. n % W = n
  BY <1>1, <1>3, QuotientUnique
<1> QED
  BY <1>1, <1>2, <1>3, <1>4

LEMMA WeightProperties ==
  /\ Digits \in Nat \ {0} /\ Base \in Int /\ Base > 1 /\ Weight[0] = 1
  /\ \A k \in 0..Digits : Weight[k] \in Int /\ Weight[k] > 0
  /\ \A k \in 0..(Digits - 1) : Weight[k + 1] = Weight[k] * Base
  /\ Word \in Int /\ Word > 0
<1>1. Digits \in Nat \ {0} /\ Base \in Int /\ Base > 1 /\ Weight[0] = 1
  <2>1. /\ Digits \in Nat \ {0} /\ Base \in Nat \ {0} /\ Base % 2 = 0 /\ Weight[0] = 1
    BY ConversionsAssumption
  <2>2. Base # 1
    BY <2>1
  <2> QED
    BY <2>1, <2>2
<1>2. \A k \in 0..Digits : Weight[k] \in Int /\ Weight[k] > 0
  <2>1. Weight \in [0..Digits -> Nat \ {0}]
    BY ConversionsAssumption
  <2> QED
    BY <2>1
<1>3. \A k \in 0..(Digits - 1) : Weight[k + 1] = Weight[k] * Base
  <2> SUFFICES ASSUME NEW k \in 0..(Digits - 1) PROVE Weight[k + 1] = Weight[k] * Base
    OBVIOUS
  <2>1. k + 1 \in 1..Digits /\ (k + 1) - 1 = k
    BY <1>1
  <2>2. Weight[k + 1] = Weight[(k + 1) - 1] * Base
    BY <2>1, ConversionsAssumption
  <2> QED
    BY <2>1, <2>2
<1>4. Word \in Int /\ Word > 0
  <2>1. Digits \in 0..Digits
    BY <1>1
  <2> QED
    BY <1>2, <2>1 DEF Word
<1> QED
  BY <1>1, <1>2, <1>3, <1>4

LEMMA ShiftedProperties ==
  ASSUME job \in Jobs, job.kind = "size"
  PROVE  /\ job.size \in -(Word \div 2)..(Word \div 2 - 1) /\ job.size \in Int
         /\ \A b \in 0..Digits : Shifted(b) \in Int
         /\ \A b \in 1..Digits : Byte(b) \in Int /\ Shifted(b - 1) = Shifted(b) \div Base
         /\ Shifted(Digits) = job.size
<1>1. job.size \in -(Word \div 2)..(Word \div 2 - 1)
  BY ConversionsAssumption DEF Word
<1>2. job.size \in Int
  BY <1>1, WeightProperties
<1>3. \A b \in 0..Digits : Shifted(b) \in Int
  <2> SUFFICES ASSUME NEW b \in 0..Digits PROVE Shifted(b) \in Int
    OBVIOUS
  <2>1. Digits - b \in 0..Digits
    BY WeightProperties
  <2> DEFINE w == Weight[Digits - b]
             a == job.size
  <2>2. w \in Int /\ w > 0 /\ a \in Int /\ Shifted(b) = a \div w
    BY <1>2, <2>1, WeightProperties DEF Shifted
  <2> HIDE DEF w, a
  <2> QED
    BY <2>2
<1>4. ASSUME NEW b \in 1..Digits PROVE Byte(b) \in Int /\ Shifted(b - 1) = Shifted(b) \div Base
  <2>1. Digits - b \in 0..(Digits - 1) /\ Digits - (b - 1) = (Digits - b) + 1 /\ b \in 0..Digits
    BY WeightProperties
  <2> DEFINE w == Weight[Digits - b]
             a == job.size
  <2>2. w \in Int /\ w > 0 /\ a \in Int /\ Base \in Int /\ Base > 0
    <3>1. Digits - b \in 0..Digits
      BY <2>1, WeightProperties
    <3> QED
      BY <1>2, <3>1, WeightProperties
  <2>3. Weight[Digits - (b - 1)] = w * Base
    BY <2>1, WeightProperties
  <2>4. Shifted(b) = a \div w /\ Shifted(b - 1) = a \div (w * Base)
    BY <2>3 DEF Shifted
  <2> HIDE DEF w, a
  <2>5. (a \div w) \div Base = a \div (w * Base)
    BY <2>2, NestedDivision
  <2>6. Byte(b) \in Int
    BY <1>3, <2>1, <2>2 DEF Byte
  <2> QED
    BY <2>4, <2>5, <2>6
<1>5. Shifted(Digits) = job.size
  <2>1. Digits - Digits = 0 /\ Weight[0] = 1
    BY WeightProperties
  <2> QED
    BY <1>2, <2>1 DEF Shifted
<1> QED
  BY <1>1, <1>2, <1>3, <1>4, <1>5

\* One more byte that is read, from index j + 1
LEMMA ShiftedInNext ==
  ASSUME job \in Jobs, job.kind = "size", NEW j \in 0..(Digits - 1),
         Weight[j] * Weight[Digits - j] = Word
  PROVE  LET n == ShiftedIn(Shifted(j) % Weight[j], Byte(j + 1)) IN
         /\ j < Digits - 1 =>
              /\ n = Shifted(j + 1) % Weight[j + 1]
              /\ Weight[j + 1] * Weight[Digits - (j + 1)] = Word
         /\ j = Digits - 1 => n = job.size
<1> DEFINE q == Shifted(j + 1)
           m == Weight[j]
           w == Weight[Digits - (j + 1)]
           v == q % Weight[j + 1]
<1>1. /\ j \in 0..Digits /\ j + 1 \in 1..Digits /\ j + 1 \in 0..Digits /\ (j + 1) - 1 = j
      /\ Digits - (j + 1) \in 0..(Digits - 1) /\ Digits - (j + 1) \in 0..Digits
      /\ (Digits - (j + 1)) + 1 = Digits - j
  BY WeightProperties
<1>2. /\ m \in Int /\ m > 0 /\ w \in Int /\ w > 0 /\ q \in Int
      /\ Base \in Int /\ Base > 0 /\ Base > 1 /\ Word \in Int /\ Word > 0
  BY <1>1, WeightProperties, ShiftedProperties
<1>3. Weight[j + 1] = m * Base
  BY WeightProperties
<1>4. Weight[Digits - j] = w * Base
  BY <1>1, WeightProperties
<1>5. Shifted(j) = q \div Base /\ Byte(j + 1) = q % Base
  BY <1>1, ShiftedProperties DEF Byte
<1>6. ShiftedIn(Shifted(j) % m, Byte(j + 1)) = Signed(((q \div Base) % m) * Base + (q % Base))
  BY <1>5 DEF ShiftedIn
<1> DEFINE W == Word
<1>7. m * (w * Base) = W
  BY <1>4
<1> HIDE DEF q, m, w, W
<1>8. ((q \div Base) % m) * Base + (q % Base) = q % (m * Base)
  <2>1. q \in Int /\ m \in Int /\ m > 0 /\ Base \in Int /\ Base > 0
    BY <1>2
  <2> QED
    BY ONLY <2>1, NextRemainder, Zenon
<1>9. ShiftedIn(Shifted(j) % Weight[j], Byte(j + 1)) = Signed(v)
  BY <1>3, <1>6, <1>8 DEF m
<1>10. (m * Base) * w = W
  BY <1>2, <1>7
<1>11. CASE j < Digits - 1
  <2>1. w >= 2
    <3> DEFINE k == Digits - (j + 1) - 1
    <3>1. k \in 0..(Digits - 1) /\ k \in 0..Digits /\ k + 1 = Digits - (j + 1)
      BY <1>11, WeightProperties
    <3>2. w = Weight[k] * Base
      BY <3>1, WeightProperties DEF w
    <3> DEFINE x == Weight[k]
    <3>3. x \in Int /\ x >= 1
      BY <3>1, WeightProperties
    <3>4. w = x * Base
      BY <3>2
    <3> HIDE DEF x, k
    <3> QED
      BY <1>2, <3>3, <3>4
  <2> DEFINE y == m * Base
  <2>2. y \in Int /\ y > 0 /\ y * w = W
    BY <1>2, <1>10
  <2>3. v = q % y
    BY <1>3
  <2> HIDE DEF y
  <2>4. v \in Int /\ 0 <= v /\ v <= y - 1
    BY <1>2, <2>2, <2>3
  <2>5. 2 * y <= W
    BY <1>2, <2>1, <2>2
  <2> DEFINE u == v
  <2>6. u \in Int /\ 0 <= u /\ 2 * u + 2 <= Word /\ Word \in Int
    BY <1>2, <2>2, <2>4, <2>5 DEF W
  <2> HIDE DEF u, v
  <2>7. Signed(u) = u
    BY <2>6, SignedSmall
  <2>8. Signed(v) = v
    BY <2>7 DEF u
  <2>9. Weight[j + 1] * Weight[Digits - (j + 1)] = Word
    BY <1>3, <1>10 DEF w, W
  <2> QED
    BY <1>9, <1>11, <2>8, <2>9, WeightProperties DEF v, q
<1>12. CASE j = Digits - 1
  <2>1. j + 1 = Digits
    BY <1>12, WeightProperties
  <2>2. q = job.size /\ Weight[j + 1] = Word
    BY <2>1, ShiftedProperties DEF q, Word
  <2>3. v = job.size % Word
    BY <2>2
  <2>4. job.size \in -(Word \div 2)..(Word \div 2 - 1)
    BY ShiftedProperties
  <2>5. Signed(job.size % Word) = job.size
    BY <1>2, <2>4, SignedRemainder
  <2>6. ~(j < Digits - 1)
    BY <1>12, WeightProperties
  <2> QED
    BY <1>9, <2>3, <2>5, <2>6
<1>13. j < Digits - 1 \/ j = Digits - 1
  BY WeightProperties
<1> QED
  BY <1>11, <1>12, <1>13

LEMMA InitSizeInv == ConvInit => SizeInv
<1> SUFFICES ASSUME ConvInit PROVE SizeInv
  OBVIOUS
<1>1. job \in Jobs /\ job_pc = FirstLabel(job)
  BY DEF ConvInit
<1>2. CASE job.kind = "size"
  <2>1. job_pc = "size"
    BY <1>1, <1>2 DEF FirstLabel
  <2>2. /\ mem = [b \in 1..Digits |-> NUL] /\ from = Digits /\ count = job.size
    BY <1>2 DEF ConvInit
  <2>3. from \in 1..Digits /\ (from + 1)..Digits = {}
    BY <2>2, WeightProperties
  <2>4. count = Shifted(from)
    BY <1>1, <1>2, <2>2, ShiftedProperties
  <2> QED
    BY <1>1, <1>2, <2>1, <2>2, <2>3, <2>4 DEF SizeInv, BytesOut, BytesIn
<1>3. CASE job.kind # "size"
  <2>1. job.kind \in {"lf", "crlf", "paths", "urls"}
    BY <1>1, <1>3, ConversionsAssumption
  <2>2. job_pc \in {"lf", "crlf", "copy"}
    BY <1>1, <2>1 DEF FirstLabel
  <2> QED
    BY <1>1, <1>3, <2>2 DEF SizeInv
<1> QED
  BY <1>2, <1>3

LEMMA SendByteStep == SizeInv /\ SendByte => SizeInv'
<1> SUFFICES ASSUME SizeInv, SendByte PROVE SizeInv'
  OBVIOUS
<1>1. /\ job \in Jobs /\ job.kind = "size" /\ job_pc = "size" /\ job' = job
      /\ DOMAIN mem = 1..Digits /\ from \in 1..Digits /\ count = Shifted(from)
      /\ \A b \in (from + 1)..Digits : mem[b] = Byte(b)
  BY DEF SizeInv, BytesOut, SendByte
<1>2. /\ mem' = [mem EXCEPT ![from] = count % Base] /\ count' = count \div Base
      /\ from' = from - 1 /\ job_pc' = IF from = 1 THEN "sent" ELSE "size"
  BY DEF SendByte
<1>3. \A b : Byte(b)' = Byte(b) /\ Shifted(b)' = Shifted(b)
  BY <1>1 DEF Byte, Shifted
<1>4. DOMAIN mem' = 1..Digits
  BY <1>1, <1>2
<1>5. \A b \in from..Digits : mem'[b] = Byte(b)
  <2>1. mem'[from] = Byte(from)
    BY <1>1, <1>2 DEF Byte
  <2>2. ASSUME NEW b \in (from + 1)..Digits PROVE mem'[b] = Byte(b)
    <3>1. b \in 1..Digits /\ b # from
      BY <1>1, WeightProperties
    <3> QED
      BY <1>1, <1>2, <3>1
  <2> QED
    BY <1>1, <2>1, <2>2, WeightProperties
<1>6. CASE from = 1
  <2>1. job_pc' = "sent"
    BY <1>2, <1>6
  <2>2. \A b \in 1..Digits : mem'[b] = Byte(b)
    BY <1>5, <1>6
  <2> QED
    BY <1>1, <1>3, <1>4, <2>1, <2>2 DEF SizeInv, BytesOut, BytesIn
<1>7. CASE from # 1
  <2>1. job_pc' = "size"
    BY <1>2, <1>7
  <2>2. from' \in 1..Digits /\ from' + 1 = from
    BY <1>1, <1>2, <1>7, WeightProperties
  <2>3. count' = Shifted(from')
    <3>1. Shifted(from - 1) = Shifted(from) \div Base
      BY <1>1, ShiftedProperties
    <3> QED
      BY <1>1, <1>2, <3>1
  <2>4. \A b \in (from' + 1)..Digits : mem'[b] = Byte(b)
    BY <1>5, <2>2
  <2>5. BytesOut'
    BY <1>3, <2>2, <2>3, <2>4 DEF BytesOut
  <2> QED
    BY <1>1, <1>4, <2>1, <2>5 DEF SizeInv, BytesIn
<1> QED
  BY <1>6, <1>7

LEMMA ReadSizeStep == SizeInv /\ ReadSize => SizeInv'
<1> SUFFICES ASSUME SizeInv, ReadSize PROVE SizeInv'
  OBVIOUS
<1>1. /\ job \in Jobs /\ job.kind = "size" /\ job_pc = "sent" /\ job' = job /\ mem' = mem
      /\ DOMAIN mem = 1..Digits /\ \A b \in 1..Digits : mem[b] = Byte(b)
      /\ from' = 1 /\ out' = 0 /\ job_pc' = "read"
  BY DEF SizeInv, ReadSize
<1>2. \A b : Byte(b)' = Byte(b) /\ Shifted(b)' = Shifted(b)
  BY <1>1 DEF Byte, Shifted
<1>3. 1 \in 1..Digits /\ 0 \in 0..Digits /\ Digits - 0 = Digits /\ 1 - 1 = 0
  BY WeightProperties
<1>4. out' = Shifted(0) % Weight[0]
  <2> DEFINE q == Shifted(0)
  <2>1. q \in Int /\ Weight[0] = 1
    BY <1>1, <1>3, WeightProperties, ShiftedProperties
  <2> HIDE DEF q
  <2>2. q % 1 = 0
    BY <2>1
  <2> QED
    BY <1>1, <2>1, <2>2 DEF q
<1>5. Weight[0] * Weight[Digits - 0] = Word
  BY <1>3, WeightProperties DEF Word
<1>6. BytesIn'
  <2>1. out' = Shifted(from' - 1) % Weight[from' - 1]
    BY <1>1, <1>3, <1>4
  <2>2. Weight[from' - 1] * Weight[Digits - (from' - 1)] = Word
    BY <1>1, <1>3, <1>5
  <2> QED
    BY <1>1, <1>2, <1>3, <2>1, <2>2 DEF BytesIn, Word
<1> QED
  BY <1>1, <1>2, <1>6 DEF SizeInv, BytesOut

LEMMA ReadByteStep == SizeInv /\ ReadByte => SizeInv'
<1> SUFFICES ASSUME SizeInv, ReadByte PROVE SizeInv'
  OBVIOUS
<1>1. /\ job \in Jobs /\ job.kind = "size" /\ job_pc = "read" /\ job' = job /\ mem' = mem
      /\ DOMAIN mem = 1..Digits /\ (\A b \in 1..Digits : mem[b] = Byte(b))
      /\ from \in 1..Digits /\ out = Shifted(from - 1) % Weight[from - 1]
      /\ Weight[from - 1] * Weight[Digits - (from - 1)] = Word
  BY DEF SizeInv, BytesIn, ReadByte
<1>2. /\ out' = ShiftedIn(out, mem[from]) /\ from' = from + 1
      /\ job_pc' = IF from = Digits THEN "done" ELSE "read"
  BY DEF ReadByte
<1>3. \A b : Byte(b)' = Byte(b) /\ Shifted(b)' = Shifted(b)
  BY <1>1 DEF Byte, Shifted
<1> DEFINE j == from - 1
<1>4. j \in 0..(Digits - 1) /\ j + 1 = from /\ from' - 1 = from
  BY <1>1, <1>2, WeightProperties
<1>5. out' = ShiftedIn(Shifted(j) % Weight[j], Byte(j + 1))
  BY <1>1, <1>2, <1>4
<1>6. Weight[j] * Weight[Digits - j] = Word
  BY <1>1
<1> HIDE DEF j
<1>7. /\ j < Digits - 1 =>
           /\ out' = Shifted(j + 1) % Weight[j + 1]
           /\ Weight[j + 1] * Weight[Digits - (j + 1)] = Word
      /\ j = Digits - 1 => out' = job.size
  BY <1>1, <1>4, <1>5, <1>6, ShiftedInNext
<1>8. CASE from = Digits
  <2>1. out' = job.size
    BY <1>1, <1>4, <1>7, <1>8, WeightProperties
  <2>2. job_pc' = "done"
    BY <1>2, <1>8
  <2> QED
    BY <1>1, <2>1, <2>2 DEF SizeInv, BytesOut, BytesIn
<1>9. CASE from # Digits
  <2>1. job_pc' = "read" /\ from' \in 1..Digits /\ j < Digits - 1
    BY <1>1, <1>2, <1>4, <1>9, WeightProperties
  <2>2. /\ out' = Shifted(from' - 1) % Weight[from' - 1]
        /\ Weight[from' - 1] * Weight[Digits - (from' - 1)] = Word
    BY <1>4, <1>7, <2>1
  <2>3. BytesIn'
    BY <1>3, <2>1, <2>2 DEF BytesIn, Word
  <2> QED
    BY <1>1, <1>3, <2>1, <2>3 DEF SizeInv, BytesOut
<1> QED
  BY <1>8, <1>9

LEMMA NextSizeInv == SizeInv /\ [ConvNext]_convVars => SizeInv'
<1> SUFFICES ASSUME SizeInv, [ConvNext]_convVars PROVE SizeInv'
  OBVIOUS
<1>1. CASE SendByte
  BY <1>1, SendByteStep
<1>2. CASE ReadSize
  BY <1>2, ReadSizeStep
<1>3. CASE ReadByte
  BY <1>3, ReadByteStep
<1>4. CASE LfTurn \/ LfEnd \/ ReallocForCrlf \/ Terminate \/ CrlfTurn
  <2>1. /\ job' = job /\ job_pc \in {"lf", "crlf", "terminate", "crlfback"}
        /\ job_pc' \notin {"size", "sent", "read"}
    BY <1>4 DEF LfTurn, LfEnd, ReallocForCrlf, Terminate, CrlfTurn
  <2> QED
    BY <2>1 DEF SizeInv
<1>5. CASE Copy \/ Split \/ NextFile \/ DecodeTurn \/ DecodeFails \/ TakeFile
  <2>1. /\ job' = job /\ job_pc \in {"copy", "split", "file", "decode", "take"}
        /\ job_pc' \notin {"size", "sent", "read"}
    BY <1>5 DEF Copy, Split, NextFile, DecodeTurn, DecodeFails, TakeFile
  <2> QED
    BY <2>1 DEF SizeInv
<1>6. CASE UNCHANGED convVars
  <2>1. /\ job' = job /\ mem' = mem /\ from' = from /\ count' = count /\ out' = out
        /\ job_pc' = job_pc
    BY <1>6 DEF convVars
  <2>2. BytesOut' /\ BytesIn' <=> BytesOut /\ BytesIn
    BY <2>1 DEF BytesOut, BytesIn, Byte, Shifted
  <2> QED
    BY <2>1, <2>2 DEF SizeInv, Byte, Shifted
<1> QED
  BY <1>1, <1>2, <1>3, <1>4, <1>5, <1>6 DEF ConvNext

\* send_size() and read_size(): for every number of bytes and every size of an
\* int64_t, the bytes on their way are its digits in two's complement, the
\* first one the highest, and the size that arrives is the one that was sent.
THEOREM RoundTripHolds == ConvSpec => []RoundTrip
<1>1. ConvInit => SizeInv
  BY InitSizeInv
<1>2. SizeInv /\ [ConvNext]_convVars => SizeInv'
  BY NextSizeInv
<1>3. SizeInv => RoundTrip
  <2> SUFFICES ASSUME SizeInv PROVE RoundTrip
    OBVIOUS
  <2>1. ASSUME job_pc = "sent", NEW b \in 1..Digits
        PROVE  mem[b] = (job.size \div Weight[Digits - b]) % Base
    BY <2>1 DEF SizeInv, Byte, Shifted
  <2>2. Done({"size"}) => out = job.size
    BY DEF SizeInv, Done
  <2> QED
    BY <2>1, <2>2 DEF RoundTrip
<1> QED
  BY <1>1, <1>2, <1>3, PTL DEF ConvSpec
=============================================================================
