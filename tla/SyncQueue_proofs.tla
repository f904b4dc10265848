--------------------------- MODULE SyncQueue_proofs ---------------------------
(*****************************************************************************)
(* SyncQueue, for a ring of any size, batches of any size and any number of  *)
(* pushes: the indices stay in the ring; and a queue that is never cleared   *)
(* implements a first-in first-out queue.                                    *)
(*****************************************************************************)
EXTENDS SyncQueue, SequenceTheorems, TLAPS

(* An index at most one round ahead wraps into the ring.                     *)
LEMMA WrapInRing == \A i \in 0 .. 2 * Capacity - 1 : Wrap(i) \in Slots
  BY RingAssumption DEF Wrap, Slots

(* There are at most Capacity - 1 values between two indices.                *)
LEMMA FillInRing == \A h, t \in Slots : Fill(h, t) \in 0 .. Capacity - 1
  BY RingAssumption DEF Fill, Slots

(* The parts of TypeOK, proved one at a time.                                *)
IndicesOK == head \in Slots /\ tail \in Slots /\ cHead \in Slots /\ want \in 0 .. Capacity - 1
PointsOK  ==
  /\ prod \in {"idle", "write", "store", "clear", "clearHead", "clearTail"}
  /\ cons \in {"idle", "tail", "copy"}
  /\ pushed \in 0 .. MaxPush /\ (prod # "idle" => pushed \in Values)
FlagsOK   == clears \in BOOLEAN /\ refused \in BOOLEAN /\ cleared \in BOOLEAN
DataOK    ==
  /\ buffer \in [Slots -> Values \cup {Null}]
  /\ batch \in Seq(Values \cup {Null}) /\ out \in Seq(Values \cup {Null})

(* TypeOK is its four parts.                                                 *)
LEMMA TypeParts == TypeOK <=> IndicesOK /\ PointsOK /\ FlagsOK /\ DataOK
  BY DEF TypeOK, IndicesOK, PointsOK, FlagsOK, DataOK

(* The queue's variables keep their types: no index ever leaves the ring and *)
(* nothing but pushed values and nulls is ever read, cleared or not.         *)
THEOREM TypeCorrect == Spec => []TypeOK
<1>1. Init => TypeOK
  <2> SUFFICES ASSUME Init PROVE TypeOK  OBVIOUS
  <2>1. IndicesOK /\ PointsOK  BY RingAssumption DEF Init, IndicesOK, PointsOK, Slots
  <2>2. FlagsOK  BY RingAssumption, Zenon DEF Init, FlagsOK
  <2>3. DataOK   BY RingAssumption DEF Init, DataOK
  <2> QED BY <2>1, <2>2, <2>3, TypeParts
<1>2. TypeOK /\ [Next]_vars => TypeOK'
  <2> SUFFICES ASSUME TypeOK, [Next]_vars PROVE TypeOK'  OBVIOUS
  <2>0. IndicesOK /\ PointsOK /\ FlagsOK /\ DataOK  BY TypeParts
  <2>1. IndicesOK'
    <3>1. CASE UNCHANGED vars  BY <2>0, <3>1 DEF IndicesOK, vars, ringVars, consVars
    <3>2. CASE Push
      BY <2>0, <3>2, WrapInRing, RingAssumption
         DEF IndicesOK, Push, PushTest, PushWrite, PushStore, ClearHead, ClearTail,
             consVars, ringVars, Slots
    <3>3. CASE PopHead \/ PopCopy
      BY <2>0, <3>3 DEF IndicesOK, PopHead, PopCopy, ringVars
    <3>4. CASE PopTail
      BY <2>0, <3>4, FillInRing, RingAssumption DEF IndicesOK, PopTail, ringVars
    <3>5. CASE PopStore
      BY <2>0, <3>5, WrapInRing, RingAssumption DEF IndicesOK, PopStore, Slots
    <3> QED BY <3>1, <3>2, <3>3, <3>4, <3>5 DEF Next, Pop
  <2>2. PointsOK'
    BY <2>0, RingAssumption
       DEF PointsOK, Next, Push, Pop, PushTest, PushWrite, PushStore, ClearHead, ClearTail,
           PopHead, PopTail, PopCopy, PopStore, vars, prodVars, consVars, Values
  <2>3. FlagsOK'
    BY <2>0, Zenon
       DEF FlagsOK, Next, Push, Pop, PushTest, PushWrite, PushStore, ClearHead, ClearTail,
           PopHead, PopTail, PopCopy, PopStore, vars, prodVars, consVars
  <2>4. DataOK'
    <3>1. CASE UNCHANGED vars  BY <2>0, <3>1 DEF DataOK, vars, ringVars, consVars
    <3>2. CASE PushWrite
      BY <2>0, <3>2 DEF DataOK, PointsOK, PushWrite, consVars
    <3>3. CASE PushTest \/ PushStore \/ ClearHead \/ ClearTail \/ PopHead \/ PopTail
      BY <2>0, <3>3 DEF DataOK, PushTest, PushStore, ClearHead, ClearTail, PopHead, PopTail,
                        ringVars, consVars
    <3>4. CASE PopCopy
      <4>1. Len(batch) \in Nat  BY <2>0 DEF DataOK
      <4>2. Wrap(cHead + Len(batch)) \in Slots
        BY <2>0, <3>4, <4>1, WrapInRing, RingAssumption DEF PopCopy, IndicesOK, Slots
      <4> QED BY <2>0, <3>4, <4>2 DEF DataOK, PopCopy, ringVars
    <3>5. CASE PopStore
      BY <2>0, <3>5 DEF DataOK, PopStore
    <3> QED BY <3>1, <3>2, <3>3, <3>4, <3>5 DEF Next, Push, Pop
  <2> QED BY <2>1, <2>2, <2>3, <2>4, TypeParts DEF TypeOK, IndicesOK, PointsOK, FlagsOK, DataOK
<1> QED BY <1>1, <1>2, PTL DEF Spec

(* ProducerOwnsTail, of a queue that may be cleared some day.                *)
OwnsTail ==
  /\ prod \in {"write", "store"} => Wrap(tail + 1) # head
  /\ prod = "store" => buffer[tail] = pushed

(* Unless it clears the queue, a step of either thread leaves what the other *)
(* one relies on.                                                            *)
LEMMA RingInvStep ==
  ASSUME TypeOK, OwnsTail, ConsumerOwnsHead, NoNullWaits, [Next]_vars, ~ClearHead, ~ClearTail
  PROVE  OwnsTail' /\ ConsumerOwnsHead' /\ NoNullWaits'
<1> USE RingAssumption
<1>0. /\ head \in Slots /\ tail \in Slots /\ cHead \in Slots /\ want \in Nat
      /\ buffer \in [Slots -> Values \cup {Null}] /\ pushed \in Nat
      /\ batch \in Seq(Values \cup {Null}) /\ Len(batch) \in Nat
  BY DEF TypeOK
<1>1. CASE UNCHANGED vars
  BY <1>1 DEF vars, ringVars, prodVars, consVars, OwnsTail, ConsumerOwnsHead,
              NoNullWaits, Filled
<1>2. CASE PushTest
  BY <1>0, <1>2 DEF PushTest, ringVars, consVars, OwnsTail, ConsumerOwnsHead,
                    NoNullWaits, Filled, TypeOK
<1>3. CASE PushWrite
  <2>1. \A i \in 1 .. Filled : Wrap(head + i - 1) # tail
    BY <1>0 DEF Filled, Fill, Wrap, Slots
  <2>2. \A i \in 1 .. Filled : buffer'[Wrap(head + i - 1)] = buffer[Wrap(head + i - 1)]
    BY <1>0, <1>3, <2>1 DEF PushWrite
  <2>3. \A i \in 1 .. Len(batch) : i \in 1 .. Filled
    BY <1>0 DEF ConsumerOwnsHead, Filled, Fill, Slots
  <2> QED BY <1>0, <1>3, <2>2, <2>3
       DEF PushWrite, consVars, OwnsTail, ConsumerOwnsHead, NoNullWaits, Filled, Fill
<1>4. CASE PushStore
  <2>1. Filled' = Filled + 1
    BY <1>0, <1>4 DEF PushStore, OwnsTail, Filled, Fill, Wrap, Slots
  <2>2. Wrap(head + Filled) = tail /\ Filled \in Nat
    BY <1>0 DEF Filled, Fill, Wrap, Slots
  <2>3. buffer[tail] # Null
    BY <1>0, <1>4 DEF PushStore, OwnsTail, TypeOK, Values, Null
  <2>4. NoNullWaits'
    BY <1>0, <1>4, <2>1, <2>2, <2>3 DEF PushStore, NoNullWaits
  <2>5. OwnsTail'
    BY <1>4 DEF PushStore, OwnsTail
  <2>6. ConsumerOwnsHead'
    BY <1>0, <1>4, <2>1, <2>2 DEF PushStore, consVars, ConsumerOwnsHead
  <2> QED BY <2>4, <2>5, <2>6
<1>5. CASE PopHead
  BY <1>0, <1>5 DEF PopHead, ringVars, prodVars, OwnsTail, ConsumerOwnsHead,
                    NoNullWaits, Filled
<1>6. CASE PopTail
  <2>1. Fill(head, tail) \in 0 .. Capacity - 1
    BY <1>0, FillInRing
  <2> QED BY <1>0, <1>6, <2>1
       DEF PopTail, ringVars, prodVars, OwnsTail, ConsumerOwnsHead, NoNullWaits, Filled
<1>7. CASE PopCopy
  <2>1. \A i \in 1 .. Len(batch') : batch'[i] = buffer[Wrap(head + i - 1)]
    BY <1>0, <1>7 DEF PopCopy, ConsumerOwnsHead
  <2>2. Len(batch') <= want
    BY <1>0, <1>7 DEF PopCopy
  <2> QED BY <1>0, <1>7, <2>1, <2>2
       DEF PopCopy, ringVars, prodVars, OwnsTail, ConsumerOwnsHead, NoNullWaits, Filled
<1>8. CASE PopStore
  <2>1. want \in 1 .. Filled /\ cHead = head /\ Filled \in 0 .. Capacity - 1
    BY <1>0, <1>8, FillInRing DEF PopStore, ConsumerOwnsHead, Filled
  <2>2. Filled' = Filled - want
    BY <1>0, <1>8, <2>1 DEF PopStore, Filled, Fill, Wrap, Slots
  <2>3. \A i \in 1 .. Filled' : Wrap(head' + i - 1) = Wrap(head + (i + want) - 1)
    BY <1>0, <1>8, <2>1, <2>2 DEF PopStore, Wrap, Slots
  <2>4. NoNullWaits'
    <3>1. \A i \in 1 .. Filled' : i + want \in 1 .. Filled
      BY <2>1, <2>2
    <3> QED BY <1>8, <2>3, <3>1 DEF PopStore, NoNullWaits
  <2>5. OwnsTail'
    BY <1>0, <1>8, <2>1 DEF PopStore, prodVars, OwnsTail, Wrap, Filled, Fill, Slots
  <2>6. ConsumerOwnsHead'
    BY <1>0, <1>8 DEF PopStore, ConsumerOwnsHead
  <2> QED BY <2>4, <2>5, <2>6
<1> QED BY <1>1, <1>2, <1>3, <1>4, <1>5, <1>6, <1>7, <1>8 DEF Next, Push, Pop

(* Whether a queue is cleared never changes.                                 *)
LEMMA ClearsConstant == [Next]_vars => UNCHANGED clears
  BY DEF Next, Push, Pop, PushTest, PushWrite, PushStore, ClearHead, ClearTail,
         PopHead, PopTail, PopCopy, PopStore, vars, prodVars, consVars

(* The producer and the consumer of a queue that is never cleared never use  *)
(* the same slot at once, and no null waits to be taken.                     *)
THEOREM RingInvariant == Spec => []RingInv
<1>1. Init => RingInv
  BY RingAssumption
     DEF Init, RingInv, ProducerOwnsTail, ConsumerOwnsHead, NoNullWaits, Filled, Fill
<1>2. TypeOK /\ RingInv /\ [Next]_vars => RingInv'
  <2> SUFFICES ASSUME TypeOK, RingInv, [Next]_vars, ~clears
               PROVE  ProducerOwnsTail' /\ ConsumerOwnsHead' /\ NoNullWaits'
    BY ClearsConstant DEF RingInv
  <2>1. OwnsTail /\ ConsumerOwnsHead /\ NoNullWaits /\ ~ClearHead /\ ~ClearTail
    BY DEF RingInv, ProducerOwnsTail, OwnsTail, ClearHead, ClearTail
  <2>2. prod' \in {"idle", "write", "store"}
    BY <2>1 DEF RingInv, ProducerOwnsTail, Next, Push, Pop, PushTest, PushWrite, PushStore,
                PopHead, PopTail, PopCopy, PopStore, vars, prodVars
  <2> QED BY <2>1, <2>2, RingInvStep DEF ProducerOwnsTail, OwnsTail
<1> QED BY <1>1, <1>2, TypeCorrect, PTL DEF Spec

Waiting == [i \in 1 .. Filled |-> buffer[Wrap(head + i - 1)]]

(* A queue that is never cleared is a first-in first-out queue: every step   *)
(* of its two threads is a step of Fifo or leaves it alone.                  *)
THEOREM ImplementsFifo == Spec => FifoSafety
<1> USE RingAssumption
<1>1. Init => Queue!Init
  BY DEF Init, Queue!Init, Filled, Fill
<1>2. TypeOK /\ RingInv /\ [Next]_vars => [Queue!Next]_(Queue!vars)
  <2> SUFFICES ASSUME TypeOK, RingInv, [Next]_vars PROVE [Queue!Next]_(Queue!vars)
    OBVIOUS
  <2>c. CASE clears
    BY <2>c, ClearsConstant DEF Queue!vars
  <2> SUFFICES ASSUME ~clears PROVE [Queue!Next]_(Queue!vars)
    BY <2>c
  <2>d. ~clears /\ ~clears'
    BY ClearsConstant
  <2> USE DEF Waiting
  <2>0. /\ head \in Slots /\ tail \in Slots /\ cHead \in Slots /\ want \in Nat
        /\ buffer \in [Slots -> Values \cup {Null}] /\ pushed \in Nat
        /\ batch \in Seq(Values \cup {Null}) /\ Len(batch) \in Nat
        /\ ProducerOwnsTail /\ ConsumerOwnsHead /\ NoNullWaits
    BY DEF TypeOK, RingInv
  <2>a. Filled \in 0 .. Capacity - 1
    BY <2>0, FillInRing DEF Filled
  <2>b. Len(Waiting) = Filled /\ DOMAIN Waiting = 1 .. Filled /\ Waiting \in Seq(Values \cup {Null})
    <3>1. \A i \in 1 .. Filled : Wrap(head + i - 1) \in Slots
      BY <2>0, <2>a DEF Wrap, Slots
    <3> QED BY <2>0, <2>a, <3>1
  <2>1. CASE UNCHANGED vars
    BY <2>1 DEF vars, ringVars, prodVars, consVars, Queue!vars, Filled
  <2>2. CASE PushTest
    <3>1. CASE Wrap(tail + 1) = head
      <4>1. Filled = Capacity - 1
        BY <2>0, <3>1 DEF Filled, Fill, Wrap, Slots
      <4>2. Queue!Refuse
        BY <2>2, <2>b, <3>1, <4>1 DEF PushTest, ringVars, consVars, Queue!Refuse, Filled
      <4> QED BY <4>2 DEF Queue!Next
    <3>2. CASE Wrap(tail + 1) # head
      BY <2>2, <3>2 DEF PushTest, ringVars, consVars, Queue!vars, Filled
    <3> QED BY <3>1, <3>2
  <2>3. CASE PushWrite
    <3>1. \A i \in 1 .. Filled : Wrap(head + i - 1) # tail
      BY <2>0 DEF Filled, Fill, Wrap, Slots
    <3>2. Filled' = Filled
      BY <2>3 DEF PushWrite, Filled
    <3>3. Waiting' = Waiting
      BY <2>0, <2>3, <3>1, <3>2 DEF PushWrite
    <3> QED BY <2>3, <3>3 DEF PushWrite, consVars, Queue!vars
  <2>4. CASE PushStore
    <3>1. Filled' = Filled + 1 /\ Filled < Capacity - 1
      BY <2>0, <2>4 DEF PushStore, ProducerOwnsTail, Filled, Fill, Wrap, Slots
    <3>2. Wrap(head + Filled) = tail /\ buffer[tail] = pushed /\ pushed \in Values
      BY <2>0, <2>4 DEF PushStore, ProducerOwnsTail, Filled, Fill, Wrap, Slots, TypeOK
    <3>3. Waiting' = Append(Waiting, pushed)
      <4>1. Waiting' = [i \in 1 .. Filled + 1 |-> buffer[Wrap(head + i - 1)]]
        BY <2>4, <3>1 DEF PushStore
      <4>2. /\ Waiting' \in Seq(Values \cup {Null}) /\ Len(Waiting') = Filled + 1
            /\ \A i \in 1 .. Filled + 1 :
                 Waiting'[i] = IF i <= Filled THEN Waiting[i] ELSE pushed
        <5>1. \A i \in 1 .. Filled + 1 : Wrap(head + i - 1) \in Slots
          BY <2>0, <2>a, <3>1 DEF Wrap, Slots
        <5>2. \A i \in 1 .. Filled + 1 :
                buffer[Wrap(head + i - 1)] = IF i <= Filled THEN Waiting[i] ELSE pushed
          BY <2>0, <2>a, <3>2
        <5>3. \A i \in 1 .. Filled + 1 : buffer[Wrap(head + i - 1)] \in Values \cup {Null}
          BY <2>0, <5>1
        <5>4. \A i \in 1 .. Filled + 1 :
                Waiting'[i] = IF i <= Filled THEN Waiting[i] ELSE pushed
          BY <4>1, <5>2
        <5>5. Waiting' \in [1 .. Filled + 1 -> Values \cup {Null}]
          BY <4>1, <5>3
        <5> HIDE DEF Waiting
        <5> QED BY <2>a, <5>4, <5>5
      <4>3. /\ Append(Waiting, pushed) \in Seq(Values \cup {Null})
            /\ Len(Append(Waiting, pushed)) = Filled + 1
            /\ \A i \in 1 .. Filled + 1 :
                 Append(Waiting, pushed)[i] = IF i <= Filled THEN Waiting[i] ELSE pushed
        <5> HIDE DEF Waiting
        <5> QED BY <2>a, <2>b, <3>2
      <4> HIDE DEF Waiting
      <4> QED BY <2>a, <4>2, <4>3, SeqEqual
    <3>4. Queue!Put(pushed)
      BY <2>4, <2>b, <3>1, <3>3 DEF PushStore, consVars, Queue!Put
    <3> QED BY <3>2, <3>4 DEF Queue!Next
  <2>5. CASE ClearHead \/ ClearTail
    BY <2>0, <2>5 DEF ClearHead, ClearTail, ProducerOwnsTail
  <2>6. CASE PopHead \/ PopTail \/ PopCopy
    <3>1. UNCHANGED <<buffer, head, tail, out, refused, clears>>
      BY <2>6 DEF PopHead, PopTail, PopCopy, ringVars, prodVars
    <3> QED BY <3>1 DEF Queue!vars, Filled
  <2>7. CASE PopStore
    <3>1. want \in 1 .. Filled /\ cHead = head
      BY <2>0, <2>7 DEF PopStore, ConsumerOwnsHead
    <3>2. Filled' = Filled - want
      BY <2>0, <2>7, <2>a, <3>1 DEF PopStore, Filled, Fill, Wrap, Slots
    <3>3. \A i \in 1 .. Filled' : Wrap(head' + i - 1) = Wrap(head + (i + want) - 1)
      BY <2>0, <2>7, <2>a, <3>1, <3>2 DEF PopStore, Wrap, Slots
    <3>4. out' = SubSeq(Waiting, 1, want)
      <4>1. /\ Len(batch) = want
            /\ \A i \in 1 .. want : batch[i] = Waiting[i] /\ Waiting[i] \in Values \cup {Null}
        <5>1. \A i \in 1 .. want : i \in 1 .. Filled
          BY <2>a, <3>1
        <5> QED BY <2>0, <2>7, <2>b, <5>1 DEF PopStore, ConsumerOwnsHead
      <4> HIDE DEF Waiting
      <4>2. /\ SubSeq(Waiting, 1, want) \in Seq(Values \cup {Null})
            /\ Len(SubSeq(Waiting, 1, want)) = want
            /\ \A i \in 1 .. want : SubSeq(Waiting, 1, want)[i] = Waiting[i]
        BY <2>a, <3>1, <4>1, SubSeqProperties
      <4>3. batch = SubSeq(Waiting, 1, want)
        BY <2>0, <4>1, <4>2, SeqEqual
      <4> QED BY <2>7, <4>3 DEF PopStore
    <3>5. Waiting' = SubSeq(Waiting, want + 1, Len(Waiting))
      <4>1. \A i \in 1 .. Filled - want : i + want \in 1 .. Filled
        BY <2>a, <3>1
      <4>2. Waiting' = [i \in 1 .. Filled - want |-> buffer[Wrap(head + (i + want) - 1)]]
        BY <2>7, <3>2, <3>3 DEF PopStore
      <4>3. /\ Waiting' \in Seq(Values \cup {Null}) /\ Len(Waiting') = Filled - want
            /\ \A i \in 1 .. Filled - want : Waiting'[i] = Waiting[i + want]
        <5>1. \A i \in 1 .. Filled - want : Waiting[i + want] \in Values \cup {Null}
          <6> HIDE DEF Waiting
          <6> QED BY <2>b, <4>1, ElementOfSeq
        <5>2. \A i \in 1 .. Filled - want : Waiting'[i] = Waiting[i + want]
          BY <4>1, <4>2
        <5>3. Filled - want \in Nat
          BY <2>a, <3>1
        <5> HIDE DEF Waiting
        <5> QED BY <4>2, <5>1, <5>2, <5>3
      <4> HIDE DEF Waiting
      <4>4. \A i \in want + 1 .. Filled : Waiting[i] \in Values \cup {Null}
        BY <2>a, <2>b, <3>1
      <4>5. /\ SubSeq(Waiting, want + 1, Filled) \in Seq(Values \cup {Null})
            /\ Len(SubSeq(Waiting, want + 1, Filled)) = Filled - want
            /\ \A i \in 1 .. Filled - want :
                 SubSeq(Waiting, want + 1, Filled)[i] = Waiting[i + want]
        BY <2>a, <3>1, <4>4, SubSeqProperties
      <4> QED BY <2>b, <4>3, <4>5, SeqEqual
    <3>6. Queue!Take
      BY <2>7, <2>b, <3>1, <3>4, <3>5 DEF PopStore, prodVars, Queue!Take
    <3> QED BY <3>6 DEF Queue!Next
  <2> QED BY <2>1, <2>2, <2>3, <2>4, <2>5, <2>6, <2>7 DEF Next, Push, Pop
<1> QED BY <1>1, <1>2, TypeCorrect, RingInvariant, PTL DEF Spec, FifoSafety

-----------------------------------------------------------------------------
At(i) == buffer[Wrap(head + i - 1)]

(* A value is none that the producer is still to put in the ring.            *)
Before(v) == v <= pushed /\ (prod \in {"write", "store"} => v < pushed)

(* Everything taken last came before everything that waits, each in order.   *)
WaitingInOrder ==
  \A i \in 1 .. Filled : Before(At(i)) /\ \A j \in 1 .. Filled : i < j => At(i) < At(j)
TakenInOrder ==
  /\ \A i \in 1 .. Len(out) : out[i] # Null /\ Before(out[i])
  /\ \A i, j \in 1 .. Len(out) : i < j => out[i] < out[j]
  /\ \A i \in 1 .. Len(out), j \in 1 .. Filled : out[i] < At(j)
InOrder == WaitingInOrder /\ TakenInOrder

(* Until the first clear() a queue that is cleared is as good as one that    *)
(* never is.                                                                 *)
Uncleared == ~cleared => OwnsTail /\ ConsumerOwnsHead /\ NoNullWaits /\ InOrder

(* No step of either thread but clear() breaks it.                           *)
LEMMA OrderStep ==
  ASSUME TypeOK, OwnsTail, ConsumerOwnsHead, NoNullWaits, InOrder, [Next]_vars,
         ~ClearHead, ~ClearTail
  PROVE  InOrder' /\ (PopStore => Ascending(out \o out'))
<1> USE RingAssumption
<1>0. /\ head \in Slots /\ tail \in Slots /\ cHead \in Slots /\ want \in Nat
      /\ buffer \in [Slots -> Values \cup {Null}] /\ pushed \in Nat
      /\ batch \in Seq(Values \cup {Null}) /\ Len(batch) \in Nat
      /\ out \in Seq(Values \cup {Null}) /\ Len(out) \in Nat
  BY DEF TypeOK
<1>a. Filled \in 0 .. Capacity - 1
  BY <1>0, FillInRing DEF Filled
<1>b. \A i \in 1 .. Filled : At(i) \in Nat
  <2>1. \A i \in 1 .. Filled : Wrap(head + i - 1) \in Slots
    BY <1>0, <1>a DEF Wrap, Slots
  <2> QED BY <1>0, <2>1 DEF At, Values, Null
<1>c. \A i \in 1 .. Len(out) : out[i] \in Nat
  BY <1>0, ElementOfSeq DEF Values, Null
<1>1. CASE UNCHANGED <<buffer, head, tail, out, pushed, prod>>
  <2>1. InOrder'
    BY <1>1 DEF InOrder, WaitingInOrder, TakenInOrder, At, Before, Filled
  <2>2. ~PopStore
    BY <1>0, <1>1, <1>a DEF PopStore, ConsumerOwnsHead, Wrap, Slots
  <2> QED BY <2>1, <2>2
<1>2. CASE PushTest
  <2>1. UNCHANGED <<buffer, head, tail, out>> /\ pushed' = pushed + 1
    BY <1>2 DEF PushTest, ringVars, consVars
  <2>2. \A v \in Nat : Before(v) => Before(v)'
    BY <1>0, <2>1 DEF Before
  <2>3. Filled' = Filled /\ \A i \in 1 .. Filled : At(i)' = At(i)
    BY <2>1 DEF At, Filled
  <2>4. InOrder'
    BY <1>b, <1>c, <2>1, <2>2, <2>3 DEF InOrder, WaitingInOrder, TakenInOrder
  <2>5. ~PopStore
    BY <1>0, <1>2 DEF PushTest, PopStore, prodVars
  <2> QED BY <2>4, <2>5
<1>3. CASE PushWrite
  <2>1. \A i \in 1 .. Filled : Wrap(head + i - 1) # tail
    BY <1>0 DEF Filled, Fill, Wrap, Slots
  <2>2. /\ prod = "write" /\ prod' = "store" /\ UNCHANGED <<head, tail, out, pushed>>
        /\ buffer' = [buffer EXCEPT ![tail] = pushed]
    BY <1>3 DEF PushWrite, consVars
  <2>3. Filled' = Filled /\ \A i \in 1 .. Filled : At(i)' = At(i)
    BY <1>0, <2>1, <2>2 DEF At, Filled
  <2>4. \A v \in Nat : Before(v) => Before(v)'
    BY <2>2 DEF Before
  <2>5. InOrder'
    BY <1>b, <1>c, <2>2, <2>3, <2>4 DEF InOrder, WaitingInOrder, TakenInOrder
  <2>6. ~PopStore
    BY <2>2 DEF PopStore, prodVars
  <2> QED BY <2>5, <2>6
<1>4. CASE PushStore
  <2>1. /\ prod = "store" /\ prod' = "idle" /\ UNCHANGED <<buffer, head, out, pushed>>
        /\ tail' = Wrap(tail + 1)
    BY <1>4 DEF PushStore, consVars
  <2>2. Filled' = Filled + 1 /\ Wrap(head + Filled) = tail
    BY <1>0, <2>1 DEF OwnsTail, Filled, Fill, Wrap, Slots
  <2>3. /\ \A i : i = Filled + 1 => At(i)' = pushed
        /\ \A i \in 1 .. Filled : At(i)' = At(i)
    <3>1. ASSUME NEW i, i = Filled + 1 PROVE At(i)' = pushed
      <4>1. head + i - 1 = head + Filled
        BY <1>0, <1>a, <3>1 DEF Slots
      <4> QED BY <2>1, <2>2, <4>1 DEF At, OwnsTail
    <3>2. ASSUME NEW i \in 1 .. Filled PROVE At(i)' = At(i)
      BY <2>1 DEF At
    <3> QED BY <3>1, <3>2
  <2>4. \A v \in Nat : Before(v) => v < pushed /\ Before(v)'
    BY <1>0, <2>1 DEF Before
  <2>5. \A i \in 1 .. Filled' : i \in 1 .. Filled \/ i = Filled + 1
    BY <1>a, <2>2
  <2>6. ASSUME NEW i \in 1 .. Filled' PROVE Before(At(i))'
    <3>1. CASE i \in 1 .. Filled
      <4>1. At(i)' = At(i) /\ Before(At(i)) /\ At(i) < pushed
        BY <1>b, <2>3, <2>4, <3>1 DEF InOrder, WaitingInOrder, TakenInOrder
      <4> QED BY <2>1, <4>1 DEF Before
    <3>2. CASE i = Filled + 1
      <4>1. At(i)' = pushed
        BY <2>3, <3>2
      <4> QED BY <1>0, <2>1, <4>1 DEF Before
    <3> QED BY <2>5, <3>1, <3>2
  <2>7. \A i, j \in 1 .. Filled' : i < j => At(i)' < At(j)'
    <3> SUFFICES ASSUME NEW i \in 1 .. Filled', NEW j \in 1 .. Filled', i < j
                 PROVE  At(i)' < At(j)'
      OBVIOUS
    <3>1. i \in 1 .. Filled /\ At(i)' = At(i)
      BY <1>a, <2>2, <2>3
    <3>2. CASE j \in 1 .. Filled
      <4>1. At(i) < At(j) /\ At(j)' = At(j)
        BY <2>3, <3>1, <3>2 DEF InOrder, WaitingInOrder, TakenInOrder
      <4> QED BY <3>1, <4>1
    <3>3. CASE j = Filled + 1
      <4>1. Before(At(i)) /\ At(i) \in Nat
        BY <1>b, <3>1 DEF InOrder, WaitingInOrder
      <4>2. At(j)' = pushed
        BY <2>3, <3>3
      <4> QED BY <2>4, <3>1, <4>1, <4>2
    <3> QED BY <2>5, <3>2, <3>3
  <2>8. \A i \in 1 .. Len(out), j \in 1 .. Filled' : out[i] < At(j)'
    <3> SUFFICES ASSUME NEW i \in 1 .. Len(out), NEW j \in 1 .. Filled' PROVE out[i] < At(j)'
      OBVIOUS
    <3>1. CASE j \in 1 .. Filled
      <4>1. out[i] < At(j) /\ At(j)' = At(j)
        BY <2>3, <3>1 DEF InOrder, WaitingInOrder, TakenInOrder
      <4> QED BY <4>1
    <3>2. CASE j = Filled + 1
      <4>1. Before(out[i]) /\ out[i] \in Nat
        BY <1>c DEF InOrder, TakenInOrder
      <4>2. At(j)' = pushed
        BY <2>3, <3>2
      <4> QED BY <2>4, <4>1, <4>2
    <3> QED BY <2>5, <3>1, <3>2
  <2>9. InOrder'
    BY <1>c, <2>1, <2>4, <2>6, <2>7, <2>8 DEF InOrder, WaitingInOrder, TakenInOrder
  <2>10. ~PopStore
    BY <2>1 DEF PopStore, prodVars
  <2> QED BY <2>9, <2>10
<1>5. CASE PopStore
  <2>1. /\ want \in 1 .. Filled /\ cHead = head /\ Len(batch) = want /\ out' = batch
        /\ head' = Wrap(cHead + want) /\ UNCHANGED <<buffer, tail, pushed, prod>>
        /\ \A i \in 1 .. want : batch[i] = At(i)
    BY <1>0, <1>5 DEF PopStore, prodVars, ConsumerOwnsHead, At
  <2>2. Filled' = Filled - want
    BY <1>0, <1>a, <2>1 DEF Filled, Fill, Wrap, Slots
  <2>3. \A i \in 1 .. Filled' : i + want \in 1 .. Filled /\ At(i)' = At(i + want)
    <3>1. \A i \in 1 .. Filled' : Wrap(head' + i - 1) = Wrap(head + (i + want) - 1)
      BY <1>0, <1>a, <2>1, <2>2 DEF Wrap, Slots
    <3> QED BY <1>a, <2>1, <2>2, <3>1 DEF At
  <2>4. \A v : Before(v)' <=> Before(v)
    BY <2>1 DEF Before
  <2>5. \A i \in 1 .. want : i \in 1 .. Filled /\ out'[i] = At(i) /\ At(i) # Null
    BY <1>a, <2>1 DEF NoNullWaits, At
  <2>6. \A i \in 1 .. Filled' : Before(At(i))' /\ \A j \in 1 .. Filled' : i < j => At(i)' < At(j)'
    <3> SUFFICES ASSUME NEW i \in 1 .. Filled'
                 PROVE  Before(At(i))' /\ \A j \in 1 .. Filled' : i < j => At(i)' < At(j)'
      OBVIOUS
    <3>1. Before(At(i))'
      BY <2>1, <2>3 DEF InOrder, WaitingInOrder, TakenInOrder, Before
    <3>2. ASSUME NEW j \in 1 .. Filled', i < j PROVE At(i)' < At(j)'
      <4>1. i + want < j + want
        BY <2>1, <2>2, <3>2, <1>a
      <4> QED BY <2>3, <4>1 DEF InOrder, WaitingInOrder, TakenInOrder
    <3> QED BY <3>1, <3>2
  <2>7. \A i \in 1 .. want, j \in 1 .. Filled' : out'[i] < At(j)'
    <3> SUFFICES ASSUME NEW i \in 1 .. want, NEW j \in 1 .. Filled' PROVE out'[i] < At(j)'
      OBVIOUS
    <3>1. i < j + want
      BY <1>a, <2>1, <2>2
    <3> QED BY <2>3, <2>5, <3>1 DEF InOrder, WaitingInOrder, TakenInOrder
  <2>8. InOrder'
    <3>1. Len(out') = want
      BY <2>1
    <3>2. \A i \in 1 .. want : out'[i] # Null /\ Before(out[i])'
      <4> SUFFICES ASSUME NEW i \in 1 .. want PROVE out'[i] # Null /\ Before(out[i])'
        OBVIOUS
      <4>1. i \in 1 .. Filled /\ out'[i] = At(i) /\ At(i) # Null
        BY <2>5
      <4>2. Before(At(i))
        BY <4>1 DEF InOrder, WaitingInOrder, TakenInOrder
      <4> QED BY <2>1, <4>1, <4>2 DEF Before
    <3>3. \A i, j \in 1 .. want : i < j => out'[i] < out'[j]
      BY <2>5 DEF InOrder, WaitingInOrder, TakenInOrder
    <3>4. WaitingInOrder'
      BY <2>6 DEF WaitingInOrder
    <3>5. TakenInOrder'
      <4>1. \A i : i \in 1 .. Len(out)' <=> i \in 1 .. want
        BY <3>1
      <4> QED BY <2>7, <3>2, <3>3, <4>1 DEF TakenInOrder
    <3> QED BY <3>4, <3>5 DEF InOrder
  <2>9. Ascending(out \o out')
    <3> DEFINE s == out \o out'
               n == Len(out)
    <3>1. out' \in Seq(Values \cup {Null}) /\ Len(out') = want /\ want \in Nat
      BY <1>0, <2>1
    <3>2. Len(s) = n + want
          /\ \A i \in 1 .. n + want : s[i] = IF i <= n THEN out[i] ELSE out'[i - n]
      BY <1>0, <3>1, ConcatProperties
    <3>a. n = Len(out)
      OBVIOUS
    <3> HIDE DEF s, n
    <3>3. ASSUME NEW i \in 1 .. n + want PROVE s[i] # Null /\ (i > 1 => s[i - 1] < s[i])
      <4>0. n \in Nat /\ i \in Nat /\ i > 0
        BY <1>0, <3>1, <3>a
      <4>1. CASE i <= n
        <5>1. i \in 1 .. n /\ s[i] = out[i] /\ (i > 1 => i - 1 \in 1 .. n /\ s[i - 1] = out[i - 1])
          BY <3>1, <3>2, <4>0, <4>1
        <5> QED BY <1>0, <3>a, <4>0, <5>1 DEF InOrder, WaitingInOrder, TakenInOrder
      <4>2. CASE i > n
        <5>1. i - n \in 1 .. want /\ s[i] = out'[i - n]
          BY <3>1, <3>2, <4>0, <4>2
        <5>2. CASE i - 1 = n /\ i > 1
          <6>1. n \in 1 .. n /\ s[i - 1] = out[n]
            BY <3>1, <3>2, <4>0, <5>2
          <6> QED BY <2>5, <3>a, <5>1, <6>1 DEF InOrder, WaitingInOrder, TakenInOrder
        <5>3. CASE i - 1 > n
          <6>1. i - 1 - n \in 1 .. want /\ s[i - 1] = out'[i - 1 - n] /\ i - 1 - n < i - n
            BY <3>1, <3>2, <4>0, <5>3
          <6> QED BY <2>5, <5>1, <6>1 DEF InOrder, WaitingInOrder, TakenInOrder
        <5>4. CASE i = 1
          <6> QED BY <2>5, <5>1, <5>4
        <5> QED BY <4>0, <4>2, <5>2, <5>3, <5>4
      <4> QED BY <4>0, <4>1, <4>2
    <3>4. \A i \in 1 .. Len(s) : s[i] # Null /\ (i > 1 => s[i - 1] < s[i])
      BY <3>2, <3>3
    <3>5. Ascending(s)
      BY <3>4 DEF Ascending
    <3> QED BY <3>5 DEF s
  <2> QED BY <2>8, <2>9
<1>6. CASE PopHead \/ PopTail \/ PopCopy \/ UNCHANGED vars
  BY <1>1, <1>6 DEF PopHead, PopTail, PopCopy, ringVars, prodVars, vars, consVars
<1> QED BY <1>2, <1>3, <1>4, <1>5, <1>6 DEF Next, Push, Pop

(* A consumer gets the packets in order until the first clear(), whether or  *)
(* not the queue has filled up before.                                       *)
THEOREM OrdersUntilCleared == Spec => OrderedUntilCleared
<1>1. Init => Uncleared
  BY RingAssumption DEF Init, Uncleared, OwnsTail, ConsumerOwnsHead, NoNullWaits, InOrder, WaitingInOrder,
                             TakenInOrder, Filled, Fill
<1>2. TypeOK /\ Uncleared /\ [Next]_vars
        => Uncleared' /\ (out' # out /\ ~cleared' => Ascending(out \o out'))
  <2> SUFFICES ASSUME TypeOK, Uncleared, [Next]_vars, ~cleared'
               PROVE  /\ (OwnsTail /\ ConsumerOwnsHead /\ NoNullWaits /\ InOrder)'
                      /\ out' # out => Ascending(out \o out')
    BY DEF Uncleared
  <2>1. ~ClearHead /\ ~ClearTail
    BY DEF ClearHead, ClearTail
  <2>2. ~cleared
    BY <2>1 DEF Next, Push, Pop, PushTest, PushWrite, PushStore, PopHead, PopTail, PopCopy,
                PopStore, vars, prodVars
  <2>3. out' # out => PopStore
    BY <2>1 DEF Next, Push, Pop, PushTest, PushWrite, PushStore, PopHead, PopTail, PopCopy,
                vars, consVars
  <2>4. OwnsTail /\ ConsumerOwnsHead /\ NoNullWaits /\ InOrder
    BY <2>2 DEF Uncleared
  <2> QED BY <2>1, <2>3, <2>4, OrderStep, RingInvStep
<1> QED BY <1>1, <1>2, TypeCorrect, PTL DEF Spec, OrderedUntilCleared
===============================================================================
