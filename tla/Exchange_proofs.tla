---------------------------- MODULE Exchange_proofs ----------------------------
(***************************************************************************)
(* Proofs about the two structures that stand between a client and an       *)
(* engine: the ring buffer that orders come in by, and the log and the      *)
(* snapshots that an engine is rebuilt from.                                *)
(*                                                                         *)
(* RingBuffer, for any number of producers and slots: its types, that the   *)
(* ring never holds more than Mask orders although the head and the tail a  *)
(* producer decides on may both be stale, and that it is a queue that       *)
(* duplicates nothing until Drain gives up on a slot.                       *)
(*                                                                         *)
(* Recovery, for every number of records, savers, crashes and snapshots:    *)
(* recovery restores what was journaled.  The inductive invariant says of   *)
(* every snapshot that a later recovery can still read (the file, the       *)
(* temporary file, the copy that a saver is about to write) what the        *)
(* property says of the book: it is what the log says, as long as no copy   *)
(* was taken beside a working engine, and otherwise it lacks no more        *)
(* records than there were crashes, and one that the next crash will cost.  *)
(***************************************************************************)
EXTENDS RingBuffer, Recovery, Integers, SequenceTheorems, SumTheorems

-------------------------------------------------------------------------------
(* The ring buffer.                                                         *)

\* The types are kept by every step of a producer and of the consumer.
THEOREM TypeCorrect == RingSpec => []TypeOK
<1> USE RingAssumption DEF Mask
<1>1. RingInit => TypeOK
  BY DEF RingInit, TypeOK
<1>2. TypeOK /\ [RingNext]_ringVars => TypeOK'
  <2> SUFFICES ASSUME TypeOK, [RingNext]_ringVars PROVE TypeOK'
    OBVIOUS
  <2> USE DEF TypeOK
  <2>1. ASSUME NEW p \in Producers, Produce(p) PROVE TypeOK'
    <3>0. Order(p) \in Values
      BY DEF Order, Values
    <3>1. CASE LoadHead(p)
      BY <3>1 DEF LoadHead, Goto, consumerVars
    <3>2. CASE LoadTail(p)
      <4>1. CASE Full(seenHead[p], tail)
        <5>1. /\ seenTail' = [seenTail EXCEPT ![p] = tail]
              /\ ppc' = [ppc EXCEPT ![p] = "ready"]
              /\ calls' = [calls EXCEPT ![p] = @ + 1]
              /\ UNCHANGED <<head, tail, slot, seenHead, cpc, pos, end, out, skipped,
                             reserved, accepted>>
          BY <3>2, <4>1 DEF LoadTail, Goto, Finish, consumerVars
        <5> QED  BY <5>1
      <4>2. CASE ~Full(seenHead[p], tail)
        BY <3>2, <4>2 DEF LoadTail, Goto, consumerVars
      <4> QED  BY <4>1, <4>2
    <3>3. CASE Reserve(p)
      <4>1. CASE tail = seenTail[p]
        <5>1. reserved' = Append(reserved, Order(p)) /\ tail' = tail + 1
          BY <3>3, <4>1 DEF Reserve
        <5>2. ppc' = [ppc EXCEPT ![p] = "store"]
          BY <3>3, <4>1 DEF Reserve, Goto
        <5> QED  BY <3>0, <3>3, <5>1, <5>2 DEF Reserve, consumerVars
      <4>2. CASE tail # seenTail[p]
        <5>1. ppc' = [ppc EXCEPT ![p] = "retry"] /\ UNCHANGED <<tail, reserved>>
          BY <3>3, <4>2 DEF Reserve, Goto
        <5> QED  BY <3>3, <5>1 DEF Reserve, consumerVars
      <4> QED  BY <4>1, <4>2
    <3>4. CASE Store(p)
      <4>1. seenTail[p] % Size \in 0..Mask
        OBVIOUS
      <4>2. slot' \in [0..Mask -> Values \cup {Empty}] /\ accepted' \in SUBSET Values
        BY <3>0, <3>4, <4>1 DEF Store
      <4>3. /\ ppc' \in [Producers -> {"ready", "retry", "loadTail", "cas", "store"}]
            /\ calls' \in [Producers -> Nat]
        BY <3>4 DEF Store, Goto, Finish
      <4>4. UNCHANGED <<head, tail, seenHead, seenTail, cpc, pos, end, out, skipped, reserved>>
        BY <3>4 DEF Store, consumerVars
      <4> QED  BY <4>2, <4>3, <4>4
    <3> QED  BY <2>1, <3>1, <3>2, <3>3, <3>4 DEF Produce
  <2>2. CASE Consume
    <3>1. CASE BeginDrain
      BY <3>1 DEF BeginDrain, producerVars
    <3>2. CASE Take
      <4>1. pos % Size \in 0..Mask
        OBVIOUS
      <4>2. slot[pos % Size] \in Values
        BY <3>2, <4>1 DEF Take
      <4> QED  BY <3>2, <4>1, <4>2 DEF Take, SlotTaken, producerVars
    <3>3. CASE Skip
      BY <3>3 DEF Skip, producerVars
    <3>4. CASE EndDrain
      BY <3>4 DEF EndDrain, HeadAfterDrain, producerVars
    <3> QED  BY <2>2, <3>1, <3>2, <3>3, <3>4 DEF Consume
  <2>3. CASE UNCHANGED ringVars
    BY <2>3 DEF ringVars, producerVars, consumerVars
  <2> QED  BY <2>1, <2>2, <2>3 DEF RingNext
<1> QED  BY <1>1, <1>2, PTL DEF RingSpec

(***************************************************************************)
(* The invariant: what a producer has loaded was true once, the drain      *)
(* stays between head and tail, and a producer about to swap tail saw room *)
(* for one more order.                                                     *)
(***************************************************************************)
LoadedIsPast ==
    \A p \in Producers : seenHead[p] <= head /\ seenTail[p] <= tail

DrainWithinRing == cpc = "take" => head <= pos /\ pos <= end /\ end <= tail

RoomWasSeen ==
    \A p \in Producers : ppc[p] = "cas" => ~Full(seenHead[p], seenTail[p])

CapacityInv == LoadedIsPast /\ DrainWithinRing /\ RoomWasSeen /\ WithinCapacity

\* The step lemma behind the next theorem.
LEMMA CapacityStep == TypeOK /\ CapacityInv /\ [RingNext]_ringVars => CapacityInv'
<1> SUFFICES ASSUME TypeOK, CapacityInv, [RingNext]_ringVars PROVE CapacityInv'
  OBVIOUS
<1> USE RingAssumption
    DEF TypeOK, CapacityInv, LoadedIsPast, DrainWithinRing, RoomWasSeen,
        WithinCapacity, Full, Mask
<1>1. ASSUME NEW p \in Producers, Produce(p) PROVE CapacityInv'
  <2>1. CASE LoadHead(p)
    BY <2>1 DEF LoadHead, Goto, consumerVars
  <2>2. CASE LoadTail(p)
    <3>1. /\ UNCHANGED <<head, tail, seenHead, cpc, pos, end>>
          /\ seenTail' = [seenTail EXCEPT ![p] = tail]
      BY <2>2 DEF LoadTail, consumerVars
    <3>2. ppc' = [ppc EXCEPT ![p] = IF Full(seenHead[p], tail) THEN "ready" ELSE "cas"]
      BY <2>2 DEF LoadTail, Goto, Finish
    <3> QED  BY <3>1, <3>2
  <2>3. CASE Reserve(p)
    <3>1. UNCHANGED <<head, seenHead, seenTail, cpc, pos, end>> /\ ppc[p] = "cas"
      BY <2>3 DEF Reserve, consumerVars
    <3>2. CASE tail = seenTail[p]
      <4>1. tail' = tail + 1 /\ ppc' = [ppc EXCEPT ![p] = "store"]
        BY <2>3, <3>2 DEF Reserve, Goto
      <4>2. tail - seenHead[p] < Mask /\ seenHead[p] <= head /\ seenHead[p] \in Nat
        BY <3>1, <3>2
      <4>3. WithinCapacity'
        BY <3>1, <4>1, <4>2
      <4>4. LoadedIsPast' /\ DrainWithinRing'
        BY <3>1, <4>1
      <4>5. RoomWasSeen'
        BY <3>1, <4>1
      <4> QED  BY <4>3, <4>4, <4>5
    <3>3. CASE tail # seenTail[p]
      <4>1. tail' = tail /\ ppc' = [ppc EXCEPT ![p] = "retry"]
        BY <2>3, <3>3 DEF Reserve, Goto
      <4> QED  BY <3>1, <4>1
    <3> QED  BY <3>2, <3>3
  <2>4. CASE Store(p)
    BY <2>4 DEF Store, Goto, Finish, consumerVars
  <2> QED  BY <1>1, <2>1, <2>2, <2>3, <2>4 DEF Produce
<1>2. CASE Consume
  BY <1>2 DEF Consume, BeginDrain, Take, Skip, EndDrain, HeadAfterDrain, producerVars
<1>3. CASE UNCHANGED ringVars
  BY <1>3 DEF ringVars, producerVars, consumerVars
<1> QED  BY <1>1, <1>2, <1>3 DEF RingNext

\* At most Mask positions are reserved and not yet drained, however stale the
\* two counters a producer compared in Enqueue had become when it swapped tail.
THEOREM CapacityNeverExceeded == RingSpec => []WithinCapacity
<1>1. RingInit => CapacityInv
  BY RingAssumption DEF RingInit, CapacityInv, LoadedIsPast, DrainWithinRing,
     RoomWasSeen, WithinCapacity, Mask
<1>2. CapacityInv => WithinCapacity
  BY DEF CapacityInv
<1> QED  BY <1>1, <1>2, TypeCorrect, CapacityStep, PTL DEF RingSpec

-------------------------------------------------------------------------------
(***************************************************************************)
(* The queue.  Two facts hold whatever Drain skips: a producer between its *)
(* swap of tail and its store owns one reserved position, and an order is  *)
(* in one place, a slot or what was handed out, once its call is over.     *)
(***************************************************************************)
OwnsPosition ==
    /\ Len(reserved) = tail
    /\ \A p \in Producers : ppc[p] = "store" =>
          seenTail[p] < tail /\ reserved[seenTail[p] + 1] = Order(p)

\* An order whose call is over, and whose position was reserved.
Passed(x) == x[2] < calls[x[1]] /\ \E k \in 1..Len(reserved) : reserved[k] = x

InOnePlace ==
    /\ \A i \in 0..Mask : slot[i] # Empty =>
          Passed(slot[i]) /\ \A k \in 1..Len(out) : out[k] # slot[i]
    /\ \A i, j \in 0..Mask : slot[i] # Empty /\ slot[i] = slot[j] => i = j
    /\ \A k \in 1..Len(out) : Passed(out[k])
    /\ \A k, l \in 1..Len(out) : out[k] = out[l] => k = l

\* How many positions Drain has left behind.
Drained == IF cpc = "take" THEN pos ELSE head

(***************************************************************************)
(* While nothing has been skipped: what was drained is the reservations in *)
(* their order, a filled slot holds the order of a live position, and the  *)
(* slot a producer is about to fill is live and empty.                     *)
(***************************************************************************)
DrainedInOrder ==
    Len(out) = Drained /\ \A k \in 1..Drained : out[k] = reserved[k]

FilledSlotsLive ==
    \A i \in 0..Mask : slot[i] # Empty =>
       \E j \in Drained..(tail - 1) : j % Size = i /\ slot[i] = reserved[j + 1]

StoresPending ==
    \A p \in Producers : ppc[p] = "store" =>
       Drained <= seenTail[p] /\ slot[seenTail[p] % Size] = Empty

AcceptedKept ==
    \A x \in accepted :
       \/ \E k \in 1..Len(out) : out[k] = x
       \/ \E i \in 0..Mask : slot[i] = x

Fifo == skipped = {} =>
    DrainedInOrder /\ FilledSlotsLive /\ StoresPending /\ AcceptedKept

QueueInv == TypeOK /\ CapacityInv /\ OwnsPosition /\ InOnePlace /\ Fifo

\* Two positions less than a lap apart share a slot only when they are one position.
LEMMA SlotOfPosition ==
    ASSUME NEW a \in Nat, NEW b \in Nat, NEW S \in Nat, S > 0,
           a <= b, b - a < S, a % S = b % S
    PROVE  a = b
<1> DEFINE qa == a \div S
<1> DEFINE qb == b \div S
<1>1. a = S * qa + (a % S) /\ b = S * qb + (b % S) /\ qa \in Nat /\ qb \in Nat
  OBVIOUS
<1>2. \A q \in Int : q >= 1 => S * q >= S
  OBVIOUS
<1> HIDE DEF qa, qb
<1>3. S * (qb - qa) = b - a /\ S * (qa - qb) = a - b
  BY <1>1
<1>4. ~ (qb - qa >= 1) /\ ~ (qa - qb >= 1)
  BY <1>1, <1>2, <1>3
<1>5. qa = qb
  BY <1>1, <1>4
<1> QED  BY <1>1, <1>5

\* Every position falls in a slot of the ring.
LEMMA SlotInRing == \A n \in Nat : n % Size \in 0..Mask
BY RingAssumption DEF Mask

\* A reservation appends the order to the history and keeps what was there.
LEMMA ReserveAppends ==
    ASSUME TypeOK, OwnsPosition, NEW p \in Producers, Reserve(p), tail = seenTail[p]
    PROVE  /\ Len(reserved') = tail + 1
           /\ reserved'[tail + 1] = Order(p)
           /\ \A k \in 1..tail : reserved'[k] = reserved[k]
<1>1. reserved \in Seq(Values) /\ Len(reserved) = tail
  BY DEF TypeOK, OwnsPosition
<1>2. Order(p) \in Values
  BY DEF TypeOK, Order, Values
<1>3. reserved' = Append(reserved, Order(p))
  BY DEF Reserve
<1> QED  BY <1>1, <1>2, <1>3, AppendProperties

\* Take hands out one more order and keeps what was handed out.
LEMMA TakeAppends ==
    ASSUME TypeOK, Take
    PROVE  /\ slot[pos % Size] \in Values
           /\ Len(out') = Len(out) + 1
           /\ out'[Len(out) + 1] = slot[pos % Size]
           /\ \A k \in 1..Len(out) : out'[k] = out[k]
<1>1. out \in Seq(Values)
  BY DEF TypeOK
<1>2. slot[pos % Size] \in Values
  BY SlotInRing DEF TypeOK, Take
<1>3. out' = Append(out, slot[pos % Size])
  BY DEF Take
<1> QED  BY <1>1, <1>2, <1>3, AppendProperties

\* A producer between its swap and its store keeps the position it reserved.
LEMMA OwnershipKept == TypeOK /\ OwnsPosition /\ [RingNext]_ringVars => OwnsPosition'
<1> SUFFICES ASSUME TypeOK, OwnsPosition, [RingNext]_ringVars PROVE OwnsPosition'
  OBVIOUS
<1>1. ASSUME NEW p \in Producers, Produce(p) PROVE OwnsPosition'
  <2>1. CASE LoadHead(p)
    BY <2>1 DEF LoadHead, Goto, consumerVars, TypeOK, OwnsPosition, Order
  <2>2. CASE LoadTail(p)
    BY <2>2 DEF LoadTail, Goto, Finish, consumerVars, TypeOK, OwnsPosition, Order
  <2>3. CASE Reserve(p)
    <3>1. CASE tail = seenTail[p]
      <4>1. /\ Len(reserved') = tail + 1
            /\ reserved'[tail + 1] = Order(p)
            /\ \A k \in 1..tail : reserved'[k] = reserved[k]
        BY <2>3, <3>1, ReserveAppends
      <4>2. /\ tail' = tail + 1 /\ UNCHANGED <<calls, seenTail>>
            /\ \A q \in Producers : ppc'[q] = IF q = p THEN "store" ELSE ppc[q]
        BY <2>3, <3>1 DEF Reserve, Goto, TypeOK
      <4> SUFFICES ASSUME NEW q \in Producers, ppc'[q] = "store"
                   PROVE  seenTail'[q] < tail' /\ reserved'[seenTail'[q] + 1] = Order(q)'
        BY <4>1, <4>2 DEF OwnsPosition
      <4>3. CASE q = p
        BY <3>1, <4>1, <4>2, <4>3 DEF Order, TypeOK
      <4>4. CASE q # p
        <5>1. seenTail[q] < tail /\ reserved[seenTail[q] + 1] = Order(q)
          BY <4>2, <4>4 DEF OwnsPosition
        <5>2. seenTail[q] \in Nat /\ tail \in Nat
          BY DEF TypeOK
        <5>3. seenTail[q] + 1 \in 1..tail
          BY <5>1, <5>2
        <5> QED  BY <4>1, <4>2, <5>1, <5>2, <5>3 DEF Order
      <4> QED  BY <4>3, <4>4
    <3>2. CASE tail # seenTail[p]
      BY <2>3, <3>2 DEF Reserve, Goto, TypeOK, OwnsPosition, Order
    <3> QED  BY <3>1, <3>2
  <2>4. CASE Store(p)
    BY <2>4 DEF Store, Goto, Finish, consumerVars, TypeOK, OwnsPosition, Order
  <2> QED  BY <1>1, <2>1, <2>2, <2>3, <2>4 DEF Produce
<1>2. CASE Consume
  BY <1>2 DEF Consume, BeginDrain, Take, Skip, EndDrain, producerVars, OwnsPosition, Order
<1>3. CASE UNCHANGED ringVars
  BY <1>3 DEF ringVars, producerVars, OwnsPosition, Order
<1> QED  BY <1>1, <1>2, <1>3 DEF RingNext

\* What is over stays over: calls only grow and reservations are never withdrawn.
LEMMA PassedKept ==
    ASSUME TypeOK, OwnsPosition, [RingNext]_ringVars, NEW x \in Values, Passed(x)
    PROVE  Passed(x)'
<1>1. \A q \in Producers : calls'[q] >= calls[q] /\ calls'[q] \in Nat
  BY DEF RingNext, Produce, Consume, LoadHead, LoadTail, Reserve, Store, Goto, Finish, BeginDrain,
         Take, Skip, EndDrain, ringVars, producerVars, TypeOK
<1>2. Len(reserved') >= Len(reserved) /\ \A k \in 1..Len(reserved) : reserved'[k] = reserved[k]
  <2>1. ASSUME NEW p \in Producers, Reserve(p), tail = seenTail[p] PROVE <1>2
    BY <2>1, ReserveAppends DEF OwnsPosition, TypeOK
  <2>2. CASE UNCHANGED reserved
    BY <2>2 DEF OwnsPosition, TypeOK
  <2> QED
    BY <2>1, <2>2 DEF RingNext, Produce, Consume, LoadHead, LoadTail, Reserve, Store, BeginDrain,
         Take, Skip, EndDrain, ringVars, producerVars
<1>3. x[1] \in Producers /\ x[2] \in Nat
  BY DEF Values
<1>4. Len(reserved) \in Nat /\ Len(reserved') \in Nat
  BY <1>2, OwnershipKept DEF OwnsPosition, TypeOK
<1>5. x[2] < calls'[x[1]]
  BY <1>1, <1>3 DEF Passed, TypeOK
<1>6. PICK k \in 1..Len(reserved) : reserved[k] = x
  BY DEF Passed
<1>7. k \in 1..Len(reserved') /\ reserved'[k] = x
  BY <1>2, <1>4, <1>6
<1> QED  BY <1>5, <1>7 DEF Passed

\* An order is in one slot or was handed out once, also when Drain gave up on its
\* position and it surfaces a lap later.
LEMMA OnePlaceKept == TypeOK /\ OwnsPosition /\ InOnePlace /\ [RingNext]_ringVars => InOnePlace'
<1> SUFFICES ASSUME TypeOK, OwnsPosition, InOnePlace, [RingNext]_ringVars PROVE InOnePlace'
  OBVIOUS
<1> USE RingAssumption
<1>0. /\ \A i \in 0..Mask : slot[i] # Empty => slot[i] \in Values
      /\ out \in Seq(Values) /\ Len(out) \in Nat /\ \A k \in 1..Len(out) : out[k] \in Values
  BY DEF TypeOK
<1> DEFINE Over(x) == x[2] < calls'[x[1]] /\ \E k \in 1..Len(reserved') : reserved'[k] = x
<1>1. \A x \in Values : Passed(x) => Over(x)
  BY PassedKept DEF Passed
<1> HIDE DEF Over
<1>5. ASSUME /\ \A i \in 0..Mask : slot'[i] # Empty =>
                   Over(slot'[i]) /\ \A k \in 1..Len(out') : out'[k] # slot'[i]
             /\ \A i, j \in 0..Mask : slot'[i] # Empty /\ slot'[i] = slot'[j] => i = j
             /\ \A k \in 1..Len(out') : Over(out'[k])
             /\ \A k, l \in 1..Len(out') : out'[k] = out'[l] => k = l
      PROVE  InOnePlace'
  BY <1>5 DEF InOnePlace, Passed, Over
<1>2. CASE UNCHANGED <<slot, out>>
  <2>1. InOnePlace
    OBVIOUS
  <2> QED  BY <1>0, <1>1, <1>2, <1>5, <2>1 DEF InOnePlace
<1>3. ASSUME NEW p \in Producers, Store(p) PROVE InOnePlace'
  <2> DEFINE t == seenTail[p] % Size
  <2>1. t \in 0..Mask
    BY SlotInRing DEF TypeOK
  <2> HIDE DEF t
  <2>2. out' = out /\ \A i \in 0..Mask : slot'[i] = IF i = t THEN Order(p) ELSE slot[i]
    BY <1>3, <2>1 DEF Store, consumerVars, TypeOK, t
  <2>3. Order(p) \in Values /\ Order(p)[1] = p /\ Order(p)[2] = calls[p]
    BY DEF Order, Values, TypeOK
  <2>4. Over(Order(p))
    <3>1. seenTail[p] \in Nat /\ seenTail[p] + 1 \in 1..tail /\ reserved[seenTail[p] + 1] = Order(p)
      BY <1>3 DEF Store, OwnsPosition, TypeOK
    <3>2. reserved' = reserved /\ tail = Len(reserved)
      BY <1>3 DEF Store, OwnsPosition
    <3>3. calls'[p] = calls[p] + 1 /\ calls[p] \in Nat
      BY <1>3 DEF Store, Finish, TypeOK
    <3>4. calls[p] < calls'[p] /\ \E k \in 1..Len(reserved') : reserved'[k] = Order(p)
      BY <3>1, <3>2, <3>3
    <3> QED  BY <2>3, <3>4 DEF Over
  <2>5. \A x \in Values : Passed(x) => x # Order(p)
    BY <2>3 DEF Passed, Values, TypeOK
  <2>6. \A i \in 0..Mask : slot[i] # Order(p)
    BY <1>0, <2>3, <2>5 DEF InOnePlace, Values
  <2>7. \A k \in 1..Len(out) : out[k] # Order(p)
    BY <1>0, <2>5 DEF InOnePlace
  <2>8. \A i \in 0..Mask : slot'[i] # Empty =>
           Over(slot'[i]) /\ \A k \in 1..Len(out') : out'[k] # slot'[i]
    BY <1>0, <1>1, <2>2, <2>4, <2>7 DEF InOnePlace
  <2>9. \A i, j \in 0..Mask : slot'[i] # Empty /\ slot'[i] = slot'[j] => i = j
    BY <2>2, <2>6 DEF InOnePlace
  <2>10. /\ \A k \in 1..Len(out') : Over(out'[k])
         /\ \A k, l \in 1..Len(out') : out'[k] = out'[l] => k = l
    BY <1>0, <1>1, <2>2 DEF InOnePlace
  <2> QED  BY <1>5, <2>8, <2>9, <2>10
<1>4. CASE Take
  <2> DEFINE t == pos % Size
  <2> DEFINE n == Len(out)
  <2>1. t \in 0..Mask
    BY SlotInRing DEF TypeOK
  <2>2. /\ slot[t] \in Values /\ Len(out') = n + 1 /\ out'[n + 1] = slot[t]
        /\ \A k \in 1..n : out'[k] = out[k]
    BY <1>4, TakeAppends
  <2>3. /\ \A i \in 0..Mask : slot'[i] = IF i = t THEN Empty ELSE slot[i]
        /\ slot[t] # Empty
    BY <1>4, <2>1 DEF Take, SlotTaken, TypeOK
  <2> HIDE DEF t
  <2>4. n \in Nat /\ \A k \in 1..(n + 1) : k \in 1..n \/ k = n + 1
    BY <1>0
  <2>5. Over(slot[t])
    BY <1>1, <2>1, <2>2, <2>3 DEF InOnePlace
  <2> HIDE DEF n
  <2>6. \A k \in 1..n : out[k] # slot[t]
    BY <2>1, <2>3 DEF InOnePlace, n
  <2>7. \A i \in 0..Mask : slot'[i] # Empty =>
           Over(slot'[i]) /\ \A k \in 1..Len(out') : out'[k] # slot'[i]
    <3> SUFFICES ASSUME NEW i \in 0..Mask, slot'[i] # Empty
                 PROVE  Over(slot'[i]) /\ \A k \in 1..Len(out') : out'[k] # slot'[i]
      OBVIOUS
    <3>1. i # t /\ slot'[i] = slot[i]
      BY <2>3
    <3>2. Over(slot'[i])
      BY <1>0, <1>1, <3>1 DEF InOnePlace
    <3>3. \A k \in 1..n : out'[k] # slot'[i]
      BY <2>2, <3>1 DEF InOnePlace, n
    <3>4. slot[t] # slot[i]
      BY <2>1, <2>3, <3>1 DEF InOnePlace
    <3> QED  BY <2>2, <2>4, <3>1, <3>2, <3>3, <3>4
  <2>8. \A i, j \in 0..Mask : slot'[i] # Empty /\ slot'[i] = slot'[j] => i = j
    BY <2>3 DEF InOnePlace
  <2>9. \A k \in 1..Len(out') : Over(out'[k])
    BY <1>0, <1>1, <2>2, <2>4, <2>5 DEF InOnePlace, n
  <2>10. \A k, l \in 1..Len(out') : out'[k] = out'[l] => k = l
    <3>1. \A k, l \in 1..n : out[k] = out[l] => k = l
      BY DEF InOnePlace, n
    <3> QED  BY <2>2, <2>4, <2>6, <3>1
  <2> QED  BY <1>5, <2>7, <2>8, <2>9, <2>10
<1> QED
  BY <1>2, <1>3, <1>4 DEF RingNext, Produce, Consume, LoadHead, LoadTail, Reserve, BeginDrain, Skip,
     EndDrain, ringVars, producerVars, consumerVars

\* The positions between what Drain left behind and tail are fewer than a lap.
LEMMA LiveWithinLap ==
    ASSUME TypeOK, CapacityInv
    PROVE  /\ Drained \in Nat /\ Drained <= tail /\ tail - Drained < Size
           /\ \A j, k \in Drained..(tail - 1) : j % Size = k % Size => j = k
<1> USE RingAssumption
<1>1. Drained \in Nat /\ Drained <= tail /\ tail - Drained < Size /\ tail \in Nat
  BY DEF Drained, TypeOK, CapacityInv, DrainWithinRing, WithinCapacity, Mask
<1>2. ASSUME NEW j \in Drained..(tail - 1), NEW k \in Drained..(tail - 1), j % Size = k % Size
      PROVE  j = k
  <2>1. j \in Nat /\ k \in Nat /\ j - k < Size /\ k - j < Size
    BY <1>1
  <2>0. Size \in Nat /\ Size > 0
    OBVIOUS
  <2>2. CASE j <= k
    <3>1. k - j < Size
      BY <2>1
    <3> QED  BY <1>2, <2>0, <2>1, <2>2, <3>1, SlotOfPosition, Zenon
  <2>3. CASE k <= j
    <3>1. j - k < Size
      BY <2>1
    <3> QED  BY <1>2, <2>0, <2>1, <2>3, <3>1, SlotOfPosition, Zenon
  <2> QED  BY <2>1, <2>2, <2>3
<1> QED  BY <1>1, <1>2

\* A swap of tail claims a position whose slot is empty.
LEMMA ReserveKeepsFifo ==
    ASSUME TypeOK, CapacityInv, CapacityInv', OwnsPosition, skipped = {},
           DrainedInOrder, FilledSlotsLive, StoresPending, AcceptedKept,
           NEW p \in Producers, Reserve(p), tail = seenTail[p]
    PROVE  DrainedInOrder' /\ FilledSlotsLive' /\ StoresPending' /\ AcceptedKept'
<1> USE RingAssumption
<1>1. Drained \in Nat /\ tail \in Nat /\ Drained <= tail /\ tail - Drained < Size
  BY LiveWithinLap DEF TypeOK
<1>2. /\ UNCHANGED <<slot, out, cpc, pos, head, accepted, seenTail>> /\ tail' = tail + 1
      /\ \A q \in Producers : q # p => ppc'[q] = ppc[q]
  BY DEF Reserve, Goto, consumerVars, TypeOK
<1>3. Drained' = Drained
  BY <1>2 DEF Drained
<1>4. \A k \in 1..tail : reserved'[k] = reserved[k]
  BY ReserveAppends
<1>5. slot[tail % Size] = Empty
  <2> SUFFICES ASSUME slot[tail % Size] # Empty PROVE FALSE
    OBVIOUS
  <2>1. tail % Size \in 0..Mask
    BY <1>1, SlotInRing
  <2>2. PICK j \in Drained..(tail - 1) : j % Size = tail % Size
    BY <2>1 DEF FilledSlotsLive
  <2>3. j \in Nat /\ j < tail /\ tail - j < Size
    BY <1>1
  <2>4. Size \in Nat /\ Size > 0 /\ j <= tail
    BY <1>1, <2>3
  <2>5. PICK a, b : a = j /\ b = tail
    OBVIOUS
  <2>6. a \in Nat /\ b \in Nat /\ a <= b /\ b - a < Size /\ a % Size = b % Size /\ a # b
    BY <1>1, <2>2, <2>3, <2>5
  <2>7. a = b
    BY <2>4, <2>6, SlotOfPosition
  <2> QED  BY <2>6, <2>7
<1>6. DrainedInOrder'
  <2>1. Len(out') = Drained'
    BY <1>2, <1>3 DEF DrainedInOrder
  <2>2. ASSUME NEW k \in 1..Drained PROVE out'[k] = reserved'[k]
    <3>1. k \in 1..tail
      BY <1>1
    <3> QED  BY <1>2, <1>4, <3>1 DEF DrainedInOrder
  <2> QED  BY <1>3, <2>1, <2>2 DEF DrainedInOrder
<1>7. FilledSlotsLive'
  <2> SUFFICES ASSUME NEW i \in 0..Mask, slot[i] # Empty
               PROVE  \E j \in Drained..tail : j % Size = i /\ slot[i] = reserved'[j + 1]
    BY <1>1, <1>2, <1>3 DEF FilledSlotsLive
  <2>1. PICK j \in Drained..(tail - 1) : j % Size = i /\ slot[i] = reserved[j + 1]
    BY DEF FilledSlotsLive
  <2>2. j + 1 \in 1..tail /\ j \in Drained..tail
    BY <1>1
  <2> QED  BY <1>4, <2>1, <2>2
<1>8. StoresPending'
  BY <1>1, <1>2, <1>3, <1>5 DEF StoresPending
<1>9. AcceptedKept'
  BY <1>2 DEF AcceptedKept
<1> QED  BY <1>6, <1>7, <1>8, <1>9

\* A store fills the slot of the producer's own position and overwrites nothing.
LEMMA StoreKeepsFifo ==
    ASSUME TypeOK, CapacityInv, OwnsPosition, skipped = {},
           DrainedInOrder, FilledSlotsLive, StoresPending, AcceptedKept,
           NEW p \in Producers, Store(p)
    PROVE  DrainedInOrder' /\ FilledSlotsLive' /\ StoresPending' /\ AcceptedKept'
<1> USE RingAssumption
<1> DEFINE t == seenTail[p] % Size
<1>1. t \in 0..Mask
  BY SlotInRing DEF TypeOK
<1>2. /\ UNCHANGED <<head, tail, seenTail, cpc, pos, out, reserved>>
      /\ \A i \in 0..Mask : slot'[i] = IF i = t THEN Order(p) ELSE slot[i]
      /\ accepted' = accepted \cup {Order(p)}
      /\ ppc[p] = "store" /\ \A q \in Producers : ppc'[q] = IF q = p THEN "ready" ELSE ppc[q]
  BY <1>1 DEF Store, Goto, Finish, consumerVars, TypeOK
<1>3. Drained' = Drained
  BY <1>2 DEF Drained
<1>4. /\ slot[t] = Empty /\ seenTail[p] \in Drained..(tail - 1)
      /\ Order(p) = reserved[seenTail[p] + 1]
  BY <1>2, LiveWithinLap DEF StoresPending, OwnsPosition, TypeOK
<1>5. \A q \in Producers : ppc[q] = "store" /\ q # p => seenTail[q] % Size # t
  <2> SUFFICES ASSUME NEW q \in Producers, ppc[q] = "store", q # p, seenTail[q] % Size = t
               PROVE  FALSE
    OBVIOUS
  <2>1. seenTail[q] \in Drained..(tail - 1) /\ Order(q) = reserved[seenTail[q] + 1]
    BY LiveWithinLap DEF StoresPending, OwnsPosition, TypeOK
  <2>2. seenTail[q] = seenTail[p]
    BY <1>4, <2>1, LiveWithinLap
  <2>3. Order(q) = Order(p)
    BY <1>4, <2>1, <2>2
  <2> QED  BY <2>3 DEF Order
<1>6. \A q \in Producers : seenTail[q] % Size \in 0..Mask
  BY SlotInRing DEF TypeOK
<1>0. t = seenTail[p] % Size
  OBVIOUS
<1> HIDE DEF t
<1>7. DrainedInOrder'
  BY <1>2, <1>3 DEF DrainedInOrder
<1>8. FilledSlotsLive'
  <2> SUFFICES ASSUME NEW i \in 0..Mask, slot'[i] # Empty
               PROVE  \E j \in Drained..(tail - 1) : j % Size = i /\ slot'[i] = reserved[j + 1]
    BY <1>2, <1>3 DEF FilledSlotsLive
  <2>1. CASE i = t
    BY <1>0, <1>2, <1>4, <2>1
  <2>2. CASE i # t
    BY <1>2, <2>2 DEF FilledSlotsLive
  <2> QED  BY <2>1, <2>2
<1>9. StoresPending'
  BY <1>2, <1>3, <1>5, <1>6 DEF StoresPending
<1>10. AcceptedKept'
  <2> SUFFICES ASSUME NEW x \in accepted'
               PROVE  \/ \E k \in 1..Len(out') : out'[k] = x
                      \/ \E i \in 0..Mask : slot'[i] = x
    BY DEF AcceptedKept
  <2>1. CASE x = Order(p)
    BY <1>1, <1>2, <2>1
  <2>2. CASE \E k \in 1..Len(out) : out[k] = x
    BY <1>2, <2>2
  <2>3. CASE x # Order(p) /\ \E i \in 0..Mask : slot[i] = x
    <3>1. x \in Values
      BY <1>2, <2>3 DEF TypeOK
    <3>2. PICK i \in 0..Mask : slot[i] = x
      BY <2>3
    <3>3. i # t
      BY <1>4, <3>1, <3>2 DEF Values
    <3> QED  BY <1>2, <3>2, <3>3
  <2> QED  BY <1>2, <2>1, <2>2, <2>3 DEF AcceptedKept
<1> QED  BY <1>7, <1>8, <1>9, <1>10

\* Take hands out the next order of the reservations.
LEMMA TakeKeepsFifo ==
    ASSUME TypeOK, CapacityInv, OwnsPosition, skipped = {},
           DrainedInOrder, FilledSlotsLive, StoresPending, AcceptedKept, Take
    PROVE  DrainedInOrder' /\ FilledSlotsLive' /\ StoresPending' /\ AcceptedKept'
<1> USE RingAssumption
<1> DEFINE t == pos % Size
<1>1. t \in 0..Mask
  BY SlotInRing DEF TypeOK
<1>2. /\ UNCHANGED <<tail, cpc, reserved, accepted, ppc, seenTail>> /\ pos' = pos + 1
      /\ \A i \in 0..Mask : slot'[i] = IF i = t THEN Empty ELSE slot[i]
      /\ cpc = "take" /\ pos < end /\ slot[t] # Empty
  BY <1>1 DEF Take, SlotTaken, producerVars, TypeOK
<1>3. Drained = pos /\ Drained' = pos + 1 /\ pos \in Nat /\ pos < tail /\ tail \in Nat
  BY <1>2 DEF Drained, TypeOK, CapacityInv, DrainWithinRing
<1>4. slot[t] = reserved[pos + 1]
  <2>1. PICK j \in Drained..(tail - 1) : j % Size = t /\ slot[t] = reserved[j + 1]
    BY <1>1, <1>2 DEF FilledSlotsLive
  <2>2. j \in Drained..(tail - 1) /\ pos \in Drained..(tail - 1) /\ j % Size = pos % Size
    BY <1>3, <2>1
  <2>3. j = pos
    BY <2>2, LiveWithinLap
  <2> QED  BY <2>1, <2>3
<1>5. /\ Len(out) = pos /\ Len(out') = pos + 1 /\ out'[pos + 1] = slot[t]
      /\ \A k \in 1..pos : out'[k] = out[k] /\ out[k] = reserved[k]
  BY <1>3, TakeAppends DEF DrainedInOrder
<1>0. t = pos % Size
  OBVIOUS
<1> HIDE DEF t
<1>6. DrainedInOrder'
  BY <1>2, <1>3, <1>4, <1>5 DEF DrainedInOrder
<1>7. FilledSlotsLive'
  <2> SUFFICES ASSUME NEW i \in 0..Mask, slot'[i] # Empty
               PROVE  \E j \in (pos + 1)..(tail - 1) : j % Size = i /\ slot'[i] = reserved[j + 1]
    BY <1>2, <1>3 DEF FilledSlotsLive
  <2>1. i # t /\ slot'[i] = slot[i]
    BY <1>2
  <2>2. PICK j \in pos..(tail - 1) : j % Size = i /\ slot[i] = reserved[j + 1]
    BY <1>3, <2>1 DEF FilledSlotsLive
  <2>3. j # pos /\ j \in (pos + 1)..(tail - 1)
    BY <1>0, <1>3, <2>1, <2>2
  <2> QED  BY <2>1, <2>2, <2>3
<1>8. StoresPending'
  <2> SUFFICES ASSUME NEW p \in Producers, ppc[p] = "store"
               PROVE  pos + 1 <= seenTail[p] /\ slot'[seenTail[p] % Size] = Empty
    BY <1>2, <1>3 DEF StoresPending
  <2>1. /\ pos <= seenTail[p] /\ slot[seenTail[p] % Size] = Empty /\ seenTail[p] \in Nat
        /\ seenTail[p] % Size \in 0..Mask
    BY <1>3, SlotInRing DEF StoresPending, TypeOK
  <2>2. seenTail[p] # pos
    BY <1>0, <1>2, <2>1
  <2> QED  BY <1>2, <1>3, <2>1, <2>2
<1>9. AcceptedKept'
  <2> SUFFICES ASSUME NEW x \in accepted
               PROVE  \/ \E k \in 1..Len(out') : out'[k] = x
                      \/ \E i \in 0..Mask : slot'[i] = x
    BY <1>2 DEF AcceptedKept
  <2>1. CASE \E k \in 1..Len(out) : out[k] = x
    BY <1>3, <1>5, <2>1
  <2>2. CASE \E i \in 0..Mask : slot[i] = x
    <3>1. PICK i \in 0..Mask : slot[i] = x
      BY <2>2
    <3>2. CASE i = t
      <4>1. pos + 1 \in 1..Len(out') /\ out'[pos + 1] = x
        BY <1>3, <1>5, <3>1, <3>2
      <4> QED  BY <4>1
    <3>3. CASE i # t
      BY <1>2, <3>1, <3>3
    <3> QED  BY <3>2, <3>3
  <2> QED  BY <2>1, <2>2 DEF AcceptedKept
<1> QED  BY <1>6, <1>7, <1>8, <1>9

\* Every step keeps the queue first-in first-out until Drain gives up on a slot.
LEMMA FifoKept ==
    TypeOK /\ CapacityInv /\ CapacityInv' /\ OwnsPosition /\ Fifo /\ [RingNext]_ringVars => Fifo'
<1> SUFFICES ASSUME TypeOK, CapacityInv, CapacityInv', OwnsPosition, Fifo, [RingNext]_ringVars,
                    skipped' = {}
             PROVE  DrainedInOrder' /\ FilledSlotsLive' /\ StoresPending' /\ AcceptedKept'
  BY DEF Fifo
<1>1. skipped = {} /\ ~Skip
  BY DEF RingNext, Produce, Consume, LoadHead, LoadTail, Reserve, Store, BeginDrain, Take, Skip,
     EndDrain, ringVars, producerVars, consumerVars
<1>2. DrainedInOrder /\ FilledSlotsLive /\ StoresPending /\ AcceptedKept
  BY <1>1 DEF Fifo
<1>3. ASSUME NEW p \in Producers, Store(p)
      PROVE  DrainedInOrder' /\ FilledSlotsLive' /\ StoresPending' /\ AcceptedKept'
  BY <1>1, <1>2, <1>3, StoreKeepsFifo
<1>4. ASSUME NEW p \in Producers, Reserve(p), tail = seenTail[p]
      PROVE  DrainedInOrder' /\ FilledSlotsLive' /\ StoresPending' /\ AcceptedKept'
  BY <1>1, <1>2, <1>4, ReserveKeepsFifo
<1>5. CASE Take
  BY <1>1, <1>2, <1>5, TakeKeepsFifo
<1>6. ASSUME UNCHANGED <<tail, slot, out, reserved, accepted>>, Drained' = Drained,
             \A q \in Producers : ppc'[q] = "store" => ppc[q] = "store" /\ seenTail'[q] = seenTail[q]
      PROVE  DrainedInOrder' /\ FilledSlotsLive' /\ StoresPending' /\ AcceptedKept'
  <2>1. DrainedInOrder' /\ FilledSlotsLive' /\ AcceptedKept'
    BY <1>2, <1>6 DEF DrainedInOrder, FilledSlotsLive, AcceptedKept
  <2>2. StoresPending'
    BY <1>2, <1>6 DEF StoresPending
  <2> QED  BY <2>1, <2>2
<1>7. ASSUME NEW p \in Producers,
             LoadHead(p) \/ LoadTail(p) \/ (Reserve(p) /\ tail # seenTail[p])
      PROVE  DrainedInOrder' /\ FilledSlotsLive' /\ StoresPending' /\ AcceptedKept'
  <2>1. UNCHANGED <<tail, slot, out, reserved, accepted, cpc, pos, head>>
    BY <1>7 DEF LoadHead, LoadTail, Reserve, consumerVars
  <2>2. \A q \in Producers : ppc'[q] = "store" => ppc[q] = "store" /\ seenTail'[q] = seenTail[q]
    BY <1>7 DEF LoadHead, LoadTail, Reserve, Goto, Finish, TypeOK
  <2> QED  BY <1>6, <2>1, <2>2 DEF Drained
<1>8. CASE BeginDrain \/ EndDrain \/ UNCHANGED ringVars
  <2>1. UNCHANGED <<tail, slot, out, reserved, accepted, ppc, seenTail>>
    BY <1>8 DEF BeginDrain, EndDrain, ringVars, producerVars, consumerVars
  <2>2. Drained' = Drained
    BY <1>8 DEF BeginDrain, EndDrain, HeadAfterDrain, ringVars, consumerVars, Drained
  <2> QED  BY <1>6, <2>1, <2>2
<1> QED  BY <1>1, <1>3, <1>4, <1>5, <1>7, <1>8 DEF RingNext, Produce, Consume

\* What the engine is handed is what was reserved: the invariant implies the property.
LEMMA QueueInvImplies == QueueInv => QueueUntilSkip
<1> SUFFICES ASSUME QueueInv PROVE QueueUntilSkip
  OBVIOUS
<1>0. /\ out \in Seq(Values) /\ reserved \in Seq(Values)
      /\ DOMAIN out = 1..Len(out) /\ DOMAIN reserved = 1..Len(reserved)
  BY DEF QueueInv, TypeOK
<1>1. IsInjective(out) /\ Range(out) \subseteq Range(reserved)
  BY <1>0 DEF QueueInv, InOnePlace, Passed, IsInjective, Range
<1>2. ASSUME skipped = {}
      PROVE  /\ out = SubSeq(reserved, 1, Drained)
             /\ \A x \in accepted : x \in Range(out) \/ \E i \in 0..Mask : slot[i] = x
  <2>1. DrainedInOrder /\ AcceptedKept
    BY <1>2 DEF QueueInv, Fifo
  <2>2. Drained \in Nat /\ Drained <= Len(reserved)
    BY LiveWithinLap DEF QueueInv, OwnsPosition
  <2> DEFINE sub == SubSeq(reserved, 1, Drained)
  <2>3. sub = [i \in 1..Drained |-> reserved[i]]
    BY <1>0, <2>2
  <2>4. out = [i \in 1..Drained |-> reserved[i]]
    BY <1>0, <2>1 DEF DrainedInOrder
  <2> QED  BY <1>0, <2>1, <2>3, <2>4 DEF AcceptedKept, Range
<1> QED  BY <1>1, <1>2 DEF QueueUntilSkip, Drained

\* The ring hands out no order twice and none it was not given, and until Drain
\* gives up on a slot it is a queue: Enqueue and Drain of ringbuffer.go.
THEOREM QueueIsFifoUntilSkip == RingSpec => []QueueUntilSkip
<1>1. RingInit => OwnsPosition /\ InOnePlace /\ Fifo /\ CapacityInv
  <2> SUFFICES ASSUME RingInit PROVE OwnsPosition /\ InOnePlace /\ Fifo /\ CapacityInv
    OBVIOUS
  <2>1. Len(out) = 0 /\ Len(reserved) = 0 /\ Drained = 0
    BY DEF RingInit, Drained
  <2>2. OwnsPosition /\ InOnePlace
    BY <2>1 DEF RingInit, OwnsPosition, InOnePlace
  <2>3. Fifo
    BY <2>1 DEF RingInit, Fifo, DrainedInOrder, FilledSlotsLive, StoresPending, AcceptedKept
  <2>4. CapacityInv
    BY RingAssumption DEF RingInit, CapacityInv, LoadedIsPast, DrainWithinRing,
       RoomWasSeen, WithinCapacity, Mask
  <2> QED  BY <2>2, <2>3, <2>4
<1>2. TypeOK /\ CapacityInv /\ CapacityInv' /\ OwnsPosition /\ InOnePlace /\ Fifo /\ [RingNext]_ringVars
         => OwnsPosition' /\ InOnePlace' /\ Fifo'
  BY OwnershipKept, OnePlaceKept, FifoKept
<1>3. TypeOK /\ CapacityInv /\ OwnsPosition /\ InOnePlace /\ Fifo => QueueUntilSkip
  BY QueueInvImplies DEF QueueInv
<1> QED  BY <1>1, <1>2, <1>3, TypeCorrect, CapacityStep, PTL DEF RingSpec

-------------------------------------------------------------------------------
(* The inductive invariant.                                                 *)

Files == {Missing, Unreadable} \cup {Snapshot(n, b) : n \in Nat, b \in Seq(Ops)}

Steps == {"idle", "copy", "open", "write", "rename"}

\* A line of the file is a record or does not unmarshal.
Records == {Corrupt} \cup {Line(n, o) : n \in Nat, o \in Ops}

TypeInv ==
    /\ file \in Seq(Records) /\ torn \in BOOLEAN /\ synced \in Nat /\ seq \in Nat /\ open \in BOOLEAN
    /\ pc \in {"down", "idle", "journaled"}
    /\ cur \in Ops \cup {NoOp}
    /\ book \in Seq(Ops) /\ logged \in Seq(Ops)
    /\ snap \in Files /\ tmp \in Files
    /\ spc \in [Savers -> Steps] /\ copy \in [Savers -> Files]
    /\ \A s \in Savers : spc[s] = "copy" => copy[s].state = "readable"
    /\ handle \in [Savers -> {"none", "tmp", "snap"}]
    /\ faults \in SUBSET {"late", "raced", "power"} /\ crashes \in Nat

\* The engine has a record in progress between its two steps, and no other time.
InProgress == cur # NoOp <=> pc = "journaled"

\* While the log has neither lost nor missed a record, its file holds what was
\* journaled, line by line, and the engine knows their number.
LogKept == faults \subseteq {"raced"}

LogComplete ==
    LogKept =>
        /\ ~torn /\ Len(file) = Len(logged)
        /\ \A i \in 1..Len(logged) : file[i] = Line(i, logged[i])
        /\ pc # "down" => seq = Len(logged)

\* The saver holds a copy that it will write.
Holds(s) == spc[s] \in {"open", "write", "rename"}

\* The snapshots that a recovery may read now or later.
Kept == {snap, tmp} \cup {copy[s] : s \in {x \in Savers : Holds(x)}}

\* A snapshot claims no more than was journaled.
Claims(c) == c.lastSeq <= Len(logged)

ClaimsHold ==
    LogKept => /\ \A c \in Kept : Claims(c)
               /\ \A s \in Savers : spc[s] = "copy" => Claims(copy[s])

\* While nothing went wrong a snapshot holds what it claims, and the book what
\* was journaled, but for the record in progress.
Exact ==
    faults = {} => /\ \A c \in Kept : Reflects(c)
                   /\ pc = "idle" => book = logged
                   /\ pc = "journaled" => logged = Append(book, cur)

\* The records that a snapshot claims and does not hold, and those that are
\* missing from the book.
Lost(c) == Range(SubSeq(logged, 1, c.lastSeq)) \ Range(c.book)

LostByBook == Range(logged) \ (Range(book) \cup {cur})

\* One more than the crashes: the record in progress, that the next crash costs.
Bound == IF pc = "down" THEN crashes ELSE crashes + 1

Few(S) == Cardinality(S) <= Bound

FewLost ==
    LogKept => /\ \A c \in Kept : Few(Lost(c))
               /\ pc # "down" => Cardinality(LostByBook) <= crashes

\* A process that is down has no savers.
NoSavers == pc = "down" => \A s \in Savers : spc[s] = "idle"

RecoveryInv == TypeInv /\ InProgress /\ LogComplete /\ NoSavers /\ ClaimsHold /\ Exact /\ FewLost
-------------------------------------------------------------------------------
(* Sequences and their ranges.                                              *)

\* What comes before a record is the same after it.
LEMMA PrefixOfAppend ==
    ASSUME NEW S, NEW q \in Seq(S), NEW e \in S, NEW n \in Nat, n <= Len(q)
    PROVE  SubSeq(Append(q, e), 1, n) = SubSeq(q, 1, n)
<1> DEFINE r == Append(q, e)
<1>1. r \in Seq(S) /\ Len(r) = Len(q) + 1 /\ \A i \in 1..Len(q) : r[i] = q[i]
  BY AppendProperties
<1>2. Len(q) \in Nat /\ \A i \in 1..Len(q) : q[i] \in S
  BY LenProperties, ElementOfSeq
<1> HIDE DEF r
<1>3. \A i \in 1..n : i \in 1..Len(q) /\ r[i] \in S /\ q[i] \in S
  BY <1>1, <1>2
<1>4. /\ SubSeq(r, 1, n) \in Seq(S) /\ SubSeq(q, 1, n) \in Seq(S)
      /\ Len(SubSeq(r, 1, n)) = (IF 1 <= n THEN n - 1 + 1 ELSE 0)
      /\ Len(SubSeq(q, 1, n)) = (IF 1 <= n THEN n - 1 + 1 ELSE 0)
      /\ \A i \in 1..(n - 1 + 1) : SubSeq(r, 1, n)[i] = r[1 + i - 1]
      /\ \A i \in 1..(n - 1 + 1) : SubSeq(q, 1, n)[i] = q[1 + i - 1]
  BY <1>3, SubSeqProperties
<1>5. \A i \in 1..n : SubSeq(r, 1, n)[i] = SubSeq(q, 1, n)[i]
  BY <1>1, <1>2, <1>4
<1>6. Len(SubSeq(r, 1, n)) = n /\ Len(SubSeq(q, 1, n)) = n
  BY <1>4
<1> QED  BY <1>4, <1>5, <1>6, SeqEqual DEF r

\* A record that is appended joins what the log holds.
LEMMA RangeOfAppend ==
    ASSUME NEW S, NEW q \in Seq(S), NEW e \in S
    PROVE  Range(Append(q, e)) = Range(q) \cup {e}
<1>1. /\ Append(q, e) \in Seq(S) /\ Len(Append(q, e)) = Len(q) + 1 /\ Len(q) \in Nat
      /\ \A i \in 1..Len(q) : Append(q, e)[i] = q[i]
      /\ Append(q, e)[Len(q) + 1] = e
  BY AppendProperties, LenProperties
<1>2. /\ Range(q) = {q[i] : i \in 1..Len(q)}
      /\ Range(Append(q, e)) = {Append(q, e)[i] : i \in 1..Len(Append(q, e))}
  BY <1>1, RangeEquality
<1>3. 1..(Len(q) + 1) = 1..Len(q) \cup {Len(q) + 1}
  BY <1>1
<1> QED  BY <1>1, <1>2, <1>3

\* A sequence has finitely many elements.
LEMMA RangeFinite ==
    ASSUME NEW S, NEW q \in Seq(S)
    PROVE  IsFiniteSet(Range(q))
<1>1. Range(q) = {q[i] : i \in 1..Len(q)} /\ Len(q) \in Nat
  BY RangeEquality, LenProperties
<1>2. IsFiniteSet(1..Len(q))
  BY <1>1, FS_Interval
<1> DEFINE f == [i \in 1..Len(q) |-> q[i]]
<1>3. f \in Surjection(1..Len(q), Range(q))
  BY <1>1 DEF Surjection
<1> HIDE DEF f
<1> QED  BY <1>2, <1>3, FS_Surjection

\* Two parts of a sequence hold what it holds.
LEMMA RangeOfParts ==
    ASSUME NEW S, NEW q \in Seq(S), NEW n \in Nat, n <= Len(q)
    PROVE  /\ SubSeq(q, 1, n) \in Seq(S) /\ SubSeq(q, n + 1, Len(q)) \in Seq(S)
           /\ q = SubSeq(q, 1, n) \o SubSeq(q, n + 1, Len(q))
           /\ Range(q) = Range(SubSeq(q, 1, n)) \cup Range(SubSeq(q, n + 1, Len(q)))
<1>1. Len(q) \in Nat /\ \A i \in 1..Len(q) : q[i] \in S
  BY LenProperties, ElementOfSeq
<1>2. /\ 1 \in 1..Len(q) + 1 /\ n \in 1 - 1..Len(q) /\ Len(q) \in n..Len(q)
      /\ \A i \in 1..n : q[i] \in S
      /\ \A i \in n + 1..Len(q) : q[i] \in S
  BY <1>1
<1>3. SubSeq(q, 1, n) \in Seq(S) /\ SubSeq(q, n + 1, Len(q)) \in Seq(S)
  BY <1>1, <1>2, SubSeqProperties
<1>4. SubSeq(q, 1, n) \o SubSeq(q, n + 1, Len(q)) = SubSeq(q, 1, Len(q))
  BY <1>2, ConcatAdjacentSubSeq
<1>5. SubSeq(q, 1, Len(q)) = q
  BY SubSeqFull
<1>6. PICK a, b : a = SubSeq(q, 1, n) /\ b = SubSeq(q, n + 1, Len(q))
  OBVIOUS
<1>7. Range(a \o b) = Range(a) \cup Range(b)
  <2>1. a \in Seq(S) /\ b \in Seq(S)
    BY <1>3, <1>6
  <2> QED  BY <2>1, RangeConcatenation, ZenonT(40)
<1>8. q = a \o b
  BY <1>4, <1>5, <1>6
<1> QED  BY <1>3, <1>6, <1>7, <1>8

-------------------------------------------------------------------------------
(* Replay.                                                                  *)

\* Every snapshot in a file or in a copy is made of a number and a book.
LEMMA FilesAre ==
    ASSUME NEW c \in Files
    PROVE  /\ c.lastSeq \in Nat /\ c.book \in Seq(Ops)
           /\ c.state # "readable" => c.lastSeq = 0 /\ c.book = <<>>
<1>1. CASE c \in {Missing, Unreadable}
  <2>1. c.lastSeq = 0 /\ c.book = <<>>
    BY <1>1 DEF Missing, Unreadable
  <2> QED  BY <2>1, EmptySeq
<1>2. CASE c \in {Snapshot(n, b) : n \in Nat, b \in Seq(Ops)}
  BY <1>2 DEF Snapshot
<1> QED  BY <1>1, <1>2 DEF Files

\* What can be replayed is a record of an operation.
LEMMA ReplayedIs ==
    ASSUME file \in Seq(Records), NEW n \in 1..Len(file), Replayed(file[n])
    PROVE  file[n].op \in Ops
<1>1. file[n] \in Records /\ file[n] # Corrupt
  BY ElementOfSeq DEF Replayed
<1> QED  BY <1>1 DEF Records, Line

\* The recursion of replay has a solution: each line leaves what the lines before
\* it gave, or adds its operation to it.
LEMMA ReplayRecursion ==
    ASSUME file \in Seq(Records)
    PROVE  /\ ReplayOf[0] = <<>>
           /\ \A n \in 1..Len(file) :
                 ReplayOf[n] = IF Replayed(file[n]) THEN Append(ReplayOf[n - 1], file[n].op) ELSE ReplayOf[n - 1]
<1> DEFINE N == Len(file)
           Step(g, n) == IF n = 0 THEN <<>>
                         ELSE IF Replayed(file[n]) THEN Append(g[n - 1], file[n].op) ELSE g[n - 1]
           Solves(g) == g = [n \in 0..N |-> Step(g, n)]
           Begins(g, n) == g = [m \in 0..n |-> g[m]] /\ \A m \in 0..n : g[m] = Step(g, m)
           K == {n \in Nat : n <= N => \E g : Begins(g, n)}
<1>1. N \in Nat
  BY LenProperties
<1>2. ReplayOf = CHOOSE g : Solves(g)
  BY DEF ReplayOf
<1> HIDE DEF N
<1>3. 0 \in K
  <2> DEFINE g == [m \in 0..0 |-> <<>>]
  <2>1. Begins(g, 0)
    OBVIOUS
  <2> QED  BY <2>1, <1>1
<1>4. ASSUME NEW n \in K PROVE n + 1 \in K
  <2> SUFFICES ASSUME n + 1 <= N PROVE \E h : Begins(h, n + 1)
    OBVIOUS
  <2>1. n \in Nat /\ n <= N
    BY <1>1
  <2>2. PICK g : Begins(g, n)
    BY <1>4, <2>1
  <2> DEFINE h == [m \in 0..n + 1 |-> IF m \in 0..n THEN g[m] ELSE Step(g, m)]
  <2>3. \A m \in 0..n : h[m] = g[m]
    BY <2>1
  <2>4. h[n + 1] = Step(g, n + 1)
    BY <2>1
  <2>5. h = [m \in 0..n + 1 |-> h[m]]
    OBVIOUS
  <2> HIDE DEF h
  <2>6. \A m \in 0..n + 1 : h[m] = Step(h, m)
    <3> SUFFICES ASSUME NEW m \in 0..n + 1 PROVE h[m] = Step(h, m)
      OBVIOUS
    <3>1. CASE m = 0
      BY <2>1, <2>2, <2>3, <3>1
    <3>2. CASE m \in 1..n
      <4>1. m - 1 \in 0..n /\ m \in 0..n
        BY <2>1, <3>2
      <4> QED  BY <2>2, <2>3, <4>1
    <3>3. CASE m = n + 1
      <4>1. m - 1 \in 0..n
        BY <2>1, <3>3
      <4> QED  BY <2>3, <2>4, <3>3, <4>1
    <3>4. m = 0 \/ m \in 1..n \/ m = n + 1
      BY <2>1
    <3> HIDE DEF Step
    <3> QED  BY <3>1, <3>2, <3>3, <3>4
  <2>7. Begins(h, n + 1)
    BY <2>5, <2>6
  <2> QED  BY <2>7
<1>5. K = Nat
  <2> HIDE DEF K
  <2>1. K \in SUBSET Nat
    BY DEF K
  <2> QED  BY <1>3, <1>4, <2>1, NatSetInduction
<1>6. PICK g : Begins(g, N)
  BY <1>1, <1>5
<1>7. Solves(g)
  <2>1. g = [m \in 0..N |-> g[m]] /\ \A m \in 0..N : g[m] = Step(g, m)
    BY <1>6
  <2> HIDE DEF Step
  <2> QED  BY <2>1
<1>8. Solves(ReplayOf)
  BY <1>2, <1>7
<1>9. PICK r : r = ReplayOf
  OBVIOUS
<1>10. \A m \in 0..N : r[m] = Step(r, m)
  BY <1>8, <1>9
<1>11. r[0] = <<>>
  BY <1>1, <1>10
<1>12. ASSUME NEW n \in 1..N
       PROVE  r[n] = IF Replayed(file[n]) THEN Append(r[n - 1], file[n].op) ELSE r[n - 1]
  <2>1. n \in 0..N /\ n # 0
    BY <1>1
  <2> QED  BY <1>10, <2>1
<1> QED  BY <1>9, <1>11, <1>12 DEF N

\* What recovery replays are operations.
LEMMA ReplayTyped ==
    ASSUME file \in Seq(Records)
    PROVE  Replay \in Seq(Ops)
<1>1. Len(file) \in Nat
  BY LenProperties
<1> DEFINE K == {n \in Nat : n <= Len(file) => ReplayOf[n] \in Seq(Ops)}
<1>2. 0 \in K
  BY ReplayRecursion, EmptySeq
<1>3. ASSUME NEW n \in K PROVE n + 1 \in K
  <2> SUFFICES ASSUME n + 1 <= Len(file) PROVE ReplayOf[n + 1] \in Seq(Ops)
    OBVIOUS
  <2>1. PICK m \in 1..Len(file) : m = n + 1 /\ m - 1 = n /\ n <= Len(file)
    BY <1>1
  <2>2. ReplayOf[m - 1] \in Seq(Ops)
    BY <1>3, <2>1
  <2>3. ReplayOf[m] = IF Replayed(file[m]) THEN Append(ReplayOf[m - 1], file[m].op) ELSE ReplayOf[m - 1]
    BY ReplayRecursion
  <2> QED  BY <2>1, <2>2, <2>3, ReplayedIs, AppendProperties
<1>4. K = Nat
  <2> HIDE DEF K
  <2>1. K \in SUBSET Nat
    BY DEF K
  <2> QED  BY <1>2, <1>3, <2>1, NatSetInduction
<1>5. ReplayOf[Len(file)] \in Seq(Ops)
  BY <1>1, <1>4
<1> QED  BY <1>5 DEF Replay

\* A complete log replays the records that the snapshot does not claim, in order.
LEMMA ReplayIsTail ==
    ASSUME TypeInv, LogComplete, LogKept, Claims(snap)
    PROVE  /\ Replay = SubSeq(logged, snap.lastSeq + 1, Len(logged))
           /\ Restored = snap.book
<1> DEFINE k == snap.lastSeq
           N == Len(file)
<1>1. /\ k \in Nat /\ snap.book \in Seq(Ops) /\ LastWALSeq = k /\ Restored = snap.book
      /\ logged \in Seq(Ops) /\ N \in Nat /\ N = Len(logged) /\ k <= N
  BY FilesAre, LenProperties DEF TypeInv, LastWALSeq, Restored, Claims, LogComplete
<1>2. \A n \in 1..N : logged[n] \in Ops /\ file[n] = Line(n, logged[n])
  BY <1>1, ElementOfSeq DEF LogComplete
<1>3. \A n \in 1..N : (Replayed(file[n]) <=> n > k) /\ file[n].op = logged[n]
  <2> SUFFICES ASSUME NEW n \in 1..N
               PROVE (Replayed(file[n]) <=> n > k) /\ file[n].op = logged[n]
    OBVIOUS
  <2>1. file[n] = [seq |-> n, op |-> logged[n]] /\ n \in Nat /\ n # 0
    BY <1>1, <1>2 DEF Line
  <2>2. file[n].seq = n /\ file[n].op = logged[n]
    BY <2>1
  <2>3. file[n] # Corrupt
    BY <2>1, <2>2 DEF Corrupt, Line
  <2> QED  BY <1>1, <2>2, <2>3 DEF Replayed
<1>4. /\ ReplayOf[0] = <<>>
      /\ \A n \in 1..N : ReplayOf[n] = IF n > k THEN Append(ReplayOf[n - 1], logged[n]) ELSE ReplayOf[n - 1]
  BY <1>3, ReplayRecursion DEF TypeInv
<1> HIDE DEF k, N
<1> DEFINE Rest(n) == SubSeq(logged, k + 1, n)
           K == {n \in Nat : n <= N => ReplayOf[n] = Rest(n)}
<1>5. 0 \in K
  <2>1. Rest(0) = <<>>
    BY <1>1, SubSeqEmpty
  <2> QED  BY <1>4, <2>1
<1>6. ASSUME NEW m \in K PROVE m + 1 \in K
  <2> SUFFICES ASSUME m + 1 <= N PROVE ReplayOf[m + 1] = Rest(m + 1)
    OBVIOUS
  <2>1. PICK n \in 1..N : n = m + 1 /\ n - 1 = m
    BY <1>1
  <2>2. ReplayOf[n - 1] = Rest(n - 1) /\ n - 1 \in Nat
    BY <1>1, <1>6, <2>1
  <2>3. CASE n <= k
    <3>1. n < k + 1 /\ n - 1 < k + 1 /\ n \in Int /\ n - 1 \in Int /\ k + 1 \in Int /\ ~(n > k)
      BY <1>1, <2>3
    <3>2. Rest(n) = <<>> /\ Rest(n - 1) = <<>>
      BY <3>1, SubSeqEmpty
    <3> QED  BY <1>4, <2>1, <2>2, <3>1, <3>2
  <2>4. CASE n > k
    <3>1. k + 1 \in 1..Len(logged) /\ n \in k + 1..Len(logged)
      BY <1>1, <2>1, <2>4
    <3>2. Rest(n) = Rest(n - 1) \o <<logged[n]>>
      BY <1>1, <3>1, SubSeqRecursiveSecond
    <3>3. Rest(n - 1) \in Seq(Ops)
      BY <1>1, <1>2, <2>2, SubSeqProperties
    <3>4. Rest(n) = Append(Rest(n - 1), logged[n])
      BY <1>2, <3>2, <3>3, AppendIsConcat
    <3> QED  BY <1>4, <2>1, <2>2, <2>4, <3>4
  <2> QED  BY <1>1, <2>1, <2>3, <2>4
<1>7. K = Nat
  <2> HIDE DEF K
  <2>1. K \in SUBSET Nat
    BY DEF K
  <2> QED  BY <1>5, <1>6, <2>1, NatSetInduction
<1>8. ReplayOf[N] = Rest(N)
  BY <1>1, <1>7
<1> QED  BY <1>1, <1>8 DEF Replay, k, N

-------------------------------------------------------------------------------
(* The steps.                                                               *)

\* What a snapshot is that has nothing in it.
LEMMA EmptyFiles ==
    /\ Missing \in Files /\ Unreadable \in Files
    /\ Missing.lastSeq = 0 /\ Missing.book = <<>>
    /\ Unreadable.lastSeq = 0 /\ Unreadable.book = <<>>
BY DEF Files, Missing, Unreadable

\* A snapshot of a number and a book is one.
LEMMA SnapshotIs ==
    ASSUME NEW n \in Nat, NEW b \in Seq(Ops)
    PROVE  Snapshot(n, b) \in Files /\ Snapshot(n, b).lastSeq = n /\ Snapshot(n, b).book = b
BY DEF Files, Snapshot

\* CopyBook completes what ReadSeq began.
LEMMA CompletedCopy ==
    ASSUME NEW c \in Files, NEW b \in Seq(Ops), c.state = "readable"
    PROVE  /\ [c EXCEPT !.book = b] = Snapshot(c.lastSeq, b)
           /\ [c EXCEPT !.book = b] \in Files
<1>1. PICK n \in Nat, d \in Seq(Ops) : c = Snapshot(n, d)
  BY DEF Files, Missing, Unreadable, Snapshot
<1>2. [c EXCEPT !.book = b] = Snapshot(n, b) /\ c.lastSeq = n
  BY <1>1 DEF Snapshot
<1> QED  BY <1>2, SnapshotIs

\* The types hold at first.
LEMMA TypeInit == Init => TypeInv
<1>1. <<>> \in Seq(Ops) /\ <<>> \in Seq(Records)
  BY EmptySeq
<1> SUFFICES ASSUME Init PROVE TypeInv
  OBVIOUS
<1>2. /\ spc \in [Savers -> Steps] /\ copy \in [Savers -> Files]
      /\ handle \in [Savers -> {"none", "tmp", "snap"}]
      /\ \A s \in Savers : spc[s] = "idle"
  BY EmptyFiles DEF Init, Steps
<1>3. file \in Seq(Records) /\ book \in Seq(Ops) /\ logged \in Seq(Ops) /\ snap \in Files /\ tmp \in Files
  BY <1>1, EmptyFiles DEF Init
<1> QED  BY <1>2, <1>3 DEF Init, TypeInv

\* A record is a line of the file.
LEMMA RecordIs ==
    ASSUME NEW n \in Nat, NEW o \in Ops
    PROVE  Line(n, o) \in Records
BY DEF Records

\* Every step keeps the types.
LEMMA TypeStep ==
    ASSUME TypeInv, InProgress, [Next]_vars
    PROVE  TypeInv'
<1> USE DEF TypeInv
<1>1. ASSUME NEW o \in Ops, AppendRecord(o) PROVE TypeInv'
  <2>1. AppendedLine(seq + 1, o) \in Records
    <3>1. Line(seq + 1, o) \in Records
      BY RecordIs
    <3>2. Corrupt \in Records
      BY DEF Records
    <3> QED  BY <3>1, <3>2 DEF AppendedLine
  <2>2. /\ Append(file, AppendedLine(seq + 1, o)) \in Seq(Records)
        /\ Append(logged, o) \in Seq(Ops)
    BY <2>1, AppendProperties
  <2>3. seq + 1 \in Nat /\ o \in Ops \cup {NoOp}
    OBVIOUS
  <2> QED  BY <1>1, <2>2, <2>3 DEF AppendRecord, saverVars, fileVars
<1>2. ASSUME NEW o \in Ops, AppendFails(o) PROVE TypeInv'
  BY <1>2 DEF AppendFails, logVars, engine, saverVars, fileVars, GoDown, SaverAt, Steps
<1>3. CASE Apply
  <2>1. cur # NoOp => Append(book, cur) \in Seq(Ops)
    BY AppendProperties
  <2>2. cur # NoOp
    BY <1>3 DEF Apply, InProgress
  <2> QED  BY <1>3, <2>1, <2>2 DEF Apply, logVars, saverVars, fileVars
<1>4. CASE Stop
  <2>1. Len(file) \in Nat
    BY LenProperties
  <2> QED  BY <1>4, <2>1 DEF Stop, engine, saverVars, fileVars
<1>5. ASSUME NEW s \in Savers, ReadSeq(s) PROVE TypeInv'
  <2>1. Snapshot(seq, <<>>) \in Files /\ Snapshot(seq, <<>>).state = "readable"
    BY SnapshotIs, EmptySeq DEF Snapshot
  <2> QED  BY <1>5, <2>1 DEF ReadSeq, logVars, engine, fileVars, SaverAt, Steps
<1>6. ASSUME NEW s \in Savers, CopyBook(s) PROVE TypeInv'
  <2>1. copy[s].state = "readable" /\ copy[s] \in Files
    BY <1>6 DEF CopyBook, SaverAt
  <2>2. [copy[s] EXCEPT !.book = book] \in Files
    BY <2>1, CompletedCopy
  <2> QED  BY <1>6, <2>2 DEF CopyBook, logVars, engine, fileVars, SaverAt, Steps
<1>7. ASSUME NEW s \in Savers, OpenTmp(s) PROVE TypeInv'
  BY <1>7, EmptyFiles DEF OpenTmp, logVars, engine, SaverAt, Steps
<1>8. ASSUME NEW s \in Savers, WriteTmp(s) PROVE TypeInv'
  <2>1. copy[s] \in Files
    OBVIOUS
  <2>2. tmp' \in Files /\ snap' \in Files
    BY <1>8, <2>1, EmptyFiles DEF WriteTmp, Overwrite
  <2> QED  BY <1>8, <2>2 DEF WriteTmp, logVars, engine, SaverAt, Steps
<1>9. ASSUME NEW s \in Savers, Rename(s) PROVE TypeInv'
  BY <1>9, EmptyFiles DEF Rename, fileVars, logVars, engine, SaverAt, Steps
<1>10. CASE Crash
  <2>8. /\ spc' \in [Savers -> Steps] /\ copy' \in [Savers -> Files]
        /\ handle' \in [Savers -> {"none", "tmp", "snap"}]
        /\ \A s \in Savers : spc'[s] = "idle"
    BY <1>10, EmptyFiles DEF Crash, GoDown, Steps
  <2>9. book' \in Seq(Ops)
    BY <1>10, EmptySeq DEF Crash, GoDown
  <2>10. /\ pc' = "down" /\ cur' = NoOp /\ seq' = 0 /\ open' = FALSE /\ crashes' = crashes + 1
         /\ logged' = logged /\ snap' = snap /\ tmp' = tmp
    BY <1>10 DEF Crash, GoDown, fileVars
  <2>11. UNCHANGED <<file, torn, synced, faults>>
    BY <1>10 DEF Crash
  <2>12. /\ seq' \in Nat /\ crashes' \in Nat /\ cur' \in Ops \cup {NoOp}
         /\ pc' \in {"down", "idle", "journaled"}
    BY <2>10
  <2>16. open' \in BOOLEAN
    BY <2>10, Zenon
  <2>13. /\ synced' \in Nat /\ torn' \in BOOLEAN /\ file' \in Seq(Records)
         /\ faults' \in SUBSET {"late", "raced", "power"}
    BY <2>11
  <2>14. logged' \in Seq(Ops) /\ snap' \in Files /\ tmp' \in Files
    BY <2>10
  <2>15. \A s \in Savers : spc'[s] = "copy" => copy'[s].state = "readable"
    BY <2>8
  <2> QED  BY <2>8, <2>9, <2>12, <2>13, <2>14, <2>15, <2>16
<1>11. CASE PowerLoss
  <2>1. PICK n \in synced..Len(file) : n < Len(file) /\ file' = SubSeq(file, 1, n) /\ torn' \in BOOLEAN
    BY <1>11 DEF PowerLoss
  <2>2. Len(file) \in Nat /\ \A i \in 1..Len(file) : file[i] \in Records
    BY LenProperties, ElementOfSeq
  <2>3. n \in Nat /\ \A i \in 1..n : file[i] \in Records
    BY <2>2
  <2>4. file' \in Seq(Records)
    BY <2>1, <2>3, SubSeqProperties
  <2>8. /\ spc' \in [Savers -> Steps] /\ copy' \in [Savers -> Files]
        /\ handle' \in [Savers -> {"none", "tmp", "snap"}]
        /\ \A s \in Savers : spc'[s] = "idle"
    BY <1>11, EmptyFiles DEF PowerLoss, GoDown, Steps
  <2>9. book' \in Seq(Ops)
    BY <1>11, EmptySeq DEF PowerLoss, GoDown
  <2>10. /\ pc' = "down" /\ cur' = NoOp /\ seq' = 0 /\ open' = FALSE /\ crashes' = crashes + 1
         /\ logged' = logged /\ snap' = snap /\ tmp' = tmp
    BY <1>11 DEF PowerLoss, GoDown, fileVars
  <2>11. torn' \in BOOLEAN /\ synced' = synced /\ faults' = faults \cup {"power"}
    BY <1>11, <2>1 DEF PowerLoss
  <2>12. /\ seq' \in Nat /\ crashes' \in Nat /\ cur' \in Ops \cup {NoOp}
         /\ pc' \in {"down", "idle", "journaled"}
    BY <2>10
  <2>16. open' \in BOOLEAN
    BY <2>10, Zenon
  <2>13. /\ synced' \in Nat /\ torn' \in BOOLEAN /\ file' \in Seq(Records)
         /\ faults' \in SUBSET {"late", "raced", "power"}
    BY <2>4, <2>11
  <2>14. logged' \in Seq(Ops) /\ snap' \in Files /\ tmp' \in Files
    BY <2>10
  <2>15. \A s \in Savers : spc'[s] = "copy" => copy'[s].state = "readable"
    BY <2>8
  <2> QED  BY <2>8, <2>9, <2>12, <2>13, <2>14, <2>15, <2>16
<1>12. CASE Recover
  <2>1. Replay \in Seq(Ops) /\ Restored \in Seq(Ops)
    BY ReplayTyped, FilesAre, EmptySeq DEF Restored
  <2>2. Restored \o Replay \in Seq(Ops)
    BY <2>1, ConcatProperties
  <2>3. CountRecords \in Nat
    <3>1. Len(file) \in Nat /\ DOMAIN file = 1..Len(file)
      BY LenProperties
    <3>2. IsFiniteSet(1..Len(file)) /\ {i \in DOMAIN file : file[i] # Corrupt} \subseteq 1..Len(file)
      BY <3>1, FS_Interval
    <3>3. IsFiniteSet({i \in DOMAIN file : file[i] # Corrupt})
      BY <3>2, FS_Subset
    <3> QED  BY <3>3, FS_CardinalityType DEF CountRecords
  <2> QED  BY <1>12, <2>2, <2>3 DEF Recover, NewWALWriter, saverVars, fileVars
<1>13. CASE UNCHANGED vars
  BY <1>13 DEF vars, logVars, engine, saverVars, fileVars
<1> QED
  BY <1>1, <1>2, <1>3, <1>4, <1>5, <1>6, <1>7, <1>8, <1>9, <1>10, <1>11, <1>12, <1>13 DEF Next, Save

\* A record is in progress from AppendRecord to Apply, and a process that is
\* down has no savers.
LEMMA ProgressStep ==
    ASSUME TypeInv, InProgress, NoSavers, [Next]_vars
    PROVE  InProgress' /\ NoSavers'
<1> USE RecoveryAssumption DEF TypeInv, InProgress, NoSavers
<1>1. ASSUME NEW o \in Ops, AppendRecord(o) PROVE InProgress' /\ NoSavers'
  BY <1>1 DEF AppendRecord, logVars, engine, saverVars, fileVars, vars, GoDown, SaverAt, NewWALWriter, Steps
<1>2. ASSUME NEW o \in Ops, AppendFails(o) PROVE InProgress' /\ NoSavers'
  BY <1>2 DEF AppendFails, logVars, engine, saverVars, fileVars, vars, GoDown, SaverAt, NewWALWriter, Steps
<1>3. CASE Apply
  BY <1>3 DEF Apply, logVars, engine, saverVars, fileVars, vars, GoDown, SaverAt, NewWALWriter, Steps
<1>4. CASE Stop
  BY <1>4 DEF Stop, logVars, engine, saverVars, fileVars, vars, GoDown, SaverAt, NewWALWriter, Steps
<1>5. ASSUME NEW s \in Savers, ReadSeq(s) PROVE InProgress' /\ NoSavers'
  BY <1>5 DEF ReadSeq, logVars, engine, saverVars, fileVars, vars, GoDown, SaverAt, NewWALWriter, Steps
<1>6. ASSUME NEW s \in Savers, CopyBook(s) PROVE InProgress' /\ NoSavers'
  BY <1>6 DEF CopyBook, logVars, engine, saverVars, fileVars, vars, GoDown, SaverAt, NewWALWriter, Steps
<1>7. ASSUME NEW s \in Savers, OpenTmp(s) PROVE InProgress' /\ NoSavers'
  BY <1>7 DEF OpenTmp, logVars, engine, saverVars, fileVars, vars, GoDown, SaverAt, NewWALWriter, Steps
<1>8. ASSUME NEW s \in Savers, WriteTmp(s) PROVE InProgress' /\ NoSavers'
  BY <1>8 DEF WriteTmp, logVars, engine, saverVars, fileVars, vars, GoDown, SaverAt, NewWALWriter, Steps
<1>9. ASSUME NEW s \in Savers, Rename(s) PROVE InProgress' /\ NoSavers'
  BY <1>9 DEF Rename, logVars, engine, saverVars, fileVars, vars, GoDown, SaverAt, NewWALWriter, Steps
<1>10. CASE Crash
  BY <1>10 DEF Crash, logVars, engine, saverVars, fileVars, vars, GoDown, SaverAt, NewWALWriter, Steps
<1>11. CASE PowerLoss
  BY <1>11 DEF PowerLoss, logVars, engine, saverVars, fileVars, vars, GoDown, SaverAt, NewWALWriter, Steps
<1>12. CASE Recover
  BY <1>12 DEF Recover, logVars, engine, saverVars, fileVars, vars, GoDown, SaverAt, NewWALWriter, Steps
<1>13. CASE UNCHANGED vars
  BY <1>13 DEF vars, logVars, engine, saverVars, fileVars, vars, GoDown, SaverAt, NewWALWriter, Steps
<1> QED
  BY <1>1, <1>2, <1>3, <1>4, <1>5, <1>6, <1>7, <1>8, <1>9, <1>10, <1>11, <1>12, <1>13 DEF Next, Save

-------------------------------------------------------------------------------
(* The log.                                                                 *)

\* A log that is kept after a step was kept before it.
LEMMA FaultsStay ==
    ASSUME [Next]_vars
    PROVE  faults \subseteq faults'
<1>1. ASSUME NEW o \in Ops, AppendRecord(o) PROVE faults \subseteq faults'
  BY <1>1 DEF AppendRecord, logVars, engine, saverVars, fileVars, vars, GoDown
<1>2. ASSUME NEW o \in Ops, AppendFails(o) PROVE faults \subseteq faults'
  BY <1>2 DEF AppendFails, logVars, engine, saverVars, fileVars, vars, GoDown
<1>3. CASE Apply
  BY <1>3 DEF Apply, logVars, engine, saverVars, fileVars, vars, GoDown
<1>4. CASE Stop
  BY <1>4 DEF Stop, logVars, engine, saverVars, fileVars, vars, GoDown
<1>5. ASSUME NEW s \in Savers, ReadSeq(s) PROVE faults \subseteq faults'
  BY <1>5 DEF ReadSeq, logVars, engine, saverVars, fileVars, vars, GoDown
<1>6. ASSUME NEW s \in Savers, CopyBook(s) PROVE faults \subseteq faults'
  BY <1>6 DEF CopyBook, logVars, engine, saverVars, fileVars, vars, GoDown
<1>7. ASSUME NEW s \in Savers, OpenTmp(s) PROVE faults \subseteq faults'
  BY <1>7 DEF OpenTmp, logVars, engine, saverVars, fileVars, vars, GoDown
<1>8. ASSUME NEW s \in Savers, WriteTmp(s) PROVE faults \subseteq faults'
  BY <1>8 DEF WriteTmp, logVars, engine, saverVars, fileVars, vars, GoDown
<1>9. ASSUME NEW s \in Savers, Rename(s) PROVE faults \subseteq faults'
  BY <1>9 DEF Rename, logVars, engine, saverVars, fileVars, vars, GoDown
<1>10. CASE Crash
  BY <1>10 DEF Crash, logVars, engine, saverVars, fileVars, vars, GoDown
<1>11. CASE PowerLoss
  BY <1>11 DEF PowerLoss, logVars, engine, saverVars, fileVars, vars, GoDown
<1>12. CASE Recover
  BY <1>12 DEF Recover, logVars, engine, saverVars, fileVars, vars, GoDown
<1>13. CASE UNCHANGED vars
  BY <1>13 DEF vars, logVars, engine, saverVars, fileVars, vars, GoDown
<1> QED
  BY <1>1, <1>2, <1>3, <1>4, <1>5, <1>6, <1>7, <1>8, <1>9, <1>10, <1>11, <1>12, <1>13 DEF Next, Save

\* The log stays complete.
LEMMA LogStep ==
    ASSUME TypeInv, LogComplete, [Next]_vars
    PROVE  LogComplete'
<1> SUFFICES ASSUME LogKept' PROVE LogComplete'
  BY DEF LogComplete
<1>0. /\ LogKept /\ ~torn /\ Len(file) = Len(logged)
      /\ \A i \in 1..Len(logged) : file[i] = Line(i, logged[i])
      /\ pc # "down" => seq = Len(logged)
      /\ Len(logged) \in Nat
  BY FaultsStay, LenProperties DEF LogKept, LogComplete, TypeInv
<1>1. ASSUME NEW o \in Ops, AppendRecord(o) PROVE LogComplete'
  <2>1. file' = Append(file, Line(seq + 1, o)) /\ logged' = Append(logged, o) /\ seq' = seq + 1 /\ torn' = FALSE
    BY <1>1, <1>0 DEF AppendRecord, AppendedLine
  <2>2. seq = Len(logged) /\ pc' # "down"
    BY <1>1, <1>0 DEF AppendRecord
  <2>3. Line(seq + 1, o) \in Records /\ file \in Seq(Records) /\ logged \in Seq(Ops)
    BY RecordIs DEF TypeInv
  <2>4. /\ Len(file') = Len(file) + 1 /\ Len(logged') = Len(logged) + 1
        /\ \A i \in 1..Len(file) : file'[i] = file[i]
        /\ \A i \in 1..Len(logged) : logged'[i] = logged[i]
        /\ file'[Len(file) + 1] = Line(seq + 1, o) /\ logged'[Len(logged) + 1] = o
    BY <2>1, <2>3, AppendProperties
  <2>5. ASSUME NEW i \in 1..Len(logged') PROVE file'[i] = Line(i, logged'[i])
    <3>1. CASE i \in 1..Len(logged)
      BY <1>0, <2>4, <3>1
    <3>2. CASE i = Len(logged) + 1
      BY <1>0, <2>2, <2>4, <3>2
    <3> QED  BY <1>0, <2>4, <3>1, <3>2
  <2> QED  BY <1>0, <2>1, <2>2, <2>4, <2>5 DEF LogComplete
<1>2. ASSUME NEW o \in Ops, AppendFails(o) PROVE LogComplete'
  BY <1>2 DEF AppendFails, LogKept
<1>3. CASE Apply
  BY <1>3, <1>0 DEF Apply, logVars, engine, saverVars, fileVars, vars, SaverAt, LogComplete
<1>4. CASE Stop
  BY <1>4, <1>0 DEF Stop, logVars, engine, saverVars, fileVars, vars, SaverAt, LogComplete
<1>5. ASSUME NEW s \in Savers, ReadSeq(s) PROVE LogComplete'
  BY <1>5, <1>0 DEF ReadSeq, logVars, engine, saverVars, fileVars, vars, SaverAt, LogComplete
<1>6. ASSUME NEW s \in Savers, CopyBook(s) PROVE LogComplete'
  BY <1>6, <1>0 DEF CopyBook, logVars, engine, saverVars, fileVars, vars, SaverAt, LogComplete
<1>7. ASSUME NEW s \in Savers, OpenTmp(s) PROVE LogComplete'
  BY <1>7, <1>0 DEF OpenTmp, logVars, engine, saverVars, fileVars, vars, SaverAt, LogComplete
<1>8. ASSUME NEW s \in Savers, WriteTmp(s) PROVE LogComplete'
  BY <1>8, <1>0 DEF WriteTmp, logVars, engine, saverVars, fileVars, vars, SaverAt, LogComplete
<1>9. ASSUME NEW s \in Savers, Rename(s) PROVE LogComplete'
  BY <1>9, <1>0 DEF Rename, logVars, engine, saverVars, fileVars, vars, SaverAt, LogComplete
<1>10. CASE Crash
  BY <1>10, <1>0 DEF Crash, GoDown, fileVars, LogComplete
<1>11. CASE PowerLoss
  BY <1>11 DEF PowerLoss, LogKept
<1>12. CASE Recover
  <2>1. \A i \in DOMAIN file : file[i] # Corrupt
    <3>1. DOMAIN file = 1..Len(logged)
      BY <1>0, LenProperties DEF TypeInv
    <3>2. ASSUME NEW i \in 1..Len(logged) PROVE file[i] # Corrupt
      <4>1. file[i] = [seq |-> i, op |-> logged[i]] /\ i # 0
        BY <1>0 DEF Line
      <4> QED  BY <4>1 DEF Corrupt, Line
    <3> QED  BY <3>1, <3>2
  <2>2. CountRecords = Len(logged)
    <3>1. {i \in DOMAIN file : file[i] # Corrupt} = 1..Len(logged)
      BY <1>0, <2>1, LenProperties DEF TypeInv
    <3>2. Cardinality(1..Len(logged)) = Len(logged)
      <4>1. Cardinality(1..Len(logged)) = IF 1 > Len(logged) THEN 0 ELSE Len(logged) - 1 + 1
        <5>1. Len(logged) \in Int /\ 1 \in Int
          BY <1>0
        <5> QED  BY <5>1, FS_Interval
      <4> QED  BY <1>0, <4>1
    <3> QED  BY <3>1, <3>2 DEF CountRecords
  <2> QED  BY <1>12, <1>0, <2>2 DEF Recover, NewWALWriter, LogComplete
<1>13. CASE UNCHANGED vars
  BY <1>13, <1>0 DEF vars, logVars, engine, saverVars, fileVars, vars, SaverAt, LogComplete
<1> QED
  BY <1>1, <1>2, <1>3, <1>4, <1>5, <1>6, <1>7, <1>8, <1>9, <1>10, <1>11, <1>12, <1>13 DEF Next, Save

-------------------------------------------------------------------------------
(* The snapshots.                                                           *)

\* The snapshots that are kept are snapshots.
LEMMA KeptAreFiles == TypeInv => Kept \subseteq Files
BY DEF TypeInv, Kept

\* What a step does to the snapshots that are kept: CopyBook adds one, every
\* other step moves them about, or ruins or removes some.
KeptChange ==
    \/ Kept' \subseteq Kept \cup {Missing, Unreadable}
    \/ \E s \in Savers : CopyBook(s) /\ Kept' \subseteq Kept \cup {[copy[s] EXCEPT !.book = book]}

\* Every step is of that kind: OpenTmp, WriteTmp, Rename and the failures only move
\* snapshots about.
LEMMA KeptStep ==
    ASSUME TypeInv, [Next]_vars
    PROVE  KeptChange
<1> USE DEF TypeInv, Holds
<1>1. ASSUME NEW o \in Ops, AppendRecord(o) PROVE KeptChange
  <2>1. UNCHANGED <<snap, tmp, spc, copy>>
    BY <1>1 DEF AppendRecord, logVars, engine, saverVars, fileVars, vars
  <2> QED  BY <2>1 DEF Kept, KeptChange
<1>2. ASSUME NEW o \in Ops, AppendFails(o) PROVE KeptChange
  <2>1. UNCHANGED <<snap, tmp, spc, copy>>
    BY <1>2 DEF AppendFails, logVars, engine, saverVars, fileVars, vars
  <2> QED  BY <2>1 DEF Kept, KeptChange
<1>3. CASE Apply
  <2>1. UNCHANGED <<snap, tmp, spc, copy>>
    BY <1>3 DEF Apply, logVars, engine, saverVars, fileVars, vars
  <2> QED  BY <2>1 DEF Kept, KeptChange
<1>4. CASE Stop
  <2>1. UNCHANGED <<snap, tmp, spc, copy>>
    BY <1>4 DEF Stop, logVars, engine, saverVars, fileVars, vars
  <2> QED  BY <2>1 DEF Kept, KeptChange
<1>5. ASSUME NEW s \in Savers, ReadSeq(s) PROVE KeptChange
  <2>1. copy' = [copy EXCEPT ![s] = Snapshot(seq, <<>>)] /\ spc' = [spc EXCEPT ![s] = "copy"] /\ snap' = snap /\ tmp' = tmp
    BY <1>5 DEF ReadSeq, fileVars
  <2>2. ASSUME NEW x \in Savers, Holds(x)' PROVE copy'[x] \in Kept
    BY <2>1, <2>2 DEF Kept
  <2> QED  BY <2>1, <2>2 DEF Kept, KeptChange
<1>6. ASSUME NEW s \in Savers, CopyBook(s) PROVE KeptChange
  <2> DEFINE c == [copy[s] EXCEPT !.book = book]
  <2>1. /\ copy' = [copy EXCEPT ![s] = c] /\ spc' = [spc EXCEPT ![s] = "open"]
        /\ snap' = snap /\ tmp' = tmp
    BY <1>6 DEF CopyBook, fileVars
  <2> HIDE DEF c
  <2>2. Kept' \subseteq Kept \cup {c}
    <3> SUFFICES ASSUME NEW x \in Savers, Holds(x)' PROVE copy'[x] \in Kept \cup {c}
      BY <2>1 DEF Kept
    <3>1. CASE x = s
      BY <2>1, <3>1
    <3>2. CASE x # s
      BY <2>1, <3>2 DEF Kept
    <3> QED  BY <3>1, <3>2
  <2> QED  BY <1>6, <2>2 DEF KeptChange, c
<1>7. ASSUME NEW s \in Savers, OpenTmp(s) PROVE KeptChange
  <2>1. copy' = copy /\ spc' = [spc EXCEPT ![s] = "write"] /\ spc[s] = "open" /\ snap' = snap /\ tmp' = Unreadable
    BY <1>7 DEF OpenTmp, SaverAt
  <2>2. ASSUME NEW x \in Savers, Holds(x)' PROVE copy'[x] \in Kept
    BY <2>1, <2>2 DEF Kept
  <2> QED  BY <2>1, <2>2 DEF Kept, KeptChange
<1>8. ASSUME NEW s \in Savers, WriteTmp(s) PROVE KeptChange
  <2>1. copy' = copy /\ spc' = [spc EXCEPT ![s] = "rename"] /\ spc[s] = "write"
    BY <1>8 DEF WriteTmp, SaverAt
  <2>2. copy[s] \in Kept
    BY <2>1 DEF Kept
  <2>3. tmp' \in {tmp, copy[s], Unreadable} /\ snap' \in {snap, copy[s], Unreadable}
    BY <1>8 DEF WriteTmp, Overwrite
  <2>4. ASSUME NEW x \in Savers, Holds(x)' PROVE copy'[x] \in Kept
    BY <2>1, <2>4 DEF Kept
  <2> QED  BY <2>1, <2>2, <2>3, <2>4 DEF Kept, KeptChange
<1>9. ASSUME NEW s \in Savers, Rename(s) PROVE KeptChange
  <2>1. copy' = copy /\ spc' = [spc EXCEPT ![s] = "idle"]
    BY <1>9 DEF Rename
  <2>2. tmp' \in {tmp, Missing} /\ snap' \in {snap, tmp}
    BY <1>9 DEF Rename, fileVars
  <2>3. ASSUME NEW x \in Savers, Holds(x)' PROVE copy'[x] \in Kept
    BY <2>1, <2>3 DEF Kept
  <2> QED  BY <2>1, <2>2, <2>3 DEF Kept, KeptChange
<1>10. CASE Crash
  <2>1. snap' = snap /\ tmp' = tmp /\ \A x \in Savers : ~Holds(x)'
    BY <1>10 DEF Crash, GoDown, fileVars
  <2> QED  BY <2>1 DEF Kept, KeptChange
<1>11. CASE PowerLoss
  <2>1. snap' = snap /\ tmp' = tmp /\ \A x \in Savers : ~Holds(x)'
    BY <1>11 DEF PowerLoss, GoDown, fileVars
  <2> QED  BY <2>1 DEF Kept, KeptChange
<1>12. CASE Recover
  <2>1. UNCHANGED <<snap, tmp, spc, copy>>
    BY <1>12 DEF Recover, logVars, engine, saverVars, fileVars, vars
  <2> QED  BY <2>1 DEF Kept, KeptChange
<1>13. CASE UNCHANGED vars
  <2>1. UNCHANGED <<snap, tmp, spc, copy>>
    BY <1>13 DEF vars, logVars, engine, saverVars, fileVars, vars
  <2> QED  BY <2>1 DEF Kept, KeptChange
<1> QED
  BY <1>1, <1>2, <1>3, <1>4, <1>5, <1>6, <1>7, <1>8, <1>9, <1>10, <1>11, <1>12, <1>13 DEF Next, Save

\* What a step does to the log's history.
LEMMA LoggedStep ==
    ASSUME [Next]_vars
    PROVE  logged' = logged \/ \E o \in Ops : logged' = Append(logged, o)
<1>1. ASSUME NEW oo \in Ops, AppendRecord(oo) PROVE logged' = logged \/ \E o \in Ops : logged' = Append(logged, o)
  BY <1>1 DEF AppendRecord, logVars, engine, saverVars, fileVars, vars, GoDown
<1>2. ASSUME NEW oo \in Ops, AppendFails(oo) PROVE logged' = logged \/ \E o \in Ops : logged' = Append(logged, o)
  BY <1>2 DEF AppendFails, logVars, engine, saverVars, fileVars, vars, GoDown
<1>3. CASE Apply
  BY <1>3 DEF Apply, logVars, engine, saverVars, fileVars, vars, GoDown
<1>4. CASE Stop
  BY <1>4 DEF Stop, logVars, engine, saverVars, fileVars, vars, GoDown
<1>5. ASSUME NEW s \in Savers, ReadSeq(s) PROVE logged' = logged \/ \E o \in Ops : logged' = Append(logged, o)
  BY <1>5 DEF ReadSeq, logVars, engine, saverVars, fileVars, vars, GoDown
<1>6. ASSUME NEW s \in Savers, CopyBook(s) PROVE logged' = logged \/ \E o \in Ops : logged' = Append(logged, o)
  BY <1>6 DEF CopyBook, logVars, engine, saverVars, fileVars, vars, GoDown
<1>7. ASSUME NEW s \in Savers, OpenTmp(s) PROVE logged' = logged \/ \E o \in Ops : logged' = Append(logged, o)
  BY <1>7 DEF OpenTmp, logVars, engine, saverVars, fileVars, vars, GoDown
<1>8. ASSUME NEW s \in Savers, WriteTmp(s) PROVE logged' = logged \/ \E o \in Ops : logged' = Append(logged, o)
  BY <1>8 DEF WriteTmp, logVars, engine, saverVars, fileVars, vars, GoDown
<1>9. ASSUME NEW s \in Savers, Rename(s) PROVE logged' = logged \/ \E o \in Ops : logged' = Append(logged, o)
  BY <1>9 DEF Rename, logVars, engine, saverVars, fileVars, vars, GoDown
<1>10. CASE Crash
  BY <1>10 DEF Crash, logVars, engine, saverVars, fileVars, vars, GoDown
<1>11. CASE PowerLoss
  BY <1>11 DEF PowerLoss, logVars, engine, saverVars, fileVars, vars, GoDown
<1>12. CASE Recover
  BY <1>12 DEF Recover, logVars, engine, saverVars, fileVars, vars, GoDown
<1>13. CASE UNCHANGED vars
  BY <1>13 DEF vars, logVars, engine, saverVars, fileVars, vars, GoDown
<1> QED
  BY <1>1, <1>2, <1>3, <1>4, <1>5, <1>6, <1>7, <1>8, <1>9, <1>10, <1>11, <1>12, <1>13 DEF Next, Save

\* What a snapshot claims, holds and lacks is the same in a longer log.
LEMMA Grows ==
    ASSUME TypeInv, NEW c \in Files, Claims(c), [Next]_vars
    PROVE  Claims(c)' /\ Reflects(c)' = Reflects(c) /\ Lost(c)' = Lost(c)
<1>1. c.lastSeq \in Nat /\ logged \in Seq(Ops) /\ Len(logged) \in Nat
  BY FilesAre, LenProperties DEF TypeInv
<1>2. CASE logged' = logged
  BY <1>2 DEF Claims, Reflects, Lost
<1>3. ASSUME NEW o \in Ops, logged' = Append(logged, o)
      PROVE  Claims(c)' /\ Reflects(c)' = Reflects(c) /\ Lost(c)' = Lost(c)
  <2>1. SubSeq(logged', 1, c.lastSeq) = SubSeq(logged, 1, c.lastSeq)
    BY <1>1, <1>3, PrefixOfAppend DEF Claims
  <2>2. Len(logged') = Len(logged) + 1
    BY <1>1, <1>3, AppendProperties
  <2>3. Claims(c)' /\ (c.lastSeq <= Len(logged))' /\ c.lastSeq <= Len(logged)
    BY <1>1, <2>2 DEF Claims
  <2> QED  BY <2>1, <2>3 DEF Reflects, Lost
<1> QED  BY <1>2, <1>3, LoggedStep

\* An empty snapshot claims nothing, and lacks nothing.
LEMMA EmptyIsGood ==
    ASSUME TypeInv, NEW c \in {Missing, Unreadable}
    PROVE  Claims(c) /\ Reflects(c) /\ Few(Lost(c))
<1>1. c.lastSeq = 0 /\ c.book = <<>> /\ Len(logged) \in Nat
  BY EmptyFiles, LenProperties DEF TypeInv
<1>2. SubSeq(logged, 1, c.lastSeq) = <<>>
  BY <1>1, SubSeqEmpty
<1>3. Lost(c) = {}
  BY <1>1, <1>2 DEF Lost
<1>4. Cardinality({}) = 0
  BY FS_EmptySet
<1> QED  BY <1>1, <1>2, <1>3, <1>4 DEF Claims, Reflects, Few, Bound, TypeInv

\* A file that is missing or unreadable meets all that is asked of a snapshot.
EmptyGood == \A c \in {Missing, Unreadable} : Claims(c) /\ Reflects(c) /\ Few(Lost(c))

\* They are good in this state.
LEMMA EmptyAreGood == TypeInv => EmptyGood
BY EmptyIsGood DEF EmptyGood

\* They are good in the next.
LEMMA EmptyAreGoodNext == TypeInv' => EmptyGood'
BY EmptyAreGood, PTL

\* The snapshots claim what was journaled.
LEMMA ClaimsStep ==
    ASSUME TypeInv, LogComplete, ClaimsHold, TypeInv', [Next]_vars
    PROVE  ClaimsHold'
<1> SUFFICES ASSUME LogKept' PROVE ClaimsHold'
  BY DEF ClaimsHold
<1>1. LogKept
  BY FaultsStay DEF LogKept
<1>2. \A c \in Kept : c \in Files /\ Claims(c)'
  BY <1>1, Grows, KeptAreFiles DEF ClaimsHold
<1>3. \A c \in Kept' : Claims(c)'
  <2>1. CASE Kept' \subseteq Kept \cup {Missing, Unreadable}
    BY <1>2, <2>1, EmptyAreGoodNext DEF EmptyGood
  <2>2. ASSUME NEW s \in Savers, CopyBook(s), Kept' \subseteq Kept \cup {[copy[s] EXCEPT !.book = book]}
        PROVE  \A c \in Kept' : Claims(c)'
    <3>1. spc[s] = "copy" /\ copy[s] \in Files /\ copy[s].state = "readable" /\ book \in Seq(Ops)
      BY <2>2 DEF CopyBook, SaverAt, TypeInv
    <3>2. Claims(copy[s])
      BY <1>1, <3>1 DEF ClaimsHold
    <3>3. PICK c \in Files : c = [copy[s] EXCEPT !.book = book] /\ c.lastSeq = copy[s].lastSeq
      <4>1. copy[s].lastSeq \in Nat
        BY <3>1, FilesAre
      <4>2. /\ [copy[s] EXCEPT !.book = book] = Snapshot(copy[s].lastSeq, book)
            /\ [copy[s] EXCEPT !.book = book] \in Files
        BY <3>1, CompletedCopy
      <4>3. Snapshot(copy[s].lastSeq, book).lastSeq = copy[s].lastSeq
        BY <3>1, <4>1, SnapshotIs
      <4> QED  BY <4>2, <4>3
    <3>4. Claims(c)
      BY <3>2, <3>3 DEF Claims
    <3>5. Claims(c)'
      BY <3>4, Grows
    <3> QED  BY <1>2, <2>2, <3>3, <3>5
  <2> QED  BY <2>1, <2>2, KeptStep DEF KeptChange
<1>4. ASSUME NEW x \in Savers, spc'[x] = "copy" PROVE Claims(copy[x])'
  <2> DEFINE Known == spc[x] = "copy" /\ copy'[x] = copy[x]
             Read == copy'[x] = Snapshot(seq, <<>>) /\ pc # "down" /\ logged' = logged
  <2>1. Known \/ Read
    <3>1. ASSUME NEW o \in Ops, AppendRecord(o) PROVE Known \/ Read
      BY <3>1, <1>4 DEF AppendRecord, TypeInv, logVars, engine, saverVars, fileVars, vars, GoDown,
         SaverAt, NewWALWriter
    <3>2. ASSUME NEW o \in Ops, AppendFails(o) PROVE Known \/ Read
      BY <3>2, <1>4 DEF AppendFails, TypeInv, logVars, engine, saverVars, fileVars, vars, GoDown,
         SaverAt, NewWALWriter
    <3>3. CASE Apply
      BY <3>3, <1>4 DEF Apply, TypeInv, logVars, engine, saverVars, fileVars, vars, GoDown, SaverAt,
         NewWALWriter
    <3>4. CASE Stop
      BY <3>4, <1>4 DEF Stop, TypeInv, logVars, engine, saverVars, fileVars, vars, GoDown, SaverAt,
         NewWALWriter
    <3>5. ASSUME NEW s \in Savers, ReadSeq(s) PROVE Known \/ Read
      BY <3>5, <1>4 DEF ReadSeq, TypeInv, logVars, engine, saverVars, fileVars, vars, GoDown,
         SaverAt, NewWALWriter
    <3>6. ASSUME NEW s \in Savers, CopyBook(s) PROVE Known \/ Read
      BY <3>6, <1>4 DEF CopyBook, TypeInv, logVars, engine, saverVars, fileVars, vars, GoDown,
         SaverAt, NewWALWriter
    <3>7. ASSUME NEW s \in Savers, OpenTmp(s) PROVE Known \/ Read
      BY <3>7, <1>4 DEF OpenTmp, TypeInv, logVars, engine, saverVars, fileVars, vars, GoDown,
         SaverAt, NewWALWriter
    <3>8. ASSUME NEW s \in Savers, WriteTmp(s) PROVE Known \/ Read
      BY <3>8, <1>4 DEF WriteTmp, TypeInv, logVars, engine, saverVars, fileVars, vars, GoDown,
         SaverAt, NewWALWriter
    <3>9. ASSUME NEW s \in Savers, Rename(s) PROVE Known \/ Read
      BY <3>9, <1>4 DEF Rename, TypeInv, logVars, engine, saverVars, fileVars, vars, GoDown,
         SaverAt, NewWALWriter
    <3>10. CASE Crash
      BY <3>10, <1>4 DEF Crash, TypeInv, logVars, engine, saverVars, fileVars, vars, GoDown,
         SaverAt, NewWALWriter
    <3>11. CASE PowerLoss
      BY <3>11, <1>4 DEF PowerLoss, TypeInv, logVars, engine, saverVars, fileVars, vars, GoDown,
         SaverAt, NewWALWriter
    <3>12. CASE Recover
      BY <3>12, <1>4 DEF Recover, TypeInv, logVars, engine, saverVars, fileVars, vars, GoDown,
         SaverAt, NewWALWriter
    <3>13. CASE UNCHANGED vars
      BY <3>13, <1>4 DEF vars, TypeInv, logVars, engine, saverVars, fileVars, vars, GoDown, SaverAt,
         NewWALWriter
    <3> QED
      BY <3>1, <3>2, <3>3, <3>4, <3>5, <3>6, <3>7, <3>8, <3>9, <3>10, <3>11, <3>12, <3>13 DEF Next, Save
  <2>2. CASE Known
    <3>1. copy[x] \in Files /\ Claims(copy[x])
      BY <1>1, <2>2 DEF ClaimsHold, TypeInv
    <3>2. PICK c \in Files : c = copy[x]
      BY <3>1
    <3>3. Claims(c)'
      BY <3>1, <3>2, Grows
    <3> QED  BY <2>2, <3>2, <3>3 DEF Claims
  <2>3. CASE Read
    <3>1. seq = Len(logged) /\ seq \in Nat
      BY <1>1, <2>3 DEF LogComplete, TypeInv
    <3>2. copy'[x].lastSeq = seq
      <4>1. <<>> \in Seq(Ops)
        BY EmptySeq
      <4>2. Snapshot(seq, <<>>).lastSeq = seq
        BY <3>1, <4>1, SnapshotIs
      <4> QED  BY <2>3, <4>2
    <3> QED  BY <2>3, <3>1, <3>2 DEF Claims
  <2> QED  BY <2>1, <2>2, <2>3
<1> QED  BY <1>3, <1>4 DEF ClaimsHold

\* As long as nothing goes wrong the snapshots and the book are exact.
LEMMA ExactStep ==
    ASSUME TypeInv, InProgress, LogComplete, ClaimsHold, Exact, TypeInv', [Next]_vars
    PROVE  Exact'
<1> SUFFICES ASSUME faults' = {} PROVE Exact'
  BY DEF Exact
<1>1. faults = {} /\ LogKept
  BY FaultsStay DEF LogKept
<1>2. \A c \in Kept : c \in Files /\ Reflects(c)'
  BY <1>1, Grows, KeptAreFiles DEF ClaimsHold, Exact
<1>3. \A c \in Kept' : Reflects(c)'
  <2>1. CASE Kept' \subseteq Kept \cup {Missing, Unreadable}
    BY <1>2, <2>1, EmptyAreGoodNext DEF EmptyGood
  <2>2. ASSUME NEW s \in Savers, CopyBook(s), Kept' \subseteq Kept \cup {[copy[s] EXCEPT !.book = book]}
        PROVE  \A c \in Kept' : Reflects(c)'
    <3>1. copy'[s] = [copy[s] EXCEPT !.book = book] /\ logged' = logged
      BY <2>2 DEF CopyBook, TypeInv
    <3>2. PICK c : c = copy'[s]
      OBVIOUS
    <3>3. Reflects(c)
      BY <2>2, <3>2 DEF CopyBook
    <3>4. Reflects(c)'
      BY <3>1, <3>3 DEF Reflects
    <3> QED  BY <1>2, <2>2, <3>1, <3>2, <3>4
  <2> QED  BY <2>1, <2>2, KeptStep DEF KeptChange
<1> DEFINE BookIs == (pc = "idle" => book = logged) /\ (pc = "journaled" => logged = Append(book, cur))
<1>4. BookIs
  BY <1>1 DEF Exact
<1>5. BookIs'
  <2>1. ASSUME NEW o \in Ops, AppendRecord(o) PROVE BookIs'
    BY <2>1, <1>4 DEF AppendRecord, TypeInv, logVars, engine, saverVars, fileVars, vars, GoDown,
       SaverAt, NewWALWriter
  <2>2. ASSUME NEW o \in Ops, AppendFails(o) PROVE BookIs'
    BY <2>2 DEF AppendFails
  <2>3. CASE Apply
    BY <2>3, <1>4 DEF Apply, TypeInv, logVars, engine, saverVars, fileVars, vars, GoDown, SaverAt,
       NewWALWriter
  <2>4. CASE Stop
    BY <2>4, <1>4 DEF Stop, TypeInv, logVars, engine, saverVars, fileVars, vars, GoDown, SaverAt,
       NewWALWriter
  <2>5. ASSUME NEW s \in Savers, ReadSeq(s) PROVE BookIs'
    BY <2>5, <1>4 DEF ReadSeq, TypeInv, logVars, engine, saverVars, fileVars, vars, GoDown, SaverAt,
       NewWALWriter
  <2>6. ASSUME NEW s \in Savers, CopyBook(s) PROVE BookIs'
    BY <2>6, <1>4 DEF CopyBook, TypeInv, logVars, engine, saverVars, fileVars, vars, GoDown,
       SaverAt, NewWALWriter
  <2>7. ASSUME NEW s \in Savers, OpenTmp(s) PROVE BookIs'
    BY <2>7, <1>4 DEF OpenTmp, TypeInv, logVars, engine, saverVars, fileVars, vars, GoDown, SaverAt,
       NewWALWriter
  <2>8. ASSUME NEW s \in Savers, WriteTmp(s) PROVE BookIs'
    BY <2>8, <1>4 DEF WriteTmp, TypeInv, logVars, engine, saverVars, fileVars, vars, GoDown,
       SaverAt, NewWALWriter
  <2>9. ASSUME NEW s \in Savers, Rename(s) PROVE BookIs'
    BY <2>9, <1>4 DEF Rename, TypeInv, logVars, engine, saverVars, fileVars, vars, GoDown, SaverAt,
       NewWALWriter
  <2>10. CASE Crash
    BY <2>10, <1>4 DEF Crash, TypeInv, logVars, engine, saverVars, fileVars, vars, GoDown, SaverAt,
       NewWALWriter
  <2>11. CASE PowerLoss
    BY <2>11, <1>4 DEF PowerLoss, TypeInv, logVars, engine, saverVars, fileVars, vars, GoDown,
       SaverAt, NewWALWriter
  <2>12. CASE Recover
    <3>1. snap \in Kept /\ Claims(snap) /\ Reflects(snap)
      BY <1>1 DEF Kept, ClaimsHold, Exact
    <3>2. Replay = SubSeq(logged, snap.lastSeq + 1, Len(logged)) /\ Restored = snap.book
      BY <1>1, <3>1, ReplayIsTail
    <3>3. snap.lastSeq \in Nat /\ logged \in Seq(Ops)
      BY FilesAre DEF TypeInv
    <3>4. logged = SubSeq(logged, 1, snap.lastSeq) \o SubSeq(logged, snap.lastSeq + 1, Len(logged))
      BY <3>1, <3>3, RangeOfParts DEF Claims
    <3>5. Restored \o Replay = logged
      BY <3>1, <3>2, <3>4 DEF Reflects
    <3> QED  BY <2>12, <3>5 DEF Recover
  <2>13. CASE UNCHANGED vars
    BY <2>13, <1>4 DEF vars, TypeInv, logVars, engine, saverVars, fileVars, vars, GoDown, SaverAt,
       NewWALWriter
  <2> QED
    BY <2>1, <2>2, <2>3, <2>4, <2>5, <2>6, <2>7, <2>8, <2>9, <2>10, <2>11, <2>12, <2>13 DEF Next, Save
<1> QED  BY <1>3, <1>5 DEF Exact

\* What is missing from a snapshot or from the book is finite.
LEMMA LostFinite ==
    ASSUME TypeInv
    PROVE  /\ \A c \in Files : Claims(c) => /\ IsFiniteSet(Lost(c)) /\ Cardinality(Lost(c)) \in Nat
                                            /\ Range(SubSeq(logged, 1, c.lastSeq)) \subseteq Range(logged)
           /\ IsFiniteSet(LostByBook) /\ Cardinality(LostByBook) \in Nat
<1>1. logged \in Seq(Ops) /\ IsFiniteSet(Range(logged))
  BY RangeFinite DEF TypeInv
<1>2. ASSUME NEW c \in Files, Claims(c)
      PROVE  /\ IsFiniteSet(Lost(c)) /\ Cardinality(Lost(c)) \in Nat
             /\ Range(SubSeq(logged, 1, c.lastSeq)) \subseteq Range(logged)
  <2>1. c.lastSeq \in Nat /\ c.lastSeq <= Len(logged)
    BY <1>2, FilesAre DEF Claims
  <2>2. Range(SubSeq(logged, 1, c.lastSeq)) \subseteq Range(logged)
    <3>1. Range(logged) = Range(SubSeq(logged, 1, c.lastSeq)) \cup Range(SubSeq(logged, c.lastSeq + 1, Len(logged)))
      BY <1>1, <2>1, RangeOfParts
    <3> QED  BY <3>1
  <2>3. Lost(c) \subseteq Range(logged)
    BY <2>2 DEF Lost
  <2>4. IsFiniteSet(Lost(c))
    BY <1>1, <2>3, FS_Subset
  <2> QED  BY <2>2, <2>4, FS_CardinalityType
<1>3. IsFiniteSet(LostByBook)
  <2>1. LostByBook \subseteq Range(logged)
    BY DEF LostByBook
  <2> QED  BY <1>1, <2>1, FS_Subset
<1> QED  BY <1>2, <1>3, FS_CardinalityType

\* The same, as a formula of the state.
LostIsFinite ==
    /\ \A c \in Files : Claims(c) => IsFiniteSet(Lost(c)) /\ Cardinality(Lost(c)) \in Nat
    /\ IsFiniteSet(LostByBook) /\ Cardinality(LostByBook) \in Nat

\* It holds in this state.
LEMMA LostFiniteAll == TypeInv => LostIsFinite
BY LostFinite DEF LostIsFinite

\* It holds in the next.
LEMMA LostFiniteNext == TypeInv' => LostIsFinite'
BY LostFiniteAll, PTL

\* The bound is a number, in this state and the next.
BoundIsNat == Bound \in Nat

\* The crashes are a number, and so is one more.
LEMMA BoundIs == TypeInv => BoundIsNat
<1> SUFFICES ASSUME TypeInv PROVE Bound \in Nat
  BY DEF BoundIsNat
<1>1. CASE pc = "down"
  BY <1>1 DEF Bound, TypeInv
<1>2. CASE pc # "down"
  BY <1>2 DEF Bound, TypeInv
<1> QED  BY <1>1, <1>2

\* The bound is a number in the next state too.
LEMMA BoundIsNext == TypeInv' => BoundIsNat'
BY BoundIs, PTL

\* No more records are missing from a snapshot than there were crashes, but for
\* the one that the next crash costs, and from the book no more than that.
LEMMA FewLostStep ==
    ASSUME TypeInv, InProgress, LogComplete, ClaimsHold, FewLost, TypeInv', [Next]_vars
    PROVE  FewLost'
<1> SUFFICES ASSUME LogKept' PROVE FewLost'
  BY DEF FewLost
<1>1. LogKept
  BY FaultsStay DEF LogKept
<1>2. Bound \in Nat /\ Bound' \in Nat
  BY BoundIs, BoundIsNext DEF BoundIsNat
<1>3. Bound <= Bound'
  <2>1. ASSUME NEW o \in Ops, AppendRecord(o) PROVE Bound <= Bound'
    BY <2>1 DEF AppendRecord, Bound, TypeInv, logVars, engine, saverVars, fileVars, vars, GoDown,
       SaverAt, NewWALWriter
  <2>2. ASSUME NEW o \in Ops, AppendFails(o) PROVE Bound <= Bound'
    BY <2>2 DEF AppendFails, Bound, TypeInv, logVars, engine, saverVars, fileVars, vars, GoDown,
       SaverAt, NewWALWriter
  <2>3. CASE Apply
    BY <2>3 DEF Apply, Bound, TypeInv, logVars, engine, saverVars, fileVars, vars, GoDown, SaverAt,
       NewWALWriter
  <2>4. CASE Stop
    BY <2>4 DEF Stop, Bound, TypeInv, logVars, engine, saverVars, fileVars, vars, GoDown, SaverAt,
       NewWALWriter
  <2>5. ASSUME NEW s \in Savers, ReadSeq(s) PROVE Bound <= Bound'
    BY <2>5 DEF ReadSeq, Bound, TypeInv, logVars, engine, saverVars, fileVars, vars, GoDown,
       SaverAt, NewWALWriter
  <2>6. ASSUME NEW s \in Savers, CopyBook(s) PROVE Bound <= Bound'
    BY <2>6 DEF CopyBook, Bound, TypeInv, logVars, engine, saverVars, fileVars, vars, GoDown,
       SaverAt, NewWALWriter
  <2>7. ASSUME NEW s \in Savers, OpenTmp(s) PROVE Bound <= Bound'
    BY <2>7 DEF OpenTmp, Bound, TypeInv, logVars, engine, saverVars, fileVars, vars, GoDown,
       SaverAt, NewWALWriter
  <2>8. ASSUME NEW s \in Savers, WriteTmp(s) PROVE Bound <= Bound'
    BY <2>8 DEF WriteTmp, Bound, TypeInv, logVars, engine, saverVars, fileVars, vars, GoDown,
       SaverAt, NewWALWriter
  <2>9. ASSUME NEW s \in Savers, Rename(s) PROVE Bound <= Bound'
    BY <2>9 DEF Rename, Bound, TypeInv, logVars, engine, saverVars, fileVars, vars, GoDown, SaverAt,
       NewWALWriter
  <2>10. CASE Crash
    BY <2>10 DEF Crash, Bound, TypeInv, logVars, engine, saverVars, fileVars, vars, GoDown, SaverAt,
       NewWALWriter
  <2>11. CASE PowerLoss
    BY <2>11 DEF PowerLoss, Bound, TypeInv, logVars, engine, saverVars, fileVars, vars, GoDown,
       SaverAt, NewWALWriter
  <2>12. CASE Recover
    BY <2>12 DEF Recover, Bound, TypeInv, logVars, engine, saverVars, fileVars, vars, GoDown,
       SaverAt, NewWALWriter
  <2>13. CASE UNCHANGED vars
    BY <2>13 DEF vars, Bound, TypeInv, logVars, engine, saverVars, fileVars, vars, GoDown, SaverAt,
       NewWALWriter
  <2> QED
    BY <2>1, <2>2, <2>3, <2>4, <2>5, <2>6, <2>7, <2>8, <2>9, <2>10, <2>11, <2>12, <2>13 DEF Next, Save
<1>4. \A c \in Kept : c \in Files /\ Claims(c) /\ Few(Lost(c))'
  <2> SUFFICES ASSUME NEW c \in Kept PROVE c \in Files /\ Claims(c) /\ Few(Lost(c))'
    OBVIOUS
  <2>1. c \in Files /\ Claims(c) /\ Few(Lost(c))
    BY <1>1, KeptAreFiles DEF ClaimsHold, FewLost
  <2>2. Lost(c)' = Lost(c)
    BY <2>1, Grows
  <2>3. Cardinality(Lost(c)) \in Nat /\ Cardinality(Lost(c)) <= Bound
    BY <2>1, LostFinite DEF Few
  <2>4. Cardinality(Lost(c)') <= Bound'
    BY <1>2, <1>3, <2>2, <2>3
  <2> QED  BY <2>1, <2>4 DEF Few
<1>5. \A c \in Kept' : Few(Lost(c))'
  <2>1. CASE Kept' \subseteq Kept \cup {Missing, Unreadable}
    BY <1>4, <2>1, EmptyAreGoodNext DEF EmptyGood
  <2>2. ASSUME NEW s \in Savers, CopyBook(s), Kept' \subseteq Kept \cup {[copy[s] EXCEPT !.book = book]}
        PROVE  \A c \in Kept' : Few(Lost(c))'
    <3>1. /\ spc[s] = "copy" /\ copy[s] \in Files /\ copy[s].state = "readable" /\ book \in Seq(Ops)
          /\ logged' = logged /\ crashes' = crashes /\ pc' = pc /\ pc # "down"
      BY <2>2 DEF CopyBook, SaverAt, TypeInv, engine
    <3>2. Claims(copy[s])
      BY <1>1, <3>1 DEF ClaimsHold
    <3>3. PICK c : c = [copy[s] EXCEPT !.book = book]
      OBVIOUS
    <3>4. c \in Files /\ c.lastSeq = copy[s].lastSeq /\ c.book = book
      <4>1. copy[s].lastSeq \in Nat
        BY <3>1, FilesAre
      <4>2. c = Snapshot(copy[s].lastSeq, book) /\ c \in Files
        BY <3>1, <3>3, CompletedCopy
      <4>3. Snapshot(copy[s].lastSeq, book).lastSeq = copy[s].lastSeq /\ Snapshot(copy[s].lastSeq, book).book = book
        BY <3>1, <4>1, SnapshotIs
      <4> QED  BY <4>2, <4>3
    <3>5. Claims(c)
      BY <3>2, <3>4 DEF Claims
    <3>6. Lost(c) \subseteq LostByBook \cup {cur}
      BY <3>4, <3>5, LostFinite DEF Lost, LostByBook
    <3>7. Cardinality(LostByBook \cup {cur}) <= Cardinality(LostByBook) + 1 /\ IsFiniteSet(LostByBook \cup {cur})
      <4>1. IsFiniteSet(LostByBook) /\ Cardinality(LostByBook) \in Nat
        BY LostFinite
      <4>2. IsFiniteSet(LostByBook \cup {cur})
        BY <4>1, FS_AddElement
      <4>3. Cardinality(LostByBook \cup {cur}) = IF cur \in LostByBook THEN Cardinality(LostByBook) ELSE Cardinality(LostByBook) + 1
        BY <4>1, FS_AddElement
      <4> QED  BY <4>1, <4>2, <4>3
    <3>8. Cardinality(Lost(c)) <= Cardinality(LostByBook \cup {cur})
      BY <3>6, <3>7, FS_Subset
    <3>9. Cardinality(LostByBook) <= crashes
      BY <1>1, <3>1 DEF FewLost
    <3>10. Cardinality(Lost(c)) <= crashes + 1
      <4>1. /\ Cardinality(LostByBook) \in Nat /\ Cardinality(LostByBook \cup {cur}) \in Nat
            /\ Cardinality(Lost(c)) \in Nat /\ crashes \in Nat
        BY <3>4, <3>5, <3>7, LostFinite, FS_CardinalityType DEF TypeInv
      <4> QED  BY <3>7, <3>8, <3>9, <4>1
    <3>11. Few(Lost(c))'
      <4>1. Lost(c)' = Lost(c)
        BY <3>1 DEF Lost
      <4> QED  BY <3>1, <3>10, <4>1 DEF Few, Bound
    <3> QED  BY <1>4, <2>2, <3>3, <3>11
  <2> QED  BY <2>1, <2>2, KeptStep DEF KeptChange
<1>6. pc' # "down" => Cardinality(LostByBook') <= crashes'
  <2> DEFINE Less == LostByBook' \subseteq LostByBook /\ pc # "down" /\ crashes' = crashes
             Restart == Cardinality(LostByBook') <= crashes'
  <2> SUFFICES ASSUME pc' # "down" PROVE Restart
    OBVIOUS
  <2>1. Less \/ Restart
    <3>1. ASSUME NEW o \in Ops, AppendRecord(o) PROVE Less \/ Restart
      <4>1. logged' = Append(logged, o) /\ book' = book /\ cur' = o /\ cur = NoOp /\ crashes' = crashes /\ pc # "down"
        BY <3>1 DEF AppendRecord, InProgress
      <4>2. Range(logged') = Range(logged) \cup {o} /\ Range(logged) \subseteq Ops
        BY <4>1, RangeOfAppend, RangeOfSeq DEF TypeInv
      <4> QED  BY <4>1, <4>2, RecoveryAssumption DEF LostByBook
    <3>2. ASSUME NEW o \in Ops, AppendFails(o) PROVE Less \/ Restart
      BY <3>2 DEF AppendFails, LogKept
    <3>3. CASE Apply
      <4>1. book' = Append(book, cur) /\ cur \in Ops /\ logged' = logged /\ crashes' = crashes /\ pc # "down"
        BY <3>3 DEF Apply, InProgress, TypeInv
      <4>2. Range(book') = Range(book) \cup {cur}
        BY <4>1, RangeOfAppend DEF TypeInv
      <4> QED  BY <4>1, <4>2 DEF LostByBook
    <3>4. CASE Stop
      BY <3>4 DEF Stop, LostByBook, TypeInv, logVars, engine, saverVars, fileVars, vars, GoDown,
         SaverAt, NewWALWriter
    <3>5. ASSUME NEW s \in Savers, ReadSeq(s) PROVE Less \/ Restart
      BY <3>5 DEF ReadSeq, LostByBook, TypeInv, logVars, engine, saverVars, fileVars, vars, GoDown,
         SaverAt, NewWALWriter
    <3>6. ASSUME NEW s \in Savers, CopyBook(s) PROVE Less \/ Restart
      BY <3>6 DEF CopyBook, LostByBook, TypeInv, logVars, engine, saverVars, fileVars, vars, GoDown,
         SaverAt, NewWALWriter
    <3>7. ASSUME NEW s \in Savers, OpenTmp(s) PROVE Less \/ Restart
      BY <3>7 DEF OpenTmp, LostByBook, TypeInv, logVars, engine, saverVars, fileVars, vars, GoDown,
         SaverAt, NewWALWriter
    <3>8. ASSUME NEW s \in Savers, WriteTmp(s) PROVE Less \/ Restart
      BY <3>8 DEF WriteTmp, LostByBook, TypeInv, logVars, engine, saverVars, fileVars, vars, GoDown,
         SaverAt, NewWALWriter
    <3>9. ASSUME NEW s \in Savers, Rename(s) PROVE Less \/ Restart
      BY <3>9 DEF Rename, LostByBook, TypeInv, logVars, engine, saverVars, fileVars, vars, GoDown,
         SaverAt, NewWALWriter
    <3>10. CASE Crash
      BY <3>10 DEF Crash, LostByBook, TypeInv, logVars, engine, saverVars, fileVars, vars, GoDown,
         SaverAt, NewWALWriter
    <3>11. CASE PowerLoss
      BY <3>11 DEF PowerLoss, LostByBook, TypeInv, logVars, engine, saverVars, fileVars, vars,
         GoDown, SaverAt, NewWALWriter
    <3>12. CASE Recover
      <4>1. snap \in Kept /\ snap \in Files /\ Claims(snap) /\ Few(Lost(snap)) /\ pc = "down"
        BY <3>12, <1>1 DEF Kept, ClaimsHold, FewLost, TypeInv, Recover
      <4>2. Replay = SubSeq(logged, snap.lastSeq + 1, Len(logged)) /\ Restored = snap.book
        BY <1>1, <4>1, ReplayIsTail
      <4>3. snap.lastSeq \in Nat /\ logged \in Seq(Ops) /\ snap.book \in Seq(Ops)
        BY <4>1, FilesAre DEF TypeInv
      <4>4. PICK a, b : a = SubSeq(logged, 1, snap.lastSeq) /\ b = SubSeq(logged, snap.lastSeq + 1, Len(logged))
        OBVIOUS
      <4>5. b \in Seq(Ops) /\ Range(logged) = Range(a) \cup Range(b)
        BY <4>1, <4>3, <4>4, RangeOfParts DEF Claims
      <4>6. book' = snap.book \o b /\ logged' = logged /\ crashes' = crashes
        BY <3>12, <4>2, <4>4 DEF Recover
      <4>7. Range(snap.book \o b) = Range(snap.book) \cup Range(b)
        <5>1. PICK d : d = snap.book
          OBVIOUS
        <5>2. d \in Seq(Ops) /\ b \in Seq(Ops)
          BY <4>3, <4>5, <5>1
        <5>3. Range(d \o b) = Range(d) \cup Range(b)
          BY <5>2, RangeConcatenation, ZenonT(40)
        <5> QED  BY <5>1, <5>3
      <4>8. LostByBook' \subseteq Lost(snap)
        BY <4>4, <4>5, <4>6, <4>7 DEF LostByBook, Lost
      <4>9. Cardinality(LostByBook') <= Cardinality(Lost(snap))
        BY <4>1, <4>8, LostFinite, FS_Subset
      <4>10. Cardinality(Lost(snap)) <= crashes
        BY <4>1 DEF Few, Bound, TypeInv
      <4>11. /\ Cardinality(LostByBook') \in Nat /\ Cardinality(Lost(snap)) \in Nat /\ crashes \in Nat
        BY <4>1, LostFinite, LostFiniteNext DEF LostIsFinite, TypeInv
      <4> QED  BY <4>6, <4>9, <4>10, <4>11
    <3>13. CASE UNCHANGED vars
      BY <3>13 DEF vars, LostByBook, TypeInv, logVars, engine, saverVars, fileVars, vars, GoDown,
         SaverAt, NewWALWriter
    <3> QED
      BY <3>1, <3>2, <3>3, <3>4, <3>5, <3>6, <3>7, <3>8, <3>9, <3>10, <3>11, <3>12, <3>13 DEF Next, Save
  <2>2. CASE Less
    <3>1. Cardinality(LostByBook') <= Cardinality(LostByBook)
      BY <2>2, LostFinite, FS_Subset
    <3>2. Cardinality(LostByBook) <= crashes
      BY <1>1, <2>2 DEF FewLost
    <3>3. /\ Cardinality(LostByBook) \in Nat /\ Cardinality(LostByBook') \in Nat
          /\ crashes \in Nat
      BY LostFinite, LostFiniteNext DEF LostIsFinite, TypeInv
    <3> QED  BY <2>2, <3>1, <3>2, <3>3
  <2> QED  BY <2>1, <2>2
<1> QED  BY <1>5, <1>6 DEF FewLost

-------------------------------------------------------------------------------
(* The theorem.                                                             *)

\* The invariant holds at first.
LEMMA InvInit == Init => RecoveryInv
<1> SUFFICES ASSUME Init PROVE RecoveryInv
  OBVIOUS
<1>1. TypeInv
  BY TypeInit
<1>2. Kept = {Missing} /\ Len(logged) = 0 /\ Range(logged) = {} /\ pc = "down" /\ faults = {}
  <2>1. Len(<<>>) = 0 /\ DOMAIN <<>> = {}
    BY EmptySeq
  <2>2. Range(<<>>) = {}
    BY <2>1 DEF Range
  <2> QED  BY <2>1, <2>2 DEF Init, Kept, Holds
<1>3. Claims(Missing) /\ Reflects(Missing) /\ Few(Lost(Missing))
  BY <1>1, EmptyAreGood DEF EmptyGood
<1> QED  BY <1>1, <1>2, <1>3 DEF Init, RecoveryInv, InProgress, LogComplete, NoSavers, ClaimsHold, Exact, FewLost

\* Every step keeps it.
LEMMA InvStep == RecoveryInv /\ [Next]_vars => RecoveryInv'
<1> SUFFICES ASSUME RecoveryInv, [Next]_vars PROVE RecoveryInv'
  OBVIOUS
<1>1. TypeInv'
  BY TypeStep DEF RecoveryInv
<1>2. InProgress' /\ NoSavers'
  BY ProgressStep DEF RecoveryInv
<1>3. LogComplete'
  BY LogStep DEF RecoveryInv
<1>4. ClaimsHold'
  BY <1>1, ClaimsStep DEF RecoveryInv
<1>5. Exact'
  BY <1>1, ExactStep DEF RecoveryInv
<1>6. FewLost'
  BY <1>1, FewLostStep DEF RecoveryInv
<1> QED  BY <1>1, <1>2, <1>3, <1>4, <1>5, <1>6 DEF RecoveryInv

\* It implies the property.
LEMMA InvImplies == RecoveryInv => RecoveredExactly
<1> SUFFICES ASSUME RecoveryInv, pc # "down"
             PROVE  /\ faults = {} => book = IF pc = "idle" THEN logged ELSE Front(logged)
                    /\ faults \subseteq {"raced"} =>
                           Cardinality(Range(logged) \ (Range(book) \cup {cur})) <= crashes
  BY DEF RecoveredExactly
<1>1. ASSUME faults = {}, pc # "idle" PROVE book = Front(logged)
  <2>1. pc = "journaled" /\ cur \in Ops /\ book \in Seq(Ops) /\ logged = Append(book, cur)
    BY <1>1 DEF RecoveryInv, TypeInv, InProgress, Exact
  <2>2. Len(book) \in Nat /\ Len(logged) = Len(book) + 1
    BY <2>1, LenProperties, AppendProperties
  <2>3. SubSeq(logged, 1, Len(book)) = SubSeq(book, 1, Len(book))
    BY <2>1, <2>2, PrefixOfAppend
  <2>4. SubSeq(book, 1, Len(book)) = book
    BY <2>1, SubSeqFull
  <2> QED  BY <2>2, <2>3, <2>4 DEF Front
<1> QED  BY <1>1 DEF RecoveryInv, Exact, FewLost, LogKept, LostByBook

\* For every number of records, savers, crashes and snapshots: as long as no
\* snapshot was taken beside a working engine, the machine kept its power and no
\* record came after the log was closed, recovery (RegisterPair: the snapshot's
\* orders, then replayWAL of what the snapshot does not claim) leaves the book as
\* the log says, record by record; a snapshot taken beside a working engine
\* costs each crash at most one record.
THEOREM RecoveryIsExact == Spec => []RecoveredExactly
<1>1. Init => RecoveryInv
  BY InvInit
<1>2. RecoveryInv /\ [Next]_vars => RecoveryInv'
  BY InvStep
<1>3. RecoveryInv => RecoveredExactly
  BY InvImplies
<1> QED  BY <1>1, <1>2, <1>3, PTL DEF Spec

===============================================================================
