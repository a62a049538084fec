------------------------------ MODULE RingBuffer ------------------------------
(***************************************************************************)
(* The lock-free ring that carries orders to the matching engine:          *)
(* MPRingBuffer, internal/matching/ringbuffer.go.  Many producers enqueue, *)
(* one consumer drains.  A producer reserves a position by moving tail and *)
(* publishes its order afterwards, in a step of its own; the consumer      *)
(* gives up on a reserved slot it finds empty after 65 tries.  Every atomic *)
(* load, swap and store is a step.  The positions are 64-bit counters that *)
(* no run of the program wraps, so they are natural numbers here.          *)
(***************************************************************************)
EXTENDS Naturals, Sequences, FiniteSets, SequencesExt

CONSTANTS
    Producers,  \* goroutines that call Enqueue
    Empty,      \* a nil slot
    Size,       \* slots, a power of two; mask is Size - 1
    MaxCalls    \* bound: the Enqueue calls of each producer

ASSUME RingAssumption ==
    /\ Size \in Nat /\ Size > 1
    /\ MaxCalls \in [Producers -> Nat]
    /\ Empty \notin Producers \X Nat

VARIABLES
    head, tail, slot,
    ppc,        \* where each producer is in Enqueue
    seenHead,   \* the head and the tail a producer has loaded
    seenTail,
    calls,      \* Enqueue calls a producer has finished
    cpc,        \* where the consumer is in Drain
    pos, end,   \* the position Drain looks at, and the tail it loaded
    out,        \* history: the orders drained, oldest first
    reserved,   \* history: the orders by the position they reserved
    accepted,   \* history: orders whose Enqueue returned true
    skipped     \* history: positions Drain gave up on

producerVars == <<ppc, seenHead, seenTail, calls>>
consumerVars == <<cpc, pos, end, out, skipped>>
ringVars == <<head, tail, slot, producerVars, consumerVars, reserved, accepted>>

Mask == Size - 1

Values == Producers \X Nat

\* The order a producer's current call carries.
Order(p) == <<p, calls[p]>>

Goto(p, l) == ppc' = [ppc EXCEPT ![p] = l]

Finish(p) == Goto(p, "ready") /\ calls' = [calls EXCEPT ![p] = @ + 1]

-------------------------------------------------------------------------------
(* Enqueue.                                                                 *)

LoadHead(p) ==
    /\ \/ ppc[p] = "ready" /\ calls[p] < MaxCalls[p]
       \/ ppc[p] = "retry"
    /\ seenHead' = [seenHead EXCEPT ![p] = head]
    /\ Goto(p, "loadTail")
    /\ UNCHANGED <<head, tail, slot, seenTail, calls, consumerVars, reserved, accepted>>

Full(h, t) == t - h >= Mask

\* A full ring makes Enqueue return false.
LoadTail(p) ==
    /\ ppc[p] = "loadTail"
    /\ seenTail' = [seenTail EXCEPT ![p] = tail]
    /\ IF Full(seenHead[p], tail) THEN Finish(p) ELSE Goto(p, "cas") /\ UNCHANGED calls
    /\ UNCHANGED <<head, tail, slot, seenHead, consumerVars, reserved, accepted>>

\* The compare-and-swap on tail: a loser starts over.
Reserve(p) ==
    /\ ppc[p] = "cas"
    /\ IF tail = seenTail[p]
       THEN /\ tail' = tail + 1
            /\ reserved' = Append(reserved, Order(p))
            /\ Goto(p, "store")
       ELSE /\ Goto(p, "retry")
            /\ UNCHANGED <<tail, reserved>>
    /\ UNCHANGED <<head, slot, seenHead, seenTail, calls, consumerVars, accepted>>

Store(p) ==
    /\ ppc[p] = "store"
    /\ slot' = [slot EXCEPT ![seenTail[p] % Size] = Order(p)]
    /\ accepted' = accepted \cup {Order(p)}
    /\ Finish(p)
    /\ UNCHANGED <<head, tail, seenHead, seenTail, consumerVars, reserved>>

-------------------------------------------------------------------------------
(* Drain.                                                                   *)

BeginDrain ==
    /\ cpc = "ready" /\ head # tail
    /\ pos' = head
    /\ end' = tail
    /\ cpc' = "take"
    /\ UNCHANGED <<head, tail, slot, producerVars, out, skipped, reserved, accepted>>

SlotKept(i) == slot

SlotTaken(i) == [slot EXCEPT ![i] = Empty]

Take ==
    /\ cpc = "take" /\ pos < end /\ slot[pos % Size] # Empty
    /\ out' = Append(out, slot[pos % Size])
    /\ slot' = SlotTaken(pos % Size)
    /\ pos' = pos + 1
    /\ UNCHANGED <<head, tail, producerVars, cpc, end, skipped, reserved, accepted>>

\* The last try found the slot still empty.
Skip ==
    /\ cpc = "take" /\ pos < end /\ slot[pos % Size] = Empty
    /\ skipped' = skipped \cup {pos}
    /\ pos' = pos + 1
    /\ UNCHANGED <<head, tail, slot, producerVars, cpc, end, out, reserved, accepted>>

HeadAtCurrentTail == tail

HeadALapBack == end - Size

HeadAfterDrain == end

EndDrain ==
    /\ cpc = "take" /\ pos = end
    /\ head' = HeadAfterDrain
    /\ cpc' = "ready"
    /\ UNCHANGED <<tail, slot, producerVars, pos, end, out, skipped, reserved, accepted>>

-------------------------------------------------------------------------------

RingInit ==
    /\ head = 0 /\ tail = 0 /\ slot = [i \in 0..Mask |-> Empty]
    /\ ppc = [p \in Producers |-> "ready"] /\ calls = [p \in Producers |-> 0]
    /\ seenHead = [p \in Producers |-> 0] /\ seenTail = [p \in Producers |-> 0]
    /\ cpc = "ready" /\ pos = 0 /\ end = 0
    /\ out = <<>> /\ reserved = <<>> /\ accepted = {} /\ skipped = {}

Produce(p) == LoadHead(p) \/ LoadTail(p) \/ Reserve(p) \/ Store(p)

Consume == BeginDrain \/ Take \/ Skip \/ EndDrain

RingNext == Consume \/ \E p \in Producers : Produce(p)

\* The engine goroutine keeps draining and a producer inside Enqueue keeps running.
Fairness ==
    /\ WF_ringVars(Consume)
    /\ \A p \in Producers : WF_ringVars(ppc[p] # "ready" /\ Produce(p))

RingSpec == RingInit /\ [][RingNext]_ringVars /\ Fairness

-------------------------------------------------------------------------------
(* Properties.                                                              *)

\* Types: the program counters are at places the code has, a slot holds an order or
\* nothing, and what was loaded is a natural number.
TypeOK ==
    /\ head \in Nat /\ tail \in Nat
    /\ slot \in [0..Mask -> Values \cup {Empty}]
    /\ ppc \in [Producers -> {"ready", "retry", "loadTail", "cas", "store"}]
    /\ seenHead \in [Producers -> Nat] /\ seenTail \in [Producers -> Nat]
    /\ calls \in [Producers -> Nat]
    /\ cpc \in {"ready", "take"} /\ pos \in Nat /\ end \in Nat
    /\ out \in Seq(Values) /\ reserved \in Seq(Values)
    /\ accepted \in SUBSET Values /\ skipped \in SUBSET Nat

\* However stale the head and the tail a producer decided on, at most Mask
\* positions are reserved and not yet drained, so no lap overtakes another.
WithinCapacity == head <= tail /\ tail - head <= Mask

\* No order is handed to the engine twice, and none that nobody enqueued: also
\* when Drain skips slots and late orders surface on another lap.  While Drain
\* never gives up on a slot the ring is a FIFO queue: what it has delivered is the
\* orders in the order of their reservations, and an order whose Enqueue returned
\* true waits in the ring or has been delivered.
QueueUntilSkip ==
    /\ IsInjective(out) /\ Range(out) \subseteq Range(reserved)
    /\ skipped = {} =>
          /\ out = SubSeq(reserved, 1, IF cpc = "take" THEN pos ELSE head)
          /\ \A x \in accepted : x \in Range(out) \/ \E i \in 0..Mask : slot[i] = x

\* An accepted order reaches the engine, unless Drain gave up on a slot.
AcceptedIsDelivered ==
    \A p \in Producers : \A n \in 0..(MaxCalls[p] - 1) :
       <<p, n>> \in accepted ~> <<p, n>> \in Range(out) \/ skipped # {}

===============================================================================
