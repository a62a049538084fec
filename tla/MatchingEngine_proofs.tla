------------------------- MODULE MatchingEngine_proofs -------------------------
(***************************************************************************)
(* Proofs about MatchingEngine, for any set of tickets, ring capacity and  *)
(* number of orders and cancels; and, at the end, about GrpcServer, whose  *)
(* steps are those of the engine with a count of the changes of the book,  *)
(* for any number of levels asked for.                                     *)
(***************************************************************************)
EXTENDS GrpcServer, SumTheorems, TLAPS

(***************************************************************************)
(* The inductive invariant.  An order is in one place at a time: waiting   *)
(* in the ring or in the batch, resting, parked, triggered, or cancelled.  *)
(* The order in progress is the head of the batch, or a triggered stop     *)
(* order once the batch is empty, so it is never its own maker and never   *)
(* one whose cancel was acknowledged.                                      *)
(***************************************************************************)

\* Orders the engine has put somewhere.
Placed == live \cup stops \cup fired \cup acked

NoRepeats(q) == \A i, j \in DOMAIN q : q[i] = q[j] => i = j

Fresh(q) == \A i \in DOMAIN q : q[i] \in sent /\ q[i] \notin Placed

QueuesFresh ==
    /\ NoRepeats(inbound) /\ NoRepeats(batch)
    /\ Fresh(inbound) /\ Fresh(batch)
    /\ \A i \in DOMAIN inbound : \A j \in DOMAIN batch : inbound[i] # batch[j]
    /\ Placed \subseteq sent

OnePlace ==
    /\ live \cap (stops \cup fired) = {}
    /\ stops \cap fired = {}
    /\ acked \cap (live \cup stops \cup fired) = {}

InProgress ==
    /\ pc \in {"match", "finish"} =>
          /\ taker \in Orders
          /\ IF fired = {} THEN batch # <<>> /\ taker = Head(batch)
                           ELSE batch = <<>> /\ taker \in fired
    /\ pc \notin {"match", "finish"} => taker = NoOrder
    /\ pc \in {"idle", "drain", "stops", "exited"} => batch = <<>>
    /\ pc \in {"idle", "drain", "batch", "exited"} => fired = {}

\* What has not been processed yet has not traded.
Untouched ==
    /\ \A o \in Orders \ sent : filled[o] = 0
    /\ \A i \in DOMAIN inbound : filled[inbound[i]] = 0
    /\ \A i \in DOMAIN batch : filled[batch[i]] = 0 \/ batch[i] = taker

SliceFits == pc = "match" /\ kind[taker] = "Iceberg" => slice <= remaining[taker]

RestingHasSide == \A o \in live : remaining[o] > 0 /\ o \in heap[Ticket[o].side]

EngineInv ==
    /\ TypeOK
    /\ QueuesFresh
    /\ OnePlace
    /\ InProgress
    /\ Untouched
    /\ SliceFits
    /\ RestingHasSide
    /\ QuantityConserved

-------------------------------------------------------------------------------
(* Queues and places.                                                       *)

\* What Append and Tail do to the entries of a queue.
LEMMA AppendAt ==
    ASSUME NEW S, NEW q \in Seq(S), NEW x \in S
    PROVE  /\ Append(q, x) \in Seq(S)
           /\ DOMAIN Append(q, x) = DOMAIN q \cup {Len(q) + 1}
           /\ Len(q) + 1 \notin DOMAIN q
           /\ Append(q, x)[Len(q) + 1] = x
           /\ \A i \in DOMAIN q : Append(q, x)[i] = q[i]
  OBVIOUS

\* What Tail does to the entries of a queue.
LEMMA TailAt ==
    ASSUME NEW S, NEW q \in Seq(S), q # <<>>
    PROVE  /\ Tail(q) \in Seq(S) /\ Head(q) \in S
           /\ 1 \in DOMAIN q /\ Head(q) = q[1]
           /\ \A i \in DOMAIN Tail(q) :
                 i \in Nat /\ i > 0 /\ i + 1 \in DOMAIN q /\ Tail(q)[i] = q[i + 1]
  OBVIOUS

\* Taking the head off a queue without repeats leaves none, and not the head.
LEMMA TailNoRepeats ==
    ASSUME NEW S, NEW q \in Seq(S), q # <<>>, NoRepeats(q)
    PROVE  NoRepeats(Tail(q)) /\ \A i \in DOMAIN Tail(q) : Tail(q)[i] # Head(q)
<1>1. ASSUME NEW i \in DOMAIN Tail(q), NEW j \in DOMAIN Tail(q), Tail(q)[i] = Tail(q)[j]
      PROVE  i = j
  <2>1. i + 1 = j + 1
    BY <1>1, TailAt DEF NoRepeats
  <2> QED  BY <2>1, TailAt
<1>2. ASSUME NEW i \in DOMAIN Tail(q) PROVE Tail(q)[i] # Head(q)
  <2>1. i + 1 # 1
    BY TailAt
  <2> QED  BY <2>1, TailAt DEF NoRepeats
<1> QED  BY <1>1, <1>2 DEF NoRepeats

\* Orders leave the book, some of them because their cancel is acknowledged.
LEMMA LeavingKeepsPlaces ==
    ASSUME QueuesFresh, OnePlace, UNCHANGED <<inbound, sent, batch, stops, fired>>,
           live' \subseteq live, acked' \subseteq acked \cup (live \ live')
    PROVE  QueuesFresh' /\ OnePlace'
<1>1. Placed' \subseteq Placed
  BY DEF Placed
<1>2. QueuesFresh'
  BY <1>1 DEF QueuesFresh, Fresh, NoRepeats
<1>3. OnePlace'
  BY DEF OnePlace
<1> QED  BY <1>2, <1>3

\* The head of the batch is taken off, and rests, is parked or is dropped.
LEMMA HeadIsPlaced ==
    ASSUME TypeOK, QueuesFresh, OnePlace, batch # <<>>, batch' = Tail(batch),
           UNCHANGED <<inbound, sent, fired, acked>>,
           live' \subseteq live \cup {Head(batch)},
           stops' \subseteq stops \cup {Head(batch)},
           live' = live \/ stops' = stops
    PROVE  QueuesFresh' /\ OnePlace'
<1>0. batch \in Seq(Orders) /\ NoRepeats(batch) /\ NoRepeats(inbound)
  BY DEF TypeOK, QueuesFresh
<1>1. Head(batch) \in sent /\ Head(batch) \notin Placed
  BY <1>0, TailAt DEF QueuesFresh, Fresh
<1>2. Placed' \subseteq Placed \cup {Head(batch)} /\ Placed' \subseteq sent'
  BY <1>1 DEF Placed, QueuesFresh
<1>3. Fresh(batch)'
  <2> SUFFICES ASSUME NEW i \in DOMAIN Tail(batch)
               PROVE  Tail(batch)[i] \in sent /\ Tail(batch)[i] \notin Placed'
    BY DEF Fresh
  <2>1. Tail(batch)[i] # Head(batch)
    BY <1>0, TailNoRepeats
  <2>2. Tail(batch)[i] \in sent /\ Tail(batch)[i] \notin Placed
    BY <1>0, TailAt DEF QueuesFresh, Fresh
  <2> QED  BY <1>2, <2>1, <2>2
<1>4. Fresh(inbound)'
  <2> SUFFICES ASSUME NEW i \in DOMAIN inbound
               PROVE  inbound[i] \in sent /\ inbound[i] \notin Placed'
    BY DEF Fresh
  <2>1. inbound[i] # Head(batch)
    BY <1>0, TailAt DEF QueuesFresh
  <2> QED  BY <1>2, <2>1 DEF QueuesFresh, Fresh
<1>5. \A i \in DOMAIN inbound : \A j \in DOMAIN Tail(batch) : inbound[i] # Tail(batch)[j]
  BY <1>0, TailAt DEF QueuesFresh
<1>6. NoRepeats(Tail(batch))
  BY <1>0, TailNoRepeats
<1>7. NoRepeats(inbound)' /\ NoRepeats(batch)'
  BY <1>0, <1>6 DEF NoRepeats
<1>8. OnePlace'
  BY <1>1 DEF OnePlace, Placed
<1>9. \A i \in DOMAIN inbound' : \A j \in DOMAIN batch' : inbound'[i] # batch'[j]
  BY <1>5
<1> QED  BY <1>2, <1>3, <1>4, <1>7, <1>8, <1>9 DEF QueuesFresh

\* A triggered stop order is executed, and rests or is dropped.
LEMMA FiredIsPlaced ==
    ASSUME QueuesFresh, OnePlace, NEW t \in fired, fired' = fired \ {t},
           UNCHANGED <<inbound, sent, batch, stops, acked>>,
           live' \subseteq live \cup {t}
    PROVE  QueuesFresh' /\ OnePlace'
<1>1. Placed' \subseteq Placed
  BY DEF Placed
<1>2. QueuesFresh'
  BY <1>1 DEF QueuesFresh, Fresh, NoRepeats
<1>3. OnePlace'
  BY DEF OnePlace
<1> QED  BY <1>2, <1>3

-------------------------------------------------------------------------------
(* Each action keeps the invariant: the clients.                            *)

\* The fields of a ticket that the steps read.
LEMMA TicketFields ==
    ASSUME NEW o \in Orders
    PROVE  /\ Ticket[o].side \in Sides /\ Ticket[o].type \in OrderTypes
           /\ Ticket[o].price \in Nat /\ Ticket[o].qty \in Nat
           /\ Ticket[o].iceberg \in Nat /\ Ticket[o].stopPrice \in Nat
<1>1. Ticket[o] \in Tickets
  BY TicketAssumption
<1> QED  BY <1>1 DEF Tickets

\* The initial states satisfy the invariant.
LEMMA InitInv == Init => EngineInv
<1> SUFFICES ASSUME Init PROVE EngineInv
  OBVIOUS
<1>1. TypeOK
  <2>1. kind \in [Orders -> OrderTypes] /\ remaining \in [Orders -> Nat]
    BY TicketFields DEF Init
  <2>2. status \in [Orders -> Statuses] /\ filled \in [Orders -> Nat]
    BY DEF Init, Statuses
  <2>3. /\ inbound \in Seq(Orders) /\ batch \in Seq(Orders) /\ cancels \in Seq(CancelOps)
        /\ fills \in Seq(Fills) /\ journal \in Seq(Records)
    BY DEF Init
  <2>4. heap \in [Sides -> SUBSET Orders]
    BY DEF Init
  <2>5. /\ sent \in SUBSET Orders /\ fired \in SUBSET Orders /\ live \in SUBSET Orders
        /\ stops \in SUBSET Orders /\ acked \in SUBSET Orders
        /\ answered \in SUBSET Orders /\ halted \in SUBSET Orders
    BY DEF Init
  <2>6. /\ stopped \in BOOLEAN /\ slice \in Nat /\ lastPrice \in Nat
        /\ taker \in Orders \cup {NoOrder}
        /\ pc \in {"idle", "drain", "batch", "match", "finish", "stops", "exited"}
    BY DEF Init
  <2> QED  BY <2>1, <2>2, <2>3, <2>4, <2>5, <2>6 DEF TypeOK
<1>2. QuantityConserved
  BY TicketFields DEF Init, QuantityConserved
<1>3. QueuesFresh /\ OnePlace
  BY DEF Init, QueuesFresh, NoRepeats, Fresh, Placed, OnePlace
<1>4. InProgress /\ Untouched /\ SliceFits /\ RestingHasSide
  BY DEF Init, InProgress, Untouched, SliceFits, RestingHasSide
<1> QED  BY <1>1, <1>2, <1>3, <1>4 DEF EngineInv

\* A new order joins the queue, fresh and untouched.
LEMMA SubmitStep ==
    ASSUME EngineInv, NEW o \in Orders, Submit(o) PROVE EngineInv'
<1> USE DEF EngineInv, clientVars, loopVars, orderVars, bookVars, outVars
<1>0. inbound \in Seq(Orders)
  BY DEF TypeOK
<1>1. TypeOK'
  <2>1. inbound' \in Seq(Orders) /\ sent' \in SUBSET Orders
    BY DEF Submit, TypeOK
  <2> QED  BY <2>1 DEF Submit, TypeOK
<1>2. QueuesFresh'
  <2>1. /\ o \notin sent /\ inbound' = Append(inbound, o) /\ sent' = sent \cup {o}
        /\ UNCHANGED <<batch, live, stops, fired, acked>>
    BY DEF Submit
  <2>2. Placed' = Placed /\ o \notin Placed /\ Placed \subseteq sent
    BY <2>1 DEF Placed, QueuesFresh
  <2>3. \A i \in DOMAIN inbound' :
           IF i \in DOMAIN inbound THEN inbound'[i] = inbound[i]
                                   ELSE i = Len(inbound) + 1 /\ inbound'[i] = o
    BY <1>0, <2>1, AppendAt
  <2>4. \A i \in DOMAIN inbound : inbound[i] # o
    BY <2>1 DEF QueuesFresh, Fresh
  <2>5. \A j \in DOMAIN batch : batch[j] # o
    BY <2>1 DEF QueuesFresh, Fresh
  <2>6. NoRepeats(inbound)'
    BY <2>3, <2>4 DEF QueuesFresh, NoRepeats
  <2>7. NoRepeats(batch)' /\ Fresh(batch)'
    BY <2>1, <2>2 DEF QueuesFresh, NoRepeats, Fresh
  <2>8. Fresh(inbound)'
    BY <2>1, <2>2, <2>3 DEF QueuesFresh, Fresh
  <2>9. \A i \in DOMAIN inbound' : \A j \in DOMAIN batch' : inbound'[i] # batch'[j]
    BY <2>1, <2>3, <2>5 DEF QueuesFresh
  <2> QED  BY <2>1, <2>2, <2>6, <2>7, <2>8, <2>9 DEF QueuesFresh
<1>3. OnePlace' /\ InProgress' /\ SliceFits' /\ RestingHasSide' /\ QuantityConserved'
  BY DEF Submit, OnePlace, InProgress, SliceFits, RestingHasSide, QuantityConserved
<1>4. Untouched'
  <2>1. \A i \in DOMAIN inbound' : filled[inbound'[i]] = 0
    <3>1. /\ \A i \in DOMAIN inbound' : inbound'[i] = o \/
                (i \in DOMAIN inbound /\ inbound'[i] = inbound[i])
          /\ o \notin sent
      BY <1>0, AppendAt DEF Submit
    <3> QED  BY <3>1 DEF Untouched
  <2> QED  BY <2>1 DEF Submit, Untouched
<1> QED  BY <1>1, <1>2, <1>3, <1>4

\* A step that moves no order and changes none keeps all but the types.
LEMMA NothingMoves ==
    ASSUME EngineInv, UNCHANGED <<inbound, sent, batch, fired, taker, live, stops,
                                  acked, filled, remaining>>
    PROVE  QueuesFresh' /\ OnePlace' /\ Untouched' /\ QuantityConserved'
<1>1. QueuesFresh' /\ OnePlace'
  BY LeavingKeepsPlaces DEF EngineInv
<1>2. Untouched' /\ QuantityConserved'
  BY DEF EngineInv, Untouched, QuantityConserved
<1> QED  BY <1>1, <1>2

\* Purging never drops an order that is alive, on either side.
LEMMA PurgeKeeps ==
    ASSUME TypeOK, NEW s \in Sides
    PROVE  /\ Purged(s) \in SUBSET Orders
           /\ Purged(s) \subseteq heap[s]
           /\ \A o \in heap[s] : Alive(o) => o \in Purged(s)
  BY DEF TypeOK, Purged

\* The heap that purging leaves holds what is alive, and nothing new.
LEMMA PurgedHeap ==
    ASSUME TypeOK, NEW s \in Sides, heap' = [heap EXCEPT ![s] = Purged(s)]
    PROVE  /\ heap' \in [Sides -> SUBSET Orders]
           /\ \A x \in Orders : x \in heap[Ticket[x].side] /\ Alive(x) =>
                 x \in heap'[Ticket[x].side]
<1>1. heap \in [Sides -> SUBSET Orders] /\ Purged(s) \in SUBSET Orders
  BY PurgeKeeps DEF TypeOK
<1>2. ASSUME NEW x \in Orders, x \in heap[Ticket[x].side], Alive(x)
      PROVE  x \in heap'[Ticket[x].side]
  <2>1. heap'[Ticket[x].side] = IF Ticket[x].side = s THEN Purged(s) ELSE heap[Ticket[x].side]
    BY <1>1, TicketFields
  <2> QED  BY <1>2, <2>1, PurgeKeeps
<1> QED  BY <1>1, <1>2

\* A cancel request, a reader of the best price and a stop move no order.
LEMMA ClientRestStep ==
    ASSUME EngineInv,
           \/ \E o \in Orders : \E u \in Cancellers : RequestCancel(o, u)
           \/ \E s \in Sides : ReadBest(s)
           \/ Stop
    PROVE  EngineInv'
<1> USE DEF EngineInv, clientVars, loopVars, orderVars, bookVars, outVars
<1>1. CASE \E o \in Orders : \E u \in Cancellers : RequestCancel(o, u)
  <2>0. PICK o \in Orders, u \in Cancellers : RequestCancel(o, u)
    BY <1>1
  <2>1. [order |-> o, user |-> u] \in CancelOps
    BY EngineAssumption DEF CancelOps
  <2>2. TypeOK'
    <3>1. cancels' \in Seq(CancelOps)
      BY <2>0, <2>1 DEF RequestCancel, TypeOK
    <3> QED  BY <2>0, <3>1 DEF RequestCancel, TypeOK
  <2>3. QueuesFresh' /\ OnePlace' /\ Untouched' /\ QuantityConserved'
    BY <2>0, NothingMoves DEF RequestCancel
  <2>4. InProgress' /\ SliceFits' /\ RestingHasSide'
    BY <2>0 DEF RequestCancel, InProgress, SliceFits, RestingHasSide
  <2> QED  BY <2>2, <2>3, <2>4
<1>2. CASE \E s \in Sides : ReadBest(s)
  <2>0. PICK s \in Sides : ReadBest(s)
    BY <1>2
  <2>1. heap' = [heap EXCEPT ![s] = Purged(s)]
    BY <2>0 DEF ReadBest
  <2>2. TypeOK'
    BY <2>0, <2>1, PurgeKeeps DEF ReadBest, TypeOK
  <2>3. QueuesFresh' /\ OnePlace' /\ Untouched' /\ QuantityConserved'
    BY <2>0, NothingMoves DEF ReadBest
  <2>4. InProgress' /\ SliceFits'
    BY <2>0 DEF ReadBest, InProgress, SliceFits
  <2>5. RestingHasSide'
    <3>1. \A o \in live : o \in heap'[Ticket[o].side]
      BY <2>1, PurgeKeeps DEF RestingHasSide, Alive, TypeOK
    <3> QED  BY <2>0, <3>1 DEF ReadBest, RestingHasSide
  <2> QED  BY <2>2, <2>3, <2>4, <2>5
<1>3. CASE Stop
  <2>1. TypeOK'
    BY <1>3 DEF Stop, TypeOK
  <2>2. QueuesFresh' /\ OnePlace' /\ Untouched' /\ QuantityConserved'
    BY <1>3, NothingMoves DEF Stop
  <2>3. InProgress' /\ SliceFits' /\ RestingHasSide'
    BY <1>3 DEF Stop, InProgress, SliceFits, RestingHasSide
  <2> QED  BY <2>1, <2>2, <2>3
<1> QED  BY <1>1, <1>2, <1>3

-------------------------------------------------------------------------------
(* The engine's loop and the cancels.                                       *)

\* The loop steps of the engine that move no order.
LEMMA LoopStep ==
    ASSUME EngineInv, Exit \/ Poll \/ EndStops PROVE EngineInv'
<1> USE DEF EngineInv, clientVars, loopVars, orderVars, bookVars, outVars
<1>1. TypeOK'
  BY DEF Exit, Poll, EndStops, TypeOK
<1>2. QueuesFresh' /\ OnePlace' /\ Untouched' /\ QuantityConserved'
  BY NothingMoves DEF Exit, Poll, EndStops
<1>3. InProgress' /\ SliceFits' /\ RestingHasSide'
  BY DEF Exit, Poll, EndStops, InProgress, SliceFits, RestingHasSide
<1> QED  BY <1>1, <1>2, <1>3

\* Draining makes the ring the batch.
LEMMA DrainStep ==
    ASSUME EngineInv, Drain PROVE EngineInv'
<1> USE DEF EngineInv, clientVars, loopVars, orderVars, bookVars, outVars
<1>1. TypeOK'
  BY DEF Drain, TypeOK
<1>2. QueuesFresh'
  <2>1. batch' = inbound /\ inbound' = <<>>
    BY DEF Drain
  <2>2. Placed' = Placed
    BY DEF Drain, Placed
  <2>3. NoRepeats(batch)' /\ Fresh(batch)'
    BY <2>1, <2>2 DEF Drain, QueuesFresh, NoRepeats, Fresh
  <2>4. NoRepeats(inbound)' /\ Fresh(inbound)'
    BY <2>1 DEF NoRepeats, Fresh
  <2>5. Placed' \subseteq sent'
    BY <2>2 DEF Drain, QueuesFresh
  <2> QED  BY <2>1, <2>3, <2>4, <2>5 DEF QueuesFresh
<1>3. OnePlace' /\ QuantityConserved' /\ RestingHasSide'
  BY DEF Drain, OnePlace, QuantityConserved, RestingHasSide
<1>4. InProgress' /\ Untouched' /\ SliceFits'
  BY DEF Drain, InProgress, Untouched, SliceFits
<1> QED  BY <1>1, <1>2, <1>3, <1>4

\* A cancel takes its order off the book for good, or does nothing.
LEMMA ProcessCancelStep ==
    ASSUME EngineInv, ProcessCancel PROVE EngineInv'
<1> USE DEF EngineInv, clientVars, loopVars, orderVars, bookVars, outVars
<1> DEFINE o == Head(cancels).order
<1>0. cancels \in Seq(CancelOps) /\ cancels # <<>>
  BY DEF ProcessCancel, TypeOK
<1>1. Head(cancels) \in CancelOps /\ Tail(cancels) \in Seq(CancelOps)
  BY <1>0, TailAt
<1>2. o \in Orders /\ CancelRecord(o) \in Records
  BY <1>1 DEF CancelOps, Records
<1>3. /\ live' = live \/ (o \in live /\ live' = live \ {o})
      /\ status' \in [Orders -> Statuses]
      /\ acked' = acked \/ (o \in live /\ live' = live \ {o} /\ acked' = acked \cup {o})
      /\ live' \subseteq live
  <2>1. CASE o \in live /\ Head(cancels).user \in {"", Ticket[o].user}
    BY <1>2, <2>1 DEF ProcessCancel, TypeOK, Statuses
  <2>2. CASE ~(o \in live /\ Head(cancels).user \in {"", Ticket[o].user})
    BY <1>2, <2>2 DEF ProcessCancel, TypeOK
  <2> QED  BY <2>1, <2>2
<1>4. TypeOK'
  <2>0. journal' = Append(journal, CancelRecord(o))
    BY DEF ProcessCancel
  <2>1. journal' \in Seq(Records)
    BY <1>2, <2>0 DEF TypeOK
  <2>2. cancels' \in Seq(CancelOps)
    BY <1>1 DEF ProcessCancel
  <2>3. live' \in SUBSET Orders /\ acked' \in SUBSET Orders
    BY <1>2, <1>3 DEF TypeOK
  <2> QED  BY <1>3, <2>1, <2>2, <2>3 DEF ProcessCancel, TypeOK
<1>5. QueuesFresh' /\ OnePlace'
  BY <1>3, LeavingKeepsPlaces DEF ProcessCancel
<1>6. InProgress' /\ Untouched' /\ SliceFits' /\ RestingHasSide' /\ QuantityConserved'
  BY <1>3 DEF ProcessCancel, InProgress, Untouched, SliceFits, RestingHasSide, QuantityConserved
<1> QED  BY <1>4, <1>5, <1>6

-------------------------------------------------------------------------------
(* processOrder, up to the match loop.                                      *)

\* The order that processOrder works on, and its journal record.
LEMMA ProcessingFacts ==
    ASSUME EngineInv, NEW o \in Orders, Processing(o)
    PROVE  /\ pc = "batch" /\ batch # <<>> /\ o = Head(batch) /\ fired = {}
           /\ Tail(batch) \in Seq(Orders)
           /\ o \notin live /\ o \notin stops /\ remaining[o] = Ticket[o].qty
           /\ Append(journal, OrderRecord(o)) \in Seq(Records)
<1>1. pc = "batch" /\ batch # <<>> /\ o = Head(batch) /\ batch \in Seq(Orders)
  BY DEF Processing, EngineInv, TypeOK
<1>2. 1 \in DOMAIN batch /\ o = batch[1] /\ Tail(batch) \in Seq(Orders)
  BY <1>1, TailAt
<1>3. o \notin Placed
  BY <1>2 DEF EngineInv, QueuesFresh, Fresh
<1>4. Append(journal, OrderRecord(o)) \in Seq(Records)
  <2>1. OrderRecord(o) \in Records /\ journal \in Seq(Records)
    BY DEF EngineInv, TypeOK, Records
  <2> QED  BY <2>1, AppendAt
<1>5. remaining[o] = Ticket[o].qty
  <2>1. taker # o
    BY <1>1, EngineAssumption DEF EngineInv, InProgress
  <2>2. filled[o] = 0
    BY <1>2, <2>1 DEF EngineInv, Untouched
  <2> QED  BY <2>2 DEF EngineInv, TypeOK, QuantityConserved
<1> QED  BY <1>1, <1>2, <1>3, <1>4, <1>5 DEF EngineInv, InProgress, Placed

\* The rest of the batch is as untouched as the whole of it.
LEMMA TailUntouched ==
    ASSUME TypeOK, QueuesFresh, Untouched, batch # <<>>, batch' = Tail(batch),
           UNCHANGED <<inbound, sent, filled>>,
           taker' = taker \/ taker = Head(batch)
    PROVE  Untouched'
<1>1. ASSUME NEW i \in DOMAIN Tail(batch)
      PROVE  filled[Tail(batch)[i]] = 0 \/ Tail(batch)[i] = taker'
  <2>0. batch \in Seq(Orders) /\ NoRepeats(batch)
    BY DEF TypeOK, QueuesFresh
  <2>1. i + 1 \in DOMAIN batch /\ Tail(batch)[i] = batch[i + 1] /\ Tail(batch)[i] # Head(batch)
    BY <2>0, TailAt, TailNoRepeats
  <2>2. filled[batch[i + 1]] = 0 \/ batch[i + 1] = taker
    BY <2>1 DEF Untouched
  <2> QED  BY <2>1, <2>2
<1> QED  BY <1>1 DEF Untouched

\* An order without a quantity is dropped.
LEMMA RejectEmptyStep ==
    ASSUME EngineInv, NEW o \in Orders, RejectEmpty(o) PROVE EngineInv'
<1> USE DEF clientVars, bookVars
<1>0. TypeOK /\ QueuesFresh /\ OnePlace
  BY DEF EngineInv
<1>1. Processing(o)
  BY DEF RejectEmpty
<1>2. TypeOK'
  <2>1. journal' \in Seq(Records) /\ batch' \in Seq(Orders)
    BY <1>1, ProcessingFacts DEF RejectEmpty, Journal
  <2>2. status' \in [Orders -> Statuses]
    BY <1>0 DEF RejectEmpty, TypeOK, Statuses
  <2> QED  BY <1>0, <2>1, <2>2 DEF RejectEmpty, TypeOK
<1>3. QueuesFresh' /\ OnePlace'
  BY <1>0, <1>1, ProcessingFacts, HeadIsPlaced DEF RejectEmpty
<1>4. InProgress' /\ SliceFits'
  BY <1>1, ProcessingFacts DEF EngineInv, RejectEmpty, InProgress, SliceFits
<1>5. RestingHasSide' /\ QuantityConserved'
  BY DEF EngineInv, RejectEmpty, RestingHasSide, QuantityConserved
<1>6. Untouched'
  BY <1>0, <1>1, ProcessingFacts, TailUntouched DEF EngineInv, RejectEmpty
<1> QED  BY <1>2, <1>3, <1>4, <1>5, <1>6 DEF EngineInv

\* A step that ends processOrder without a match: the order rests, is parked
\* or is rejected, and the heaps lose only stale entries.
LEMMA SettleStep ==
    ASSUME EngineInv, NEW o \in Orders, Processing(o), Ticket[o].qty > 0,
           Journal(o), NEW s \in Statuses, Settle(o, s),
           live' \subseteq live \cup {o}, stops' \subseteq stops \cup {o},
           live' = live \/ stops' = stops,
           heap' \in [Sides -> SUBSET Orders],
           \A x \in live' : x \in live => x \in heap'[Ticket[x].side],
           o \in live' => o \in heap'[Ticket[o].side]
    PROVE  EngineInv'
<1> USE DEF clientVars
<1>0. TypeOK /\ QueuesFresh /\ OnePlace
  BY DEF EngineInv
<1>2. TypeOK'
  <2>1. journal' \in Seq(Records) /\ batch' \in Seq(Orders)
    BY ProcessingFacts DEF Settle, Journal
  <2>2. status' \in [Orders -> Statuses]
    BY <1>0 DEF Settle, TypeOK
  <2>3. live' \in SUBSET Orders /\ stops' \in SUBSET Orders /\ answered' \in SUBSET Orders
    BY <1>0 DEF Settle, TypeOK
  <2> QED  BY <1>0, <2>1, <2>2, <2>3 DEF Settle, TypeOK
<1>3. QueuesFresh' /\ OnePlace'
  BY <1>0, ProcessingFacts, HeadIsPlaced DEF Settle
<1>4. InProgress' /\ SliceFits'
  BY ProcessingFacts DEF EngineInv, Settle, InProgress, SliceFits
<1>5. RestingHasSide' /\ QuantityConserved'
  BY ProcessingFacts DEF EngineInv, Settle, RestingHasSide, QuantityConserved
<1>6. Untouched'
  BY <1>0, ProcessingFacts, TailUntouched DEF EngineInv, Settle
<1> QED  BY <1>2, <1>3, <1>4, <1>5, <1>6 DEF EngineInv

\* A post-only order rests or is rejected.
LEMMA ProcessPostOnlyStep ==
    ASSUME EngineInv, NEW o \in Orders, ProcessPostOnly(o) PROVE EngineInv'
<1> DEFINE s == Ticket[o].side
           t == Opposite(Ticket[o].side)
<1>0. TypeOK /\ RestingHasSide /\ Processing(o) /\ Ticket[o].qty > 0 /\ Journal(o)
  BY DEF EngineInv, ProcessPostOnly
<1>1. s \in Sides /\ t \in Sides
  BY TicketFields DEF Opposite, Sides
<1>2. \A x \in live : x \in heap[Ticket[x].side] /\ Alive(x)
  BY <1>0 DEF RestingHasSide, Alive
<1>3. "Rejected" \in Statuses /\ "New" \in Statuses
  BY DEF Statuses
<1>4. UNCHANGED stops
  BY DEF ProcessPostOnly
<1>5. ASSUME Settle(o, "Rejected"), live' = live,
             heap' = heap \/ heap' = [heap EXCEPT ![t] = Purged(t)]
      PROVE  EngineInv'
  <2>1. heap' \in [Sides -> SUBSET Orders]
    BY <1>0, <1>1, <1>5, PurgedHeap DEF TypeOK
  <2>2. \A x \in live : x \in heap'[Ticket[x].side]
    <3>1. \A x \in live : x \in Orders
      BY <1>0 DEF TypeOK
    <3> QED  BY <1>0, <1>1, <1>2, <1>5, <3>1, PurgedHeap
  <2>3. o \notin live
    BY <1>0, ProcessingFacts
  <2> QED  BY <1>0, <1>3, <1>4, <1>5, <2>1, <2>2, <2>3, SettleStep
<1>6. ASSUME Settle(o, "New"), live' = live \cup {o},
             heap' = [x \in Sides |-> IF x = s THEN heap[x] \cup {o} ELSE Purged(x)]
      PROVE  EngineInv'
  <2>1. heap' \in [Sides -> SUBSET Orders]
    BY <1>0, <1>6, PurgeKeeps DEF TypeOK
  <2>2. \A x \in live : x \in heap'[Ticket[x].side]
    <3> SUFFICES ASSUME NEW x \in live PROVE x \in heap'[Ticket[x].side]
      OBVIOUS
    <3>1. x \in Orders /\ Ticket[x].side \in Sides
      BY <1>0, TicketFields DEF TypeOK
    <3>2. x \in Purged(Ticket[x].side)
      BY <1>0, <1>2, <3>1, PurgeKeeps
    <3> QED  BY <1>2, <1>6, <3>1, <3>2
  <2>3. o \in heap'[s]
    BY <1>1, <1>6
  <2> QED  BY <1>0, <1>3, <1>4, <1>6, <2>1, <2>2, <2>3, SettleStep
<1>7. CASE Ticket[o].price = 0
  BY <1>5, <1>7 DEF ProcessPostOnly
<1>8. CASE Ticket[o].price > 0 /\ WouldCross(o)
  BY <1>5, <1>8 DEF ProcessPostOnly
<1>9. CASE Ticket[o].price > 0 /\ ~WouldCross(o)
  BY <1>6, <1>9 DEF ProcessPostOnly
<1> QED  BY <1>7, <1>8, <1>9, TicketFields

\* A stop order is parked; a fill-or-kill order without liquidity is dropped.
LEMMA ParkOrRejectStep ==
    ASSUME EngineInv, NEW o \in Orders, ParkStop(o) \/ RejectFok(o) PROVE EngineInv'
<1>1. /\ Processing(o) /\ Ticket[o].qty > 0 /\ Journal(o)
      /\ UNCHANGED <<live, heap>>
      /\ \E s \in Statuses : Settle(o, s)
      /\ stops' \subseteq stops \cup {o}
  BY DEF ParkStop, RejectFok, Statuses
<1>2. heap' \in [Sides -> SUBSET Orders]
  BY <1>1 DEF EngineInv, TypeOK
<1>3. \A x \in live' : x \in heap'[Ticket[x].side]
  BY <1>1 DEF EngineInv, RestingHasSide
<1> QED  BY <1>1, <1>2, <1>3, SettleStep

\* The match loop is entered with the head of the batch or a triggered order.
LEMMA EnterMatchStep ==
    ASSUME EngineInv, NEW o \in Orders, EnterMatch(o), pc \in {"batch", "stops"},
           IF fired = {} THEN batch # <<>> /\ o = Head(batch) ELSE batch = <<>> /\ o \in fired,
           journal' \in Seq(Records)
    PROVE  EngineInv'
<1> USE DEF clientVars, bookVars
<1>0. TypeOK
  BY DEF EngineInv
<1>1. kind' = [kind EXCEPT ![o] = KindWhenMatched(o)] /\ KindWhenMatched(o) \in OrderTypes
  BY <1>0 DEF EnterMatch, KindWhenMatched, TypeOK, OrderTypes
<1>2. TypeOK'
  <2>1. kind' \in [Orders -> OrderTypes]
    BY <1>0, <1>1 DEF TypeOK
  <2> QED  BY <1>0, <2>1 DEF EnterMatch, TypeOK
<1>3. QueuesFresh' /\ OnePlace'
  BY LeavingKeepsPlaces DEF EngineInv, EnterMatch
<1>4. InProgress'
  BY DEF EnterMatch, InProgress
<1>5. Untouched'
  <2>1. taker = NoOrder
    BY DEF EngineInv, InProgress
  <2>2. \A i \in DOMAIN batch : batch[i] # NoOrder
    BY <1>0, EngineAssumption DEF TypeOK
  <2> QED  BY <2>1, <2>2 DEF EngineInv, EnterMatch, Untouched
<1>6. SliceFits'
  <2>1. pc' = "match" => kind'[o] # "Iceberg"
    BY <1>0, <1>1 DEF EnterMatch, KindWhenMatched, TypeOK
  <2> QED  BY <2>1 DEF EnterMatch, SliceFits
<1>7. RestingHasSide' /\ QuantityConserved'
  BY DEF EngineInv, EnterMatch, RestingHasSide, QuantityConserved
<1> QED  BY <1>2, <1>3, <1>4, <1>5, <1>6, <1>7 DEF EngineInv

\* Both ways into the match loop.
LEMMA StartStep ==
    ASSUME EngineInv, NEW o \in Orders, StartMatch(o) \/ FireStop(o) PROVE EngineInv'
<1>1. CASE StartMatch(o)
  <2>1. Processing(o) /\ EnterMatch(o) /\ journal' = Append(journal, OrderRecord(o))
    BY <1>1 DEF StartMatch, Journal
  <2> QED  BY <2>1, ProcessingFacts, EnterMatchStep
<1>2. CASE FireStop(o)
  <2>1. pc = "stops" /\ o \in fired /\ EnterMatch(o) /\ UNCHANGED journal
    BY <1>2 DEF FireStop
  <2>2. batch = <<>> /\ fired # {} /\ journal \in Seq(Records)
    BY <2>1 DEF EngineInv, InProgress, TypeOK
  <2> QED  BY <2>1, <2>2, EnterMatchStep
<1> QED  BY <1>1, <1>2

\* Triggered stop orders move from the parked to the fired ones.
LEMMA TriggerStopsStep ==
    ASSUME EngineInv, TriggerStops PROVE EngineInv'
<1> USE DEF EngineInv, clientVars, orderVars, outVars
<1>0. fired = {} /\ taker = NoOrder /\ batch = <<>>
  BY DEF TriggerStops, InProgress
<1>1. /\ stops' \subseteq stops /\ fired' \subseteq stops /\ stops' \cap fired' = {}
  BY DEF TriggerStops
<1>2. TypeOK'
  BY <1>1 DEF TriggerStops, TypeOK
<1>3. QueuesFresh'
  <2>1. Placed' \subseteq Placed
    BY <1>0, <1>1 DEF TriggerStops, Placed
  <2> QED  BY <2>1 DEF TriggerStops, QueuesFresh, Fresh, NoRepeats
<1>4. OnePlace'
  BY <1>0, <1>1 DEF TriggerStops, OnePlace
<1>5. InProgress' /\ SliceFits'
  BY <1>0 DEF TriggerStops, InProgress, SliceFits
<1>6. Untouched' /\ RestingHasSide' /\ QuantityConserved'
  BY DEF TriggerStops, Untouched, RestingHasSide, QuantityConserved
<1> QED  BY <1>2, <1>3, <1>4, <1>5, <1>6

-------------------------------------------------------------------------------
(* The match loop.                                                          *)

\* The order in progress while the loop runs.
LEMMA TakerFacts ==
    ASSUME EngineInv, pc \in {"match", "finish"}
    PROVE  /\ taker \in Orders /\ Opposite(Ticket[taker].side) \in Sides
           /\ taker \notin live /\ taker \notin stops /\ taker \notin acked
           /\ taker \in sent
           /\ \A i \in DOMAIN inbound : inbound[i] # taker
<1>0. TypeOK /\ QueuesFresh /\ OnePlace /\ InProgress
  BY DEF EngineInv
<1>1. taker \in Orders
  BY <1>0 DEF InProgress
<1>2. Opposite(Ticket[taker].side) \in Sides
  BY <1>1, TicketFields DEF Opposite, Sides
<1>3. CASE fired = {}
  <2>1. batch # <<>> /\ taker = Head(batch) /\ batch \in Seq(Orders)
    BY <1>0, <1>3 DEF InProgress, TypeOK
  <2>2. 1 \in DOMAIN batch /\ taker = batch[1]
    BY <2>1, TailAt
  <2> QED  BY <1>0, <1>1, <1>2, <2>2 DEF QueuesFresh, Fresh, Placed
<1>4. CASE fired # {}
  <2>1. taker \in fired
    BY <1>0, <1>4 DEF InProgress
  <2> QED  BY <1>0, <1>1, <1>2, <2>1 DEF OnePlace, QueuesFresh, Fresh, Placed
<1> QED  BY <1>3, <1>4

\* The order the loop meets rests on the book, and is not the taker.
LEMMA MeetsFacts ==
    ASSUME EngineInv, NEW b \in Orders, Meets(b)
    PROVE  /\ pc = "match" /\ b \in live /\ b # taker
           /\ Want \in Nat /\ Want > 0 /\ Want <= remaining[taker]
           /\ remaining[b] \in Nat /\ remaining[b] > 0
<1>1. pc = "match" /\ b \in live /\ remaining[b] > 0 /\ Want > 0
  BY DEF Meets, IsBest, Alive
<1>2. taker \in Orders /\ taker \notin live
  BY <1>1, TakerFacts
<1>3. Want \in Nat /\ Want <= remaining[taker]
  BY <1>1, <1>2 DEF EngineInv, TypeOK, SliceFits, Want
<1> QED  BY <1>1, <1>2, <1>3 DEF EngineInv, TypeOK

\* A fill: taker and maker give up the same quantity, and a used-up maker goes.
LEMMA FillStep ==
    ASSUME EngineInv, NEW b \in Orders, Fill(b) PROVE EngineInv'
<1> DEFINE q == SmallerOf(Want, remaining[b])
<1> USE DEF clientVars
<1>0. TypeOK /\ QueuesFresh /\ OnePlace /\ InProgress /\ Untouched /\ QuantityConserved
      /\ RestingHasSide
  BY DEF EngineInv
<1>t. /\ filled \in [Orders -> Nat] /\ remaining \in [Orders -> Nat]
      /\ live \in SUBSET Orders /\ slice \in Nat /\ kind \in [Orders -> OrderTypes]
  BY <1>0 DEF TypeOK
<1>1. Meets(b)
  BY DEF Fill
<1>2. /\ pc = "match" /\ b \in live /\ b # taker /\ taker \in Orders /\ taker \notin live
      /\ Want \in Nat /\ Want <= remaining[taker] /\ remaining[b] \in Nat
      /\ \A i \in DOMAIN inbound : inbound[i] # taker
      /\ taker \in sent
  BY <1>1, MeetsFacts, TakerFacts
<1>3. q \in Nat /\ q <= remaining[b] /\ q <= Want /\ q <= remaining[taker]
  BY <1>0, <1>2 DEF SmallerOf, TypeOK
<1>4. /\ filled' = [filled EXCEPT ![taker] = @ + q, ![b] = @ + q]
      /\ remaining' = [remaining EXCEPT ![taker] = @ - q, ![b] = @ - q]
      /\ live' = IF remaining[b] = q THEN live \ {b} ELSE live
      /\ slice' = IF kind[taker] = "Iceberg" THEN slice - q ELSE slice
      /\ UNCHANGED <<inbound, sent, cancels, stopped, pc, batch, fired, taker, kind, stops,
                     journal, acked, answered, halted>>
  BY DEF Fill, FilledAfter, RemainingAfter, UsedUp
<1>5. /\ filled' \in [Orders -> Nat] /\ remaining' \in [Orders -> Nat]
      /\ \A o \in Orders \ {taker, b} : filled'[o] = filled[o] /\ remaining'[o] = remaining[o]
      /\ filled'[b] = filled[b] + q /\ remaining'[b] = remaining[b] - q
      /\ filled'[taker] = filled[taker] + q /\ remaining'[taker] = remaining[taker] - q
  <2> HIDE DEF q
  <2>1. remaining[taker] - q \in Nat /\ remaining[b] - q \in Nat
        /\ filled[taker] + q \in Nat /\ filled[b] + q \in Nat
    BY <1>2, <1>3, <1>t
  <2> QED  BY <1>2, <1>4, <1>t, <2>1
<1>6. /\ heap' \in [Sides -> SUBSET Orders]
      /\ \A x \in live : x \in heap'[Ticket[x].side]
  <2>1. heap' = [heap EXCEPT ![Opposite(Ticket[taker].side)] =
                                Purged(Opposite(Ticket[taker].side))]
    BY DEF Fill, PurgeOpposite
  <2>2. Opposite(Ticket[taker].side) \in Sides
    BY <1>2, TakerFacts
  <2>3. \A x \in live : x \in Orders /\ x \in heap[Ticket[x].side] /\ Alive(x)
    BY <1>0 DEF TypeOK, RestingHasSide, Alive
  <2> QED  BY <1>0, <2>1, <2>2, <2>3, PurgedHeap
<1>7. status' \in [Orders -> Statuses]
  <2>1. PICK r1, r2 : /\ status' = [status EXCEPT ![taker] = r1, ![b] = r2]
                      /\ r1 \in Statuses /\ r2 \in Statuses
    <3>1. status[taker] \in Statuses
      BY <1>0, <1>2 DEF TypeOK
    <3> QED  BY <3>1 DEF Fill, Statuses
  <2> QED  BY <1>0, <2>1 DEF TypeOK
<1>8. fills' \in Seq(Fills) /\ lastPrice' \in Nat
  <2>1. PICK x, y : fills' = Append(fills, [taker |-> taker, maker |-> b, qty |-> q,
                        price |-> Ticket[b].price, takerFilled |-> x, makerFilled |-> y])
                    /\ x \in BOOLEAN /\ y \in BOOLEAN
    BY DEF Fill, UsedUp
  <2>2. Ticket[b].price \in Nat
    BY TicketFields
  <2>3. [taker |-> taker, maker |-> b, qty |-> q,
         price |-> Ticket[b].price, takerFilled |-> x, makerFilled |-> y] \in Fills
    BY <1>2, <1>3, <2>1, <2>2 DEF Fills
  <2>4. fills \in Seq(Fills)
    BY <1>0 DEF TypeOK
  <2> HIDE DEF q
  <2> QED  BY <2>1, <2>2, <2>3, <2>4, AppendAt DEF Fill
<1>9. slice' \in Nat /\ SliceFits'
  <2>1. CASE kind[taker] = "Iceberg"
    <3>1. Want = slice
      BY <2>1 DEF Want
    <3>2. q <= slice /\ slice <= remaining[taker]
      BY <1>2, <1>3, <2>1, <3>1
    <3> HIDE DEF q
    <3>3. slice' = slice - q /\ remaining'[taker] = remaining[taker] - q
      BY <1>4, <1>5, <2>1
    <3>4. slice' \in Nat /\ slice' <= remaining'[taker]
      BY <1>2, <1>3, <1>t, <3>2, <3>3
    <3> QED  BY <1>4, <3>4 DEF SliceFits
  <2>2. CASE kind[taker] # "Iceberg"
    BY <1>0, <1>2, <1>4, <2>2 DEF TypeOK, SliceFits
  <2> QED  BY <2>1, <2>2
<1> HIDE DEF q
<1>10. TypeOK'
  BY <1>0, <1>4, <1>5, <1>6, <1>7, <1>8, <1>9 DEF TypeOK
<1>11. QueuesFresh' /\ OnePlace'
  BY <1>0, <1>4, LeavingKeepsPlaces
<1>12. InProgress'
  BY <1>0, <1>4 DEF InProgress
<1>13. Untouched'
  <2>1. b \in sent /\ b \in Placed
    BY <1>0, <1>2 DEF QueuesFresh, Placed
  <2>2. /\ \A i \in DOMAIN inbound : inbound[i] \in Orders /\ inbound[i] # b
        /\ \A i \in DOMAIN batch : batch[i] \in Orders /\ batch[i] # b
    BY <1>0, <2>1 DEF QueuesFresh, Fresh, TypeOK
  <2> QED  BY <1>0, <1>2, <1>4, <1>5, <2>1, <2>2 DEF Untouched
<1>14. RestingHasSide'
  <2>1. \A x \in live' : x \in live /\ x \in Orders /\ x # taker /\ remaining'[x] > 0
    <3> SUFFICES ASSUME NEW x \in live' PROVE x \in live /\ x \in Orders /\ x # taker
                                             /\ remaining'[x] > 0
      OBVIOUS
    <3>1. x \in live /\ x \in Orders /\ x # taker
      BY <1>2, <1>4, <1>t
    <3>2. remaining[x] > 0
      BY <1>0, <3>1 DEF RestingHasSide
    <3>3. CASE x # b
      BY <1>5, <3>1, <3>2, <3>3
    <3>4. CASE x = b
      <4>1. remaining[b] # q
        BY <1>4, <3>4
      <4> QED  BY <1>2, <1>3, <1>5, <3>1, <3>4, <4>1
    <3> QED  BY <3>1, <3>3, <3>4
  <2> QED  BY <1>6, <2>1 DEF RestingHasSide
<1>15. QuantityConserved'
  <2> SUFFICES ASSUME NEW o \in Orders
               PROVE  filled'[o] + remaining'[o] = filled[o] + remaining[o]
    BY <1>0 DEF QuantityConserved
  <2>1. CASE o \notin {taker, b}
    BY <1>5, <2>1
  <2>2. CASE o \in {taker, b}
    BY <1>2, <1>3, <1>5, <1>t, <2>2
  <2> QED  BY <2>1, <2>2
<1> QED  BY <1>9, <1>10, <1>11, <1>12, <1>13, <1>14, <1>15 DEF EngineInv

\* Self-trade prevention takes the maker off the book, or breaks the loop.
LEMMA PreventSelfTradeStep ==
    ASSUME EngineInv, NEW b \in Orders, PreventSelfTrade(b) PROVE EngineInv'
<1> USE DEF clientVars
<1>0. TypeOK /\ QueuesFresh /\ OnePlace /\ InProgress /\ Untouched /\ QuantityConserved
      /\ RestingHasSide /\ SliceFits
  BY DEF EngineInv
<1>1. /\ pc = "match" /\ b \in live /\ taker \in Orders
      /\ Opposite(Ticket[taker].side) \in Sides
  BY MeetsFacts, TakerFacts DEF PreventSelfTrade
<1>2. /\ live' \subseteq live /\ slice' \in {0, slice} /\ pc' \in {"match", "finish"}
      /\ halted' \subseteq halted \cup {taker}
      /\ UNCHANGED <<inbound, sent, cancels, stopped, batch, fired, taker, kind, filled,
                     remaining, stops, lastPrice, fills, journal, acked, answered>>
  BY <1>1 DEF PreventSelfTrade
<1>3. /\ heap' \in [Sides -> SUBSET Orders]
      /\ \A x \in live : x \in heap'[Ticket[x].side]
  <2>1. heap' = [heap EXCEPT ![Opposite(Ticket[taker].side)] =
                                Purged(Opposite(Ticket[taker].side))]
    BY DEF PreventSelfTrade, PurgeOpposite
  <2>2. \A x \in live : x \in Orders /\ x \in heap[Ticket[x].side] /\ Alive(x)
    BY <1>0 DEF TypeOK, RestingHasSide, Alive
  <2> QED  BY <1>0, <1>1, <2>1, <2>2, PurgedHeap
<1>4. status' \in [Orders -> Statuses]
  <2>1. status[b] \in Statuses /\ status[taker] \in Statuses
    BY <1>0, <1>1 DEF TypeOK
  <2>2. PICK r1, r2 : /\ status' = [status EXCEPT ![b] = r1, ![taker] = r2]
                      /\ r1 \in {"Cancelled", status[b]} /\ (r2 = "Cancelled" \/ b = taker \/ r2 = status[taker])
    BY <1>1, MeetsFacts DEF PreventSelfTrade
  <2>3. b # taker
    BY MeetsFacts DEF PreventSelfTrade
  <2> QED  BY <1>0, <2>1, <2>2, <2>3 DEF TypeOK, Statuses
<1>5. TypeOK'
  <2>1. slice' \in Nat /\ live' \in SUBSET Orders /\ halted' \in SUBSET Orders
    BY <1>0, <1>1, <1>2 DEF TypeOK
  <2> QED  BY <1>0, <1>2, <1>3, <1>4, <2>1 DEF TypeOK
<1>6. QueuesFresh' /\ OnePlace'
  BY <1>0, <1>2, LeavingKeepsPlaces
<1>7. InProgress'
  BY <1>0, <1>1, <1>2 DEF InProgress
<1>8. SliceFits'
  <2>1. remaining[taker] \in Nat
    BY <1>0, <1>1 DEF TypeOK
  <2> QED  BY <1>0, <1>1, <1>2, <2>1 DEF SliceFits
<1>9. Untouched' /\ QuantityConserved'
  BY <1>0, <1>2 DEF Untouched, QuantityConserved
<1>10. RestingHasSide'
  BY <1>0, <1>2, <1>3 DEF RestingHasSide
<1> QED  BY <1>5, <1>6, <1>7, <1>8, <1>9, <1>10 DEF EngineInv

\* Leaving the loop moves no order.
LEMMA LeaveLoopStep ==
    ASSUME EngineInv, LeaveLoop PROVE EngineInv'
<1> USE DEF EngineInv, clientVars, orderVars, outVars
<1>0. pc = "match" /\ pc' = "finish" /\ Opposite(Ticket[taker].side) \in Sides
  BY TakerFacts DEF LeaveLoop
<1>1. /\ heap' \in [Sides -> SUBSET Orders]
      /\ \A x \in live : x \in heap'[Ticket[x].side]
  <2>1. \/ heap' = [heap EXCEPT ![Opposite(Ticket[taker].side)] =
                                   Purged(Opposite(Ticket[taker].side))]
        \/ heap' = heap
    BY DEF LeaveLoop, PurgeOpposite
  <2>2. \A x \in live : x \in Orders /\ x \in heap[Ticket[x].side] /\ Alive(x)
    BY DEF TypeOK, RestingHasSide, Alive
  <2>3. heap \in [Sides -> SUBSET Orders]
    BY DEF TypeOK
  <2> QED  BY <1>0, <2>1, <2>2, <2>3, PurgedHeap
<1>2. TypeOK'
  BY <1>0, <1>1 DEF LeaveLoop, TypeOK
<1>3. QueuesFresh' /\ OnePlace' /\ Untouched' /\ QuantityConserved'
  BY NothingMoves DEF LeaveLoop
<1>4. InProgress' /\ SliceFits'
  BY <1>0 DEF LeaveLoop, InProgress, SliceFits
<1>5. RestingHasSide'
  BY <1>1 DEF LeaveLoop, RestingHasSide
<1> QED  BY <1>2, <1>3, <1>4, <1>5

-------------------------------------------------------------------------------
(* The end of a match.                                                      *)

\* The next slice of an iceberg fits what remains of it.
LEMMA ShowSliceStep ==
    ASSUME EngineInv, ShowSlice PROVE EngineInv'
<1> USE DEF EngineInv, clientVars, orderVars, bookVars, outVars
<1>0. pc = "finish" /\ taker \in Orders
  BY TakerFacts DEF ShowSlice
<1>1. slice' \in Nat /\ slice' <= remaining[taker]
  <2>1. Ticket[taker].iceberg \in Nat /\ remaining[taker] \in Nat
    BY <1>0, TicketFields DEF TypeOK
  <2> QED  BY <2>1 DEF ShowSlice, SmallerOf
<1>2. TypeOK'
  BY <1>1 DEF ShowSlice, TypeOK
<1>3. QueuesFresh' /\ OnePlace' /\ Untouched' /\ QuantityConserved'
  BY NothingMoves DEF ShowSlice
<1>4. InProgress' /\ SliceFits' /\ RestingHasSide'
  BY <1>0, <1>1 DEF ShowSlice, InProgress, SliceFits, RestingHasSide
<1> QED  BY <1>2, <1>3, <1>4

\* The order in progress is done: it rests, with something left, or is gone.
LEMMA ReturnStep ==
    ASSUME EngineInv, pc = "finish", Return, status' \in [Orders -> Statuses],
           \/ live' = live /\ heap' = heap
           \/ AddToBook(taker) /\ remaining[taker] > 0
    PROVE  EngineInv'
<1> USE DEF clientVars
<1>0. TypeOK /\ QueuesFresh /\ OnePlace /\ InProgress /\ Untouched /\ QuantityConserved
      /\ RestingHasSide
  BY DEF EngineInv
<1>1. taker \in Orders /\ Ticket[taker].side \in Sides
  BY TakerFacts, TicketFields
<1>2. live' \subseteq live \cup {taker} /\ heap' \in [Sides -> SUBSET Orders]
  <2>1. heap \in [Sides -> SUBSET Orders]
    BY <1>0 DEF TypeOK
  <2>2. CASE AddToBook(taker)
    <3>1. heap[Ticket[taker].side] \cup {taker} \in SUBSET Orders
      BY <1>1, <2>1
    <3> QED  BY <2>1, <2>2, <3>1 DEF AddToBook
  <2> QED  BY <2>1, <2>2
<1>3. RestingHasSide'
  <2>1. \A x \in live : x \in Orders /\ Ticket[x].side \in Sides
    BY <1>0, TicketFields DEF TypeOK
  <2>2. heap \in [Sides -> SUBSET Orders] /\ remaining' = remaining
    BY <1>0 DEF TypeOK, Return
  <2> QED  BY <1>0, <1>1, <2>1, <2>2 DEF AddToBook, RestingHasSide
<1>4. QuantityConserved'
  BY <1>0 DEF Return, QuantityConserved
<1>5. ASSUME fired = {} PROVE TypeOK' /\ QueuesFresh' /\ OnePlace' /\ InProgress' /\ Untouched'
                              /\ SliceFits'
  <2>1. batch # <<>> /\ taker = Head(batch) /\ batch \in Seq(Orders)
    BY <1>0, <1>5 DEF InProgress, TypeOK
  <2>2. /\ batch' = Tail(batch) /\ pc' = "batch" /\ answered' = answered \cup {taker}
        /\ taker' = NoOrder /\ UNCHANGED <<fired, inbound, sent, acked, stops, filled, kind>>
    BY <1>5 DEF Return
  <2>3. batch' \in Seq(Orders) /\ live' \in SUBSET Orders /\ answered' \in SUBSET Orders
    BY <1>0, <1>1, <1>2, <2>1, <2>2, TailAt DEF TypeOK
  <2>4. TypeOK'
    BY <1>0, <1>2, <2>2, <2>3 DEF Return, TypeOK
  <2>5. QueuesFresh' /\ OnePlace'
    BY <1>0, <1>2, <2>1, <2>2, HeadIsPlaced
  <2>6. InProgress' /\ SliceFits'
    BY <1>5, <2>2 DEF InProgress, SliceFits
  <2>7. Untouched'
    BY <1>0, <2>1, <2>2, TailUntouched
  <2> QED  BY <2>4, <2>5, <2>6, <2>7
<1>6. ASSUME fired # {} PROVE TypeOK' /\ QueuesFresh' /\ OnePlace' /\ InProgress' /\ Untouched'
                              /\ SliceFits'
  <2>1. batch = <<>> /\ taker \in fired
    BY <1>0, <1>6 DEF InProgress
  <2>2. /\ fired' = fired \ {taker} /\ pc' = "stops" /\ taker' = NoOrder
        /\ UNCHANGED <<batch, answered, inbound, sent, acked, stops, filled, kind>>
    BY <1>6 DEF Return
  <2>3. live' \in SUBSET Orders /\ fired' \in SUBSET Orders
    BY <1>0, <1>1, <1>2, <2>2 DEF TypeOK
  <2>4. TypeOK'
    BY <1>0, <1>2, <2>2, <2>3 DEF Return, TypeOK
  <2>5. QueuesFresh' /\ OnePlace'
    BY <1>0, <1>2, <2>1, <2>2, FiredIsPlaced
  <2>6. InProgress' /\ SliceFits'
    BY <2>1, <2>2 DEF InProgress, SliceFits
  <2>7. Untouched'
    BY <1>0, <2>1, <2>2 DEF Untouched
  <2> QED  BY <2>4, <2>5, <2>6, <2>7
<1> QED  BY <1>3, <1>4, <1>5, <1>6 DEF EngineInv

\* Both tails of a match.
LEMMA FinishStep ==
    ASSUME EngineInv, RestRemainder \/ FinishUnrested PROVE EngineInv'
<1>0. status \in [Orders -> Statuses]
  BY DEF EngineInv, TypeOK
<1>1. CASE RestRemainder
  <2>1. status' \in [Orders -> Statuses]
    BY <1>0, <1>1 DEF RestRemainder, Statuses
  <2> QED  BY <1>1, <2>1, ReturnStep DEF RestRemainder, Rests
<1>2. CASE FinishUnrested
  <2>1. taker \in Orders
    BY <1>2, TakerFacts DEF FinishUnrested
  <2>2. StatusUnrested(taker) \in Statuses
    BY <1>0, <2>1 DEF StatusUnrested, Statuses
  <2>3. status' \in [Orders -> Statuses]
    BY <1>0, <1>2, <2>2 DEF FinishUnrested
  <2> QED  BY <1>2, <2>3, ReturnStep DEF FinishUnrested
<1> QED  BY <1>1, <1>2

-------------------------------------------------------------------------------
(* The theorems.                                                            *)

\* Every step of the engine and of its clients keeps the invariant.
LEMMA EngineInvStep == EngineInv /\ [Next]_vars => EngineInv'
<1> SUFFICES ASSUME EngineInv, [Next]_vars PROVE EngineInv'
  OBVIOUS
<1>1. CASE ClientStep
  BY <1>1, SubmitStep, ClientRestStep DEF ClientStep
<1>2. CASE EngineStep
  BY <1>2, LoopStep, DrainStep, ProcessCancelStep, RejectEmptyStep, ProcessPostOnlyStep,
     ParkOrRejectStep, StartStep, FillStep, PreventSelfTradeStep, LeaveLoopStep, FinishStep,
     ShowSliceStep, TriggerStopsStep DEF EngineStep
<1>3. CASE UNCHANGED vars
  <2> USE <1>3 DEF vars, clientVars, loopVars, orderVars, bookVars, outVars
  <2>1. TypeOK'
    BY DEF EngineInv, TypeOK
  <2>2. QueuesFresh' /\ OnePlace' /\ Untouched' /\ QuantityConserved'
    BY NothingMoves
  <2>3. InProgress' /\ SliceFits' /\ RestingHasSide'
    BY DEF EngineInv, InProgress, SliceFits, RestingHasSide
  <2> QED  BY <2>1, <2>2, <2>3 DEF EngineInv
<1> QED  BY <1>1, <1>2, <1>3 DEF Next

\* The inductive invariant holds in every state the engine can reach.
THEOREM EngineInvariant == Spec => []EngineInv
  BY InitInv, EngineInvStep, PTL DEF Spec

\* Every variable keeps its type; in particular no quantity goes below zero,
\* which big.Float.Sub would not report.
THEOREM TypeCorrect == Spec => []TypeOK
<1>1. EngineInv => TypeOK
  BY DEF EngineInv
<1> QED  BY <1>1, EngineInvariant, PTL

\* Matching creates and loses no quantity: every order splits what it asked
\* for into what is filled and what remains, whatever slices, stops, self-trade
\* prevention and cancels did to it.
THEOREM QuantityIsConserved == Spec => []QuantityConserved
<1>1. EngineInv => QuantityConserved
  BY DEF EngineInv
<1> QED  BY <1>1, EngineInvariant, PTL

\* Every resting order has something left, is found through the heap of its
\* side, and is not parked, triggered or acknowledged as cancelled.
THEOREM BookIsConsistent == Spec => []BookConsistent
<1>1. EngineInv => BookConsistent
  BY DEF EngineInv, RestingHasSide, OnePlace, BookConsistent
<1> QED  BY <1>1, EngineInvariant, PTL

-------------------------------------------------------------------------------
(* Priority, and cancels that stay.                                         *)

\* Each heap holds orders of its own side only.
HeapSides == \A s \in Sides : \A o \in heap[s] : Ticket[o].side = s

\* Every step keeps each heap to its side.
LEMMA HeapSidesStep ==
    ASSUME EngineInv, HeapSides, [Next]_vars PROVE HeapSides'
<1>0. TypeOK /\ heap \in [Sides -> SUBSET Orders]
  BY DEF EngineInv, TypeOK
<1>1. ASSUME NEW s \in Sides, heap' = [heap EXCEPT ![s] = Purged(s)] PROVE HeapSides'
  <2>1. Purged(s) \subseteq heap[s]
    BY <1>0, PurgeKeeps
  <2>2. \A t \in Sides : heap'[t] \subseteq heap[t]
    BY <1>0, <1>1, <2>1
  <2> QED  BY <2>2 DEF HeapSides
<1>2. ASSUME UNCHANGED heap PROVE HeapSides'
  BY <1>2 DEF HeapSides
<1>3. ASSUME NEW o \in Orders, AddToBook(o) PROVE HeapSides'
  <2>1. Ticket[o].side \in Sides
    BY TicketFields
  <2>2. \A t \in Sides : \A x \in heap'[t] : x \in heap[t] \/ (x = o /\ t = Ticket[o].side)
    BY <1>0, <1>3, <2>1 DEF AddToBook
  <2> QED  BY <2>2 DEF HeapSides
<1>4. ASSUME NEW o \in Orders, ProcessPostOnly(o) PROVE HeapSides'
  <2>1. Opposite(Ticket[o].side) \in Sides
    BY TicketFields DEF Opposite, Sides
  <2>2. CASE UNCHANGED heap
    BY <1>2, <2>2
  <2>3. CASE heap' = [heap EXCEPT ![Opposite(Ticket[o].side)] = Purged(Opposite(Ticket[o].side))]
    BY <1>1, <2>1, <2>3
  <2>4. CASE heap' = [t \in Sides |-> IF t = Ticket[o].side THEN heap[t] \cup {o} ELSE Purged(t)]
    <3>1. \A t \in Sides : \A x \in heap'[t] : x \in heap[t] \/ (x = o /\ t = Ticket[o].side)
      <4>1. \A t \in Sides : Purged(t) \subseteq heap[t]
        BY <1>0, PurgeKeeps
      <4> QED  BY <2>4, <4>1
    <3> QED  BY <3>1 DEF HeapSides
  <2> QED  BY <1>4, <2>2, <2>3, <2>4 DEF ProcessPostOnly
<1>5. ASSUME pc \in {"match", "finish"}, PurgeOpposite PROVE HeapSides'
  <2>1. Opposite(Ticket[taker].side) \in Sides
    BY <1>5, TakerFacts
  <2> QED  BY <1>1, <1>5, <2>1 DEF PurgeOpposite
<1>6. CASE ClientStep
  BY <1>1, <1>2, <1>6 DEF ClientStep, Submit, RequestCancel, ReadBest, Stop, bookVars
<1>7. CASE EngineStep
  <2>1. CASE \E o \in Orders : ProcessPostOnly(o)
    BY <1>4, <2>1
  <2>2. CASE \E b \in Orders : Fill(b) \/ PreventSelfTrade(b)
    BY <1>5, <2>2 DEF Fill, PreventSelfTrade, Meets
  <2>3. CASE LeaveLoop
    BY <1>2, <1>5, <2>3 DEF LeaveLoop
  <2>4. CASE RestRemainder
    <3>1. taker \in Orders
      BY <2>4, TakerFacts DEF RestRemainder
    <3> QED  BY <1>3, <2>4, <3>1 DEF RestRemainder
  <2>5. CASE \E o \in Orders : \/ RejectEmpty(o) \/ ParkStop(o) \/ RejectFok(o)
                               \/ StartMatch(o) \/ FireStop(o)
    BY <1>2, <2>5 DEF RejectEmpty, ParkStop, RejectFok, StartMatch, FireStop, EnterMatch, bookVars
  <2>6. CASE Exit \/ Poll \/ Drain \/ ProcessCancel \/ FinishUnrested \/ ShowSlice
             \/ TriggerStops \/ EndStops
    BY <1>2, <2>6 DEF Exit, Poll, Drain, ProcessCancel, FinishUnrested, ShowSlice,
       TriggerStops, EndStops, bookVars
  <2> QED  BY <1>7, <2>1, <2>2, <2>3, <2>4, <2>5, <2>6 DEF EngineStep
<1>8. CASE UNCHANGED vars
  BY <1>2, <1>8 DEF vars, bookVars
<1> QED  BY <1>6, <1>7, <1>8 DEF Next

\* Each heap holds orders of its own side only, always.
LEMMA HeapSidesInvariant == Spec => []HeapSides
<1>1. Init => HeapSides
  BY DEF Init, HeapSides
<1> QED  BY <1>1, EngineInvariant, HeapSidesStep, PTL DEF Spec

\* Only a fill extends the stream of fills, and it appends itself.
LEMMA OnlyFillFills ==
    ASSUME EngineInv, [Next]_vars, fills' # fills
    PROVE  \E b \in Orders : Fill(b)
<1> SUFFICES ASSUME ~\E b \in Orders : Fill(b) PROVE UNCHANGED fills
  OBVIOUS
<1>1. CASE ClientStep
  BY <1>1 DEF ClientStep, Submit, RequestCancel, ReadBest, Stop, outVars
<1>2. CASE EngineStep
  <2>1. CASE \E o \in Orders : \/ RejectEmpty(o) \/ ProcessPostOnly(o) \/ ParkStop(o)
                               \/ RejectFok(o) \/ StartMatch(o) \/ FireStop(o)
    BY <2>1 DEF RejectEmpty, ProcessPostOnly, ParkStop, RejectFok, StartMatch, FireStop,
       EnterMatch, Settle
  <2>2. CASE \E b \in Orders : PreventSelfTrade(b)
    BY <2>2 DEF PreventSelfTrade
  <2>3. CASE RestRemainder \/ FinishUnrested
    BY <2>3 DEF RestRemainder, FinishUnrested, Return
  <2>4. CASE Exit \/ Poll \/ Drain \/ ProcessCancel \/ LeaveLoop \/ ShowSlice
             \/ TriggerStops \/ EndStops
    BY <2>4 DEF Exit, Poll, Drain, ProcessCancel, LeaveLoop, ShowSlice, TriggerStops,
       EndStops, outVars
  <2> QED  BY <1>2, <2>1, <2>2, <2>3, <2>4 DEF EngineStep
<1>3. CASE UNCHANGED vars
  BY <1>3 DEF vars, outVars
<1> QED  BY <1>1, <1>2, <1>3 DEF Next

\* Price-time priority for every book: whoever is filled, no resting order of
\* its side has a better price or an older stamp, stale heap entries or not.
THEOREM PriorityIsKept == Spec => PriceTimePriority
<1> DEFINE Kept == fills' # fills =>
                      LET m == LastFill'.maker
                      IN  \A o \in live : Ticket[o].side = Ticket[m].side /\ o # m => Before(m, o)
<1>1. ASSUME EngineInv, HeapSides, [Next]_vars, fills' # fills PROVE Kept
  <2>1. PICK b \in Orders : Fill(b)
    BY <1>1, OnlyFillFills
  <2>2. LastFill'.maker = b
    <3>1. fills \in Seq(Fills)
      BY <1>1 DEF EngineInv, TypeOK
    <3>2. PICK r : fills' = Append(fills, r) /\ r.maker = b
      BY <2>1 DEF Fill
    <3>3. fills'[Len(fills')] = r
      BY <3>1, <3>2
    <3> QED  BY <3>2, <3>3 DEF LastFill
  <2>3. IsBest(b, Opposite(Ticket[taker].side)) /\ Opposite(Ticket[taker].side) \in Sides
    BY <1>1, <2>1, TakerFacts DEF Fill, Meets
  <2>4. Ticket[b].side = Opposite(Ticket[taker].side)
    BY <1>1, <2>3 DEF HeapSides, IsBest
  <2>5. \A o \in live : o \in heap[Ticket[o].side] /\ Alive(o)
    BY <1>1 DEF EngineInv, RestingHasSide, Alive
  <2> QED  BY <2>2, <2>3, <2>4, <2>5 DEF IsBest
<1>2. EngineInv /\ HeapSides /\ [Next]_vars => [Kept]_vars
  BY <1>1
<1> QED  BY <1>2, EngineInvariant, HeapSidesInvariant, PTL DEF Spec, PriceTimePriority

\* Only a fill changes what an order has filled, and acknowledgements stay.
LEMMA AckedStays ==
    ASSUME EngineInv, [Next]_vars
    PROVE  /\ acked \subseteq acked'
           /\ (\E b \in Orders : Fill(b)) \/ UNCHANGED filled
<1>1. CASE ClientStep
  BY <1>1 DEF ClientStep, Submit, RequestCancel, ReadBest, Stop, orderVars, outVars
<1>2. CASE EngineStep
  <2>1. CASE \E o \in Orders : \/ RejectEmpty(o) \/ ProcessPostOnly(o) \/ ParkStop(o)
                               \/ RejectFok(o) \/ StartMatch(o) \/ FireStop(o)
    BY <2>1 DEF RejectEmpty, ProcessPostOnly, ParkStop, RejectFok, StartMatch, FireStop,
       EnterMatch, Settle
  <2>2. CASE \E b \in Orders : Fill(b) \/ PreventSelfTrade(b)
    BY <2>2 DEF Fill, PreventSelfTrade
  <2>3. CASE RestRemainder \/ FinishUnrested
    BY <2>3 DEF RestRemainder, FinishUnrested, Return
  <2>4. CASE ProcessCancel
    BY <2>4 DEF ProcessCancel
  <2>5. CASE Exit \/ Poll \/ Drain \/ LeaveLoop \/ ShowSlice \/ TriggerStops \/ EndStops
    BY <2>5 DEF Exit, Poll, Drain, LeaveLoop, ShowSlice, TriggerStops, EndStops,
       orderVars, outVars
  <2> QED  BY <1>2, <2>1, <2>2, <2>3, <2>4, <2>5 DEF EngineStep
<1>3. CASE UNCHANGED vars
  BY <1>3 DEF vars, orderVars, outVars
<1> QED  BY <1>1, <1>2, <1>3 DEF Next

\* A cancel that was acknowledged is the last word on its order: no later step
\* fills it or puts it back on the book, wherever its stale heap entry is.
THEOREM CancelsAreFinal == Spec => CancelIsFinal
<1> DEFINE Final == \A o \in acked : filled'[o] = filled[o] /\ o \notin live'
<1>1. ASSUME EngineInv, EngineInv', [Next]_vars PROVE Final
  <2> SUFFICES ASSUME NEW o \in acked PROVE filled'[o] = filled[o] /\ o \notin live'
    OBVIOUS
  <2>1. o \notin live'
    BY <1>1, AckedStays DEF EngineInv, OnePlace
  <2>2. CASE UNCHANGED filled
    BY <2>1, <2>2
  <2>3. CASE \E b \in Orders : Fill(b)
    <3>1. PICK b \in Orders : Fill(b)
      BY <2>3
    <3>2. b \in live /\ taker \in Orders /\ taker \notin acked
      BY <1>1, <3>1, MeetsFacts, TakerFacts DEF Fill
    <3>3. o # b /\ o # taker
      BY <1>1, <3>2 DEF EngineInv, OnePlace
    <3> DEFINE q == SmallerOf(Want, remaining[b])
    <3>4. filled' = [filled EXCEPT ![taker] = @ + q, ![b] = @ + q]
      BY <3>1 DEF Fill, FilledAfter
    <3>5. o \in Orders /\ filled \in [Orders -> Nat]
      BY <1>1 DEF EngineInv, TypeOK
    <3> HIDE DEF q
    <3>6. filled'[o] = filled[o]
      BY <3>2, <3>3, <3>4, <3>5
    <3> QED  BY <2>1, <3>6
  <2> QED  BY <1>1, <2>2, <2>3, AckedStays
<1>2. EngineInv /\ EngineInv' /\ [Next]_vars => [Final]_vars
  BY <1>1
<1> QED  BY <1>2, EngineInvariant, PTL DEF Spec, CancelIsFinal

-------------------------------------------------------------------------------
(* What the orders have become, and which prices they have seen.            *)
(*                                                                          *)
(* The properties of the fills and of the book need to know more than where *)
(* an order is: that only a stop order changes its type, and not before a   *)
(* trade reached its stop price; that what rests or is matched is of a type *)
(* that may; and that a limit order which has nothing left says so before   *)
(* its caller is answered.                                                  *)

StopTypes == {"StopLoss", "StopLimit"}

\* Only a stop order changes its type, and into one that trades.
KindIs ==
    \A o \in Orders : \/ kind[o] = Ticket[o].type
                      \/ Ticket[o].type = "StopLoss" /\ kind[o] = "Market"
                      \/ Ticket[o].type = "StopLimit" /\ kind[o] = "Limit"

\* What rests may rest, and what is matched is matched as what it is.
RestingKinds == \A o \in live : kind[o] \in {"Limit", "FillOrKill", "PostOnly"}

TakerKind == pc \in {"match", "finish"} => kind[taker] \notin StopTypes \cup {"PostOnly"}

\* A stop order that waits, or waits to be executed, is as it was.
Waiting == \A o \in stops \cup (fired \ {taker}) : kind[o] \in StopTypes /\ remaining[o] > 0

KindInv == KindIs /\ RestingKinds /\ TakerKind /\ Waiting

\* An earlier trade reached the stop price of the order.
Reached(o) ==
    \E j \in DOMAIN fills : IF Ticket[o].side = "Buy" THEN fills[j].price >= Ticket[o].stopPrice
                                                      ELSE fills[j].price <= Ticket[o].stopPrice

PricesReached ==
    /\ lastPrice = 0 \/ \E j \in DOMAIN fills : fills[j].price = lastPrice
    /\ \A o \in Orders : kind[o] # Ticket[o].type => Reached(o)
    /\ \A o \in fired : Reached(o)

\* A limit order that is used up says so.
TakerDone ==
    pc \in {"match", "finish"} /\ kind[taker] = "Limit" /\ remaining[taker] = 0 =>
        status[taker] \in {"Filled", "Cancelled"}

\* A step that changes no order, no place and no output; it may purge a heap.
Quiet ==
    /\ UNCHANGED <<kind, status, filled, remaining, live, stops, fired, taker, lastPrice,
                   fills, answered, halted>>
    /\ pc' \in {"match", "finish"} => pc \in {"match", "finish"}
    /\ pc' = "finish" => pc = "finish" \/ LeaveLoop

\* What a step that is not quiet may be.
LEMMA StepIs ==
    ASSUME [Next]_vars
    PROVE  \/ Quiet \/ ProcessCancel \/ RestRemainder \/ FinishUnrested \/ TriggerStops
           \/ \E o \in Orders : \/ RejectEmpty(o) \/ ProcessPostOnly(o) \/ ParkStop(o)
                                \/ RejectFok(o) \/ StartMatch(o) \/ FireStop(o)
           \/ \E b \in Orders : Fill(b) \/ PreventSelfTrade(b)
<1> USE DEF clientVars, loopVars, orderVars, bookVars, outVars
<1>1. CASE ClientStep
  BY <1>1 DEF ClientStep, Submit, RequestCancel, ReadBest, Stop, Quiet
<1>2. CASE EngineStep
  <2>1. CASE Exit \/ Poll \/ Drain \/ LeaveLoop \/ ShowSlice \/ EndStops
    BY <2>1 DEF Exit, Poll, Drain, LeaveLoop, ShowSlice, EndStops, Quiet
  <2> QED  BY <1>2, <2>1 DEF EngineStep
<1>3. CASE UNCHANGED vars
  BY <1>3 DEF vars, Quiet
<1> QED  BY <1>1, <1>2, <1>3 DEF Next

\* What a fill does to the two orders, the book and the stream of fills.
LEMMA FillEffect ==
    ASSUME EngineInv, NEW b \in Orders, Fill(b)
    PROVE  /\ pc = "match" /\ b \in live /\ b # taker /\ taker \in Orders
           /\ taker \notin live \cup stops
           /\ UNCHANGED <<pc, kind, taker, stops, fired, answered, halted>>
           /\ lastPrice' = Ticket[b].price
           /\ live' \subseteq live /\ live \ {b} \subseteq live'
           /\ \A o \in Orders \ {taker, b} : /\ filled'[o] = filled[o]
                                             /\ remaining'[o] = remaining[o]
                                             /\ status'[o] = status[o]
           /\ \E q \in Nat \ {0} :
                 /\ q <= Want /\ q <= remaining[b]
                 /\ filled'[taker] = filled[taker] + q
                 /\ filled'[b] = filled[b] + q
                 /\ remaining'[taker] = remaining[taker] - q
                 /\ remaining'[b] = remaining[b] - q
                 /\ kind[taker] # "Iceberg" =>
                       status'[taker] = IF Want = q THEN "Filled" ELSE "PartiallyFilled"
                 /\ IF remaining[b] = q THEN status'[b] = "Cancelled" /\ b \notin live'
                                        ELSE status'[b] = "PartiallyFilled" /\ b \in live'
                 /\ fills' = Append(fills, [taker |-> taker, maker |-> b, qty |-> q,
                                            price |-> Ticket[b].price,
                                            takerFilled |-> Want = q,
                                            makerFilled |-> remaining[b] = q])
<1> DEFINE q == SmallerOf(Want, remaining[b])
<1>t. /\ filled \in [Orders -> Nat] /\ remaining \in [Orders -> Nat]
      /\ status \in [Orders -> Statuses]
  BY DEF EngineInv, TypeOK
<1>1. Meets(b)
  BY DEF Fill
<1>2. /\ pc = "match" /\ b \in live /\ b # taker /\ taker \in Orders
      /\ taker \notin live \cup stops
      /\ Want \in Nat /\ Want > 0 /\ Want <= remaining[taker]
      /\ remaining[b] \in Nat /\ remaining[b] > 0
  BY <1>1, MeetsFacts, TakerFacts
<1>3. q \in Nat \ {0} /\ q <= remaining[b] /\ q <= Want /\ q <= remaining[taker]
  BY <1>2, <1>t DEF SmallerOf
<1>4. /\ filled' = [filled EXCEPT ![taker] = @ + q, ![b] = @ + q]
      /\ remaining' = [remaining EXCEPT ![taker] = @ - q, ![b] = @ - q]
      /\ live' = IF remaining[b] = q THEN live \ {b} ELSE live
      /\ status' = [status EXCEPT
            ![taker] = IF kind[taker] = "Iceberg" THEN @
                       ELSE IF Want = q THEN "Filled" ELSE "PartiallyFilled",
            ![b] = IF remaining[b] = q THEN "Cancelled" ELSE "PartiallyFilled"]
      /\ fills' = Append(fills, [taker |-> taker, maker |-> b, qty |-> q,
                                 price |-> Ticket[b].price,
                                 takerFilled |-> Want = q, makerFilled |-> remaining[b] = q])
      /\ UNCHANGED <<pc, kind, taker, stops, fired, answered, halted>>
      /\ lastPrice' = Ticket[b].price
  BY DEF Fill, FilledAfter, RemainingAfter, UsedUp
<1> HIDE DEF q
<1>5. /\ \A o \in Orders \ {taker, b} : filled'[o] = filled[o] /\ remaining'[o] = remaining[o]
      /\ filled'[b] = filled[b] + q /\ remaining'[b] = remaining[b] - q
      /\ filled'[taker] = filled[taker] + q /\ remaining'[taker] = remaining[taker] - q
  BY <1>2, <1>3, <1>4, <1>t
<1>6. /\ \A o \in Orders \ {taker, b} : status'[o] = status[o]
      /\ kind[taker] # "Iceberg" =>
            status'[taker] = IF Want = q THEN "Filled" ELSE "PartiallyFilled"
      /\ status'[b] = IF remaining[b] = q THEN "Cancelled" ELSE "PartiallyFilled"
  BY <1>2, <1>4, <1>t
<1>7. /\ live' \subseteq live /\ live \ {b} \subseteq live'
      /\ remaining[b] = q => b \notin live'
      /\ remaining[b] # q => b \in live'
  BY <1>2, <1>4
<1>8. IF remaining[b] = q THEN status'[b] = "Cancelled" /\ b \notin live'
                          ELSE status'[b] = "PartiallyFilled" /\ b \in live'
  BY <1>6, <1>7
<1> QED  BY <1>2, <1>3, <1>4, <1>5, <1>6, <1>7, <1>8

\* What self-trade prevention does to the two orders and the book.
LEMMA PreventEffect ==
    ASSUME EngineInv, NEW b \in Orders, PreventSelfTrade(b)
    PROVE  /\ pc = "match" /\ pc' \in {"match", "finish"}
           /\ b \in live /\ b # taker /\ taker \in Orders /\ taker \notin live \cup stops
           /\ UNCHANGED <<kind, taker, filled, remaining, stops, fired, lastPrice, fills, answered>>
           /\ live' \subseteq live /\ live \ {b} \subseteq live'
           /\ halted \subseteq halted' /\ (pc' = "finish" => taker \in halted')
           /\ \A o \in Orders \ {taker, b} : status'[o] = status[o]
           /\ b \in live' \/ status'[b] = "Cancelled"
           /\ status'[b] \in {status[b], "Cancelled"}
           /\ status'[taker] \in {status[taker], "Cancelled"}
<1>1. Meets(b)
  BY DEF PreventSelfTrade
<1>2. /\ pc = "match" /\ b \in live /\ b # taker /\ taker \in Orders
      /\ taker \notin live \cup stops /\ status \in [Orders -> Statuses]
  BY <1>1, MeetsFacts, TakerFacts DEF EngineInv, TypeOK
<1> DEFINE removes == StpMode(taker) \in {"CancelMaker", "CancelBoth"}
           breaks  == StpMode(taker) \in {"CancelTaker", "CancelBoth"}
<1>3. /\ live' = IF removes THEN live \ {b} ELSE live
      /\ status' = [status EXCEPT
            ![b] = IF removes THEN "Cancelled" ELSE @,
            ![taker] = IF breaks /\ kind[taker] # "Iceberg" THEN "Cancelled" ELSE @]
      /\ pc' = IF breaks THEN "finish" ELSE "match"
      /\ halted' = IF breaks THEN halted \cup {taker} ELSE halted
      /\ UNCHANGED <<kind, taker, filled, remaining, stops, fired, lastPrice, fills, answered>>
  BY DEF PreventSelfTrade
<1> HIDE DEF removes, breaks
<1>4. /\ \A o \in Orders \ {taker, b} : status'[o] = status[o]
      /\ status'[b] = IF removes THEN "Cancelled" ELSE status[b]
      /\ status'[taker] \in {status[taker], "Cancelled"}
  BY <1>2, <1>3
<1> QED  BY <1>2, <1>3, <1>4

\* The first order of a batch is processed as what it came as.
LEMMA EnterKinds ==
    ASSUME EngineInv, KindInv, NEW o \in Orders, EnterMatch(o), kind[o] # "PostOnly",
           o \notin live, o \notin stops, pc \in {"batch", "stops"}
    PROVE  KindInv'
<1> USE DEF KindInv, KindIs, RestingKinds, TakerKind, Waiting, StopTypes
<1>1. /\ kind \in [Orders -> OrderTypes] /\ live \in SUBSET Orders /\ stops \in SUBSET Orders
      /\ fired \in SUBSET Orders
  BY DEF EngineInv, TypeOK
<1>2. /\ kind' = [kind EXCEPT ![o] = KindWhenMatched(o)] /\ taker' = o
      /\ UNCHANGED <<live, stops, fired, remaining>>
  BY DEF EnterMatch, bookVars
<1>3. /\ \A x \in Orders \ {o} : kind'[x] = kind[x]
      /\ kind'[o] = KindWhenMatched(o)
  BY <1>1, <1>2
<1>4. KindIs'
  BY <1>3 DEF KindWhenMatched
<1>5. RestingKinds'
  BY <1>1, <1>2, <1>3
<1>6. TakerKind'
  BY <1>2, <1>3 DEF KindWhenMatched
<1>7. Waiting'
  <2>1. taker = NoOrder /\ NoOrder \notin fired
    BY <1>1, EngineAssumption DEF EngineInv, InProgress
  <2> QED  BY <1>1, <1>2, <1>3, <2>1
<1> QED  BY <1>4, <1>5, <1>6, <1>7

\* Every step keeps what is known of the types.
LEMMA KindInvStep ==
    ASSUME EngineInv, KindInv, [Next]_vars PROVE KindInv'
<1> USE DEF KindInv, KindIs, RestingKinds, TakerKind, Waiting, StopTypes
<1>0. /\ TypeOK /\ InProgress /\ OnePlace
      /\ live \in SUBSET Orders /\ stops \in SUBSET Orders /\ fired \in SUBSET Orders
      /\ remaining \in [Orders -> Nat] /\ kind \in [Orders -> OrderTypes]
  BY DEF EngineInv, TypeOK
<1>1. CASE Quiet
  BY <1>1 DEF Quiet
<1>2. CASE ProcessCancel
  <2>1. live' \subseteq live /\ UNCHANGED <<kind, pc, taker, stops, fired, remaining>>
    BY <1>2 DEF ProcessCancel, loopVars
  <2> QED  BY <2>1
<1>3. ASSUME NEW o \in Orders, RejectEmpty(o) PROVE KindInv'
  <2>1. UNCHANGED <<kind, pc, taker, stops, fired, remaining, live>>
    BY <1>3 DEF RejectEmpty, Settle, bookVars
  <2> QED  BY <2>1
<1>4. ASSUME NEW o \in Orders, ProcessPostOnly(o) PROVE KindInv'
  <2>1. UNCHANGED <<kind, pc, taker, stops, fired, remaining>> /\ live' \subseteq live \cup {o}
    BY <1>4 DEF ProcessPostOnly, Settle
  <2>2. kind[o] = "PostOnly"
    BY <1>4 DEF ProcessPostOnly
  <2> QED  BY <2>1, <2>2
<1>5. ASSUME NEW o \in Orders, ParkStop(o) PROVE KindInv'
  <2>1. UNCHANGED <<kind, pc, taker, live, fired, remaining>> /\ stops' \subseteq stops \cup {o}
    BY <1>5 DEF ParkStop, Settle
  <2>2. kind[o] \in StopTypes /\ remaining[o] > 0
    BY <1>5, ProcessingFacts DEF ParkStop
  <2> QED  BY <2>1, <2>2
<1>6. ASSUME NEW o \in Orders, RejectFok(o) PROVE KindInv'
  <2>1. UNCHANGED <<kind, pc, taker, stops, fired, remaining, live>>
    BY <1>6 DEF RejectFok, Settle, bookVars
  <2> QED  BY <2>1
<1>7. ASSUME NEW o \in Orders, StartMatch(o) PROVE KindInv'
  <2>1. Processing(o) /\ EnterMatch(o) /\ kind[o] # "PostOnly"
    BY <1>7 DEF StartMatch
  <2> QED  BY <2>1, ProcessingFacts, EnterKinds
<1>8. ASSUME NEW o \in Orders, FireStop(o) PROVE KindInv'
  <2>1. pc = "stops" /\ o \in fired /\ EnterMatch(o)
    BY <1>8 DEF FireStop
  <2>2. taker = NoOrder
    BY <1>0, <2>1 DEF InProgress
  <2>3. kind[o] \in StopTypes
    BY <2>1, <2>2, EngineAssumption
  <2>4. o \notin live /\ o \notin stops
    BY <1>0, <2>1 DEF OnePlace
  <2> QED  BY <2>1, <2>3, <2>4, EnterKinds
<1>9. ASSUME NEW b \in Orders, Fill(b) PROVE KindInv'
  <2>1. /\ UNCHANGED <<pc, kind, taker, stops, fired>> /\ live' \subseteq live
        /\ b \in live /\ pc = "match"
        /\ \A o \in Orders \ {taker, b} : remaining'[o] = remaining[o]
        /\ taker \notin stops
    BY <1>9, FillEffect
  <2>2. b \notin stops \cup fired
    BY <1>0, <2>1 DEF OnePlace
  <2> QED  BY <1>0, <2>1, <2>2
<1>10. ASSUME NEW b \in Orders, PreventSelfTrade(b) PROVE KindInv'
  <2>1. /\ UNCHANGED <<kind, taker, remaining, stops, fired>> /\ live' \subseteq live
        /\ pc = "match"
    BY <1>10, PreventEffect
  <2> QED  BY <2>1
<1>11. CASE RestRemainder
  <2>1. /\ UNCHANGED <<kind, stops, remaining>> /\ live' = live \cup {taker} /\ taker \in Orders
        /\ kind[taker] \in {"Limit", "FillOrKill"} /\ pc' \in {"batch", "stops"}
    BY <1>11, TakerFacts DEF RestRemainder, AddToBook, Return, Rests
  <2>2. fired' \subseteq fired \ {taker}
    BY <1>0, <1>11 DEF RestRemainder, Return, InProgress
  <2> QED  BY <2>1, <2>2
<1>12. CASE FinishUnrested
  <2>1. UNCHANGED <<kind, stops, remaining, live>> /\ pc' \in {"batch", "stops"}
    BY <1>12 DEF FinishUnrested, Return
  <2>2. fired' \subseteq fired \ {taker}
    BY <1>0, <1>12 DEF FinishUnrested, Return, InProgress
  <2> QED  BY <2>1, <2>2
<1>13. CASE TriggerStops
  <2>1. /\ UNCHANGED <<kind, remaining, live, taker>> /\ fired' \subseteq stops
        /\ stops' \subseteq stops /\ pc' = "stops"
    BY <1>13 DEF TriggerStops, orderVars
  <2> QED  BY <2>1
<1> QED  BY <1>1, <1>2, <1>3, <1>4, <1>5, <1>6, <1>7, <1>8, <1>9, <1>10, <1>11, <1>12, <1>13, StepIs

-------------------------------------------------------------------------------
(* The fills respect the tickets.                                           *)

\* A fill more leaves what earlier prices reached as it is, and reaches its own.
LEMMA ReachedGrows ==
    ASSUME fills \in Seq(Fills), NEW r \in Fills, fills' = Append(fills, r)
    PROVE  /\ \A o \in Orders : Reached(o) => Reached(o)'
           /\ \A p : (\E j \in DOMAIN fills : fills[j].price = p) =>
                     \E j \in DOMAIN fills' : fills'[j].price = p
           /\ \E j \in DOMAIN fills' : fills'[j].price = r.price
<1>1. /\ DOMAIN fills' = DOMAIN fills \cup {Len(fills) + 1}
      /\ \A j \in DOMAIN fills : fills'[j] = fills[j]
      /\ fills'[Len(fills) + 1] = r
  BY AppendAt
<1>2. ASSUME NEW o \in Orders, Reached(o) PROVE Reached(o)'
  BY <1>1, <1>2 DEF Reached
<1> QED  BY <1>1, <1>2

\* A stop order that the last price triggers has its price among the fills.
LEMMA TriggeredReached ==
    ASSUME PricesReached, NEW o \in Orders, Triggered(o) PROVE Reached(o)
<1>1. PICK j \in DOMAIN fills : fills[j].price = lastPrice
  BY DEF PricesReached, Triggered
<1> QED  BY <1>1 DEF Triggered, Reached

\* An order that enters the match loop as another type than it came as has
\* seen its stop price.
LEMMA EnterReached ==
    ASSUME EngineInv, PricesReached, NEW o \in Orders, EnterMatch(o),
           kind[o] \in StopTypes => Reached(o)
    PROVE  PricesReached'
<1>1. /\ kind' = [kind EXCEPT ![o] = KindWhenMatched(o)]
      /\ UNCHANGED <<fills, lastPrice, fired>> /\ kind \in [Orders -> OrderTypes]
  BY DEF EnterMatch, bookVars, EngineInv, TypeOK
<1>2. \A x \in Orders : Reached(x)' <=> Reached(x)
  BY <1>1 DEF Reached
<1>3. \A x \in Orders : kind'[x] # Ticket[x].type => Reached(x)
  <2>1. ASSUME NEW x \in Orders, kind'[x] # Ticket[x].type, kind[x] = Ticket[x].type
        PROVE  Reached(x)
    BY <1>1, <2>1 DEF KindWhenMatched, StopTypes
  <2> QED  BY <2>1 DEF PricesReached
<1>4. fired \in SUBSET Orders
  BY DEF EngineInv, TypeOK
<1>5. \A x \in fired' : Reached(x)'
  BY <1>1, <1>2, <1>4 DEF PricesReached
<1>6. \A x \in Orders : kind'[x] # Ticket[x].type => Reached(x)'
  BY <1>2, <1>3
<1>7. lastPrice' = 0 \/ \E j \in DOMAIN fills' : fills'[j].price = lastPrice'
  BY <1>1 DEF PricesReached
<1> QED  BY <1>5, <1>6, <1>7 DEF PricesReached

\* A step that leaves the fills, the types and the triggered orders, or takes
\* one of those away, leaves what is reached.
LEMMA SameReached ==
    ASSUME PricesReached, UNCHANGED <<fills, lastPrice, kind>>, fired' \subseteq fired
    PROVE  PricesReached'
<1>1. \A x : Reached(x)' <=> Reached(x)
  BY DEF Reached
<1>2. \A x \in Orders : kind'[x] # Ticket[x].type => Reached(x)'
  BY <1>1 DEF PricesReached
<1>3. \A x \in fired' : Reached(x)'
  BY <1>1 DEF PricesReached
<1> QED  BY <1>2, <1>3 DEF PricesReached

\* The record of a fill is one.
LEMMA FillRecord ==
    ASSUME EngineInv, NEW b \in Orders, Fill(b)
    PROVE  \E r \in Fills : /\ r.taker = taker /\ r.maker = b /\ r.price = Ticket[b].price
                            /\ fills' = Append(fills, r)
<1>1. PICK q \in Nat \ {0} :
         fills' = Append(fills, [taker |-> taker, maker |-> b, qty |-> q,
                                 price |-> Ticket[b].price, takerFilled |-> Want = q,
                                 makerFilled |-> remaining[b] = q])
  BY FillEffect
<1>2. taker \in Orders /\ Ticket[b].price \in Nat
  BY FillEffect, TicketFields
<1>3. (Want = q) \in BOOLEAN /\ (remaining[b] = q) \in BOOLEAN
  OBVIOUS
<1>4. [taker |-> taker, maker |-> b, qty |-> q, price |-> Ticket[b].price,
       takerFilled |-> Want = q, makerFilled |-> remaining[b] = q] \in Fills
  BY <1>2, <1>3 DEF Fills
<1> QED  BY <1>1, <1>4

\* Every step keeps what is known of the prices.
LEMMA PricesReachedStep ==
    ASSUME EngineInv, KindInv, PricesReached, [Next]_vars PROVE PricesReached'
<1>0. fills \in Seq(Fills) /\ kind \in [Orders -> OrderTypes] /\ stops \in SUBSET Orders
  BY DEF EngineInv, TypeOK
<1>1. CASE Quiet
  BY <1>1, SameReached DEF Quiet
<1>2. CASE ProcessCancel
  BY <1>2, SameReached DEF ProcessCancel, Settle, bookVars, loopVars
<1>3. ASSUME NEW o \in Orders, RejectEmpty(o) PROVE PricesReached'
  BY <1>3, SameReached DEF RejectEmpty, Settle, bookVars, loopVars
<1>4. ASSUME NEW o \in Orders, ProcessPostOnly(o) PROVE PricesReached'
  BY <1>4, SameReached DEF ProcessPostOnly, Settle, bookVars, loopVars
<1>5. ASSUME NEW o \in Orders, ParkStop(o) PROVE PricesReached'
  BY <1>5, SameReached DEF ParkStop, Settle, bookVars, loopVars
<1>6. ASSUME NEW o \in Orders, RejectFok(o) PROVE PricesReached'
  BY <1>6, SameReached DEF RejectFok, Settle, bookVars, loopVars
<1>7. ASSUME NEW o \in Orders, StartMatch(o) PROVE PricesReached'
  <2>1. Processing(o) /\ EnterMatch(o)
    BY <1>7 DEF StartMatch
  <2>2. kind[o] \in StopTypes => Triggered(o)
    BY <1>7 DEF StartMatch, StopTypes
  <2> QED  BY <2>1, <2>2, TriggeredReached, EnterReached
<1>8. ASSUME NEW o \in Orders, FireStop(o) PROVE PricesReached'
  <2>1. o \in fired /\ EnterMatch(o)
    BY <1>8 DEF FireStop
  <2> QED  BY <2>1, EnterReached DEF PricesReached
<1>9. ASSUME NEW b \in Orders, Fill(b) PROVE PricesReached'
  <2>1. PICK r \in Fills : r.price = Ticket[b].price /\ fills' = Append(fills, r)
    BY <1>9, FillRecord
  <2>2. lastPrice' = Ticket[b].price /\ UNCHANGED <<kind, fired>>
    BY <1>9, FillEffect
  <2>3. \A o \in Orders : Reached(o) => Reached(o)'
    BY <1>0, <2>1, ReachedGrows
  <2>4. \E j \in DOMAIN fills' : fills'[j].price = lastPrice'
    BY <1>0, <2>1, <2>2, ReachedGrows
  <2>5. fired \in SUBSET Orders
    BY DEF EngineInv, TypeOK
  <2> QED  BY <2>2, <2>3, <2>4, <2>5 DEF PricesReached
<1>10. ASSUME NEW b \in Orders, PreventSelfTrade(b) PROVE PricesReached'
  BY <1>10, PreventEffect, SameReached
<1>11. CASE RestRemainder
  BY <1>11, SameReached DEF RestRemainder, Return
<1>12. CASE FinishUnrested
  BY <1>12, SameReached DEF FinishUnrested, Return
<1>13. CASE TriggerStops
  <2>1. UNCHANGED <<kind, fills, lastPrice>> /\ fired' = {o \in stops : Triggered(o)}
    BY <1>13 DEF TriggerStops, orderVars, outVars
  <2>2. \A x : Reached(x)' <=> Reached(x)
    BY <2>1 DEF Reached
  <2>3. \A x \in fired' : Reached(x)
    BY <1>0, <2>1, TriggeredReached
  <2> QED  BY <2>1, <2>2, <2>3 DEF PricesReached
<1> QED  BY <1>1, <1>2, <1>3, <1>4, <1>5, <1>6, <1>7, <1>8, <1>9, <1>10, <1>11, <1>12, <1>13, StepIs

\* The fill respects the tickets of its taker and its maker.
LEMMA NextFillRespects ==
    ASSUME EngineInv, HeapSides, KindInv, PricesReached, NEW b \in Orders, Fill(b)
    PROVE  /\ Ticket[taker].side = Opposite(Ticket[b].side)
           /\ Ticket[taker].type \notin {"Market", "StopLoss"} /\ Ticket[taker].price > 0 =>
                 IF Ticket[taker].side = "Buy" THEN Ticket[b].price <= Ticket[taker].price
                                               ELSE Ticket[b].price >= Ticket[taker].price
           /\ (Ticket[taker].stp # "Disabled" \/ EngineStp # "Disabled") /\ Ticket[taker].user # ""
                 => Ticket[taker].user # Ticket[b].user
           /\ \A o \in {taker, b} : Ticket[o].type \in StopTypes => Reached(o)
<1>1. Meets(b) /\ ~SelfTrade(taker, b)
  BY DEF Fill
<1>2. taker \in Orders /\ b \in live /\ pc = "match"
  BY FillEffect
<1>3. IsBest(b, Opposite(Ticket[taker].side)) /\ Acceptable(taker, b)
      /\ Opposite(Ticket[taker].side) \in Sides
  BY <1>1, <1>2, TakerFacts DEF Meets
<1>4. Ticket[b].side = Opposite(Ticket[taker].side)
  BY <1>3 DEF IsBest, HeapSides
<1>5. Ticket[taker].side = Opposite(Ticket[b].side)
  BY <1>2, <1>4, TicketFields DEF Opposite, Sides
<1>6. Ticket[taker].type \notin {"Market", "StopLoss"} => kind[taker] # "Market"
  BY <1>2 DEF KindInv, KindIs
<1>7. Ticket[taker].type \notin {"Market", "StopLoss"} /\ Ticket[taker].price > 0 =>
         IF Ticket[taker].side = "Buy" THEN Ticket[b].price <= Ticket[taker].price
                                       ELSE Ticket[b].price >= Ticket[taker].price
  BY <1>2, <1>3, <1>6, TicketFields DEF Acceptable
<1>8. ASSUME NEW o \in {taker, b}, Ticket[o].type \in StopTypes PROVE Reached(o)
  <2>1. kind[o] \notin StopTypes
    BY <1>2 DEF KindInv, TakerKind, RestingKinds, StopTypes
  <2> QED  BY <1>2, <1>8, <2>1 DEF PricesReached
<1>9. (Ticket[taker].stp # "Disabled" \/ EngineStp # "Disabled") /\ Ticket[taker].user # ""
         => Ticket[taker].user # Ticket[b].user
  BY <1>1 DEF SelfTrade
<1> QED  BY <1>5, <1>7, <1>8, <1>9

\* A fill before the i-th one reached the stop price of the order.
ReachedBefore(f, i, o) ==
    \E j \in 1..(i - 1) : IF Ticket[o].side = "Buy" THEN f[j].price >= Ticket[o].stopPrice
                                                   ELSE f[j].price <= Ticket[o].stopPrice

\* What the i-th fill of a stream has to respect.
FillRespects(f, i) ==
    LET t == Ticket[f[i].taker]
        m == Ticket[f[i].maker]
    IN  /\ t.side = Opposite(m.side)
        /\ t.type \notin {"Market", "StopLoss"} /\ t.price > 0 =>
              IF t.side = "Buy" THEN f[i].price <= t.price
                                ELSE f[i].price >= t.price
        /\ (t.stp # "Disabled" \/ EngineStp # "Disabled") /\ t.user # "" =>
              t.user # m.user
        /\ \A o \in {f[i].taker, f[i].maker} :
              Ticket[o].type \in {"StopLoss", "StopLimit"} => ReachedBefore(f, i, o)

\* The property, fill by fill.
LEMMA RespectByFill == FillsRespectTickets <=> \A i \in DOMAIN fills : FillRespects(fills, i)
  BY DEF FillsRespectTickets, FillRespects, ReachedBefore

\* Every step keeps the fills within the tickets.
LEMMA FillsRespectStep ==
    ASSUME EngineInv, HeapSides, KindInv, PricesReached, FillsRespectTickets, [Next]_vars
    PROVE  FillsRespectTickets'
<1>1. CASE fills' = fills
  <2>1. \A i \in DOMAIN fills : FillRespects(fills, i)
    BY RespectByFill
  <2>2. \A i \in DOMAIN fills' : FillRespects(fills', i)
    BY <1>1, <2>1
  <2> QED  BY <2>2 DEF FillsRespectTickets, FillRespects, ReachedBefore
<1>2. CASE fills' # fills
  <2>1. PICK b \in Orders : Fill(b)
    BY <1>2, OnlyFillFills
  <2>2. PICK r \in Fills : /\ r.taker = taker /\ r.maker = b /\ r.price = Ticket[b].price
                          /\ fills' = Append(fills, r)
    BY <2>1, FillRecord
  <2>3. fills \in Seq(Fills)
    BY DEF EngineInv, TypeOK
  <2>4. /\ DOMAIN fills' = DOMAIN fills \cup {Len(fills) + 1}
        /\ \A j \in DOMAIN fills : fills'[j] = fills[j]
        /\ fills'[Len(fills) + 1] = r
        /\ DOMAIN fills = 1..Len(fills) /\ Len(fills) \in Nat
    BY <2>2, <2>3, AppendAt
  <2>5. ASSUME NEW i \in DOMAIN fills PROVE FillRespects(fills', i)
    <3>1. FillRespects(fills, i) /\ i \in DOMAIN fills
      BY RespectByFill
    <3>2. i \in Nat /\ \A j \in 1..(i - 1) : j \in DOMAIN fills
      BY <2>4
    <3>3. fills'[i] = fills[i]
      BY <2>4
    <3>4. \A o : ReachedBefore(fills, i, o) => ReachedBefore(fills', i, o)
      BY <2>4, <3>2 DEF ReachedBefore
    <3>5. \A o \in {fills'[i].taker, fills'[i].maker} :
             Ticket[o].type \in {"StopLoss", "StopLimit"} => ReachedBefore(fills', i, o)
      BY <3>1, <3>3, <3>4 DEF FillRespects
    <3> QED  BY <3>1, <3>3, <3>5 DEF FillRespects
  <2> DEFINE n == Len(fills) + 1
  <2>6. FillRespects(fills', n)
    <3>1. ASSUME NEW o \in {taker, b}, Ticket[o].type \in StopTypes
          PROVE  ReachedBefore(fills', n, o)
      <4>1. Reached(o)
        BY <2>1, <3>1, NextFillRespects
      <4>2. PICK j \in DOMAIN fills :
               IF Ticket[o].side = "Buy" THEN fills[j].price >= Ticket[o].stopPrice
                                         ELSE fills[j].price <= Ticket[o].stopPrice
        BY <4>1 DEF Reached
      <4>3. j \in 1..(n - 1) /\ fills'[j] = fills[j]
        BY <2>4
      <4> QED  BY <4>2, <4>3 DEF ReachedBefore
    <3>2. fills'[n].taker = taker /\ fills'[n].maker = b /\ fills'[n].price = Ticket[b].price
      BY <2>2, <2>4
    <3> HIDE DEF n
    <3> QED  BY <2>1, <3>1, <3>2, NextFillRespects DEF FillRespects, StopTypes
  <2>7. \A i \in DOMAIN fills' : FillRespects(fills', i)
    BY <2>4, <2>5, <2>6
  <2> QED  BY <2>7 DEF FillsRespectTickets, FillRespects, ReachedBefore
<1> QED  BY <1>1, <1>2

-------------------------------------------------------------------------------
(* An answered order that still reads as open is somewhere.                 *)

\* An order that enters the match loop has something left.
LEMMA EnterNotDone ==
    ASSUME NEW o \in Orders, EnterMatch(o), remaining[o] > 0 PROVE TakerDone'
BY DEF EnterMatch, TakerDone

\* Outside a match there is nothing to say.
LEMMA NoMatchNotDone == ASSUME pc' \notin {"match", "finish"} PROVE TakerDone'
BY DEF TakerDone

\* Every step keeps what the order in progress says of its end.
LEMMA TakerDoneStep ==
    ASSUME EngineInv, KindInv, TakerDone, [Next]_vars PROVE TakerDone'
<1>0. InProgress /\ kind \in [Orders -> OrderTypes] /\ remaining \in [Orders -> Nat]
  BY DEF EngineInv, TypeOK
<1>1. CASE Quiet
  BY <1>1 DEF Quiet, TakerDone
<1>2. CASE ProcessCancel
  BY <1>2, NoMatchNotDone DEF ProcessCancel, Settle, loopVars, Processing
<1>3. ASSUME NEW o \in Orders, RejectEmpty(o) PROVE TakerDone'
  BY <1>3, NoMatchNotDone DEF RejectEmpty, Settle, loopVars, Processing
<1>4. ASSUME NEW o \in Orders, ProcessPostOnly(o) PROVE TakerDone'
  BY <1>4, NoMatchNotDone DEF ProcessPostOnly, Settle, loopVars, Processing
<1>5. ASSUME NEW o \in Orders, ParkStop(o) PROVE TakerDone'
  BY <1>5, NoMatchNotDone DEF ParkStop, Settle, loopVars, Processing
<1>6. ASSUME NEW o \in Orders, RejectFok(o) PROVE TakerDone'
  BY <1>6, NoMatchNotDone DEF RejectFok, Settle, loopVars, Processing
<1>7. ASSUME NEW o \in Orders, StartMatch(o) PROVE TakerDone'
  <2>1. Processing(o) /\ EnterMatch(o) /\ Ticket[o].qty > 0
    BY <1>7 DEF StartMatch
  <2> QED  BY <2>1, ProcessingFacts, EnterNotDone
<1>8. ASSUME NEW o \in Orders, FireStop(o) PROVE TakerDone'
  <2>1. pc = "stops" /\ o \in fired /\ EnterMatch(o)
    BY <1>8 DEF FireStop
  <2>2. o # taker
    BY <1>0, <2>1, EngineAssumption DEF InProgress
  <2> QED  BY <2>1, <2>2, EnterNotDone DEF KindInv, Waiting
<1>9. ASSUME NEW b \in Orders, Fill(b) PROVE TakerDone'
  <2>1. PICK q \in Nat \ {0} :
           /\ remaining'[taker] = remaining[taker] - q
           /\ kind[taker] # "Iceberg" =>
                 status'[taker] = IF Want = q THEN "Filled" ELSE "PartiallyFilled"
    BY <1>9, FillEffect
  <2>2. UNCHANGED <<kind, taker>> /\ taker \in Orders
    BY <1>9, FillEffect
  <2>3. kind[taker] = "Limit" => Want = remaining[taker]
    BY DEF Want
  <2> QED  BY <1>0, <2>1, <2>2, <2>3 DEF TakerDone
<1>10. ASSUME NEW b \in Orders, PreventSelfTrade(b) PROVE TakerDone'
  <2>1. UNCHANGED <<kind, taker, remaining>> /\ pc = "match"
        /\ status'[taker] \in {status[taker], "Cancelled"}
    BY <1>10, PreventEffect
  <2> QED  BY <2>1 DEF TakerDone
<1>11. CASE RestRemainder
  BY <1>11, NoMatchNotDone DEF RestRemainder, Return
<1>12. CASE FinishUnrested
  BY <1>12, NoMatchNotDone DEF FinishUnrested, Return
<1>13. CASE TriggerStops
  BY <1>13, NoMatchNotDone DEF TriggerStops, Settle, loopVars, Processing
<1> QED  BY <1>1, <1>2, <1>3, <1>4, <1>5, <1>6, <1>7, <1>8, <1>9, <1>10, <1>11, <1>12, <1>13, StepIs

\* The order reads as open, and is of a type that may rest.
Open(o) ==
    /\ Ticket[o].tif = "GTC"
    /\ kind[o] \in {"Limit", "PostOnly", "StopLoss", "StopLimit"}
    /\ status[o] \in {"New", "PartiallyFilled"}

Held == live \cup stops \cup fired \cup {taker}

\* The property, order by order.
LEMMA ReachableByOrder == OpenOrdersReachable <=> \A o \in answered : Open(o) => o \in Held
  BY DEF OpenOrdersReachable, Open, Held

\* Every step keeps each answered open order in hand.
LEMMA ReachableStep ==
    ASSUME EngineInv, KindInv, TakerDone, OpenOrdersReachable, [Next]_vars
    PROVE  OpenOrdersReachable'
<1>0. /\ TypeOK /\ InProgress /\ OnePlace
      /\ kind \in [Orders -> OrderTypes] /\ status \in [Orders -> Statuses]
      /\ answered \in SUBSET Orders /\ remaining \in [Orders -> Nat]
      /\ live \in SUBSET Orders /\ stops \in SUBSET Orders /\ fired \in SUBSET Orders
  BY DEF EngineInv, TypeOK
<1> DEFINE Reach == \A o \in answered : Open(o) => o \in Held
<1>a. Reach
  BY ReachableByOrder
<1>b. SUFFICES Reach'
  BY DEF OpenOrdersReachable, Open, Held
<1> USE DEF Open, Held
<1>1. CASE Quiet
  BY <1>a, <1>1 DEF Quiet
<1>2. CASE ProcessCancel
  <2> DEFINE o == Head(cancels).order
  <2>1. /\ UNCHANGED <<kind, stops, fired, taker, answered>>
        /\ \/ live' = live /\ status' = status
           \/ live' = live \ {o} /\ status' = [status EXCEPT ![o] = "Cancelled"] /\ o \in live
    BY <1>2 DEF ProcessCancel, loopVars
  <2> HIDE DEF o
  <2> QED  BY <1>0, <1>a, <2>1
<1>3. ASSUME NEW o \in Orders, RejectEmpty(o) PROVE Reach'
  <2>1. UNCHANGED <<kind, live, stops, fired, taker, answered>>
        /\ status' = [status EXCEPT ![o] = "Rejected"]
    BY <1>3 DEF RejectEmpty, bookVars
  <2> QED  BY <1>0, <1>a, <2>1
<1>4. ASSUME NEW o \in Orders, ProcessPostOnly(o) PROVE Reach'
  <2>1. /\ UNCHANGED <<kind, stops, fired, taker>> /\ answered' = answered \cup {o}
        /\ \/ status' = [status EXCEPT ![o] = "Rejected"] /\ live' = live
           \/ status' = [status EXCEPT ![o] = "New"] /\ live' = live \cup {o}
    BY <1>4 DEF ProcessPostOnly, Settle
  <2> QED  BY <1>0, <1>a, <2>1
<1>5. ASSUME NEW o \in Orders, ParkStop(o) PROVE Reach'
  <2>1. /\ UNCHANGED <<kind, live, fired, taker>> /\ answered' = answered \cup {o}
        /\ \/ status' = [status EXCEPT ![o] = "Rejected"] /\ stops' = stops
           \/ status' = [status EXCEPT ![o] = "New"] /\ stops' = stops \cup {o}
    BY <1>5 DEF ParkStop, Settle
  <2> QED  BY <1>0, <1>a, <2>1
<1>6. ASSUME NEW o \in Orders, RejectFok(o) PROVE Reach'
  <2>1. UNCHANGED <<kind, live, stops, fired, taker>> /\ answered' = answered \cup {o}
        /\ status' = [status EXCEPT ![o] = "Rejected"]
    BY <1>6 DEF RejectFok, Settle
  <2> QED  BY <1>0, <1>a, <2>1
<1>7. ASSUME NEW o \in Orders, StartMatch(o) PROVE Reach'
  <2>1. EnterMatch(o) /\ taker = NoOrder
    BY <1>0, <1>7 DEF StartMatch, Processing, InProgress
  <2>2. /\ UNCHANGED <<status, live, stops, fired, answered>> /\ taker' = o
        /\ \A x \in Orders \ {o} : kind'[x] = kind[x]
    BY <1>0, <2>1 DEF EnterMatch, bookVars
  <2> QED  BY <1>0, <1>a, <2>1, <2>2, EngineAssumption
<1>8. ASSUME NEW o \in Orders, FireStop(o) PROVE Reach'
  <2>1. EnterMatch(o) /\ taker = NoOrder
    BY <1>0, <1>8 DEF FireStop, Processing, InProgress
  <2>2. /\ UNCHANGED <<status, live, stops, fired, answered>> /\ taker' = o
        /\ \A x \in Orders \ {o} : kind'[x] = kind[x]
    BY <1>0, <2>1 DEF EnterMatch, bookVars
  <2> QED  BY <1>0, <1>a, <2>1, <2>2, EngineAssumption
<1>9. ASSUME NEW b \in Orders, Fill(b) PROVE Reach'
  <2>1. /\ UNCHANGED <<kind, stops, fired, taker, answered>>
        /\ live' \subseteq live /\ live \ {b} \subseteq live'
        /\ \A o \in Orders \ {taker, b} : status'[o] = status[o]
    BY <1>9, FillEffect
  <2>2. b \in live' \/ status'[b] = "Cancelled"
    BY <1>9, FillEffect
  <2> QED  BY <1>0, <1>a, <2>1, <2>2
<1>10. ASSUME NEW b \in Orders, PreventSelfTrade(b) PROVE Reach'
  <2>1. /\ UNCHANGED <<kind, stops, fired, taker, answered>>
        /\ live' \subseteq live /\ live \ {b} \subseteq live'
        /\ \A o \in Orders \ {taker, b} : status'[o] = status[o]
        /\ b \in live' \/ status'[b] = "Cancelled"
    BY <1>10, PreventEffect
  <2> QED  BY <1>0, <1>a, <2>1
<1>11. CASE RestRemainder
  <2>1. taker \in Orders /\ pc = "finish"
    BY <1>11, TakerFacts DEF RestRemainder
  <2>2. /\ UNCHANGED <<kind, stops>> /\ answered' \subseteq answered \cup {taker}
        /\ fired \ {taker} \subseteq fired'
    BY <1>0, <1>11 DEF RestRemainder, Return
  <2>3. /\ live' = live \cup {taker}
        /\ \A o \in Orders \ {taker} : status'[o] = status[o]
    BY <1>0, <2>1, <1>11 DEF RestRemainder, AddToBook
  <2> QED  BY <1>0, <1>a, <2>1, <2>2, <2>3
<1>12. CASE FinishUnrested
  <2>1. taker \in Orders /\ pc = "finish"
    BY <1>12, TakerFacts DEF FinishUnrested
  <2>2. /\ UNCHANGED <<kind, stops>> /\ answered' \subseteq answered \cup {taker}
        /\ fired \ {taker} \subseteq fired'
    BY <1>0, <1>12 DEF FinishUnrested, Return
  <2>3. /\ live' = live /\ status'[taker] = StatusUnrested(taker)
        /\ \A o \in Orders \ {taker} : status'[o] = status[o]
    BY <1>0, <2>1, <1>12 DEF FinishUnrested
  <2>4. Ticket[taker].tif = "GTC"
        /\ kind[taker] \in {"Limit", "PostOnly", "StopLoss", "StopLimit"}
        => status'[taker] \notin {"New", "PartiallyFilled"}
    <3>1. ~Rests(taker) /\ kind' = kind
      BY <2>2, <1>12 DEF FinishUnrested
    <3>2. kind[taker] \notin {"PostOnly", "StopLoss", "StopLimit"}
      BY <2>1 DEF KindInv, TakerKind, StopTypes
    <3>3. ASSUME kind[taker] = "Limit", Ticket[taker].tif = "GTC"
          PROVE  status'[taker] \in {"Filled", "Cancelled"}
      <4>1. remaining[taker] = 0
        BY <1>0, <2>1, <3>1, <3>3 DEF Rests
      <4>2. StatusUnrested(taker) = status[taker]
        BY <3>3 DEF StatusUnrested
      <4> QED  BY <2>1, <2>3, <3>3, <4>1, <4>2 DEF TakerDone
    <3> QED  BY <3>1, <3>2, <3>3
  <2> QED  BY <1>0, <1>a, <2>1, <2>2, <2>3, <2>4
<1>13. CASE TriggerStops
  <2>1. UNCHANGED <<kind, status, live, taker, answered>> /\ stops' \cup fired' = stops
    BY <1>13 DEF TriggerStops, orderVars, outVars
  <2>2. fired = {}
    BY <1>0, <1>13 DEF InProgress, TriggerStops
  <2> QED  BY <1>a, <2>1, <2>2
<1> QED  BY <1>1, <1>2, <1>3, <1>4, <1>5, <1>6, <1>7, <1>8, <1>9, <1>10, <1>11, <1>12, <1>13, StepIs

-------------------------------------------------------------------------------
(* The book does not stay crossed.                                          *)

\* Heaps hold what was sent, which is finite.
HeapsFinite == IsFiniteSet(sent) /\ \A s \in Sides : heap[s] \subseteq sent

\* When a loop has ended, what is left of its order meets nothing it accepts.
FinishClear ==
    pc = "finish" /\ Rests(taker) /\ taker \notin halted =>
        \A b \in live : Ticket[b].side = Opposite(Ticket[taker].side) => ~Acceptable(taker, b)

\* Priority orders what rests on one side: of two orders one goes before the
\* other, and going before is transitive.
LEMMA BeforeOrders ==
    ASSUME NEW a \in Orders, NEW b \in Orders, NEW c \in Orders,
           Ticket[a].side = Ticket[b].side, Ticket[b].side = Ticket[c].side
    PROVE  /\ a # b => Before(a, b) \/ Before(b, a)
           /\ Before(a, b) /\ Before(b, c) => Before(a, c)
<1>1. /\ \A o \in {a, b, c} : Ticket[o].price \in Nat /\ Ticket[o].createdAt \in Nat
      /\ a # b => Ticket[a].createdAt # Ticket[b].createdAt
  BY TicketAssumption DEF Tickets
<1>2. CASE Ticket[a].side = "Buy"
  BY <1>1, <1>2 DEF Before
<1>3. CASE Ticket[a].side # "Buy"
  BY <1>1, <1>3 DEF Before
<1> QED  BY <1>2, <1>3

\* Of finitely many orders of one side, one goes before all others.
LEMMA FirstExists ==
    ASSUME NEW A \in SUBSET Orders, IsFiniteSet(A), A # {}, NEW s,
           \A o \in A : Ticket[o].side = s
    PROVE  \E b \in A : \A o \in A : o # b => Before(b, o)
<1> DEFINE First(b, T) == b \in T /\ \A o \in T : o # b => Before(b, o)
           K == {T \in SUBSET A : T = {} \/ \E b \in A : First(b, T)}
<1>1. {} \in K
  OBVIOUS
<1>2. ASSUME NEW T \in K, NEW x \in A \ T PROVE T \cup {x} \in K
  <2>1. CASE T = {}
    <3>1. First(x, T \cup {x})
      BY <2>1
    <3> QED  BY <3>1
  <2>2. CASE T # {}
    <3>1. PICK b \in A : First(b, T)
      BY <2>2
    <3>2. CASE Before(b, x)
      <4>1. First(b, T \cup {x})
        BY <3>1, <3>2
      <4> QED  BY <4>1
    <3>3. CASE Before(x, b)
      <4>1. ASSUME NEW o \in T PROVE Before(x, o)
        <5>1. CASE o = b
          BY <3>3, <5>1
        <5>2. CASE o # b
          <6>1. Before(b, o) /\ o \in A
            BY <3>1, <5>2
          <6> QED  BY <3>3, <6>1, BeforeOrders
        <5> QED  BY <5>1, <5>2
      <4>2. First(x, T \cup {x})
        BY <4>1
      <4> QED  BY <4>2
    <3>4. Before(b, x) \/ Before(x, b)
      <4>1. b # x
        BY <3>1
      <4> QED  BY <4>1, BeforeOrders
    <3> QED  BY <3>2, <3>3, <3>4
  <2> QED  BY <2>1, <2>2
<1>3. A \in K
  <2>1. K \in SUBSET SUBSET A
    OBVIOUS
  <2> HIDE DEF K
  <2> QED  BY <1>1, <1>2, <2>1, FiniteSetInduction
<1> QED  BY <1>3

\* A heap with an alive order has a best one.
LEMMA BestExists ==
    ASSUME EngineInv, HeapSides, HeapsFinite, NEW s \in Sides, NEW o \in heap[s], Alive(o)
    PROVE  \E b \in Orders : IsBest(b, s)
<1> DEFINE A == {x \in heap[s] : Alive(x)}
<1>1. heap[s] \in SUBSET Orders
  BY DEF EngineInv, TypeOK
<1>2. IsFiniteSet(A)
  <2>1. A \subseteq sent
    BY DEF HeapsFinite
  <2> QED  BY <2>1, FS_Subset DEF HeapsFinite
<1>3. A \in SUBSET Orders /\ A # {} /\ \A x \in A : Ticket[x].side = s
  BY <1>1 DEF HeapSides
<1>4. PICK b \in A : \A x \in A : x # b => Before(b, x)
  <2> HIDE DEF A
  <2> QED  BY <1>2, <1>3, FirstExists
<1> QED  BY <1>1, <1>4 DEF IsBest

\* If the best order of a side is not acceptable, no resting order of it is.
LEMMA NoneAcceptable ==
    ASSUME EngineInv, HeapSides, HeapsFinite, NEW t \in Orders,
           \A b \in Orders : IsBest(b, Opposite(Ticket[t].side)) => ~Acceptable(t, b),
           NEW o \in live, Ticket[o].side = Opposite(Ticket[t].side)
    PROVE  ~Acceptable(t, o)
<1> DEFINE s == Opposite(Ticket[t].side)
<1>1. s \in Sides /\ Ticket[t].side \in Sides
  BY TicketFields DEF Opposite, Sides
<1>2. o \in Orders /\ o \in heap[s] /\ Alive(o)
  BY DEF EngineInv, RestingHasSide, TypeOK, Alive
<1>3. PICK b \in Orders : IsBest(b, s)
  BY <1>1, <1>2, BestExists
<1>4. ~Acceptable(t, b) /\ Ticket[b].side = s
  BY <1>1, <1>3 DEF HeapSides, IsBest
<1>5. o = b \/ Before(b, o)
  BY <1>2, <1>3 DEF IsBest
<1>6. /\ Ticket[b].price \in Nat /\ Ticket[o].price \in Nat /\ Ticket[t].price \in Nat
  BY <1>2, TicketFields
<1>7. ASSUME Before(b, o) PROVE ~Acceptable(t, o)
  <2>1. CASE Ticket[t].side = "Buy"
    BY <1>4, <1>6, <1>7, <2>1 DEF Opposite, Before, Acceptable
  <2>2. CASE Ticket[t].side = "Sell"
    BY <1>4, <1>6, <1>7, <2>2 DEF Opposite, Before, Acceptable
  <2> QED  BY <1>1, <2>1, <2>2 DEF Sides
<1> QED  BY <1>4, <1>5, <1>7

\* The loop ends clear of what its order accepts.
LEMMA LeaveLoopClear ==
    ASSUME EngineInv, HeapSides, HeapsFinite, LeaveLoop PROVE FinishClear'
<1>1. pc = "match" /\ UNCHANGED <<taker, kind, remaining, halted, live>>
  BY DEF LeaveLoop, orderVars, outVars
<1>2. taker \in Orders /\ remaining \in [Orders -> Nat]
  BY <1>1, TakerFacts DEF EngineInv, TypeOK
<1> SUFFICES ASSUME Rests(taker), NEW b \in live,
                    Ticket[b].side = Opposite(Ticket[taker].side)
             PROVE  ~Acceptable(taker, b)
  BY <1>1 DEF FinishClear, Rests, Acceptable
<1>3. Want > 0
  BY <1>2 DEF Rests, Want
<1>4. \A x \in Orders : IsBest(x, Opposite(Ticket[taker].side)) => ~Acceptable(taker, x)
  BY <1>1, <1>3 DEF LeaveLoop, Meets
<1> QED  BY <1>2, <1>4, NoneAcceptable

\* The types are a function of the orders.
LEMMA KindTyped == ASSUME EngineInv PROVE kind \in [Orders -> OrderTypes]
  BY DEF EngineInv, TypeOK

\* Every step keeps the end of the loop clear: the book lock is held.
LEMMA FinishClearStep ==
    ASSUME EngineInv, HeapSides, HeapsFinite, FinishClear, [Next]_vars PROVE FinishClear'
<1>0. ASSUME pc' # "finish" PROVE FinishClear'
  BY <1>0 DEF FinishClear
<1>1. CASE Quiet
  <2>1. CASE LeaveLoop
    BY <2>1, LeaveLoopClear
  <2>2. CASE pc = "finish"
    BY <2>2, <1>1 DEF Quiet, FinishClear, Rests, Acceptable
  <2> QED  BY <1>0, <2>1, <2>2, <1>1 DEF Quiet
<1>2. CASE ProcessCancel
  BY <1>0, <1>2 DEF ProcessCancel, Settle, loopVars, Processing
<1>3. ASSUME NEW o \in Orders, RejectEmpty(o) PROVE FinishClear'
  BY <1>0, <1>3 DEF RejectEmpty, Settle, loopVars, Processing
<1>4. ASSUME NEW o \in Orders, ProcessPostOnly(o) PROVE FinishClear'
  BY <1>0, <1>4 DEF ProcessPostOnly, Settle, loopVars, Processing
<1>5. ASSUME NEW o \in Orders, ParkStop(o) PROVE FinishClear'
  BY <1>0, <1>5 DEF ParkStop, Settle, loopVars, Processing
<1>6. ASSUME NEW o \in Orders, RejectFok(o) PROVE FinishClear'
  BY <1>0, <1>6 DEF RejectFok, Settle, loopVars, Processing
<1>7. ASSUME NEW o \in Orders, StartMatch(o) PROVE FinishClear'
  <2>1. Processing(o) /\ EnterMatch(o)
    BY <1>7 DEF StartMatch
  <2>2. pc' = "finish" => kind[o] = "Iceberg" /\ taker' = o /\ kind' = [kind EXCEPT ![o] = "Iceberg"]
    BY <2>1 DEF EnterMatch, KindWhenMatched
  <2> QED  BY <2>2, KindTyped DEF FinishClear, Rests
<1>8. ASSUME NEW o \in Orders, FireStop(o) PROVE FinishClear'
  <2>1. EnterMatch(o)
    BY <1>8 DEF FireStop
  <2>2. pc' = "finish" => kind[o] = "Iceberg" /\ taker' = o /\ kind' = [kind EXCEPT ![o] = "Iceberg"]
    BY <2>1 DEF EnterMatch, KindWhenMatched
  <2> QED  BY <2>2, KindTyped DEF FinishClear, Rests
<1>9. ASSUME NEW b \in Orders, Fill(b) PROVE FinishClear'
  <2>1. pc' # "finish"
    BY <1>9, FillEffect
  <2> QED  BY <1>0, <2>1
<1>10. ASSUME NEW b \in Orders, PreventSelfTrade(b) PROVE FinishClear'
  <2>1. pc' = "finish" => taker' \in halted'
    BY <1>10, PreventEffect
  <2> QED  BY <2>1 DEF FinishClear
<1>11. CASE RestRemainder
  BY <1>0, <1>11 DEF RestRemainder, Return
<1>12. CASE FinishUnrested
  BY <1>0, <1>12 DEF FinishUnrested, Return
<1>13. CASE TriggerStops
  BY <1>0, <1>13 DEF TriggerStops, Settle, loopVars, Processing
<1> QED  BY <1>1, <1>2, <1>3, <1>4, <1>5, <1>6, <1>7, <1>8, <1>9, <1>10, <1>11, <1>12, <1>13, StepIs

\* A resting order that crosses none of the other side leaves the book as it was.
LEMMA RestsClear ==
    ASSUME EngineInv, NoCrossedBook, NEW t \in Orders, live' = live \cup {t},
           halted \subseteq halted', kind[t] # "Market", Ticket[t].price > 0,
           \/ t \in halted
           \/ \A b \in live : Ticket[b].side = Opposite(Ticket[t].side) => ~Acceptable(t, b)
    PROVE  NoCrossedBook'
<1>1. live \in SUBSET Orders
  BY DEF EngineInv, TypeOK
<1>2. ASSUME t \notin halted, NEW x \in live, Ticket[x].side = Opposite(Ticket[t].side)
      PROVE  IF Ticket[t].side = "Buy" THEN Ticket[t].price < Ticket[x].price
                                       ELSE Ticket[t].price > Ticket[x].price
  BY <1>1, <1>2, TicketFields DEF Acceptable
<1>3. SUFFICES ASSUME NEW b \in live', NEW a \in live',
                      Ticket[b].side = "Buy", Ticket[a].side = "Sell",
                      Ticket[b].price >= Ticket[a].price
               PROVE  b \in halted' \/ a \in halted'
  BY DEF NoCrossedBook
<1>4. CASE b \in live /\ a \in live
  BY <1>3, <1>4 DEF NoCrossedBook
<1>5. b # a
  BY <1>3
<1>6. CASE b = t /\ a \in live
  BY <1>1, <1>2, <1>3, <1>6, TicketFields DEF Opposite
<1>7. CASE a = t /\ b \in live
  BY <1>1, <1>2, <1>3, <1>7, TicketFields DEF Opposite
<1> QED  BY <1>4, <1>5, <1>6, <1>7

\* A step that adds no resting order crosses nothing.
LEMMA FewerLive ==
    ASSUME NoCrossedBook, live' \subseteq live, halted \subseteq halted'
    PROVE  NoCrossedBook'
BY DEF NoCrossedBook

\* Every step keeps the book uncrossed.
LEMMA NoCrossedStep ==
    ASSUME EngineInv, HeapSides, HeapsFinite, KindInv, FinishClear, NoCrossedBook, [Next]_vars
    PROVE  NoCrossedBook'
<1>1. CASE Quiet
  BY <1>1, FewerLive DEF Quiet
<1>2. CASE ProcessCancel
  <2>1. live' \subseteq live /\ UNCHANGED halted
    BY <1>2 DEF ProcessCancel
  <2> QED  BY <2>1, FewerLive
<1>3. ASSUME NEW o \in Orders, RejectEmpty(o) PROVE NoCrossedBook'
  BY <1>3, FewerLive DEF RejectEmpty, Settle, EnterMatch, bookVars, outVars
<1>4. ASSUME NEW o \in Orders, ProcessPostOnly(o) PROVE NoCrossedBook'
  <2>1. CASE live' = live
    BY <1>4, <2>1, FewerLive DEF ProcessPostOnly, Settle
  <2>2. CASE Ticket[o].price > 0 /\ ~WouldCross(o) /\ live' = live \cup {o}
    <3>1. kind[o] # "Market" /\ UNCHANGED halted
      BY <1>4 DEF ProcessPostOnly, Settle
    <3>2. \A b \in live : Ticket[b].side = Opposite(Ticket[o].side) => ~Acceptable(o, b)
      BY <2>2, NoneAcceptable DEF WouldCross
    <3> QED  BY <2>2, <3>1, <3>2, RestsClear
  <2> QED  BY <1>4, <2>1, <2>2 DEF ProcessPostOnly
<1>5. ASSUME NEW o \in Orders, ParkStop(o) PROVE NoCrossedBook'
  BY <1>5, FewerLive DEF ParkStop, Settle, EnterMatch, bookVars, outVars
<1>6. ASSUME NEW o \in Orders, RejectFok(o) PROVE NoCrossedBook'
  BY <1>6, FewerLive DEF RejectFok, Settle, EnterMatch, bookVars, outVars
<1>7. ASSUME NEW o \in Orders, StartMatch(o) PROVE NoCrossedBook'
  BY <1>7, FewerLive DEF StartMatch, Settle, EnterMatch, bookVars, outVars
<1>8. ASSUME NEW o \in Orders, FireStop(o) PROVE NoCrossedBook'
  BY <1>8, FewerLive DEF FireStop, Settle, EnterMatch, bookVars, outVars
<1>9. ASSUME NEW b \in Orders, Fill(b) PROVE NoCrossedBook'
  BY <1>9, FillEffect, FewerLive
<1>10. ASSUME NEW b \in Orders, PreventSelfTrade(b) PROVE NoCrossedBook'
  BY <1>10, PreventEffect, FewerLive
<1>11. CASE RestRemainder
  <2>1. /\ pc = "finish" /\ Rests(taker) /\ taker \in Orders
        /\ live' = live \cup {taker} /\ UNCHANGED halted
    BY <1>11, TakerFacts DEF RestRemainder, AddToBook, Return
  <2>2. kind[taker] \in {"Limit", "FillOrKill"}
    BY <2>1 DEF Rests
  <2>3. Ticket[taker].type \in {"Limit", "StopLimit", "FillOrKill"}
    BY <2>1, <2>2 DEF KindInv, KindIs
  <2>4. Ticket[taker].price > 0
    BY <2>1, <2>3, TicketAssumption
  <2>5. \/ taker \in halted
        \/ \A b \in live : Ticket[b].side = Opposite(Ticket[taker].side) => ~Acceptable(taker, b)
    BY <2>1 DEF FinishClear
  <2> QED  BY <2>1, <2>2, <2>4, <2>5, RestsClear
<1>12. CASE FinishUnrested
  BY <1>12, FewerLive DEF FinishUnrested, Return
<1>13. CASE TriggerStops
  BY <1>13, FewerLive DEF TriggerStops, Settle, EnterMatch, bookVars, outVars
<1> QED  BY <1>1, <1>2, <1>3, <1>4, <1>5, <1>6, <1>7, <1>8, <1>9, <1>10, <1>11, <1>12, <1>13, StepIs

\* What is in a heap after a step was there before, or has just been placed.
LEMMA HeapsFiniteStep ==
    ASSUME EngineInv, HeapsFinite, [Next]_vars PROVE HeapsFinite'
<1>0. /\ TypeOK /\ heap \in [Sides -> SUBSET Orders]
      /\ \A s \in Sides : Purged(s) \subseteq heap[s]
  BY PurgeKeeps DEF EngineInv, TypeOK
<1> DEFINE Kept(x) == \A s \in Sides : heap'[s] \subseteq heap[s] \cup {x}
<1>1. ASSUME NEW x \in sent, Kept(x), UNCHANGED sent PROVE HeapsFinite'
  BY <1>1 DEF HeapsFinite
<1>2. ASSUME \A s \in Sides : heap'[s] \subseteq heap[s], UNCHANGED sent PROVE HeapsFinite'
  BY <1>2 DEF HeapsFinite
<1>3. ASSUME NEW o \in Orders, Submit(o) PROVE HeapsFinite'
  <2>1. sent' = sent \cup {o} /\ UNCHANGED heap
    BY <1>3 DEF Submit, bookVars
  <2>2. IsFiniteSet(sent')
    BY <2>1, FS_AddElement DEF HeapsFinite
  <2> QED  BY <2>1, <2>2 DEF HeapsFinite
<1>4. ASSUME NEW s \in Sides, heap' = [heap EXCEPT ![s] = Purged(s)], UNCHANGED sent
      PROVE  HeapsFinite'
  BY <1>0, <1>2, <1>4
<1>5. ASSUME NEW o \in Orders, ProcessPostOnly(o) PROVE HeapsFinite'
  <2>1. /\ UNCHANGED sent /\ Processing(o)
        /\ Opposite(Ticket[o].side) \in Sides
    BY <1>5, TicketFields DEF ProcessPostOnly, Settle, clientVars, Opposite, Sides
  <2>2. o \in sent
    <3>1. batch \in Seq(Orders) /\ batch # <<>> /\ o = Head(batch)
      BY <1>0, <2>1 DEF Processing, TypeOK
    <3>2. 1 \in DOMAIN batch /\ o = batch[1]
      BY <3>1, TailAt
    <3> QED  BY <3>2 DEF EngineInv, QueuesFresh, Fresh
  <2>3. CASE UNCHANGED heap
    BY <1>2, <2>1, <2>3
  <2>4. CASE heap' = [heap EXCEPT ![Opposite(Ticket[o].side)] = Purged(Opposite(Ticket[o].side))]
    BY <1>4, <2>1, <2>4
  <2>5. CASE heap' = [s \in Sides |-> IF s = Ticket[o].side THEN heap[s] \cup {o} ELSE Purged(s)]
    <3>1. Kept(o)
      BY <1>0, <2>5
    <3> QED  BY <1>1, <2>1, <2>2, <3>1
  <2> QED  BY <1>5, <2>3, <2>4, <2>5 DEF ProcessPostOnly
<1>6. ASSUME pc \in {"match", "finish"}, PurgeOpposite, UNCHANGED sent PROVE HeapsFinite'
  <2>1. Opposite(Ticket[taker].side) \in Sides
    BY <1>6, TakerFacts
  <2> QED  BY <1>4, <1>6, <2>1 DEF PurgeOpposite
<1>7. CASE ClientStep
  <2>1. CASE \E s \in Sides : ReadBest(s)
    BY <1>4, <2>1 DEF ReadBest, clientVars
  <2>2. CASE Stop \/ \E o \in Orders : \E u \in Cancellers : RequestCancel(o, u)
    BY <1>2, <2>2 DEF Stop, RequestCancel, bookVars
  <2> QED  BY <1>3, <1>7, <2>1, <2>2 DEF ClientStep
<1>8. CASE EngineStep
  <2>1. CASE \E o \in Orders : ProcessPostOnly(o)
    BY <1>5, <2>1
  <2>2. CASE \E b \in Orders : Fill(b) \/ PreventSelfTrade(b)
    BY <1>6, <2>2 DEF Fill, PreventSelfTrade, Meets, clientVars
  <2>3. CASE LeaveLoop
    BY <1>2, <1>6, <2>3 DEF LeaveLoop, clientVars
  <2>4. CASE RestRemainder
    <3>1. taker \in sent /\ taker \in Orders /\ AddToBook(taker) /\ UNCHANGED sent
      BY <2>4, TakerFacts DEF RestRemainder, Return, clientVars
    <3>2. Kept(taker)
      BY <1>0, <3>1, TicketFields DEF AddToBook
    <3> QED  BY <1>1, <3>1, <3>2
  <2>5. CASE \E o \in Orders : \/ RejectEmpty(o) \/ ParkStop(o) \/ RejectFok(o)
                               \/ StartMatch(o) \/ FireStop(o)
    BY <1>2, <2>5 DEF RejectEmpty, ParkStop, RejectFok, StartMatch, FireStop, EnterMatch,
       Settle, clientVars, bookVars
  <2>6. CASE Exit \/ Poll \/ Drain \/ ProcessCancel \/ FinishUnrested \/ ShowSlice
             \/ TriggerStops \/ EndStops
    BY <1>2, <2>6 DEF Exit, Poll, Drain, ProcessCancel, FinishUnrested, Return, ShowSlice,
       TriggerStops, EndStops, clientVars, bookVars
  <2> QED  BY <1>8, <2>1, <2>2, <2>3, <2>4, <2>5, <2>6 DEF EngineStep
<1>9. CASE UNCHANGED vars
  BY <1>2, <1>9 DEF vars, clientVars, bookVars
<1> QED  BY <1>7, <1>8, <1>9 DEF Next

-------------------------------------------------------------------------------
(* The stream of fills accounts for every order.                            *)

Amounts == [i \in DOMAIN fills |-> fills[i].qty]

\* The fills of a stream that announce the end of the order.
Ends(o) == {i \in FillsOf(o) : \/ fills[i].taker = o /\ fills[i].takerFilled
                               \/ fills[i].maker = o /\ fills[i].makerFilled}

Accounted(o) ==
    /\ filled[o] = SumFunctionOnSet(Amounts, FillsOf(o))
    /\ Ticket[o].type # "Iceberg" /\ Ticket[o].qty > 0 =>
          Cardinality(Ends(o)) = IF remaining[o] = 0 THEN 1 ELSE 0

\* The property, order by order.
LEMMA AccountByOrder == FillsAccountForOrders <=> \A o \in Orders : Accounted(o)
  BY DEF FillsAccountForOrders, Accounted, Ends, Amounts

\* The fills of an order are finitely many, of natural quantities.
LEMMA FillsOfFacts ==
    ASSUME fills \in Seq(Fills), NEW o
    PROVE  /\ IsFiniteSet(FillsOf(o)) /\ IsFiniteSet(Ends(o))
           /\ FillsOf(o) \subseteq DOMAIN fills /\ Ends(o) \subseteq FillsOf(o)
           /\ \A i \in DOMAIN fills : Amounts[i] = fills[i].qty /\ Amounts[i] \in Nat
<1>1. DOMAIN fills = 1..Len(fills) /\ Len(fills) \in Int /\ 1 \in Int
  OBVIOUS
<1>2. IsFiniteSet(1..Len(fills))
  BY <1>1, FS_Interval
<1>3. FillsOf(o) \subseteq DOMAIN fills /\ Ends(o) \subseteq FillsOf(o)
  BY DEF FillsOf, Ends
<1>4. IsFiniteSet(FillsOf(o)) /\ IsFiniteSet(Ends(o))
  BY <1>1, <1>2, <1>3, FS_Subset
<1>5. \A i \in DOMAIN fills : fills[i] \in Fills
  OBVIOUS
<1>6. \A i \in DOMAIN fills : Amounts[i] = fills[i].qty /\ Amounts[i] \in Nat
  BY <1>5 DEF Amounts, Fills
<1> QED  BY <1>3, <1>4, <1>6

\* A fill more is a fill of its taker and of its maker, and of no one else.
LEMMA FillsOfGrow ==
    ASSUME fills \in Seq(Fills), NEW r \in Fills, fills' = Append(fills, r), NEW o
    PROVE  /\ FillsOf(o)' = IF o \in {r.taker, r.maker} THEN FillsOf(o) \cup {Len(fills) + 1}
                                                        ELSE FillsOf(o)
           /\ Ends(o)' = IF \/ r.taker = o /\ r.takerFilled
                            \/ r.maker = o /\ r.makerFilled
                         THEN Ends(o) \cup {Len(fills) + 1} ELSE Ends(o)
           /\ Len(fills) + 1 \notin FillsOf(o)
<1>1. /\ DOMAIN fills' = DOMAIN fills \cup {Len(fills) + 1}
      /\ Len(fills) + 1 \notin DOMAIN fills
      /\ fills'[Len(fills) + 1] = r
      /\ \A i \in DOMAIN fills : fills'[i] = fills[i]
  BY AppendAt
<1> DEFINE n == Len(fills) + 1
<1> HIDE DEF n
<1>2. FillsOf(o)' = IF o \in {r.taker, r.maker} THEN FillsOf(o) \cup {n} ELSE FillsOf(o)
  BY <1>1 DEF FillsOf, n
<1>3. n \notin FillsOf(o)
  BY <1>1 DEF FillsOf, n
<1>4. Ends(o)' = IF \/ r.taker = o /\ r.takerFilled
                    \/ r.maker = o /\ r.makerFilled
                 THEN Ends(o) \cup {n} ELSE Ends(o)
  <2>1. \A i \in FillsOf(o) : i \in DOMAIN fills /\ fills'[i] = fills[i]
    BY <1>1 DEF FillsOf
  <2>2. \A i \in FillsOf(o) : i \in Ends(o)' <=> i \in Ends(o)
    BY <1>2, <2>1 DEF Ends
  <2>3. \A i : i \in Ends(o)' => i \in FillsOf(o) \/ (i = n /\ o \in {r.taker, r.maker})
    BY <1>2 DEF Ends
  <2>4. n \in Ends(o)' <=> \/ r.taker = o /\ r.takerFilled
                           \/ r.maker = o /\ r.makerFilled
    BY <1>1, <1>2, <1>3 DEF Ends, n
  <2>5. Ends(o) \subseteq FillsOf(o)
    BY DEF Ends
  <2> DEFINE E == Ends(o)'
  <2>6. \A i \in E : i \in Ends(o) \/ i = n
    BY <2>2, <2>3
  <2>7. \A i \in Ends(o) : i \in E
    BY <2>2, <2>5
  <2>8. n \in E <=> \/ r.taker = o /\ r.takerFilled
                    \/ r.maker = o /\ r.makerFilled
    BY <2>4
  <2>9. n \notin Ends(o)
    BY <1>3, <2>5
  <2> HIDE DEF E
  <2>10. CASE n \in E
    <3>1. E = Ends(o) \cup {n}
      BY <2>6, <2>7, <2>10
    <3> QED  BY <2>8, <2>10, <3>1, Zenon DEF E
  <2>11. CASE n \notin E
    <3>1. E = Ends(o)
      BY <2>6, <2>7, <2>11
    <3> QED  BY <2>8, <2>11, <3>1, Zenon DEF E
  <2> QED  BY <2>10, <2>11
<1> QED  BY <1>2, <1>3, <1>4 DEF n

\* The quantities of the fills of an order, after one more.
LEMMA SumGrows ==
    ASSUME fills \in Seq(Fills), NEW r \in Fills, fills' = Append(fills, r), NEW o
    PROVE  SumFunctionOnSet(Amounts, FillsOf(o))' =
              IF o \in {r.taker, r.maker} THEN SumFunctionOnSet(Amounts, FillsOf(o)) + r.qty
                                          ELSE SumFunctionOnSet(Amounts, FillsOf(o))
<1> DEFINE n == Len(fills) + 1
           S == FillsOf(o)
           f == Amounts
           g == Amounts'
<1>1. /\ DOMAIN fills' = DOMAIN fills \cup {n} /\ fills'[n] = r
      /\ \A i \in DOMAIN fills : fills'[i] = fills[i]
  BY AppendAt
<1>2. /\ IsFiniteSet(S) /\ S \subseteq DOMAIN fills
      /\ \A i \in DOMAIN fills : f[i] = fills[i].qty /\ f[i] \in Nat
  BY FillsOfFacts
<1>3. g[n] = r.qty /\ r.qty \in Nat /\ \A i \in DOMAIN fills : g[i] = fills[i].qty
  BY <1>1 DEF Amounts, Fills
<1>4. \A i \in S : f[i] = g[i] /\ f[i] \in Int
  BY <1>2, <1>3
<1>5. n \notin S /\ FillsOf(o)' = IF o \in {r.taker, r.maker} THEN S \cup {n} ELSE S
  BY FillsOfGrow
<1>6. \A i \in S \cup {n} : g[i] \in Int
  BY <1>2, <1>3, <1>4
<1> HIDE DEF n, S, f, g
<1>7. SumFunctionOnSet(f, S) = SumFunctionOnSet(g, S) /\ SumFunctionOnSet(f, S) \in Int
  BY <1>2, <1>4, SumSame, SumType
<1>8. SumFunctionOnSet(g, S \cup {n}) = g[n] + SumFunctionOnSet(g, S)
  BY <1>2, <1>5, <1>6, SumAdd
<1>9. SumFunctionOnSet(g, FillsOf(o)') =
         IF o \in {r.taker, r.maker} THEN SumFunctionOnSet(f, S) + r.qty
                                     ELSE SumFunctionOnSet(f, S)
  BY <1>3, <1>5, <1>7, <1>8
<1> QED  BY <1>9 DEF S, f, g

\* Only a fill changes what orders have filled and have left.
LEMMA OnlyFillTrades ==
    ASSUME EngineInv, [Next]_vars, ~\E b \in Orders : Fill(b)
    PROVE  UNCHANGED <<filled, remaining>>
BY StepIs DEF Quiet, ProcessCancel, RestRemainder, FinishUnrested, Return, TriggerStops,
   RejectEmpty, ProcessPostOnly, ParkStop, RejectFok, Settle, StartMatch, FireStop,
   EnterMatch, PreventSelfTrade, orderVars

\* Every step keeps the account of every order.
LEMMA AccountStep ==
    ASSUME EngineInv, KindInv, FillsAccountForOrders, [Next]_vars
    PROVE  FillsAccountForOrders'
<1>0. /\ fills \in Seq(Fills) /\ filled \in [Orders -> Nat] /\ remaining \in [Orders -> Nat]
      /\ \A o \in Orders : Accounted(o)
  BY AccountByOrder DEF EngineInv, TypeOK
<1>1. CASE \E b \in Orders : Fill(b)
  <2>0. PICK b \in Orders : Fill(b)
    BY <1>1
  <2>1. PICK q \in Nat \ {0} :
           /\ filled'[taker] = filled[taker] + q
           /\ filled'[b] = filled[b] + q
           /\ remaining'[taker] = remaining[taker] - q
           /\ remaining'[b] = remaining[b] - q
           /\ q <= Want /\ q <= remaining[b]
           /\ fills' = Append(fills, [taker |-> taker, maker |-> b, qty |-> q,
                                      price |-> Ticket[b].price,
                                      takerFilled |-> Want = q,
                                      makerFilled |-> remaining[b] = q])
    BY <2>0, FillEffect
  <2>2. /\ b # taker /\ taker \in Orders
        /\ \A o \in Orders \ {taker, b} : filled'[o] = filled[o] /\ remaining'[o] = remaining[o]
    BY <2>0, FillEffect
  <2>3. PICK r : /\ r = [taker |-> taker, maker |-> b, qty |-> q, price |-> Ticket[b].price,
                         takerFilled |-> Want = q, makerFilled |-> remaining[b] = q]
                 /\ r \in Fills /\ fills' = Append(fills, r)
    <3>1. Ticket[b].price \in Nat /\ (Want = q) \in BOOLEAN /\ (remaining[b] = q) \in BOOLEAN
      BY TicketFields
    <3>2. [taker |-> taker, maker |-> b, qty |-> q, price |-> Ticket[b].price,
           takerFilled |-> Want = q, makerFilled |-> remaining[b] = q] \in Fills
      BY <2>2, <3>1 DEF Fills
    <3> QED  BY <2>1, <3>2
  <2>4. /\ r.taker = taker /\ r.maker = b /\ r.qty = q
        /\ r.takerFilled <=> Want = q
        /\ r.makerFilled <=> remaining[b] = q
    BY <2>3
  <2>5. ASSUME NEW o \in Orders PROVE Accounted(o)'
    <3>1. filled'[o] = SumFunctionOnSet(Amounts, FillsOf(o))'
      <4>1. SumFunctionOnSet(Amounts, FillsOf(o))' =
               IF o \in {taker, b} THEN SumFunctionOnSet(Amounts, FillsOf(o)) + q
                                   ELSE SumFunctionOnSet(Amounts, FillsOf(o))
        <5>1. SumFunctionOnSet(Amounts, FillsOf(o))' =
                 IF o \in {r.taker, r.maker} THEN SumFunctionOnSet(Amounts, FillsOf(o)) + r.qty
                                             ELSE SumFunctionOnSet(Amounts, FillsOf(o))
          <6>1. fills \in Seq(Fills)
            BY <1>0
          <6> QED  BY <2>3, <6>1, SumGrows
        <5> QED  BY <2>4, <5>1
      <4>2. filled[o] = SumFunctionOnSet(Amounts, FillsOf(o))
        BY <1>0 DEF Accounted
      <4>3. filled'[o] = IF o \in {taker, b} THEN filled[o] + q ELSE filled[o]
        BY <2>1, <2>2
      <4> QED  BY <4>1, <4>2, <4>3
    <3>2. ASSUME Ticket[o].type # "Iceberg", Ticket[o].qty > 0
          PROVE  Cardinality(Ends(o)') = IF remaining'[o] = 0 THEN 1 ELSE 0
      <4>1. /\ Ends(o)' = IF \/ taker = o /\ Want = q
                             \/ b = o /\ remaining[b] = q
                          THEN Ends(o) \cup {Len(fills) + 1} ELSE Ends(o)
            /\ Len(fills) + 1 \notin Ends(o)
            /\ IsFiniteSet(Ends(o))
        <5>1. /\ Ends(o)' = IF \/ r.taker = o /\ r.takerFilled
                               \/ r.maker = o /\ r.makerFilled
                            THEN Ends(o) \cup {Len(fills) + 1} ELSE Ends(o)
              /\ Len(fills) + 1 \notin FillsOf(o)
          BY <1>0, <2>3, FillsOfGrow
        <5>2. IsFiniteSet(Ends(o)) /\ Ends(o) \subseteq FillsOf(o)
          BY <1>0, FillsOfFacts
        <5>3. Ends(o)' = IF \/ taker = o /\ Want = q
                            \/ b = o /\ remaining[b] = q
                         THEN Ends(o) \cup {Len(fills) + 1} ELSE Ends(o)
          BY <2>4, <5>1, Zenon
        <5> QED  BY <5>1, <5>2, <5>3
      <4>2. Cardinality(Ends(o)) = IF remaining[o] = 0 THEN 1 ELSE 0
        BY <1>0, <3>2 DEF Accounted
      <4>3. /\ o = taker => Want = remaining[taker]
            /\ o \in {taker, b} => remaining[o] > 0
        <5>1. kind[taker] # "Iceberg" \/ o # taker
          BY <2>2, <3>2 DEF KindInv, KindIs
        <5>2. o = taker => Want = remaining[taker]
          BY <5>1 DEF Want
        <5> QED  BY <1>0, <2>1, <2>2, <5>2
      <4>4. IF \/ taker = o /\ Want = q
               \/ b = o /\ remaining[b] = q
            THEN remaining'[o] = 0 /\ remaining[o] # 0
            ELSE remaining'[o] = 0 <=> remaining[o] = 0
        BY <1>0, <2>1, <2>2, <4>3
      <4>5. Cardinality(Ends(o) \cup {Len(fills) + 1}) = Cardinality(Ends(o)) + 1
        BY <4>1, FS_AddElement
      <4>6. CASE \/ taker = o /\ Want = q
                 \/ b = o /\ remaining[b] = q
        BY <4>1, <4>2, <4>4, <4>5, <4>6
      <4>7. CASE ~(\/ taker = o /\ Want = q
                   \/ b = o /\ remaining[b] = q)
        BY <4>1, <4>2, <4>4, <4>7
      <4> QED  BY <4>6, <4>7
    <3> QED  BY <3>1, <3>2 DEF Accounted
  <2> QED  BY <2>5 DEF FillsAccountForOrders, Accounted, Ends, Amounts
<1>2. CASE ~\E b \in Orders : Fill(b)
  <2>1. UNCHANGED fills
    BY <1>2, OnlyFillFills
  <2>2. UNCHANGED <<filled, remaining>>
    BY <1>2, OnlyFillTrades
  <2> QED  BY <2>1, <2>2 DEF FillsAccountForOrders, FillsOf
<1> QED  BY <1>1, <1>2

-------------------------------------------------------------------------------
(* The theorems about the book and its fills.                               *)

\* The second inductive invariant, which rests on the first.
BookInv ==
    /\ KindInv /\ PricesReached /\ TakerDone
    /\ HeapsFinite /\ FinishClear
    /\ NoCrossedBook /\ FillsRespectTickets /\ OpenOrdersReachable /\ FillsAccountForOrders

\* The initial states satisfy it.
LEMMA InitBook == Init => BookInv
<1> SUFFICES ASSUME Init PROVE BookInv
  OBVIOUS
<1>1. KindInv /\ PricesReached /\ TakerDone
  BY DEF Init, KindInv, KindIs, RestingKinds, TakerKind, Waiting, PricesReached, TakerDone
<1>2. HeapsFinite
  BY FS_EmptySet DEF Init, HeapsFinite
<1>3. FinishClear /\ NoCrossedBook /\ FillsRespectTickets /\ OpenOrdersReachable
  BY DEF Init, FinishClear, NoCrossedBook, FillsRespectTickets, OpenOrdersReachable
<1>4. FillsAccountForOrders
  <2> SUFFICES ASSUME NEW o \in Orders PROVE Accounted(o)
    BY AccountByOrder
  <2>1. FillsOf(o) = {} /\ Ends(o) = {}
    BY DEF Init, FillsOf, Ends
  <2>2. SumFunctionOnSet(Amounts, FillsOf(o)) = 0 /\ Cardinality(Ends(o)) = 0
    BY <2>1, SumEmpty, FS_EmptySet
  <2>3. filled[o] = 0 /\ remaining[o] = Ticket[o].qty
    BY DEF Init
  <2> QED  BY <2>2, <2>3, TicketFields DEF Accounted
<1> QED  BY <1>1, <1>2, <1>3, <1>4 DEF BookInv

\* Every step keeps it.
LEMMA BookInvStep == EngineInv /\ HeapSides /\ BookInv /\ [Next]_vars => BookInv'
<1> SUFFICES ASSUME EngineInv, HeapSides, BookInv, [Next]_vars PROVE BookInv'
  OBVIOUS
<1> USE DEF BookInv
<1>1. KindInv' /\ PricesReached' /\ TakerDone'
  BY KindInvStep, PricesReachedStep, TakerDoneStep
<1>2. HeapsFinite' /\ FinishClear'
  BY HeapsFiniteStep, FinishClearStep
<1>3. NoCrossedBook' /\ FillsRespectTickets'
  BY NoCrossedStep, FillsRespectStep
<1>4. OpenOrdersReachable' /\ FillsAccountForOrders'
  BY ReachableStep, AccountStep
<1> QED  BY <1>1, <1>2, <1>3, <1>4

\* The second invariant holds in every state the engine can reach.
THEOREM BookInvariant == Spec => []BookInv
  BY InitBook, BookInvStep, EngineInvariant, HeapSidesInvariant, PTL DEF Spec

\* A resting bid is below every resting ask, for every stream of orders and
\* cancels, except next to an order that self-trade prevention stopped early.
THEOREM BookIsNotCrossed == Spec => []NoCrossedBook
<1>1. BookInv => NoCrossedBook
  BY DEF BookInv
<1> QED  BY <1>1, BookInvariant, PTL

\* No fill is worse than the limit of its taker, trades a user with itself
\* against their will, or involves a stop order before its price was reached.
THEOREM TicketsAreRespected == Spec => []FillsRespectTickets
<1>1. BookInv => FillsRespectTickets
  BY DEF BookInv
<1> QED  BY <1>1, BookInvariant, PTL

\* The fills that settlement works from add up to what every order has traded,
\* and exactly one of them announces the end of an order that is used up.
THEOREM FillsAccount == Spec => []FillsAccountForOrders
<1>1. BookInv => FillsAccountForOrders
  BY DEF BookInv
<1> QED  BY <1>1, BookInvariant, PTL

\* An answered order that still reads as open is resting, parked, triggered or
\* in progress: the engine never drops it silently.
THEOREM OpenOrdersAreReachable == Spec => []OpenOrdersReachable
<1>1. BookInv => OpenOrdersReachable
  BY DEF BookInv
<1> QED  BY <1>1, BookInvariant, PTL

-------------------------------------------------------------------------------
(* What the gRPC server shows of the book.                                  *)

\* A finite set of prices has a last one on either side.
LEMMA WorstExists ==
    ASSUME NEW S \in SUBSET Nat, IsFiniteSet(S), S # {}, NEW s
    PROVE  \E w \in S : Better(s, S, w) = S \ {w}
<1> DEFINE Worst(w, T) == w \in T /\ \A p \in T \ {w} : IF s = "Buy" THEN p > w ELSE p < w
           K == {T \in SUBSET S : T = {} \/ \E w \in S : Worst(w, T)}
<1>1. {} \in K
  OBVIOUS
<1>2. ASSUME NEW T \in K, NEW x \in S \ T PROVE T \cup {x} \in K
  <2>1. CASE T = {}
    <3>1. Worst(x, T \cup {x})
      BY <2>1
    <3> QED  BY <3>1
  <2>2. CASE T # {}
    <3>1. PICK w \in S : Worst(w, T)
      BY <2>2
    <3>2. x \in Nat /\ w \in Nat /\ x # w /\ \A p \in T : p \in Nat
      BY <3>1
    <3>3. CASE IF s = "Buy" THEN x > w ELSE x < w
      <4>1. Worst(w, T \cup {x})
        BY <3>1, <3>3
      <4> QED  BY <4>1
    <3>4. CASE ~IF s = "Buy" THEN x > w ELSE x < w
      <4>1. Worst(x, T \cup {x})
        BY <3>1, <3>2, <3>4
      <4> QED  BY <4>1
    <3> QED  BY <3>3, <3>4
  <2> QED  BY <2>1, <2>2
<1>3. S \in K
  <2>1. K \in SUBSET SUBSET S
    OBVIOUS
  <2> HIDE DEF K
  <2> QED  BY <1>1, <1>2, <2>1, FiniteSetInduction
<1>4. PICK w \in S : Worst(w, S)
  BY <1>3
<1>5. ~IF s = "Buy" THEN w > w ELSE w < w
  OBVIOUS
<1> QED  BY <1>4, <1>5 DEF Better

\* Every place of the sorted prices has a price.
LEMMA PlacesAreTaken ==
    ASSUME NEW S \in SUBSET Nat, IsFiniteSet(S), NEW s, NEW i \in 1..Cardinality(S)
    PROVE  \E p \in S : Cardinality(Better(s, S, p)) = i - 1
<1> DEFINE Taken(T, j) == \E p \in T : Cardinality(Better(s, T, p)) = j - 1
           K == {n \in Nat : \A T \in SUBSET S : Cardinality(T) = n => \A j \in 1..n : Taken(T, j)}
<1>1. 0 \in K
  OBVIOUS
<1>2. ASSUME NEW n \in K PROVE n + 1 \in K
  <2> SUFFICES ASSUME NEW T \in SUBSET S, Cardinality(T) = n + 1, NEW j \in 1..(n + 1)
               PROVE  Taken(T, j)
    OBVIOUS
  <2>1. T \in SUBSET Nat /\ IsFiniteSet(T) /\ T # {} /\ n \in Nat
    <3>1. n \in Nat /\ IsFiniteSet(T)
      BY FS_Subset
    <3>2. Cardinality(T) # 0
      BY <3>1
    <3> QED  BY <3>1, <3>2, FS_EmptySet
  <2>2. PICK w \in T : Better(s, T, w) = T \ {w}
    BY <2>1, WorstExists
  <2> DEFINE U == T \ {w}
  <2>3. U \in SUBSET S /\ Cardinality(U) = n
    <3>1. Cardinality(U) = Cardinality(T) - 1
      BY <2>1, FS_RemoveElement
    <3> QED  BY <2>1, <3>1
  <2>4. CASE j = n + 1
    BY <2>2, <2>3, <2>4
  <2>5. CASE j # n + 1
    <3>1. j \in 1..n
      BY <2>1, <2>5
    <3>2. PICK p \in U : Cardinality(Better(s, U, p)) = j - 1
      BY <2>3, <3>1
    <3>3. Better(s, T, p) = Better(s, U, p)
      <4>1. IF s = "Buy" THEN p > w ELSE p < w
        BY <2>2, <3>2 DEF Better
      <4>2. p \in Nat /\ w \in Nat
        BY <2>1, <3>2
      <4>3. ~IF s = "Buy" THEN w > p ELSE w < p
        BY <4>1, <4>2
      <4> QED  BY <4>3 DEF Better
    <3> QED  BY <3>2, <3>3
  <2> QED  BY <2>4, <2>5
<1>3. K = Nat
  <2>1. K \in SUBSET Nat
    OBVIOUS
  <2> HIDE DEF K
  <2> QED  BY <1>1, <1>2, <2>1, NatSetInduction
<1>4. Cardinality(S) \in Nat
  BY FS_CardinalityType
<1> QED  BY <1>3, <1>4

\* Nothing is better than the price at the first place alone.
LEMMA FirstPlace ==
    ASSUME NEW S \in SUBSET Nat, IsFiniteSet(S), NEW s, NEW p \in S
    PROVE  /\ Cardinality(Better(s, S, p)) = 0 <=> Better(s, S, p) = {}
           /\ Better(s, S, p) = {} => \A q \in S : Better(s, S, q) = {} => q = p
<1>1. IsFiniteSet(Better(s, S, p))
  <2>1. Better(s, S, p) \subseteq S
    BY DEF Better
  <2> QED  BY <2>1, FS_Subset
<1>2. ASSUME Better(s, S, p) = {}, NEW q \in S, Better(s, S, q) = {} PROVE q = p
  <2>1. /\ ~IF s = "Buy" THEN q > p ELSE q < p
        /\ ~IF s = "Buy" THEN p > q ELSE p < q
    BY <1>2 DEF Better
  <2> QED  BY <2>1
<1> QED  BY <1>1, <1>2, FS_EmptySet

\* What rests is finite, and so are its prices.
LEMMA RestingFinite ==
    ASSUME EngineInv, HeapsFinite, NEW s
    PROVE  /\ Resting(s) \in SUBSET live /\ IsFiniteSet(Resting(s))
           /\ Prices(s) \in SUBSET Nat /\ IsFiniteSet(Prices(s))
           /\ Cardinality(Prices(s)) \in Nat
<1>1. Resting(s) \in SUBSET live /\ live \in SUBSET Orders /\ live \subseteq sent
  BY DEF Resting, EngineInv, TypeOK, QueuesFresh, Placed
<1>2. IsFiniteSet(Resting(s))
  BY <1>1, FS_Subset DEF HeapsFinite
<1>3. Prices(s) \in SUBSET Nat
  BY <1>1, TicketFields DEF Prices
<1>4. IsFiniteSet(Prices(s))
  <2> DEFINE R == Resting(s)
             f == [o \in R |-> Ticket[o].price]
  <2>1. Prices(s) = {f[o] : o \in R}
    BY DEF Prices
  <2> HIDE DEF R
  <2>2. IsFiniteSet(R)
    BY <1>2 DEF R
  <2> HIDE DEF f
  <2>3. IsFiniteSet({f[o] : o \in R})
    <3> DEFINE T == {f[o] : o \in R}
    <3>1. f \in Surjection(R, T)
      BY DEF Surjection, f
    <3> HIDE DEF T
    <3>2. IsFiniteSet(T)
      BY <2>2, <3>1, FS_Surjection
    <3> QED  BY <3>2 DEF T
  <2> QED  BY <2>1, <2>3
<1> QED  BY <1>1, <1>2, <1>3, <1>4, FS_CardinalityType

\* The price at a place is one of the prices and is at that place.
LEMMA PriceAtPlace ==
    ASSUME EngineInv, HeapsFinite, NEW s, NEW i \in 1..Cardinality(Prices(s))
    PROVE  /\ PriceAt(s, i) \in Prices(s)
           /\ Cardinality(Better(s, Prices(s), PriceAt(s, i))) = i - 1
<1> DEFINE S == Prices(s)
<1>1. S \in SUBSET Nat /\ IsFiniteSet(S)
  BY RestingFinite
<1>2. \E p \in S : Cardinality(Better(s, S, p)) = i - 1
  <2> HIDE DEF S
  <2>1. i \in 1..Cardinality(S)
    BY DEF S
  <2> QED  BY <1>1, <2>1, PlacesAreTaken
<1> QED  BY <1>2 DEF PriceAt

\* The price at which the engine trades next is the one nothing is better than.
LEMMA BestHasFirstPrice ==
    ASSUME EngineInv, HeapSides, NEW s \in Sides, NEW b \in Orders, IsBest(b, s)
    PROVE  Ticket[b].price \in Prices(s) /\ Better(s, Prices(s), Ticket[b].price) = {}
<1>1. b \in Resting(s)
  BY DEF IsBest, HeapSides, Resting, Alive
<1>2. ASSUME NEW o \in Resting(s) PROVE ~IF s = "Buy" THEN Ticket[o].price > Ticket[b].price
                                                     ELSE Ticket[o].price < Ticket[b].price
  <2>1. o \in live /\ Ticket[o].side = s /\ Ticket[b].side = s /\ o \in Orders
    BY <1>1 DEF Resting, EngineInv, TypeOK
  <2>2. o = b \/ Before(b, o)
    BY <1>2, <2>1 DEF EngineInv, RestingHasSide, IsBest, Resting, Alive
  <2>3. Ticket[o].price \in Nat /\ Ticket[b].price \in Nat
    BY <2>1, TicketFields
  <2> QED  BY <2>1, <2>2, <2>3 DEF Before
<1> QED  BY <1>1, <1>2 DEF Prices, Better

\* The levels of a side exist when something rests there.
LEMMA SideDomain ==
    ASSUME EngineInv, HeapsFinite, NEW s, NEW limit \in Nat
    PROVE  /\ DOMAIN Side(s, limit) \subseteq 1..Cardinality(Prices(s))
           /\ Prices(s) # {} <=> 1 \in DOMAIN Side(s, limit)
           /\ \A i \in DOMAIN Side(s, limit) : Side(s, limit)[i] = Level(s, PriceAt(s, i))
<1> DEFINE n == Cardinality(Prices(s))
<1>1. n \in Nat /\ (n = 0 <=> Prices(s) = {})
  BY RestingFinite, FS_EmptySet
<1>2. Levels(limit) \in Nat \ {0}
  BY DEF Levels
<1>3. /\ DOMAIN Side(s, limit) = 1..SmallerOf(Levels(limit), n)
      /\ \A i \in DOMAIN Side(s, limit) : Side(s, limit)[i] = Level(s, PriceAt(s, i))
  BY DEF Side
<1> HIDE DEF n
<1>4. /\ SmallerOf(Levels(limit), n) \in Nat /\ SmallerOf(Levels(limit), n) <= n
      /\ n # 0 => SmallerOf(Levels(limit), n) > 0
  BY <1>1, <1>2 DEF SmallerOf
<1>5. /\ DOMAIN Side(s, limit) \subseteq 1..n
      /\ n # 0 <=> 1 \in DOMAIN Side(s, limit)
  BY <1>1, <1>3, <1>4
<1> QED  BY <1>1, <1>3, <1>5 DEF n

\* The first level has the price of the order the engine trades with next.
LEMMA FirstLevelIsBest ==
    ASSUME EngineInv, HeapSides, HeapsFinite, NEW s \in Sides
    PROVE  {Side(s, 0)[i].price : i \in DOMAIN Side(s, 0) \cap {1}} = BestPrice(s)
<1>1. CASE Prices(s) = {}
  <2>1. DOMAIN Side(s, 0) \cap {1} = {}
    BY <1>1, SideDomain
  <2>2. \A b \in Orders : ~IsBest(b, s)
    BY <1>1, BestHasFirstPrice
  <2> QED  BY <2>1, <2>2 DEF BestPrice
<1>2. CASE Prices(s) # {}
  <2>1. PICK o \in live : Ticket[o].side = s /\ remaining[o] > 0
    BY <1>2 DEF Prices, Resting
  <2>2. o \in heap[s] /\ Alive(o)
    BY <2>1 DEF EngineInv, RestingHasSide, Alive
  <2>3. PICK b \in Orders : IsBest(b, s)
    BY <2>2, BestExists
  <2> DEFINE S == Prices(s)  f == PriceAt(s, 1)
  <2>4. S \in SUBSET Nat /\ IsFiniteSet(S) /\ Cardinality(S) \in Nat
    BY RestingFinite
  <2>5. 1 \in DOMAIN Side(s, 0) /\ Side(s, 0)[1].price = f
    <3>1. 1 \in DOMAIN Side(s, 0) /\ Side(s, 0)[1] = Level(s, PriceAt(s, 1))
      BY <1>2, SideDomain
    <3>2. Level(s, PriceAt(s, 1)).price = f
      BY DEF Level
    <3> QED  BY <3>1, <3>2
  <2>6. 1 \in 1..Cardinality(S)
    BY <2>5, SideDomain
  <2>7. f \in S /\ Cardinality(Better(s, S, f)) = 1 - 1
    BY <2>6, PriceAtPlace
  <2>8. \A x \in Orders : IsBest(x, s) => Ticket[x].price \in S /\ Better(s, S, Ticket[x].price) = {}
    BY BestHasFirstPrice
  <2> HIDE DEF S, f
  <2>9. f \in S /\ Better(s, S, f) = {}
    BY <2>4, <2>7, FirstPlace
  <2>10. ASSUME NEW x \in Orders, IsBest(x, s) PROVE Ticket[x].price = f
    <3>1. Ticket[x].price \in S /\ Better(s, S, Ticket[x].price) = {}
      BY <2>8, <2>10
    <3>2. PICK p \in S : p = Ticket[x].price
      BY <3>1
    <3>3. Better(s, S, p) = {}
      BY <3>1, <3>2
    <3>4. f = p
      BY <2>4, <2>9, <3>3, FirstPlace
    <3> QED  BY <3>2, <3>4
  <2>11. BestPrice(s) = {f}
    BY <2>3, <2>10 DEF BestPrice
  <2> QED  BY <2>5, <2>11
<1> QED  BY <1>1, <1>2

(***************************************************************************)
(* The stream.  Its invariant is about what it has shown: the levels that  *)
(* it sent last are those of the book for as long as the number of changes *)
(* stays what it was, which a fill that leaves some of its maker is alone  *)
(* in not raising.                                                         *)
(***************************************************************************)

\* The levels shown are those of now, but for a first quantity that has fallen.
LevelShown(old, new, i) ==
    /\ old.price = new.price /\ old.count = new.count
    /\ old.quantity \in Nat /\ new.quantity \in Nat
    /\ \/ old.quantity = new.quantity
       \/ i = 1 /\ old.quantity > new.quantity

SideShown(shown, now) ==
    DOMAIN shown = DOMAIN now /\ \A i \in DOMAIN now : LevelShown(shown[i], now[i], i)

StreamTypes ==
    /\ asked \subseteq [order : Orders, user : Cancellers]
    /\ seq \in Nat /\ stream.last \in Nat /\ stream.last <= seq
    /\ stream = [open |-> stream.open, last |-> stream.last,
                 sent |-> stream.sent, shown |-> stream.shown]

NothingMissed ==
    stream.sent /\ stream.last = seq =>
        \A s \in Sides : SideShown(stream.shown[s], Side(s, Limit))

ServerInv == EngineInv /\ HeapSides /\ BookInv /\ StreamTypes /\ NothingMissed

\* The quantity of a level is the sum of natural numbers.
LEMMA LevelQuantity ==
    ASSUME EngineInv, HeapsFinite, NEW s, NEW p
    PROVE  Level(s, p).quantity \in Nat
<1> DEFINE at == {o \in Resting(s) : Ticket[o].price = p}
<1>1. IsFiniteSet(at) /\ \A o \in at : remaining[o] \in Nat
  <2>1. IsFiniteSet(Resting(s)) /\ at \subseteq Resting(s) /\ Resting(s) \subseteq Orders
    BY RestingFinite DEF EngineInv, TypeOK
  <2> HIDE DEF at
  <2>2. \A o \in Orders : remaining[o] \in Nat
    BY DEF EngineInv, TypeOK
  <2> QED  BY <2>1, <2>2, FS_Subset
<1>2. Level(s, p).quantity = SumFunctionOnSet(remaining, at)
  BY DEF Level
<1> HIDE DEF at
<1>3. SumFunctionOnSet(remaining, at) \in Nat
  BY <1>1, SumOfNaturals
<1> QED  BY <1>2, <1>3

\* What has just been sent is what the book has.
LEMMA JustSent ==
    ASSUME EngineInv, HeapsFinite, NEW s, NEW limit \in Nat
    PROVE  SideShown(Side(s, limit), Side(s, limit))
<1> SUFFICES ASSUME NEW i \in DOMAIN Side(s, limit)
             PROVE  LevelShown(Side(s, limit)[i], Side(s, limit)[i], i)
  BY DEF SideShown
<1>1. Side(s, limit)[i] = Level(s, PriceAt(s, i))
  BY SideDomain
<1>2. Side(s, limit)[i].quantity \in Nat
  BY <1>1, LevelQuantity
<1> QED  BY <1>2 DEF LevelShown

\* A level that has fallen once may fall again.
LEMMA ShownStill ==
    ASSUME NEW shown, NEW old, NEW now, SideShown(shown, old), SideShown(old, now)
    PROVE  SideShown(shown, now)
<1> SUFFICES ASSUME NEW i \in DOMAIN now PROVE LevelShown(shown[i], now[i], i)
  BY DEF SideShown
<1>1. LevelShown(shown[i], old[i], i) /\ LevelShown(old[i], now[i], i)
  BY DEF SideShown
<1> QED  BY <1>1 DEF LevelShown

\* The levels are made from what rests and what is left of it.
LEMMA SideKept ==
    ASSUME live' = live, remaining' = remaining, NEW s, NEW limit
    PROVE  Side(s, limit)' = Side(s, limit)
BY DEF Side, PriceAt, Level, Prices, Resting

\* A fill that leaves some of its maker lowers the first quantity of a side.
LEMMA FillLowersFirst ==
    ASSUME EngineInv, HeapSides, HeapsFinite, NEW b \in Orders, Fill(b), live' = live,
           NEW s \in Sides, NEW limit \in Nat
    PROVE  SideShown(Side(s, limit), Side(s, limit)')
<1>1. /\ b \in live /\ b # taker /\ taker \in Orders /\ taker \notin live
      /\ \A o \in Orders \ {taker, b} : remaining'[o] = remaining[o]
  BY FillEffect
<1>2. PICK q \in Nat \ {0} : /\ q <= remaining[b] /\ remaining'[b] = remaining[b] - q
                            /\ IF remaining[b] = q THEN b \notin live' ELSE b \in live'
  BY FillEffect
<1>3. remaining \in [Orders -> Nat] /\ live \in SUBSET Orders
  BY DEF EngineInv, TypeOK
<1>4. /\ remaining'[b] \in Nat /\ remaining'[b] > 0 /\ remaining'[b] < remaining[b]
      /\ \A o \in live : o # b => remaining'[o] = remaining[o]
  BY <1>1, <1>2, <1>3
<1>5. Resting(s)' = Resting(s)
  <2>1. \A o \in live : remaining'[o] > 0 <=> remaining[o] > 0
    BY <1>1, <1>3, <1>4
  <2> QED  BY <2>1 DEF Resting
<1>6. Prices(s)' = Prices(s) /\ \A i : PriceAt(s, i)' = PriceAt(s, i)
  BY <1>5 DEF Prices, PriceAt
<1>7. /\ DOMAIN Side(s, limit)' = DOMAIN Side(s, limit)
      /\ \A i \in DOMAIN Side(s, limit) : Side(s, limit)'[i] = Level(s, PriceAt(s, i))'
  BY <1>6 DEF Side
<1> SUFFICES ASSUME NEW i \in DOMAIN Side(s, limit)
             PROVE  LevelShown(Side(s, limit)[i], Side(s, limit)'[i], i)
  BY <1>7 DEF SideShown
<1>8. /\ i \in 1..Cardinality(Prices(s)) /\ Side(s, limit)[i] = Level(s, PriceAt(s, i))
      /\ Cardinality(Prices(s)) \in Nat
  BY SideDomain, RestingFinite
<1>9. PICK p : p = PriceAt(s, i)
  OBVIOUS
<1>10. Side(s, limit)[i] = Level(s, p) /\ Side(s, limit)'[i] = Level(s, p)'
  BY <1>6, <1>7, <1>8, <1>9
<1> DEFINE at == {o \in Resting(s) : Ticket[o].price = p}
<1>11. IsFiniteSet(at) /\ at \subseteq live
  <2>1. IsFiniteSet(Resting(s)) /\ at \subseteq Resting(s) /\ Resting(s) \subseteq live
    BY RestingFinite
  <2> QED  BY <2>1, FS_Subset
<1>12. /\ Level(s, p) = [price |-> p, quantity |-> SumFunctionOnSet(remaining, at),
                         count |-> Cardinality(at)]
       /\ Level(s, p)' = [price |-> p, quantity |-> SumFunctionOnSet(remaining', at),
                          count |-> Cardinality(at)]
  BY <1>5 DEF Level
<1>13. b \in at => i = 1
  <2> SUFFICES ASSUME b \in at PROVE i = 1
    OBVIOUS
  <2>1. Ticket[b].price = p /\ Ticket[b].side = s
    BY DEF Resting
  <2>2. Meets(b)
    BY DEF Fill
  <2>3. IsBest(b, s)
    BY <2>1, <2>2 DEF Meets, HeapSides, IsBest, Opposite, Sides
  <2>4. Better(s, Prices(s), p) = {}
    BY <2>1, <2>3, BestHasFirstPrice
  <2>5. Cardinality(Better(s, Prices(s), p)) = i - 1
    BY <1>8, <1>9, PriceAtPlace
  <2>6. i - 1 = 0
    BY <2>4, <2>5, FS_EmptySet
  <2> QED  BY <1>8, <2>6
<1> HIDE DEF at
<1>14. \A o \in at : /\ remaining[o] \in Nat /\ remaining'[o] \in Nat
                     /\ o # b => remaining'[o] = remaining[o]
  BY <1>3, <1>4, <1>11
<1>15. /\ SumFunctionOnSet(remaining, at) \in Nat /\ SumFunctionOnSet(remaining', at) \in Nat
  BY <1>11, <1>14, SumOfNaturals
<1>16. CASE b \notin at
  <2>1. \A o \in at : remaining[o] = remaining'[o] /\ remaining[o] \in Int
    BY <1>14, <1>16
  <2>2. SumFunctionOnSet(remaining, at) = SumFunctionOnSet(remaining', at)
    BY <1>11, <2>1, SumSame
  <2> QED  BY <1>10, <1>12, <1>15, <2>2 DEF LevelShown
<1>17. CASE b \in at
  <2>1. \A o \in at : remaining[o] \in Int /\ remaining'[o] \in Int
    BY <1>14
  <2>2. SumFunctionOnSet(remaining', at)
           = SumFunctionOnSet(remaining, at) - remaining[b] + remaining'[b]
    BY <1>11, <1>14, <1>17, <2>1, SumUpdate
  <2>3. SumFunctionOnSet(remaining, at) > SumFunctionOnSet(remaining', at)
    BY <1>4, <1>14, <1>15, <1>17, <2>2
  <2> QED  BY <1>10, <1>12, <1>13, <1>15, <1>17, <2>3 DEF LevelShown
<1> QED  BY <1>16, <1>17

\* Only a fill changes what is left of an order.
LEMMA OnlyFillTakes ==
    ASSUME [Next]_vars
    PROVE  remaining' = remaining \/ \E b \in Orders : Fill(b)
<1> USE DEF clientVars, loopVars, orderVars, bookVars, outVars
<1>1. CASE Quiet \/ ProcessCancel \/ RestRemainder \/ FinishUnrested \/ TriggerStops
  BY <1>1 DEF Quiet, ProcessCancel, RestRemainder, FinishUnrested, Return, TriggerStops
<1>2. CASE \E o \in Orders : \/ RejectEmpty(o) \/ ProcessPostOnly(o) \/ ParkStop(o)
                             \/ RejectFok(o) \/ StartMatch(o) \/ FireStop(o)
  BY <1>2 DEF RejectEmpty, ProcessPostOnly, ParkStop, RejectFok, StartMatch, FireStop,
              EnterMatch, Settle
<1>3. CASE \E b \in Orders : PreventSelfTrade(b)
  BY <1>3 DEF PreventSelfTrade
<1> QED  BY <1>1, <1>2, <1>3, StepIs

\* A step of the engine that does not count a change keeps what rests.
LEMMA UncountedKeeps ==
    ASSUME EngineInv, EngineInv', HeapsFinite, HeapsFinite', StreamTypes, Counted
    PROVE  /\ seq' \in Nat /\ seq <= seq'
           /\ seq' = seq => live' = live
<1> DEFINE added == live' \ live  gone == live \ live'  parked == stops' \ stops
<1>1. live \subseteq sent /\ live' \subseteq sent' /\ stops' \subseteq sent'
  BY DEF EngineInv, QueuesFresh, Placed
<1>2. IsFiniteSet(added) /\ IsFiniteSet(gone) /\ IsFiniteSet(parked)
  <2>1. IsFiniteSet(sent) /\ IsFiniteSet(sent')
    BY DEF HeapsFinite
  <2>2. added \subseteq sent' /\ gone \subseteq sent /\ parked \subseteq sent'
    BY <1>1
  <2> HIDE DEF added, gone, parked
  <2> QED  BY <2>1, <2>2, FS_Subset
<1>3. seq \in Nat /\ seq' = seq + Cardinality(added) + Cardinality(gone) + Cardinality(parked)
  BY DEF Counted, StreamTypes
<1>4. added = {} /\ gone = {} => live' = live
  OBVIOUS
<1> HIDE DEF added, gone, parked
<1>5. /\ Cardinality(added) \in Nat /\ Cardinality(gone) \in Nat /\ Cardinality(parked) \in Nat
      /\ Cardinality(added) = 0 => added = {}
      /\ Cardinality(gone) = 0 => gone = {}
  BY <1>2, FS_EmptySet, FS_CardinalityType
<1> QED  BY <1>3, <1>4, <1>5

\* The calls of the service are steps of the engine and of its clients.
LEMMA ServerStep ==
    ASSUME ServerInv, [ServerNext]_serverVars PROVE [Next]_vars
<1>1. CASE EngineRuns
  BY <1>1 DEF EngineRuns, Next
<1>2. CASE PlaceOrder \/ GetTicker \/ Shutdown
  BY <1>2 DEF PlaceOrder, GetTicker, Shutdown, Next, ClientStep
<1>3. CASE \E op \in asked : CancelOrder(op)
  <2>1. PICK op \in asked : CancelOrder(op)
    BY <1>3
  <2>2. op.order \in Orders /\ op.user \in Cancellers
    BY DEF ServerInv, StreamTypes
  <2> QED  BY <2>1, <2>2 DEF CancelOrder, Next, ClientStep
<1>4. CASE \/ \E o \in Orders, u \in Cancellers : LookUp(o, u)
           \/ OpenStream \/ StreamOrderbook \/ UNCHANGED serverVars
  BY <1>4 DEF LookUp, OpenStream, StreamOrderbook, serverVars
<1> QED  BY <1>1, <1>2, <1>3, <1>4 DEF ServerNext

\* The calls of clients, and the stream, change nothing that rests.
LEMMA CallsKeep ==
    ASSUME ServerNext \/ UNCHANGED serverVars, ~EngineRuns
    PROVE  live' = live /\ remaining' = remaining /\ seq' = seq
<1> USE DEF clientVars, loopVars, orderVars, bookVars, outVars, vars
<1>1. CASE PlaceOrder \/ GetTicker \/ Shutdown
  BY <1>1 DEF PlaceOrder, Submit, GetTicker, ReadBest, Shutdown, Stop
<1>2. CASE \E op \in asked : CancelOrder(op)
  BY <1>2 DEF CancelOrder, RequestCancel
<1>3. CASE \/ \E o \in Orders, u \in Cancellers : LookUp(o, u)
           \/ OpenStream \/ StreamOrderbook \/ UNCHANGED serverVars
  BY <1>3 DEF LookUp, OpenStream, StreamOrderbook, serverVars
<1> QED  BY <1>1, <1>2, <1>3 DEF ServerNext

\* Every step keeps the types of the stream.
LEMMA StreamTypesStep ==
    ASSUME ServerInv, EngineInv', HeapsFinite', [ServerNext]_serverVars PROVE StreamTypes'
<1> USE DEF ServerInv, BookInv
<1>1. CASE EngineRuns
  <2>1. seq' \in Nat /\ seq <= seq'
    BY <1>1, UncountedKeeps DEF EngineRuns
  <2>2. asked' = asked /\ stream' = stream
    BY <1>1 DEF EngineRuns
  <2> QED  BY <2>1, <2>2 DEF StreamTypes
<1>2. CASE ~EngineRuns
  <2>1. seq' = seq
    BY <1>2, CallsKeep
  <2>2. CASE OpenStream \/ StreamOrderbook
    <3>1. asked' = asked
      BY <2>2 DEF OpenStream, StreamOrderbook
    <3>2. \E x, y, z : stream' = [open |-> x, last |-> seq, sent |-> y, shown |-> z]
      <4>1. CASE OpenStream
        BY <4>1 DEF OpenStream
      <4>2. CASE StreamOrderbook
        BY <4>2 DEF StreamOrderbook, StreamTypes
      <4> QED  BY <2>2, <4>1, <4>2
    <3>3. stream'.last = seq
      BY <3>2
    <3>4. stream' = [open |-> stream'.open, last |-> stream'.last,
                     sent |-> stream'.sent, shown |-> stream'.shown]
      BY <3>2
    <3> QED  BY <2>1, <3>1, <3>3, <3>4 DEF StreamTypes
  <2>3. CASE \E o \in Orders, u \in Cancellers : LookUp(o, u)
    <3>1. PICK o \in Orders, u \in Cancellers : LookUp(o, u)
      BY <2>3
    <3>2. [order |-> o, user |-> u] \in [order : Orders, user : Cancellers]
      OBVIOUS
    <3>3. asked' = asked \cup {[order |-> o, user |-> u]} /\ stream' = stream
      BY <3>1 DEF LookUp
    <3>4. asked' \subseteq [order : Orders, user : Cancellers]
      BY <3>2, <3>3 DEF StreamTypes
    <3> QED  BY <2>1, <3>3, <3>4 DEF StreamTypes
  <2>4. CASE \E op \in asked : CancelOrder(op)
    BY <2>1, <2>4 DEF CancelOrder, StreamTypes
  <2>5. CASE PlaceOrder \/ GetTicker \/ Shutdown \/ UNCHANGED serverVars
    BY <2>1, <2>5 DEF PlaceOrder, GetTicker, Shutdown, serverVars, StreamTypes
  <2> QED  BY <1>2, <2>2, <2>3, <2>4, <2>5 DEF ServerNext
<1> QED  BY <1>1, <1>2

\* Every step keeps what the stream has shown right until there is news.
LEMMA NothingMissedStep ==
    ASSUME ServerInv, EngineInv', HeapsFinite', [ServerNext]_serverVars PROVE NothingMissed'
<1> USE DEF ServerInv, BookInv
<1> SUFFICES ASSUME stream'.sent, stream'.last = seq', NEW s \in Sides
             PROVE  SideShown(stream'.shown[s], Side(s, Limit)')
  BY DEF NothingMissed
<1>l. Limit \in Nat
  BY ServerAssumption
<1>1. CASE EngineRuns
  <2>1. stream' = stream
    BY <1>1 DEF EngineRuns
  <2>2. seq' = seq /\ live' = live
    <3>1. seq' \in Nat /\ seq <= seq' /\ (seq' = seq => live' = live)
      BY <1>1, UncountedKeeps DEF EngineRuns
    <3>2. seq' <= seq /\ seq \in Nat
      BY <2>1 DEF StreamTypes
    <3> QED  BY <3>1, <3>2
  <2>3. SideShown(stream.shown[s], Side(s, Limit))
    BY <2>1, <2>2 DEF NothingMissed
  <2>4. CASE remaining' = remaining
    BY <2>1, <2>2, <2>3, <2>4, SideKept
  <2>5. CASE \E b \in Orders : Fill(b)
    <3>1. SideShown(Side(s, Limit), Side(s, Limit)')
      BY <1>l, <2>2, <2>5, FillLowersFirst
    <3> QED  BY <2>1, <2>3, <3>1, ShownStill
  <2> QED  BY <2>4, <2>5, ServerStep, OnlyFillTakes
<1>2. CASE ~EngineRuns
  <2>1. /\ seq' = seq /\ Side(s, Limit)' = Side(s, Limit)
    BY <1>2, CallsKeep, SideKept
  <2>2. CASE stream' = stream
    BY <2>1, <2>2 DEF NothingMissed
  <2>3. CASE StreamOrderbook
    <3>1. stream'.shown = Depth(Limit)
      BY <2>3 DEF StreamOrderbook, StreamTypes
    <3>2. stream'.shown[s] = Side(s, Limit)
      BY <3>1 DEF Depth
    <3> QED  BY <1>l, <2>1, <3>2, JustSent
  <2>4. CASE OpenStream
    BY <2>4 DEF OpenStream
  <2>5. CASE \/ PlaceOrder \/ GetTicker \/ Shutdown \/ UNCHANGED serverVars
             \/ \E o \in Orders, u \in Cancellers : LookUp(o, u)
             \/ \E op \in asked : CancelOrder(op)
    BY <2>2, <2>5 DEF PlaceOrder, GetTicker, Shutdown, LookUp, CancelOrder, serverVars
  <2> QED  BY <1>2, <2>3, <2>4, <2>5 DEF ServerNext
<1> QED  BY <1>1, <1>2

\* What clients are shown is the book: a first level with the price at which
\* the engine trades next, and a stream that, sent all there was to send, is
\* wrong in nothing but the first quantity of a side.
THEOREM BookIsShown == ServerSpec => []StreamShowsBook
<1>1. ServerInit => ServerInv
  <2> SUFFICES ASSUME ServerInit PROVE ServerInv
    OBVIOUS
  <2>1. Init
    BY DEF ServerInit
  <2>2. EngineInv /\ BookInv /\ HeapSides
    BY <2>1, InitInv, InitBook DEF Init, HeapSides
  <2>3. StreamTypes /\ NothingMissed
    BY DEF ServerInit, StreamTypes, NothingMissed
  <2> QED  BY <2>2, <2>3 DEF ServerInv
<1>2. ServerInv /\ [ServerNext]_serverVars => ServerInv'
  <2> SUFFICES ASSUME ServerInv, [ServerNext]_serverVars PROVE ServerInv'
    OBVIOUS
  <2>1. EngineInv' /\ HeapSides' /\ BookInv'
    BY ServerStep, EngineInvStep, HeapSidesStep, BookInvStep DEF ServerInv
  <2>2. StreamTypes' /\ NothingMissed'
    BY <2>1, StreamTypesStep, NothingMissedStep DEF BookInv
  <2> QED  BY <2>1, <2>2 DEF ServerInv
<1>3. ServerInv => StreamShowsBook
  <2> SUFFICES ASSUME ServerInv PROVE StreamShowsBook
    OBVIOUS
  <2>1. \A s \in Sides :
           {Side(s, 0)[i].price : i \in DOMAIN Side(s, 0) \cap {1}} = BestPrice(s)
    BY FirstLevelIsBest DEF ServerInv, BookInv
  <2>2. ASSUME stream.sent, stream.last = seq, NEW s \in Sides
        PROVE  SideShown(stream.shown[s], Side(s, Limit))
    BY <2>2 DEF ServerInv, NothingMissed
  <2> QED  BY <2>1, <2>2 DEF StreamShowsBook, SideShown, LevelShown
<1> QED  BY <1>1, <1>2, <1>3, PTL DEF ServerSpec

================================================================================
