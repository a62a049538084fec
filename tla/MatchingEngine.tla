---------------------------- MODULE MatchingEngine ----------------------------
(***************************************************************************)
(* One trading pair's matching engine: internal/matching/engine.go and the *)
(* order book it owns, internal/matching/orderbook.go.                     *)
(*                                                                         *)
(* Clients (HTTP and gRPC goroutines) submit orders and cancel requests;   *)
(* one engine goroutine takes cancels first, drains the inbound ring,      *)
(* processes the batch order by order under the book lock and then fires   *)
(* the parked stop orders.  A match is cut into the iterations of its      *)
(* loop: pc "match" is the top of the loop and "finish" its exit.  The     *)
(* book lock is held while pc is "match", "finish" or "stops".             *)
(*                                                                         *)
(* The inbound ring is a FIFO queue here; RingBuffer says when the real    *)
(* one is.  A price or quantity is a natural number, 0 standing for a nil  *)
(* one.  Log lines, statistics counters, update times and the book's       *)
(* change counter are left out.                                            *)
(***************************************************************************)
EXTENDS Naturals, Sequences, FiniteSets, Functions

LOCAL INSTANCE FiniteSetsExt

CONSTANTS
    Orders,      \* the identities of the orders clients may create
    Ticket,      \* what each of them asks for (type Order, order.go)
    NoOrder,     \* no order in progress
    EngineStp,   \* the engine-wide self-trade mode
    RingCap,     \* orders the inbound ring holds
    Cancellers,  \* users who ask for cancels; the empty one skips the owner check
    MaxOrders,   \* bound: orders submitted in a behaviour
    MaxCancels   \* bound: cancel requests in a behaviour

Sides == {"Buy", "Sell"}

OrderTypes == {"Limit", "Market", "StopLoss", "StopLimit", "Iceberg",
               "FillOrKill", "ImmediateOrCancel", "PostOnly"}

TimesInForce == {"GTC", "IOC", "FOK", "GTD"}

StpModes == {"Disabled", "CancelTaker", "CancelMaker", "CancelBoth"}

Statuses == {"New", "PartiallyFilled", "Filled", "Cancelled", "Rejected"}

Users == STRING

Tickets == [user : Users, side : Sides, type : OrderTypes, price : Nat,
            stopPrice : Nat, qty : Nat, iceberg : Nat, tif : TimesInForce,
            stp : StpModes, createdAt : Nat]

\* The types that compare their own price carry one (without it the match loop
\* would dereference nil), and no two orders share a creation stamp.
ASSUME TicketAssumption ==
    /\ Ticket \in [Orders -> Tickets]
    /\ \A o \in Orders :
          Ticket[o].type \in {"Limit", "StopLimit", "FillOrKill"} => Ticket[o].price > 0
    /\ \A a, b \in Orders : Ticket[a].createdAt = Ticket[b].createdAt => a = b

ASSUME EngineAssumption ==
    /\ NoOrder \notin Orders
    /\ EngineStp \in StpModes /\ Cancellers \subseteq Users
    /\ RingCap \in Nat /\ MaxOrders \in Nat /\ MaxCancels \in Nat

VARIABLES
    inbound,    \* orders enqueued and not drained yet
    sent,       \* orders ever enqueued
    cancels,    \* the cancel channel
    stopped,    \* e.done is closed
    pc,         \* where the engine goroutine is
    batch,      \* drained orders not processed yet; its head is in progress
    fired,      \* triggered stop orders not executed yet
    taker,      \* the order in progress
    slice,      \* what is left of the visible slice of an iceberg in progress
    kind,       \* order.Type: a stop order that fires changes it
    status, filled, remaining,
    live,       \* ob.orders, the lookup map of resting orders
    heap,       \* the bid and ask heaps, stale entries included
    stops,      \* ob.stops, the parked stop orders
    lastPrice,  \* the price of the last trade, 0 before the first
    fills,      \* every fill emitted, oldest first
    journal,    \* the records appended to the write-ahead log
    acked,      \* orders whose cancel was answered with success
    answered,   \* orders whose done channel is closed
    halted      \* history: orders whose match loop self-trade prevention broke

clientVars == <<inbound, sent, cancels, stopped>>
loopVars   == <<pc, batch, fired, taker, slice>>
orderVars  == <<kind, status, filled, remaining>>
bookVars   == <<live, heap, stops, lastPrice>>
outVars    == <<fills, journal, acked, answered, halted>>
vars == <<clientVars, loopVars, orderVars, bookVars, outVars>>

OrderRecord(o)  == [op |-> "order", order |-> o]
CancelRecord(o) == [op |-> "cancel", order |-> o]
Records == {OrderRecord(o) : o \in Orders} \cup {CancelRecord(o) : o \in Orders}

CancelOps == [order : Orders, user : Users]

Fills == [taker : Orders, maker : Orders, price : Nat, qty : Nat,
          takerFilled : BOOLEAN, makerFilled : BOOLEAN]

LockFree == pc \notin {"match", "finish", "stops"}

-------------------------------------------------------------------------------
(* The book: priority, staleness, best price.                               *)

Opposite(s) == IF s = "Buy" THEN "Sell" ELSE "Buy"

\* OrderHeap.Less on two entries of one side: price, then creation time.
Before(a, b) ==
    \/ IF Ticket[a].side = "Buy" THEN Ticket[a].price > Ticket[b].price
                                 ELSE Ticket[a].price < Ticket[b].price
    \/ Ticket[a].price = Ticket[b].price /\ Ticket[a].createdAt < Ticket[b].createdAt

\* What the purge loop keeps: in the lookup map, with something left.
AliveByQuantity(o) == remaining[o] > 0

Alive(o) == o \in live /\ remaining[o] > 0

PurgedTooFar(s) == {o \in heap[s] : \E b \in heap[s] : Alive(b) /\ Before(b, o)}

\* The entries of a heap after its stale tops are popped.
Purged(s) == {o \in heap[s] : \E b \in heap[s] : Alive(b) /\ (b = o \/ Before(b, o))}

BestByPriceOnly(b, s) ==
    /\ b \in heap[s]
    /\ Alive(b)
    /\ \A o \in heap[s] : Alive(o) => Ticket[o].price = Ticket[b].price \/ Before(b, o)

\* b is what bestBidLocked or bestAskLocked returns.
IsBest(b, s) ==
    /\ b \in heap[s]
    /\ Alive(b)
    /\ \A o \in heap[s] : Alive(o) /\ o # b => Before(b, o)

AcceptableIfBetter(t, b) ==
    \/ kind[t] = "Market"
    \/ Ticket[t].price = 0
    \/ IF Ticket[t].side = "Buy" THEN Ticket[b].price < Ticket[t].price
                                 ELSE Ticket[b].price > Ticket[t].price

\* The price check of the match loops.  A market order, and an immediate order
\* without a price, take any price.
Acceptable(t, b) ==
    \/ kind[t] = "Market"
    \/ Ticket[t].price = 0
    \/ IF Ticket[t].side = "Buy" THEN Ticket[b].price <= Ticket[t].price
                                 ELSE Ticket[b].price >= Ticket[t].price

SelfTrade(t, b) ==
    /\ Ticket[t].stp # "Disabled" \/ EngineStp # "Disabled"
    /\ Ticket[t].user = Ticket[b].user
    /\ Ticket[t].user # ""

StpMode(t) == IF Ticket[t].stp # "Disabled" THEN Ticket[t].stp ELSE EngineStp

\* matchFOKLocked adds up the raw heap slice, without asking the lookup map.
FokAvailable(t) ==
    LET counted == {o \in heap[Opposite(Ticket[t].side)] :
                       Acceptable(t, o) /\ ~SelfTrade(t, o)}
    IN  MapThenSumSet(LAMBDA o : remaining[o], counted)

Triggered(o) ==
    /\ lastPrice > 0
    /\ IF Ticket[o].side = "Buy" THEN lastPrice >= Ticket[o].stopPrice
                                 ELSE lastPrice <= Ticket[o].stopPrice

MakersQuantity(a, b) == b

SmallerOf(a, b) == IF a <= b THEN a ELSE b

\* What the loop in progress still wants: an iceberg matches one slice at a time.
Want == IF kind[taker] = "Iceberg" THEN slice ELSE remaining[taker]

\* What a fill of q against b leaves on the two orders.
FilledAfter(b, q) == [filled EXCEPT ![taker] = @ + q, ![b] = @ + q]

RemainingOfMakerOnly(b, q) == [remaining EXCEPT ![b] = @ - q]

RemainingAfter(b, q) == [remaining EXCEPT ![taker] = @ - q, ![b] = @ - q]

UsedUpIfTakerIs(b, q) == Want = q

UsedUp(b, q) == remaining[b] = q

\* Adds o to the lookup map and to the heap of its side.
AddToBook(o) ==
    /\ live' = live \cup {o}
    /\ heap' = [heap EXCEPT ![Ticket[o].side] = @ \cup {o}]

-------------------------------------------------------------------------------
(* Clients.                                                                 *)

Submit(o) ==
    /\ o \notin sent
    /\ Cardinality(sent) < MaxOrders
    /\ Len(inbound) < RingCap
    /\ inbound' = Append(inbound, o)
    /\ sent' = sent \cup {o}
    /\ UNCHANGED <<cancels, stopped, loopVars, orderVars, bookVars, outVars>>

CancelRequests ==
    Len(cancels) + Cardinality({i \in DOMAIN journal : journal[i].op = "cancel"})

\* Cancel, for one order or for each of a user's (CancelAll).
RequestCancel(o, u) ==
    /\ o \in sent
    /\ CancelRequests < MaxCancels
    /\ cancels' = Append(cancels, [order |-> o, user |-> u])
    /\ UNCHANGED <<inbound, sent, stopped, loopVars, orderVars, bookVars, outVars>>

\* Tickers asks for the best bid and ask, which purges the heaps under the lock.
ReadBest(s) ==
    /\ LockFree
    /\ heap' = [heap EXCEPT ![s] = Purged(s)]
    /\ UNCHANGED <<clientVars, loopVars, orderVars, live, stops, lastPrice, outVars>>

Stop ==
    /\ ~stopped
    /\ stopped' = TRUE
    /\ UNCHANGED <<inbound, sent, cancels, loopVars, orderVars, bookVars, outVars>>

-------------------------------------------------------------------------------
(* The engine goroutine: its loop, and the cancels.                         *)

Exit ==
    /\ pc = "idle" /\ stopped
    /\ pc' = "exited"
    /\ UNCHANGED <<clientVars, batch, fired, taker, slice, orderVars, bookVars, outVars>>

\* The select took its default branch: nothing was ready.
Poll ==
    /\ pc = "idle" /\ ~stopped /\ cancels = <<>>
    /\ pc' = "drain"
    /\ UNCHANGED <<clientVars, batch, fired, taker, slice, orderVars, bookVars, outVars>>

Drain ==
    /\ pc = "drain"
    /\ batch' = inbound
    /\ inbound' = <<>>
    /\ pc' = IF inbound = <<>> THEN "idle" ELSE "batch"
    /\ UNCHANGED <<sent, cancels, stopped, fired, taker, slice, orderVars, bookVars, outVars>>

\* processCancel: the lookup entry goes, the heap entry stays behind.
ProcessCancel ==
    /\ pc = "idle" /\ cancels # <<>>
    /\ cancels' = Tail(cancels)
    /\ LET op == Head(cancels)
           o  == op.order
           ok == o \in live /\ op.user \in {"", Ticket[o].user}
       IN  /\ journal' = Append(journal, CancelRecord(o))
           /\ live' = IF ok THEN live \ {o} ELSE live
           /\ status' = IF ok THEN [status EXCEPT ![o] = "Cancelled"] ELSE status
           /\ acked' = IF ok THEN acked \cup {o} ELSE acked
    /\ UNCHANGED <<inbound, sent, stopped, loopVars, kind, filled, remaining,
                   heap, stops, lastPrice, fills, answered, halted>>

-------------------------------------------------------------------------------
(* processOrder, up to the match loop.                                      *)

Journal(o) == journal' = Append(journal, OrderRecord(o))

Processing(o) == pc = "batch" /\ batch # <<>> /\ o = Head(batch)

\* The early return of a non-positive quantity, which leaves done open.
RejectEmpty(o) ==
    /\ Processing(o)
    /\ Ticket[o].qty = 0
    /\ Journal(o)
    /\ status' = [status EXCEPT ![o] = "Rejected"]
    /\ batch' = Tail(batch)
    /\ UNCHANGED <<clientVars, pc, fired, taker, slice, kind, filled, remaining,
                   bookVars, fills, acked, answered, halted>>

\* processOrder ends without a match: the order gets a status and its caller an answer.
Settle(o, s) ==
    /\ status' = [status EXCEPT ![o] = s]
    /\ answered' = answered \cup {o}
    /\ batch' = Tail(batch)
    /\ UNCHANGED <<clientVars, pc, fired, taker, slice, kind, filled, remaining,
                   lastPrice, fills, acked, halted>>

WouldCross(o) ==
    \E b \in Orders : IsBest(b, Opposite(Ticket[o].side)) /\ Acceptable(o, b)

ProcessPostOnly(o) ==
    /\ Processing(o) /\ Ticket[o].qty > 0 /\ kind[o] = "PostOnly"
    /\ Journal(o)
    /\ \/ /\ Ticket[o].price = 0
          /\ Settle(o, "Rejected")
          /\ UNCHANGED <<live, heap>>
       \/ /\ Ticket[o].price > 0 /\ WouldCross(o)
          /\ heap' = [heap EXCEPT ![Opposite(Ticket[o].side)] =
                                     Purged(Opposite(Ticket[o].side))]
          /\ Settle(o, "Rejected")
          /\ UNCHANGED live
       \/ /\ Ticket[o].price > 0 /\ ~WouldCross(o)
          /\ live' = live \cup {o}
          /\ heap' = [s \in Sides |-> IF s = Ticket[o].side THEN heap[s] \cup {o}
                                                            ELSE Purged(s)]
          /\ Settle(o, "New")
    /\ UNCHANGED stops

\* matchStopLocked when the last price does not trigger the order.
ParkStop(o) ==
    /\ Processing(o) /\ Ticket[o].qty > 0 /\ kind[o] \in {"StopLoss", "StopLimit"}
    /\ Journal(o)
    /\ \/ /\ Ticket[o].stopPrice = 0
          /\ Settle(o, "Rejected")
          /\ UNCHANGED stops
       \/ /\ Ticket[o].stopPrice > 0 /\ ~Triggered(o)
          /\ stops' = stops \cup {o}
          /\ Settle(o, "New")
    /\ UNCHANGED <<live, heap>>

RejectFok(o) ==
    /\ Processing(o) /\ Ticket[o].qty > 0 /\ kind[o] = "FillOrKill"
    /\ FokAvailable(o) < Ticket[o].qty
    /\ Journal(o)
    /\ Settle(o, "Rejected")
    /\ UNCHANGED <<live, heap, stops>>

AlwaysMarket(o) == IF kind[o] \in {"StopLoss", "StopLimit"} THEN "Market" ELSE kind[o]

\* A stop order that fires becomes a market or a limit order.
KindWhenMatched(o) ==
    CASE kind[o] = "StopLoss"  -> "Market"
      [] kind[o] = "StopLimit" -> "Limit"
      [] OTHER                 -> kind[o]

\* An iceberg starts at the exit of a loop that had nothing to match.
EnterMatch(o) ==
    /\ kind' = [kind EXCEPT ![o] = KindWhenMatched(o)]
    /\ taker' = o
    /\ pc' = IF kind[o] = "Iceberg" THEN "finish" ELSE "match"
    /\ UNCHANGED <<clientVars, batch, fired, slice, status, filled, remaining,
                   bookVars, fills, acked, answered, halted>>

StartMatch(o) ==
    /\ Processing(o) /\ Ticket[o].qty > 0
    /\ kind[o] # "PostOnly"
    /\ kind[o] \in {"StopLoss", "StopLimit"} => Ticket[o].stopPrice > 0 /\ Triggered(o)
    /\ kind[o] = "FillOrKill" => FokAvailable(o) >= Ticket[o].qty
    /\ Journal(o)
    /\ EnterMatch(o)

-------------------------------------------------------------------------------
(* The match loop.                                                          *)

PurgeOpposite ==
    LET s == Opposite(Ticket[taker].side) IN heap' = [heap EXCEPT ![s] = Purged(s)]

\* The loop met b: the best order of the other side, at a price it accepts.
Meets(b) ==
    /\ pc = "match"
    /\ Want > 0
    /\ IsBest(b, Opposite(Ticket[taker].side))
    /\ Acceptable(taker, b)

\* fillLocked.  A maker that is used up is marked filled and then, by
\* removeLocked, cancelled.  An iceberg's own status waits for its last slice.
Fill(b) ==
    /\ Meets(b) /\ ~SelfTrade(taker, b)
    /\ LET q         == SmallerOf(Want, remaining[b])
           usedUp    == UsedUp(b, q)
           satisfied == Want = q
       IN  /\ filled' = FilledAfter(b, q)
           /\ remaining' = RemainingAfter(b, q)
           /\ slice' = IF kind[taker] = "Iceberg" THEN slice - q ELSE slice
           /\ status' = [status EXCEPT
                 ![taker] = IF kind[taker] = "Iceberg" THEN @
                            ELSE IF satisfied THEN "Filled" ELSE "PartiallyFilled",
                 ![b] = IF usedUp THEN "Cancelled" ELSE "PartiallyFilled"]
           /\ live' = IF usedUp THEN live \ {b} ELSE live
           /\ fills' = Append(fills, [taker |-> taker, maker |-> b, qty |-> q,
                                      price |-> Ticket[b].price,
                                      takerFilled |-> satisfied, makerFilled |-> usedUp])
    /\ PurgeOpposite
    /\ lastPrice' = Ticket[b].price
    /\ UNCHANGED <<clientVars, pc, batch, fired, taker, kind, stops,
                   journal, acked, answered, halted>>

\* applySTP: the maker goes, the taker goes, or both; without the taker the
\* loop breaks.  The child order of an iceberg is cancelled in its parent's place.
PreventSelfTrade(b) ==
    /\ Meets(b) /\ SelfTrade(taker, b)
    /\ LET removes == StpMode(taker) \in {"CancelMaker", "CancelBoth"}
           breaks  == StpMode(taker) \in {"CancelTaker", "CancelBoth"}
       IN  /\ live' = IF removes THEN live \ {b} ELSE live
           /\ status' = [status EXCEPT
                 ![b] = IF removes THEN "Cancelled" ELSE @,
                 ![taker] = IF breaks /\ kind[taker] # "Iceberg" THEN "Cancelled" ELSE @]
           /\ pc' = IF breaks THEN "finish" ELSE "match"
           /\ slice' = IF breaks THEN 0 ELSE slice
           /\ halted' = IF breaks THEN halted \cup {taker} ELSE halted
    /\ PurgeOpposite
    /\ UNCHANGED <<clientVars, batch, fired, taker, kind, filled, remaining,
                   stops, lastPrice, fills, journal, acked, answered>>

\* Nothing wanted any more, no opposite order, or not at this price.
LeaveLoop ==
    /\ pc = "match"
    /\ ~\E b \in Orders : Meets(b)
    /\ IF Want > 0 THEN PurgeOpposite ELSE UNCHANGED heap
    /\ pc' = "finish"
    /\ slice' = 0
    /\ UNCHANGED <<clientVars, batch, fired, taker, orderVars, live, stops, lastPrice, outVars>>

-------------------------------------------------------------------------------
(* The end of a match.                                                      *)

ReturnUnanswered ==
    /\ taker' = NoOrder
    /\ IF fired = {}
       THEN batch' = Tail(batch) /\ pc' = "batch" /\ UNCHANGED fired
       ELSE fired' = fired \ {taker} /\ pc' = "stops" /\ UNCHANGED batch
    /\ UNCHANGED <<clientVars, slice, kind, filled, remaining, stops, lastPrice,
                   fills, journal, acked, answered, halted>>

\* Back to the batch (processOrder closes done) or to the triggered stops.
Return ==
    /\ taker' = NoOrder
    /\ IF fired = {}
       THEN /\ batch' = Tail(batch) /\ pc' = "batch"
            /\ answered' = answered \cup {taker}
            /\ UNCHANGED fired
       ELSE /\ fired' = fired \ {taker} /\ pc' = "stops"
            /\ UNCHANGED <<batch, answered>>
    /\ UNCHANGED <<clientVars, slice, kind, filled, remaining, stops, lastPrice,
                   fills, journal, acked, halted>>

RestsIfUnfilled(t) ==
    kind[t] \in {"Limit", "FillOrKill"} /\ filled[t] = 0 /\ Ticket[t].tif = "GTC"

Rests(t) ==
    kind[t] \in {"Limit", "FillOrKill"} /\ remaining[t] > 0 /\ Ticket[t].tif = "GTC"

\* The tail of matchLimitLocked, and of matchFOKLocked after it.
RestRemainder ==
    /\ pc = "finish" /\ Rests(taker)
    /\ AddToBook(taker)
    /\ status' = [status EXCEPT ![taker] =
          IF kind[taker] = "FillOrKill" THEN "Rejected"
          ELSE IF @ = "PartiallyFilled" THEN @ ELSE "New"]
    /\ Return

\* What is left of an order that cannot rest.
StatusUnrested(t) ==
    CASE kind[t] = "Iceberg" /\ remaining[t] = 0 -> "Filled"
      [] kind[t] \in {"Iceberg", "Market", "ImmediateOrCancel"} /\ remaining[t] > 0 ->
            IF filled[t] > 0 THEN "PartiallyFilled" ELSE "Cancelled"
      [] kind[t] = "FillOrKill" /\ remaining[t] > 0 -> "Rejected"
      [] OTHER -> status[t]

NextSlice(t) == kind[t] = "Iceberg" /\ remaining[t] > 0 /\ Ticket[t].iceberg > 0

FinishUnrested ==
    /\ pc = "finish" /\ ~Rests(taker) /\ ~NextSlice(taker)
    /\ status' = [status EXCEPT ![taker] = StatusUnrested(taker)]
    /\ UNCHANGED <<live, heap>>
    /\ Return

\* matchIcebergLocked goes round with a new child order, filled or not.
ShowSlice ==
    /\ pc = "finish" /\ NextSlice(taker)
    /\ slice' = SmallerOf(Ticket[taker].iceberg, remaining[taker])
    /\ pc' = "match"
    /\ UNCHANGED <<clientVars, batch, fired, taker, orderVars, bookVars, outVars>>

-------------------------------------------------------------------------------
(* triggerStops, once per batch.                                            *)

TriggerStops ==
    /\ pc = "batch" /\ batch = <<>>
    /\ fired' = {o \in stops : Triggered(o)}
    /\ stops' = {o \in stops : ~Triggered(o)}
    /\ pc' = "stops"
    /\ UNCHANGED <<clientVars, batch, taker, slice, orderVars, live, heap, lastPrice, outVars>>

\* Stops are parked, and fire, in the order they were processed in.
ParkedBefore(a, b) ==
    \E i, j \in DOMAIN journal :
       i < j /\ journal[i] = OrderRecord(a) /\ journal[j] = OrderRecord(b)

FireStop(o) ==
    /\ pc = "stops" /\ o \in fired
    /\ \A p \in fired \ {o} : ParkedBefore(o, p)
    /\ EnterMatch(o)
    /\ UNCHANGED journal

EndStops ==
    /\ pc = "stops" /\ fired = {}
    /\ pc' = "idle"
    /\ UNCHANGED <<clientVars, batch, fired, taker, slice, orderVars, bookVars, outVars>>

-------------------------------------------------------------------------------

Init ==
    /\ inbound = <<>> /\ sent = {} /\ cancels = <<>> /\ stopped = FALSE
    /\ pc = "idle" /\ batch = <<>> /\ fired = {} /\ taker = NoOrder /\ slice = 0
    /\ kind = [o \in Orders |-> Ticket[o].type]
    /\ status = [o \in Orders |-> "New"]
    /\ filled = [o \in Orders |-> 0]
    /\ remaining = [o \in Orders |-> Ticket[o].qty]
    /\ live = {} /\ heap = [s \in Sides |-> {}] /\ stops = {} /\ lastPrice = 0
    /\ fills = <<>> /\ journal = <<>> /\ acked = {} /\ answered = {} /\ halted = {}

ClientStep ==
    \/ \E o \in Orders : Submit(o)
    \/ \E o \in Orders : \E u \in Cancellers : RequestCancel(o, u)
    \/ \E s \in Sides : ReadBest(s)
    \/ Stop

EngineStep ==
    \/ Exit \/ Poll \/ Drain \/ ProcessCancel
    \/ \E o \in Orders :
          \/ RejectEmpty(o) \/ ProcessPostOnly(o) \/ ParkStop(o)
          \/ RejectFok(o) \/ StartMatch(o) \/ FireStop(o)
          \/ Fill(o) \/ PreventSelfTrade(o)
    \/ LeaveLoop \/ RestRemainder \/ FinishUnrested \/ ShowSlice
    \/ TriggerStops \/ EndStops

Next == ClientStep \/ EngineStep

\* The runtime keeps scheduling the engine goroutine; clients owe nothing.
Fairness == WF_vars(EngineStep)

Spec == Init /\ [][Next]_vars /\ Fairness

-------------------------------------------------------------------------------
(* Properties.                                                              *)

TypeOK ==
    /\ inbound \in Seq(Orders) /\ sent \in SUBSET Orders
    /\ cancels \in Seq(CancelOps) /\ stopped \in BOOLEAN
    /\ pc \in {"idle", "drain", "batch", "match", "finish", "stops", "exited"}
    /\ batch \in Seq(Orders) /\ fired \in SUBSET Orders
    /\ taker \in Orders \cup {NoOrder} /\ slice \in Nat
    /\ kind \in [Orders -> OrderTypes] /\ status \in [Orders -> Statuses]
    /\ filled \in [Orders -> Nat] /\ remaining \in [Orders -> Nat]
    /\ live \in SUBSET Orders /\ heap \in [Sides -> SUBSET Orders]
    /\ stops \in SUBSET Orders /\ lastPrice \in Nat
    /\ fills \in Seq(Fills) /\ journal \in Seq(Records)
    /\ acked \in SUBSET Orders /\ answered \in SUBSET Orders /\ halted \in SUBSET Orders

\* What the book promises about a resting order: it has something left, it can
\* still be found through the heap of its side although the heaps are purged
\* lazily, and it is neither parked nor already cancelled.
BookConsistent ==
    \A o \in live : /\ remaining[o] > 0
                    /\ o \in heap[Ticket[o].side]
                    /\ o \notin stops \cup fired
                    /\ o \notin acked

\* A resting bid is always below a resting ask, except where self-trade
\* prevention broke the loop of one of the two before it rested.
NoCrossedBook ==
    \A b, a \in live :
       /\ Ticket[b].side = "Buy" /\ Ticket[a].side = "Sell"
       /\ Ticket[b].price >= Ticket[a].price
       => b \in halted \/ a \in halted

LastFill == fills[Len(fills)]

\* Price-time priority: whoever is filled, no other resting order of its side
\* has a better price, or the same price and an earlier stamp, although
\* cancelled orders stay in the heap and the tops are purged in passing.
PriceTimePriority ==
    [][fills' # fills =>
         LET m == LastFill'.maker
         IN  \A o \in live : Ticket[o].side = Ticket[m].side /\ o # m => Before(m, o)]_vars

\* No fill is worse than the ticket of its taker allows, whatever type the
\* order has become since; sides are opposite; self-trade prevention of the
\* taker or of the engine keeps its user from trading with itself; and a stop
\* order takes part only after an earlier trade reached its stop price.
FillsRespectTickets ==
    \A i \in DOMAIN fills :
       LET t == Ticket[fills[i].taker]
           m == Ticket[fills[i].maker]
       IN  /\ t.side = Opposite(m.side)
           /\ t.type \notin {"Market", "StopLoss"} /\ t.price > 0 =>
                 IF t.side = "Buy" THEN fills[i].price <= t.price
                                   ELSE fills[i].price >= t.price
           /\ (t.stp # "Disabled" \/ EngineStp # "Disabled") /\ t.user # "" =>
                 t.user # m.user
           /\ \A o \in {fills[i].taker, fills[i].maker} :
                 Ticket[o].type \in {"StopLoss", "StopLimit"} =>
                    \E j \in 1..(i - 1) :
                       IF Ticket[o].side = "Buy" THEN fills[j].price >= Ticket[o].stopPrice
                                                 ELSE fills[j].price <= Ticket[o].stopPrice

\* Every order splits its quantity into what is filled and what remains: a
\* match of several steps, slices included, creates and loses nothing.
QuantityConserved == \A o \in Orders : filled[o] + remaining[o] = Ticket[o].qty

FillsOf(o) == {i \in DOMAIN fills : o \in {fills[i].taker, fills[i].maker}}

\* The stream of fills, which settlement works from, adds up to what the
\* orders say they have traded, and announces the end of an order exactly
\* once, with the fill that uses it up.  (A child of an iceberg announces the
\* end of its slice instead.)
FillsAccountForOrders ==
    \A o \in Orders :
       LET ends == {i \in FillsOf(o) : \/ fills[i].taker = o /\ fills[i].takerFilled
                                       \/ fills[i].maker = o /\ fills[i].makerFilled}
       IN  /\ filled[o] = SumFunctionOnSet([i \in DOMAIN fills |-> fills[i].qty], FillsOf(o))
           /\ Ticket[o].type # "Iceberg" /\ Ticket[o].qty > 0 =>
                 Cardinality(ends) = IF remaining[o] = 0 THEN 1 ELSE 0

\* A client that was told its cancel succeeded sees no fill after it.
CancelIsFinal ==
    [][\A o \in acked : filled'[o] = filled[o] /\ o \notin live']_vars

\* An order that still reads as open and may rest is in the book, parked, or
\* in the hands of the engine: it has not silently dropped out.
OpenOrdersReachable ==
    \A o \in answered :
       /\ Ticket[o].tif = "GTC"
       /\ kind[o] \in {"Limit", "PostOnly", "StopLoss", "StopLimit"}
       /\ status[o] \in {"New", "PartiallyFilled"}
       => o \in live \cup stops \cup fired \cup {taker}

\* An iceberg whose slices meet nothing keeps the engine in its loop for good.
IcebergInProgress == pc \in {"match", "finish"} /\ kind[taker] = "Iceberg"

\* Every accepted order is processed and every cancel request taken, however
\* orders, cancels and stop orders compete for the engine, unless the engine is
\* stopped or an iceberg holds it.
RequestsAreServed ==
    /\ \A o \in Orders : o \in sent ~>
          o \in answered \/ status[o] = "Rejected" \/ stopped \/ IcebergInProgress
    /\ cancels # <<>> ~> cancels = <<>> \/ stopped \/ IcebergInProgress

\* An order of type FillOrKill fills whole or not at all
\* (TestFOKAccepted, TestFOKRejected).
FokAllOrNothing ==
    \A o \in answered :
       Ticket[o].type = "FillOrKill" => filled[o] \in {0, Ticket[o].qty}

===============================================================================
