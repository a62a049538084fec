------------------------------ MODULE GrpcServer ------------------------------
(***************************************************************************)
(* The gRPC service in front of one engine (internal/grpc/server.go): orders *)
(* and cancels come in through it, and it shows the book, whole or as a       *)
(* stream of its changes.  No binary of the repository registers the stream   *)
(* service; StartGRPCServer does.                                            *)
(*                                                                         *)
(* The steps of the engine are those of MatchingEngine; here they also count  *)
(* the changes of the book, by which a stream knows that there is news.       *)
(***************************************************************************)
EXTENDS MatchingEngine

CONSTANTS
    Request,     \* the PlaceOrderRequest that each order comes from
    Limit        \* the levels a client of the stream asks for

VARIABLES
    seq,         \* ob.seqNo
    asked,       \* CancelOrder calls that have looked their order up
    stream       \* StreamOrderbook: the last number it saw, and what it has sent last

serverVars == <<vars, seq, asked, stream>>

-------------------------------------------------------------------------------
(* PlaceOrder: the ticket that a request becomes.                           *)

\* A side or a type that is not named is a buy and a limit.
SideOf(r) == IF r.side = "Sell" THEN "Sell" ELSE "Buy"

TypeOf(r) == IF r.type \in OrderTypes THEN r.type ELSE "Limit"

\* Of the times in force only two survive, and one that is good till a date is
\* good till cancelled; only an iceberg has a visible quantity, no larger than
\* the whole.
TicketOf(r, stamp) ==
    [user |-> r.user, qty |-> r.qty, price |-> r.price, stopPrice |-> r.stopPrice,
     side |-> SideOf(r), type |-> TypeOf(r),
     iceberg |-> IF TypeOf(r) = "Iceberg" THEN SmallerOf(r.iceberg, r.qty) ELSE 0,
     tif |-> IF r.tif \in {"IOC", "FOK"} THEN r.tif ELSE "GTC",
     stp |-> "Disabled", createdAt |-> stamp]

ASSUME ServerAssumption ==
    /\ \A o \in Orders : Ticket[o] = TicketOf(Request[o], Ticket[o].createdAt)
    /\ Limit \in Nat

-------------------------------------------------------------------------------
(* The depth of the book.                                                   *)

\* No limit, or a negative one, is a hundred levels.
Levels(limit) == IF limit = 0 THEN 100 ELSE limit

\* aggregateLevelsFromMap, from the lookup map and not from the heaps: what rests
\* on a side, and what of it has one price.
Resting(s) == {o \in live : Ticket[o].side = s /\ remaining[o] > 0}

Prices(s) == {Ticket[o].price : o \in Resting(s)}

Level(s, p) ==
    LET at == {o \in Resting(s) : Ticket[o].price = p}
    IN  [price |-> p, quantity |-> SumFunctionOnSet(remaining, at), count |-> Cardinality(at)]

\* The prices of S that come before p when the levels of side s are sorted.
Better(s, S, p) == {q \in S : IF s = "Buy" THEN q > p ELSE q < p}

\* The price at place i of the levels.
PriceAt(s, i) == CHOOSE p \in Prices(s) : Cardinality(Better(s, Prices(s), p)) = i - 1

Side(s, limit) ==
    [i \in 1..SmallerOf(Levels(limit), Cardinality(Prices(s))) |-> Level(s, PriceAt(s, i))]

\* Depth, which GetOrderbook answers with.
Depth(limit) == [s \in Sides |-> Side(s, limit)]

\* addLocked, removeLocked, addStopLocked and processCancel count; a fill that
\* leaves something of its maker, and a stop order that fires, do not.
CountWithoutRemovals ==
    seq' = seq + Cardinality(live' \ live) + Cardinality(stops' \ stops)

Counted ==
    seq' = seq + Cardinality(live' \ live) + Cardinality(live \ live')
               + Cardinality(stops' \ stops)

-------------------------------------------------------------------------------
(* The calls.                                                               *)

PlaceOrder == \E o \in Orders : Submit(o) /\ UNCHANGED <<seq, asked, stream>>

\* CancelOrder looks the order and its owner up before it asks the engine, which
\* may have used the order up by then.
LookUp(o, u) ==
    /\ LockFree /\ o \in live /\ u \in {"", Ticket[o].user}
    /\ asked' = asked \cup {[order |-> o, user |-> u]}
    /\ UNCHANGED <<vars, seq, stream>>

CancelOrder(op) ==
    /\ asked' = asked \ {op}
    /\ RequestCancel(op.order, op.user)
    /\ UNCHANGED <<seq, stream>>

Nothing == [s \in Sides |-> <<>>]

\* A stream begins with the number of the book and sends nothing yet.
OpenStream ==
    /\ ~stream.open /\ LockFree
    /\ stream' = [open |-> TRUE, last |-> seq, sent |-> FALSE, shown |-> Nothing]
    /\ UNCHANGED <<vars, seq, asked>>

\* A tenth of a second has passed.
StreamOrderbook ==
    /\ stream.open /\ LockFree /\ stream.last # seq
    /\ stream' = [stream EXCEPT !.last = seq, !.sent = TRUE, !.shown = Depth(Limit)]
    /\ UNCHANGED <<vars, seq, asked>>

\* GetTicker reads the best prices, which purges the heaps.
GetTicker == \E s \in Sides : ReadBest(s) /\ UNCHANGED <<seq, asked, stream>>

Shutdown == Stop /\ UNCHANGED <<seq, asked, stream>>

EngineRuns == EngineStep /\ Counted /\ UNCHANGED <<asked, stream>>

-------------------------------------------------------------------------------

ServerInit ==
    /\ Init
    /\ seq = 0 /\ asked = {}
    /\ stream = [open |-> FALSE, last |-> 0, sent |-> FALSE, shown |-> Nothing]

ServerNext ==
    \/ EngineRuns \/ PlaceOrder \/ GetTicker \/ Shutdown
    \/ \E o \in Orders, u \in Cancellers : LookUp(o, u)
    \/ \E op \in asked : CancelOrder(op)
    \/ OpenStream \/ StreamOrderbook

ServerSpec == ServerInit /\ [][ServerNext]_serverVars /\ WF_serverVars(EngineRuns)

-------------------------------------------------------------------------------
(* Properties.                                                              *)

BestPrice(s) == {Ticket[b].price : b \in {o \in Orders : IsBest(o, s)}}

\* What clients are shown is the book.  The first level, which is made from the
\* lookup map, has the price at which the engine trades next, which it takes from
\* the heaps (orderbook.go:193, 293).  And a client of the stream that has been sent
\* everything there was to send has the right prices and counts, and the right
\* quantities but for the first level of a side: a fill that leaves some of its
\* maker is not counted, so the stream keeps showing what is gone (engine.go:329,
\* server.go:389).
StreamShowsBook ==
    /\ \A s \in Sides : {Side(s, 0)[i].price : i \in DOMAIN Side(s, 0) \cap {1}} = BestPrice(s)
    /\ stream.sent /\ stream.last = seq =>
          \A s \in Sides :
             LET now == Side(s, Limit)  shown == stream.shown[s] IN
             /\ DOMAIN shown = DOMAIN now
             /\ \A i \in DOMAIN now :
                   /\ shown[i].price = now[i].price /\ shown[i].count = now[i].count
                   /\ \/ shown[i].quantity = now[i].quantity
                      \/ i = 1 /\ shown[i].quantity > now[i].quantity

===============================================================================
