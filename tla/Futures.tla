-------------------------------- MODULE Futures --------------------------------
(***************************************************************************)
(* Perpetual futures (internal/api/futures_handler.go): positions and       *)
(* orders in the rows of internal/store/pg_futures.go, collateral in the    *)
(* wallet rows.                                                            *)
(*                                                                         *)
(* Three kinds of goroutines work on the rows without a lock: a handler for  *)
(* each request, and in every gateway the loop that runs ProcessOrders,      *)
(* CheckTPSL and CheckLiquidations every ten seconds and the hourly loop     *)
(* that runs ApplyFunding (cmd/api-gateway/main.go).  Each reads a copy of   *)
(* a row, asks the wallet store for one transaction, and saves the copy:     *)
(* three steps, and every operation is a job that goes through them.         *)
(*                                                                         *)
(* The profit, mark, liquidation price and leverage that a row shows are     *)
(* outputs that no decision reads, and are left out.  Where a handler        *)
(* ignores an error of the store, so does its job.                           *)
(***************************************************************************)
EXTENDS Integers, Sequences, FiniteSets, Functions

CONSTANTS
    Users, Pairs,
    Positions,     \* the identities of position rows, in the order they are given
    Orders,        \* the identities of order rows
    Ticket,        \* what an order asks for
    Requests,      \* requests of clients
    Loops, Hourly, \* the ten second loop and the hourly loop of each gateway
    Ask,           \* what they ask for
    Prices,        \* the prices the feed can show
    Opening,       \* the balance of each user in the quote asset
    Unit,          \* units of money in one unit of price times quantity
    FundingRate,   \* of each pair, in units of money for the same
    Workloads,     \* what happens in one behaviour: the requests, the loops that run, the rows
                   \* and prices at first, and the bounds moves of the feed and runs of hourly loops
    MaxTrouble     \* bound: failures of the store and crashes of the gateway

None == "none"   \* no order, no row

Outage == 0      \* liveMarkPrice when the feed has no price

MaxLeverage == 125

Sides == {"long", "short"}

Modes == {"isolated", "cross"}

\* What an order or a request to open a position says; a level of 0 is none.
Terms == [user : Users, pair : Pairs, side : Sides, lev : Int, mode : Modes,
          qty : Nat, price : Nat, stop : Nat, tp : Nat, sl : Nat]

Rows == [status : {None, "open", "closed", "liquidated"}, user : Users, pair : Pairs, side : Sides,
         mode : Modes, entry : Nat, qty : Nat, margin : Int, tp : Nat, sl : Nat]

OnPosition == {"close", "partial", "add", "reduce", "liquidate"}

ASSUME FuturesAssumption ==
    /\ IsFiniteSet(Positions) /\ Positions = 1..Cardinality(Positions)
    /\ IsFiniteSet(Pairs)      \* those that rows and requests name
    /\ None \notin Orders
    /\ \A o \in Orders : Ticket[o].terms \in Terms /\ Ticket[o].type \in {"market", "limit"}
    /\ Requests \cap (Loops \cup Hourly) = {} /\ Loops \cap Hourly = {}
    /\ \A r \in Requests :
           \/ Ask[r].kind = "open" /\ Ask[r].terms \in Terms
           \/ Ask[r].kind \in {"order", "cancel"} /\ Ask[r].order \in Orders
           \/ Ask[r].kind \in OnPosition /\ Ask[r].user \in Users /\ Ask[r].amount \in Nat
    /\ \A r, q \in Requests :   \* the identity of an order is given to it when it is created
           Ask[r].kind = "order" /\ Ask[q].kind = "order" /\ Ask[r].order = Ask[q].order => r = q
    /\ Outage \in Prices /\ Prices \subseteq Nat
    /\ Opening \in [Users -> Nat] /\ Unit \in Nat \ {0} /\ FundingRate \in [Pairs -> Int]
    /\ \A w \in Workloads : /\ w.asks \subseteq Requests /\ w.rows \in [Positions -> Rows]
                             /\ w.prices \subseteq Prices /\ w.loops \subseteq Loops /\ w.moves \in Nat /\ w.runs \in Nat
                            /\ \A p, q \in Positions :
                                   w.rows[p].status = "open" /\ w.rows[q].status = "open" =>
                                       /\ w.rows[p].margin >= 0
                                       /\ w.rows[p].user = w.rows[q].user /\ w.rows[p].pair = w.rows[q].pair => p = q
    /\ MaxTrouble \in Nat

VARIABLES
    price,             \* of each pair: what the feed shows
    balance, locked,   \* of each user: the wallet row of the quote asset
    pos,               \* the rows of futures_positions
    order,             \* the status of the rows of futures_orders
    waiting,           \* the requests that no handler has begun
    job,               \* of each goroutine: the operation it is in
    sweep,             \* of each ten second loop: its phase, and what it has listed for it
    funding,           \* of each hourly loop: what it has listed, and the runs it has left
    paid, executed,    \* history: how often a position was paid out; who executed an order
    lapses,            \* history: what has gone wrong
    moves,             \* the moves that the feed has left
    trouble

walletVars == <<balance, locked>>
histVars   == <<paid, executed, lapses, trouble>>
loopVars   == <<sweep, funding>>
vars == <<price, walletVars, pos, order, waiting, job, loopVars, histVars, moves>>

Workers == Requests \cup Loops \cup Hourly

Trouble(l) == trouble < MaxTrouble /\ trouble' = trouble + 1 /\ lapses' = lapses \cup {l}

-------------------------------------------------------------------------------
(* Arithmetic.                                                              *)

calcMargin(entry, qty, lev) == (Unit * entry * qty) \div lev

calcFuturesPnL(row, mark) ==
    Unit * row.qty * IF row.side = "long" THEN mark - row.entry ELSE row.entry - mark

Available(u) == balance[u] - locked[u]

\* Half a percent of the margin must remain; a position on cross margin can
\* also use what is available in the wallet, with its own margin.
isLiquidated(row, mark) ==
    \/ row.margin <= 0
    \/ 200 * (row.margin + calcFuturesPnL(row, mark)
              + (IF row.mode = "cross" THEN Available(row.user) + row.margin ELSE 0)) <= row.margin

\* mergeSameSidePosition: the weighted average entry price of the two.
Merged(row, entry, t) ==
    [row EXCEPT !.entry = (@ * row.qty + entry * t.qty) \div (row.qty + t.qty),
                !.qty = @ + t.qty,
                !.margin = @ + calcMargin(entry, t.qty, t.lev)]

FreshRow(entry, t) ==
    [status |-> "open", user |-> t.user, pair |-> t.pair, side |-> t.side, mode |-> t.mode,
     entry |-> entry, qty |-> t.qty, margin |-> calcMargin(entry, t.qty, t.lev), tp |-> t.tp, sl |-> t.sl]

\* The price that the feeds give when asked, zero when none does.
liveMarkPrice(pair) == price[pair]

\* ProcessOrders: has the mark reached the stop, or else the price?
Triggered(o) ==
    LET t == Ticket[o].terms  mark == liveMarkPrice(t.pair)  buy == t.side = "long" IN
    /\ mark > Outage
    /\ IF t.stop > 0 THEN IF buy THEN mark >= t.stop ELSE mark <= t.stop
                     ELSE t.price > 0 /\ IF buy THEN mark <= t.price ELSE mark >= t.price

\* CheckTPSL: has the mark reached a level of the position?
HitsLevel(row) ==
    LET mark == liveMarkPrice(row.pair) IN
    /\ mark > Outage
    /\ \/ row.tp > 0 /\ IF row.side = "long" THEN mark >= row.tp ELSE mark <= row.tp
       \/ row.sl > 0 /\ IF row.side = "long" THEN mark <= row.sl ELSE mark >= row.sl

-------------------------------------------------------------------------------
(* Jobs.                                                                    *)

Idle == [at |-> "idle"]

Busy(w) == job[w] # Idle

OpenPositions == {p \in Positions : pos[p].status = "open"}

\* The hazard of the design: another goroutine is at work for the same user in
\* the same pair, or the copy was taken from a row that has changed since.
Overlaps(w, u, pr, stale) ==
    IF stale \/ \E v \in Workers \ {w} : Busy(v) /\ job[v].user = u /\ job[v].pair = pr
    THEN {"overlap"} ELSE {}

Begin(w, j, stale) ==
    /\ job' = [job EXCEPT ![w] = j]
    /\ lapses' = lapses \cup Overlaps(w, j.user, j.pair, stale)

\* A job on an existing position p: the transaction it asks for, the row it
\* will save.
On(kind, p, row, unlock, delta) ==
    [at |-> "settle", kind |-> kind, user |-> row.user, pair |-> row.pair, id |-> p, row |-> row,
     unlock |-> unlock, delta |-> delta, amount |-> 0, next |-> Idle, order |-> None, verdict |-> None]

\* closePosition: the whole margin is unlocked, the profit or loss is booked.
Closing(p, row, mark) ==
    On("close", p, [row EXCEPT !.status = "closed"], row.margin, calcFuturesPnL(row, mark))

\* A liquidation books the margin as the loss.
Liquidation(kind, p, row) ==
    On(kind, p, [row EXCEPT !.status = "liquidated"], row.margin, -row.margin)

New == 0   \* the position that a row about to be inserted has

\* A job that reserves a margin and saves a row.
Adding(p, row, entry, t, o) ==
    [On("open", p, row, 0, 0) EXCEPT !.at = "reserve", !.amount = calcMargin(entry, t.qty, t.lev),
                                     !.order = o, !.verdict = "filled"]

Newest(ps) == CHOOSE p \in ps : \A q \in ps : q <= p

NetOnSameSide(t) ==
    {p \in OpenPositions : pos[p].user = t.user /\ pos[p].pair = t.pair /\ pos[p].side = t.side}

\* netPosition: the open rows of the user in the pair, of which the newest counts.
NetPosition(t) == {p \in OpenPositions : pos[p].user = t.user /\ pos[p].pair = t.pair}

\* One-way mode: add to the position on the same side, else close what is there
\* and open a new one.
Netting(t, entry, o) ==
    IF NetPosition(t) = {} THEN Adding(New, FreshRow(entry, t), entry, t, o)
    ELSE LET p == Newest(NetPosition(t)) IN
         IF pos[p].side = t.side THEN Adding(p, Merged(pos[p], entry, t), entry, t, o)
         ELSE [Closing(p, pos[p], liveMarkPrice(t.pair)) EXCEPT !.next = Adding(New, FreshRow(entry, t), entry, t, o)]

IsMerge(j) == j.kind = "open" /\ j.id # New

\* The levels of a merged position become those of an order; a request to open
\* replaces only the levels that it gives.
OrderLevels(j, t) == IF IsMerge(j) THEN [j EXCEPT !.row.tp = t.tp, !.row.sl = t.sl] ELSE j

GivenLevels(j, t) ==
    IF IsMerge(j) THEN [j EXCEPT !.row.tp = IF t.tp > 0 THEN t.tp ELSE @,
                                 !.row.sl = IF t.sl > 0 THEN t.sl ELSE @] ELSE j

-------------------------------------------------------------------------------
(* The handlers, as far as the first call of a store that changes something. *)

Acceptable(t) == t.lev \in 1..MaxLeverage /\ t.qty > 0

Take(r, kind) == r \in waiting /\ Ask[r].kind = kind /\ waiting' = waiting \ {r}

OpenPosition(r) ==
    LET t == Ask[r].terms
        entry == IF t.price > 0 THEN t.price ELSE liveMarkPrice(t.pair)
    IN  /\ Take(r, "open")
        /\ IF Acceptable(t) THEN Begin(r, GivenLevels(Netting(t, entry, None), t), FALSE)
                            ELSE UNCHANGED <<job, lapses>>
        /\ UNCHANGED <<price, walletVars, pos, order, loopVars, paid, executed, trouble, moves>>

\* A market order is executed at once, and its row is saved afterwards; if it
\* was merged into a position, no row is.
CreateMarketOrder(r) ==
    LET o == Ask[r].order
        t == Ticket[o].terms
        j == OrderLevels(Netting(t, liveMarkPrice(t.pair), o), t)
    IN  /\ Take(r, "order") /\ Ticket[o].type = "market" /\ order[o] = None
        /\ IF Acceptable(t) THEN Begin(r, IF IsMerge(j) THEN [j EXCEPT !.order = None] ELSE j, FALSE)
                            ELSE UNCHANGED <<job, lapses>>
        /\ UNCHANGED <<price, walletVars, pos, order, loopVars, paid, executed, trouble, moves>>

SaveOrder(o) ==
    \/ order' = [order EXCEPT ![o] = "open"] /\ UNCHANGED <<lapses, trouble>>
    \/ Trouble("status") /\ UNCHANGED order

CreateRestingOrder(r) ==
    LET o == Ask[r].order IN
    /\ Take(r, "order") /\ Ticket[o].type = "limit" /\ order[o] = None
    /\ IF Acceptable(Ticket[o].terms)
       THEN SaveOrder(o)
       ELSE UNCHANGED <<order, lapses, trouble>>
    /\ UNCHANGED <<price, walletVars, pos, job, loopVars, paid, executed, moves>>

\* CancelOrder reads the status and then writes it.
CancelOrder(r) ==
    LET o == Ask[r].order  t == Ticket[o].terms IN
    /\ Take(r, "cancel") /\ order[o] # None
    /\ IF order[o] = "open"
       THEN Begin(r, [at |-> "status", kind |-> "cancel", user |-> t.user, pair |-> t.pair,
                      order |-> o, verdict |-> "cancelled"], FALSE)
       ELSE UNCHANGED <<job, lapses>>
    /\ UNCHANGED <<price, walletVars, pos, order, loopVars, paid, executed, trouble, moves>>

\* A handler of a position: it is found by its identity and its user, and may be
\* in one of the given states.
TakeFor(r, kind, p, statuses) ==
    /\ Take(r, kind)
    /\ pos[p].status \in statuses /\ pos[p].user = Ask[r].user
    /\ UNCHANGED <<price, walletVars, pos, order, loopVars, paid, executed, trouble, moves>>

CloseAny(r, p) ==
    /\ TakeFor(r, "close", p, {"open", "closed", "liquidated"})
    /\ Begin(r, Closing(p, pos[p], liveMarkPrice(pos[p].pair)), FALSE)

ClosePosition(r, p) ==
    /\ TakeFor(r, "close", p, {"open"})
    /\ Begin(r, Closing(p, pos[p], liveMarkPrice(pos[p].pair)), FALSE)

ClosePositionWhole(r, p) ==
    LET row == pos[p] IN
    /\ TakeFor(r, "partial", p, {"open"})
    /\ Ask[r].amount \in 1..row.qty
    /\ Begin(r, On("partial", p, [row EXCEPT !.qty = @ - Ask[r].amount],
                   row.margin, calcFuturesPnL(row, liveMarkPrice(row.pair))), FALSE)

\* A part of the position: margin and profit in proportion.
ClosePositionPartial(r, p) ==
    LET row == pos[p]
        amt == Ask[r].amount
        margin == (row.margin * amt) \div row.qty
        pnl == (calcFuturesPnL(row, liveMarkPrice(row.pair)) * amt) \div row.qty
    IN  /\ TakeFor(r, "partial", p, {"open"})
        /\ amt \in 1..row.qty
        /\ Begin(r, IF amt = row.qty THEN Closing(p, row, liveMarkPrice(row.pair))
                    ELSE On("partial", p, [row EXCEPT !.qty = @ - amt, !.margin = @ - margin], margin, pnl), FALSE)

\* Margin moves between the balance and the row; nothing is locked or unlocked.
AddMargin(r, p) ==
    LET row == pos[p]  amt == Ask[r].amount IN
    /\ TakeFor(r, "add", p, {"open", "liquidated"})
    /\ amt > 0
    /\ Begin(r, On("add", p, [row EXCEPT !.margin = @ + amt], 0, -amt), FALSE)

ReduceMargin(r, p) ==
    LET row == pos[p]  amt == Ask[r].amount  less == [row EXCEPT !.margin = @ - amt] IN
    /\ TakeFor(r, "reduce", p, {"open", "liquidated"})
    /\ amt > 0 /\ amt <= row.margin /\ ~isLiquidated(less, liveMarkPrice(row.pair))
    /\ Begin(r, On("reduce", p, less, 0, amt), FALSE)

LiquidatePosition(r, p) ==
    /\ TakeFor(r, "liquidate", p, {"open"})
    /\ isLiquidated(pos[p], liveMarkPrice(pos[p].pair))
    /\ Begin(r, Liquidation("liquidate", p, pos[p]), FALSE)

-------------------------------------------------------------------------------
(* The ten second loop and the hourly loop.                                 *)

Copies == {[id |-> p, row |-> pos[p]] : p \in OpenPositions}

LoopIdle(l) ==
    job[l] = Idle /\ UNCHANGED <<price, walletVars, pos, order, waiting, funding, paid, executed, trouble, moves>>

Listed(phase, orders, rows) == [phase |-> phase, orders |-> orders, rows |-> rows]

\* Each phase lists what is open when it begins, and looks at the copies one
\* after another.
NextPhase(l) ==
    /\ LoopIdle(l) /\ sweep[l].orders = {} /\ sweep[l].rows = {}
    /\ \/ sweep[l].phase = "orders" /\ sweep' = [sweep EXCEPT ![l] = Listed("levels", {}, Copies)]
       \/ sweep[l].phase = "levels" /\ sweep' = [sweep EXCEPT ![l] = Listed("liquidations", {}, Copies)]
       \/ /\ sweep[l].phase = "liquidations"
          /\ sweep' = [sweep EXCEPT ![l] = Listed("orders", {o \in Orders : order[o] = "open"}, {})]
    /\ UNCHANGED <<job, lapses>>

OrderOf(j) == IF j = Idle THEN None ELSE IF j.at # "status" /\ j.next # Idle THEN j.next.order ELSE j.order

\* The loop of another gateway has executed the order, or is about to.
Twice(l, o) == (\E i \in DOMAIN executed[o] : executed[o][i] # l) \/ \E k \in Loops \ {l} : OrderOf(job[k]) = o

ProcessOrder(l, o) ==
    LET t == Ticket[o].terms
        j == OrderLevels(Netting(t, liveMarkPrice(t.pair), o), t)
    IN  /\ LoopIdle(l) /\ o \in sweep[l].orders
        /\ sweep' = [sweep EXCEPT ![l].orders = @ \ {o}]
        /\ IF Triggered(o)
           THEN /\ job' = [job EXCEPT ![l] = j]
                /\ lapses' = lapses \cup Overlaps(l, t.user, t.pair, order[o] # "open")
                                    \cup (IF Twice(l, o) THEN {"twice"} ELSE {})
           ELSE UNCHANGED <<job, lapses>>

CheckTPSL(l, c) ==
    /\ LoopIdle(l) /\ sweep[l].phase = "levels" /\ c \in sweep[l].rows
    /\ sweep' = [sweep EXCEPT ![l].rows = @ \ {c}]
    /\ IF HitsLevel(c.row) THEN Begin(l, Closing(c.id, c.row, liveMarkPrice(c.row.pair)), pos[c.id] # c.row)
                           ELSE UNCHANGED <<job, lapses>>

CheckLiquidations(l, c) ==
    /\ LoopIdle(l) /\ sweep[l].phase = "liquidations" /\ c \in sweep[l].rows
    /\ sweep' = [sweep EXCEPT ![l].rows = @ \ {c}]
    /\ IF isLiquidated(c.row, liveMarkPrice(c.row.pair))
       THEN Begin(l, Liquidation("scan", c.id, c.row), pos[c.id] # c.row)
       ELSE UNCHANGED <<job, lapses>>

ListForFunding(h) ==
    /\ job[h] = Idle /\ funding[h].rows = {} /\ funding[h].runs > 0
    /\ funding' = [funding EXCEPT ![h] = [rows |-> Copies, runs |-> @.runs - 1]]
    /\ UNCHANGED <<price, walletVars, pos, order, waiting, job, sweep, histVars, moves>>

\* Longs pay the rate, shorts receive it, from the balance and on the margin.
ApplyFunding(h, c) ==
    LET row == c.row
        amt == liveMarkPrice(row.pair) * row.qty * FundingRate[row.pair] * IF row.side = "long" THEN -1 ELSE 1
    IN  /\ job[h] = Idle /\ c \in funding[h].rows
        /\ funding' = [funding EXCEPT ![h].rows = @ \ {c}]
        /\ IF liveMarkPrice(row.pair) > Outage
           THEN Begin(h, On("funding", c.id, [row EXCEPT !.margin = @ + amt], 0, amt), pos[c.id] # row)
           ELSE UNCHANGED <<job, lapses>>
        /\ UNCHANGED <<price, walletVars, pos, order, waiting, sweep, paid, executed, trouble, moves>>

-------------------------------------------------------------------------------
(* The steps of a job.                                                      *)

At(w, step) == job[w].at = step /\ UNCHANGED <<price, waiting, loopVars, moves>>

Becomes(w, j) == job' = [job EXCEPT ![w] = j]

UnlockedAlways(u, amt) == locked[u] - amt

\* The unlock of PGWalletStore.Settle: without effect, and without an error,
\* when it is larger than what is locked.
Unlocked(u, amt) == IF locked[u] >= amt THEN locked[u] - amt ELSE locked[u]

Booked(j) ==
    /\ balance' = [balance EXCEPT ![j.user] = @ + j.delta]
    /\ locked' = [locked EXCEPT ![j.user] = Unlocked(j.user, j.unlock)]
    /\ paid' = [paid EXCEPT ![j.id] = @ + IF j.kind \in {"close", "liquidate", "scan"} THEN 1 ELSE 0]

\* One transaction of the store.  Only CheckLiquidations goes on when it fails.
Settle(w) ==
    LET j == job[w] IN
    /\ At(w, "settle")
    /\ \/ /\ Booked(j) /\ Becomes(w, [j EXCEPT !.at = "save"])
          /\ lapses' = lapses \cup (IF j.kind \in {"add", "reduce", "funding"} THEN {"transfer"} ELSE {})
          /\ UNCHANGED trouble
       \/ /\ Trouble(IF j.kind = "scan" THEN "scan" ELSE "unsettled")
          /\ Becomes(w, IF j.kind = "scan" THEN [j EXCEPT !.at = "save"] ELSE Idle)
          /\ UNCHANGED <<walletVars, paid>>
       \/ /\ Trouble("commit") /\ Booked(j)
          /\ Becomes(w, IF j.kind = "scan" THEN [j EXCEPT !.at = "save"] ELSE Idle)
    /\ UNCHANGED <<pos, order, executed>>

ReserveOrLeave(w) ==
    LET j == job[w]
        covered == j.amount > 0 /\ Available(j.user) >= j.amount
    IN  /\ At(w, "reserve")
        /\ locked' = IF covered THEN [locked EXCEPT ![j.user] = @ + j.amount] ELSE locked
        /\ Becomes(w, IF covered THEN [j EXCEPT !.at = "save"] ELSE Idle)
        /\ UNCHANGED <<balance, pos, order, histVars>>

\* ReserveForOrder.  An order that cannot be covered is cancelled by the loop,
\* and left without a row by a handler.
Reserve(w) ==
    LET j == job[w]
        covered == j.amount > 0 /\ Available(j.user) >= j.amount
        rejected == IF w \in Loops THEN [j EXCEPT !.at = "status", !.verdict = "cancelled"] ELSE Idle
        lock == [locked EXCEPT ![j.user] = @ + j.amount]
    IN  /\ At(w, "reserve")
        /\ \/ /\ covered /\ locked' = lock /\ Becomes(w, [j EXCEPT !.at = "save"])
              /\ UNCHANGED <<lapses, trouble>>
           \/ ~covered /\ Becomes(w, rejected) /\ UNCHANGED <<locked, lapses, trouble>>
           \/ /\ covered /\ Trouble("lock") /\ locked' \in {locked, lock} /\ Becomes(w, rejected)
        /\ UNCHANGED <<balance, pos, order, paid, executed>>

\* SavePosition: the update of a row leaves its size and its entry price alone.
Upsert(p, row) ==
    LET old == pos[p] IN
    [pos EXCEPT ![p] = IF old.status = None THEN row ELSE [row EXCEPT !.qty = old.qty, !.entry = old.entry]]

Unused == {p \in Positions : pos[p].status = None}

FreshId == CHOOSE p \in Unused : \A q \in Unused : p <= q

AfterSave(j) ==
    IF j.next # Idle THEN j.next
    ELSE IF j.order # None THEN [j EXCEPT !.at = "status"] ELSE Idle

\* Only closePosition hands an error of the store to its caller.
Save(w) ==
    LET j == job[w] IN
    /\ At(w, "save")
    /\ j.id = New => Unused # {}   \* bound: rows that the table holds
    /\ \/ /\ pos' = Upsert(IF j.id = New THEN FreshId ELSE j.id, j.row)
          /\ executed' = IF j.order = None THEN executed ELSE [executed EXCEPT ![j.order] = Append(@, w)]
          /\ Becomes(w, AfterSave(j))
          /\ UNCHANGED <<lapses, trouble>>
       \/ /\ Trouble("unsaved")
          /\ Becomes(w, IF j.kind = "close" THEN Idle ELSE AfterSave(j))
          /\ UNCHANGED <<pos, executed>>
    /\ UNCHANGED <<walletVars, order, paid>>

\* UpdateOrderStatus, or SaveOrder of a market order; errors are ignored.
SetStatus(w) ==
    LET j == job[w] IN
    /\ At(w, "status")
    /\ \/ order' = [order EXCEPT ![j.order] = j.verdict] /\ UNCHANGED <<lapses, trouble>>
       \/ Trouble("status") /\ UNCHANGED order
    /\ Becomes(w, Idle)
    /\ UNCHANGED <<walletVars, pos, paid, executed>>

JobStep(w) == Settle(w) \/ Reserve(w) \/ Save(w) \/ SetStatus(w)

-------------------------------------------------------------------------------
\* bestTicker asks one source after another: from one call to the next the price,
\* the source and whether there is one may change.
MoveFeed(p) ==
    /\ moves > 0 /\ moves' = moves - 1
    /\ \E m \in Prices \ {price[p]} : price' = [price EXCEPT ![p] = m]
    /\ UNCHANGED <<walletVars, pos, order, waiting, job, loopVars, histVars>>

\* A gateway dies with the operations it was in, and starts again.
Crash ==
    \E dead \in SUBSET {w \in Workers : Busy(w)} :
        /\ dead # {} /\ Trouble("crash")
        /\ job' = [w \in Workers |-> IF w \in dead THEN Idle ELSE job[w]]
        /\ sweep' = [l \in Loops |-> IF l \in dead THEN Listed("liquidations", {}, {}) ELSE sweep[l]]
        /\ funding' = [h \in Hourly |-> IF h \in dead THEN [funding[h] EXCEPT !.rows = {}] ELSE funding[h]]
        /\ UNCHANGED <<price, walletVars, pos, order, waiting, paid, executed, moves>>

Margins(rows, u) ==
    SumFunctionOnSet([p \in Positions |-> rows[p].margin],
                     {p \in Positions : rows[p].status = "open" /\ rows[p].user = u})

MarginOf(u) == Margins(pos, u)

Init ==
    /\ \E w \in Workloads :
           /\ waiting = w.asks /\ pos = w.rows
           /\ locked = [u \in Users |-> Margins(w.rows, u)]
           /\ price \in [Pairs -> w.prices]
           /\ moves = w.moves
           /\ funding = [h \in Hourly |-> [rows |-> {}, runs |-> w.runs]]
           /\ sweep = [l \in Loops |-> Listed(IF l \in w.loops THEN "liquidations" ELSE "off", {}, {})]
    /\ balance = Opening
    /\ order = [o \in Orders |-> None]
    /\ job = [w \in Workers |-> Idle]
    /\ paid = [p \in Positions |-> 0] /\ executed = [o \in Orders |-> <<>>]
    /\ lapses = {} /\ trouble = 0

HandlerStep ==
    \E r \in Requests :
        \/ OpenPosition(r) \/ CreateMarketOrder(r) \/ CreateRestingOrder(r) \/ CancelOrder(r)
        \/ \E p \in Positions :
               \/ ClosePosition(r, p) \/ ClosePositionPartial(r, p) \/ AddMargin(r, p)
               \/ ReduceMargin(r, p) \/ LiquidatePosition(r, p)

LoopStep(l) ==
    \/ NextPhase(l)
    \/ \E o \in sweep[l].orders : ProcessOrder(l, o)
    \/ \E c \in sweep[l].rows : CheckTPSL(l, c) \/ CheckLiquidations(l, c)
    \/ JobStep(l)

HourlyStep(h) ==
    \/ ListForFunding(h)
    \/ \E c \in funding[h].rows : ApplyFunding(h, c)
    \/ JobStep(h)

Next ==
    \/ HandlerStep
    \/ \E l \in Loops : LoopStep(l)
    \/ \E h \in Hourly : HourlyStep(h)
    \/ \E r \in Requests : JobStep(r)
    \/ \E p \in Pairs : MoveFeed(p)
    \/ Crash

Spec == Init /\ [][Next]_vars

\* The ten second loops never stop, and an operation that has begun goes on.
FairSpec ==
    /\ Spec
    /\ \A l \in Loops : WF_vars(LoopStep(l))
    /\ \A w \in Requests \cup Hourly : WF_vars(JobStep(w))

-------------------------------------------------------------------------------
(* Properties.                                                              *)

\* Types: every variable holds what the code can put there, a job in the middle
\* of a netting has its second half, and a size never becomes negative.
TypeOK ==
    /\ price \in [Pairs -> Prices]
    /\ balance \in [Users -> Int] /\ locked \in [Users -> Nat]
    /\ pos \in [Positions -> Rows]
    /\ order \in [Orders -> {None, "open", "filled", "cancelled"}]
    /\ waiting \subseteq Requests
    /\ \A w \in Workers :
           /\ job[w].at \in {"idle", "settle", "reserve", "save", "status"}
           /\ job[w].at \in {"settle", "reserve", "save"} =>
                  job[w].row \in Rows /\ job[w].id \in Positions \cup {New} /\ (job[w].id = New => job[w].kind = "open")
           /\ job[w].at = "status" => job[w].order \in Orders
    /\ \A l \in Loops : /\ sweep[l].phase \in {"off", "orders", "levels", "liquidations"}
                        /\ sweep[l].orders \subseteq Orders
                        /\ \A c \in sweep[l].rows : c.id \in Positions /\ c.row \in Rows
    /\ \A h \in Hourly : /\ funding[h].runs \in Nat
                         /\ \A c \in funding[h].rows : c.id \in Positions /\ c.row \in Rows
    /\ moves \in Nat /\ trouble \in 0..MaxTrouble

\* AccountSummary shows the margin of the open positions beside what is locked
\* in the wallet.  They are the same while no operation of the user is under
\* way, unless margin was moved without a lock (AddMargin, ReduceMargin,
\* ApplyFunding), operations overlapped, or a store failed between two steps.
MarginLocked ==
    lapses \subseteq {"unsettled", "status"} =>
        \A u \in Users : (\A w \in Workers : Busy(w) => job[w].user # u) => locked[u] = MarginOf(u)

\* "Only one open position per pair per user" (OpenPosition), for all the ways
\* to open one, unless operations of the same user and pair overlapped.
OneOpenPosition ==
    "overlap" \notin lapses =>
        \A p, q \in OpenPositions : pos[p].user = pos[q].user /\ pos[p].pair = pos[q].pair => p = q

\* A position is paid out or liquidated once, whatever came before (partial
\* closes, margin changes, a failed attempt), unless operations overlapped, a
\* commit was reported as failed, or the row was not saved after the payment.  An
\* order opens or enlarges a position once, however it races with its cancellation,
\* with other orders and with failed attempts, unless two gateways take it at once,
\* its row could not be marked, or a process died before it was.
DoneOnce ==
    /\ lapses \cap {"overlap", "commit", "unsaved", "crash"} = {} =>
           \A p \in Positions : paid[p] <= 1
    /\ lapses \cap {"twice", "status", "crash"} = {} => \A o \in Orders : Len(executed[o]) <= 1

\* What the loop is for: in the end no open order is triggered, no open
\* position is at one of its levels, and none has lost its margin.
LoopCatchesUp ==
    <>[](/\ \A o \in Orders : order[o] = "open" => ~Triggered(o)
         /\ \A p \in OpenPositions : ~HitsLevel(pos[p]) /\ ~isLiquidated(pos[p], liveMarkPrice(pos[p].pair)))

===============================================================================
