------------------------------- MODULE MarketFeed -------------------------------
(***************************************************************************)
(* The way of a trade from an order that passes the risk engine to those who *)
(* read the market: ExchangeEngine.SubmitOrder and the risk engine           *)
(* (internal/risk), the recorder of a pair (internal/matching/marketdata.go), *)
(* the channel of trades, and who takes from it: in the gateway the bridge    *)
(* (internal/wsbridge), which persists candles (internal/market), moves the   *)
(* reference price and broadcasts through the Hub; or else the gRPC streams   *)
(* (internal/grpc), each of which takes trades from the others, where a       *)
(* process serves them, which no binary of the repository does.               *)
(*                                                                         *)
(* One pair; an admitted order trades once, with a counterparty that the      *)
(* model leaves out (MatchingEngine has the matching).  Quantities are one.   *)
(***************************************************************************)
EXTENDS Hub, FiniteSetsExt, SequencesExt

CONSTANTS
    Users,
    Requests, Request,  \* orders: the user, a price (0: market) and a quantity
    Prices,             \* at which a market order may trade
    Band,               \* how far a price may be from the reference, in either direction
    MaxQty, MaxPosition,
    Limits,             \* what an administrator may set: orders per minute and per day
    Minute, Day,        \* windows, in ticks
    Intervals,          \* the lengths of the candles, shortest first
    MaxTape, MaxCandles, \* what a recorder keeps, 100000 trades and 1500 candles
    DefaultPage, LargestPage, TradesPage, \* candles a reader gets unasked, 500, and at
                        \* most over REST, 1500; trades it gets unasked, 100
    TradesCap,          \* the buffer of the channel of trades
    Streams,            \* gRPC clients of StreamTrades
    Workloads           \* what is bounded in one behaviour: its requests and how far they
                        \* have come, its clients, the
                        \* limits at first, whether the bridge or the streams take the
                        \* trades, the ticks, and the trouble: crashes, failures, drops
                        \* and acts of administrators

\* A user for whom no administrator has set limits has no UserLimit.
NoLimit == [minute |-> -1, day |-> -1]

ASSUME FeedAssumption ==
    /\ \A r \in Requests :
           Request[r].user \in Users /\ Request[r].price \in Nat /\ Request[r].qty \in Nat
    /\ Prices \subseteq Nat \ {0} /\ Band \in Nat /\ MaxQty \in Nat /\ MaxPosition \in Nat
    /\ \A l \in Limits : l.minute \in Nat /\ l.day \in Nat
    /\ Minute \in Nat \ {0} /\ Day \in Nat /\ Minute <= Day
    /\ Intervals \in Seq(Nat \ {0})
    /\ MaxTape \in Nat \ {0} /\ MaxCandles \in Nat \ {0} /\ TradesCap \in Nat \ {0}
    /\ DefaultPage \in Nat \ {0} /\ LargestPage \in Nat \ {0} /\ TradesPage \in Nat \ {0}
    /\ \A w \in Workloads :
           /\ w.requests \subseteq Requests /\ w.clients \subseteq Clients
           /\ w.limits \in Limits \/ w.limits = NoLimit
           /\ w.from \in {"new", "admitted"} /\ w.bridge \in BOOLEAN /\ w.ticks \in Nat /\ w.trouble \in Nat

VARIABLES
    workload, now,
    phase,      \* of each request: "none", "new", "checked", "admitted", "done"
    config,     \* the PairConfig: is trading enabled, and the reference price
    limit,      \* the UserLimit of each user
    stamps,     \* orderCounts
    tape,       \* the trades a recorder holds, oldest first
    series,     \* its candles of each interval
    channel,    \* MatchingEngine.Trades
    spilled,    \* the trades whose sends wait for room, in goroutines
    job,        \* what the bridge does: a trade, and how far it is with it
    cache,      \* CandleService.lastCandle of each interval
    stored,     \* the rows of candles of each interval
    streamed,   \* history: what each gRPC stream was sent
    executed,   \* history: every trade; its place is its ID
    boot,       \* history: the trades of earlier processes
    delivered,  \* history: the trades the bridge has recorded, in order
    lost,       \* history: trades that nobody got
    tainted,    \* history: the buckets of each interval that went wrong for a known reason
    admitted,   \* history: who was admitted when, since the process began
    loosest,    \* history: the loosest limit of each user, since the process began
    trouble

requestVars == <<phase, config, limit, stamps, admitted, loosest>>
recorderVars == <<tape, series, executed, boot>>
bridgeVars == <<job, cache, stored, delivered>>
vars == <<workload, now, requestVars, recorderVars, channel, spilled, bridgeVars, streamed,
          lost, tainted, trouble, hubVars>>

Ordinals == DOMAIN Intervals
None == [ts |-> -1]

Trouble == trouble < workload.trouble /\ trouble' = trouble + 1

Bucket(i, at) == (at \div Intervals[i]) * Intervals[i]

-------------------------------------------------------------------------------
(* Candles, as both the recorder and the candle service make them.           *)

Opened(trade, ts) ==
    [ts |-> ts, open |-> trade.price, high |-> trade.price, low |-> trade.price,
     close |-> trade.price, volume |-> 1]

AddedToOpen(candle, trade) ==
    [candle EXCEPT !.high = Max({candle.open, trade.price}),
                   !.low = Min({candle.open, trade.price}),
                   !.close = trade.price, !.volume = @ + 1]

Added(candle, trade) ==
    [candle EXCEPT !.high = Max({@, trade.price}), !.low = Min({@, trade.price}),
                   !.close = trade.price, !.volume = @ + 1]

Newest(n, s) == IF Len(s) > n THEN SubSeq(s, Len(s) - n + 1, Len(s)) ELSE s

\* What a loop leaves that appends what stands at some places.
Picked(s, places) ==
    LET picked[n \in 0..Len(s)] ==
            IF n = 0 THEN <<>>
            ELSE IF n \in places THEN Append(picked[n - 1], s[n]) ELSE picked[n - 1]
    IN  picked[Len(s)]

-------------------------------------------------------------------------------
(* MarketDataRecorder.                                                      *)

\* updateCandlesLocked.
CandlesWith(candles, i, trade) ==
    LET ts == Bucket(i, trade.at)
    IN  IF candles # <<>> /\ Last(candles).ts = ts
        THEN [candles EXCEPT ![Len(candles)] = Added(@, trade)]
        ELSE Newest(MaxCandles, Append(candles, Opened(trade, ts)))

\* The trades from the first one that is not older than a window.
Fresh(trades, window) ==
    LET young == {k \in DOMAIN trades : trades[k].at >= now - window}
    IN  IF young = {} THEN <<>> ELSE SubSeq(trades, Min(young), Len(trades))

TapeOfMinute(trade) == Newest(MaxTape, Fresh(Append(tape, trade), Minute))

TapeWith(trade) == Newest(MaxTape, Fresh(Append(tape, trade), Day))

\* RecordTrade, which knows the trades it still holds.
RecordTrade(trade) ==
    IF \E k \in DOMAIN tape : tape[k].id = trade.id
    THEN UNCHANGED <<tape, series>>
    ELSE /\ tape' = TapeWith(trade)
         /\ series' = [i \in Ordinals |-> CandlesWith(series[i], i, trade)]

NoTicker == [open |-> 0, last |-> 0, high |-> 0, low |-> 0, volume |-> 0]

TickerOf(trades) ==
    LET prices == {trades[k].price : k \in DOMAIN trades}
    IN  IF trades = <<>> THEN NoTicker
        ELSE [open |-> Head(trades).price, last |-> Last(trades).price,
              high |-> Max(prices), low |-> Min(prices), volume |-> Len(trades)]

Ticker == TickerOf(Fresh(tape, Day))

RecentTrades(n) == Reverse(Newest(n, tape))

\* A window is closed; 0 leaves a side of it open.
InWindow(ts, start, end) == ts >= start /\ (end = 0 \/ ts <= end)

Candles(i, n, start, end) ==
    Newest(n, Picked(series[i], {k \in DOMAIN series[i] : InWindow(series[i][k].ts, start, end)}))

Or(n, default) == IF n = 0 THEN default ELSE n

\* The calls of the gRPC service.
GetCandles(i, n, start, end) == Candles(i, Or(n, DefaultPage), start, end)

ListTrades(n) == RecentTrades(Or(n, TradesPage))

-------------------------------------------------------------------------------
(* SubmitOrder: the checks of the pair, the limits of the user, the engine.   *)

InBand(price) ==
    price = 0 \/ config.reference = 0
    \/ (config.reference - Band <= price /\ price <= config.reference + Band)

Acceptable(r) ==
    /\ config.trading
    /\ Request[r].qty \in 1..MaxQty
    /\ InBand(Request[r].price)

Check(r) ==
    /\ phase[r] = "new"
    /\ phase' = [phase EXCEPT ![r] = IF Acceptable(r) THEN "checked" ELSE "done"]
    /\ UNCHANGED <<workload, now, config, limit, stamps, admitted, loosest, recorderVars,
                   channel, spilled, bridgeVars, streamed, lost, tainted, trouble, hubVars>>

Since(times, at) == Cardinality({n \in DOMAIN times : times[n] > at})

\* What is not old is moved to the front.
Kept(times) == Picked(times, {n \in DOMAIN times : times[n] > now - Day})

\* What the loop leaves in the slice of a user whose order is refused: the slice is
\* not shortened, and behind what was moved is what has been there.
Moved(times) == Kept(times) \o SubSeq(times, Len(Kept(times)) + 1, Len(times))

Within(times, window) == Since(Kept(times), now - window)

ExhaustedLate(u) ==
    \/ limit[u].day > 0 /\ Within(stamps[u], Day) > limit[u].day
    \/ limit[u].minute > 0 /\ Within(stamps[u], Minute) > limit[u].minute

Exhausted(u) ==
    \/ limit[u].day > 0 /\ Within(stamps[u], Day) >= limit[u].day
    \/ limit[u].minute > 0 /\ Within(stamps[u], Minute) >= limit[u].minute

\* checkUserRateLimits counts an order before checkPositionLimit looks at it.
Admit(r) ==
    LET u == Request[r].user
        known == limit[u] # NoLimit
        passes == ~Exhausted(u)
        enters == passes /\ (known => Request[r].qty <= MaxPosition)
    IN  /\ phase[r] = "checked"
        /\ phase' = [phase EXCEPT ![r] = IF enters THEN "admitted" ELSE "done"]
        /\ stamps' = [stamps EXCEPT ![u] =
               IF ~known THEN @ ELSE IF passes THEN Append(Kept(@), now) ELSE Moved(@)]
        /\ admitted' = IF enters THEN admitted \cup {[request |-> r, at |-> now]} ELSE admitted
        /\ UNCHANGED <<workload, now, config, limit, loosest, recorderVars, channel, spilled,
                       bridgeVars, streamed, lost, tainted, trouble, hubVars>>

EmitBeyond(id) ==
    IF Len(channel) <= TradesCap
    THEN channel' = Append(channel, id) /\ UNCHANGED spilled
    ELSE spilled' = spilled \cup {id} /\ UNCHANGED channel

Emit(id) ==
    IF Len(channel) < TradesCap
    THEN channel' = Append(channel, id) /\ UNCHANGED spilled
    ELSE spilled' = spilled \cup {id} /\ UNCHANGED channel

\* fillLocked: record, then emit.
Fill(r) ==
    /\ phase[r] = "admitted"
    /\ phase' = [phase EXCEPT ![r] = "done"]
    /\ \E price \in IF Request[r].price = 0 THEN Prices ELSE {Request[r].price} :
           LET trade == [id |-> Len(executed) + 1, price |-> price, at |-> now]
           IN  /\ executed' = Append(executed, trade)
               /\ RecordTrade(trade)
               /\ Emit(trade.id)
    /\ UNCHANGED <<workload, now, config, limit, stamps, admitted, loosest, boot, bridgeVars,
                   streamed, lost, tainted, trouble, hubVars>>

-------------------------------------------------------------------------------
(* The goroutine of a trade that found the channel full: five tries.         *)

Spoiled(i, ids) ==
    LET buckets == {Bucket(i, executed[k].at) : k \in ids}
    IN  IF Cardinality(buckets) > 1 THEN buckets ELSE {}

SpillSends(id) ==
    /\ id \in spilled /\ Len(channel) < TradesCap
    /\ channel' = Append(channel, id)
    /\ spilled' = spilled \ {id}
    /\ tainted' = [i \in Ordinals |-> tainted[i] \cup Spoiled(i, id..Len(executed))]
    /\ UNCHANGED <<workload, now, requestVars, recorderVars, bridgeVars, streamed, lost,
                   trouble, hubVars>>

SpillGivesUp(id) ==
    /\ id \in spilled /\ Len(channel) = TradesCap /\ Trouble
    /\ spilled' = spilled \ {id}
    /\ lost' = lost \cup {id}
    /\ UNCHANGED <<workload, now, requestVars, recorderVars, channel, bridgeVars, streamed,
                   tainted, hubVars>>

-------------------------------------------------------------------------------
(* consumeTrades: the candles of one interval after another, the reference    *)
(* price, the broadcast.                                                    *)

Resting == [id |-> 0, todo |-> 0]

Take ==
    /\ workload.bridge /\ job = Resting /\ sending.left = {} /\ channel # <<>>
    /\ job' = [id |-> Head(channel), todo |-> 1]
    /\ channel' = Tail(channel)
    /\ delivered' = Append(delivered, Head(channel))
    /\ UNCHANGED <<workload, now, requestVars, recorderVars, spilled, cache, stored, streamed,
                   lost, tainted, trouble, hubVars>>

\* updateCandle: whatever is not in the bucket at hand begins a new candle.
Current(i, trade) ==
    LET ts == Bucket(i, trade.at)
    IN  IF cache[i].ts = ts THEN Added(cache[i], trade) ELSE Opened(trade, ts)

\* The upsert keeps the open of a row there is.
Upserted(rows, candle) ==
    LET old == {row \in rows : row.ts = candle.ts}
        kept == IF old = {} THEN candle
                ELSE [candle EXCEPT !.open = (CHOOSE row \in old : TRUE).open]
    IN  (rows \ old) \cup {kept}

InOrder(candles) ==
    \A a, b \in DOMAIN candles : a < b => candles[a].ts < candles[b].ts

\* ORDER BY timestamp; a bucket has one row.
ByTime(rows) == CHOOSE s \in [1..Cardinality(rows) -> rows] : InOrder(s)

\* The oldest rows of the window, where the recorder has the newest.
CandleRows(i, start, end, n) ==
    LET rows == ByTime({r \in stored[i] : InWindow(r.ts, start, end)})
    IN  SubSeq(rows, 1, Min({n, Len(rows)}))

\* GET /candles of the gateway, which has no window.
ListCandles(i, n) ==
    CandleRows(i, 0, 0, IF n \in 1..LargestPage THEN n ELSE DefaultPage)

RecordCandle ==
    LET i == job.todo
        candle == Current(i, executed[job.id])
    IN  /\ job.todo \in Ordinals
        /\ cache' = [cache EXCEPT ![i] = candle]
        /\ \/ /\ stored' = [stored EXCEPT ![i] = Upserted(@, candle)]
              /\ job' = [job EXCEPT !.todo = i + 1]
              /\ UNCHANGED <<tainted, trouble>>
           \/ /\ Trouble
              /\ job' = [job EXCEPT !.todo = Len(Intervals) + 1]
              /\ tainted' = [k \in Ordinals |-> tainted[k] \cup
                     (IF k >= i THEN {Bucket(k, executed[job.id].at)} ELSE {})]
              /\ UNCHANGED stored
        /\ UNCHANGED <<workload, now, requestVars, recorderVars, channel, spilled, delivered,
                       streamed, lost, hubVars>>

UpdateReferencePrice(p) == config' = [config EXCEPT !.reference = p]

\* The reference price follows the trade, and the members of the room are copied.
Publish ==
    /\ job.id # 0 /\ job.todo = Len(Intervals) + 1
    /\ UpdateReferencePrice(executed[job.id].price)
    /\ CopyMembers(job.id)
    /\ job' = Resting
    /\ UNCHANGED <<workload, now, phase, limit, stamps, admitted, loosest, recorderVars,
                   channel, spilled, cache, stored, delivered, streamed, lost, tainted, trouble,
                   conn, clients, members, send, closed, leaving, reader, writer, shouts,
                   panicked, due, got, shouted, races>>

-------------------------------------------------------------------------------
(* StreamTrades takes from the same channel; a failed Send loses the trade.   *)

StreamTrade(s) ==
    /\ ~workload.bridge /\ channel # <<>>
    /\ channel' = Tail(channel)
    /\ \/ /\ streamed' = [streamed EXCEPT ![s] = Append(@, Head(channel))]
          /\ UNCHANGED <<lost, trouble>>
       \/ /\ Trouble
          /\ lost' = lost \cup {Head(channel)}
          /\ UNCHANGED streamed
    /\ UNCHANGED <<workload, now, requestVars, recorderVars, spilled, bridgeVars, tainted,
                   hubVars>>

-------------------------------------------------------------------------------
(* Administrators, time, and crashes.                                       *)

\* PausePair and ResumePair, by the name the engine knows the pair by.
SetTradingEnabled ==
    /\ Trouble
    /\ config' = [config EXCEPT !.trading = ~@]
    /\ UNCHANGED <<workload, now, phase, limit, stamps, admitted, loosest, recorderVars,
                   channel, spilled, bridgeVars, streamed, lost, tainted, hubVars>>

UpdatePairRisk ==
    /\ Trouble
    /\ \E p \in Prices : config' = [config EXCEPT !.reference = p]
    /\ UNCHANGED <<workload, now, phase, limit, stamps, admitted, loosest, recorderVars,
                   channel, spilled, bridgeVars, streamed, lost, tainted, hubVars>>

Looser(a, b) == IF a <= 0 \/ b <= 0 THEN 0 ELSE IF a < b THEN b ELSE a

\* UpdateUserRisk: what the body leaves out becomes 0, that is, no limit.
UpdateUserRisk ==
    /\ Trouble
    /\ \E u \in Users, l \in Limits :
           /\ limit' = [limit EXCEPT ![u] = l]
           /\ loosest' = [loosest EXCEPT ![u] =
                  [minute |-> Looser(@.minute, l.minute), day |-> Looser(@.day, l.day)]]
    /\ UNCHANGED <<workload, now, phase, config, stamps, admitted, recorderVars, channel,
                   spilled, bridgeVars, streamed, lost, tainted, hubVars>>

Tick ==
    /\ now < workload.ticks
    /\ now' = now + 1
    /\ UNCHANGED <<workload, requestVars, recorderVars, channel, spilled, bridgeVars, streamed,
                   lost, tainted, trouble, hubVars>>

Unlimited == [u \in Users |-> NoLimit]
Configured == [trading |-> TRUE, reference |-> 0]

\* What is only in memory: all but the rows.  The log is replayed: of the orders
\* since the last snapshot, here of the last one at most, the trades are made again.
Crash ==
    /\ Trouble /\ \A c \in Clients : conn[c] = "absent"
    /\ phase' = [r \in Requests |-> IF phase[r] = "checked" THEN "done" ELSE phase[r]]
    /\ config' = Configured /\ limit' = Unlimited /\ loosest' = Unlimited
    /\ stamps' = [u \in Users |-> <<>>] /\ admitted' = {}
    /\ lost' = lost \cup (((boot + 1)..Len(executed))
                          \ (Range(delivered) \cup UNION {Range(streamed[s]) : s \in Streams}))
    /\ boot' = Len(executed)
    /\ job' = Resting
    /\ cache' = [i \in Ordinals |-> None]
    /\ spilled' = {}
    /\ tainted' = [i \in Ordinals |-> tainted[i] \cup {Bucket(i, now)}
                       \cup (IF job.id = 0 THEN {} ELSE {Bucket(i, executed[job.id].at)})]
    /\ \E again \in {<<>>} \cup {<<executed[n].price>> : n \in DOMAIN executed \cap {Len(executed)}} :
           LET trades == [k \in DOMAIN again |->
                   [id |-> Len(executed) + k, price |-> again[k], at |-> now]]
           IN  /\ executed' = executed \o trades
               /\ tape' = trades
               /\ series' = [i \in Ordinals |-> [k \in DOMAIN trades |->
                      Opened(trades[k], Bucket(i, now))]]
               /\ channel' = [k \in DOMAIN trades |-> trades[k].id]
    /\ UNCHANGED <<workload, now, stored, streamed, delivered, hubVars>>

-------------------------------------------------------------------------------

Init ==
    /\ workload \in Workloads
    /\ now = 0
    /\ phase = [r \in Requests |-> IF r \in workload.requests THEN workload.from ELSE "none"]
    /\ config = Configured
    /\ limit = [u \in Users |-> workload.limits] /\ loosest = limit
    /\ stamps = [u \in Users |-> <<>>] /\ admitted = {}
    /\ tape = <<>> /\ series = [i \in Ordinals |-> <<>>]
    /\ executed = <<>> /\ boot = 0
    /\ channel = <<>> /\ spilled = {}
    /\ job = Resting /\ cache = [i \in Ordinals |-> None]
    /\ stored = [i \in Ordinals |-> {}] /\ delivered = <<>>
    /\ streamed = [s \in Streams |-> <<>>] /\ lost = {}
    /\ tainted = [i \in Ordinals |-> {}]
    /\ trouble = 0
    /\ HubInit

OrderStep == \E r \in Requests : Check(r) \/ Admit(r) \/ Fill(r)
SpillStep == \E id \in spilled : SpillSends(id) \/ SpillGivesUp(id)
BridgeStep == Take \/ RecordCandle \/ Publish
StreamStep == \E s \in Streams : StreamTrade(s)
AdminStep == SetTradingEnabled \/ UpdatePairRisk \/ UpdateUserRisk

FeedUnchanged == UNCHANGED <<workload, now, requestVars, recorderVars, channel, spilled,
                             bridgeVars, streamed, lost, tainted, trouble>>

ConnectedStep ==
    /\ HubStep /\ FeedUnchanged
    /\ \A c \in Clients \ workload.clients : conn'[c] = "absent"

Next ==
    /\ Alive
    /\ OrderStep \/ SpillStep \/ BridgeStep \/ StreamStep \/ AdminStep \/ Tick \/ Crash
       \/ ConnectedStep

Spec == Init /\ [][Next]_vars

-------------------------------------------------------------------------------

\* Every variable keeps its type (the structs of risk.go, marketdata.go, hub.go).
TypeOK ==
    /\ HubTypeOK
    /\ now \in Nat /\ trouble \in 0..workload.trouble /\ boot \in 0..Len(executed)
    /\ phase \in [Requests -> {"none", "new", "checked", "admitted", "done"}]
    /\ config.trading \in BOOLEAN /\ config.reference \in Nat
    /\ \A u \in Users : \A k \in DOMAIN stamps[u] : stamps[u][k] \in 0..now
    /\ Len(tape) <= MaxTape /\ Len(channel) <= TradesCap
    /\ \A k \in DOMAIN executed : executed[k].id = k /\ executed[k].at <= now
    /\ \A i \in Ordinals :
           /\ Len(series[i]) <= MaxCandles
           /\ \A row \in stored[i] : row.ts % Intervals[i] = 0 /\ row.low <= row.high
    /\ job.id \in 0..Len(executed) /\ job.todo \in 0..(Len(Intervals) + 1)

OfProcess == SubSeq(executed, boot + 1, Len(executed))

BucketsOf(trades, i) == {Bucket(i, trades[k].at) : k \in DOMAIN trades}

InBucket(trades, i, ts) == {k \in DOMAIN trades : Bucket(i, trades[k].at) = ts}

CandleOf(trades, i, ts) ==
    LET places == InBucket(trades, i, ts)
        prices == {trades[k].price : k \in places}
    IN  [ts |-> ts, open |-> trades[Min(places)].price, high |-> Max(prices),
         low |-> Min(prices), close |-> trades[Max(places)].price,
         volume |-> Cardinality(places)]

AreCandles(candles, trades, i) ==
    /\ InOrder(candles)
    /\ \A c \in Range(candles) :
           c.ts \in BucketsOf(trades, i) /\ c = CandleOf(trades, i, c.ts)

Missing(candles, trades, i) == BucketsOf(trades, i) \ {c.ts : c \in Range(candles)}

Pages == 0..(LargestPage + 1)

Windows == {w \in {<<0, now - 1>>, <<now, now>>} : w[2] > 0}

\* The tape, which is pruned as it is written and searched as it is read, answers as
\* if it kept every trade of its process: the ticker is that of the trades of the last
\* day, and the trades it lists are the last ones, with none of that day left out
\* (marketdata.go:106, 176, 263).
TapeIsExact ==
    LET ofDay == {k \in DOMAIN OfProcess :
                     OfProcess[k].at >= now - Day /\ k > Len(OfProcess) - MaxTape}
        prices == {OfProcess[k].price : k \in ofDay}
    IN  /\ Ticker = IF ofDay = {} THEN NoTicker
                    ELSE [open |-> OfProcess[Min(ofDay)].price, last |-> Last(OfProcess).price,
                          high |-> Max(prices), low |-> Min(prices), volume |-> Cardinality(ofDay)]
        /\ \A n \in Pages : LET list == ListTrades(n) IN
               /\ \A k \in DOMAIN list : list[k] = executed[Len(executed) + 1 - k]
               /\ Len(list) >= Min({Or(n, TradesPage), Cardinality(ofDay)})

\* The candles of a recorder are those of all trades of its process, in order, but for
\* the oldest when there are too many; and a page of them, in whatever window, is the
\* newest of those in the window (marketdata.go:132, 238, server.go:297).
SeriesAreExact == \A i \in Ordinals :
    /\ AreCandles(series[i], OfProcess, i)
    /\ \A ts \in Missing(series[i], OfProcess, i) :
           Len(series[i]) = MaxCandles /\ \A c \in Range(series[i]) : ts < c.ts
    /\ \A w \in Windows, n \in Pages :
           LET page == GetCandles(i, n, w[1], w[2])
               inside == {c \in Range(series[i]) : c.ts \in w[1]..w[2]}
           IN  /\ InOrder(page) /\ Range(page) \subseteq inside
               /\ \A c \in inside \ Range(page) :
                      Len(page) = Or(n, DefaultPage) /\ \A d \in Range(page) : c.ts < d.ts

HeldIn(whose, trades, id) == {whose} \X {n \in DOMAIN trades : trades[n] = id}

\* Who has the trade: it waits in the channel or in a goroutine, the bridge or a
\* stream has taken it, or nobody will.
Hands(id) ==
    HeldIn(<<"channel">>, channel, id) \cup HeldIn(<<"bridge">>, delivered, id)
    \cup (UNION {HeldIn(<<"stream", s>>, streamed[s], id) : s \in Streams})
    \cup ({<<"goroutine">>} \X (spilled \cap {id})) \cup ({<<"nobody">>} \X (lost \cap {id}))

\* Every trade is in one pair of hands, however the engine, the goroutines that wait
\* for room, the bridge, the streams and crashes interleave: nobody gets a trade twice,
\* two streams share the trades, and the only ones that nobody gets are those for which
\* all tries to send, or a call of Send, have failed (engine.go:346, server.go:360).
TradesInOneHand == \A id \in DOMAIN executed : \E h \in Hands(id) : Hands(id) = {h}

\* The tape, the candles and the hands, of whatever trades there have been.
TradesAreKept == TapeIsExact /\ SeriesAreExact /\ TradesInOneHand

\* What the bridge has taken, but for the trade whose candle of this interval is to come.
Recorded(i) == IF job.id # 0 /\ job.todo <= i THEN Front(delivered) ELSE delivered

TradesOf(ids) == [k \in DOMAIN ids |-> executed[ids[k]]]

\* The candles in the rows are those of the trades the bridge has taken, in the
\* order it took them, in every bucket but those in which a crash, a failed upsert or
\* a trade that overtook another has made the service begin a candle afresh
\* (candle_service.go:153, bridge.go:94, engine.go:346); and where no bucket of an
\* interval has been, a page of the gateway is the first of them, in order and without
\* a gap (order_handler.go:73).
CandlesMatchTape == \A i \in Ordinals :
    LET trades == TradesOf(Recorded(i))
    IN  /\ \A ts \in BucketsOf(trades, i) \ tainted[i] :
               {row \in stored[i] : row.ts = ts} = {CandleOf(trades, i, ts)}
        /\ tainted[i] = {} => \A n \in 1..LargestPage :
               LET page == ListCandles(i, n) IN
               /\ AreCandles(page, trades, i)
               /\ \A ts \in Missing(page, trades, i) :
                      Len(page) = n /\ \A c \in Range(page) : c.ts < ts

\* However orders of one user meet in the risk engine, and whatever it has pruned, no
\* more are admitted within a minute or a day than the loosest limits the user has had
\* since the process began (risk.go:258).
RateLimitHolds == \A u \in Users :
    LET times == {a \in admitted : Request[a.request].user = u}
        AtMost(max, window) == max <= 0 \/ \A a \in times :
            Cardinality({b \in times : b.at <= a.at /\ b.at > a.at - window}) <= max
    IN  AtMost(loosest[u].minute, Minute) /\ AtMost(loosest[u].day, Day)


===============================================================================
