------------------------------ MODULE Settlement ------------------------------
(***************************************************************************)
(* From a trade to the wallets: the fill channels of the engines           *)
(* (internal/matching/engine.go), the bridge that consumes them            *)
(* (internal/wsbridge/bridge.go), the wallet service                       *)
(* (internal/wallet/service.go) on the wallet rows                         *)
(* (internal/store/pg_wallet.go), and the profit and loss tracker          *)
(* (internal/pnl/service.go) of one gateway process.                       *)
(*                                                                         *)
(* Matching itself is MatchingEngine's subject: here an engine executes    *)
(* any two orders that cross.  Rows survive a crash; reservations,         *)
(* channels and positions do not, and recovery replays the orders since    *)
(* the last snapshot, which executes and emits their fills again.          *)
(*                                                                         *)
(* SettleFill looks its fill up in processedFills under an identity that   *)
(* contains the time at which the bridge consumed it.  No two deliveries   *)
(* have the same, so the set never stops one and has no variable here.     *)
(***************************************************************************)
EXTENDS Integers, Sequences, FiniteSetsExt, SequencesExt

CONSTANTS
    Users, Assets, Pairs, Orders,
    Base, Quote,      \* SplitPair
    Ticket,           \* what an order asks for: user, pair, side, price, qty
    Opening,          \* the balance of each account
    Funded,           \* the accounts that have a wallet row from the start
    Scale,            \* quote units in one unit of price times quantity
    TakerRate, MakerRate, \* fees in quote units for the same
    FillsCap,         \* capacity of a fill channel
    Tries,            \* retries of a fill that found the channel full
    Deposits,         \* deposit requests
    Deposit,          \* what they carry: user, asset, amount, hash
    Workloads,        \* the orders and deposits requested in one behaviour, and its trouble
    MaxTrouble        \* bound of every workload's failures of the store and crashes

Accounts == Users \X Assets

Market == 0   \* the price of a market order

ASSUME SettlementAssumption ==
    /\ IsFiniteSet(Orders) /\ IsFiniteSet(Deposits)
    /\ Base \in [Pairs -> Assets] /\ Quote \in [Pairs -> Assets]
    /\ \A p \in Pairs : Base[p] # Quote[p]
    /\ Ticket \in [Orders -> [user : Users, pair : Pairs, side : {"Buy", "Sell"}, price : Nat, qty : Nat \ {0}]]
    /\ Opening \in [Accounts -> Nat] /\ Funded \subseteq Accounts
    /\ \A x \in Accounts \ Funded : Opening[x] = 0
    /\ Scale \in Nat \ {0} /\ TakerRate \in Nat /\ MakerRate \in 0..TakerRate /\ TakerRate <= Scale
    /\ FillsCap \in Nat \ {0} /\ Tries \in Nat \ {0}
    /\ Deposit \in [Deposits -> [user : Users, asset : Assets, amount : Nat \ {0}, hash : {"h1", "h2"}]]
    /\ Workloads # {} /\ MaxTrouble \in Nat
    /\ Workloads \subseteq [orders : SUBSET Orders, deposits : SUBSET Deposits, trouble : 0..MaxTrouble]

\* The bridge serves one pair for each asset that is traded, all against an asset that
\* is not: BTC, ETH, SOL, BNB and ADA against USDT (cmd/api-gateway/main.go:273).
ASSUME PairsAssumption ==
    \A p, q \in Pairs : (Base[p] = Base[q] => p = q) /\ Base[p] # Quote[q]

VARIABLES
    rows, balance, locked, \* the wallet rows, 0 where there is none
    recorded,         \* the transaction rows of deposits, by hash
    reservations,     \* wallet.Service.reservations: what remains of each, 0 for none
    stage, left,      \* of an order: how far it is, and its RemainingQty
    tape, mark,       \* of a pair: the fills executed, how many the snapshot covers
    chan,             \* MatchingEngine.Fills
    spilled,          \* goroutines of emitFill that still try to send
    bridge,           \* the goroutine consumeFills of each pair
    position,         \* pnl.Service.positions: the quantity, and what it cost
    dep,              \* where a deposit request is
    moved,            \* history: what has reached the ledger
    lost,             \* history: fills that will not reach it any more
    lapses,           \* history: what has gone wrong
    epoch,            \* how often the gateway has started again
    trouble           \* the failures and crashes that are left

walletVars == <<rows, balance, locked>>
orderVars  == <<stage, left>>
engineVars == <<tape, mark>>
fillVars   == <<chan, spilled>>
depVars    == <<dep, recorded>>
histVars   == <<moved, lost, lapses, trouble>>
vars == <<walletVars, reservations, orderVars, engineVars, fillVars, bridge, position, depVars, histVars, epoch>>

Trouble == trouble > 0 /\ trouble' = trouble - 1

Lapse(l) == lapses' = lapses \cup {l}

-------------------------------------------------------------------------------
(* Reservations.                                                            *)

User(o) == Ticket[o].user

ReservedAsset(o) ==
    IF Ticket[o].side = "Buy" THEN Quote[Ticket[o].pair] ELSE Base[Ticket[o].pair]

\* A limit buy reserves its worst cost with the taker's fee, a sell its quantity.
AmountToReserve(o) ==
    IF Ticket[o].side = "Buy" THEN Ticket[o].price * Ticket[o].qty * (Scale + TakerRate)
                              ELSE Ticket[o].qty

\* The price of a market buy is not known: nothing is reserved.
IsReserved(o) == ~(Ticket[o].side = "Buy" /\ Ticket[o].price = Market)

ReservedAccount(o) == <<User(o), ReservedAsset(o)>>

Available(x) == balance[x] - locked[x]

\* ReserveOrder, before the order enters the engine.  A failure after the
\* commit leaves the lock behind.
ReserveOrder(o) ==
    LET x == ReservedAccount(o)  amt == AmountToReserve(o) IN
    /\ stage[o] = "new" /\ IsReserved(o)
    /\ \/ /\ Available(x) >= amt
          /\ locked' = [locked EXCEPT ![x] = @ + amt]
          /\ rows' = rows \cup {x}
          /\ reservations' = [reservations EXCEPT ![o] = amt]
          /\ stage' = [stage EXCEPT ![o] = "reserved"]
          /\ UNCHANGED <<lapses, trouble>>
       \/ /\ Available(x) < amt
          /\ stage' = [stage EXCEPT ![o] = "over"]
          /\ UNCHANGED <<rows, locked, reservations, lapses, trouble>>
       \/ /\ Available(x) >= amt /\ Trouble /\ Lapse("lock")
          /\ locked' = [locked EXCEPT ![x] = @ + amt]
          /\ rows' = rows \cup {x}
          /\ stage' = [stage EXCEPT ![o] = "over"]
          /\ UNCHANGED reservations
    /\ UNCHANGED <<balance, left, engineVars, fillVars, bridge, position, depVars, moved, lost, epoch>>

\* The unlock of PGWalletStore.Settle: without effect, and without an error,
\* when it is larger than what is locked.
Unlocked(x, amt) == IF locked[x] >= amt THEN locked[x] - amt ELSE locked[x]

ReleaseKeepsRecord(o) ==
    /\ locked' = [locked EXCEPT ![ReservedAccount(o)] = Unlocked(ReservedAccount(o), reservations[o])]
    /\ UNCHANGED <<reservations, lapses, trouble>>

\* ReleaseOrder: the record is dropped first, then the store is asked; if that
\* fails, or the process dies, the funds stay locked and nobody knows why.
ReleaseOrder(o) ==
    /\ reservations' = [reservations EXCEPT ![o] = 0]
    /\ \/ /\ locked' = [locked EXCEPT ![ReservedAccount(o)] = Unlocked(ReservedAccount(o), reservations[o])]
          /\ UNCHANGED <<lapses, trouble>>
       \/ /\ reservations[o] > 0 /\ Trouble /\ Lapse("lock") /\ UNCHANGED locked

-------------------------------------------------------------------------------
(* The engine, as far as the settlement sees it.                            *)

Submit(o) ==
    /\ \/ stage[o] = "reserved" /\ UNCHANGED lapses
       \/ stage[o] = "new" /\ ~IsReserved(o) /\ Lapse("unreserved")
    /\ stage' = [stage EXCEPT ![o] = "live"]
    /\ UNCHANGED <<walletVars, reservations, left, engineVars, fillVars, bridge, position, depVars, moved, lost, trouble, epoch>>

\* The engine drops what is left of an order.  Nobody releases its reservation.
Cancel(o) ==
    /\ stage[o] = "live" /\ left[o] > 0
    /\ stage' = [stage EXCEPT ![o] = "over"]
    /\ UNCHANGED <<walletVars, reservations, left, engineVars, fillVars, bridge, position, depVars, histVars, epoch>>

Crosses(t, m) ==
    /\ Ticket[t].pair = Ticket[m].pair /\ Ticket[t].side # Ticket[m].side
    /\ Ticket[m].price # Market
    /\ Ticket[t].price # Market =>
           IF Ticket[t].side = "Buy" THEN Ticket[t].price >= Ticket[m].price
                                     ELSE Ticket[t].price <= Ticket[m].price

\* One notification in a channel: the fill number n of its pair, emitted by
\* the engine of this epoch.
Notification(p, n, e) == [pair |-> p, n |-> n, epoch |-> e]

EmitOrDrop(p, f) ==
    /\ chan' = IF Len(chan[p]) < FillsCap THEN [chan EXCEPT ![p] = Append(@, f)] ELSE chan
    /\ UNCHANGED spilled

\* emitFill: send without blocking, else leave it to a goroutine.
EmitFill(p, f) ==
    IF Len(chan[p]) < FillsCap
    THEN chan' = [chan EXCEPT ![p] = Append(@, f)] /\ UNCHANGED spilled
    ELSE spilled' = spilled \cup {[fill |-> f, tries |-> Tries]} /\ UNCHANGED chan

Execute(t, m) ==
    LET p == Ticket[t].pair
        q == Min({left[t], left[m]})
    IN  /\ stage[t] = "live" /\ stage[m] = "live" /\ left[t] > 0 /\ left[m] > 0
        /\ Crosses(t, m) /\ User(t) # User(m)
        /\ left' = [left EXCEPT ![t] = @ - q, ![m] = @ - q]
        /\ tape' = [tape EXCEPT ![p] = Append(@,
               [taker |-> t, maker |-> m, qty |-> q, takerFilled |-> left[t] = q, makerFilled |-> left[m] = q])]
        /\ EmitFill(p, Notification(p, Len(tape[p]) + 1, epoch))
        /\ UNCHANGED <<walletVars, reservations, stage, mark, bridge, position, depVars, histVars, epoch>>

\* A goroutine of emitFill finds room, or ten milliseconds pass; it gives up
\* after its last try.
SpillSends(s) ==
    LET p == s.fill.pair IN
    /\ Len(chan[p]) < FillsCap
    /\ chan' = [chan EXCEPT ![p] = Append(@, s.fill)]
    /\ spilled' = spilled \ {s}
    /\ Lapse("late")
    /\ UNCHANGED <<walletVars, reservations, orderVars, engineVars, bridge, position, depVars, moved, lost, trouble, epoch>>

SpillWaits(s) ==
    /\ IF s.tries > 1
       THEN spilled' = (spilled \ {s}) \cup {[s EXCEPT !.tries = @ - 1]} /\ UNCHANGED lost
       ELSE spilled' = spilled \ {s} /\ lost' = lost \cup {<<s.fill.pair, s.fill.n>>}
    /\ UNCHANGED <<walletVars, reservations, orderVars, engineVars, chan, bridge, position, depVars, moved, lapses, trouble, epoch>>

\* SnapshotAll: the fills of the orders it holds are not replayed any more.
Snapshot(p) ==
    /\ mark[p] < Len(tape[p])
    /\ mark' = [mark EXCEPT ![p] = Len(tape[p])]
    /\ UNCHANGED <<walletVars, reservations, orderVars, tape, fillVars, bridge, position, depVars, histVars, epoch>>

-------------------------------------------------------------------------------
(* The bridge: consumeFills, one fill at a time.                            *)

Idle == [at |-> "idle"]

Fill(f) == tape[f.pair][f.n]

Buyer(x)  == IF Ticket[x.taker].side = "Buy" THEN x.taker ELSE x.maker
Seller(x) == IF Ticket[x.taker].side = "Buy" THEN x.maker ELSE x.taker

Notional(x) == Ticket[x.maker].price * x.qty

FeeOf(o, x) == Notional(x) * IF o = x.taker THEN TakerRate ELSE MakerRate

\* The buyer pays the notional and a fee, the seller receives it less a fee;
\* no account receives the fees.
BuyerDebit(x)   == Notional(x) * Scale + FeeOf(Buyer(x), x)
SellerCredit(x) == Notional(x) * Scale - FeeOf(Seller(x), x)

\* What a fill takes from a reservation: no more than remains of it.
FromReservation(o, amt) == Min({amt, reservations[o]})

\* SettleFill until the store is asked: the reservations are reduced.
BeginSettle(p) ==
    LET f == Head(chan[p])
        x == Fill(f)
        fromBuyer  == FromReservation(Buyer(x), BuyerDebit(x))
        fromSeller == FromReservation(Seller(x), x.qty)
    IN  /\ bridge[p] = Idle /\ chan[p] # <<>>
        /\ chan' = [chan EXCEPT ![p] = Tail(@)]
        /\ reservations' = [reservations EXCEPT ![Buyer(x)] = @ - fromBuyer,
                                                ![Seller(x)] = @ - fromSeller]
        /\ bridge' = [bridge EXCEPT ![p] =
               [at |-> "settle", fill |-> f, fromBuyer |-> fromBuyer, fromSeller |-> fromSeller]]
        /\ UNCHANGED <<walletVars, orderVars, engineVars, spilled, position, depVars, histVars, epoch>>

-------------------------------------------------------------------------------
(* The movements of the ledger.                                             *)

\* A delivery of a fill carries what SettleFill is told.
Delivery(f) == [kind |-> "fill", of |-> f, fill |-> Fill(f)]

Credit(d) == [kind |-> "deposit", of |-> d]

Changes(x, a) ==
    LET b == Buyer(x)  s == Seller(x)  p == Ticket[x.taker].pair IN
      (IF a = <<User(b), Quote[p]>> THEN -BuyerDebit(x) ELSE 0)
    + (IF a = <<User(b), Base[p]>>  THEN x.qty ELSE 0)
    + (IF a = <<User(s), Base[p]>>  THEN -x.qty ELSE 0)
    + (IF a = <<User(s), Quote[p]>> THEN SellerCredit(x) ELSE 0)

ChangesWithoutSeller(x, a) ==
    LET b == Buyer(x)  p == Ticket[x.taker].pair IN
      (IF a = <<User(b), Quote[p]>> THEN -BuyerDebit(x) ELSE 0)
    + (IF a = <<User(b), Base[p]>>  THEN x.qty ELSE 0)

AppliedInPart(x) == [a \in Accounts |-> balance[a] + ChangesWithoutSeller(x, a)]

\* The operations of SettleFill, one transaction of the store.  An update that
\* finds no row changes nothing and is no error.
Applied(x) == [a \in Accounts |-> IF a \in rows THEN balance[a] + Changes(x, a) ELSE balance[a]]

UnlockedFor(b) ==
    LET x == Fill(b.fill)
        cost  == <<User(Buyer(x)), Quote[b.fill.pair]>>
        goods == <<User(Seller(x)), Base[b.fill.pair]>>
    IN  [locked EXCEPT ![cost] = Unlocked(cost, b.fromBuyer), ![goods] = Unlocked(goods, b.fromSeller)]

Restored(b) ==
    LET x == Fill(b.fill) IN
    [reservations EXCEPT ![Buyer(x)] = @ + b.fromBuyer, ![Seller(x)] = @ + b.fromSeller]

Flat == [qty |-> 0, cost |-> 0]

\* updateUser: the cost follows every fill, a closing one too, and starts again
\* when nothing is held.  The source keeps cost / qty.
Traded(pos, qty, price) ==
    IF pos.qty + qty = 0 THEN Flat
    ELSE [qty |-> pos.qty + qty, cost |-> pos.cost + qty * price]

Price(x) == Ticket[x.maker].price

RecordTakerOnly(x) ==
    LET b == <<User(x.taker), Base[Ticket[x.taker].pair]>> IN
    position' = [position EXCEPT ![b] = Traded(@, IF Ticket[x.taker].side = "Buy" THEN x.qty ELSE -x.qty, Price(x))]

\* RecordFill: both positions move whatever became of the settlement.
RecordFill(x) ==
    LET b == <<User(Buyer(x)), Base[Ticket[x.taker].pair]>>
        s == <<User(Seller(x)), Base[Ticket[x.taker].pair]>>
    IN  position' = [position EXCEPT ![b] = Traded(@, x.qty, Price(x)),
                                     ![s] = Traded(@, -x.qty, Price(x))]

\* The store commits, fails, or commits and reports a failure; the last two
\* restore the reservations, and nobody tries the fill again.
Settle(p) ==
    LET b == bridge[p]  x == Fill(b.fill) IN
    /\ b.at = "settle"
    /\ \/ /\ balance' = Applied(x) /\ locked' = UnlockedFor(b)
          /\ moved' = moved \cup {Delivery(b.fill)}
          /\ UNCHANGED <<reservations, lost, lapses, trouble>>
       \/ /\ Trouble /\ Lapse("unsettled")
          /\ reservations' = Restored(b)
          /\ lost' = lost \cup {<<p, b.fill.n>>}
          /\ UNCHANGED <<balance, locked, moved>>
       \/ /\ Trouble /\ Lapse("commit")
          /\ balance' = Applied(x) /\ locked' = UnlockedFor(b)
          /\ moved' = moved \cup {Delivery(b.fill)}
          /\ reservations' = Restored(b)
          /\ UNCHANGED lost
    /\ RecordFill(x)
    /\ bridge' = [bridge EXCEPT ![p] = [at |-> "taker", fill |-> b.fill]]
    /\ UNCHANGED <<rows, orderVars, engineVars, fillVars, depVars, epoch>>

\* The orders that the fill used up are released, the taker's first.
ReleaseTaker(p) ==
    LET b == bridge[p]  x == Fill(b.fill) IN
    /\ b.at = "taker"
    /\ IF x.takerFilled THEN ReleaseOrder(x.taker)
                        ELSE UNCHANGED <<locked, reservations, lapses, trouble>>
    /\ bridge' = [bridge EXCEPT ![p] = [b EXCEPT !.at = "maker"]]
    /\ UNCHANGED <<rows, balance, orderVars, engineVars, fillVars, position, depVars, moved, lost, epoch>>

ReleaseMaker(p) ==
    LET b == bridge[p]  x == Fill(b.fill) IN
    /\ b.at = "maker"
    /\ IF x.makerFilled THEN ReleaseOrder(x.maker)
                        ELSE UNCHANGED <<locked, reservations, lapses, trouble>>
    /\ bridge' = [bridge EXCEPT ![p] = Idle]
    /\ UNCHANGED <<rows, balance, orderVars, engineVars, fillVars, position, depVars, moved, lost, epoch>>

-------------------------------------------------------------------------------
(* Deposits: look the hash up, find or create the wallet row, credit it,     *)
(* record the hash.                                                         *)

HashOf(d) == Deposit[d].hash

AccountOf(d) == <<Deposit[d].user, Deposit[d].asset>>

Busy == {"checked", "missing", "found", "ghost", "credited"}

DepositMoves(d, to) == dep' = [dep EXCEPT ![d] = to]

BeginUnchecked(d) ==
    /\ dep[d] = "new"
    /\ DepositMoves(d, "checked")
    /\ UNCHANGED <<walletVars, reservations, orderVars, engineVars, fillVars, bridge, position, recorded, moved, lost, lapses, trouble, epoch>>

BeginDeposit(d) ==
    /\ dep[d] = "new"
    /\ DepositMoves(d, IF HashOf(d) \in recorded THEN "done" ELSE "checked")
    /\ lapses' = lapses \cup (IF \E e \in Deposits \ {d} : HashOf(e) = HashOf(d) /\ dep[e] \in Busy
                              THEN {"overlap"} ELSE {})
    /\ UNCHANGED <<walletVars, reservations, orderVars, engineVars, fillVars, bridge, position, recorded, moved, lost, trouble, epoch>>

\* GetWallet: any error is taken for a missing row.
FindWallet(d) ==
    /\ dep[d] = "checked"
    /\ \/ DepositMoves(d, IF AccountOf(d) \in rows THEN "found" ELSE "missing") /\ UNCHANGED trouble
       \/ AccountOf(d) \in rows /\ Trouble /\ DepositMoves(d, "missing")
    /\ UNCHANGED <<walletVars, reservations, orderVars, engineVars, fillVars, bridge, position, recorded, moved, lost, lapses, epoch>>

\* SaveWallet: an existing row stays as it is, and the request goes on with the
\* identity of a wallet that was not stored.
CreateWallet(d) ==
    /\ dep[d] = "missing"
    /\ DepositMoves(d, IF AccountOf(d) \in rows THEN "ghost" ELSE "found")
    /\ rows' = rows \cup {AccountOf(d)}
    /\ UNCHANGED <<balance, locked, reservations, orderVars, engineVars, fillVars, bridge, position, recorded, moved, lost, lapses, trouble, epoch>>

\* UpdateBalance finds its row by that identity.  A failure may come before the
\* commit or after it; either way the hash is not recorded.
CreditDeposit(d) ==
    /\ dep[d] = "found"
    /\ \/ /\ DepositMoves(d, "credited")
          /\ balance' = [balance EXCEPT ![AccountOf(d)] = @ + Deposit[d].amount]
          /\ moved' = moved \cup {Credit(d)}
          /\ UNCHANGED <<lapses, trouble>>
       \/ /\ DepositMoves(d, "done") /\ Trouble /\ Lapse("unrecorded")
          /\ balance' = [balance EXCEPT ![AccountOf(d)] = @ + Deposit[d].amount]
          /\ moved' = moved \cup {Credit(d)}
       \/ /\ DepositMoves(d, "done") /\ Trouble
          /\ UNCHANGED <<balance, moved, lapses>>
    /\ UNCHANGED <<rows, locked, reservations, orderVars, engineVars, fillVars, bridge, position, recorded, lost, epoch>>

\* No row has a ghost's identity: nothing is credited, and the transaction row,
\* which refers to the wallet's, is refused.
CreditGhost(d) ==
    /\ dep[d] = "ghost"
    /\ DepositMoves(d, "done")
    /\ UNCHANGED <<walletVars, reservations, orderVars, engineVars, fillVars, bridge, position, recorded, histVars, epoch>>

\* Without its row a deposit that was credited can be credited again.
RecordDeposit(d) ==
    /\ dep[d] = "credited"
    /\ DepositMoves(d, "done")
    /\ \/ recorded' = recorded \cup {HashOf(d)} /\ UNCHANGED <<lapses, trouble>>
       \/ Trouble /\ Lapse("unrecorded") /\ UNCHANGED recorded
    /\ UNCHANGED <<walletVars, reservations, orderVars, engineVars, fillVars, bridge, position, moved, lost, epoch>>

-------------------------------------------------------------------------------
(* What GET /account/pnl shows.                                             *)

\* userBalances: the assets of the wallet rows; a position in another asset has
\* no reference price.
HeldAssets(u) == {a \in Assets : <<u, a>> \in rows}

ReferencePrices(u, price) == [a \in HeldAssets(u) \cap DOMAIN price |-> price[a]]

\* Summary: each position that has a reference price, against what it cost.
Unrealized(u, refs) ==
    SumFunctionOnSet([a \in DOMAIN refs |-> position[<<u, a>>].qty * refs[a] - position[<<u, a>>].cost],
                     DOMAIN refs)

\* The handler: the rows, the prices the feed has, the tracker.
GetPnL(u, price) == Unrealized(u, ReferencePrices(u, price))

-------------------------------------------------------------------------------
(* The gateway dies and starts again.                                       *)

Settled(p, n) == \E m \in moved : m.kind = "fill" /\ m.of.pair = p /\ m.of.n = n

ReplayedOneMore(p) == [i \in 1..(Len(tape[p]) - mark[p] + 1) |-> Notification(p, mark[p] + i, epoch + 1)]

Replayed(p) == [i \in 1..(Len(tape[p]) - mark[p]) |-> Notification(p, mark[p] + i, epoch + 1)]

Crash ==
    /\ Trouble
    /\ epoch' = epoch + 1
    /\ Lapse("crash")
    /\ reservations' = [o \in Orders |-> 0]
    /\ position' = [x \in Accounts |-> Flat]
    /\ bridge' = [p \in Pairs |-> Idle]
    /\ dep' = [d \in Deposits |-> IF dep[d] = "new" THEN "new" ELSE "done"]
    /\ stage' = [o \in Orders |-> IF stage[o] = "reserved" THEN "over" ELSE stage[o]]
    /\ chan' = [p \in Pairs |-> SubSeq(Replayed(p), 1, Min({FillsCap, Len(Replayed(p))}))]
    /\ spilled' = UNION {{[fill |-> Replayed(p)[i], tries |-> Tries] : i \in (FillsCap + 1)..Len(Replayed(p))} : p \in Pairs}
    /\ lost' = lost \cup {x \in Pairs \X (1..Max({Len(tape[p]) : p \in Pairs})) :
                             x[2] <= mark[x[1]] /\ ~Settled(x[1], x[2])}
    /\ UNCHANGED <<walletVars, left, engineVars, recorded, moved>>

-------------------------------------------------------------------------------
Init ==
    /\ rows = Funded /\ balance = Opening
    /\ locked = [x \in Accounts |-> 0]
    /\ recorded = {}
    /\ reservations = [o \in Orders |-> 0]
    /\ \E w \in Workloads :
           /\ stage = [o \in Orders |-> IF o \in w.orders THEN "new" ELSE "over"]
           /\ dep = [d \in Deposits |-> IF d \in w.deposits THEN "new" ELSE "done"]
           /\ trouble = w.trouble
    /\ left = [o \in Orders |-> Ticket[o].qty]
    /\ tape = [p \in Pairs |-> <<>>] /\ mark = [p \in Pairs |-> 0]
    /\ chan = [p \in Pairs |-> <<>>] /\ spilled = {}
    /\ bridge = [p \in Pairs |-> Idle]
    /\ position = [x \in Accounts |-> Flat]
    /\ moved = {} /\ lost = {} /\ lapses = {}
    /\ epoch = 0

ClientStep == \E o \in Orders : ReserveOrder(o) \/ Submit(o) \/ Cancel(o)

DepositStep == \E d \in Deposits :
    \/ BeginDeposit(d) \/ FindWallet(d) \/ CreateWallet(d)
    \/ CreditDeposit(d) \/ CreditGhost(d) \/ RecordDeposit(d)

EngineStep ==
    \/ \E t, m \in Orders : Execute(t, m)
    \/ \E p \in Pairs : Snapshot(p)

SpillStep == \E s \in spilled : SpillSends(s) \/ SpillWaits(s)

BridgeStep(p) == BeginSettle(p) \/ Settle(p) \/ ReleaseTaker(p) \/ ReleaseMaker(p)

Next ==
    \/ ClientStep \/ DepositStep \/ EngineStep \/ SpillStep
    \/ \E p \in Pairs : BridgeStep(p)
    \/ Crash

Spec == Init /\ [][Next]_vars

\* The bridge and the goroutines of emitFill never stop by themselves.
FairSpec == Spec /\ WF_vars(SpillStep) /\ \A p \in Pairs : WF_vars(BridgeStep(p))

-------------------------------------------------------------------------------
(* Properties.                                                              *)

Notifications == [pair : Pairs, n : Nat \ {0}, epoch : 0..MaxTrouble]

\* Types: every variable holds what the code can put there; a reservation never
\* becomes negative and a notification names a fill that was executed.
TypeOK ==
    /\ rows \subseteq Accounts
    /\ balance \in [Accounts -> Int] /\ locked \in [Accounts -> Nat]
    /\ reservations \in [Orders -> Nat] /\ left \in [Orders -> Nat]
    /\ stage \in [Orders -> {"new", "reserved", "live", "over"}]
    /\ \A p \in Pairs : /\ mark[p] \in 0..Len(tape[p])
                        /\ \A f \in Range(chan[p]) : f \in Notifications /\ f.n <= Len(tape[p])
                        /\ bridge[p].at \in {"idle", "settle", "taker", "maker"}
    /\ \A s \in spilled : s.fill \in Notifications /\ s.tries \in 1..Tries
    /\ position \in [Accounts -> [qty : Int, cost : Int]]
    /\ dep \in [Deposits -> Busy \cup {"new", "done"}]
    /\ epoch \in 0..MaxTrouble /\ trouble \in 0..MaxTrouble

ReservedOn(x) == SumFunctionOnSet(reservations, {o \in Orders : ReservedAccount(o) = x})

\* What the wallet service believes to be reserved is locked in the rows, for
\* all orders of an account together, unless a commit was reported as failed;
\* nothing else is locked while no fill is being settled and nothing has gone
\* wrong; and nobody spends what he does not have: reserving before trading keeps
\* the balance and what is available of it from becoming negative, unless an order
\* traded without a reservation, fills overtook each other in the channel or a
\* crash lost the reservations (SettleFill, ReleaseOrder, ReserveOrder).
ReservationsBacked ==
    \A x \in Accounts :
        LET reserved == ReservedOn(x) IN
        /\ "commit" \notin lapses => locked[x] >= reserved
        /\ lapses = {} /\ (\A p \in Pairs : bridge[p].at # "settle") => locked[x] = reserved
        /\ lapses \cap {"unreserved", "commit", "late", "crash"} = {} => locked[x] <= balance[x]

SignedQty(x, u) ==
    IF User(Buyer(x)) = u THEN x.qty ELSE IF User(Seller(x)) = u THEN -x.qty ELSE 0

\* The fills of a pair that have reached the ledger.
Reached(p) == {n \in DOMAIN tape[p] : Settled(p, n)}

\* What a user holds of them, up to number n.
Held(u, p, n) ==
    SumFunctionOnSet([i \in DOMAIN tape[p] |-> SignedQty(tape[p][i], u)], {i \in Reached(p) : i <= n})

\* Those since he last held nothing.
SinceFlat(u, p) == {i \in Reached(p) : \A k \in Reached(p) : i <= k => Held(u, p, k) # 0}

\* What he has paid for these, less what he received.
Paid(u, p) ==
    SumFunctionOnSet([i \in DOMAIN tape[p] |-> SignedQty(tape[p][i], u) * Price(tape[p][i])], SinceFlat(u, p))

Profit(u, p, price) == Held(u, p, Len(tape[p])) * price - Paid(u, p)

Reference == [a \in Range(Base) |-> 2]

PairOf(a) == CHOOSE p \in Pairs : Base[p] = a

Deposited(x) ==
    SumFunctionOnSet([d \in Deposits |-> Deposit[d].amount],
                     {d \in Deposits : Credit(d) \in moved /\ AccountOf(d) = x})

\* The position that the tracker shows is what the trades have added to the
\* wallet (RecordFill against SettleFill), unless a settlement failed or a crash
\* emptied the tracker; and the unrealized profit it shows, at any reference
\* price, is the value of what the user holds less what he has paid for it since
\* he last held nothing, sales between included, on the pairs whose asset has a
\* wallet row, unless fills overtook each other (Summary against the trades).
PositionsMatchWallets ==
    /\ lapses \cap {"unsettled", "crash"} = {} =>
          \A x \in Funded : x[2] \in Range(Base) =>
              position[x].qty = balance[x] - Opening[x] - Deposited(x)
    /\ lapses \cap {"unsettled", "crash", "late"} = {} =>
          \A u \in Users :
              LET shown == HeldAssets(u) \cap Range(Base) IN
              GetPnL(u, Reference) =
                  SumFunctionOnSet([a \in shown |-> Profit(u, PairOf(a), Reference[a])], shown)

\* A transaction hash is credited once (Deposit is "idempotent on txHash"),
\* unless two requests for it overlap, its row could not be written, or the
\* process died in between; and a recorded hash has been credited, whatever
\* happens, so that a depositor whose wallet row was created by someone else
\* meanwhile can try again.
DepositedOnce ==
    /\ lapses \cap {"overlap", "unrecorded", "crash"} = {} =>
          \A d, e \in Deposits : Credit(d) \in moved /\ Credit(e) \in moved /\ HashOf(d) = HashOf(e) => d = e
    /\ \A h \in recorded : \E d \in Deposits : HashOf(d) = h /\ Credit(d) \in moved

Change(m, a) ==
    IF m.kind = "fill" THEN Changes(m.fill, a)
    ELSE IF a = AccountOf(m.of) THEN Deposit[m.of].amount ELSE 0

Fills == [taker : Orders, maker : Orders, qty : Nat, takerFilled : BOOLEAN, makerFilled : BOOLEAN]

Book == INSTANCE Ledger WITH
    Accounts  <- Funded,
    Movements <- [kind : {"fill"}, of : Notifications, fill : Fills] \cup [kind : {"deposit"}, of : Deposits],
    Change    <- Change,
    balance   <- [x \in Funded |-> balance[x]]

\* Refinement: on the accounts that have a row, each delivery of a fill and each
\* deposit request moves all of its funds in one step and at most once, whatever
\* fails in between (SettleFill, Deposit).
ImplementsLedger == Book!Spec

\* A fill that is executed reaches the ledger, unless its goroutine gave it up,
\* its settlement failed, or a crash found it unsettled and in a snapshot.
FillsReachLedger ==
    <>[](\A p \in Pairs : \A n \in DOMAIN tape[p] : Settled(p, n) \/ <<p, n>> \in lost)

\* Documentation: "a replayed fill (e.g. after a restart that re-reads the
\* channel) is a no-op" (processedFills).
ReplayIsNoOp ==
    \A m, k \in moved : m.kind = "fill" /\ k.kind = "fill" /\ m.of.pair = k.of.pair /\ m.of.n = k.of.n => m = k

===============================================================================
