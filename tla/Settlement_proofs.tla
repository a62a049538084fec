--------------------------- MODULE Settlement_proofs ---------------------------
(***************************************************************************)
(* What is proved of Settlement, for every set of orders, pairs and        *)
(* deposits, every capacity of the channels and every number of failures   *)
(* and crashes.                                                            *)
(*                                                                         *)
(*   TypeCorrect               the types of the variables                  *)
(*   LedgerImplemented         Settlement implements Ledger                *)
(*   DepositsCreditedOnce      a transaction hash is credited once         *)
(*   ReservationsAlwaysBacked  reservations are locked, locks are covered  *)
(*   PositionsAlwaysMatch      positions match the wallets and the trades  *)
(*                                                                         *)
(* Each rests on an invariant of its own on top of TypeInv, the shape of   *)
(* the state.  LedgerInv says that a notification waits in one place, and  *)
(* nowhere any more once its fill has moved.  DepositsApart follows a hash *)
(* through its requests.  ReservationInv joins the tape (an order's fills  *)
(* add up to what it lost, TapeAdds), the order of the notifications       *)
(* (InOrder), what each order claims of its account, in its reservation or *)
(* with the bridge (Backed), and that a reservation covers whatever of its *)
(* order the bridge has not settled yet (Covered).  PositionInv says that  *)
(* fills move in the order of their tape (MovedInOrder), so that each one  *)
(* comes behind those a position already counts (OneFillMore).             *)
(***************************************************************************)
EXTENDS Settlement, SequenceTheorems, SumTheorems

-------------------------------------------------------------------------------
(* Shapes.                                                                   *)

\* A fill of pair p: two users' orders on it that cross.
IsFillOf(p, x) ==
    /\ Ticket[x.taker].pair = p
    /\ Crosses(x.taker, x.maker) /\ User(x.taker) # User(x.maker)
    /\ x.qty > 0

\* The fills of a pair are fills of its orders, and a snapshot covers the first of them.
TapeShape ==
    /\ tape \in [Pairs -> Seq(Fills)]
    /\ mark \in [Pairs -> Nat] /\ \A p \in Pairs : mark[p] <= Len(tape[p])
    /\ \A p \in Pairs : \A n \in 1..Len(tape[p]) : IsFillOf(p, tape[p][n])

\* A notification of pair p names a fill that was executed.
Names(p, f) == f \in Notifications /\ f.pair = p /\ f.n <= Len(tape[p]) /\ f.epoch <= epoch

\* A channel carries fills of its own pair.
ChanShape ==
    /\ chan \in [Pairs -> Seq(Notifications)]
    /\ \A p \in Pairs : \A i \in 1..Len(chan[p]) : Names(p, chan[p][i])

\* So do the goroutines that wait.
SpillShape ==
    \A s \in spilled : s \in [fill : Notifications, tries : 1..Tries] /\ Names(s.fill.pair, s.fill)

\* What the goroutine of a pair has between two of its calls.
BridgeStates ==
    {Idle} \cup [at : {"settle"}, fill : Notifications, fromBuyer : Nat, fromSeller : Nat]
           \cup [at : {"taker", "maker"}, fill : Notifications]

BridgeShape ==
    /\ bridge \in [Pairs -> BridgeStates]
    /\ \A p \in Pairs : bridge[p].at # "idle" => Names(p, bridge[p].fill)

Deliveries == [kind : {"fill"}, of : Notifications, fill : Fills]

Credits == [kind : {"deposit"}, of : Deposits]

\* What has moved is a deposit, or a fill that was executed.
MovedShape ==
    /\ moved \subseteq Deliveries \cup Credits
    /\ \A m \in moved : m.kind = "fill" => Names(m.of.pair, m.of)

Shape == TapeShape /\ ChanShape /\ SpillShape /\ BridgeShape /\ MovedShape

-------------------------------------------------------------------------------
\* The bridge of pair p has a fill to settle.
Settling(p) == bridge[p].at = "settle"

\* A notification is in its channel once.
OnceInChan ==
    \A p \in Pairs : \A i, j \in 1..Len(chan[p]) : chan[p][i] = chan[p][j] => i = j

\* It waits with one goroutine, or in the channel.
OnceSpilled ==
    /\ \A r, s \in spilled : r.fill = s.fill => r = s
    /\ \A s \in spilled : \A i \in 1..Len(chan[s.fill.pair]) : chan[s.fill.pair][i] # s.fill

\* It is nowhere else while the bridge has it.
OnceSettling ==
    \A p \in Pairs : Settling(p) =>
        /\ \A i \in 1..Len(chan[p]) : chan[p][i] # bridge[p].fill
        /\ \A s \in spilled : s.fill # bridge[p].fill

\* It is nowhere any more when its fill has moved.
NotYetMoved ==
    \A m \in moved : m.kind = "fill" =>
        /\ \A i \in 1..Len(chan[m.of.pair]) : chan[m.of.pair][i] # m.of
        /\ \A s \in spilled : s.fill # m.of
        /\ Settling(m.of.pair) => bridge[m.of.pair].fill # m.of

\* A request that has credited its deposit does not come back to it.
CreditsOnce == \A d \in Deposits : Credit(d) \in moved => dep[d] \in {"credited", "done"}

-------------------------------------------------------------------------------
\* None of these has happened.
NoneOf(L) == lapses \cap L = {}

\* After which a hash may be credited twice.
DepositLapses == {"overlap", "unrecorded", "crash"}

\* The requests of one hash: one at a time, and none once it is credited.
DepositsApart ==
    NoneOf(DepositLapses) =>
        /\ \A d, e \in Deposits : dep[d] \in Busy /\ dep[e] \in Busy /\ HashOf(d) = HashOf(e) => d = e
        /\ \A d \in Deposits : dep[d] \in Busy => HashOf(d) \notin recorded
        /\ \A d \in Deposits : Credit(d) \in moved => dep[d] = "credited" \/ HashOf(d) \in recorded
        /\ \A d, e \in Deposits : Credit(d) \in moved /\ Credit(e) \in moved /\ HashOf(d) = HashOf(e) => d = e

-------------------------------------------------------------------------------
\* What the settlement under way has taken from the reservation of an order.
Taken(o) ==
    LET b == bridge[Ticket[o].pair]  x == Fill(b.fill) IN
    IF b.at # "settle" THEN 0
    ELSE IF o = Buyer(x) THEN b.fromBuyer
    ELSE IF o = Seller(x) THEN b.fromSeller ELSE 0

\* What an order has of its account's lock: its reservation, and what the bridge took of it.
Claims == [o \in Orders |-> reservations[o] + Taken(o)]

OrdersOn(x) == {o \in Orders : ReservedAccount(o) = x}

ClaimedOn(x) == SumFunctionOnSet(Claims, OrdersOn(x))

\* The lock of an account holds all claims on it.
BackedAt(x) ==
    /\ "commit" \notin lapses => locked[x] >= ClaimedOn(x)
    /\ lapses = {} => locked[x] = ClaimedOn(x)

Backed == \A x \in Accounts : BackedAt(x)

\* An order that has not traded is whole, one that has is not, and a new one has nothing reserved.
Fresh ==
    /\ \A o \in Orders : left[o] <= Ticket[o].qty
    /\ \A o \in Orders : stage[o] \in {"new", "reserved"} => left[o] = Ticket[o].qty
    /\ \A o \in Orders : stage[o] = "new" => reservations[o] = 0
    /\ \A p \in Pairs : \A n \in 1..Len(tape[p]) :
           \A o \in {tape[p][n].taker, tape[p][n].maker} : stage[o] \in {"live", "over"} /\ left[o] < Ticket[o].qty

-------------------------------------------------------------------------------
\* The quantity that fill number n of an order's pair takes of it.
Part(o, n) ==
    LET x == tape[Ticket[o].pair][n] IN IF o \in {x.taker, x.maker} THEN x.qty ELSE 0

Parts(o) == [n \in 1..Len(tape[Ticket[o].pair]) |-> Part(o, n)]

FilledBy(o, n) == SumFunctionOnSet(Parts(o), 1..n)

\* The fill uses the order up.
Uses(o, x) == (o = x.taker /\ x.takerFilled) \/ (o = x.maker /\ x.makerFilled)

\* The fills of an order add up to what it has lost, and to all of it when one uses it up.
TapeAdds ==
    \A o \in Orders :
        /\ FilledBy(o, Len(tape[Ticket[o].pair])) = Ticket[o].qty - left[o]
        /\ \A n \in 1..Len(tape[Ticket[o].pair]) :
               Uses(o, tape[Ticket[o].pair][n]) => FilledBy(o, n) = Ticket[o].qty

\* The fills of a pair that have left its channel.
Gone(p) == IF chan[p] = <<>> THEN Len(tape[p]) ELSE chan[p][1].n - 1

\* After which a fill may cost more than is reserved for it.
OrderLapses == {"unreserved", "commit", "late", "crash"}

\* The fills of a pair are settled in the order they were executed in, unless one comes late.
InOrderAt(p) ==
    /\ \A i, j \in 1..Len(chan[p]) : i < j => chan[p][i].n < chan[p][j].n
    /\ bridge[p].at # "idle" => \A i \in 1..Len(chan[p]) : bridge[p].fill.n < chan[p][i].n

InOrder == NoneOf({"late", "crash"}) => \A p \in Pairs : InOrderAt(p)

\* What is reserved for one unit of an order's quantity.
UnitOf(o) == IF Ticket[o].side = "Buy" THEN Ticket[o].price * (Scale + TakerRate) ELSE 1

\* The order may have fills that are not settled, now or later.
Placed(o) == stage[o] \in {"reserved", "live"} \/ left[o] # Ticket[o].qty

\* Its reservation covers all of it that the bridge has not taken out of the channel.
CoveredAt(o) ==
    Placed(o) =>
        /\ IsReserved(o)
        /\ reservations[o] >= (Ticket[o].qty - FilledBy(o, Gone(Ticket[o].pair))) * UnitOf(o)

\* The bridge took from the reservations all that its fill moves.
TakenInFull(p) ==
    Settling(p) => /\ bridge[p].fromBuyer = BuyerDebit(Fill(bridge[p].fill))
                   /\ bridge[p].fromSeller = Fill(bridge[p].fill).qty

Covered == NoneOf(OrderLapses) => (\A o \in Orders : CoveredAt(o)) /\ (\A p \in Pairs : TakenInFull(p))

\* What is locked is locked on a wallet row.
LockedRows == \A x \in Accounts : locked[x] > 0 => x \in rows

\* Nobody has more locked than he has.
Solvent == NoneOf(OrderLapses) => \A x \in Accounts : locked[x] <= balance[x]

-------------------------------------------------------------------------------
\* The smaller of two numbers.
LEMMA MinOfTwo ==
    ASSUME NEW a \in Int, NEW b \in Int
    PROVE  Min({a, b}) = IF a <= b THEN a ELSE b
<1> DEFINE c == IF a <= b THEN a ELSE b
<1>1. c \in {a, b} /\ \A y \in {a, b} : c <= y
  OBVIOUS
<1>2. \A x \in {a, b} : (\A y \in {a, b} : x <= y) => x = c
  OBVIOUS
<1> QED  BY <1>1, <1>2 DEF Min

\* Products of natural numbers.
LEMMA ProductType == \A a, b \in Nat : a * b \in Nat
OBVIOUS

\* A product grows with its factor.
LEMMA ProductMonotone == ASSUME NEW a \in Nat, NEW b \in Nat, NEW c \in Nat, a <= b PROVE a * c <= b * c
<1>1. (b - a) \in Nat
  OBVIOUS
<1>2. (b - a) * c \in Nat
  BY <1>1, ProductType
<1>3. b * c = a * c + (b - a) * c
  OBVIOUS
<1>4. a * c \in Nat /\ b * c \in Nat
  BY ProductType
<1> QED  BY <1>2, <1>3, <1>4

\* What an order asks for.
LEMMA TicketType ==
    ASSUME NEW o \in Orders
    PROVE  /\ Ticket[o].user \in Users /\ Ticket[o].pair \in Pairs /\ Ticket[o].side \in {"Buy", "Sell"}
           /\ Ticket[o].price \in Nat /\ Ticket[o].qty \in Nat /\ Ticket[o].qty > 0
           /\ Base[Ticket[o].pair] \in Assets /\ Quote[Ticket[o].pair] \in Assets
           /\ ReservedAccount(o) \in Accounts /\ AmountToReserve(o) \in Nat
<1>1. /\ Ticket[o].user \in Users /\ Ticket[o].pair \in Pairs /\ Ticket[o].side \in {"Buy", "Sell"}
      /\ Ticket[o].price \in Nat /\ Ticket[o].qty \in Nat /\ Ticket[o].qty > 0
  BY SettlementAssumption
<1>2. Base[Ticket[o].pair] \in Assets /\ Quote[Ticket[o].pair] \in Assets
  BY <1>1, SettlementAssumption
<1>3. Scale + TakerRate \in Nat
  BY SettlementAssumption
<1>4. AmountToReserve(o) \in Nat
  BY <1>1, <1>3, ProductType DEF AmountToReserve
<1>5. ReservedAccount(o) \in Accounts
  BY <1>1, <1>2 DEF ReservedAccount, ReservedAsset, User, Accounts
<1> QED  BY <1>1, <1>2, <1>4, <1>5

\* The two sides of a fill, and what it moves.
LEMMA FillParts ==
    ASSUME NEW p \in Pairs, NEW x \in Fills, IsFillOf(p, x)
    PROVE  /\ Buyer(x) \in Orders /\ Seller(x) \in Orders /\ Buyer(x) # Seller(x)
           /\ {Buyer(x), Seller(x)} = {x.taker, x.maker}
           /\ Ticket[Buyer(x)].side = "Buy" /\ Ticket[Seller(x)].side = "Sell"
           /\ Ticket[Buyer(x)].pair = p /\ Ticket[Seller(x)].pair = p /\ Ticket[x.taker].pair = p
           /\ User(Buyer(x)) # User(Seller(x))
           /\ ReservedAccount(Buyer(x)) = <<User(Buyer(x)), Quote[p]>>
           /\ ReservedAccount(Seller(x)) = <<User(Seller(x)), Base[p]>>
           /\ x.qty \in Nat /\ BuyerDebit(x) \in Nat /\ SellerCredit(x) \in Nat
<1>1. x.taker \in Orders /\ x.maker \in Orders /\ x.qty \in Nat
  BY DEF Fills
<1>2. /\ Ticket[x.taker].pair = p /\ Ticket[x.maker].pair = p
      /\ Ticket[x.taker].side # Ticket[x.maker].side /\ User(x.taker) # User(x.maker)
  BY DEF IsFillOf, Crosses
<1>3. Ticket[x.taker].side \in {"Buy", "Sell"} /\ Ticket[x.maker].side \in {"Buy", "Sell"}
  BY <1>1, TicketType
<1>4. /\ Buyer(x) \in Orders /\ Seller(x) \in Orders /\ Buyer(x) # Seller(x)
      /\ {Buyer(x), Seller(x)} = {x.taker, x.maker}
      /\ Ticket[Buyer(x)].side = "Buy" /\ Ticket[Seller(x)].side = "Sell"
      /\ Ticket[Buyer(x)].pair = p /\ Ticket[Seller(x)].pair = p
      /\ User(Buyer(x)) # User(Seller(x))
  BY <1>1, <1>2, <1>3 DEF Buyer, Seller
<1>5. /\ ReservedAccount(Buyer(x)) = <<User(Buyer(x)), Quote[p]>>
      /\ ReservedAccount(Seller(x)) = <<User(Seller(x)), Base[p]>>
  BY <1>4 DEF ReservedAccount, ReservedAsset
<1>6. Notional(x) \in Nat
  BY <1>1, TicketType, ProductType DEF Notional
<1>7. Scale \in Nat /\ TakerRate \in Nat /\ MakerRate \in Nat /\ MakerRate <= Scale /\ TakerRate <= Scale
  BY SettlementAssumption
<1>8. ASSUME NEW o PROVE FeeOf(o, x) \in Nat /\ FeeOf(o, x) <= Notional(x) * Scale
  <2> DEFINE rate == IF o = x.taker THEN TakerRate ELSE MakerRate
  <2>1. rate \in Nat /\ rate <= Scale
    BY <1>7
  <2>2. FeeOf(o, x) = Notional(x) * rate
    BY DEF FeeOf
  <2> HIDE DEF rate
  <2>3. rate * Notional(x) <= Scale * Notional(x) /\ rate * Notional(x) \in Nat
    BY <1>6, <1>7, <2>1, ProductMonotone, ProductType
  <2>4. rate * Notional(x) = Notional(x) * rate /\ Scale * Notional(x) = Notional(x) * Scale
    BY <1>6, <1>7, <2>1
  <2> QED  BY <2>2, <2>3, <2>4
<1>9. Notional(x) * Scale \in Nat
  BY <1>6, <1>7, ProductType
<1>10. BuyerDebit(x) \in Nat /\ SellerCredit(x) \in Nat
  BY <1>8, <1>9 DEF BuyerDebit, SellerCredit
<1> QED  BY <1>1, <1>2, <1>4, <1>5, <1>10

\* A notification in hand names a fill with two sides.
LEMMA FillNamed ==
    ASSUME TapeShape, NEW p \in Pairs, NEW f, Names(p, f)
    PROVE  Fill(f) \in Fills /\ IsFillOf(p, Fill(f)) /\ f.pair = p /\ f \in Notifications
<1>1. f.pair = p /\ f.n \in 1..Len(tape[p]) /\ tape[p] \in Seq(Fills)
  BY DEF Names, Notifications, TapeShape
<1>2. tape[p][f.n] \in Fills
  BY <1>1, ElementOfSeq
<1> QED  BY <1>1, <1>2 DEF Fill, TapeShape, Names

\* What went wrong is never forgotten.
LEMMA LapsesGrow == [Next]_vars => lapses \subseteq lapses'
<1> SUFFICES ASSUME [Next]_vars PROVE lapses \subseteq lapses'
  OBVIOUS
<1> USE DEF walletVars, orderVars, engineVars, fillVars, depVars, histVars
<1>1. ASSUME NEW o \in Orders, ReserveOrder(o) PROVE lapses \subseteq lapses'
  BY <1>1 DEF ReserveOrder, Trouble, Lapse
<1>2. ASSUME NEW o \in Orders, Submit(o) PROVE lapses \subseteq lapses'
  BY <1>2 DEF Submit, Lapse
<1>3. ASSUME NEW o \in Orders, Cancel(o) PROVE lapses \subseteq lapses'
  BY <1>3 DEF Cancel
<1>4. ASSUME NEW d \in Deposits, BeginDeposit(d) PROVE lapses \subseteq lapses'
  BY <1>4 DEF BeginDeposit, DepositMoves
<1>5. ASSUME NEW d \in Deposits, FindWallet(d) PROVE lapses \subseteq lapses'
  BY <1>5 DEF FindWallet, DepositMoves, Trouble
<1>6. ASSUME NEW d \in Deposits, CreateWallet(d) PROVE lapses \subseteq lapses'
  BY <1>6 DEF CreateWallet, DepositMoves
<1>7. ASSUME NEW d \in Deposits, CreditDeposit(d) PROVE lapses \subseteq lapses'
  BY <1>7 DEF CreditDeposit, DepositMoves, Trouble, Lapse
<1>8. ASSUME NEW d \in Deposits, CreditGhost(d) PROVE lapses \subseteq lapses'
  BY <1>8 DEF CreditGhost, DepositMoves
<1>9. ASSUME NEW d \in Deposits, RecordDeposit(d) PROVE lapses \subseteq lapses'
  BY <1>9 DEF RecordDeposit, DepositMoves, Trouble, Lapse
<1>10. ASSUME NEW t \in Orders, NEW m \in Orders, Execute(t, m) PROVE lapses \subseteq lapses'
  BY <1>10 DEF Execute, EmitFill
<1>11. ASSUME NEW p \in Pairs, Snapshot(p) PROVE lapses \subseteq lapses'
  BY <1>11 DEF Snapshot
<1>12. ASSUME NEW s \in spilled, SpillSends(s) PROVE lapses \subseteq lapses'
  BY <1>12 DEF SpillSends, Lapse
<1>13. ASSUME NEW s \in spilled, SpillWaits(s) PROVE lapses \subseteq lapses'
  BY <1>13 DEF SpillWaits
<1>14. ASSUME NEW p \in Pairs, BeginSettle(p) PROVE lapses \subseteq lapses'
  BY <1>14 DEF BeginSettle
<1>15. ASSUME NEW p \in Pairs, Settle(p) PROVE lapses \subseteq lapses'
  BY <1>15 DEF Settle, Trouble, Lapse
<1>16. ASSUME NEW p \in Pairs, ReleaseTaker(p) PROVE lapses \subseteq lapses'
  BY <1>16 DEF ReleaseTaker, ReleaseOrder, Trouble, Lapse
<1>17. ASSUME NEW p \in Pairs, ReleaseMaker(p) PROVE lapses \subseteq lapses'
  BY <1>17 DEF ReleaseMaker, ReleaseOrder, Trouble, Lapse
<1>18. ASSUME Crash PROVE lapses \subseteq lapses'
  BY <1>18 DEF Crash, Trouble, Lapse
<1>19. CASE UNCHANGED vars
  BY <1>19 DEF vars
<1> QED
  BY <1>1, <1>2, <1>3, <1>4, <1>5, <1>6, <1>7, <1>8, <1>9, <1>10, <1>11, <1>12,
<1>13, <1>14, <1>15, <1>16, <1>17, <1>18, <1>19 DEF Next, ClientStep,
DepositStep, EngineStep, SpillStep, BridgeStep

-------------------------------------------------------------------------------
(* Types.                                                                    *)
WalletTypes ==
    /\ rows \subseteq Accounts /\ Funded \subseteq rows
    /\ balance \in [Accounts -> Int] /\ locked \in [Accounts -> Nat]
    /\ reservations \in [Orders -> Nat]

PlainTypes ==
    /\ left \in [Orders -> Nat] /\ stage \in [Orders -> {"new", "reserved", "live", "over"}]
    /\ position \in [Accounts -> [qty : Int, cost : Int]]
    /\ dep \in [Deposits -> Busy \cup {"new", "done"}]
    /\ epoch \in Nat /\ trouble \in Nat /\ epoch + trouble <= MaxTrouble

TypeInv == WalletTypes /\ PlainTypes /\ Shape

\* The fill that a bridge has in hand.
LEMMA BridgeFill ==
    ASSUME Shape, NEW p \in Pairs, bridge[p].at # "idle"
    PROVE  /\ Fill(bridge[p].fill) \in Fills /\ IsFillOf(p, Fill(bridge[p].fill))
           /\ bridge[p].fill \in Notifications /\ bridge[p].fill.pair = p /\ Names(p, bridge[p].fill)
           /\ bridge[p].at = "settle" => bridge[p].fromBuyer \in Nat /\ bridge[p].fromSeller \in Nat
           /\ bridge[p].at # "settle" => bridge[p] \in [at : {"taker", "maker"}, fill : Notifications]
<1>1. Names(p, bridge[p].fill) /\ bridge[p] \in BridgeStates
  BY DEF Shape, BridgeShape
<1>2. Idle.at = "idle"
  BY DEF Idle
<1>3. /\ bridge[p].at = "settle" => bridge[p].fromBuyer \in Nat /\ bridge[p].fromSeller \in Nat
      /\ bridge[p].at # "settle" => bridge[p] \in [at : {"taker", "maker"}, fill : Notifications]
  BY <1>1, <1>2 DEF BridgeStates
<1> QED  BY <1>1, <1>3, FillNamed DEF Shape

\* The fill that a bridge takes next.
LEMMA HeadFill ==
    ASSUME Shape, NEW p \in Pairs, chan[p] # <<>>
    PROVE  /\ chan[p] \in Seq(Notifications) /\ Len(chan[p]) \in Nat /\ Len(chan[p]) > 0
           /\ Head(chan[p]) = chan[p][1] /\ Names(p, Head(chan[p]))
           /\ Fill(Head(chan[p])) \in Fills /\ IsFillOf(p, Fill(Head(chan[p])))
<1>1. chan[p] \in Seq(Notifications)
  BY DEF Shape, ChanShape
<1>2. Len(chan[p]) \in Nat /\ Len(chan[p]) > 0
  BY <1>1, EmptySeq
<1>3. Head(chan[p]) = chan[p][1]
  BY <1>1
<1>4. Names(p, chan[p][1])
  BY <1>2 DEF Shape, ChanShape
<1> QED  BY <1>1, <1>2, <1>3, <1>4, FillNamed DEF Shape

\* No more is taken from a reservation than remains.
LEMMA FromReservationType ==
    ASSUME reservations \in [Orders -> Nat], NEW o \in Orders, NEW amt \in Nat
    PROVE  /\ FromReservation(o, amt) \in Nat /\ FromReservation(o, amt) <= reservations[o]
           /\ FromReservation(o, amt) <= amt
           /\ reservations[o] >= amt => FromReservation(o, amt) = amt
<1>1. reservations[o] \in Nat
  OBVIOUS
<1>2. Min({amt, reservations[o]}) = IF amt <= reservations[o] THEN amt ELSE reservations[o]
  BY <1>1, MinOfTwo
<1> QED  BY <1>1, <1>2 DEF FromReservation

\* What the store unlocks leaves no negative lock.
LEMMA UnlockedType ==
    ASSUME locked \in [Accounts -> Nat], NEW x \in Accounts, NEW amt \in Nat
    PROVE  Unlocked(x, amt) \in Nat /\ Unlocked(x, amt) <= locked[x]
BY DEF Unlocked

\* A fill changes every balance by an integer.
LEMMA ChangesType ==
    ASSUME NEW p \in Pairs, NEW x \in Fills, IsFillOf(p, x), NEW a
    PROVE  Changes(x, a) \in Int
<1>1. x.qty \in Nat /\ BuyerDebit(x) \in Nat /\ SellerCredit(x) \in Nat
  BY FillParts
<1> HIDE DEF BuyerDebit, SellerCredit
<1> QED  BY <1>1 DEF Changes

\* What the store has after a settlement.
LEMMA SettledTypes ==
    ASSUME Shape, WalletTypes, NEW p \in Pairs, bridge[p].at = "settle"
    PROVE  /\ Applied(Fill(bridge[p].fill)) \in [Accounts -> Int]
           /\ UnlockedFor(bridge[p]) \in [Accounts -> Nat]
           /\ Restored(bridge[p]) \in [Orders -> Nat]
<1> DEFINE b == bridge[p]
<1> DEFINE x == Fill(b.fill)
<1>1. /\ x \in Fills /\ IsFillOf(p, x) /\ b.fill.pair = p
      /\ b.fromBuyer \in Nat /\ b.fromSeller \in Nat
  BY BridgeFill
<1> HIDE DEF x, b
<1>2. /\ Buyer(x) \in Orders /\ Seller(x) \in Orders
      /\ <<User(Buyer(x)), Quote[p]>> \in Accounts /\ <<User(Seller(x)), Base[p]>> \in Accounts
  BY <1>1, FillParts, TicketType
<1>3. \A a \in Accounts : Changes(x, a) \in Int
  BY <1>1, ChangesType
<1>4. Applied(x) \in [Accounts -> Int]
  BY <1>3 DEF Applied, WalletTypes
<1>5. /\ Unlocked(<<User(Buyer(x)), Quote[p]>>, b.fromBuyer) \in Nat
      /\ Unlocked(<<User(Seller(x)), Base[p]>>, b.fromSeller) \in Nat
  BY <1>1, <1>2, UnlockedType DEF WalletTypes
<1>6. UnlockedFor(b) \in [Accounts -> Nat]
  <2> DEFINE c == <<User(Buyer(x)), Quote[p]>>
  <2> DEFINE g == <<User(Seller(x)), Base[p]>>
  <2>1. UnlockedFor(b) = [locked EXCEPT ![c] = Unlocked(c, b.fromBuyer), ![g] = Unlocked(g, b.fromSeller)]
    BY <1>1 DEF UnlockedFor, x
  <2>2. c \in Accounts /\ g \in Accounts /\ Unlocked(c, b.fromBuyer) \in Nat
        /\ Unlocked(g, b.fromSeller) \in Nat
    BY <1>2, <1>5
  <2> HIDE DEF c, g
  <2> QED  BY <2>1, <2>2 DEF WalletTypes
<1>7. Restored(b) \in [Orders -> Nat]
  BY <1>1, <1>2 DEF Restored, WalletTypes, x
<1> QED  BY <1>4, <1>6, <1>7 DEF b, x

\* Releasing an order leaves numbers.
LEMMA ReleaseOrderTypes ==
    ASSUME locked \in [Accounts -> Nat], reservations \in [Orders -> Nat], NEW o \in Orders, ReleaseOrder(o)
    PROVE  locked' \in [Accounts -> Nat] /\ reservations' \in [Orders -> Nat]
<1>1. ReservedAccount(o) \in Accounts /\ reservations[o] \in Nat
  BY TicketType
<1>2. Unlocked(ReservedAccount(o), reservations[o]) \in Nat
  BY <1>1, UnlockedType
<1> QED  BY <1>1, <1>2 DEF ReleaseOrder

\* The account of a deposit request.
LEMMA AccountOfType ==
    ASSUME NEW d \in Deposits
    PROVE  AccountOf(d) \in Accounts /\ Deposit[d].amount \in Nat /\ Deposit[d].amount > 0
BY SettlementAssumption DEF AccountOf, Accounts

\* Every step keeps the types of the wallet.
LEMMA WalletTypesKept ==
    ASSUME TypeInv, [Next]_vars
    PROVE  WalletTypes'
<1> USE SettlementAssumption DEF TypeInv, WalletTypes, walletVars, orderVars, engineVars, fillVars, depVars,
                                 histVars
<1>1. ASSUME NEW o \in Orders, ReserveOrder(o) PROVE WalletTypes'
  <2>1. PICK x, amt : x = ReservedAccount(o) /\ amt = AmountToReserve(o)
    OBVIOUS
  <2>2. x \in Accounts /\ amt \in Nat
    BY <2>1, TicketType
  <2>3. rows' \in {rows, rows \cup {x}} /\ locked' \in {locked, [locked EXCEPT ![x] = @ + amt]}
    BY <1>1, <2>1 DEF ReserveOrder
  <2>4. reservations' \in {reservations, [reservations EXCEPT ![o] = amt]} /\ balance' = balance
    BY <1>1, <2>1 DEF ReserveOrder
  <2>5. rows' \subseteq Accounts /\ Funded \subseteq rows'
    BY <2>2, <2>3
  <2>6. locked' \in [Accounts -> Nat]
    BY <2>2, <2>3
  <2>7. reservations' \in [Orders -> Nat]
    BY <2>2, <2>4
  <2> QED  BY <2>4, <2>5, <2>6, <2>7
<1>2. ASSUME NEW o \in Orders, Submit(o) PROVE WalletTypes'
  BY <1>2, TicketType DEF Submit, Lapse
<1>3. ASSUME NEW o \in Orders, Cancel(o) PROVE WalletTypes'
  BY <1>3, TicketType DEF Cancel
<1>4. ASSUME NEW d \in Deposits, BeginDeposit(d) PROVE WalletTypes'
  BY <1>4, TicketType DEF BeginDeposit, DepositMoves
<1>5. ASSUME NEW d \in Deposits, FindWallet(d) PROVE WalletTypes'
  BY <1>5, TicketType DEF FindWallet, DepositMoves, Trouble
<1>6. ASSUME NEW d \in Deposits, CreateWallet(d) PROVE WalletTypes'
  BY <1>6, AccountOfType DEF CreateWallet
<1>7. ASSUME NEW d \in Deposits, CreditDeposit(d) PROVE WalletTypes'
  BY <1>7, AccountOfType DEF CreditDeposit
<1>8. ASSUME NEW d \in Deposits, CreditGhost(d) PROVE WalletTypes'
  BY <1>8, TicketType DEF CreditGhost, DepositMoves
<1>9. ASSUME NEW d \in Deposits, RecordDeposit(d) PROVE WalletTypes'
  BY <1>9, TicketType DEF RecordDeposit, DepositMoves, Trouble, Lapse
<1>10. ASSUME NEW t \in Orders, NEW m \in Orders, Execute(t, m) PROVE WalletTypes'
  BY <1>10, TicketType DEF Execute, EmitFill
<1>11. ASSUME NEW p \in Pairs, Snapshot(p) PROVE WalletTypes'
  BY <1>11, TicketType DEF Snapshot
<1>12. ASSUME NEW s \in spilled, SpillSends(s) PROVE WalletTypes'
  BY <1>12, TicketType DEF SpillSends, Lapse
<1>13. ASSUME NEW s \in spilled, SpillWaits(s) PROVE WalletTypes'
  BY <1>13, TicketType DEF SpillWaits
<1>14. ASSUME NEW p \in Pairs, BeginSettle(p) PROVE WalletTypes'
  <2> DEFINE x == Fill(Head(chan[p]))
  <2>1. x \in Fills /\ IsFillOf(p, x)
    BY <1>14, HeadFill DEF BeginSettle
  <2> HIDE DEF x
  <2>2. Buyer(x) \in Orders /\ Seller(x) \in Orders /\ BuyerDebit(x) \in Nat /\ x.qty \in Nat
        /\ Buyer(x) # Seller(x)
    BY <2>1, FillParts
  <2>3. /\ FromReservation(Buyer(x), BuyerDebit(x)) \in Nat
        /\ FromReservation(Buyer(x), BuyerDebit(x)) <= reservations[Buyer(x)]
        /\ FromReservation(Seller(x), x.qty) \in Nat
        /\ FromReservation(Seller(x), x.qty) <= reservations[Seller(x)]
    BY <2>2, FromReservationType
  <2>4. reservations' \in [Orders -> Nat]
    <3>1. reservations' = [reservations EXCEPT ![Buyer(x)] = @ - FromReservation(Buyer(x), BuyerDebit(x)),
                                               ![Seller(x)] = @ - FromReservation(Seller(x), x.qty)]
      BY <1>14 DEF BeginSettle, x
    <3> QED  BY <3>1, <2>2, <2>3
  <2>5. UNCHANGED <<rows, balance, locked>>
    BY <1>14 DEF BeginSettle
  <2> QED  BY <2>4, <2>5
<1>15. ASSUME NEW p \in Pairs, Settle(p) PROVE WalletTypes'
  <2>1. /\ Applied(Fill(bridge[p].fill)) \in [Accounts -> Int]
        /\ UnlockedFor(bridge[p]) \in [Accounts -> Nat]
        /\ Restored(bridge[p]) \in [Orders -> Nat]
    BY <1>15, SettledTypes DEF Settle
  <2> QED  BY <1>15, <2>1 DEF Settle
<1>16. ASSUME NEW p \in Pairs, ReleaseTaker(p) PROVE WalletTypes'
  <2>1. Fill(bridge[p].fill).taker \in Orders
    BY <1>16, BridgeFill DEF ReleaseTaker, Fills
  <2>2. locked' \in [Accounts -> Nat] /\ reservations' \in [Orders -> Nat]
    <3>1. CASE ReleaseOrder(Fill(bridge[p].fill).taker)
      BY <3>1, <2>1, ReleaseOrderTypes
    <3>2. CASE UNCHANGED <<locked, reservations>>
      BY <3>2
    <3> QED  BY <1>16, <3>1, <3>2 DEF ReleaseTaker
  <2> QED  BY <1>16, <2>2 DEF ReleaseTaker
<1>17. ASSUME NEW p \in Pairs, ReleaseMaker(p) PROVE WalletTypes'
  <2>1. Fill(bridge[p].fill).maker \in Orders
    BY <1>17, BridgeFill DEF ReleaseMaker, Fills
  <2>2. locked' \in [Accounts -> Nat] /\ reservations' \in [Orders -> Nat]
    <3>1. CASE ReleaseOrder(Fill(bridge[p].fill).maker)
      BY <3>1, <2>1, ReleaseOrderTypes
    <3>2. CASE UNCHANGED <<locked, reservations>>
      BY <3>2
    <3> QED  BY <1>17, <3>1, <3>2 DEF ReleaseMaker
  <2> QED  BY <1>17, <2>2 DEF ReleaseMaker
<1>18. ASSUME Crash PROVE WalletTypes'
  BY <1>18, TicketType DEF Crash, Trouble, Lapse
<1>19. CASE UNCHANGED vars
  BY <1>19, TicketType DEF vars
<1> QED
  BY <1>1, <1>2, <1>3, <1>4, <1>5, <1>6, <1>7, <1>8, <1>9, <1>10, <1>11, <1>12,
<1>13, <1>14, <1>15, <1>16, <1>17, <1>18, <1>19 DEF Next, ClientStep,
DepositStep, EngineStep, SpillStep, BridgeStep

\* Recording a trade moves two positions.
LEMMA RecordFillType ==
    ASSUME PlainTypes, NEW p \in Pairs, NEW x \in Fills, IsFillOf(p, x), RecordFill(x)
    PROVE  position' \in [Accounts -> [qty : Int, cost : Int]]
<1>1. /\ Buyer(x) \in Orders /\ Seller(x) \in Orders /\ x.qty \in Nat /\ Ticket[x.taker].pair \in Pairs
      /\ x.maker \in Orders
  BY FillParts DEF Fills
<1>2. Price(x) \in Int
  BY <1>1, TicketType DEF Price
<1>3. ASSUME NEW pos \in [qty : Int, cost : Int], NEW q \in Int
      PROVE Traded(pos, q, Price(x)) \in [qty : Int, cost : Int]
  BY <1>2 DEF Traded, Flat
<1> DEFINE b == <<User(Buyer(x)), Base[Ticket[x.taker].pair]>>
<1> DEFINE s == <<User(Seller(x)), Base[Ticket[x.taker].pair]>>
<1>4. b \in Accounts /\ s \in Accounts
  <2>1. User(Buyer(x)) \in Users /\ User(Seller(x)) \in Users
    BY <1>1, TicketType DEF User
  <2>2. Base[Ticket[x.taker].pair] \in Assets
    BY <1>1, SettlementAssumption
  <2> QED  BY <2>1, <2>2 DEF Accounts
<1>5. position' = [position EXCEPT ![b] = Traded(@, x.qty, Price(x)), ![s] = Traded(@, -x.qty, Price(x))]
  BY DEF RecordFill
<1> HIDE DEF b, s
<1>6. x.qty \in Int /\ -x.qty \in Int
  BY <1>1
<1>7. b # s
  <2>1. User(Buyer(x)) # User(Seller(x))
    BY FillParts
  <2> QED  BY <2>1 DEF b, s
<1>8. Traded(position[b], x.qty, Price(x)) \in [qty : Int, cost : Int]
  BY <1>3, <1>4, <1>6 DEF PlainTypes
<1>9. Traded(position[s], -x.qty, Price(x)) \in [qty : Int, cost : Int]
  BY <1>3, <1>4, <1>6 DEF PlainTypes
<1> QED  BY <1>4, <1>5, <1>7, <1>8, <1>9 DEF PlainTypes

\* Every step keeps the types of orders, positions and deposit requests.
LEMMA PlainTypesKept ==
    ASSUME TypeInv, [Next]_vars
    PROVE  PlainTypes'
<1> USE SettlementAssumption DEF TypeInv, PlainTypes, Busy, Flat, walletVars, orderVars, engineVars, fillVars,
                                 depVars, histVars
<1>1. ASSUME NEW o \in Orders, ReserveOrder(o) PROVE PlainTypes'
  <2>1. stage' \in [Orders -> {"new", "reserved", "live", "over"}]
    <3>1. \E s \in {"reserved", "over"} : stage' = [stage EXCEPT ![o] = s]
      BY <1>1 DEF ReserveOrder
    <3>2. stage \in [Orders -> {"new", "reserved", "live", "over"}]
      OBVIOUS
    <3> QED  BY ONLY <3>1, <3>2
  <2>2. trouble' = trouble \/ (trouble > 0 /\ trouble' = trouble - 1)
    BY <1>1 DEF ReserveOrder, Trouble
  <2>3. UNCHANGED <<left, position, dep, epoch>>
    BY <1>1 DEF ReserveOrder
  <2> QED  BY <2>1, <2>2, <2>3
<1>2. ASSUME NEW o \in Orders, Submit(o) PROVE PlainTypes'
  BY <1>2, TicketType DEF Submit, Lapse
<1>3. ASSUME NEW o \in Orders, Cancel(o) PROVE PlainTypes'
  BY <1>3, TicketType DEF Cancel
<1>4. ASSUME NEW d \in Deposits, BeginDeposit(d) PROVE PlainTypes'
  BY <1>4, TicketType DEF BeginDeposit, DepositMoves
<1>5. ASSUME NEW d \in Deposits, FindWallet(d) PROVE PlainTypes'
  BY <1>5, TicketType DEF FindWallet, DepositMoves, Trouble
<1>6. ASSUME NEW d \in Deposits, CreateWallet(d) PROVE PlainTypes'
  BY <1>6, TicketType DEF CreateWallet, DepositMoves
<1>7. ASSUME NEW d \in Deposits, CreditDeposit(d) PROVE PlainTypes'
  <2>1. \E to \in Busy \cup {"new", "done"} : dep' = [dep EXCEPT ![d] = to]
    BY <1>7 DEF CreditDeposit, DepositMoves
  <2>2. dep' \in [Deposits -> Busy \cup {"new", "done"}]
    <3>1. dep \in [Deposits -> Busy \cup {"new", "done"}]
      OBVIOUS
    <3> QED  BY ONLY <2>1, <3>1
  <2>3. trouble' = trouble \/ (trouble > 0 /\ trouble' = trouble - 1)
    BY <1>7 DEF CreditDeposit, Trouble
  <2>4. UNCHANGED <<left, stage, position, epoch>>
    BY <1>7 DEF CreditDeposit
  <2> QED  BY <2>2, <2>3, <2>4
<1>8. ASSUME NEW d \in Deposits, CreditGhost(d) PROVE PlainTypes'
  BY <1>8, TicketType DEF CreditGhost, DepositMoves
<1>9. ASSUME NEW d \in Deposits, RecordDeposit(d) PROVE PlainTypes'
  BY <1>9, TicketType DEF RecordDeposit, DepositMoves, Trouble, Lapse
<1>10. ASSUME NEW t \in Orders, NEW m \in Orders, Execute(t, m) PROVE PlainTypes'
  <2> DEFINE q == Min({left[t], left[m]})
  <2>1. left[t] \in Nat /\ left[m] \in Nat
    OBVIOUS
  <2>2. q \in Nat /\ q <= left[t] /\ q <= left[m]
    BY <2>1, MinOfTwo
  <2>3. User(t) # User(m)
    BY <1>10 DEF Execute
  <2>4. t # m
    BY <2>3
  <2>5. left' = [left EXCEPT ![t] = @ - q, ![m] = @ - q]
    BY <1>10 DEF Execute
  <2> HIDE DEF q
  <2>6. left' \in [Orders -> Nat]
    BY <2>1, <2>2, <2>4, <2>5
  <2> QED  BY <1>10, <2>6 DEF Execute
<1>11. ASSUME NEW p \in Pairs, Snapshot(p) PROVE PlainTypes'
  BY <1>11, TicketType DEF Snapshot
<1>12. ASSUME NEW s \in spilled, SpillSends(s) PROVE PlainTypes'
  BY <1>12, TicketType DEF SpillSends, Lapse
<1>13. ASSUME NEW s \in spilled, SpillWaits(s) PROVE PlainTypes'
  BY <1>13, TicketType DEF SpillWaits
<1>14. ASSUME NEW p \in Pairs, BeginSettle(p) PROVE PlainTypes'
  BY <1>14, TicketType DEF BeginSettle
<1>15. ASSUME NEW p \in Pairs, Settle(p) PROVE PlainTypes'
  <2>1. Fill(bridge[p].fill) \in Fills /\ IsFillOf(p, Fill(bridge[p].fill))
    BY <1>15, BridgeFill DEF Settle
  <2>2. position' \in [Accounts -> [qty : Int, cost : Int]]
    BY <1>15, <2>1, RecordFillType DEF Settle
  <2>3. UNCHANGED <<left, stage, dep, epoch>> /\ (trouble' = trouble \/ (trouble > 0 /\ trouble' = trouble - 1))
    BY <1>15 DEF Settle, Trouble
  <2> QED  BY <2>2, <2>3
<1>16. ASSUME NEW p \in Pairs, ReleaseTaker(p) PROVE PlainTypes'
  BY <1>16, TicketType DEF ReleaseTaker, ReleaseOrder, Trouble, Lapse
<1>17. ASSUME NEW p \in Pairs, ReleaseMaker(p) PROVE PlainTypes'
  BY <1>17, TicketType DEF ReleaseMaker, ReleaseOrder, Trouble, Lapse
<1>18. ASSUME Crash PROVE PlainTypes'
  BY <1>18, TicketType DEF Crash, Trouble, Lapse
<1>19. CASE UNCHANGED vars
  BY <1>19, TicketType DEF vars
<1> QED
  BY <1>1, <1>2, <1>3, <1>4, <1>5, <1>6, <1>7, <1>8, <1>9, <1>10, <1>11, <1>12,
<1>13, <1>14, <1>15, <1>16, <1>17, <1>18, <1>19 DEF Next, ClientStep,
DepositStep, EngineStep, SpillStep, BridgeStep

-------------------------------------------------------------------------------
(* What a step does to the tapes.                                            *)

\* The fill that two orders make.
NewFill(t, m) ==
    LET q == Min({left[t], left[m]}) IN
    [taker |-> t, maker |-> m, qty |-> q, takerFilled |-> left[t] = q, makerFilled |-> left[m] = q]

\* An execution appends one fill to the tape of its pair, of no more than either order has left.
LEMMA NewFillType ==
    ASSUME TypeInv, NEW t \in Orders, NEW m \in Orders, Execute(t, m)
    PROVE  /\ NewFill(t, m) \in Fills /\ IsFillOf(Ticket[t].pair, NewFill(t, m)) /\ Ticket[t].pair \in Pairs
           /\ NewFill(t, m).qty = Min({left[t], left[m]}) /\ t # m
           /\ NewFill(t, m).qty > 0 /\ NewFill(t, m).qty <= left[t] /\ NewFill(t, m).qty <= left[m]
           /\ tape' = [tape EXCEPT ![Ticket[t].pair] = Append(@, NewFill(t, m))]
<1>1. left[t] \in Nat /\ left[m] \in Nat /\ left[t] > 0 /\ left[m] > 0
  BY DEF TypeInv, PlainTypes, Execute
<1>2. Min({left[t], left[m]}) \in Nat /\ Min({left[t], left[m]}) > 0 /\ Min({left[t], left[m]}) <= left[t]
      /\ Min({left[t], left[m]}) <= left[m]
  BY <1>1, MinOfTwo
<1>3. NewFill(t, m) \in Fills
  BY <1>2, Zenon DEF NewFill, Fills
<1>4. NewFill(t, m).taker = t /\ NewFill(t, m).maker = m /\ NewFill(t, m).qty = Min({left[t], left[m]})
  BY DEF NewFill
<1>5. User(t) # User(m) /\ Crosses(t, m)
  BY DEF Execute
<1>6. IsFillOf(Ticket[t].pair, NewFill(t, m))
  BY <1>2, <1>4, <1>5 DEF IsFillOf
<1>7. tape' = [tape EXCEPT ![Ticket[t].pair] = Append(@, NewFill(t, m))]
  BY DEF Execute, NewFill
<1> QED  BY <1>2, <1>3, <1>4, <1>5, <1>6, <1>7, TicketType

\* Only an execution changes the tapes and what remains of the orders.
LEMMA TradeSteps ==
    ASSUME [Next]_vars
    PROVE  UNCHANGED <<tape, left>> \/ \E t, m \in Orders : Execute(t, m)
<1> DEFINE Goal == UNCHANGED <<tape, left>> \/ \E t, m \in Orders : Execute(t, m)
<1> USE DEF walletVars, orderVars, engineVars, fillVars, depVars, histVars
<1>1. ASSUME NEW o \in Orders, ReserveOrder(o) PROVE Goal
  BY <1>1 DEF ReserveOrder, Trouble, Lapse
<1>2. ASSUME NEW o \in Orders, Submit(o) PROVE Goal
  BY <1>2 DEF Submit, Lapse
<1>3. ASSUME NEW o \in Orders, Cancel(o) PROVE Goal
  BY <1>3 DEF Cancel
<1>4. ASSUME NEW d \in Deposits, BeginDeposit(d) PROVE Goal
  BY <1>4 DEF BeginDeposit, DepositMoves
<1>5. ASSUME NEW d \in Deposits, FindWallet(d) PROVE Goal
  BY <1>5 DEF FindWallet, DepositMoves, Trouble
<1>6. ASSUME NEW d \in Deposits, CreateWallet(d) PROVE Goal
  BY <1>6 DEF CreateWallet, DepositMoves
<1>7. ASSUME NEW d \in Deposits, CreditDeposit(d) PROVE Goal
  BY <1>7 DEF CreditDeposit, DepositMoves, Trouble, Lapse
<1>8. ASSUME NEW d \in Deposits, CreditGhost(d) PROVE Goal
  BY <1>8 DEF CreditGhost, DepositMoves
<1>9. ASSUME NEW d \in Deposits, RecordDeposit(d) PROVE Goal
  BY <1>9 DEF RecordDeposit, DepositMoves, Trouble, Lapse
<1>10. ASSUME NEW t \in Orders, NEW m \in Orders, Execute(t, m) PROVE Goal
  BY <1>10 DEF Execute, EmitFill
<1>11. ASSUME NEW p \in Pairs, Snapshot(p) PROVE Goal
  BY <1>11 DEF Snapshot
<1>12. ASSUME NEW s \in spilled, SpillSends(s) PROVE Goal
  BY <1>12 DEF SpillSends, Lapse
<1>13. ASSUME NEW s \in spilled, SpillWaits(s) PROVE Goal
  BY <1>13 DEF SpillWaits
<1>14. ASSUME NEW p \in Pairs, BeginSettle(p) PROVE Goal
  BY <1>14 DEF BeginSettle
<1>15. ASSUME NEW p \in Pairs, Settle(p) PROVE Goal
  BY <1>15 DEF Settle, Trouble, Lapse
<1>16. ASSUME NEW p \in Pairs, ReleaseTaker(p) PROVE Goal
  BY <1>16 DEF ReleaseTaker, ReleaseOrder, Trouble, Lapse
<1>17. ASSUME NEW p \in Pairs, ReleaseMaker(p) PROVE Goal
  BY <1>17 DEF ReleaseMaker, ReleaseOrder, Trouble, Lapse
<1>18. ASSUME Crash PROVE Goal
  BY <1>18 DEF Crash, Trouble, Lapse
<1>19. CASE UNCHANGED vars
  BY <1>19 DEF vars
<1> QED
  BY <1>1, <1>2, <1>3, <1>4, <1>5, <1>6, <1>7, <1>8, <1>9, <1>10, <1>11, <1>12,
<1>13, <1>14, <1>15, <1>16, <1>17, <1>18, <1>19 DEF Next, ClientStep,
DepositStep, EngineStep, SpillStep, BridgeStep

\* Tapes only grow at their end, and the epochs with the crashes.
LEMMA TapeGrows ==
    ASSUME TypeInv, [Next]_vars
    PROVE  /\ \A p \in Pairs : Len(tape[p]) \in Nat /\ Len(tape'[p]) \in Nat /\ Len(tape[p]) <= Len(tape'[p])
           /\ \A p \in Pairs : \A n \in 1..Len(tape[p]) : tape'[p][n] = tape[p][n]
           /\ epoch \in Nat /\ epoch <= epoch'
<1>0. \A p \in Pairs : tape[p] \in Seq(Fills) /\ Len(tape[p]) \in Nat
  BY DEF TypeInv, Shape, TapeShape
<1>1. epoch \in Nat
  BY DEF TypeInv, PlainTypes
<1>2. tape' = tape =>
      \A p \in Pairs : Len(tape[p]) <= Len(tape'[p]) /\ \A n \in 1..Len(tape[p]) : tape'[p][n] = tape[p][n]
  BY <1>0
<1>3. ASSUME NEW t \in Orders, NEW m \in Orders, Execute(t, m)
      PROVE  \A p \in Pairs : /\ Len(tape'[p]) \in Nat /\ Len(tape[p]) <= Len(tape'[p])
                              /\ \A n \in 1..Len(tape[p]) : tape'[p][n] = tape[p][n]
  <2> DEFINE x == NewFill(t, m)
  <2> DEFINE q == Ticket[t].pair
  <2>1. x \in Fills /\ tape' = [tape EXCEPT ![q] = Append(@, x)] /\ q \in Pairs
    BY <1>3, NewFillType
  <2> HIDE DEF x, q
  <2>2. /\ Len(Append(tape[q], x)) = Len(tape[q]) + 1
        /\ \A i \in 1..Len(tape[q]) : Append(tape[q], x)[i] = tape[q][i]
    BY <1>0, <2>1, AppendProperties
  <2>3. tape'[q] = Append(tape[q], x) /\ \A p \in Pairs : p # q => tape'[p] = tape[p]
    BY <2>1 DEF TypeInv, Shape, TapeShape
  <2> QED  BY <1>0, <2>2, <2>3
<1>4. (tape' = tape) \/ \E t, m \in Orders : Execute(t, m)
  BY TradeSteps
<1>5. epoch' = epoch \/ epoch' = epoch + 1
  <2> DEFINE Goal == epoch' = epoch \/ epoch' = epoch + 1
  <2> USE DEF walletVars, orderVars, engineVars, fillVars, depVars, histVars
  <2>1. ASSUME NEW o \in Orders, ReserveOrder(o) PROVE Goal
    BY <2>1 DEF ReserveOrder, Trouble, Lapse
  <2>2. ASSUME NEW o \in Orders, Submit(o) PROVE Goal
    BY <2>2 DEF Submit, Lapse
  <2>3. ASSUME NEW o \in Orders, Cancel(o) PROVE Goal
    BY <2>3 DEF Cancel
  <2>4. ASSUME NEW d \in Deposits, BeginDeposit(d) PROVE Goal
    BY <2>4 DEF BeginDeposit, DepositMoves
  <2>5. ASSUME NEW d \in Deposits, FindWallet(d) PROVE Goal
    BY <2>5 DEF FindWallet, DepositMoves, Trouble
  <2>6. ASSUME NEW d \in Deposits, CreateWallet(d) PROVE Goal
    BY <2>6 DEF CreateWallet, DepositMoves
  <2>7. ASSUME NEW d \in Deposits, CreditDeposit(d) PROVE Goal
    BY <2>7 DEF CreditDeposit, DepositMoves, Trouble, Lapse
  <2>8. ASSUME NEW d \in Deposits, CreditGhost(d) PROVE Goal
    BY <2>8 DEF CreditGhost, DepositMoves
  <2>9. ASSUME NEW d \in Deposits, RecordDeposit(d) PROVE Goal
    BY <2>9 DEF RecordDeposit, DepositMoves, Trouble, Lapse
  <2>10. ASSUME NEW t \in Orders, NEW m \in Orders, Execute(t, m) PROVE Goal
    BY <2>10 DEF Execute, EmitFill
  <2>11. ASSUME NEW p \in Pairs, Snapshot(p) PROVE Goal
    BY <2>11 DEF Snapshot
  <2>12. ASSUME NEW s \in spilled, SpillSends(s) PROVE Goal
    BY <2>12 DEF SpillSends, Lapse
  <2>13. ASSUME NEW s \in spilled, SpillWaits(s) PROVE Goal
    BY <2>13 DEF SpillWaits
  <2>14. ASSUME NEW p \in Pairs, BeginSettle(p) PROVE Goal
    BY <2>14 DEF BeginSettle
  <2>15. ASSUME NEW p \in Pairs, Settle(p) PROVE Goal
    BY <2>15 DEF Settle, Trouble, Lapse
  <2>16. ASSUME NEW p \in Pairs, ReleaseTaker(p) PROVE Goal
    BY <2>16 DEF ReleaseTaker, ReleaseOrder, Trouble, Lapse
  <2>17. ASSUME NEW p \in Pairs, ReleaseMaker(p) PROVE Goal
    BY <2>17 DEF ReleaseMaker, ReleaseOrder, Trouble, Lapse
  <2>18. ASSUME Crash PROVE Goal
    BY <2>18 DEF Crash, Trouble, Lapse
  <2>19. CASE UNCHANGED vars
    BY <2>19 DEF vars
  <2> QED
    BY <2>1, <2>2, <2>3, <2>4, <2>5, <2>6, <2>7, <2>8, <2>9, <2>10, <2>11, <2>12,
  <2>13, <2>14, <2>15, <2>16, <2>17, <2>18, <2>19 DEF Next, ClientStep,
  DepositStep, EngineStep, SpillStep, BridgeStep
<1> QED  BY <1>0, <1>1, <1>2, <1>3, <1>4, <1>5

\* A notification that names a fill always does, and always the same.
LEMMA NamesKept ==
    ASSUME TypeInv, [Next]_vars, NEW p \in Pairs, NEW f, Names(p, f)
    PROVE  Names(p, f)' /\ Fill(f)' = Fill(f)
<1>1. f \in Notifications /\ f.pair = p /\ f.n \in Nat /\ f.n > 0 /\ f.n <= Len(tape[p]) /\ f.epoch <= epoch
      /\ f.epoch \in Nat
  BY DEF Names, Notifications
<1>2. f.n <= Len(tape'[p]) /\ f.epoch <= epoch'
  <2>1. Len(tape[p]) \in Nat /\ Len(tape'[p]) \in Nat /\ Len(tape[p]) <= Len(tape'[p]) /\ epoch \in Nat
        /\ epoch <= epoch'
    BY TapeGrows
  <2>2. epoch' \in Nat
    BY PlainTypesKept DEF PlainTypes
  <2> QED  BY <1>1, <2>1, <2>2
<1>3. tape'[p][f.n] = tape[p][f.n]
  BY <1>1, TapeGrows
<1> QED  BY <1>1, <1>2, <1>3 DEF Names, Fill

\* Every step keeps the tapes well formed.
LEMMA TapeShapeKept ==
    ASSUME TypeInv, [Next]_vars
    PROVE  TapeShape'
<1>0. tape \in [Pairs -> Seq(Fills)] /\ mark \in [Pairs -> Nat]
      /\ \A p \in Pairs : Len(tape[p]) \in Nat /\ mark[p] <= Len(tape[p])
  BY DEF TypeInv, Shape, TapeShape
<1>1. UNCHANGED <<tape, mark>> => TapeShape'
  BY DEF TypeInv, Shape, TapeShape, IsFillOf, Crosses
<1>2. ASSUME NEW p \in Pairs, Snapshot(p) PROVE TapeShape'
  <2>1. tape' = tape /\ mark' = [mark EXCEPT ![p] = Len(tape[p])]
    BY <1>2 DEF Snapshot
  <2>2. mark' \in [Pairs -> Nat] /\ \A r \in Pairs : mark'[r] <= Len(tape[r])
    BY <1>0, <2>1
  <2> QED  BY <2>1, <2>2 DEF TypeInv, Shape, TapeShape, IsFillOf, Crosses
<1>3. ASSUME NEW t \in Orders, NEW m \in Orders, Execute(t, m) PROVE TapeShape'
  <2> DEFINE x == NewFill(t, m)
  <2> DEFINE q == Ticket[t].pair
  <2>1. x \in Fills /\ tape' = [tape EXCEPT ![q] = Append(@, x)] /\ q \in Pairs /\ IsFillOf(q, x)
    BY <1>3, NewFillType
  <2>1a. mark' = mark
    BY <1>3 DEF Execute
  <2> HIDE DEF x, q
  <2>2. /\ Append(tape[q], x) \in Seq(Fills) /\ Len(Append(tape[q], x)) = Len(tape[q]) + 1
        /\ \A i \in 1..Len(tape[q]) : Append(tape[q], x)[i] = tape[q][i]
        /\ Append(tape[q], x)[Len(tape[q]) + 1] = x
    BY <1>0, <2>1, AppendProperties
  <2>3. tape'[q] = Append(tape[q], x) /\ \A p \in Pairs : p # q => tape'[p] = tape[p]
    BY <1>0, <2>1
  <2>4. tape' \in [Pairs -> Seq(Fills)]
    BY <1>0, <2>1, <2>2
  <2>5. ASSUME NEW p \in Pairs PROVE mark'[p] <= Len(tape'[p])
    <3>1. mark[p] \in Nat /\ Len(tape[p]) \in Nat /\ mark[p] <= Len(tape[p]) /\ mark'[p] = mark[p]
      BY <1>0, <2>1a
    <3>2. Len(tape'[p]) = Len(tape[p]) \/ Len(tape'[p]) = Len(tape[p]) + 1
      BY <2>2, <2>3
    <3> QED  BY <3>1, <3>2
  <2>6. \A p \in Pairs : \A n \in 1..Len(tape'[p]) : IsFillOf(p, tape'[p][n])
    <3> SUFFICES ASSUME NEW p \in Pairs, NEW n \in 1..Len(tape'[p]) PROVE IsFillOf(p, tape'[p][n])
      OBVIOUS
    <3>1. CASE p = q /\ n = Len(tape[q]) + 1
      BY <3>1, <2>1, <2>2, <2>3
    <3>2. CASE n \in 1..Len(tape[p])
      <4>1. tape'[p][n] = tape[p][n]
        BY <3>2, <2>2, <2>3
      <4> QED  BY <4>1, <3>2 DEF TypeInv, Shape, TapeShape
    <3> QED  BY <3>1, <3>2, <2>2, <2>3, <1>0
  <2> QED  BY <2>4, <2>5, <2>6, <2>1a, <1>0 DEF TapeShape, IsFillOf, Crosses
<1>4. UNCHANGED <<tape, mark>> \/ (\E p \in Pairs : Snapshot(p)) \/ \E t, m \in Orders : Execute(t, m)
  <2> DEFINE Goal == UNCHANGED <<tape, mark>> \/ (\E p \in Pairs : Snapshot(p)) \/ \E t, m \in Orders : Execute(t, m)
  <2> USE DEF walletVars, orderVars, engineVars, fillVars, depVars, histVars
  <2>1. ASSUME NEW o \in Orders, ReserveOrder(o) PROVE Goal
    BY <2>1 DEF ReserveOrder, Trouble, Lapse
  <2>2. ASSUME NEW o \in Orders, Submit(o) PROVE Goal
    BY <2>2 DEF Submit, Lapse
  <2>3. ASSUME NEW o \in Orders, Cancel(o) PROVE Goal
    BY <2>3 DEF Cancel
  <2>4. ASSUME NEW d \in Deposits, BeginDeposit(d) PROVE Goal
    BY <2>4 DEF BeginDeposit, DepositMoves
  <2>5. ASSUME NEW d \in Deposits, FindWallet(d) PROVE Goal
    BY <2>5 DEF FindWallet, DepositMoves, Trouble
  <2>6. ASSUME NEW d \in Deposits, CreateWallet(d) PROVE Goal
    BY <2>6 DEF CreateWallet, DepositMoves
  <2>7. ASSUME NEW d \in Deposits, CreditDeposit(d) PROVE Goal
    BY <2>7 DEF CreditDeposit, DepositMoves, Trouble, Lapse
  <2>8. ASSUME NEW d \in Deposits, CreditGhost(d) PROVE Goal
    BY <2>8 DEF CreditGhost, DepositMoves
  <2>9. ASSUME NEW d \in Deposits, RecordDeposit(d) PROVE Goal
    BY <2>9 DEF RecordDeposit, DepositMoves, Trouble, Lapse
  <2>10. ASSUME NEW t \in Orders, NEW m \in Orders, Execute(t, m) PROVE Goal
    BY <2>10 DEF Execute, EmitFill
  <2>11. ASSUME NEW p \in Pairs, Snapshot(p) PROVE Goal
    BY <2>11 DEF Snapshot
  <2>12. ASSUME NEW s \in spilled, SpillSends(s) PROVE Goal
    BY <2>12 DEF SpillSends, Lapse
  <2>13. ASSUME NEW s \in spilled, SpillWaits(s) PROVE Goal
    BY <2>13 DEF SpillWaits
  <2>14. ASSUME NEW p \in Pairs, BeginSettle(p) PROVE Goal
    BY <2>14 DEF BeginSettle
  <2>15. ASSUME NEW p \in Pairs, Settle(p) PROVE Goal
    BY <2>15 DEF Settle, Trouble, Lapse
  <2>16. ASSUME NEW p \in Pairs, ReleaseTaker(p) PROVE Goal
    BY <2>16 DEF ReleaseTaker, ReleaseOrder, Trouble, Lapse
  <2>17. ASSUME NEW p \in Pairs, ReleaseMaker(p) PROVE Goal
    BY <2>17 DEF ReleaseMaker, ReleaseOrder, Trouble, Lapse
  <2>18. ASSUME Crash PROVE Goal
    BY <2>18 DEF Crash, Trouble, Lapse
  <2>19. CASE UNCHANGED vars
    BY <2>19 DEF vars
  <2> QED
    BY <2>1, <2>2, <2>3, <2>4, <2>5, <2>6, <2>7, <2>8, <2>9, <2>10, <2>11, <2>12,
  <2>13, <2>14, <2>15, <2>16, <2>17, <2>18, <2>19 DEF Next, ClientStep,
  DepositStep, EngineStep, SpillStep, BridgeStep
<1> QED  BY <1>1, <1>2, <1>3, <1>4

-------------------------------------------------------------------------------
(* What a step does to the notifications.                                    *)

\* The same after a step.
NamesNext(p, f) == f \in Notifications /\ f.pair = p /\ f.n <= Len(tape'[p]) /\ f.epoch <= epoch'

\* The steps that concern notifications; no other one touches them.
LEMMA FillSteps ==
    ASSUME [Next]_vars
    PROVE  \/ UNCHANGED <<chan, spilled, bridge, moved, tape, epoch>>
           \/ \E d \in Deposits : CreditDeposit(d)
           \/ \E t, m \in Orders : Execute(t, m)
           \/ \E s \in spilled : SpillSends(s) \/ SpillWaits(s)
           \/ \E p \in Pairs : BeginSettle(p) \/ Settle(p) \/ ReleaseTaker(p) \/ ReleaseMaker(p)
           \/ Crash
<1> DEFINE Goal ==
           \/ UNCHANGED <<chan, spilled, bridge, moved, tape, epoch>>
           \/ \E d \in Deposits : CreditDeposit(d)
           \/ \E t, m \in Orders : Execute(t, m)
           \/ \E s \in spilled : SpillSends(s) \/ SpillWaits(s)
           \/ \E p \in Pairs : BeginSettle(p) \/ Settle(p) \/ ReleaseTaker(p) \/ ReleaseMaker(p)
           \/ Crash
<1> USE DEF walletVars, orderVars, engineVars, fillVars, depVars, histVars
<1>1. ASSUME NEW o \in Orders, ReserveOrder(o) PROVE Goal
  BY <1>1 DEF ReserveOrder, Trouble, Lapse
<1>2. ASSUME NEW o \in Orders, Submit(o) PROVE Goal
  BY <1>2 DEF Submit, Lapse
<1>3. ASSUME NEW o \in Orders, Cancel(o) PROVE Goal
  BY <1>3 DEF Cancel
<1>4. ASSUME NEW d \in Deposits, BeginDeposit(d) PROVE Goal
  BY <1>4 DEF BeginDeposit, DepositMoves
<1>5. ASSUME NEW d \in Deposits, FindWallet(d) PROVE Goal
  BY <1>5 DEF FindWallet, DepositMoves, Trouble
<1>6. ASSUME NEW d \in Deposits, CreateWallet(d) PROVE Goal
  BY <1>6 DEF CreateWallet, DepositMoves
<1>7. ASSUME NEW d \in Deposits, CreditDeposit(d) PROVE Goal
  BY <1>7
<1>8. ASSUME NEW d \in Deposits, CreditGhost(d) PROVE Goal
  BY <1>8 DEF CreditGhost, DepositMoves
<1>9. ASSUME NEW d \in Deposits, RecordDeposit(d) PROVE Goal
  BY <1>9 DEF RecordDeposit, DepositMoves, Trouble, Lapse
<1>10. ASSUME NEW t \in Orders, NEW m \in Orders, Execute(t, m) PROVE Goal
  BY <1>10
<1>11. ASSUME NEW p \in Pairs, Snapshot(p) PROVE Goal
  BY <1>11 DEF Snapshot
<1>12. ASSUME NEW s \in spilled, SpillSends(s) PROVE Goal
  BY <1>12
<1>13. ASSUME NEW s \in spilled, SpillWaits(s) PROVE Goal
  BY <1>13
<1>14. ASSUME NEW p \in Pairs, BeginSettle(p) PROVE Goal
  BY <1>14
<1>15. ASSUME NEW p \in Pairs, Settle(p) PROVE Goal
  BY <1>15
<1>16. ASSUME NEW p \in Pairs, ReleaseTaker(p) PROVE Goal
  BY <1>16
<1>17. ASSUME NEW p \in Pairs, ReleaseMaker(p) PROVE Goal
  BY <1>17
<1>18. ASSUME Crash PROVE Goal
  BY <1>18
<1>19. CASE UNCHANGED vars
  BY <1>19 DEF vars
<1> QED
  BY <1>1, <1>2, <1>3, <1>4, <1>5, <1>6, <1>7, <1>8, <1>9, <1>10, <1>11, <1>12,
<1>13, <1>14, <1>15, <1>16, <1>17, <1>18, <1>19 DEF Next, ClientStep,
DepositStep, EngineStep, SpillStep, BridgeStep

\* What a crash leaves: the fills after the snapshot, of the next epoch, the
\* first of them in the channel and the others with goroutines.
LEMMA CrashFills ==
    ASSUME TypeInv, Crash
    PROVE  /\ \A p \in Pairs : /\ chan'[p] \in Seq(Notifications) /\ Len(chan'[p]) \in Nat
                               /\ \A i \in 1..Len(chan'[p]) :
                                      chan'[p][i] = Notification(p, mark[p] + i, epoch + 1)
                                      /\ NamesNext(p, chan'[p][i])
                               /\ Len(chan'[p]) <= FillsCap
           /\ chan' \in [Pairs -> Seq(Notifications)]
           /\ \A s \in spilled' : \E p \in Pairs : \E i \in Nat :
                  /\ i > FillsCap /\ s = [fill |-> Notification(p, mark[p] + i, epoch + 1), tries |-> Tries]
                  /\ NamesNext(p, s.fill)
           /\ bridge' = [p \in Pairs |-> Idle] /\ moved' = moved /\ tape' = tape
           /\ epoch' = epoch + 1 /\ epoch' \in Nat /\ epoch' <= MaxTrouble
<1>1. /\ bridge' = [p \in Pairs |-> Idle] /\ moved' = moved /\ tape' = tape
      /\ epoch' = epoch + 1 /\ epoch' \in Nat /\ epoch' <= MaxTrouble
  BY SettlementAssumption DEF Crash, Trouble, TypeInv, PlainTypes, histVars, engineVars
<1>2. ASSUME NEW p \in Pairs
      PROVE  /\ Len(tape[p]) - mark[p] \in Nat /\ Len(tape[p]) \in Nat /\ mark[p] \in Nat
             /\ Len(Replayed(p)) = Len(tape[p]) - mark[p]
             /\ \A i \in 1..(Len(tape[p]) - mark[p]) :
                    /\ Replayed(p)[i] = Notification(p, mark[p] + i, epoch + 1)
                    /\ Replayed(p)[i] \in Notifications /\ NamesNext(p, Replayed(p)[i])
  <2>1. Len(tape[p]) \in Nat /\ mark[p] \in Nat /\ mark[p] <= Len(tape[p])
    BY DEF TypeInv, Shape, TapeShape
  <2>2. Len(tape[p]) - mark[p] \in Nat
    BY <2>1
  <2>3. Len(Replayed(p)) = Len(tape[p]) - mark[p]
    BY <2>2 DEF Replayed
  <2>4. ASSUME NEW i \in 1..(Len(tape[p]) - mark[p])
        PROVE  /\ Replayed(p)[i] = Notification(p, mark[p] + i, epoch + 1)
               /\ Replayed(p)[i] \in Notifications /\ NamesNext(p, Replayed(p)[i])
    <3>1. Replayed(p)[i] = Notification(p, mark[p] + i, epoch + 1)
      BY DEF Replayed
    <3>2. mark[p] + i \in Nat \ {0} /\ mark[p] + i <= Len(tape[p]) /\ epoch + 1 \in 0..MaxTrouble
      BY <2>1, <1>1, SettlementAssumption
    <3>3. Notification(p, mark[p] + i, epoch + 1) \in Notifications
      BY <3>2 DEF Notification, Notifications
    <3> QED  BY <3>1, <3>2, <3>3, <1>1 DEF NamesNext, Notification
  <2> QED  BY <2>1, <2>2, <2>3, <2>4
<1>3. chan' = [p \in Pairs |-> SubSeq(Replayed(p), 1, Min({FillsCap, Len(Replayed(p))}))]
  BY DEF Crash
<1>4. ASSUME NEW p \in Pairs
      PROVE  /\ chan'[p] \in Seq(Notifications) /\ Len(chan'[p]) \in Nat
             /\ \A i \in 1..Len(chan'[p]) :
                    chan'[p][i] = Notification(p, mark[p] + i, epoch + 1) /\ NamesNext(p, chan'[p][i])
             /\ Len(chan'[p]) <= FillsCap
  <2> DEFINE L == Len(tape[p]) - mark[p]
  <2> DEFINE k == Min({FillsCap, L})
  <2>1. L \in Nat /\ Len(Replayed(p)) = L
    BY <1>2
  <2>2. k \in Nat /\ k <= L /\ k <= FillsCap
    <3>1. FillsCap \in Nat
      BY SettlementAssumption
    <3> HIDE DEF L
    <3>2. k = IF FillsCap <= L THEN FillsCap ELSE L
      BY <2>1, <3>1, MinOfTwo
    <3> QED  BY <2>1, <3>1, <3>2
  <2>3. chan'[p] = SubSeq(Replayed(p), 1, k)
    BY <1>3, <2>1
  <2>4. \A i \in 1..L : /\ Replayed(p)[i] = Notification(p, mark[p] + i, epoch + 1)
                        /\ Replayed(p)[i] \in Notifications /\ NamesNext(p, Replayed(p)[i])
    BY <1>2
  <2> HIDE DEF L, k
  <2>5. \A i \in 1..k : Replayed(p)[i] \in Notifications
    BY <2>1, <2>2, <2>4
  <2>6. /\ SubSeq(Replayed(p), 1, k) \in Seq(Notifications)
        /\ Len(SubSeq(Replayed(p), 1, k)) = IF 1 <= k THEN k - 1 + 1 ELSE 0
        /\ \A i \in 1..(k - 1 + 1) : SubSeq(Replayed(p), 1, k)[i] = Replayed(p)[1 + i - 1]
    BY <2>2, <2>5, SubSeqProperties
  <2>7. Len(chan'[p]) = k
    BY <2>2, <2>3, <2>6
  <2>8. ASSUME NEW i \in 1..k PROVE chan'[p][i] = Replayed(p)[i]
    BY <2>2, <2>3, <2>6
  <2> QED  BY <2>1, <2>2, <2>3, <2>4, <2>6, <2>7, <2>8
<1>5. chan' \in [Pairs -> Seq(Notifications)]
  BY <1>3, <1>4
<1>6. ASSUME NEW s \in spilled'
      PROVE  \E p \in Pairs : \E i \in Nat :
                  /\ i > FillsCap /\ s = [fill |-> Notification(p, mark[p] + i, epoch + 1), tries |-> Tries]
                  /\ NamesNext(p, s.fill)
  <2>1. spilled' = UNION {{[fill |-> Replayed(p)[i], tries |-> Tries] : i \in (FillsCap + 1)..Len(Replayed(p))} : p \in Pairs}
    BY DEF Crash
  <2>2. PICK p \in Pairs : s \in {[fill |-> Replayed(p)[i], tries |-> Tries] : i \in (FillsCap + 1)..Len(Replayed(p))}
    BY <2>1
  <2>3. PICK i \in (FillsCap + 1)..Len(Replayed(p)) : s = [fill |-> Replayed(p)[i], tries |-> Tries]
    BY <2>2
  <2>4. FillsCap \in Nat /\ Len(Replayed(p)) = Len(tape[p]) - mark[p] /\ Len(tape[p]) - mark[p] \in Nat
    BY <1>2, SettlementAssumption
  <2>5. i \in 1..(Len(tape[p]) - mark[p]) /\ i \in Nat /\ i > FillsCap
    BY <2>3, <2>4
  <2>6. Replayed(p)[i] = Notification(p, mark[p] + i, epoch + 1) /\ NamesNext(p, Replayed(p)[i])
    BY <1>2, <2>5
  <2>7. s.fill = Replayed(p)[i]
    BY <2>3
  <2>8. NamesNext(p, s.fill)
    BY <2>6, <2>7 DEF NamesNext
  <2> QED  BY <2>3, <2>5, <2>6, <2>8
<1> QED  BY <1>1, <1>4, <1>5, <1>6

\* A notification that the engine emits goes to the end of the channel, or to a
\* goroutine when the channel is full.
LEMMA EmitFillSteps ==
    ASSUME TypeInv, NEW p \in Pairs, NEW f \in Notifications, EmitFill(p, f)
    PROVE  \/ chan' = [chan EXCEPT ![p] = Append(@, f)] /\ spilled' = spilled
           \/ /\ chan' = chan /\ spilled' = spilled \cup {[fill |-> f, tries |-> Tries]}
              /\ Len(chan[p]) >= FillsCap
<1>1. Len(chan[p]) \in Nat /\ FillsCap \in Nat
  BY SettlementAssumption DEF TypeInv, Shape, ChanShape
<1> QED  BY <1>1 DEF EmitFill

\* What is appended to a channel comes after everything in it.
LEMMA ChanAppended ==
    ASSUME TypeInv, NEW p \in Pairs, NEW f \in Notifications, chan' = [chan EXCEPT ![p] = Append(@, f)]
    PROVE  /\ chan' \in [Pairs -> Seq(Notifications)]
           /\ \A q \in Pairs : q # p => chan'[q] = chan[q]
           /\ Len(chan[p]) \in Nat /\ Len(chan'[p]) = Len(chan[p]) + 1
           /\ \A i \in 1..Len(chan[p]) : chan'[p][i] = chan[p][i]
           /\ chan'[p][Len(chan[p]) + 1] = f
<1>1. chan \in [Pairs -> Seq(Notifications)] /\ Len(chan[p]) \in Nat
  BY DEF TypeInv, Shape, ChanShape
<1>2. chan'[p] = Append(chan[p], f)
  BY <1>1
<1>3. /\ Append(chan[p], f) \in Seq(Notifications) /\ Len(Append(chan[p], f)) = Len(chan[p]) + 1
      /\ \A i \in 1..Len(chan[p]) : Append(chan[p], f)[i] = chan[p][i]
      /\ Append(chan[p], f)[Len(chan[p]) + 1] = f
  BY <1>1, AppendProperties
<1> QED  BY <1>1, <1>2, <1>3

\* What the bridge takes is the first of its channel.
LEMMA ChanTaken ==
    ASSUME TypeInv, NEW p \in Pairs, BeginSettle(p)
    PROVE  /\ chan' \in [Pairs -> Seq(Notifications)]
           /\ \A q \in Pairs : q # p => chan'[q] = chan[q] /\ bridge'[q] = bridge[q]
           /\ Len(chan[p]) \in Nat /\ Len(chan[p]) > 0 /\ Len(chan'[p]) = Len(chan[p]) - 1
           /\ \A i \in 1..Len(chan'[p]) : chan'[p][i] = chan[p][i + 1]
           /\ bridge'[p].at = "settle" /\ bridge'[p].fill = chan[p][1] /\ Names(p, chan[p][1])
           /\ bridge[p] = Idle
<1>1. chan \in [Pairs -> Seq(Notifications)] /\ chan[p] # <<>> /\ bridge \in [Pairs -> BridgeStates]
  BY DEF TypeInv, Shape, ChanShape, BridgeShape, BeginSettle
<1>2. Len(chan[p]) \in Nat /\ Len(chan[p]) > 0 /\ Head(chan[p]) = chan[p][1] /\ Names(p, chan[p][1])
  BY <1>1, HeadFill DEF TypeInv
<1>3. chan' = [chan EXCEPT ![p] = Tail(@)]
  BY DEF BeginSettle
<1>4. /\ Tail(chan[p]) \in Seq(Notifications) /\ Len(Tail(chan[p])) = Len(chan[p]) - 1
      /\ \A i \in 1..Len(Tail(chan[p])) : Tail(chan[p])[i] = chan[p][i + 1]
  BY <1>1, HeadTailProperties
<1>5. /\ bridge'[p].at = "settle" /\ bridge'[p].fill = Head(chan[p]) /\ bridge[p] = Idle
      /\ \A q \in Pairs : q # p => bridge'[q] = bridge[q]
  BY <1>1 DEF BeginSettle
<1> QED  BY <1>1, <1>2, <1>3, <1>4, <1>5

\* What was named still is.
LEMMA StillNamed ==
    ASSUME TypeInv, [Next]_vars
    PROVE  \A p \in Pairs : \A f : Names(p, f) => NamesNext(p, f)
<1> SUFFICES ASSUME NEW p \in Pairs, NEW f, Names(p, f) PROVE NamesNext(p, f)
  OBVIOUS
<1>1. Names(p, f)'
  BY NamesKept
<1> QED  BY <1>1 DEF Names, NamesNext

\* The notification of a new fill.
LEMMA NewNotification ==
    ASSUME TypeInv, NEW t \in Orders, NEW m \in Orders, Execute(t, m)
    PROVE  LET p == Ticket[t].pair
               f == Notification(p, Len(tape[p]) + 1, epoch)
           IN  /\ p \in Pairs /\ f \in Notifications /\ NamesNext(p, f) /\ f.n = Len(tape[p]) + 1 /\ f.pair = p
               /\ UNCHANGED <<bridge, moved, epoch>>
               /\ \/ chan' = [chan EXCEPT ![p] = Append(@, f)] /\ spilled' = spilled
                  \/ /\ chan' = chan /\ spilled' = spilled \cup {[fill |-> f, tries |-> Tries]}
                     /\ Len(chan[p]) >= FillsCap
<1> DEFINE p == Ticket[t].pair
<1> DEFINE f == Notification(p, Len(tape[p]) + 1, epoch)
<1>1. p \in Pairs /\ NewFill(t, m) \in Fills /\ tape' = [tape EXCEPT ![p] = Append(@, NewFill(t, m))]
  BY NewFillType
<1>2. Len(tape[p]) \in Nat /\ tape[p] \in Seq(Fills) /\ epoch \in 0..MaxTrouble
  BY <1>1, SettlementAssumption DEF TypeInv, Shape, TapeShape, PlainTypes
<1>3. f \in Notifications /\ f.n = Len(tape[p]) + 1 /\ f.pair = p /\ f.epoch = epoch
  BY <1>1, <1>2 DEF Notification, Notifications
<1>4. UNCHANGED <<bridge, moved, epoch>> /\ EmitFill(p, f)
  BY DEF Execute, histVars
<1>5. Len(tape'[p]) = Len(tape[p]) + 1
  <2>1. tape'[p] = Append(tape[p], NewFill(t, m))
    BY <1>1 DEF TypeInv, Shape, TapeShape
  <2> QED  BY <1>1, <1>2, <2>1, AppendProperties
<1>6. NamesNext(p, f)
  BY <1>2, <1>3, <1>4, <1>5 DEF NamesNext
<1> HIDE DEF f, p
<1>7. \/ chan' = [chan EXCEPT ![p] = Append(@, f)] /\ spilled' = spilled
      \/ chan' = chan /\ spilled' = spilled \cup {[fill |-> f, tries |-> Tries]} /\ Len(chan[p]) >= FillsCap
  BY <1>1, <1>3, <1>4, EmitFillSteps
<1> QED  BY <1>1, <1>3, <1>4, <1>6, <1>7 DEF p, f

\* Every step keeps the channels well formed.
LEMMA ChanShapeKept ==
    ASSUME TypeInv, [Next]_vars
    PROVE  ChanShape'
<1> DEFINE Good == chan' \in [Pairs -> Seq(Notifications)] /\ \A p \in Pairs : \A i \in 1..Len(chan'[p]) : NamesNext(p, chan'[p][i])
<1> SUFFICES Good
  BY DEF ChanShape, Names, NamesNext
<1>0. /\ chan \in [Pairs -> Seq(Notifications)]
         /\ \A p \in Pairs : \A i \in 1..Len(chan[p]) : NamesNext(p, chan[p][i])
      /\ \A p \in Pairs : Len(chan[p]) \in Nat
  BY StillNamed DEF TypeInv, Shape, ChanShape
<1>1. ASSUME NEW p \in Pairs,
             NEW f \in Notifications, NamesNext(p, f), chan' = [chan EXCEPT ![p] = Append(@, f)] PROVE Good
  BY <1>0, <1>1, ChanAppended
<1>2. CASE chan' = chan
  BY <1>0, <1>2
<1>3. ASSUME NEW t \in Orders, NEW m \in Orders, Execute(t, m) PROVE Good
  BY <1>1, <1>2, <1>3, NewNotification
<1>4. ASSUME NEW s \in spilled, SpillSends(s) PROVE Good
  <2>1. s.fill \in Notifications /\ s.fill.pair \in Pairs /\ NamesNext(s.fill.pair, s.fill)
    BY StillNamed DEF TypeInv, Shape, SpillShape, Notifications
  <2>2. chan' = [chan EXCEPT ![s.fill.pair] = Append(@, s.fill)]
    BY <1>4 DEF SpillSends
  <2> QED  BY <1>1, <2>1, <2>2
<1>5. ASSUME NEW p \in Pairs, BeginSettle(p) PROVE Good
  <2>1. /\ chan' \in [Pairs -> Seq(Notifications)]
        /\ \A q \in Pairs : q # p => chan'[q] = chan[q]
        /\ Len(chan[p]) \in Nat /\ Len(chan'[p]) = Len(chan[p]) - 1
        /\ \A i \in 1..Len(chan'[p]) : chan'[p][i] = chan[p][i + 1]
    BY <1>5, ChanTaken
  <2>2. ASSUME NEW q \in Pairs, NEW i \in 1..Len(chan'[q]) PROVE NamesNext(q, chan'[q][i])
    <3>1. CASE q = p
      <4>1. i + 1 \in 1..Len(chan[p]) /\ chan'[p][i] = chan[p][i + 1]
        BY <2>1, <3>1
      <4> QED  BY <1>0, <3>1, <4>1
    <3>2. CASE q # p
      BY <1>0, <2>1, <3>2
    <3> QED  BY <3>1, <3>2
  <2> QED  BY <2>1, <2>2
<1>6. CASE Crash
  BY <1>6, CrashFills
<1>7. ASSUME NEW s \in spilled, SpillWaits(s) PROVE chan' = chan
  BY <1>7 DEF SpillWaits
<1>8. ASSUME NEW p \in Pairs, Settle(p) \/ ReleaseTaker(p) \/ ReleaseMaker(p) PROVE chan' = chan
  BY <1>8 DEF Settle, ReleaseTaker, ReleaseMaker, fillVars
<1>9. ASSUME NEW d \in Deposits, CreditDeposit(d) PROVE chan' = chan
  BY <1>9 DEF CreditDeposit, fillVars
<1> HIDE DEF Good
<1> QED  BY FillSteps, <1>2, <1>3, <1>4, <1>5, <1>6, <1>7, <1>8, <1>9

\* Every step keeps the goroutines of emitFill well formed.
LEMMA SpillShapeKept ==
    ASSUME TypeInv, [Next]_vars
    PROVE  SpillShape'
<1> DEFINE Good == \A s \in spilled' : s \in [fill : Notifications, tries : 1..Tries] /\ NamesNext(s.fill.pair, s.fill)
<1> SUFFICES Good
  BY DEF SpillShape, Names, NamesNext
<1>0. \A s \in spilled : s \in [fill : Notifications, tries : 1..Tries] /\ NamesNext(s.fill.pair, s.fill) /\ s.fill.pair \in Pairs
  BY StillNamed DEF TypeInv, Shape, SpillShape, Notifications
<1>0a. Tries \in Nat /\ Tries > 0
  BY SettlementAssumption
<1>1. ASSUME NEW f \in Notifications, NamesNext(f.pair, f),
             spilled' = spilled \cup {[fill |-> f, tries |-> Tries]} PROVE Good
  BY <1>0, <1>0a, <1>1
<1>2. CASE spilled' \subseteq spilled
  BY <1>0, <1>2
<1>3. ASSUME NEW t \in Orders, NEW m \in Orders, Execute(t, m) PROVE Good
  BY <1>1, <1>2, <1>3, NewNotification
<1>4. ASSUME NEW s \in spilled, SpillWaits(s) PROVE Good
  <2>1. CASE s.tries > 1
    <3> DEFINE r == [s EXCEPT !.tries = @ - 1]
    <3>1. spilled' = (spilled \ {s}) \cup {r}
      BY <1>4, <2>1 DEF SpillWaits
    <3>2. r \in [fill : Notifications, tries : 1..Tries] /\ r.fill = s.fill
      BY <1>0, <1>0a, <2>1
    <3> HIDE DEF r
    <3> QED  BY <1>0, <3>1, <3>2
  <2>2. CASE ~(s.tries > 1)
    BY <1>2, <1>4, <2>2 DEF SpillWaits
  <2> QED  BY <2>1, <2>2
<1>5. ASSUME NEW s \in spilled, SpillSends(s) PROVE Good
  BY <1>2, <1>5 DEF SpillSends
<1>6. CASE Crash
  <2> SUFFICES ASSUME NEW s \in spilled' PROVE s \in [fill : Notifications, tries : 1..Tries]
                      /\ NamesNext(s.fill.pair, s.fill)
    OBVIOUS
  <2>1. PICK p \in Pairs : \E i \in Nat : s = [fill |-> Notification(p, mark[p] + i, epoch + 1), tries |-> Tries] /\ NamesNext(p, s.fill)
    BY <1>6, CrashFills
  <2>2. s.fill \in Notifications /\ s.fill.pair = p /\ NamesNext(p, s.fill)
    BY <2>1 DEF NamesNext
  <2>3. s = [fill |-> s.fill, tries |-> Tries]
    BY <2>1
  <2> QED  BY <2>2, <2>3, <1>0a
<1>7. ASSUME NEW p \in Pairs, BeginSettle(p) \/ Settle(p) \/ ReleaseTaker(p)
             \/ ReleaseMaker(p) PROVE spilled' = spilled
  BY <1>7 DEF BeginSettle, Settle, ReleaseTaker, ReleaseMaker, fillVars
<1>8. ASSUME NEW d \in Deposits, CreditDeposit(d) PROVE spilled' = spilled
  BY <1>8 DEF CreditDeposit, fillVars
<1> HIDE DEF Good
<1> QED  BY FillSteps, <1>2, <1>3, <1>4, <1>5, <1>6, <1>7, <1>8

\* What the bridge does with the fill in hand.
LEMMA BridgeMoves ==
    ASSUME TypeInv, NEW p \in Pairs
    PROVE  /\ Settle(p) => /\ bridge[p].at = "settle"
                           /\ bridge' = [bridge EXCEPT ![p] = [at |-> "taker", fill |-> bridge[p].fill]]
           /\ ReleaseTaker(p) => /\ bridge[p].at = "taker"
                                 /\ bridge' = [bridge EXCEPT ![p] = [at |-> "maker", fill |-> bridge[p].fill]]
           /\ ReleaseMaker(p) => bridge' = [bridge EXCEPT ![p] = Idle]
<1>1. ASSUME ReleaseTaker(p)
      PROVE  bridge[p].at = "taker"
             /\ bridge' = [bridge EXCEPT ![p] = [at |-> "maker", fill |-> bridge[p].fill]]
  <2>1. bridge[p].at = "taker" /\ bridge' = [bridge EXCEPT ![p] = [bridge[p] EXCEPT !.at = "maker"]]
    BY <1>1 DEF ReleaseTaker
  <2>2. bridge[p] \in [at : {"taker", "maker"}, fill : Notifications]
    BY <2>1, BridgeFill DEF TypeInv
  <2>3. [bridge[p] EXCEPT !.at = "maker"] = [at |-> "maker", fill |-> bridge[p].fill]
    BY <2>2
  <2> QED  BY <2>1, <2>3
<1> QED  BY <1>1 DEF Settle, ReleaseMaker

\* Every step keeps the bridges well formed.
LEMMA BridgeShapeKept ==
    ASSUME TypeInv, [Next]_vars
    PROVE  BridgeShape'
<1> DEFINE Good == bridge' \in [Pairs -> BridgeStates] /\ \A p \in Pairs : bridge'[p].at # "idle" => NamesNext(p, bridge'[p].fill)
<1> SUFFICES Good
  BY DEF BridgeShape, Names, NamesNext
<1>0. bridge \in [Pairs -> BridgeStates]
      /\ \A p \in Pairs : bridge[p].at # "idle" => NamesNext(p, bridge[p].fill)
  BY StillNamed DEF TypeInv, Shape, BridgeShape
<1>1. CASE bridge' = bridge
  BY <1>0, <1>1
<1>2. ASSUME NEW p \in Pairs, NEW b \in BridgeStates, bridge' = [bridge EXCEPT ![p] = b],
             b.at # "idle" => NamesNext(p, b.fill)
      PROVE  Good
  BY <1>0, <1>2
<1>3. ASSUME NEW p \in Pairs, BeginSettle(p) PROVE Good
  <2> DEFINE f == Head(chan[p])
  <2> DEFINE x == Fill(f)
  <2> DEFINE b == [at |-> "settle", fill |-> f, fromBuyer |-> FromReservation(Buyer(x), BuyerDebit(x)), fromSeller |-> FromReservation(Seller(x), x.qty)]
  <2>1. f \in Notifications /\ NamesNext(p, f) /\ x \in Fills /\ IsFillOf(p, x)
    BY <1>3, HeadFill, StillNamed DEF BeginSettle, TypeInv, Names
  <2>2. bridge' = [bridge EXCEPT ![p] = b]
    BY <1>3 DEF BeginSettle
  <2> HIDE DEF x
  <2>3. FromReservation(Buyer(x), BuyerDebit(x)) \in Nat /\ FromReservation(Seller(x), x.qty) \in Nat
    <3>1. Buyer(x) \in Orders /\ Seller(x) \in Orders /\ BuyerDebit(x) \in Nat /\ x.qty \in Nat
      BY <2>1, FillParts
    <3> QED  BY <3>1, FromReservationType DEF TypeInv, WalletTypes
  <2> HIDE DEF f
  <2>4. b \in BridgeStates /\ b.fill = f
    BY <2>1, <2>3 DEF BridgeStates
  <2> HIDE DEF b
  <2> QED  BY <1>2, <2>1, <2>2, <2>4
<1>4. ASSUME NEW p \in Pairs, Settle(p) PROVE Good
  <2>1. bridge[p].at = "settle" /\ bridge' = [bridge EXCEPT ![p] = [at |-> "taker", fill |-> bridge[p].fill]]
    BY <1>4, BridgeMoves
  <2>2. bridge[p].fill \in Notifications /\ NamesNext(p, bridge[p].fill)
    BY <1>0, <2>1, BridgeFill DEF TypeInv
  <2>3. [at |-> "taker", fill |-> bridge[p].fill] \in BridgeStates
    BY <2>2 DEF BridgeStates
  <2> QED  BY <1>2, <2>1, <2>2, <2>3
<1>5. ASSUME NEW p \in Pairs, ReleaseTaker(p) PROVE Good
  <2>1. bridge[p].at = "taker" /\ bridge' = [bridge EXCEPT ![p] = [at |-> "maker", fill |-> bridge[p].fill]]
    BY <1>5, BridgeMoves
  <2>2. bridge[p].fill \in Notifications /\ NamesNext(p, bridge[p].fill)
    BY <1>0, <2>1, BridgeFill DEF TypeInv
  <2>3. [at |-> "maker", fill |-> bridge[p].fill] \in BridgeStates
    BY <2>2 DEF BridgeStates
  <2> QED  BY <1>2, <2>1, <2>2, <2>3
<1>6. ASSUME NEW p \in Pairs, ReleaseMaker(p) PROVE Good
  <2>1. bridge' = [bridge EXCEPT ![p] = Idle] /\ Idle \in BridgeStates /\ Idle.at = "idle"
    BY <1>6, BridgeMoves DEF BridgeStates, Idle
  <2> QED  BY <1>2, <2>1
<1>7. CASE Crash
  <2>1. bridge' = [p \in Pairs |-> Idle] /\ Idle \in BridgeStates /\ Idle.at = "idle"
    BY <1>7, CrashFills DEF BridgeStates, Idle
  <2> QED  BY <2>1
<1>8. ASSUME NEW s \in spilled, SpillSends(s) \/ SpillWaits(s) PROVE bridge' = bridge
  BY <1>8 DEF SpillSends, SpillWaits
<1>9. ASSUME NEW t \in Orders, NEW m \in Orders, Execute(t, m) PROVE bridge' = bridge
  BY <1>9, NewNotification
<1>10. ASSUME NEW d \in Deposits, CreditDeposit(d) PROVE bridge' = bridge
  BY <1>10 DEF CreditDeposit
<1> HIDE DEF Good
<1> QED  BY FillSteps, <1>1, <1>3, <1>4, <1>5, <1>6, <1>7, <1>8, <1>9, <1>10

\* What a step can add to what has moved.
LEMMA MovedSteps ==
    ASSUME TypeInv, [Next]_vars
    PROVE  \/ moved' = moved
           \/ \E d \in Deposits : dep[d] = "found" /\ CreditDeposit(d) /\ moved' = moved \cup {Credit(d)}
           \/ \E p \in Pairs : /\ Settle(p) /\ bridge[p].at = "settle"
                               /\ moved' = moved \cup {Delivery(bridge[p].fill)}
<1>1. ASSUME NEW d \in Deposits, CreditDeposit(d)
      PROVE  moved' = moved \/ (dep[d] = "found" /\ CreditDeposit(d) /\ moved' = moved \cup {Credit(d)})
  BY <1>1 DEF CreditDeposit
<1>2. ASSUME NEW p \in Pairs, Settle(p)
      PROVE  moved' = moved \/ (bridge[p].at = "settle" /\ moved' = moved \cup {Delivery(bridge[p].fill)})
  BY <1>2 DEF Settle
<1>3. ASSUME NEW p \in Pairs, BeginSettle(p) \/ ReleaseTaker(p) \/ ReleaseMaker(p) PROVE moved' = moved
  BY <1>3 DEF BeginSettle, ReleaseTaker, ReleaseMaker, histVars
<1>4. ASSUME NEW s \in spilled, SpillSends(s) \/ SpillWaits(s) PROVE moved' = moved
  BY <1>4 DEF SpillSends, SpillWaits
<1>5. ASSUME NEW t \in Orders, NEW m \in Orders, Execute(t, m) PROVE moved' = moved
  BY <1>5, NewNotification
<1>6. CASE Crash
  BY <1>6, CrashFills
<1> QED  BY FillSteps, <1>1, <1>2, <1>3, <1>4, <1>5, <1>6

\* Every step keeps what has moved well formed.
LEMMA MovedShapeKept ==
    ASSUME TypeInv, [Next]_vars
    PROVE  MovedShape'
<1> DEFINE Good == moved' \subseteq Deliveries \cup Credits /\ \A m \in moved' : m.kind = "fill" => NamesNext(m.of.pair, m.of)
<1> SUFFICES Good
  BY DEF MovedShape, Names, NamesNext
<1>0. moved \subseteq Deliveries \cup Credits /\ \A m \in moved : m.kind = "fill" => NamesNext(m.of.pair, m.of)
  BY StillNamed DEF TypeInv, Shape, MovedShape, Names, Notifications
<1>1. CASE moved' = moved
  BY <1>0, <1>1
<1>2. ASSUME NEW d \in Deposits, moved' = moved \cup {Credit(d)} PROVE Good
  <2>1. Credit(d) \in Credits /\ Credit(d).kind = "deposit"
    BY DEF Credit, Credits
  <2> QED  BY <1>0, <1>2, <2>1
<1>3. ASSUME NEW p \in Pairs, bridge[p].at = "settle", moved' = moved \cup {Delivery(bridge[p].fill)} PROVE Good
  <2>1. /\ bridge[p].fill \in Notifications /\ bridge[p].fill.pair = p /\ Fill(bridge[p].fill) \in Fills
        /\ NamesNext(p, bridge[p].fill)
    BY <1>3, BridgeFill, StillNamed DEF TypeInv
  <2>2. Delivery(bridge[p].fill) \in Deliveries /\ Delivery(bridge[p].fill).of = bridge[p].fill
    BY <2>1 DEF Delivery, Deliveries
  <2> QED  BY <1>0, <1>3, <2>1, <2>2
<1> HIDE DEF Good
<1> QED  BY MovedSteps, <1>1, <1>2, <1>3

\* Every step keeps the types.
LEMMA TypeInvKept == TypeInv /\ [Next]_vars => TypeInv'
<1> SUFFICES ASSUME TypeInv, [Next]_vars PROVE TypeInv'
  OBVIOUS
<1> QED
  BY WalletTypesKept, PlainTypesKept, TapeShapeKept, ChanShapeKept, SpillShapeKept, BridgeShapeKept,
     MovedShapeKept
  DEF TypeInv, Shape

\* Every initial state has the shapes and types.
LEMMA TypeInvInit == Init => TypeInv
<1> SUFFICES ASSUME Init PROVE TypeInv
  OBVIOUS
<1> USE SettlementAssumption DEF Init
<1>1. WalletTypes
  BY DEF WalletTypes
<1>2. PICK w \in Workloads : trouble = w.trouble
      /\ stage = [o \in Orders |-> IF o \in w.orders THEN "new" ELSE "over"]
             /\ dep = [d \in Deposits |-> IF d \in w.deposits THEN "new" ELSE "done"]
  OBVIOUS
<1>3. w.trouble \in 0..MaxTrouble
  BY <1>2
<1>4. PlainTypes
  <2>1. left \in [Orders -> Nat]
    BY TicketType
  <2>2. position \in [Accounts -> [qty : Int, cost : Int]]
    BY DEF Flat
  <2> QED  BY <1>2, <1>3, <2>1, <2>2 DEF PlainTypes
<1>5. TapeShape
  BY DEF TapeShape
<1>6. ChanShape
  BY DEF ChanShape
<1>7. SpillShape
  BY DEF SpillShape
<1>8. BridgeShape
  BY DEF BridgeShape, BridgeStates, Idle
<1>9. MovedShape
  BY DEF MovedShape
<1> QED  BY <1>1, <1>4, <1>5, <1>6, <1>7, <1>8, <1>9 DEF TypeInv, Shape

\* The shapes and types give the type invariant.
LEMMA TypeInvTypes == TypeInv => TypeOK
<1> SUFFICES ASSUME TypeInv PROVE TypeOK
  OBVIOUS
<1> USE SettlementAssumption DEF TypeInv
<1>1. /\ rows \subseteq Accounts
      /\ balance \in [Accounts -> Int] /\ locked \in [Accounts -> Nat]
      /\ reservations \in [Orders -> Nat] /\ left \in [Orders -> Nat]
      /\ stage \in [Orders -> {"new", "reserved", "live", "over"}]
      /\ position \in [Accounts -> [qty : Int, cost : Int]]
      /\ dep \in [Deposits -> Busy \cup {"new", "done"}]
  BY DEF WalletTypes, PlainTypes
<1>2. epoch \in 0..MaxTrouble /\ trouble \in 0..MaxTrouble
  BY DEF PlainTypes
<1>3. ASSUME NEW p \in Pairs
      PROVE  /\ mark[p] \in 0..Len(tape[p])
             /\ \A f \in Range(chan[p]) : f \in Notifications /\ f.n <= Len(tape[p])
             /\ bridge[p].at \in {"idle", "settle", "taker", "maker"}
  <2>1. mark[p] \in 0..Len(tape[p])
    BY DEF Shape, TapeShape
  <2>2. chan[p] \in Seq(Notifications) /\ \A i \in 1..Len(chan[p]) : Names(p, chan[p][i])
    BY DEF Shape, ChanShape
  <2>3. ASSUME NEW f \in Range(chan[p]) PROVE Names(p, f)
    <3>1. DOMAIN chan[p] = 1..Len(chan[p])
      BY <2>2
    <3>2. PICK i \in 1..Len(chan[p]) : f = chan[p][i]
      BY <3>1 DEF Range
    <3> QED  BY <2>2, <3>2
  <2>4. bridge[p] \in BridgeStates
    BY DEF Shape, BridgeShape
  <2>5. bridge[p].at \in {"idle", "settle", "taker", "maker"}
    BY <2>4 DEF BridgeStates, Idle
  <2> QED  BY <2>1, <2>3, <2>5 DEF Names
<1>4. \A s \in spilled : s.fill \in Notifications /\ s.tries \in 1..Tries
  BY DEF Shape, SpillShape
<1> QED  BY <1>1, <1>2, <1>3, <1>4 DEF TypeOK

\* Every variable holds what the code can put there, for every list of orders and
\* deposits, whatever fails and however often the gateway starts again: a
\* reservation and what is locked are never negative, and a notification names a
\* fill that was executed.
THEOREM TypeCorrect == Spec => []TypeOK
<1>1. Init => TypeInv
  BY TypeInvInit
<1>2. TypeInv /\ [Next]_vars => TypeInv'
  BY TypeInvKept
<1>3. TypeInv => TypeOK
  BY TypeInvTypes
<1> QED  BY <1>1, <1>2, <1>3, PTL DEF Spec

-------------------------------------------------------------------------------
(* No notification is twice on its way, or on its way and moved.             *)

Waiting == OnceInChan /\ OnceSpilled /\ OnceSettling /\ NotYetMoved

\* Steps that at most take notifications away keep them apart.
LEMMA FewerWaiting ==
    ASSUME TypeInv, Waiting, chan' = chan,
           \A s \in spilled' : \E r \in spilled : r.fill = s.fill,
           \A r, s \in spilled' : r.fill = s.fill => r = s,
           \A p \in Pairs : Settling(p)' => Settling(p) /\ bridge'[p].fill = bridge[p].fill,
           \A m \in moved' : m.kind = "fill" => m \in moved
    PROVE  Waiting'
<1> USE DEF Waiting
<1>0. \A s \in spilled : s.fill.pair \in Pairs
  BY DEF TypeInv, Shape, SpillShape, Notifications
<1>1. OnceInChan'
  BY DEF OnceInChan
<1>2. OnceSpilled'
  <2> SUFFICES ASSUME NEW s \in spilled', NEW i \in 1..Len(chan[s.fill.pair])
  PROVE chan[s.fill.pair][i] # s.fill
    BY DEF OnceSpilled
  <2>1. PICK r \in spilled : r.fill = s.fill
    OBVIOUS
  <2> QED  BY <2>1 DEF OnceSpilled
<1>3. OnceSettling'
  <2> SUFFICES ASSUME NEW p \in Pairs, Settling(p)'
               PROVE  /\ \A i \in 1..Len(chan'[p]) : chan'[p][i] # bridge'[p].fill
                      /\ \A s \in spilled' : s.fill # bridge'[p].fill
    BY DEF OnceSettling
  <2>1. Settling(p) /\ bridge'[p].fill = bridge[p].fill
    OBVIOUS
  <2> QED  BY <2>1 DEF OnceSettling
<1>4. NotYetMoved'
  <2> SUFFICES ASSUME NEW m \in moved', m.kind = "fill"
               PROVE  /\ \A i \in 1..Len(chan'[m.of.pair]) : chan'[m.of.pair][i] # m.of
                      /\ \A s \in spilled' : s.fill # m.of
                      /\ Settling(m.of.pair)' => bridge'[m.of.pair].fill # m.of
    BY DEF NotYetMoved
  <2>1. m \in moved /\ m.of.pair \in Pairs
    BY DEF TypeInv, Shape, MovedShape, Names, Notifications
  <2> QED  BY <2>1 DEF NotYetMoved
<1> QED  BY <1>1, <1>2, <1>3, <1>4

\* A fill's notification in moved is of a pair.
LEMMA MovedOnPair ==
    ASSUME TypeInv, NEW m \in moved, m.kind = "fill"
    PROVE  m.of \in Notifications /\ m.of.pair \in Pairs /\ Names(m.of.pair, m.of)
BY DEF TypeInv, Shape, MovedShape, Names, Notifications

\* A notification that is nowhere may enter its channel.
LEMMA OneMoreInChan ==
    ASSUME TypeInv, Waiting, NEW p \in Pairs, NEW f \in Notifications, f.pair = p,
           chan' = [chan EXCEPT ![p] = Append(@, f)],
           spilled' \subseteq spilled, bridge' = bridge, moved' = moved,
           \A i \in 1..Len(chan[p]) : chan[p][i] # f,
           \A s \in spilled' : s.fill # f,
           Settling(p) => bridge[p].fill # f,
           \A m \in moved : m.kind = "fill" => m.of # f
    PROVE  Waiting'
<1> USE DEF Waiting
<1>1. /\ \A q \in Pairs : q # p => chan'[q] = chan[q]
      /\ Len(chan[p]) \in Nat /\ Len(chan'[p]) = Len(chan[p]) + 1
      /\ \A i \in 1..Len(chan[p]) : chan'[p][i] = chan[p][i]
      /\ chan'[p][Len(chan[p]) + 1] = f
  BY ChanAppended
<1>2. \A i \in 1..Len(chan'[p]) : i \in 1..Len(chan[p]) \/ i = Len(chan[p]) + 1
  BY <1>1
<1>3. OnceInChan'
  BY <1>1, <1>2 DEF OnceInChan
<1>4. ASSUME NEW g, NEW q \in Pairs, g # f, \A i \in 1..Len(chan[q]) : chan[q][i] # g
      PROVE  \A i \in 1..Len(chan'[q]) : chan'[q][i] # g
  BY <1>1, <1>2, <1>4
<1>5. OnceSpilled'
  <2> SUFFICES ASSUME NEW s \in spilled'
  PROVE \A i \in 1..Len(chan'[s.fill.pair]) : chan'[s.fill.pair][i] # s.fill
    BY DEF OnceSpilled
  <2>1. s \in spilled /\ s.fill.pair \in Pairs /\ s.fill # f
    BY DEF TypeInv, Shape, SpillShape, Notifications
  <2> QED  BY <2>1, <1>4 DEF OnceSpilled
<1>6. OnceSettling'
  <2> SUFFICES ASSUME NEW q \in Pairs, Settling(q)
  PROVE \A i \in 1..Len(chan'[q]) : chan'[q][i] # bridge[q].fill
    BY DEF OnceSettling, Settling
  <2>1. bridge[q].fill.pair = q
    BY BridgeFill DEF TypeInv, Settling
  <2>2. bridge[q].fill # f
    BY <2>1
  <2> QED  BY <2>2, <1>4 DEF OnceSettling
<1>7. NotYetMoved'
  <2> SUFFICES ASSUME NEW m \in moved, m.kind = "fill"
  PROVE \A i \in 1..Len(chan'[m.of.pair]) : chan'[m.of.pair][i] # m.of
    BY DEF NotYetMoved, Settling
  <2> QED  BY <1>4, MovedOnPair DEF NotYetMoved
<1> QED  BY <1>3, <1>5, <1>6, <1>7

\* The notification of a new fill is nowhere yet.
LEMMA NewIsNowhere ==
    ASSUME TypeInv, NEW p \in Pairs, NEW f, f.pair = p, f.n = Len(tape[p]) + 1
    PROVE  /\ \A i \in 1..Len(chan[p]) : chan[p][i] # f
           /\ \A s \in spilled : s.fill # f
           /\ Settling(p) => bridge[p].fill # f
           /\ \A m \in moved : m.kind = "fill" => m.of # f
<1>1. \A q \in Pairs : \A g : Names(q, g) => g # f
  BY DEF Names, Notifications, TypeInv, Shape, TapeShape
<1>2. \A i \in 1..Len(chan[p]) : chan[p][i] # f
  BY <1>1 DEF TypeInv, Shape, ChanShape
<1>3. \A s \in spilled : s.fill # f
  BY <1>1 DEF TypeInv, Shape, SpillShape, Notifications
<1>4. Settling(p) => bridge[p].fill # f
  BY <1>1, BridgeFill DEF TypeInv, Settling
<1>5. \A m \in moved : m.kind = "fill" => m.of # f
  BY <1>1, MovedOnPair
<1> QED  BY <1>2, <1>3, <1>4, <1>5

\* Every step keeps the notifications apart.
LEMMA WaitingKept ==
    ASSUME TypeInv, Waiting, [Next]_vars
    PROVE  Waiting'
<1>1. CASE UNCHANGED <<chan, spilled, bridge, moved, tape, epoch>>
  BY <1>1, FewerWaiting DEF Waiting, OnceSpilled, Settling
<1>2. ASSUME NEW d \in Deposits, CreditDeposit(d) PROVE Waiting'
  <2>1. UNCHANGED <<chan, spilled, bridge>> /\ moved' \subseteq moved \cup {Credit(d)}
    BY <1>2 DEF CreditDeposit, fillVars
  <2>2. Credit(d).kind # "fill"
    BY DEF Credit
  <2> QED  BY <2>1, <2>2, FewerWaiting DEF Waiting, OnceSpilled, Settling
<1>3. ASSUME NEW t \in Orders, NEW m \in Orders, Execute(t, m) PROVE Waiting'
  <2> DEFINE p == Ticket[t].pair
  <2> DEFINE f == Notification(p, Len(tape[p]) + 1, epoch)
  <2>1. /\ p \in Pairs /\ f \in Notifications /\ f.n = Len(tape[p]) + 1 /\ f.pair = p
        /\ UNCHANGED <<bridge, moved>>
        /\ \/ chan' = [chan EXCEPT ![p] = Append(@, f)] /\ spilled' = spilled
           \/ chan' = chan /\ spilled' = spilled \cup {[fill |-> f, tries |-> Tries]}
    BY <1>3, NewNotification
  <2> HIDE DEF f, p
  <2>2. /\ \A i \in 1..Len(chan[p]) : chan[p][i] # f
        /\ \A s \in spilled : s.fill # f
        /\ Settling(p) => bridge[p].fill # f
        /\ \A k \in moved : k.kind = "fill" => k.of # f
    BY <2>1, NewIsNowhere
  <2>3. CASE chan' = [chan EXCEPT ![p] = Append(@, f)] /\ spilled' = spilled
    BY <2>1, <2>2, <2>3, OneMoreInChan
  <2>4. CASE chan' = chan /\ spilled' = spilled \cup {[fill |-> f, tries |-> Tries]}
    <3> DEFINE r == [fill |-> f, tries |-> Tries]
    <3>1. r.fill = f /\ chan' = chan /\ spilled' = spilled \cup {r} /\ UNCHANGED <<bridge, moved>>
      BY <2>1, <2>4
    <3> HIDE DEF r
    <3>2. OnceInChan'
      BY <3>1 DEF Waiting, OnceInChan
    <3>3. OnceSpilled'
      BY <3>1, <2>1, <2>2 DEF Waiting, OnceSpilled
    <3>4. OnceSettling'
      <4>1. \A q \in Pairs : Settling(q) => bridge[q].fill # f
        BY <2>1, <2>2, BridgeFill DEF TypeInv, Settling
      <4> QED  BY <3>1, <4>1 DEF Waiting, OnceSettling, Settling
    <3>5. NotYetMoved'
      BY <3>1, <2>2 DEF Waiting, NotYetMoved, Settling
    <3> QED  BY <3>2, <3>3, <3>4, <3>5 DEF Waiting
  <2> QED  BY <2>1, <2>3, <2>4
<1>4. ASSUME NEW s \in spilled, SpillSends(s) PROVE Waiting'
  <2> DEFINE f == s.fill
  <2>1. f \in Notifications /\ f.pair \in Pairs /\ s.fill = f
    BY DEF TypeInv, Shape, SpillShape, Notifications
  <2>2. /\ chan' = [chan EXCEPT ![f.pair] = Append(@, f)] /\ spilled' = spilled \ {s}
        /\ bridge' = bridge /\ moved' = moved
    BY <1>4 DEF SpillSends
  <2> HIDE DEF f
  <2>3. /\ \A i \in 1..Len(chan[f.pair]) : chan[f.pair][i] # f
        /\ \A r \in spilled' : r.fill # f
        /\ Settling(f.pair) => bridge[f.pair].fill # f
        /\ \A m \in moved : m.kind = "fill" => m.of # f
    BY <2>1, <2>2 DEF Waiting, OnceSpilled, OnceSettling, NotYetMoved
  <2> QED  BY <2>1, <2>2, <2>3, OneMoreInChan
<1>5. ASSUME NEW s \in spilled, SpillWaits(s) PROVE Waiting'
  <2>1. chan' = chan /\ bridge' = bridge /\ moved' = moved
    BY <1>5 DEF SpillWaits
  <2>2. spilled' = spilled \ {s} \/ \E r : r.fill = s.fill /\ spilled' = (spilled \ {s}) \cup {r}
    <3>1. s \in [fill : Notifications, tries : 1..Tries]
      BY DEF TypeInv, Shape, SpillShape
    <3>2. [s EXCEPT !.tries = @ - 1].fill = s.fill
      BY <3>1
    <3> QED  BY <1>5, <3>2 DEF SpillWaits
  <2>3. \A r \in spilled' : \E q \in spilled : q.fill = r.fill
    BY <2>2
  <2>4. \A q, r \in spilled' : q.fill = r.fill => q = r
    BY <2>2 DEF Waiting, OnceSpilled
  <2> QED  BY <2>1, <2>3, <2>4, FewerWaiting DEF Settling
<1>6. ASSUME NEW p \in Pairs, BeginSettle(p) PROVE Waiting'
  <2> DEFINE f == chan[p][1]
  <2>1. /\ \A q \in Pairs : q # p => chan'[q] = chan[q] /\ bridge'[q] = bridge[q]
        /\ Len(chan[p]) \in Nat /\ Len(chan[p]) > 0 /\ Len(chan'[p]) = Len(chan[p]) - 1
        /\ \A i \in 1..Len(chan'[p]) : chan'[p][i] = chan[p][i + 1]
        /\ bridge'[p].at = "settle" /\ bridge'[p].fill = f /\ f.pair = p
    BY <1>6, ChanTaken DEF Names
  <2>2. UNCHANGED <<spilled, moved>>
    BY <1>6 DEF BeginSettle, histVars
  <2>3. \A i \in 1..Len(chan'[p]) : i + 1 \in 1..Len(chan[p]) /\ 1 \in 1..Len(chan[p]) /\ i + 1 # 1
    BY <2>1
  <2>4. \A i \in 1..Len(chan'[p]) : chan'[p][i] # f
    BY <2>1, <2>3 DEF Waiting, OnceInChan
  <2>5. ASSUME NEW g, NEW q \in Pairs, \A i \in 1..Len(chan[q]) : chan[q][i] # g
        PROVE  \A i \in 1..Len(chan'[q]) : chan'[q][i] # g
    <3>1. CASE q = p
      BY <2>1, <2>3, <2>5, <3>1
    <3>2. CASE q # p
      BY <2>1, <2>5, <3>2
    <3> QED  BY <3>1, <3>2
  <2>6. 1 \in 1..Len(chan[p])
    BY <2>1
  <2>7. \A s \in spilled : s.fill # f
    BY <2>1, <2>6 DEF Waiting, OnceSpilled
  <2>8. \A m \in moved : m.kind = "fill" => m.of # f
    BY <2>1, <2>6 DEF Waiting, NotYetMoved
  <2> HIDE DEF f
  <2>9. OnceInChan'
    <3> SUFFICES ASSUME NEW q \in Pairs, NEW i \in 1..Len(chan'[q]),
                        NEW j \in 1..Len(chan'[q]), chan'[q][i] = chan'[q][j] PROVE i = j
      BY DEF OnceInChan
    <3>1. CASE q # p
      BY <2>1, <3>1 DEF Waiting, OnceInChan
    <3>2. CASE q = p
      <4>1. chan[p][i + 1] = chan[p][j + 1] /\ i + 1 \in 1..Len(chan[p]) /\ j + 1 \in 1..Len(chan[p])
        BY <2>1, <2>3, <3>2
      <4>2. i + 1 = j + 1
        BY <4>1 DEF Waiting, OnceInChan
      <4> QED  BY <4>2
    <3> QED  BY <3>1, <3>2
  <2>10. OnceSpilled'
    <3>1. \A s \in spilled : s.fill.pair \in Pairs
      BY DEF TypeInv, Shape, SpillShape, Notifications
    <3>2. ASSUME NEW s \in spilled PROVE \A i \in 1..Len(chan'[s.fill.pair]) : chan'[s.fill.pair][i] # s.fill
      BY <3>1, <2>5 DEF Waiting, OnceSpilled
    <3> QED  BY <2>2, <3>2 DEF Waiting, OnceSpilled
  <2>11. OnceSettling'
    <3>1. ASSUME NEW q \in Pairs, q # p, Settling(q)
          PROVE  /\ \A i \in 1..Len(chan'[q]) : chan'[q][i] # bridge'[q].fill
                 /\ \A s \in spilled' : s.fill # bridge'[q].fill
      BY <2>1, <2>2, <3>1 DEF Waiting, OnceSettling
    <3> QED  BY <3>1, <2>1, <2>2, <2>4, <2>7 DEF OnceSettling, Settling
  <2>12. NotYetMoved'
    <3> SUFFICES ASSUME NEW m \in moved, m.kind = "fill"
                 PROVE  /\ \A i \in 1..Len(chan'[m.of.pair]) : chan'[m.of.pair][i] # m.of
                        /\ \A s \in spilled' : s.fill # m.of
                        /\ Settling(m.of.pair)' => bridge'[m.of.pair].fill # m.of
      BY <2>2 DEF NotYetMoved
    <3>1. m.of.pair \in Pairs
      BY MovedOnPair
    <3>2. \A i \in 1..Len(chan'[m.of.pair]) : chan'[m.of.pair][i] # m.of
      BY <3>1, <2>5 DEF Waiting, NotYetMoved
    <3>3. Settling(m.of.pair)' => bridge'[m.of.pair].fill # m.of
      BY <3>1, <2>1, <2>8 DEF Waiting, NotYetMoved, Settling
    <3> QED  BY <2>2, <3>2, <3>3 DEF Waiting, NotYetMoved
  <2> QED  BY <2>9, <2>10, <2>11, <2>12 DEF Waiting
<1>7. ASSUME NEW p \in Pairs, Settle(p) PROVE Waiting'
  <2>0. PICK f : f = bridge[p].fill
    OBVIOUS
  <2>1. /\ bridge[p].at = "settle" /\ bridge' = [bridge EXCEPT ![p] = [at |-> "taker", fill |-> f]]
        /\ chan' = chan /\ spilled' = spilled /\ bridge \in [Pairs -> BridgeStates]
    BY <1>7, <2>0, BridgeMoves DEF Settle, fillVars, TypeInv, Shape, BridgeShape
  <2>2. moved' = moved \/ moved' = moved \cup {Delivery(f)}
    BY <1>7, <2>0 DEF Settle
  <2>3. f.pair = p /\ Delivery(f).of = f
    BY <2>0, <2>1, BridgeFill DEF TypeInv, Delivery
  <2>4. bridge'[p].at # "settle" /\ \A q \in Pairs : q # p => bridge'[q] = bridge[q]
    BY <2>1
  <2>4a. \A q \in Pairs : Settling(q)' => Settling(q) /\ bridge'[q].fill = bridge[q].fill
    BY <2>4 DEF Settling
  <2>5. CASE moved' = moved
    BY <2>1, <2>4a, <2>5, FewerWaiting DEF Waiting, OnceSpilled
  <2>6. CASE moved' = moved \cup {Delivery(f)}
    <3>1. OnceInChan' /\ OnceSpilled'
      BY <2>1 DEF Waiting, OnceInChan, OnceSpilled
    <3>2. OnceSettling'
      BY <2>1, <2>4, <2>4a DEF Waiting, OnceSettling
    <3>3. /\ \A i \in 1..Len(chan'[f.pair]) : chan'[f.pair][i] # f
          /\ \A s \in spilled' : s.fill # f
          /\ ~Settling(f.pair)'
      BY <2>0, <2>1, <2>3, <2>4, BridgeFill DEF Waiting, OnceSettling, Settling, TypeInv
    <3>4. ASSUME NEW m \in moved, m.kind = "fill"
          PROVE  /\ \A i \in 1..Len(chan'[m.of.pair]) : chan'[m.of.pair][i] # m.of
                 /\ \A s \in spilled' : s.fill # m.of
                 /\ Settling(m.of.pair)' => bridge'[m.of.pair].fill # m.of
      BY <2>1, <2>4a, <3>4, MovedOnPair DEF Waiting, NotYetMoved
    <3>5. NotYetMoved'
      <4> SUFFICES ASSUME NEW m \in moved', m.kind = "fill"
                   PROVE  /\ \A i \in 1..Len(chan'[m.of.pair]) : chan'[m.of.pair][i] # m.of
                          /\ \A s \in spilled' : s.fill # m.of
                          /\ Settling(m.of.pair)' => bridge'[m.of.pair].fill # m.of
        BY DEF NotYetMoved
      <4>1. CASE m \in moved
        BY <3>4, <4>1
      <4>2. CASE m = Delivery(f)
        <5>1. m.of = f /\ m.of.pair = f.pair
          BY <2>3, <4>2
        <5> QED  BY <5>1, <3>3 DEF Settling
      <4> QED  BY <2>6, <4>1, <4>2
    <3> QED  BY <3>1, <3>2, <3>5 DEF Waiting
  <2> QED  BY <2>2, <2>5, <2>6
<1>8. ASSUME NEW p \in Pairs, ReleaseTaker(p) \/ ReleaseMaker(p) PROVE Waiting'
  <2>1. UNCHANGED <<chan, spilled, moved>>
    BY <1>8 DEF ReleaseTaker, ReleaseMaker, fillVars
  <2>2. \/ bridge' = [bridge EXCEPT ![p] = [at |-> "maker", fill |-> bridge[p].fill]]
        \/ bridge' = [bridge EXCEPT ![p] = Idle]
    BY <1>8, BridgeMoves
  <2>3. Idle.at # "settle" /\ bridge \in [Pairs -> BridgeStates]
    BY DEF Idle, TypeInv, Shape, BridgeShape
  <2>4. bridge'[p].at # "settle" /\ \A q \in Pairs : q # p => bridge'[q] = bridge[q]
    BY <2>2, <2>3
  <2>5. \A q \in Pairs : Settling(q)' => Settling(q) /\ bridge'[q].fill = bridge[q].fill
    BY <2>4 DEF Settling
  <2> QED  BY <2>1, <2>5, FewerWaiting DEF Waiting, OnceSpilled
<1>9. CASE Crash
  <2>1. bridge' = [p \in Pairs |-> Idle] /\ moved' = moved /\ Idle.at # "settle" /\ epoch \in Nat
    BY <1>9, CrashFills DEF Idle, TypeInv, PlainTypes
  <2>2. \A p \in Pairs : ~Settling(p)'
    BY <2>1 DEF Settling
  <2>3. \A p \in Pairs : mark[p] \in Nat
    BY DEF TypeInv, Shape, TapeShape
  <2>4. ASSUME NEW p \in Pairs, NEW i \in 1..Len(chan'[p])
        PROVE  chan'[p][i].n = mark[p] + i /\ chan'[p][i].epoch = epoch + 1
    <3>1. chan'[p][i] = Notification(p, mark[p] + i, epoch + 1)
      BY <1>9, CrashFills
    <3> QED  BY <3>1 DEF Notification
  <2>5. ASSUME NEW s \in spilled'
        PROVE  \E p \in Pairs : \E i \in Nat : /\ i > FillsCap /\ s = [fill |-> Notification(p, mark[p] + i, epoch + 1), tries |-> Tries]
                                               /\ s.fill.pair = p /\ s.fill.n = mark[p] + i
                                                  /\ s.fill.epoch = epoch + 1
    <3>1. PICK p \in Pairs : \E i \in Nat : i > FillsCap /\ s = [fill |-> Notification(p, mark[p] + i, epoch + 1), tries |-> Tries]
      BY <1>9, CrashFills
    <3>2. PICK i \in Nat : i > FillsCap
          /\ s = [fill |-> Notification(p, mark[p] + i, epoch + 1), tries |-> Tries]
      BY <3>1
    <3>3. s.fill = Notification(p, mark[p] + i, epoch + 1)
      BY <3>2
    <3>4. s.fill.pair = p /\ s.fill.n = mark[p] + i /\ s.fill.epoch = epoch + 1
      BY <3>3 DEF Notification
    <3> QED  BY <3>2, <3>4
  <2>6. OnceInChan'
    <3> SUFFICES ASSUME NEW p \in Pairs, NEW i \in 1..Len(chan'[p]),
                        NEW j \in 1..Len(chan'[p]), chan'[p][i] = chan'[p][j] PROVE i = j
      BY DEF OnceInChan
    <3>1. mark[p] + i = mark[p] + j
      BY <2>4
    <3> QED  BY <3>1, <2>3
  <2>7. OnceSpilled'
    <3>1. ASSUME NEW r \in spilled', NEW s \in spilled', r.fill = s.fill PROVE r = s
      <4>1. PICK p \in Pairs : \E i \in Nat : r = [fill |-> Notification(p, mark[p] + i, epoch + 1), tries |-> Tries]
        BY <2>5
      <4>2. PICK q \in Pairs : \E i \in Nat : s = [fill |-> Notification(q, mark[q] + i, epoch + 1), tries |-> Tries]
        BY <2>5
      <4>3. r = [fill |-> r.fill, tries |-> Tries] /\ s = [fill |-> s.fill, tries |-> Tries]
        BY <4>1, <4>2
      <4> QED  BY <4>3, <3>1
    <3>2. ASSUME NEW s \in spilled', NEW i \in 1..Len(chan'[s.fill.pair]), chan'[s.fill.pair][i] = s.fill
          PROVE FALSE
      <4>1. PICK p \in Pairs : \E k \in Nat : k > FillsCap /\ s.fill.pair = p /\ s.fill.n = mark[p] + k
        BY <2>5
      <4>2. PICK k \in Nat : k > FillsCap /\ s.fill.pair = p /\ s.fill.n = mark[p] + k
        BY <4>1
      <4>3. Len(chan'[p]) <= FillsCap /\ Len(chan'[p]) \in Nat /\ FillsCap \in Nat
        BY <1>9, CrashFills, SettlementAssumption
      <4>4. mark[p] + i = mark[p] + k /\ i \in 1..Len(chan'[p])
        BY <3>2, <4>2, <2>4
      <4> QED  BY <4>2, <4>3, <4>4, <2>3
    <3> QED  BY <3>1, <3>2 DEF OnceSpilled
  <2>8. OnceSettling'
    BY <2>2 DEF OnceSettling
  <2>9. NotYetMoved'
    <3> SUFFICES ASSUME NEW m \in moved, m.kind = "fill"
                 PROVE  /\ \A i \in 1..Len(chan'[m.of.pair]) : chan'[m.of.pair][i] # m.of
                        /\ \A s \in spilled' : s.fill # m.of
      BY <2>1, <2>2, MovedOnPair DEF NotYetMoved
    <3>1. m.of.epoch \in Nat /\ m.of.epoch <= epoch /\ m.of.pair \in Pairs
      BY MovedOnPair, SettlementAssumption DEF Names, Notifications
    <3> QED  BY <3>1, <2>1, <2>4, <2>5
  <2> QED  BY <2>6, <2>7, <2>8, <2>9 DEF Waiting
<1> QED  BY FillSteps, <1>1, <1>2, <1>3, <1>4, <1>5, <1>6, <1>7, <1>8, <1>9

-------------------------------------------------------------------------------
(* The ledger.                                                               *)

\* What a deposit request does in a step, and what the steps of others do to it.
LEMMA DepSteps ==
    ASSUME TypeInv, [Next]_vars
    PROVE  \/ dep' = dep \/ \E d \in Deposits : BeginDeposit(d) \/ FindWallet(d) \/ CreateWallet(d)
                                                \/ CreditDeposit(d) \/ CreditGhost(d) \/ RecordDeposit(d)
           \/ Crash
<1> DEFINE Goal == \/ dep' = dep \/ \E d \in Deposits : BeginDeposit(d) \/ FindWallet(d) \/ CreateWallet(d)
                                                \/ CreditDeposit(d) \/ CreditGhost(d) \/ RecordDeposit(d)
                   \/ Crash
<1> USE DEF walletVars, orderVars, engineVars, fillVars, depVars, histVars
<1>1. ASSUME NEW o \in Orders, ReserveOrder(o) PROVE Goal
  BY <1>1 DEF ReserveOrder, Trouble, Lapse
<1>2. ASSUME NEW o \in Orders, Submit(o) PROVE Goal
  BY <1>2 DEF Submit, Lapse
<1>3. ASSUME NEW o \in Orders, Cancel(o) PROVE Goal
  BY <1>3 DEF Cancel
<1>4. ASSUME NEW d \in Deposits, BeginDeposit(d) PROVE Goal
  BY <1>4
<1>5. ASSUME NEW d \in Deposits, FindWallet(d) PROVE Goal
  BY <1>5
<1>6. ASSUME NEW d \in Deposits, CreateWallet(d) PROVE Goal
  BY <1>6
<1>7. ASSUME NEW d \in Deposits, CreditDeposit(d) PROVE Goal
  BY <1>7
<1>8. ASSUME NEW d \in Deposits, CreditGhost(d) PROVE Goal
  BY <1>8
<1>9. ASSUME NEW d \in Deposits, RecordDeposit(d) PROVE Goal
  BY <1>9
<1>10. ASSUME NEW t \in Orders, NEW m \in Orders, Execute(t, m) PROVE Goal
  BY <1>10 DEF Execute, EmitFill
<1>11. ASSUME NEW p \in Pairs, Snapshot(p) PROVE Goal
  BY <1>11 DEF Snapshot
<1>12. ASSUME NEW s \in spilled, SpillSends(s) PROVE Goal
  BY <1>12 DEF SpillSends, Lapse
<1>13. ASSUME NEW s \in spilled, SpillWaits(s) PROVE Goal
  BY <1>13 DEF SpillWaits
<1>14. ASSUME NEW p \in Pairs, BeginSettle(p) PROVE Goal
  BY <1>14 DEF BeginSettle
<1>15. ASSUME NEW p \in Pairs, Settle(p) PROVE Goal
  BY <1>15 DEF Settle, Trouble, Lapse
<1>16. ASSUME NEW p \in Pairs, ReleaseTaker(p) PROVE Goal
  BY <1>16 DEF ReleaseTaker, ReleaseOrder, Trouble, Lapse
<1>17. ASSUME NEW p \in Pairs, ReleaseMaker(p) PROVE Goal
  BY <1>17 DEF ReleaseMaker, ReleaseOrder, Trouble, Lapse
<1>18. ASSUME Crash PROVE Goal
  BY <1>18
<1>19. CASE UNCHANGED vars
  BY <1>19 DEF vars
<1> QED
  BY <1>1, <1>2, <1>3, <1>4, <1>5, <1>6, <1>7, <1>8, <1>9, <1>10, <1>11, <1>12,
<1>13, <1>14, <1>15, <1>16, <1>17, <1>18, <1>19 DEF Next, ClientStep,
DepositStep, EngineStep, SpillStep, BridgeStep

\* A request that credited its amount never does so again (Deposit).
LEMMA CreditsOnceKept ==
    ASSUME TypeInv, CreditsOnce, [Next]_vars
    PROVE  CreditsOnce'
<1>0. dep \in [Deposits -> Busy \cup {"new", "done"}]
  BY DEF TypeInv, PlainTypes
<1>1. ASSUME NEW d \in Deposits, Credit(d) \in moved PROVE dep'[d] \in {"credited", "done"}
  <2>1. dep[d] \in {"credited", "done"}
    BY <1>1 DEF CreditsOnce
  <2>2. ASSUME NEW e \in Deposits, BeginDeposit(e) \/ FindWallet(e) \/ CreateWallet(e)
                                   \/ CreditDeposit(e) \/ CreditGhost(e) \/ RecordDeposit(e)
        PROVE  dep'[d] \in {"credited", "done"}
    BY <1>0, <2>1, <2>2
       DEF BeginDeposit, FindWallet, CreateWallet, CreditDeposit, CreditGhost, RecordDeposit, DepositMoves
  <2>3. CASE Crash
    BY <2>1, <2>3 DEF Crash
  <2> QED  BY <2>1, <2>2, <2>3, DepSteps
<1>2. ASSUME NEW d \in Deposits, Credit(d) \in moved', Credit(d) \notin moved
      PROVE dep'[d] \in {"credited", "done"}
  <2>1. ASSUME NEW e \in Deposits, CreditDeposit(e), moved' = moved \cup {Credit(e)}
        PROVE dep'[d] \in {"credited", "done"}
    <3>1. Credit(d) = Credit(e)
      BY <1>2, <2>1
    <3>2. d = e
      BY <3>1 DEF Credit
    <3> QED  BY <1>0, <2>1, <3>2 DEF CreditDeposit, DepositMoves
  <2>2. ASSUME NEW f, moved' = moved \cup {Delivery(f)} PROVE FALSE
    <3>1. Credit(d) = Delivery(f)
      BY <1>2, <2>2
    <3>2. Credit(d).kind = "deposit" /\ Delivery(f).kind = "fill"
      BY DEF Credit, Delivery
    <3> QED  BY <3>1, <3>2
  <2> QED  BY <1>2, <2>1, <2>2, MovedSteps
<1> QED  BY <1>1, <1>2 DEF CreditsOnce

\* The balances change only when something moves.
LEMMA BalanceSteps ==
    ASSUME TypeInv, [Next]_vars
    PROVE  \/ UNCHANGED <<balance, moved>>
           \/ \E d \in Deposits : /\ dep[d] = "found" /\ moved' = moved \cup {Credit(d)}
                                  /\ balance' = [balance EXCEPT ![AccountOf(d)] = @ + Deposit[d].amount]
           \/ \E p \in Pairs : /\ bridge[p].at = "settle" /\ moved' = moved \cup {Delivery(bridge[p].fill)}
                               /\ balance' = Applied(Fill(bridge[p].fill))
<1> DEFINE Goal ==
           \/ UNCHANGED <<balance, moved>>
           \/ \E d \in Deposits : /\ dep[d] = "found" /\ moved' = moved \cup {Credit(d)}
                                  /\ balance' = [balance EXCEPT ![AccountOf(d)] = @ + Deposit[d].amount]
           \/ \E p \in Pairs : /\ bridge[p].at = "settle" /\ moved' = moved \cup {Delivery(bridge[p].fill)}
                               /\ balance' = Applied(Fill(bridge[p].fill))
<1> USE DEF walletVars, orderVars, engineVars, fillVars, depVars, histVars
<1>1. ASSUME NEW o \in Orders, ReserveOrder(o) PROVE Goal
  BY <1>1 DEF ReserveOrder, Trouble, Lapse
<1>2. ASSUME NEW o \in Orders, Submit(o) PROVE Goal
  BY <1>2 DEF Submit, Lapse
<1>3. ASSUME NEW o \in Orders, Cancel(o) PROVE Goal
  BY <1>3 DEF Cancel
<1>4. ASSUME NEW d \in Deposits, BeginDeposit(d) PROVE Goal
  BY <1>4 DEF BeginDeposit, DepositMoves
<1>5. ASSUME NEW d \in Deposits, FindWallet(d) PROVE Goal
  BY <1>5 DEF FindWallet, DepositMoves, Trouble
<1>6. ASSUME NEW d \in Deposits, CreateWallet(d) PROVE Goal
  BY <1>6 DEF CreateWallet, DepositMoves
<1>7. ASSUME NEW d \in Deposits, CreditDeposit(d) PROVE Goal
  BY <1>7 DEF CreditDeposit, DepositMoves, Trouble, Lapse
<1>8. ASSUME NEW d \in Deposits, CreditGhost(d) PROVE Goal
  BY <1>8 DEF CreditGhost, DepositMoves
<1>9. ASSUME NEW d \in Deposits, RecordDeposit(d) PROVE Goal
  BY <1>9 DEF RecordDeposit, DepositMoves, Trouble, Lapse
<1>10. ASSUME NEW t \in Orders, NEW m \in Orders, Execute(t, m) PROVE Goal
  BY <1>10 DEF Execute, EmitFill
<1>11. ASSUME NEW p \in Pairs, Snapshot(p) PROVE Goal
  BY <1>11 DEF Snapshot
<1>12. ASSUME NEW s \in spilled, SpillSends(s) PROVE Goal
  BY <1>12 DEF SpillSends, Lapse
<1>13. ASSUME NEW s \in spilled, SpillWaits(s) PROVE Goal
  BY <1>13 DEF SpillWaits
<1>14. ASSUME NEW p \in Pairs, BeginSettle(p) PROVE Goal
  BY <1>14 DEF BeginSettle
<1>15. ASSUME NEW p \in Pairs, Settle(p) PROVE Goal
  BY <1>15 DEF Settle
<1>16. ASSUME NEW p \in Pairs, ReleaseTaker(p) PROVE Goal
  BY <1>16 DEF ReleaseTaker, ReleaseOrder, Trouble, Lapse
<1>17. ASSUME NEW p \in Pairs, ReleaseMaker(p) PROVE Goal
  BY <1>17 DEF ReleaseMaker, ReleaseOrder, Trouble, Lapse
<1>18. ASSUME Crash PROVE Goal
  BY <1>18 DEF Crash, Trouble, Lapse
<1>19. CASE UNCHANGED vars
  BY <1>19 DEF vars
<1> QED
  BY <1>1, <1>2, <1>3, <1>4, <1>5, <1>6, <1>7, <1>8, <1>9, <1>10, <1>11, <1>12,
<1>13, <1>14, <1>15, <1>16, <1>17, <1>18, <1>19 DEF Next, ClientStep,
DepositStep, EngineStep, SpillStep, BridgeStep

\* A deposit is one movement of the ledger.
LEMMA DepositMovesFunds ==
    ASSUME TypeInv, CreditsOnce, NEW d \in Deposits, dep[d] = "found", moved' = moved \cup {Credit(d)},
           balance' = [balance EXCEPT ![AccountOf(d)] = @ + Deposit[d].amount]
    PROVE  Book!Next
<1>1. Credit(d) \in Credits /\ Credit(d) \notin moved
  BY DEF Credit, Credits, CreditsOnce
<1>2. \A a \in Funded : balance[a] \in Int /\ a \in Accounts
  BY SettlementAssumption DEF TypeInv, WalletTypes
<1>3. Deposit[d].amount \in Int /\ Credit(d).kind = "deposit" /\ Credit(d).of = d
  BY SettlementAssumption DEF Credit
<1>4. \A a \in Funded : balance'[a] = balance[a] + Change(Credit(d), a)
  <2> SUFFICES ASSUME NEW a \in Funded PROVE balance'[a] = balance[a] + Change(Credit(d), a)
    OBVIOUS
  <2>1. Change(Credit(d), a) = IF a = AccountOf(d) THEN Deposit[d].amount ELSE 0
    BY <1>3 DEF Change
  <2>2. balance'[a] = IF a = AccountOf(d) THEN balance[a] + Deposit[d].amount ELSE balance[a]
    BY <1>2 DEF TypeInv, WalletTypes
  <2> QED  BY <1>2, <2>1, <2>2
<1>5. Book!Move(Credit(d))
  BY <1>1, <1>4 DEF Book!Move, Credits
<1> QED  BY <1>5 DEF Book!Next

\* The delivery of a fill is one movement of the ledger.
LEMMA FillMovesFunds ==
    ASSUME TypeInv, Waiting, NEW p \in Pairs, bridge[p].at = "settle",
           moved' = moved \cup {Delivery(bridge[p].fill)}, balance' = Applied(Fill(bridge[p].fill))
    PROVE  Book!Next
<1> DEFINE f == bridge[p].fill
<1>1. f \in Notifications /\ f.pair = p /\ Fill(f) \in Fills
  BY BridgeFill DEF TypeInv
<1>2. Delivery(f) \in Deliveries /\ Delivery(f).kind = "fill" /\ Delivery(f).of = f
      /\ Delivery(f).fill = Fill(f)
  BY <1>1 DEF Delivery, Deliveries
<1>3. Delivery(f) \notin moved
  BY <1>1, <1>2 DEF Waiting, NotYetMoved, Settling
<1>4. \A a \in Funded : balance'[a] = balance[a] + Change(Delivery(f), a)
  <2> SUFFICES ASSUME NEW a \in Funded PROVE balance'[a] = balance[a] + Change(Delivery(f), a)
    OBVIOUS
  <2>1. a \in rows /\ a \in Accounts
    BY DEF TypeInv, WalletTypes
  <2>2. balance'[a] = balance[a] + Changes(Fill(f), a)
    BY <2>1 DEF Applied
  <2>3. Change(Delivery(f), a) = Changes(Fill(f), a)
    BY <1>2 DEF Change
  <2> QED  BY <2>2, <2>3
<1>5. PICK m : m = Delivery(f)
  OBVIOUS
<1>6. Book!Move(m) /\ m \in moved'
  BY <1>2, <1>3, <1>4, <1>5 DEF Book!Move, Deliveries
<1> QED  BY <1>6 DEF Book!Next

LedgerInv == TypeInv /\ Waiting /\ CreditsOnce

\* Nothing waits and nothing has moved at the start.
LEMMA LedgerInvInit == Init => LedgerInv
<1> SUFFICES ASSUME Init PROVE LedgerInv
  OBVIOUS
<1>1. TypeInv
  BY TypeInvInit
<1>2. Waiting
  BY SettlementAssumption DEF Init, Waiting, OnceInChan, OnceSpilled, OnceSettling, NotYetMoved,
     Settling, Idle
<1>3. CreditsOnce
  BY DEF Init, CreditsOnce
<1> QED  BY <1>1, <1>2, <1>3 DEF LedgerInv

\* Every step keeps each notification in one place and each deposit credited once.
LEMMA LedgerInvKept == LedgerInv /\ [Next]_vars => LedgerInv'
BY TypeInvKept, WaitingKept, CreditsOnceKept DEF LedgerInv

\* Refinement: on the accounts that have a wallet row from the start, each delivery
\* of a fill and each deposit request moves all of its funds in one step and at
\* most once, whatever fails in between and however often the gateway starts again
\* (SettleFill, Deposit).
THEOREM LedgerImplemented == Spec => ImplementsLedger
<1>1. Init => Book!Init
  BY SettlementAssumption DEF Init, Book!Init
<1>2. LedgerInv /\ [Next]_vars => [Book!Next]_<<[x \in Funded |-> balance[x]], moved>>
  <2> SUFFICES ASSUME LedgerInv, [Next]_vars
               PROVE  Book!Next \/ UNCHANGED <<balance, moved>>
    OBVIOUS
  <2> QED  BY BalanceSteps, DepositMovesFunds, FillMovesFunds DEF LedgerInv
<1> QED  BY <1>1, <1>2, LedgerInvInit, LedgerInvKept, PTL DEF Spec, ImplementsLedger, Book!Spec

-------------------------------------------------------------------------------
(* Deposits.                                                                 *)

\* What has not gone wrong after a step had not gone wrong before it.
LEMMA NoneBefore ==
    ASSUME [Next]_vars, NEW L, NoneOf(L)'
    PROVE  NoneOf(L) /\ \A l \in L : l \notin lapses' /\ l \notin lapses
BY LapsesGrow DEF NoneOf

\* What a step does to the requests and the recorded hashes.
DepositStepOf(d) ==
    \/ BeginDeposit(d) \/ FindWallet(d) \/ CreateWallet(d)
    \/ CreditDeposit(d) \/ CreditGhost(d) \/ RecordDeposit(d)

Unmoved == \A d \in Deposits : Credit(d) \in moved' <=> Credit(d) \in moved

\* Only a deposit's own steps and a crash move its request; no other step credits it.
LEMMA DepositSteps ==
    ASSUME TypeInv, [Next]_vars
    PROVE  \/ UNCHANGED <<dep, recorded>> /\ Unmoved
           \/ \E d \in Deposits : DepositStepOf(d)
           \/ Crash
<1>1. moved' = moved => Unmoved
  BY DEF Unmoved
<1>2. ASSUME NEW p \in Pairs, Settle(p) PROVE Unmoved /\ UNCHANGED <<dep, recorded>>
  <2>1. \A d \in Deposits : Credit(d) # Delivery(bridge[p].fill)
    <3>1. Delivery(bridge[p].fill).kind = "fill"
      BY DEF Delivery
    <3>2. \A d \in Deposits : Credit(d).kind = "deposit"
      BY DEF Credit
    <3> QED  BY <3>1, <3>2
  <2>2. moved' = moved \/ moved' = moved \cup {Delivery(bridge[p].fill)}
    BY <1>2 DEF Settle
  <2> QED  BY <1>2, <2>1, <2>2 DEF Unmoved, Settle, depVars
<1> DEFINE Goal ==
           \/ UNCHANGED <<dep, recorded>> /\ Unmoved
           \/ \E d \in Deposits : DepositStepOf(d)
           \/ Crash
<1> USE DEF walletVars, orderVars, engineVars, fillVars, depVars, histVars
<1>3. ASSUME NEW o \in Orders, ReserveOrder(o) PROVE Goal
  BY <1>3, <1>1 DEF ReserveOrder, Trouble, Lapse
<1>4. ASSUME NEW o \in Orders, Submit(o) PROVE Goal
  BY <1>4, <1>1 DEF Submit, Lapse
<1>5. ASSUME NEW o \in Orders, Cancel(o) PROVE Goal
  BY <1>5, <1>1 DEF Cancel
<1>6. ASSUME NEW d \in Deposits, BeginDeposit(d) PROVE Goal
  BY <1>6 DEF DepositStepOf
<1>7. ASSUME NEW d \in Deposits, FindWallet(d) PROVE Goal
  BY <1>7 DEF DepositStepOf
<1>8. ASSUME NEW d \in Deposits, CreateWallet(d) PROVE Goal
  BY <1>8 DEF DepositStepOf
<1>9. ASSUME NEW d \in Deposits, CreditDeposit(d) PROVE Goal
  BY <1>9 DEF DepositStepOf
<1>10. ASSUME NEW d \in Deposits, CreditGhost(d) PROVE Goal
  BY <1>10 DEF DepositStepOf
<1>11. ASSUME NEW d \in Deposits, RecordDeposit(d) PROVE Goal
  BY <1>11 DEF DepositStepOf
<1>12. ASSUME NEW t \in Orders, NEW m \in Orders, Execute(t, m) PROVE Goal
  BY <1>12, <1>1 DEF Execute, EmitFill
<1>13. ASSUME NEW p \in Pairs, Snapshot(p) PROVE Goal
  BY <1>13, <1>1 DEF Snapshot
<1>14. ASSUME NEW s \in spilled, SpillSends(s) PROVE Goal
  BY <1>14, <1>1 DEF SpillSends, Lapse
<1>15. ASSUME NEW s \in spilled, SpillWaits(s) PROVE Goal
  BY <1>15, <1>1 DEF SpillWaits
<1>16. ASSUME NEW p \in Pairs, BeginSettle(p) PROVE Goal
  BY <1>16, <1>1 DEF BeginSettle
<1>17. ASSUME NEW p \in Pairs, Settle(p) PROVE Goal
  BY <1>17, <1>2
<1>18. ASSUME NEW p \in Pairs, ReleaseTaker(p) PROVE Goal
  BY <1>18, <1>1 DEF ReleaseTaker, ReleaseOrder, Trouble, Lapse
<1>19. ASSUME NEW p \in Pairs, ReleaseMaker(p) PROVE Goal
  BY <1>19, <1>1 DEF ReleaseMaker, ReleaseOrder, Trouble, Lapse
<1>20. ASSUME Crash PROVE Goal
  BY <1>20
<1>21. CASE UNCHANGED vars
  BY <1>21, <1>1 DEF vars
<1> QED
  BY <1>3, <1>4, <1>5, <1>6, <1>7, <1>8, <1>9, <1>10, <1>11, <1>12, <1>13, <1>14,
<1>15, <1>16, <1>17, <1>18, <1>19, <1>20, <1>21 DEF Next, ClientStep,
DepositStep, EngineStep, SpillStep, BridgeStep

\* What a step of a request does to it, to the hashes and to what has moved.
LEMMA RequestSteps ==
    ASSUME TypeInv, NEW d \in Deposits, DepositStepOf(d)
    PROVE  /\ \A e \in Deposits : e # d => dep'[e] = dep[e]
           /\ \/ /\ dep[d] = "new" /\ dep'[d] \in {"checked", "done"} /\ UNCHANGED <<recorded, moved>>
                 /\ dep'[d] = "checked" => HashOf(d) \notin recorded
                 /\ "overlap" \notin lapses' =>
                    \A e \in Deposits : e # d /\ HashOf(e) = HashOf(d) => dep[e] \notin Busy
              \/ /\ dep[d] \in {"checked", "missing"} /\ dep'[d] \in {"found", "missing", "ghost"}
                 /\ UNCHANGED <<recorded, moved>>
              \/ /\ dep[d] = "found" /\ recorded' = recorded
                 /\ \/ moved' = moved \cup {Credit(d)} /\ dep'[d] = "credited"
                    \/ moved' = moved \cup {Credit(d)} /\ dep'[d] = "done" /\ "unrecorded" \in lapses'
                    \/ moved' = moved /\ dep'[d] = "done"
              \/ dep[d] = "ghost" /\ dep'[d] = "done" /\ UNCHANGED <<recorded, moved>>
              \/ /\ dep[d] = "credited" /\ dep'[d] = "done" /\ moved' = moved
                 /\ \/ recorded' = recorded \cup {HashOf(d)}
                    \/ recorded' = recorded /\ "unrecorded" \in lapses'
<1>0. dep \in [Deposits -> Busy \cup {"new", "done"}]
  BY DEF TypeInv, PlainTypes
<1> USE DEF DepositMoves, depVars, histVars
<1>1. CASE BeginDeposit(d)
  BY <1>0, <1>1 DEF BeginDeposit
<1>2. CASE FindWallet(d)
  BY <1>0, <1>2 DEF FindWallet
<1>3. CASE CreateWallet(d)
  BY <1>0, <1>3 DEF CreateWallet
<1>4. CASE CreditDeposit(d)
  BY <1>0, <1>4 DEF CreditDeposit, Lapse
<1>5. CASE CreditGhost(d)
  BY <1>0, <1>5 DEF CreditGhost
<1>6. CASE RecordDeposit(d)
  BY <1>0, <1>6 DEF RecordDeposit, Lapse
<1> QED  BY <1>1, <1>2, <1>3, <1>4, <1>5, <1>6 DEF DepositStepOf

\* Credits are told apart by their requests.
LEMMA CreditInjective == \A d, e \in Deposits : Credit(d) = Credit(e) => d = e
<1> SUFFICES ASSUME NEW d \in Deposits, NEW e \in Deposits, Credit(d) = Credit(e) PROVE d = e
  OBVIOUS
<1>1. Credit(d).of = d /\ Credit(e).of = e
  BY DEF Credit
<1> QED  BY <1>1

\* While no two requests overlap, every row is written and nothing crashes,
\* requests that are under way have different, unrecorded hashes.
LEMMA DepositsApartKept ==
    ASSUME TypeInv, DepositsApart, [Next]_vars
    PROVE  DepositsApart'
<1> DEFINE Good == /\ \A d, e \in Deposits : dep'[d] \in Busy /\ dep'[e] \in Busy /\ HashOf(d) = HashOf(e) => d = e
                   /\ \A d \in Deposits : dep'[d] \in Busy => HashOf(d) \notin recorded'
                   /\ \A d \in Deposits : Credit(d) \in moved' => dep'[d] = "credited" \/ HashOf(d) \in recorded'
                   /\ \A d, e \in Deposits : Credit(d) \in moved' /\ Credit(e) \in moved' /\ HashOf(d) = HashOf(e) => d = e
<1> SUFFICES ASSUME NoneOf(DepositLapses)' PROVE Good
  BY DEF DepositsApart, HashOf, Credit
<1>0. /\ \A d, e \in Deposits : dep[d] \in Busy /\ dep[e] \in Busy /\ HashOf(d) = HashOf(e) => d = e
      /\ \A d \in Deposits : dep[d] \in Busy => HashOf(d) \notin recorded
      /\ \A d \in Deposits : Credit(d) \in moved => dep[d] = "credited" \/ HashOf(d) \in recorded
      /\ \A d, e \in Deposits : Credit(d) \in moved /\ Credit(e) \in moved /\ HashOf(d) = HashOf(e) => d = e
      /\ "overlap" \notin lapses' /\ "unrecorded" \notin lapses' /\ "crash" \notin lapses'
  BY NoneBefore DEF DepositsApart, DepositLapses
<1>1. CASE UNCHANGED <<dep, recorded>> /\ Unmoved
  BY <1>0, <1>1 DEF Unmoved
<1>2. CASE Crash
  BY <1>0, <1>2 DEF Crash, Lapse
<1>3. ASSUME NEW d \in Deposits, DepositStepOf(d) PROVE Good
  <2>1. \A e \in Deposits : e # d => dep'[e] = dep[e]
    BY <1>3, RequestSteps
  <2> USE <1>0, <2>1, CreditInjective DEF Busy
  <2>2. CASE /\ dep[d] = "new" /\ dep'[d] \in {"checked", "done"} /\ UNCHANGED <<recorded, moved>>
             /\ dep'[d] = "checked" => HashOf(d) \notin recorded
             /\ \A e \in Deposits : e # d /\ HashOf(e) = HashOf(d) => dep[e] \notin Busy
    BY <2>2
  <2>3. CASE /\ dep[d] \in {"checked", "missing"} /\ dep'[d] \in {"found", "missing", "ghost"}
             /\ UNCHANGED <<recorded, moved>>
    BY <2>3
  <2>4. CASE /\ dep[d] = "found" /\ recorded' = recorded
             /\ moved' = moved \cup {Credit(d)} /\ dep'[d] = "credited"
    BY <2>4
  <2>5. CASE dep[d] \in {"found", "ghost"} /\ dep'[d] = "done" /\ UNCHANGED <<recorded, moved>>
    BY <2>5
  <2>6. CASE /\ dep[d] = "credited" /\ dep'[d] = "done" /\ moved' = moved
             /\ recorded' = recorded \cup {HashOf(d)}
    BY <2>6
  <2> QED  BY <1>3, <2>2, <2>3, <2>4, <2>5, <2>6, RequestSteps
<1> QED  BY <1>1, <1>2, <1>3, DepositSteps

\* A recorded hash has been credited, whatever happens.
RecordedMoved ==
    /\ \A d \in Deposits : dep[d] = "credited" => Credit(d) \in moved
    /\ \A h \in recorded : \E d \in Deposits : HashOf(d) = h /\ Credit(d) \in moved

\* A recorded hash has been credited, also after a step.
LEMMA RecordedMovedKept ==
    ASSUME TypeInv, RecordedMoved, [Next]_vars
    PROVE  RecordedMoved'
<1>0. /\ \A d \in Deposits : dep[d] = "credited" => Credit(d) \in moved
      /\ \A h \in recorded : \E d \in Deposits : HashOf(d) = h /\ Credit(d) \in moved
  BY DEF RecordedMoved
<1> DEFINE Good == /\ \A d \in Deposits : dep'[d] = "credited" => Credit(d) \in moved'
                   /\ \A h \in recorded' : \E d \in Deposits : HashOf(d) = h /\ Credit(d) \in moved'
<1> SUFFICES Good
  BY DEF RecordedMoved, HashOf, Credit
<1>1. CASE UNCHANGED <<dep, recorded>> /\ Unmoved
  BY <1>0, <1>1 DEF Unmoved
<1>2. CASE Crash
  BY <1>0, <1>2 DEF Crash
<1>3. ASSUME NEW d \in Deposits, DepositStepOf(d) PROVE Good
  <2>1. \A e \in Deposits : e # d => dep'[e] = dep[e]
    BY <1>3, RequestSteps
  <2>2. /\ moved \subseteq moved' /\ recorded' \subseteq recorded \cup {HashOf(d)}
        /\ dep'[d] = "credited" => Credit(d) \in moved'
        /\ recorded' # recorded => dep[d] = "credited"
    BY <1>3, RequestSteps
  <2>3. \A e \in Deposits : dep'[e] = "credited" => Credit(e) \in moved'
    BY <1>0, <2>1, <2>2
  <2>4. ASSUME NEW h \in recorded' PROVE \E e \in Deposits : HashOf(e) = h /\ Credit(e) \in moved'
    <3>1. CASE h \in recorded
      BY <1>0, <2>2, <3>1
    <3>2. CASE h \notin recorded
      BY <1>0, <2>2, <3>2
    <3> QED  BY <3>1, <3>2
  <2> QED  BY <2>3, <2>4
<1> QED  BY <1>1, <1>2, <1>3, DepositSteps

\* A transaction hash is credited once, for any list of requests, unless two of
\* them overlap, a row was not written or the process died in between; and what is
\* recorded was credited, whatever happens (Deposit).
THEOREM DepositsCreditedOnce == Spec => []DepositedOnce
<1> DEFINE Inv == TypeInv /\ DepositsApart /\ RecordedMoved
<1>1. Init => Inv
  <2> SUFFICES ASSUME Init PROVE DepositsApart /\ RecordedMoved
    BY TypeInvInit
  <2> QED  BY DEF Init, DepositsApart, RecordedMoved, Busy
<1>2. Inv /\ [Next]_vars => Inv'
  BY TypeInvKept, DepositsApartKept, RecordedMovedKept
<1>3. Inv => DepositedOnce
  <2> SUFFICES ASSUME Inv PROVE DepositedOnce
    OBVIOUS
  <2>1. ASSUME lapses \cap {"overlap", "unrecorded", "crash"} = {},
               NEW d \in Deposits,
               NEW e \in Deposits, Credit(d) \in moved, Credit(e) \in moved, HashOf(d) = HashOf(e)
        PROVE  d = e
    BY <2>1 DEF DepositsApart, NoneOf, DepositLapses
  <2> QED  BY <2>1 DEF RecordedMoved, DepositedOnce
<1> HIDE DEF Inv
<1> QED  BY <1>1, <1>2, <1>3, PTL DEF Spec

-------------------------------------------------------------------------------
(* Orders before they trade.                                                 *)

\* What an execution adds to the tapes.
LEMMA ExecuteTape ==
    ASSUME TypeInv, NEW t \in Orders, NEW m \in Orders, Execute(t, m)
    PROVE  LET r == Ticket[t].pair  x == NewFill(t, m) IN
           /\ r \in Pairs /\ Ticket[m].pair = r /\ t # m /\ x.taker = t /\ x.maker = m /\ x.qty \in Nat
              /\ x.qty > 0
           /\ x.qty <= left[t] /\ x.qty <= left[m]
           /\ Len(tape'[r]) = Len(tape[r]) + 1 /\ tape'[r][Len(tape[r]) + 1] = x
           /\ \A p \in Pairs : p # r => tape'[p] = tape[p]
           /\ \A p \in Pairs : Len(tape[p]) \in Nat /\ \A n \in 1..Len(tape'[p]) :
                  (n \in 1..Len(tape[p]) /\ tape'[p][n] = tape[p][n])
                  \/ (p = r /\ n = Len(tape[r]) + 1 /\ tape'[p][n] = x)
           /\ left' = [left EXCEPT ![t] = @ - x.qty, ![m] = @ - x.qty]
           /\ left \in [Orders -> Nat]
           /\ UNCHANGED <<stage, reservations>> /\ stage[t] = "live" /\ stage[m] = "live"
<1> DEFINE r == Ticket[t].pair
<1> DEFINE x == NewFill(t, m)
<1>1. x \in Fills /\ IsFillOf(r, x) /\ r \in Pairs /\ t # m /\ x.qty > 0 /\ x.qty <= left[t] /\ x.qty <= left[m]
      /\ tape' = [tape EXCEPT ![r] = Append(@, x)]
  BY NewFillType
<1>2. x.taker = t /\ x.maker = m /\ x.qty = Min({left[t], left[m]}) /\ x.qty \in Nat
  BY <1>1 DEF NewFill, Fills
<1>3. left' = [left EXCEPT ![t] = @ - x.qty, ![m] = @ - x.qty] /\ left \in [Orders -> Nat]
      /\ UNCHANGED <<stage, reservations>> /\ stage[t] = "live" /\ stage[m] = "live"
  BY <1>2 DEF Execute, TypeInv, PlainTypes
<1>3a. Ticket[m].pair = r
  BY <1>1, <1>2 DEF IsFillOf, Crosses
<1> HIDE DEF x, r
<1>4. tape \in [Pairs -> Seq(Fills)] /\ \A p \in Pairs : Len(tape[p]) \in Nat
  BY DEF TypeInv, Shape, TapeShape
<1>5. /\ Len(Append(tape[r], x)) = Len(tape[r]) + 1
      /\ \A i \in 1..Len(tape[r]) : Append(tape[r], x)[i] = tape[r][i]
      /\ Append(tape[r], x)[Len(tape[r]) + 1] = x
  BY <1>1, <1>4, AppendProperties
<1>6. tape'[r] = Append(tape[r], x) /\ \A p \in Pairs : p # r => tape'[p] = tape[p]
  BY <1>1, <1>4
<1>7. ASSUME NEW p \in Pairs, NEW n \in 1..Len(tape'[p])
      PROVE  (n \in 1..Len(tape[p]) /\ tape'[p][n] = tape[p][n])
             \/ (p = r /\ n = Len(tape[r]) + 1 /\ tape'[p][n] = x)
  <2>1. CASE p # r
    BY <1>6, <2>1
  <2>2. CASE p = r
    <3>1. n \in 1..(Len(tape[r]) + 1)
      BY <1>5, <1>6, <2>2
    <3>2. n \in 1..Len(tape[r]) \/ n = Len(tape[r]) + 1
      BY <1>4, <1>1, <3>1
    <3> QED  BY <1>5, <1>6, <2>2, <3>2
  <2> QED  BY <2>1, <2>2
<1> QED  BY <1>1, <1>2, <1>3, <1>3a, <1>4, <1>5, <1>6, <1>7 DEF x, r

\* The orders of a fill that a bridge has, or takes, are not new.
LEMMA FillNotNew ==
    ASSUME TypeInv, Fresh, NEW p \in Pairs, NEW f, Names(p, f)
    PROVE  /\ Buyer(Fill(f)) \in Orders /\ Seller(Fill(f)) \in Orders
           /\ stage[Buyer(Fill(f))] \in {"live", "over"} /\ stage[Seller(Fill(f))] \in {"live", "over"}
           /\ Fill(f).taker \in Orders /\ Fill(f).maker \in Orders
           /\ stage[Fill(f).taker] \in {"live", "over"} /\ stage[Fill(f).maker] \in {"live", "over"}
<1>1. Fill(f) \in Fills /\ IsFillOf(p, Fill(f))
  BY FillNamed DEF TypeInv, Shape
<1>2. {Buyer(Fill(f)), Seller(Fill(f))} = {Fill(f).taker, Fill(f).maker} /\ Buyer(Fill(f)) \in Orders
      /\ Seller(Fill(f)) \in Orders
  BY <1>1, FillParts
<1>3. Fill(f) = tape[p][f.n] /\ f.n \in 1..Len(tape[p])
  BY DEF Fill, Names, Notifications, TypeInv, Shape, TapeShape
<1>4. \A o \in {Fill(f).taker, Fill(f).maker} : stage[o] \in {"live", "over"}
  BY <1>3 DEF Fresh
<1> QED  BY <1>2, <1>4

\* Every step keeps untraded orders untouched.
LEMMA FreshKept ==
    ASSUME TypeInv, Fresh, [Next]_vars
    PROVE  Fresh'
<1> DEFINE New == /\ \A o \in Orders : left'[o] <= Ticket[o].qty
                  /\ \A o \in Orders : stage'[o] \in {"new", "reserved"} => left'[o] = Ticket[o].qty
                  /\ \A o \in Orders : stage'[o] = "new" => reservations'[o] = 0
<1> DEFINE Traders == \A p \in Pairs : \A n \in 1..Len(tape'[p]) : \A o \in {tape'[p][n].taker, tape'[p][n].maker} :
                          stage'[o] \in {"live", "over"} /\ left'[o] < Ticket[o].qty
<1>0. /\ stage \in [Orders -> {"new", "reserved", "live", "over"}] /\ left \in [Orders -> Nat]
      /\ reservations \in [Orders -> Nat]
      /\ \A p \in Pairs : \A n \in 1..Len(tape[p]) : tape[p][n].taker \in Orders /\ tape[p][n].maker \in Orders
      /\ \A o \in Orders : Ticket[o].qty \in Nat
  <2>1. \A p \in Pairs : \A n \in 1..Len(tape[p]) : tape[p][n] \in Fills
    BY ElementOfSeq DEF TypeInv, Shape, TapeShape
  <2> QED  BY <2>1, TicketType DEF TypeInv, PlainTypes, WalletTypes, Fills
<1>a. SUFFICES New /\ Traders
  BY DEF Fresh
<1>b. ASSUME UNCHANGED <<stage, left, reservations, tape>> PROVE New /\ Traders
  BY <1>b DEF Fresh
<1>c. ASSUME UNCHANGED <<left, tape>>,
             \A o \in Orders : stage[o] \in {"live", "over"} => stage'[o] \in {"live", "over"}
      PROVE  Traders
  <2> SUFFICES ASSUME NEW p \in Pairs, NEW n \in 1..Len(tape[p]), NEW o \in {tape[p][n].taker, tape[p][n].maker}
               PROVE  stage'[o] \in {"live", "over"} /\ left[o] < Ticket[o].qty
    BY <1>c
  <2>1. o \in Orders /\ stage[o] \in {"live", "over"} /\ left[o] < Ticket[o].qty
    BY <1>0 DEF Fresh
  <2> QED  BY <2>1, <1>c
<1> HIDE DEF Traders
<1> USE DEF walletVars, orderVars, engineVars, fillVars, depVars, histVars
<1>1. ASSUME NEW o \in Orders, ReserveOrder(o) PROVE New /\ Traders
  <2>1. UNCHANGED <<left, tape>>
        /\ \A q \in Orders : q # o => stage'[q] = stage[q] /\ reservations'[q] = reservations[q]
    BY <1>1, <1>0 DEF ReserveOrder
  <2>2. stage[o] = "new" /\ stage'[o] \in {"reserved", "over"}
    BY <1>1, <1>0 DEF ReserveOrder
  <2>3. New
    BY <1>0, <2>1, <2>2 DEF Fresh
  <2>4. Traders
    BY <1>0, <1>c, <2>1, <2>2
  <2> QED  BY <2>3, <2>4
<1>2. ASSUME NEW o \in Orders, Submit(o) PROVE New /\ Traders
  <2>1. UNCHANGED <<left, tape, reservations>> /\ \A q \in Orders : q # o => stage'[q] = stage[q]
    BY <1>2, <1>0 DEF Submit
  <2>2. stage'[o] = "live"
    BY <1>2, <1>0 DEF Submit
  <2>3. New
    BY <1>0, <2>1, <2>2 DEF Fresh
  <2>4. Traders
    BY <1>0, <1>c, <2>1, <2>2
  <2> QED  BY <2>3, <2>4
<1>3. ASSUME NEW o \in Orders, Cancel(o) PROVE New /\ Traders
  <2>1. UNCHANGED <<left, tape, reservations>> /\ \A q \in Orders : q # o => stage'[q] = stage[q]
    BY <1>3, <1>0 DEF Cancel
  <2>2. stage'[o] = "over"
    BY <1>3, <1>0 DEF Cancel
  <2>3. New
    BY <1>0, <2>1, <2>2 DEF Fresh
  <2>4. Traders
    BY <1>0, <1>c, <2>1, <2>2
  <2> QED  BY <2>3, <2>4
<1>4. ASSUME NEW d \in Deposits, BeginDeposit(d) PROVE New /\ Traders
  BY <1>4, <1>0, <1>b DEF BeginDeposit, DepositMoves
<1>5. ASSUME NEW d \in Deposits, FindWallet(d) PROVE New /\ Traders
  BY <1>5, <1>0, <1>b DEF FindWallet, DepositMoves, Trouble
<1>6. ASSUME NEW d \in Deposits, CreateWallet(d) PROVE New /\ Traders
  BY <1>6, <1>0, <1>b DEF CreateWallet, DepositMoves
<1>7. ASSUME NEW d \in Deposits, CreditDeposit(d) PROVE New /\ Traders
  BY <1>7, <1>0, <1>b DEF CreditDeposit, DepositMoves, Trouble, Lapse
<1>8. ASSUME NEW d \in Deposits, CreditGhost(d) PROVE New /\ Traders
  BY <1>8, <1>0, <1>b DEF CreditGhost, DepositMoves
<1>9. ASSUME NEW d \in Deposits, RecordDeposit(d) PROVE New /\ Traders
  BY <1>9, <1>0, <1>b DEF RecordDeposit, DepositMoves, Trouble, Lapse
<1>10. ASSUME NEW t \in Orders, NEW m \in Orders, Execute(t, m) PROVE New /\ Traders
  <2> DEFINE x == NewFill(t, m)
  <2> DEFINE r == Ticket[t].pair
  <2>1. /\ x.taker = t /\ x.maker = m /\ x.qty \in Nat /\ x.qty > 0 /\ t # m
        /\ \A p \in Pairs : \A n \in 1..Len(tape'[p]) :
               (n \in 1..Len(tape[p]) /\ tape'[p][n] = tape[p][n])
               \/ (p = r /\ n = Len(tape[r]) + 1 /\ tape'[p][n] = x)
        /\ left' = [left EXCEPT ![t] = @ - x.qty, ![m] = @ - x.qty]
        /\ UNCHANGED <<stage, reservations>> /\ stage[t] = "live" /\ stage[m] = "live"
    BY <1>10, ExecuteTape
  <2> HIDE DEF x, r
  <2>2. /\ \A q \in Orders : q \notin {t, m} => left'[q] = left[q]
        /\ left'[t] = left[t] - x.qty /\ left'[m] = left[m] - x.qty
    BY <1>0, <2>1
  <2>3. New
    BY <1>0, <2>1, <2>2 DEF Fresh
  <2>4. ASSUME NEW q \in Orders PROVE left'[q] <= left[q] /\ left[q] \in Nat
    <3>1. left[q] \in Nat /\ (left'[q] = left[q] \/ left'[q] = left[q] - x.qty)
      BY <1>0, <2>2
    <3> QED  BY <3>1, <2>1
  <2>5. Traders
    <3> USE DEF Traders
    <3> SUFFICES ASSUME NEW p \in Pairs, NEW n \in 1..Len(tape'[p]),
                        NEW o \in {tape'[p][n].taker, tape'[p][n].maker}
                 PROVE  stage'[o] \in {"live", "over"} /\ left'[o] < Ticket[o].qty
      OBVIOUS
    <3>1. CASE n \in 1..Len(tape[p]) /\ tape'[p][n] = tape[p][n]
      <4>1. o \in {tape[p][n].taker, tape[p][n].maker} /\ n \in 1..Len(tape[p])
        BY <3>1
      <4>2. o \in Orders /\ Ticket[o].qty \in Nat
        BY <1>0, <4>1
      <4>3. stage[o] \in {"live", "over"} /\ left[o] < Ticket[o].qty
        BY <4>1 DEF Fresh
      <4>4. stage'[o] = stage[o] /\ left'[o] <= left[o] /\ left[o] \in Nat /\ left'[o] \in Int
        <5>1. left'[o] = left[o] \/ left'[o] = left[o] - x.qty
          BY <2>2, <4>2
        <5> QED  BY <2>1, <2>4, <4>2, <5>1
      <4> QED  BY <4>2, <4>3, <4>4
    <3>2. CASE tape'[p][n] = x
      <4>1. o \in {t, m}
        BY <2>1, <3>2
      <4> QED  BY <1>0, <2>1, <2>2, <4>1 DEF Fresh
    <3> QED  BY <2>1, <3>1, <3>2
  <2> QED  BY <2>3, <2>5
<1>11. ASSUME NEW p \in Pairs, Snapshot(p) PROVE New /\ Traders
  BY <1>11, <1>0, <1>b DEF Snapshot
<1>12. ASSUME NEW s \in spilled, SpillSends(s) PROVE New /\ Traders
  BY <1>12, <1>0, <1>b DEF SpillSends, Lapse
<1>13. ASSUME NEW s \in spilled, SpillWaits(s) PROVE New /\ Traders
  BY <1>13, <1>0, <1>b DEF SpillWaits
<1>14. ASSUME NEW p \in Pairs, BeginSettle(p) PROVE New /\ Traders
  <2> DEFINE x == Fill(Head(chan[p]))
  <2>1. /\ Buyer(x) \in Orders /\ Seller(x) \in Orders
        /\ stage[Buyer(x)] \in {"live", "over"} /\ stage[Seller(x)] \in {"live", "over"}
    BY <1>14, HeadFill, FillNotNew DEF BeginSettle, TypeInv
  <2>2. /\ UNCHANGED <<stage, left, tape>>
        /\ \A q \in Orders : q \notin {Buyer(x), Seller(x)} => reservations'[q] = reservations[q]
    BY <1>14, <1>0 DEF BeginSettle
  <2> HIDE DEF x
  <2>3. New
    BY <1>0, <2>1, <2>2 DEF Fresh
  <2>4. Traders
    BY <1>c, <2>2
  <2> QED  BY <2>3, <2>4
<1>15. ASSUME NEW p \in Pairs, Settle(p) PROVE New /\ Traders
  <2> DEFINE x == Fill(bridge[p].fill)
  <2>1. /\ Buyer(x) \in Orders /\ Seller(x) \in Orders
        /\ stage[Buyer(x)] \in {"live", "over"} /\ stage[Seller(x)] \in {"live", "over"}
    BY <1>15, BridgeFill, FillNotNew DEF Settle, TypeInv
  <2>2. \A q \in Orders : q \notin {Buyer(x), Seller(x)} => Restored(bridge[p])[q] = reservations[q]
    BY <1>0 DEF Restored
  <2>3. /\ UNCHANGED <<stage, left, tape>>
        /\ reservations' = reservations \/ reservations' = Restored(bridge[p])
    BY <1>15 DEF Settle
  <2> HIDE DEF x
  <2>4. New
    BY <1>0, <2>1, <2>2, <2>3 DEF Fresh
  <2>5. Traders
    BY <1>c, <2>2, <2>3
  <2> QED  BY <2>4, <2>5
<1>16. ASSUME NEW p \in Pairs, ReleaseTaker(p) PROVE New /\ Traders
  <2>1. stage[Fill(bridge[p].fill).taker] \in {"live", "over"} /\ Fill(bridge[p].fill).taker \in Orders
    BY <1>16, BridgeFill, FillNotNew DEF ReleaseTaker, TypeInv
  <2>2. /\ UNCHANGED <<stage, left, tape>>
        /\ \A q \in Orders : q # Fill(bridge[p].fill).taker => reservations'[q] = reservations[q]
    BY <1>16, <1>0 DEF ReleaseTaker, ReleaseOrder
  <2>3. New
    BY <1>0, <2>1, <2>2 DEF Fresh
  <2>4. Traders
    BY <1>c, <2>2
  <2> QED  BY <2>3, <2>4
<1>17. ASSUME NEW p \in Pairs, ReleaseMaker(p) PROVE New /\ Traders
  <2>1. stage[Fill(bridge[p].fill).maker] \in {"live", "over"} /\ Fill(bridge[p].fill).maker \in Orders
    BY <1>17, BridgeFill, FillNotNew DEF ReleaseMaker, TypeInv
  <2>2. /\ UNCHANGED <<stage, left, tape>>
        /\ \A q \in Orders : q # Fill(bridge[p].fill).maker => reservations'[q] = reservations[q]
    BY <1>17, <1>0 DEF ReleaseMaker, ReleaseOrder
  <2>3. New
    BY <1>0, <2>1, <2>2 DEF Fresh
  <2>4. Traders
    BY <1>c, <2>2
  <2> QED  BY <2>3, <2>4
<1>18. ASSUME Crash PROVE New /\ Traders
  <2>1. /\ UNCHANGED <<left, tape>> /\ reservations' = [o \in Orders |-> 0]
        /\ stage' = [o \in Orders |-> IF stage[o] = "reserved" THEN "over" ELSE stage[o]]
    BY <1>18 DEF Crash
  <2>2. \A o \in Orders : stage'[o] \in {"new", "reserved"} => stage[o] = "new"
    BY <1>0, <2>1
  <2>3. \A o \in Orders : stage[o] \in {"live", "over"} => stage'[o] \in {"live", "over"}
    BY <1>0, <2>1
  <2>4. New
    BY <1>0, <2>1, <2>2, <2>3, TicketType DEF Fresh
  <2>5. Traders
    BY <1>0, <1>c, <2>1, <2>3
  <2> QED  BY <2>4, <2>5
<1>19. CASE UNCHANGED vars
  BY <1>19, <1>0, <1>b DEF vars
<1> QED
  BY <1>1, <1>2, <1>3, <1>4, <1>5, <1>6, <1>7, <1>8, <1>9, <1>10, <1>11, <1>12,
<1>13, <1>14, <1>15, <1>16, <1>17, <1>18, <1>19 DEF Next, ClientStep,
DepositStep, EngineStep, SpillStep, BridgeStep

-------------------------------------------------------------------------------
(* What is reserved is locked.                                               *)

\* The sum over the orders of an account, when one order changes.
LEMMA AccountMoves ==
    ASSUME NEW f \in [Orders -> Nat], NEW g \in [Orders -> Nat], NEW o \in Orders,
           \A q \in Orders : q # o /\ ReservedAccount(q) = ReservedAccount(o) => g[q] = f[q]
    PROVE  LET S == OrdersOn(ReservedAccount(o)) IN
           /\ SumFunctionOnSet(f, S) \in Nat /\ SumFunctionOnSet(g, S) \in Nat
           /\ SumFunctionOnSet(g, S) = SumFunctionOnSet(f, S) - f[o] + g[o]
           /\ f[o] <= SumFunctionOnSet(f, S) /\ f[o] \in Nat /\ g[o] \in Nat
<1> DEFINE S == OrdersOn(ReservedAccount(o))
<1>1. IsFiniteSet(S) /\ o \in S /\ S \subseteq Orders /\ \A q \in S : ReservedAccount(q) = ReservedAccount(o)
  BY SettlementAssumption, FS_Subset DEF OrdersOn
<1> HIDE DEF S
<1>2. \A q \in S : f[q] \in Nat /\ g[q] \in Nat /\ f[q] \in Int /\ g[q] \in Int
  BY <1>1
<1>3. SumFunctionOnSet(f, S) \in Nat /\ SumFunctionOnSet(g, S) \in Nat /\ f[o] <= SumFunctionOnSet(f, S)
  BY <1>1, <1>2, SumOfNaturals
<1>4. \A q \in S : q # o => g[q] = f[q]
  BY <1>1
<1>5. SumFunctionOnSet(g, S) = SumFunctionOnSet(f, S) - f[o] + g[o]
  BY <1>1, <1>2, <1>4, SumUpdate
<1> QED  BY <1>1, <1>2, <1>3, <1>5 DEF S

\* The sum over the orders of an account, when none of them changes.
LEMMA AccountSame ==
    ASSUME NEW f \in [Orders -> Nat], NEW g, NEW x, \A q \in Orders : ReservedAccount(q) = x => g[q] = f[q]
    PROVE  /\ SumFunctionOnSet(g, OrdersOn(x)) = SumFunctionOnSet(f, OrdersOn(x))
           /\ SumFunctionOnSet(f, OrdersOn(x)) \in Nat
<1> DEFINE S == OrdersOn(x)
<1>1. IsFiniteSet(S) /\ S \subseteq Orders /\ \A q \in S : ReservedAccount(q) = x
  BY SettlementAssumption, FS_Subset DEF OrdersOn
<1> HIDE DEF S
<1>2. \A q \in S : f[q] = g[q] /\ f[q] \in Int /\ f[q] \in Nat
  BY <1>1
<1>3. SumFunctionOnSet(f, S) = SumFunctionOnSet(g, S)
  BY <1>1, <1>2, SumSame
<1>4. SumFunctionOnSet(f, S) \in Nat
  BY <1>1, <1>2, SumOfNaturals
<1> QED  BY <1>3, <1>4 DEF S

\* What a settlement has taken is a natural number.
LEMMA TakenType ==
    ASSUME TypeInv, NEW o \in Orders
    PROVE  Taken(o) \in Nat
<1>1. Ticket[o].pair \in Pairs
  BY TicketType
<1>2. bridge[Ticket[o].pair].at = "settle" =>
      bridge[Ticket[o].pair].fromBuyer \in Nat /\ bridge[Ticket[o].pair].fromSeller \in Nat
  BY <1>1, BridgeFill DEF TypeInv
<1> QED  BY <1>2 DEF Taken

\* So are the claims of the orders.
LEMMA ClaimsType ==
    ASSUME TypeInv
    PROVE  Claims \in [Orders -> Nat]
           /\ \A o \in Orders : Claims[o] = reservations[o] + Taken(o) /\ reservations[o] \in Nat
<1>1. \A o \in Orders : reservations[o] + Taken(o) \in Nat /\ reservations[o] \in Nat
  BY TakenType DEF TypeInv, WalletTypes
<1> QED  BY <1>1 DEF Claims

\* A bridge that does nothing keeps what it took.
LEMMA TakenKept ==
    ASSUME TypeInv, [Next]_vars, NEW o \in Orders, bridge'[Ticket[o].pair] = bridge[Ticket[o].pair]
    PROVE  Taken(o)' = Taken(o)
<1>1. PICK p \in Pairs : p = Ticket[o].pair
  BY TicketType
<1>2. bridge'[p] = bridge[p]
  BY <1>1
<1>3. CASE bridge[p].at # "settle"
  BY <1>1, <1>2, <1>3 DEF Taken
<1>4. CASE bridge[p].at = "settle"
  <2>1. PICK f : f = bridge[p].fill
    OBVIOUS
  <2>2. Names(p, f)
    BY <1>4, <2>1, BridgeFill DEF TypeInv
  <2>3. Fill(f)' = Fill(f)
    BY <2>2, NamesKept
  <2>4. Fill(bridge[p].fill)' = Fill(bridge[p].fill)
    BY <1>2, <2>1, <2>3 DEF Fill
  <2> QED  BY <1>1, <1>2, <2>4 DEF Taken
<1> QED  BY <1>3, <1>4

\* Claims of all orders stay when reservations and bridges do.
LEMMA ClaimsKept ==
    ASSUME TypeInv, [Next]_vars, UNCHANGED <<reservations, bridge>>
    PROVE  Claims' = Claims
<1>1. \A o \in Orders : Taken(o)' = Taken(o)
  BY TakenKept
<1> QED  BY <1>1 DEF Claims

\* The bridge that begins a settlement only moves claims from the reservations.
LEMMA ClaimsBegin ==
    ASSUME TypeInv, [Next]_vars, NEW p \in Pairs, BeginSettle(p)
    PROVE  Claims' = Claims
<1> DEFINE f == Head(chan[p])
<1> DEFINE x == Fill(f)
<1> DEFINE fb == FromReservation(Buyer(x), BuyerDebit(x))
<1> DEFINE fs == FromReservation(Seller(x), x.qty)
<1>1. /\ bridge[p] = Idle /\ tape' = tape
      /\ reservations' = [reservations EXCEPT ![Buyer(x)] = @ - fb, ![Seller(x)] = @ - fs]
      /\ bridge' = [bridge EXCEPT ![p] = [at |-> "settle", fill |-> f, fromBuyer |-> fb, fromSeller |-> fs]]
  BY DEF BeginSettle, engineVars
<1>2. x \in Fills /\ IsFillOf(p, x)
  BY HeadFill DEF BeginSettle, TypeInv
<1>3. Fill(f)' = Fill(Head(chan[p]))'
  OBVIOUS
<1>4. /\ Buyer(x) \in Orders /\ Seller(x) \in Orders /\ Buyer(x) # Seller(x)
      /\ Ticket[Buyer(x)].pair = p /\ Ticket[Seller(x)].pair = p /\ BuyerDebit(x) \in Nat /\ x.qty \in Nat
  BY <1>2, FillParts
<1>5. fb \in Nat /\ fs \in Nat /\ reservations \in [Orders -> Nat]
  BY <1>4, FromReservationType DEF TypeInv, WalletTypes
<1>6. bridge \in [Pairs -> BridgeStates]
  BY DEF TypeInv, Shape, BridgeShape
<1>7. /\ bridge'[p].at = "settle" /\ bridge'[p].fill = f /\ bridge'[p].fromBuyer = fb
         /\ bridge'[p].fromSeller = fs
      /\ \A r \in Pairs : r # p => bridge'[r] = bridge[r]
  BY <1>1, <1>6
<1>8. Fill(bridge[p].fill)' = x
  BY <1>1, <1>7 DEF Fill
<1> HIDE DEF f, x, fb, fs
<1>9. ASSUME NEW o \in Orders PROVE reservations'[o] + Taken(o)' = reservations[o] + Taken(o)
  <2>1. CASE Ticket[o].pair # p
    <3>1. o # Buyer(x) /\ o # Seller(x) /\ Ticket[o].pair \in Pairs
      BY <1>4, <2>1, TicketType
    <3>2. reservations'[o] = reservations[o]
      BY <1>1, <1>5, <3>1
    <3>3. Taken(o)' = Taken(o)
      BY <1>7, <2>1, <3>1, TakenKept
    <3> QED  BY <3>2, <3>3
  <2>2. CASE Ticket[o].pair = p
    <3>1. Taken(o) = 0
      BY <1>1, <2>2 DEF Taken, Idle
    <3>2. Taken(o)' = IF o = Buyer(x) THEN fb ELSE IF o = Seller(x) THEN fs ELSE 0
      BY <1>7, <1>8, <2>2 DEF Taken
    <3>3. reservations'[o] = IF o = Buyer(x) THEN reservations[o] - fb ELSE IF o = Seller(x) THEN reservations[o] - fs ELSE reservations[o]
      BY <1>1, <1>4, <1>5
    <3>4. reservations[o] \in Nat
      BY <1>5
    <3> QED  BY <1>5, <3>1, <3>2, <3>3, <3>4
  <2> QED  BY <2>1, <2>2
<1> QED  BY <1>9 DEF Claims

\* The fill under settlement, in names.
LEMMA SettlingFill ==
    ASSUME TypeInv, NEW p \in Pairs, bridge[p].at = "settle"
    PROVE  LET x == Fill(bridge[p].fill)  b == Buyer(x)  s == Seller(x) IN
           /\ b \in Orders /\ s \in Orders /\ b # s /\ Ticket[b].pair = p /\ Ticket[s].pair = p
           /\ ReservedAccount(b) \in Accounts /\ ReservedAccount(s) \in Accounts
           /\ ReservedAccount(b) # ReservedAccount(s)
           /\ ReservedAccount(b) = <<User(b), Quote[p]>> /\ ReservedAccount(s) = <<User(s), Base[p]>>
           /\ bridge[p].fromBuyer \in Nat /\ bridge[p].fromSeller \in Nat
           /\ Taken(b) = bridge[p].fromBuyer /\ Taken(s) = bridge[p].fromSeller
           /\ \A o \in Orders : Ticket[o].pair = p /\ o # b /\ o # s => Taken(o) = 0
           /\ UnlockedFor(bridge[p]) = [locked EXCEPT ![ReservedAccount(b)] = Unlocked(ReservedAccount(b), bridge[p].fromBuyer),
                                                      ![ReservedAccount(s)] = Unlocked(ReservedAccount(s), bridge[p].fromSeller)]
<1> DEFINE x == Fill(bridge[p].fill)
<1> DEFINE b == Buyer(x)
<1> DEFINE s == Seller(x)
<1>1. x \in Fills /\ IsFillOf(p, x) /\ bridge[p].fill.pair = p /\ bridge[p].fromBuyer \in Nat
      /\ bridge[p].fromSeller \in Nat
  BY BridgeFill DEF TypeInv
<1>2. /\ b \in Orders /\ s \in Orders /\ b # s /\ Ticket[b].pair = p /\ Ticket[s].pair = p
      /\ User(b) # User(s)
      /\ ReservedAccount(b) = <<User(b), Quote[p]>> /\ ReservedAccount(s) = <<User(s), Base[p]>>
  BY <1>1, FillParts
<1>3. ReservedAccount(b) \in Accounts /\ ReservedAccount(s) \in Accounts
  BY <1>2, TicketType
<1>4. ReservedAccount(b) # ReservedAccount(s)
  BY <1>2
<1>5. /\ Taken(b) = bridge[p].fromBuyer /\ Taken(s) = bridge[p].fromSeller
      /\ \A o \in Orders : Ticket[o].pair = p /\ o # b /\ o # s => Taken(o) = 0
  BY <1>2 DEF Taken
<1>6. UnlockedFor(bridge[p]) = [locked EXCEPT ![ReservedAccount(b)] = Unlocked(ReservedAccount(b), bridge[p].fromBuyer),
                                              ![ReservedAccount(s)] = Unlocked(ReservedAccount(s), bridge[p].fromSeller)]
  BY <1>1, <1>2 DEF UnlockedFor
<1> QED  BY <1>1, <1>2, <1>3, <1>4, <1>5, <1>6

\* A settlement that ends gives back what it took, or has used it.
LEMMA ClaimsSettle ==
    ASSUME TypeInv, [Next]_vars, NEW p \in Pairs, Settle(p)
    PROVE  LET x == Fill(bridge[p].fill)  b == Buyer(x)  s == Seller(x) IN
           /\ reservations' = Restored(bridge[p]) => Claims' = Claims
           /\ reservations' = reservations =>
                  \A o \in Orders : Claims'[o] = IF o = b THEN Claims[o] - bridge[p].fromBuyer
                                                 ELSE IF o = s THEN Claims[o] - bridge[p].fromSeller ELSE Claims[o]
<1> DEFINE x == Fill(bridge[p].fill)
<1> DEFINE b == Buyer(x)
<1> DEFINE s == Seller(x)
<1>1. /\ bridge[p].at = "settle" /\ bridge' = [bridge EXCEPT ![p] = [at |-> "taker", fill |-> bridge[p].fill]]
      /\ bridge \in [Pairs -> BridgeStates]
  BY BridgeMoves DEF Settle, TypeInv, Shape, BridgeShape
<1>2. bridge'[p].at = "taker" /\ \A r \in Pairs : r # p => bridge'[r] = bridge[r]
  BY <1>1
<1>3. /\ b \in Orders /\ s \in Orders /\ b # s /\ Ticket[b].pair = p /\ Ticket[s].pair = p
      /\ bridge[p].fromBuyer \in Nat /\ bridge[p].fromSeller \in Nat
      /\ Taken(b) = bridge[p].fromBuyer /\ Taken(s) = bridge[p].fromSeller
      /\ \A o \in Orders : Ticket[o].pair = p /\ o # b /\ o # s => Taken(o) = 0
  BY <1>1, SettlingFill
<1>4. Restored(bridge[p]) = [reservations EXCEPT ![b] = @ + bridge[p].fromBuyer, ![s] = @ + bridge[p].fromSeller]
  BY DEF Restored
<1> HIDE DEF x, b, s
<1>5. ASSUME NEW o \in Orders PROVE Taken(o)' = IF Ticket[o].pair = p THEN 0 ELSE Taken(o)
  <2>1. CASE Ticket[o].pair = p
    BY <1>2, <2>1 DEF Taken
  <2>2. CASE Ticket[o].pair # p
    BY <1>2, <2>2, TicketType, TakenKept
  <2> QED  BY <2>1, <2>2
<1>6. \A o \in Orders : Claims[o] = reservations[o] + Taken(o) /\ reservations[o] \in Nat /\ Taken(o) \in Nat
  BY ClaimsType, TakenType
<1>7. \A o \in Orders : Claims'[o] = reservations'[o] + Taken(o)'
  BY DEF Claims
<1>8. ASSUME reservations' = Restored(bridge[p]) PROVE Claims' = Claims
  <2>1. ASSUME NEW o \in Orders PROVE reservations'[o] + Taken(o)' = reservations[o] + Taken(o)
    <3>1. reservations'[o] = IF o = b THEN reservations[o] + bridge[p].fromBuyer
                             ELSE IF o = s THEN reservations[o] + bridge[p].fromSeller ELSE reservations[o]
      BY <1>3, <1>4, <1>8 DEF TypeInv, WalletTypes
    <3> QED  BY <1>3, <1>5, <1>6, <3>1
  <2> QED  BY <2>1 DEF Claims
<1>9. ASSUME reservations' = reservations, NEW o \in Orders
      PROVE  Claims'[o] = IF o = b THEN Claims[o] - bridge[p].fromBuyer
                          ELSE IF o = s THEN Claims[o] - bridge[p].fromSeller ELSE Claims[o]
  BY <1>3, <1>5, <1>6, <1>7, <1>9
<1> QED  BY <1>8, <1>9 DEF x, b, s

\* The release of an order gives up its claim.
LEMMA ClaimsRelease ==
    ASSUME TypeInv, [Next]_vars, NEW p \in Pairs, bridge[p].at \in {"taker", "maker"}, bridge'[p].at # "settle",
           \A r \in Pairs : r # p => bridge'[r] = bridge[r],
           NEW o \in Orders, Ticket[o].pair = p, reservations' = [reservations EXCEPT ![o] = 0]
    PROVE  /\ \A q \in Orders : q # o => Claims'[q] = Claims[q]
           /\ Claims'[o] = 0 /\ Claims[o] = reservations[o]
<1>1. ASSUME NEW q \in Orders PROVE Taken(q)' = Taken(q)
  <2>1. CASE Ticket[q].pair = p
    BY <2>1 DEF Taken
  <2>2. CASE Ticket[q].pair # p
    BY <2>2, TicketType, TakenKept
  <2> QED  BY <2>1, <2>2
<1>2. Taken(o) = 0
  BY DEF Taken
<1>3. \A q \in Orders : Claims[q] = reservations[q] + Taken(q) /\ Claims'[q] = reservations'[q] + Taken(q)' /\ reservations[q] \in Nat
  BY ClaimsType DEF Claims
<1> QED  BY <1>1, <1>2, <1>3 DEF TypeInv, WalletTypes

\* Claims are natural numbers after a step, too.
LEMMA ClaimsTyped == TypeInv => Claims \in [Orders -> Nat]
BY ClaimsType

\* The claims after a step.
LEMMA ClaimsNextTyped ==
    ASSUME TypeInv, [Next]_vars
    PROVE  Claims' \in [Orders -> Nat]
<1>1. TypeInv' => (Claims \in [Orders -> Nat])'
  BY ClaimsTyped, PTL
<1> QED  BY <1>1, TypeInvKept

\* An order's claim is locked.
LEMMA ClaimIsLocked ==
    ASSUME TypeInv, Backed, "commit" \notin lapses, NEW o \in Orders
    PROVE  locked[ReservedAccount(o)] >= Claims[o] /\ ReservedAccount(o) \in Accounts
           /\ locked[ReservedAccount(o)] \in Nat
<1>1. ReservedAccount(o) \in Accounts
  BY TicketType
<1>2. locked[ReservedAccount(o)] \in Nat /\ Claims \in [Orders -> Nat]
  BY <1>1, ClaimsType DEF TypeInv, WalletTypes
<1>3. ClaimedOn(ReservedAccount(o)) \in Nat /\ Claims[o] <= ClaimedOn(ReservedAccount(o)) /\ Claims[o] \in Nat
  BY <1>2, AccountMoves DEF ClaimedOn
<1>4. locked[ReservedAccount(o)] >= ClaimedOn(ReservedAccount(o))
  BY <1>1 DEF Backed, BackedAt
<1> QED  BY <1>1, <1>2, <1>3, <1>4

\* An account whose claims and lock stay is backed as before.
LEMMA BackedStays ==
    ASSUME TypeInv, Backed, [Next]_vars, NEW x \in Accounts, locked'[x] = locked[x],
           \A q \in Orders : ReservedAccount(q) = x => Claims'[q] = Claims[q]
    PROVE  BackedAt(x)'
<1>1. lapses \subseteq lapses' /\ BackedAt(x)
  BY LapsesGrow DEF Backed
<1>2. Claims \in [Orders -> Nat]
  BY ClaimsType
<1>3. SumFunctionOnSet(Claims', OrdersOn(x)) = SumFunctionOnSet(Claims, OrdersOn(x))
  BY <1>2, AccountSame
<1>4. ClaimedOn(x)' = ClaimedOn(x)
  BY <1>3 DEF ClaimedOn, OrdersOn, ReservedAccount, User, ReservedAsset
<1> QED  BY <1>1, <1>4 DEF BackedAt

\* An account stays backed when its lock moves with the claim of one order.
LEMMA BackedMoves ==
    ASSUME TypeInv, Backed, [Next]_vars, NEW o \in Orders,
           \A q \in Orders : q # o /\ ReservedAccount(q) = ReservedAccount(o) => Claims'[q] = Claims[q],
           "commit" \notin lapses' =>
           locked'[ReservedAccount(o)] >= locked[ReservedAccount(o)] - Claims[o] + Claims'[o],
           lapses' = {} => locked'[ReservedAccount(o)] = locked[ReservedAccount(o)] - Claims[o] + Claims'[o]
    PROVE  BackedAt(ReservedAccount(o))'
<1> DEFINE x == ReservedAccount(o)
<1>1. x \in Accounts /\ lapses \subseteq lapses' /\ BackedAt(x)
  BY LapsesGrow, TicketType DEF Backed
<1>2. Claims \in [Orders -> Nat] /\ Claims' \in [Orders -> Nat] /\ locked[x] \in Nat /\ locked'[x] \in Nat
  BY <1>1, ClaimsType, ClaimsNextTyped, TypeInvKept DEF TypeInv, WalletTypes
<1>3. /\ SumFunctionOnSet(Claims, OrdersOn(x)) \in Nat /\ SumFunctionOnSet(Claims', OrdersOn(x)) \in Nat
      /\ SumFunctionOnSet(Claims', OrdersOn(x)) = SumFunctionOnSet(Claims, OrdersOn(x)) - Claims[o] + Claims'[o]
      /\ Claims[o] \in Nat /\ Claims'[o] \in Nat
  BY <1>2, AccountMoves
<1>4. ClaimedOn(x)' = SumFunctionOnSet(Claims', OrdersOn(x))
      /\ ClaimedOn(x) = SumFunctionOnSet(Claims, OrdersOn(x))
  BY DEF ClaimedOn, OrdersOn, ReservedAccount, User, ReservedAsset
<1> HIDE DEF x
<1>5. BackedAt(x)'
  <2>1. ASSUME "commit" \notin lapses' PROVE locked'[x] >= ClaimedOn(x)'
    <3>1. locked[x] >= ClaimedOn(x)
      BY <1>1, <2>1 DEF BackedAt
    <3>2. locked'[x] >= locked[x] - Claims[o] + Claims'[o]
      BY <2>1 DEF x
    <3> QED  BY <1>2, <1>3, <1>4, <3>1, <3>2
  <2>2. ASSUME lapses' = {} PROVE locked'[x] = ClaimedOn(x)'
    <3>1. locked[x] = ClaimedOn(x)
      BY <1>1, <2>2 DEF BackedAt
    <3>2. locked'[x] = locked[x] - Claims[o] + Claims'[o]
      BY <2>2 DEF x
    <3> QED  BY <1>2, <1>3, <1>4, <3>1, <3>2
  <2>3. x' = x
    BY DEF x, ReservedAccount, User, ReservedAsset
  <2> QED  BY <2>1, <2>2, <2>3 DEF BackedAt
<1> QED  BY <1>5 DEF x

\* What the claims of orders change by when one is reserved.
LEMMA ClaimsReserve ==
    ASSUME TypeInv, [Next]_vars, bridge' = bridge, NEW o \in Orders, NEW amt \in Nat,
           reservations' = [reservations EXCEPT ![o] = amt]
    PROVE  /\ \A q \in Orders : q # o => Claims'[q] = Claims[q]
           /\ Claims'[o] = Claims[o] - reservations[o] + amt
<1>1. \A q \in Orders : Taken(q)' = Taken(q) /\ Taken(q) \in Nat
  BY TakenKept, TakenType
<1>2. \A q \in Orders : Claims[q] = reservations[q] + Taken(q) /\ Claims'[q] = reservations'[q] + Taken(q)' /\ reservations[q] \in Nat
  BY ClaimsType DEF Claims
<1> QED  BY <1>1, <1>2 DEF TypeInv, WalletTypes

\* The release of an order unlocks what it claims, or leaves more locked.
LEMMA ReleaseBacked ==
    ASSUME TypeInv, Backed, [Next]_vars, NEW p \in Pairs, bridge[p].at \in {"taker", "maker"},
           bridge'[p].at # "settle", \A r \in Pairs : r # p => bridge'[r] = bridge[r],
           NEW o \in Orders, Ticket[o].pair = p, ReleaseOrder(o)
    PROVE  Backed'
<1> DEFINE x == ReservedAccount(o)
<1>1. reservations' = [reservations EXCEPT ![o] = 0]
  BY DEF ReleaseOrder
<1>2. (\A q \in Orders : q # o => Claims'[q] = Claims[q]) /\ Claims'[o] = 0 /\ Claims[o] = reservations[o]
  BY <1>1, ClaimsRelease
<1>3. x \in Accounts /\ locked \in [Accounts -> Nat] /\ reservations[o] \in Nat /\ lapses \subseteq lapses'
  BY TicketType, LapsesGrow DEF TypeInv, WalletTypes
<1>4. "commit" \notin lapses' => locked[x] >= reservations[o] /\ locked[x] \in Nat
  BY <1>2, <1>3, ClaimIsLocked
<1>5. \/ locked' = [locked EXCEPT ![x] = Unlocked(x, reservations[o])]
      \/ locked' = locked /\ lapses' # {}
  BY DEF ReleaseOrder, Lapse
<1> HIDE DEF x
<1>6. \/ locked'[x] = Unlocked(x, reservations[o])
      \/ locked'[x] = locked[x] /\ lapses' # {}
  BY <1>3, <1>5
<1>7. "commit" \notin lapses' => locked'[x] >= locked[x] - Claims[o] + Claims'[o]
  <2> SUFFICES ASSUME "commit" \notin lapses' PROVE locked'[x] >= locked[x] - Claims[o] + Claims'[o]
    OBVIOUS
  <2>1. CASE locked'[x] = Unlocked(x, reservations[o])
    <3>1. locked'[x] = locked[x] - reservations[o]
      BY <1>4, <2>1 DEF Unlocked
    <3> QED  BY <1>2, <1>3, <1>4, <3>1
  <2>2. CASE locked'[x] = locked[x]
    BY <1>2, <1>3, <1>4, <2>2
  <2> QED  BY <1>6, <2>1, <2>2
<1>8. lapses' = {} => locked'[x] = locked[x] - Claims[o] + Claims'[o]
  <2> SUFFICES ASSUME lapses' = {} PROVE locked'[x] = locked[x] - Claims[o] + Claims'[o]
    OBVIOUS
  <2>1. locked'[x] = locked[x] - reservations[o]
    BY <1>4, <1>6 DEF Unlocked
  <2> QED  BY <1>2, <1>3, <1>4, <2>1
<1>9. BackedAt(x)'
  BY <1>2, <1>7, <1>8, BackedMoves DEF x
<1>10. ASSUME NEW y \in Accounts, y # x PROVE BackedAt(y)'
  <2>1. locked'[y] = locked[y]
    BY <1>3, <1>5, <1>10
  <2>2. \A q \in Orders : ReservedAccount(q) = y => Claims'[q] = Claims[q]
    BY <1>2, <1>10 DEF x
  <2> QED  BY <2>1, <2>2, BackedStays
<1> QED  BY <1>9, <1>10 DEF Backed

\* A settlement that commits unlocks what it took.
LEMMA SettleBacked ==
    ASSUME TypeInv, Backed, [Next]_vars, NEW p \in Pairs, Settle(p),
           locked' = UnlockedFor(bridge[p]), reservations' = reservations, lapses' = lapses
    PROVE  Backed'
<1>a. PICK b, s : b = Buyer(Fill(bridge[p].fill)) /\ s = Seller(Fill(bridge[p].fill))
  OBVIOUS
<1>b. PICK X, Y : X = ReservedAccount(b) /\ Y = ReservedAccount(s)
  OBVIOUS
<1> DEFINE fb == bridge[p].fromBuyer
<1> DEFINE fs == bridge[p].fromSeller
<1>1. bridge[p].at = "settle"
  BY DEF Settle
<1>2. /\ b \in Orders /\ s \in Orders /\ b # s /\ X \in Accounts /\ Y \in Accounts /\ X # Y
      /\ fb \in Nat /\ fs \in Nat /\ Taken(b) = fb /\ Taken(s) = fs
      /\ locked' = [locked EXCEPT ![X] = Unlocked(X, fb), ![Y] = Unlocked(Y, fs)]
  BY <1>1, <1>a, <1>b, SettlingFill
<1>3. \A o \in Orders : Claims'[o] = IF o = b THEN Claims[o] - fb ELSE IF o = s THEN Claims[o] - fs ELSE Claims[o]
  BY <1>a, ClaimsSettle
<1>4. \A o \in Orders : Claims[o] = reservations[o] + Taken(o) /\ reservations[o] \in Nat
  BY ClaimsType
<1>5. "commit" \notin lapses => /\ locked[X] >= Claims[b] /\ locked[Y] >= Claims[s]
                                /\ locked[X] \in Nat /\ locked[Y] \in Nat
  BY <1>2, <1>b, ClaimIsLocked
<1>6. locked \in [Accounts -> Nat]
  BY DEF TypeInv, WalletTypes
<1>7. /\ \A q \in Orders : q # b /\ ReservedAccount(q) = X => Claims'[q] = Claims[q]
      /\ \A q \in Orders : q # s /\ ReservedAccount(q) = Y => Claims'[q] = Claims[q]
      /\ \A y \in Accounts : y # X /\ y # Y => \A q \in Orders : ReservedAccount(q) = y => Claims'[q] = Claims[q]
  BY <1>2, <1>3, <1>b
<1> HIDE DEF fb, fs
<1>8. "commit" \notin lapses => /\ locked'[X] = locked[X] - Claims[b] + Claims'[b]
                                /\ locked'[Y] = locked[Y] - Claims[s] + Claims'[s]
  <2> SUFFICES ASSUME "commit" \notin lapses
               PROVE  /\ locked'[X] = locked[X] - Claims[b] + Claims'[b]
                      /\ locked'[Y] = locked[Y] - Claims[s] + Claims'[s]
    OBVIOUS
  <2>1. /\ Claims[b] \in Nat /\ Claims[s] \in Nat /\ fb <= Claims[b] /\ fs <= Claims[s]
        /\ Claims'[b] = Claims[b] - fb /\ Claims'[s] = Claims[s] - fs
    BY <1>2, <1>3, <1>4
  <2>2. Unlocked(X, fb) = locked[X] - fb /\ Unlocked(Y, fs) = locked[Y] - fs
    BY <1>2, <1>5, <2>1 DEF Unlocked
  <2>3. locked'[X] = Unlocked(X, fb) /\ locked'[Y] = Unlocked(Y, fs)
    BY <1>2, <1>6
  <2> QED  BY <1>2, <1>5, <2>1, <2>2, <2>3
<1>9. "commit" \notin lapses =>
      locked'[X] >= locked[X] - Claims[b] + Claims'[b] /\ locked'[Y] >= locked[Y] - Claims[s] + Claims'[s]
  <2>1. \A o \in Orders : Claims[o] \in Int /\ Claims'[o] \in Int
    BY ClaimsType, ClaimsNextTyped
  <2> QED  BY <1>2, <1>5, <1>8, <2>1
<1>10. lapses' = {} => "commit" \notin lapses
  OBVIOUS
<1>11. BackedAt(ReservedAccount(b))'
  BY <1>2, <1>7, <1>8, <1>9, <1>10, <1>b, BackedMoves
<1>12. BackedAt(ReservedAccount(s))'
  BY <1>2, <1>7, <1>8, <1>9, <1>10, <1>b, BackedMoves
<1>13. ASSUME NEW y \in Accounts, y # X, y # Y PROVE BackedAt(y)'
  <2>1. locked'[y] = locked[y]
    BY <1>2, <1>6, <1>13
  <2> QED  BY <1>7, <1>13, <2>1, BackedStays
<1> QED  BY <1>b, <1>11, <1>12, <1>13 DEF Backed, ReservedAccount, User, ReservedAsset

\* Every step keeps what is claimed locked.
LEMMA BackedKept ==
    ASSUME TypeInv, Fresh, Backed, [Next]_vars
    PROVE  Backed'
<1>a. ASSUME locked' = locked, Claims' = Claims PROVE Backed'
  BY <1>a, BackedStays DEF Backed
<1>b. ASSUME UNCHANGED <<locked, reservations, bridge>> PROVE Backed'
  BY <1>a, <1>b, ClaimsKept
<1> USE DEF walletVars, orderVars, engineVars, fillVars, depVars, histVars
<1>1. ASSUME NEW o \in Orders, ReserveOrder(o) PROVE Backed'
  <2> DEFINE x == ReservedAccount(o)
  <2> DEFINE amt == AmountToReserve(o)
  <2>0. bridge' = bridge /\ stage[o] = "new" /\ x \in Accounts /\ amt \in Nat
    BY <1>1, TicketType DEF ReserveOrder
  <2>1. CASE locked' = [locked EXCEPT ![x] = @ + amt] /\ reservations' = [reservations EXCEPT ![o] = amt]
    <3>1. reservations[o] = 0
      BY <2>0 DEF Fresh
    <3>2. (\A q \in Orders : q # o => Claims'[q] = Claims[q]) /\ Claims'[o] = Claims[o] - reservations[o] + amt
      BY <2>0, <2>1, ClaimsReserve
    <3>3. locked'[x] = locked[x] + amt /\ \A y \in Accounts : y # x => locked'[y] = locked[y]
      BY <2>0, <2>1 DEF TypeInv, WalletTypes
    <3>4. Claims[o] \in Nat /\ locked[x] \in Nat
      BY <2>0, ClaimsType DEF TypeInv, WalletTypes
    <3>5. locked'[x] = locked[x] - Claims[o] + Claims'[o] /\ locked'[x] >= locked[x] - Claims[o] + Claims'[o]
      <4> HIDE DEF x, amt
      <4> QED  BY <2>0, <3>1, <3>2, <3>3, <3>4
    <3>6. BackedAt(ReservedAccount(o))'
      BY <3>2, <3>5, BackedMoves
    <3>7. ASSUME NEW y \in Accounts, y # x PROVE BackedAt(y)'
      <4>1. \A q \in Orders : ReservedAccount(q) = y => Claims'[q] = Claims[q]
        BY <3>2, <3>7
      <4> QED  BY <3>3, <3>7, <4>1, BackedStays
    <3> QED  BY <3>6, <3>7 DEF Backed
  <2>2. CASE locked' = locked /\ reservations' = reservations
    BY <1>b, <2>0, <2>2
  <2>3. CASE locked' = [locked EXCEPT ![x] = @ + amt] /\ reservations' = reservations /\ lapses' # {}
    <3>1. Claims' = Claims
      BY <2>0, <2>3, ClaimsKept
    <3>3. locked'[x] = locked[x] + amt /\ \A y \in Accounts : y # x => locked'[y] = locked[y]
      BY <2>0, <2>3 DEF TypeInv, WalletTypes
    <3>4. Claims[o] \in Nat /\ locked[x] \in Nat
      BY <2>0, ClaimsType DEF TypeInv, WalletTypes
    <3>5. locked'[x] >= locked[x] - Claims[o] + Claims'[o]
      <4> HIDE DEF x, amt
      <4> QED  BY <2>0, <3>1, <3>3, <3>4
    <3>6. BackedAt(ReservedAccount(o))'
      BY <2>3, <3>1, <3>5, BackedMoves
    <3>7. ASSUME NEW y \in Accounts, y # x PROVE BackedAt(y)'
      BY <3>1, <3>3, <3>7, BackedStays
    <3> QED  BY <3>6, <3>7 DEF Backed
  <2> QED  BY <1>1, <2>1, <2>2, <2>3 DEF ReserveOrder, Lapse
<1>2. ASSUME NEW o \in Orders, Submit(o) PROVE Backed'
  BY <1>2, <1>b DEF Submit, Lapse
<1>3. ASSUME NEW o \in Orders, Cancel(o) PROVE Backed'
  BY <1>3, <1>b DEF Cancel
<1>4. ASSUME NEW d \in Deposits, BeginDeposit(d) PROVE Backed'
  BY <1>4, <1>b DEF BeginDeposit, DepositMoves
<1>5. ASSUME NEW d \in Deposits, FindWallet(d) PROVE Backed'
  BY <1>5, <1>b DEF FindWallet, DepositMoves, Trouble
<1>6. ASSUME NEW d \in Deposits, CreateWallet(d) PROVE Backed'
  BY <1>6, <1>b DEF CreateWallet, DepositMoves
<1>7. ASSUME NEW d \in Deposits, CreditDeposit(d) PROVE Backed'
  BY <1>7, <1>b DEF CreditDeposit, DepositMoves, Trouble, Lapse
<1>8. ASSUME NEW d \in Deposits, CreditGhost(d) PROVE Backed'
  BY <1>8, <1>b DEF CreditGhost, DepositMoves
<1>9. ASSUME NEW d \in Deposits, RecordDeposit(d) PROVE Backed'
  BY <1>9, <1>b DEF RecordDeposit, DepositMoves, Trouble, Lapse
<1>10. ASSUME NEW t \in Orders, NEW m \in Orders, Execute(t, m) PROVE Backed'
  BY <1>10, <1>b DEF Execute, EmitFill
<1>11. ASSUME NEW p \in Pairs, Snapshot(p) PROVE Backed'
  BY <1>11, <1>b DEF Snapshot
<1>12. ASSUME NEW s \in spilled, SpillSends(s) PROVE Backed'
  BY <1>12, <1>b DEF SpillSends, Lapse
<1>13. ASSUME NEW s \in spilled, SpillWaits(s) PROVE Backed'
  BY <1>13, <1>b DEF SpillWaits
<1>14. ASSUME NEW p \in Pairs, BeginSettle(p) PROVE Backed'
  <2>1. locked' = locked
    BY <1>14 DEF BeginSettle
  <2> QED  BY <1>14, <2>1, <1>a, ClaimsBegin
<1>15. ASSUME NEW p \in Pairs, Settle(p) PROVE Backed'
  <2>1. \/ locked' = UnlockedFor(bridge[p]) /\ UNCHANGED <<reservations, lapses>>
        \/ locked' = locked /\ reservations' = Restored(bridge[p])
        \/ "commit" \in lapses'
    BY <1>15 DEF Settle, Lapse
  <2>2. CASE locked' = UnlockedFor(bridge[p]) /\ UNCHANGED <<reservations, lapses>>
    BY <1>15, <2>2, SettleBacked
  <2>3. CASE locked' = locked /\ reservations' = Restored(bridge[p])
    BY <1>15, <2>3, <1>a, ClaimsSettle
  <2>4. CASE "commit" \in lapses'
    BY <2>4 DEF Backed, BackedAt
  <2> QED  BY <2>1, <2>2, <2>3, <2>4
<1>16. ASSUME NEW p \in Pairs, ReleaseTaker(p) PROVE Backed'
  <2> DEFINE x == Fill(bridge[p].fill)
  <2>1. bridge[p].at = "taker" /\ bridge' = [bridge EXCEPT ![p] = [at |-> "maker", fill |-> bridge[p].fill]]
    BY <1>16, BridgeMoves
  <2>2. bridge'[p].at # "settle" /\ \A r \in Pairs : r # p => bridge'[r] = bridge[r]
    BY <2>1 DEF TypeInv, Shape, BridgeShape
  <2>3. x.taker \in Orders /\ Ticket[x.taker].pair = p
    BY <2>1, BridgeFill DEF TypeInv, Fills, IsFillOf
  <2>4. \/ ReleaseOrder(x.taker)
        \/ UNCHANGED <<locked, reservations>>
    BY <1>16 DEF ReleaseTaker
  <2>5. CASE ReleaseOrder(x.taker)
    BY <2>1, <2>2, <2>3, <2>5, ReleaseBacked
  <2>6. CASE UNCHANGED <<locked, reservations>>
    <3>1. \A q \in Orders : Taken(q)' = Taken(q)
      <4> SUFFICES ASSUME NEW q \in Orders PROVE Taken(q)' = Taken(q)
        OBVIOUS
      <4>1. CASE Ticket[q].pair = p
        BY <2>1, <2>2, <4>1 DEF Taken
      <4>2. CASE Ticket[q].pair # p
        BY <2>2, <4>2, TicketType, TakenKept
      <4> QED  BY <4>1, <4>2
    <3> QED  BY <1>a, <2>6, <3>1 DEF Claims
  <2> QED  BY <2>4, <2>5, <2>6
<1>17. ASSUME NEW p \in Pairs, ReleaseMaker(p) PROVE Backed'
  <2> DEFINE x == Fill(bridge[p].fill)
  <2>1. bridge[p].at = "maker" /\ bridge' = [bridge EXCEPT ![p] = Idle]
    BY <1>17, BridgeMoves DEF ReleaseMaker
  <2>2. bridge'[p].at # "settle" /\ \A r \in Pairs : r # p => bridge'[r] = bridge[r]
    BY <2>1 DEF TypeInv, Shape, BridgeShape, Idle
  <2>3. x.maker \in Orders /\ Ticket[x.maker].pair = p
    BY <2>1, BridgeFill DEF TypeInv, Fills, IsFillOf, Crosses
  <2>4. \/ ReleaseOrder(x.maker)
        \/ UNCHANGED <<locked, reservations>>
    BY <1>17 DEF ReleaseMaker
  <2>5. CASE ReleaseOrder(x.maker)
    BY <2>1, <2>2, <2>3, <2>5, ReleaseBacked
  <2>6. CASE UNCHANGED <<locked, reservations>>
    <3>1. \A q \in Orders : Taken(q)' = Taken(q)
      <4> SUFFICES ASSUME NEW q \in Orders PROVE Taken(q)' = Taken(q)
        OBVIOUS
      <4>1. CASE Ticket[q].pair = p
        BY <2>1, <2>2, <4>1 DEF Taken
      <4>2. CASE Ticket[q].pair # p
        BY <2>2, <4>2, TicketType, TakenKept
      <4> QED  BY <4>1, <4>2
    <3> QED  BY <1>a, <2>6, <3>1 DEF Claims
  <2> QED  BY <2>4, <2>5, <2>6
<1>18. ASSUME Crash PROVE Backed'
  <2>1. /\ locked' = locked /\ lapses' # {} /\ reservations' = [o \in Orders |-> 0]
        /\ bridge' = [p \in Pairs |-> Idle]
    BY <1>18 DEF Crash, Lapse
  <2>2. ASSUME NEW o \in Orders PROVE Claims'[o] = 0
    <3>1. Taken(o)' = 0
      BY <2>1, TicketType DEF Taken, Idle
    <3> QED  BY <2>1, <3>1 DEF Claims
  <2>3. ASSUME NEW x \in Accounts PROVE BackedAt(x)'
    <3> DEFINE S == OrdersOn(x)
    <3>1. IsFiniteSet(S) /\ \A q \in S : Claims'[q] = 0
      BY <2>2, SettlementAssumption, FS_Subset DEF OrdersOn
    <3> HIDE DEF S
    <3>2. SumFunctionOnSet(Claims', S) = 0
      BY <3>1, SumZero
    <3>3. ClaimedOn(x)' = 0
      BY <3>2 DEF S, ClaimedOn, OrdersOn, ReservedAccount, User, ReservedAsset
    <3>4. locked'[x] \in Nat
      BY <2>1 DEF TypeInv, WalletTypes
    <3> QED  BY <2>1, <3>3, <3>4 DEF BackedAt
  <2> QED  BY <2>3 DEF Backed
<1>19. CASE UNCHANGED vars
  BY <1>19, <1>b DEF vars
<1> QED
  BY <1>1, <1>2, <1>3, <1>4, <1>5, <1>6, <1>7, <1>8, <1>9, <1>10, <1>11, <1>12,
<1>13, <1>14, <1>15, <1>16, <1>17, <1>18, <1>19 DEF Next, ClientStep,
DepositStep, EngineStep, SpillStep, BridgeStep

-------------------------------------------------------------------------------
(* What the fills of an order add up to.                                     *)

\* A part is a natural number.
LEMMA PartsType ==
    ASSUME TypeInv, NEW o \in Orders
    PROVE  /\ Ticket[o].pair \in Pairs /\ Len(tape[Ticket[o].pair]) \in Nat
           /\ \A n \in 1..Len(tape[Ticket[o].pair]) : Part(o, n) \in Nat /\ Parts(o)[n] = Part(o, n) /\ Parts(o)[n] \in Nat
<1>1. Ticket[o].pair \in Pairs
  BY TicketType
<1>2. PICK p \in Pairs : p = Ticket[o].pair
  BY <1>1
<1>3. Len(tape[p]) \in Nat /\ \A n \in 1..Len(tape[p]) : tape[p][n] \in Fills
  BY ElementOfSeq DEF TypeInv, Shape, TapeShape
<1>4. \A n \in 1..Len(tape[p]) : Part(o, n) \in Nat
  BY <1>2, <1>3 DEF Part, Fills
<1> QED  BY <1>1, <1>2, <1>3, <1>4 DEF Parts

\* The sums over the first fills of a pair.
Sums ==
    \A o \in Orders : \A n \in 0..Len(tape[Ticket[o].pair]) :
        /\ FilledBy(o, n) \in Nat
        /\ n > 0 => FilledBy(o, n) = Part(o, n) + FilledBy(o, n - 1)
        /\ \A m \in 0..n : FilledBy(o, m) <= FilledBy(o, n)

\* One fill more adds its part, and the sums grow.
LEMMA FilledStep == TypeInv => Sums
<1> SUFFICES ASSUME TypeInv, NEW o \in Orders, NEW n \in 0..Len(tape[Ticket[o].pair])
             PROVE  /\ FilledBy(o, n) \in Nat
                    /\ n > 0 => FilledBy(o, n) = Part(o, n) + FilledBy(o, n - 1)
                    /\ \A m \in 0..n : FilledBy(o, m) <= FilledBy(o, n)
  BY DEF Sums
<1>1. /\ Len(tape[Ticket[o].pair]) \in Nat
      /\ \A i \in 1..Len(tape[Ticket[o].pair]) : Parts(o)[i] = Part(o, i) /\ Parts(o)[i] \in Nat
  BY PartsType
<1>2. n \in Nat /\ \A i \in 1..n : Parts(o)[i] = Part(o, i) /\ Parts(o)[i] \in Nat
  BY <1>1
<1>3. \A i \in 0..n : IsFiniteSet(1..i)
  BY <1>2, FS_Interval
<1>4. FilledBy(o, n) \in Nat
  BY <1>2, <1>3, SumOfNaturals DEF FilledBy
<1>5. ASSUME n > 0 PROVE FilledBy(o, n) = Part(o, n) + FilledBy(o, n - 1)
  <2> DEFINE I == 1..(n - 1)
  <2>1. 1..n = I \cup {n} /\ n \notin I /\ IsFiniteSet(I) /\ \A i \in I \cup {n} : Parts(o)[i] \in Int
    BY <1>2, <1>3, <1>5
  <2> HIDE DEF I
  <2>2. SumFunctionOnSet(Parts(o), I \cup {n}) = Parts(o)[n] + SumFunctionOnSet(Parts(o), I)
    BY <2>1, SumAdd
  <2> QED  BY <1>2, <1>5, <2>1, <2>2 DEF FilledBy, I
<1>6. ASSUME NEW m \in 0..n PROVE FilledBy(o, m) <= FilledBy(o, n)
  <2>1. 1..m \in SUBSET (1..n)
    BY <1>2
  <2> QED  BY <1>2, <1>3, <2>1, SumOfFewer DEF FilledBy
<1> QED  BY <1>4, <1>5, <1>6

\* The same after a step.
LEMMA FilledStepNext ==
    ASSUME TypeInv, [Next]_vars, NEW o \in Orders, NEW n \in 0..Len(tape'[Ticket[o].pair])
    PROVE  /\ FilledBy(o, n)' \in Nat
           /\ n > 0 => FilledBy(o, n)' = Part(o, n)' + FilledBy(o, n - 1)'
<1>1. TypeInv' => Sums'
  BY FilledStep, PTL
<1> QED  BY <1>1, TypeInvKept DEF Sums

\* What an order's fills have added up to stays.
LEMMA FilledKept ==
    ASSUME TypeInv, [Next]_vars, NEW o \in Orders, NEW n \in 0..Len(tape[Ticket[o].pair])
    PROVE  FilledBy(o, n)' = FilledBy(o, n)
<1> DEFINE p == Ticket[o].pair
<1>1. p \in Pairs /\ Len(tape[p]) \in Nat /\ Len(tape'[p]) \in Nat /\ Len(tape[p]) <= Len(tape'[p])
      /\ \A i \in 1..Len(tape[p]) : tape'[p][i] = tape[p][i]
  BY TicketType, TapeGrows
<1>2. n \in Nat /\ \A i \in 1..n : i \in 1..Len(tape[p]) /\ i \in 1..Len(tape'[p])
  BY <1>1
<1>3. \A i \in 1..n : Parts(o)[i] = Part(o, i) /\ Parts(o)[i] \in Int
  BY <1>2, PartsType
<1>4. \A i \in 1..n : Parts(o)'[i] = Part(o, i)'
  BY <1>2 DEF Parts
<1>5. \A i \in 1..n : Part(o, i)' = Part(o, i)
  BY <1>1, <1>2 DEF Part
<1>6. IsFiniteSet(1..n)
  BY <1>2, FS_Interval
<1>7. \A i \in 1..n : Parts(o)[i] = Parts(o)'[i] /\ Parts(o)[i] \in Int
  BY <1>3, <1>4, <1>5
<1>8. SumFunctionOnSet(Parts(o), 1..n) = SumFunctionOnSet(Parts(o)', 1..n)
  BY <1>6, <1>7, SumSame
<1> QED  BY <1>8 DEF FilledBy

\* The fills of every order add up to what it lost, also after a step.
LEMMA TapeAddsKept ==
    ASSUME TypeInv, TapeAdds, [Next]_vars
    PROVE  TapeAdds'
<1> DEFINE Adds(o) == /\ FilledBy(o, Len(tape[Ticket[o].pair])) = Ticket[o].qty - left[o]
                      /\ \A n \in 1..Len(tape[Ticket[o].pair]) :
                             Uses(o, tape[Ticket[o].pair][n]) => FilledBy(o, n) = Ticket[o].qty
<1>a. ASSUME NEW o \in Orders, tape'[Ticket[o].pair] = tape[Ticket[o].pair], left'[o] = left[o]
      PROVE  Adds(o)'
  <2> DEFINE L == Len(tape[Ticket[o].pair])
  <2>1. L \in Nat
    BY PartsType
  <2>2. \A n \in 0..L : FilledBy(o, n)' = FilledBy(o, n)
    BY FilledKept
  <2>3. \A n \in 1..L : n \in 0..L
    BY <2>1
  <2>4. L \in 0..L
    BY <2>1
  <2>5. FilledBy(o, Len(tape[Ticket[o].pair]))' = Ticket[o].qty - left'[o]
    <3>1. FilledBy(o, L) = Ticket[o].qty - left[o]
      BY DEF TapeAdds
    <3>2. PICK k : k = L
      OBVIOUS
    <3>3. FilledBy(o, k)' = FilledBy(o, k)
      BY <2>2, <2>4, <3>2
    <3>4. Len(tape[Ticket[o].pair])' = k
      BY <1>a, <3>2
    <3>5. FilledBy(o, Len(tape[Ticket[o].pair]))' = FilledBy(o, k)'
      BY <3>4 DEF FilledBy
    <3> QED  BY <1>a, <3>1, <3>2, <3>3, <3>5
  <2>6. ASSUME NEW n \in 1..Len(tape'[Ticket[o].pair]), Uses(o, tape'[Ticket[o].pair][n])
        PROVE  FilledBy(o, n)' = Ticket[o].qty
    <3>1. n \in 1..L /\ Uses(o, tape[Ticket[o].pair][n])
      BY <1>a, <2>6
    <3> QED  BY <2>2, <2>3, <3>1 DEF TapeAdds
  <2> QED  BY <2>5, <2>6 DEF Uses
<1>1. ASSUME UNCHANGED <<tape, left>> PROVE TapeAdds'
  <2>1. \A o \in Orders : Adds(o)'
    BY <1>a, <1>1
  <2> QED  BY <2>1 DEF TapeAdds
<1>2. ASSUME NEW t \in Orders, NEW m \in Orders, Execute(t, m) PROVE TapeAdds'
  <2>1. PICK r, x : r = Ticket[t].pair /\ x = NewFill(t, m)
    OBVIOUS
  <2>2a. /\ r \in Pairs /\ Ticket[m].pair = r /\ t # m /\ x.taker = t /\ x.maker = m /\ x.qty \in Nat
            /\ x.qty > 0
         /\ Len(tape'[r]) = Len(tape[r]) + 1 /\ tape'[r][Len(tape[r]) + 1] = x
         /\ \A p \in Pairs : p # r => tape'[p] = tape[p]
         /\ left' = [left EXCEPT ![t] = @ - x.qty, ![m] = @ - x.qty]
         /\ left \in [Orders -> Nat]
    <3> USE <2>1
    <3> QED  BY <1>2, ExecuteTape
  <2>2b. /\ Len(tape[r]) \in Nat
         /\ \A n \in 1..Len(tape'[r]) :
               (n \in 1..Len(tape[r]) /\ tape'[r][n] = tape[r][n]) \/ (n = Len(tape[r]) + 1 /\ tape'[r][n] = x)
    <3>1. \A p \in Pairs : \A n \in 1..Len(tape'[p]) :
              (n \in 1..Len(tape[p]) /\ tape'[p][n] = tape[p][n])
              \/ (p = Ticket[t].pair /\ n = Len(tape[Ticket[t].pair]) + 1 /\ tape'[p][n] = NewFill(t, m))
      BY <1>2, ExecuteTape
    <3>2. Len(tape[r]) \in Nat
      BY <2>2a DEF TypeInv, Shape, TapeShape
    <3> QED  BY <2>1, <2>2a, <3>1, <3>2
  <2>2. /\ r \in Pairs /\ Ticket[m].pair = r /\ t # m /\ x.taker = t /\ x.maker = m /\ x.qty \in Nat
           /\ x.qty > 0
        /\ Len(tape'[r]) = Len(tape[r]) + 1 /\ tape'[r][Len(tape[r]) + 1] = x
        /\ \A p \in Pairs : p # r => tape'[p] = tape[p]
        /\ Len(tape[r]) \in Nat
        /\ \A n \in 1..Len(tape'[r]) :
               (n \in 1..Len(tape[r]) /\ tape'[r][n] = tape[r][n]) \/ (n = Len(tape[r]) + 1 /\ tape'[r][n] = x)
        /\ left' = [left EXCEPT ![t] = @ - x.qty, ![m] = @ - x.qty]
        /\ left \in [Orders -> Nat]
    BY <2>2a, <2>2b
  <2>3. (x.takerFilled <=> left[t] = x.qty) /\ (x.makerFilled <=> left[m] = x.qty)
    BY <2>1 DEF NewFill
  <2>4. ASSUME NEW o \in Orders PROVE Adds(o)'
    <3>1. CASE Ticket[o].pair # r
      <4>1. o # t /\ o # m /\ Ticket[o].pair \in Pairs
        BY <2>1, <2>2, <3>1, TicketType
      <4>2. left'[o] = left[o] /\ tape'[Ticket[o].pair] = tape[Ticket[o].pair]
        BY <2>2, <3>1, <4>1
      <4> QED  BY <1>a, <4>2
    <3>2. CASE Ticket[o].pair = r
      <4>1. PICK L : L = Len(tape[r])
        OBVIOUS
      <4>2. L \in Nat /\ L + 1 \in 0..Len(tape'[r]) /\ L + 1 > 0 /\ (L + 1) - 1 = L /\ L \in 0..Len(tape[r])
        BY <2>2, <4>1
      <4>3. FilledBy(o, L + 1)' = Part(o, L + 1)' + FilledBy(o, L)' /\ FilledBy(o, L)' = FilledBy(o, L)
        BY <3>2, <4>2, FilledStepNext, FilledKept
      <4>4. FilledBy(o, L) = Ticket[o].qty - left[o]
        BY <3>2, <4>1 DEF TapeAdds
      <4>5. Part(o, L + 1)' = IF o \in {t, m} THEN x.qty ELSE 0
        BY <2>2, <3>2, <4>1 DEF Part
      <4>6. left'[o] = IF o \in {t, m} THEN left[o] - x.qty ELSE left[o]
        BY <2>2
      <4>7. Ticket[o].qty \in Nat /\ left[o] \in Nat
        BY <2>2, TicketType
      <4>8. FilledBy(o, L + 1)' = Ticket[o].qty - left'[o]
        BY <2>2, <4>3, <4>4, <4>5, <4>6, <4>7
      <4>9. FilledBy(o, Len(tape[Ticket[o].pair]))' = FilledBy(o, L + 1)'
        BY <2>2, <3>2, <4>1 DEF FilledBy
      <4>10. ASSUME NEW n \in 1..Len(tape'[r]), Uses(o, tape'[r][n]) PROVE FilledBy(o, n)' = Ticket[o].qty
        <5>1. CASE n \in 1..Len(tape[r]) /\ tape'[r][n] = tape[r][n]
          <6>1. n \in 0..Len(tape[Ticket[o].pair])
            BY <2>2, <3>2, <5>1
          <6>2. FilledBy(o, n) = Ticket[o].qty
            BY <3>2, <4>10, <5>1 DEF TapeAdds
          <6> QED  BY <6>1, <6>2, FilledKept
        <5>2. CASE n = L + 1 /\ tape'[r][n] = x
          <6>1. left'[o] = 0
            BY <2>2, <2>3, <4>6, <4>10, <5>2 DEF Uses
          <6> QED  BY <4>7, <4>8, <5>2, <6>1
        <5> QED  BY <2>2, <4>1, <5>1, <5>2
      <4> QED  BY <3>2, <4>8, <4>9, <4>10 DEF Uses
    <3> QED  BY <3>1, <3>2
  <2> QED  BY <2>4 DEF TapeAdds
<1> QED  BY <1>1, <1>2, TradeSteps

-------------------------------------------------------------------------------
(* The order of the fills.                                                   *)

\* Every step keeps the fills of a pair in their order, unless one came late.
LEMMA InOrderKept ==
    ASSUME TypeInv, InOrder, [Next]_vars
    PROVE  InOrder'
<1> SUFFICES ASSUME NoneOf({"late", "crash"})', NEW p \in Pairs PROVE InOrderAt(p)'
  BY DEF InOrder
<1>1. InOrderAt(p) /\ "late" \notin lapses' /\ "crash" \notin lapses'
  BY NoneBefore DEF InOrder
<1>2. /\ Len(chan[p]) \in Nat /\ chan[p] \in Seq(Notifications)
      /\ \A i \in 1..Len(chan[p]) : chan[p][i].n \in Nat /\ chan[p][i].n <= Len(tape[p])
      /\ Len(tape[p]) \in Nat
      /\ bridge[p].at # "idle" => bridge[p].fill.n \in Nat /\ bridge[p].fill.n <= Len(tape[p])
  <2>1. chan[p] \in Seq(Notifications) /\ tape[p] \in Seq(Fills)
    BY DEF TypeInv, Shape, TapeShape, ChanShape
  <2>2. \A i \in 1..Len(chan[p]) : Names(p, chan[p][i])
    BY DEF TypeInv, Shape, ChanShape
  <2>3. bridge[p].at # "idle" => Names(p, bridge[p].fill)
    BY DEF TypeInv, Shape, BridgeShape
  <2>4. \A f : Names(p, f) => f.n \in Nat /\ f.n <= Len(tape[p])
    BY DEF Names, Notifications
  <2> QED  BY <2>1, <2>2, <2>3, <2>4
<1>3. ASSUME chan'[p] = chan[p], bridge'[p].at # "idle" =>
             bridge[p].at # "idle" /\ bridge'[p].fill = bridge[p].fill
      PROVE  InOrderAt(p)'
  BY <1>1, <1>3 DEF InOrderAt
<1>4. ASSUME NEW d \in Deposits, CreditDeposit(d) PROVE InOrderAt(p)'
  BY <1>3, <1>4 DEF CreditDeposit, fillVars
<1>5. ASSUME NEW t \in Orders, NEW m \in Orders, Execute(t, m) PROVE InOrderAt(p)'
  <2>1. PICK r, f : r = Ticket[t].pair /\ f = Notification(r, Len(tape[r]) + 1, epoch)
    OBVIOUS
  <2>2. /\ r \in Pairs /\ f \in Notifications /\ f.n = Len(tape[r]) + 1 /\ bridge' = bridge
        /\ (chan' = [chan EXCEPT ![r] = Append(@, f)] \/ chan' = chan)
    <3> USE <2>1
    <3> QED  BY <1>5, NewNotification
  <2>3. CASE chan' = chan \/ p # r
    BY <1>3, <2>2, <2>3 DEF TypeInv, Shape, ChanShape
  <2>4. CASE chan' = [chan EXCEPT ![r] = Append(@, f)] /\ p = r
    <3>1. /\ Len(chan'[p]) = Len(chan[p]) + 1
          /\ \A i \in 1..Len(chan[p]) : chan'[p][i] = chan[p][i]
          /\ chan'[p][Len(chan[p]) + 1] = f
      BY <2>2, <2>4, ChanAppended
    <3>2. \A i \in 1..Len(chan'[p]) : (i \in 1..Len(chan[p]) /\ chan'[p][i] = chan[p][i]) \/ (i = Len(chan[p]) + 1 /\ chan'[p][i] = f)
      BY <1>2, <3>1
    <3>3. \A i, j \in 1..Len(chan'[p]) : i < j => chan'[p][i].n < chan'[p][j].n
      BY <1>1, <1>2, <2>2, <2>4, <3>2 DEF InOrderAt
    <3>4. bridge[p].at # "idle" => \A i \in 1..Len(chan'[p]) : bridge[p].fill.n < chan'[p][i].n
      BY <1>1, <1>2, <2>2, <2>4, <3>2 DEF InOrderAt
    <3> QED  BY <2>2, <3>3, <3>4 DEF InOrderAt
  <2> QED  BY <2>2, <2>3, <2>4
<1>6. ASSUME NEW s \in spilled, SpillSends(s) \/ SpillWaits(s) PROVE InOrderAt(p)'
  BY <1>1, <1>3, <1>6 DEF SpillSends, SpillWaits, Lapse
<1>7. ASSUME NEW r \in Pairs, BeginSettle(r) PROVE InOrderAt(p)'
  <2>1. CASE p # r
    BY <1>3, <1>7, <2>1, ChanTaken
  <2>2. CASE p = r
    <3>1. /\ Len(chan'[p]) = Len(chan[p]) - 1
          /\ \A i \in 1..Len(chan'[p]) : chan'[p][i] = chan[p][i + 1]
          /\ bridge'[p].fill = chan[p][1]
      BY <1>7, <2>2, ChanTaken
    <3>2. \A i \in 1..Len(chan'[p]) : i \in Nat /\ i + 1 \in 1..Len(chan[p]) /\ 1 \in 1..Len(chan[p]) /\ 1 < i + 1
      BY <1>2, <3>1
    <3>3. ASSUME NEW i \in 1..Len(chan'[p]), NEW j \in 1..Len(chan'[p]), i < j
          PROVE chan'[p][i].n < chan'[p][j].n
      <4>1. i + 1 \in 1..Len(chan[p]) /\ j + 1 \in 1..Len(chan[p]) /\ i + 1 < j + 1
        BY <3>2, <3>3
      <4>2. chan[p][i + 1].n < chan[p][j + 1].n
        BY <1>1, <4>1 DEF InOrderAt
      <4> QED  BY <3>1, <4>2
    <3>4. \A i \in 1..Len(chan'[p]) : bridge'[p].fill.n < chan'[p][i].n
      BY <1>1, <3>1, <3>2 DEF InOrderAt
    <3> QED  BY <3>3, <3>4 DEF InOrderAt
  <2> QED  BY <2>1, <2>2
<1>8. ASSUME NEW r \in Pairs, Settle(r) \/ ReleaseTaker(r) \/ ReleaseMaker(r) PROVE InOrderAt(p)'
  <2>1. chan' = chan
    BY <1>8 DEF Settle, ReleaseTaker, ReleaseMaker, fillVars
  <2>2. bridge'[p].at # "idle" => bridge[p].at # "idle" /\ bridge'[p].fill = bridge[p].fill
    <3>1. \/ bridge[r].at \in {"settle", "taker"}
             /\ bridge' = [bridge EXCEPT ![r] = [at |-> "taker", fill |-> bridge[r].fill]]
          \/ bridge[r].at \in {"settle", "taker"}
             /\ bridge' = [bridge EXCEPT ![r] = [at |-> "maker", fill |-> bridge[r].fill]]
          \/ bridge' = [bridge EXCEPT ![r] = Idle]
      BY <1>8, BridgeMoves
    <3> QED  BY <3>1 DEF TypeInv, Shape, BridgeShape, Idle
  <2> QED  BY <1>3, <2>1, <2>2
<1>9. ~Crash
  BY <1>1 DEF Crash, Lapse
<1>10. ASSUME UNCHANGED <<chan, spilled, bridge, moved, tape, epoch>> PROVE InOrderAt(p)'
  BY <1>3, <1>10
<1> QED  BY <1>4, <1>5, <1>6, <1>7, <1>8, <1>9, <1>10, FillSteps

-------------------------------------------------------------------------------
(* What is reserved covers what may still be traded.                         *)

\* What is reserved is the same for every unit of an order's quantity.
LEMMA UnitType ==
    ASSUME NEW o \in Orders
    PROVE  /\ UnitOf(o) \in Nat
           /\ AmountToReserve(o) = Ticket[o].qty * UnitOf(o)
<1>1. Ticket[o].price \in Nat /\ Ticket[o].qty \in Nat /\ Scale + TakerRate \in Nat
  BY TicketType, SettlementAssumption
<1> DEFINE a == Ticket[o].price
<1> DEFINE q == Ticket[o].qty
<1> DEFINE u == Scale + TakerRate
<1>2. a * u \in Nat /\ (a * q) * u = q * (a * u) /\ q = q * 1
  <2> HIDE DEF a, q, u
  <2>1. a \in Nat /\ q \in Nat /\ u \in Nat
    BY <1>1 DEF a, q, u
  <2> QED  BY <2>1, ProductType
<1> QED  BY <1>2 DEF UnitOf, AmountToReserve

\* A fill costs its buyer no more than he reserved for its quantity.
LEMMA DebitWithinUnit ==
    ASSUME NEW p \in Pairs, NEW x \in Fills, IsFillOf(p, x), IsReserved(Buyer(x))
    PROVE  BuyerDebit(x) <= x.qty * UnitOf(Buyer(x))
<1> DEFINE b == Buyer(x)
<1>1. b \in Orders /\ b \in {x.taker, x.maker} /\ Ticket[b].side = "Buy" /\ x.qty \in Nat
  BY FillParts
<1>2. x.maker \in Orders /\ x.taker \in Orders
  BY DEF Fills
<1>3. Ticket[x.maker].price \in Nat /\ Ticket[b].price \in Nat
  BY <1>1, <1>2, TicketType
<1>4. Ticket[x.maker].price <= Ticket[b].price
  <2>1. CASE b = x.maker
    BY <1>3, <2>1
  <2>2. CASE b = x.taker
    <3>1. Ticket[b].price # Market
      BY <1>1 DEF IsReserved
    <3> QED  BY <1>1, <1>3, <2>2, <3>1 DEF IsFillOf, Crosses
  <2> QED  BY <1>1, <2>1, <2>2
<1>5. PICK a, q, S, T, R, c : a = Ticket[x.maker].price /\ q = x.qty /\ S = Scale /\ T = TakerRate
                              /\ R = (IF b = x.taker THEN TakerRate ELSE MakerRate) /\ c = Ticket[b].price
  OBVIOUS
<1>6. a \in Nat /\ q \in Nat /\ S \in Nat /\ T \in Nat /\ R \in Nat /\ R <= T /\ c \in Nat /\ a <= c
  BY <1>1, <1>3, <1>4, <1>5, SettlementAssumption
<1>7. BuyerDebit(x) = (a * q) * S + (a * q) * R /\ UnitOf(b) = c * (S + T)
  BY <1>1, <1>5 DEF BuyerDebit, Notional, FeeOf, UnitOf
<1>8. a * q \in Nat /\ c * q \in Nat /\ S + R \in Nat /\ S + T \in Nat
  BY <1>6, ProductType
<1>9. (a * q) * S + (a * q) * R = (a * q) * (S + R)
  BY <1>6, <1>8
<1>10. (a * q) * (S + R) <= (c * q) * (S + R)
  BY <1>6, <1>8, ProductMonotone
<1>11. (S + R) * (c * q) <= (S + T) * (c * q)
  BY <1>6, <1>8, ProductMonotone
<1>12. (S + R) * (c * q) = (c * q) * (S + R) /\ (S + T) * (c * q) = q * (c * (S + T))
  BY <1>6, <1>8
<1>13. (a * q) * (S + R) \in Int /\ (c * q) * (S + R) \in Int /\ q * (c * (S + T)) \in Int
  BY <1>6, <1>8, ProductType
<1> QED  BY <1>5, <1>7, <1>9, <1>10, <1>11, <1>12, <1>13

\* The fills that have left a channel are fills that were executed.
LEMMA GoneType ==
    ASSUME TypeInv, NEW p \in Pairs
    PROVE  Gone(p) \in 0..Len(tape[p]) /\ Len(tape[p]) \in Nat
<1>1. chan[p] \in Seq(Notifications) /\ tape[p] \in Seq(Fills)
  BY DEF TypeInv, Shape, TapeShape, ChanShape
<1>2. CASE chan[p] = <<>>
  BY <1>1, <1>2 DEF Gone
<1>3. CASE chan[p] # <<>>
  <2>1. Names(p, chan[p][1])
    BY <1>3, HeadFill DEF TypeInv
  <2>2. chan[p][1].n \in Nat /\ chan[p][1].n > 0 /\ chan[p][1].n <= Len(tape[p])
    BY <2>1 DEF Names, Notifications
  <2> QED  BY <1>1, <1>3, <2>2 DEF Gone
<1> QED  BY <1>2, <1>3

\* Only the bridge takes fills out of the channel, unless the process dies.
LEMMA GoneSteps ==
    ASSUME TypeInv, InOrder, [Next]_vars, NoneOf({"late", "crash"})', NEW p \in Pairs
    PROVE  /\ ~BeginSettle(p) => Gone(p)' = Gone(p)
           /\ BeginSettle(p) => /\ Gone(p) = chan[p][1].n - 1
                                /\ chan[p][1].n <= Gone(p)' /\ Gone(p)' <= Len(tape[p]) /\ Gone(p)' \in Nat
<1>1. InOrderAt(p) /\ "late" \notin lapses' /\ "crash" \notin lapses'
  BY NoneBefore DEF InOrder
<1>2. chan[p] \in Seq(Notifications) /\ Len(chan[p]) \in Nat /\ tape[p] \in Seq(Fills) /\ Len(tape[p]) \in Nat
      /\ (chan[p] # <<>> <=> Len(chan[p]) > 0) /\ FillsCap \in Nat /\ FillsCap > 0
  BY SettlementAssumption DEF TypeInv, Shape, TapeShape, ChanShape
<1>3. ASSUME chan'[p] = chan[p], tape'[p] = tape[p] PROVE Gone(p)' = Gone(p)
  BY <1>3 DEF Gone
<1>4. ASSUME NEW t \in Orders, NEW m \in Orders, Execute(t, m) PROVE Gone(p)' = Gone(p)
  <2>1. PICK r, f : r = Ticket[t].pair /\ f = Notification(r, Len(tape[r]) + 1, epoch)
    OBVIOUS
  <2>2. /\ r \in Pairs /\ f \in Notifications /\ f.n = Len(tape[r]) + 1
        /\ \/ chan' = [chan EXCEPT ![r] = Append(@, f)]
           \/ chan' = chan /\ Len(chan[r]) >= FillsCap
    <3> USE <2>1
    <3> QED  BY <1>4, NewNotification
  <2>3. Len(tape'[r]) = Len(tape[r]) + 1 /\ \A q \in Pairs : q # r => tape'[q] = tape[q]
    <3> USE <2>1
    <3> QED  BY <1>4, ExecuteTape
  <2>4. CASE p # r
    BY <1>3, <2>2, <2>3, <2>4 DEF TypeInv, Shape, ChanShape
  <2>5. CASE p = r /\ chan' = chan /\ Len(chan[r]) >= FillsCap
    BY <1>2, <2>5 DEF Gone
  <2>6. CASE p = r /\ chan' = [chan EXCEPT ![r] = Append(@, f)]
    <3>1. /\ Len(chan'[p]) = Len(chan[p]) + 1 /\ chan'[p] \in Seq(Notifications)
          /\ \A i \in 1..Len(chan[p]) : chan'[p][i] = chan[p][i]
          /\ chan'[p][Len(chan[p]) + 1] = f
      BY <2>2, <2>6, ChanAppended
    <3>2. chan'[p] # <<>>
      BY <1>2, <3>1
    <3>3. CASE chan[p] = <<>>
      <4>1. chan'[p][1] = f
        BY <3>1, <3>3
      <4> QED  BY <1>2, <2>2, <2>6, <3>2, <3>3, <4>1 DEF Gone
    <3>4. CASE chan[p] # <<>>
      <4>1. 1 \in 1..Len(chan[p])
        BY <1>2, <3>4
      <4> QED  BY <3>1, <3>2, <3>4, <4>1 DEF Gone
    <3> QED  BY <3>3, <3>4
  <2> QED  BY <2>2, <2>4, <2>5, <2>6
<1>5. ASSUME NEW s \in spilled, SpillSends(s) \/ SpillWaits(s) PROVE Gone(p)' = Gone(p)
  BY <1>1, <1>3, <1>5 DEF SpillSends, SpillWaits, Lapse, engineVars
<1>6. ASSUME NEW r \in Pairs, Settle(r) \/ ReleaseTaker(r) \/ ReleaseMaker(r) PROVE Gone(p)' = Gone(p)
  BY <1>3, <1>6 DEF Settle, ReleaseTaker, ReleaseMaker, fillVars, engineVars
<1>7. ASSUME NEW d \in Deposits, CreditDeposit(d) PROVE Gone(p)' = Gone(p)
  BY <1>3, <1>7 DEF CreditDeposit, fillVars, engineVars
<1>8. ~Crash
  BY <1>1 DEF Crash, Lapse
<1>9. ASSUME NEW r \in Pairs, r # p, BeginSettle(r) PROVE Gone(p)' = Gone(p)
  <2>1. chan'[p] = chan[p]
    BY <1>9, ChanTaken
  <2> QED  BY <1>3, <1>9, <2>1 DEF BeginSettle, engineVars
<1>10. ASSUME BeginSettle(p)
       PROVE  /\ Gone(p) = chan[p][1].n - 1
              /\ chan[p][1].n <= Gone(p)' /\ Gone(p)' <= Len(tape[p]) /\ Gone(p)' \in Nat
  <2>1. /\ chan'[p] \in Seq(Notifications)
        /\ Len(chan[p]) > 0 /\ Len(chan'[p]) = Len(chan[p]) - 1
        /\ \A i \in 1..Len(chan'[p]) : chan'[p][i] = chan[p][i + 1]
        /\ Names(p, chan[p][1])
    BY <1>10, ChanTaken
  <2>2. tape' = tape
    BY <1>10 DEF BeginSettle, engineVars
  <2>3. chan[p][1].n \in Nat /\ chan[p][1].n <= Len(tape[p])
    BY <2>1 DEF Names, Notifications
  <2>4. Gone(p) = chan[p][1].n - 1
    BY <1>2, <2>1 DEF Gone
  <2>5. CASE chan'[p] = <<>>
    BY <1>2, <2>2, <2>3, <2>4, <2>5 DEF Gone
  <2>6. CASE chan'[p] # <<>>
    <3>1. Len(chan'[p]) > 0 /\ 1 \in 1..Len(chan'[p]) /\ 2 \in 1..Len(chan[p]) /\ 1 \in 1..Len(chan[p])
      BY <1>2, <2>1, <2>6
    <3>2. chan'[p][1] = chan[p][2]
      BY <2>1, <3>1
    <3>3. chan[p][1].n < chan[p][2].n
      BY <1>1, <3>1 DEF InOrderAt
    <3>4. Names(p, chan[p][2])
      BY <3>1 DEF TypeInv, Shape, ChanShape
    <3>5. chan[p][2].n \in Nat /\ chan[p][2].n <= Len(tape[p])
      BY <3>4 DEF Names, Notifications
    <3>6. Gone(p)' = chan[p][2].n - 1
      BY <2>6, <3>2 DEF Gone
    <3>7. PICK a, b, l : a = chan[p][1].n /\ b = chan[p][2].n /\ l = Len(tape[p])
      OBVIOUS
    <3>8. a \in Nat /\ b \in Nat /\ a < b /\ b <= l /\ l \in Nat
      BY <1>2, <2>3, <3>3, <3>5, <3>7
    <3>9. a <= b - 1 /\ b - 1 <= l /\ b - 1 \in Nat
      BY ONLY <3>8
    <3>10. Gone(p)' = b - 1 /\ Gone(p) = a - 1
      BY <2>4, <3>6, <3>7
    <3> QED  BY <3>7, <3>9, <3>10
  <2> QED  BY <2>5, <2>6
<1>11. ASSUME UNCHANGED <<chan, spilled, bridge, moved, tape, epoch>> PROVE Gone(p)' = Gone(p)
  BY <1>3, <1>11
<1> QED  BY <1>4, <1>5, <1>6, <1>7, <1>8, <1>9, <1>10, <1>11, FillSteps

\* What is left of an order is what its fills leave, at every point of the tape.
LEMMA FilledBound ==
    ASSUME TypeInv, TapeAdds, NEW o \in Orders, NEW n \in 0..Len(tape[Ticket[o].pair])
    PROVE  /\ FilledBy(o, n) \in Nat /\ FilledBy(o, n) <= Ticket[o].qty /\ Ticket[o].qty \in Nat
           /\ \A m \in 0..n : FilledBy(o, m) \in Nat /\ FilledBy(o, m) <= FilledBy(o, n)
<1> DEFINE L == Len(tape[Ticket[o].pair])
<1>1. L \in Nat /\ Ticket[o].qty \in Nat /\ left[o] \in Nat
  BY PartsType, TicketType DEF TypeInv, PlainTypes
<1>2. FilledBy(o, L) = Ticket[o].qty - left[o]
  BY DEF TapeAdds
<1>3. FilledBy(o, n) \in Nat /\ \A m \in 0..n : FilledBy(o, m) <= FilledBy(o, n) /\ m \in 0..L
  <2>1. \A m \in 0..n : m \in 0..L
    BY <1>1
  <2> QED  BY <2>1, FilledStep DEF Sums
<1>4. \A m \in 0..n : FilledBy(o, m) \in Nat
  BY <1>3, FilledStep DEF Sums
<1>5. FilledBy(o, n) <= FilledBy(o, L) /\ FilledBy(o, L) \in Nat
  <2>1. L \in 0..L /\ n \in 0..L
    BY <1>1
  <2> QED  BY <2>1, FilledStep DEF Sums
<1> QED  BY <1>1, <1>2, <1>3, <1>4, <1>5

\* An order whose reservation does not shrink stays covered.
LEMMA CoveredStays ==
    ASSUME TypeInv, TapeAdds, InOrder, [Next]_vars, NoneOf({"late", "crash"})',
           NEW o \in Orders, CoveredAt(o), Placed(o)' => Placed(o), reservations'[o] >= reservations[o]
    PROVE  CoveredAt(o)'
<1> SUFFICES ASSUME Placed(o)'
             PROVE  /\ IsReserved(o)
                    /\ reservations'[o] >= (Ticket[o].qty - FilledBy(o, Gone(Ticket[o].pair))') * UnitOf(o)
  BY DEF CoveredAt, IsReserved, UnitOf
<1>1. PICK p, g, h, U : p = Ticket[o].pair /\ g = Gone(p) /\ h = Gone(p)' /\ U = UnitOf(o)
  OBVIOUS
<1>2. p \in Pairs /\ g \in 0..Len(tape[p]) /\ Len(tape[p]) \in Nat
  BY <1>1, TicketType, GoneType
<1>3. h \in 0..Len(tape[p]) /\ g \in 0..h
  <2>1. h = g \/ (g = chan[p][1].n - 1 /\ chan[p][1].n <= h /\ h <= Len(tape[p]) /\ h \in Nat /\ BeginSettle(p))
    BY <1>1, <1>2, GoneSteps
  <2>2. CASE h = g
    BY <1>2, <2>2
  <2>3. CASE g = chan[p][1].n - 1 /\ chan[p][1].n <= h /\ h <= Len(tape[p]) /\ h \in Nat /\ BeginSettle(p)
    <3>1. chan[p][1].n \in Nat
      BY <1>2, <2>3, ChanTaken DEF Names, Notifications
    <3> QED  BY <1>2, <2>3, <3>1
  <2> QED  BY <2>1, <2>2, <2>3
<1>4. FilledBy(o, Gone(Ticket[o].pair))' = FilledBy(o, h)
  <2>1. FilledBy(o, h)' = FilledBy(o, h)
    BY <1>1, <1>3, FilledKept
  <2> QED  BY <1>1, <2>1 DEF FilledBy
<1>5. /\ FilledBy(o, h) \in Nat /\ FilledBy(o, g) \in Nat /\ FilledBy(o, g) <= FilledBy(o, h)
      /\ FilledBy(o, h) <= Ticket[o].qty /\ Ticket[o].qty \in Nat
  BY <1>1, <1>3, FilledBound
<1>6. IsReserved(o) /\ reservations[o] >= (Ticket[o].qty - FilledBy(o, g)) * U
  BY <1>1 DEF CoveredAt
<1>7. U \in Nat /\ reservations[o] \in Nat /\ reservations'[o] \in Nat
  BY <1>1, UnitType, TypeInvKept DEF TypeInv, WalletTypes
<1>8. PICK a, b : a = Ticket[o].qty - FilledBy(o, h) /\ b = Ticket[o].qty - FilledBy(o, g)
  OBVIOUS
<1>9. a \in Nat /\ b \in Nat /\ a <= b
  BY <1>5, <1>8
<1>10. a * U <= b * U /\ a * U \in Nat /\ b * U \in Nat
  BY <1>7, <1>9, ProductMonotone, ProductType
<1>11. reservations'[o] >= a * U
  BY <1>6, <1>7, <1>8, <1>10
<1> QED  BY <1>1, <1>4, <1>6, <1>8, <1>11

\* A fill that is taken out of the channel was reserved for, in full, and what it
\* leaves covers what may still be traded.
LEMMA CoveredBegin ==
    ASSUME TypeInv, Fresh, TapeAdds, InOrder, [Next]_vars, NoneOf({"late", "crash"})',
           NEW p \in Pairs, BeginSettle(p),
           NEW o \in {Fill(chan[p][1]).taker, Fill(chan[p][1]).maker}, CoveredAt(o),
           NEW amt \in Nat, amt <= Fill(chan[p][1]).qty * UnitOf(o),
           reservations'[o] = reservations[o] - FromReservation(o, amt)
    PROVE  CoveredAt(o)' /\ FromReservation(o, amt) = amt
<1>1. PICK n, x : n = chan[p][1].n /\ x = tape[p][n]
  OBVIOUS
<1>2. Names(p, chan[p][1])
  BY ChanTaken
<1>3. n \in Nat /\ n > 0 /\ n <= Len(tape[p]) /\ Len(tape[p]) \in Nat /\ Fill(chan[p][1]) = x
  BY <1>1, <1>2 DEF Names, Notifications, Fill, TypeInv, Shape, TapeShape
<1>4. x \in Fills /\ IsFillOf(p, x)
  BY <1>2, <1>3, FillNamed DEF TypeInv, Shape
<1>5. o \in Orders /\ Ticket[o].pair = p /\ o \in {x.taker, x.maker} /\ x.qty \in Nat
  BY <1>3, <1>4 DEF Fills, IsFillOf, Crosses
<1>6. Placed(o)
  <2>1. left[o] < Ticket[o].qty
    <3>1. n \in 1..Len(tape[p]) /\ o \in {tape[p][n].taker, tape[p][n].maker}
      BY <1>1, <1>3, <1>5
    <3> QED  BY <3>1 DEF Fresh
  <2>2. left[o] \in Nat /\ Ticket[o].qty \in Nat
    BY <1>5, TicketType DEF TypeInv, PlainTypes
  <2> QED  BY <2>1, <2>2 DEF Placed
<1>7. PICK h, U, R, Q : h = Gone(p)' /\ U = UnitOf(o) /\ R = reservations[o] /\ Q = Ticket[o].qty
  OBVIOUS
<1>8. Gone(p) = n - 1 /\ n <= h /\ h <= Len(tape[p]) /\ h \in Nat
  BY <1>1, <1>7, GoneSteps
<1>9. n \in 0..Len(tape[p]) /\ h \in 0..Len(tape[p]) /\ n \in 0..h /\ n - 1 \in 0..n
  BY <1>3, <1>8
<1>10. PICK F, G, H : F = FilledBy(o, n - 1) /\ G = FilledBy(o, n) /\ H = FilledBy(o, h)
  OBVIOUS
<1>11. F \in Nat /\ G \in Nat /\ H \in Nat /\ G <= H /\ H <= Q /\ Q \in Nat
  BY <1>5, <1>7, <1>9, <1>10, FilledBound
<1>12. G = x.qty + F
  <2>1. G = Part(o, n) + FilledBy(o, n - 1)
    BY <1>3, <1>5, <1>9, <1>10, FilledStep DEF Sums
  <2>2. Part(o, n) = x.qty
    BY <1>1, <1>5 DEF Part
  <2> QED  BY <1>10, <2>1, <2>2
<1>13. IsReserved(o) /\ R >= (Q - F) * U
  BY <1>5, <1>6, <1>7, <1>8, <1>10 DEF CoveredAt
<1>14. U \in Nat /\ R \in Nat
  BY <1>5, <1>7, UnitType DEF TypeInv, WalletTypes
<1>15. PICK a, b : a = Q - G /\ b = Q - H
  OBVIOUS
<1>16. a \in Nat /\ b \in Nat /\ b <= a /\ Q - F = a + x.qty
  <2>1. x.qty \in Nat
    BY <1>5
  <2>2. PICK k : k = x.qty
    OBVIOUS
  <2>3. k \in Nat /\ G = k + F
    BY <1>12, <2>1, <2>2
  <2>4. a \in Nat /\ b \in Nat /\ b <= a /\ Q - F = a + k
    BY <1>11, <1>15, <2>3
  <2> QED  BY <2>2, <2>4
<1>17. (a + x.qty) * U = a * U + x.qty * U
  BY <1>5, <1>14, <1>16
<1>18. a * U \in Nat /\ b * U \in Nat /\ x.qty * U \in Nat /\ b * U <= a * U
  BY <1>5, <1>14, <1>16, ProductType, ProductMonotone
<1>19. amt <= x.qty * U
  BY <1>3, <1>7
<1>20. R >= a * U + x.qty * U
  BY <1>13, <1>16, <1>17
<1>21. R >= amt /\ R - amt >= b * U
  BY <1>14, <1>18, <1>19, <1>20
<1>22. FromReservation(o, amt) = amt
  BY <1>5, <1>7, <1>21, FromReservationType DEF TypeInv, WalletTypes
<1>23. FilledBy(o, Gone(Ticket[o].pair))' = H
  <2>1. FilledBy(o, h)' = FilledBy(o, h)
    BY <1>5, <1>9, FilledKept
  <2> QED  BY <1>5, <1>7, <1>10, <2>1 DEF FilledBy
<1>24. reservations'[o] >= (Q - H) * U
  BY <1>7, <1>15, <1>21, <1>22
<1>25. CoveredAt(o)'
  <2>1. reservations'[o] >= (Ticket[o].qty - FilledBy(o, Gone(Ticket[o].pair))') * UnitOf(o)
    BY <1>7, <1>23, <1>24
  <2> QED  BY <1>13, <2>1 DEF CoveredAt, IsReserved, UnitOf
<1> QED  BY <1>22, <1>25

\* An order that its fills have used up needs no reservation any more.
LEMMA CoveredUsedUp ==
    ASSUME TypeInv, TapeAdds, InOrder, [Next]_vars, NoneOf({"late", "crash"})', NEW p \in Pairs,
           bridge[p].at \in {"taker", "maker"},
           NEW o \in {Fill(bridge[p].fill).taker, Fill(bridge[p].fill).maker}, Uses(o, Fill(bridge[p].fill)),
           CoveredAt(o), Placed(o)' => Placed(o), reservations'[o] \in Nat
    PROVE  CoveredAt(o)'
<1> SUFFICES ASSUME Placed(o)'
             PROVE  /\ IsReserved(o)
                    /\ reservations'[o] >= (Ticket[o].qty - FilledBy(o, Gone(Ticket[o].pair))') * UnitOf(o)
  BY DEF CoveredAt, IsReserved, UnitOf
<1>1. PICK n, x, g : n = bridge[p].fill.n /\ x = tape[p][n] /\ g = Gone(p)
  OBVIOUS
<1>2. Names(p, bridge[p].fill) /\ Fill(bridge[p].fill) \in Fills /\ IsFillOf(p, Fill(bridge[p].fill))
  BY BridgeFill DEF TypeInv
<1>3. n \in Nat /\ n > 0 /\ n <= Len(tape[p]) /\ Len(tape[p]) \in Nat /\ Fill(bridge[p].fill) = x
  BY <1>1, <1>2 DEF Names, Notifications, Fill, TypeInv, Shape, TapeShape
<1>4. o \in Orders /\ Ticket[o].pair = p /\ Uses(o, x)
  BY <1>2, <1>3 DEF Fills, IsFillOf, Crosses
<1>5. g \in 0..Len(tape[p]) /\ n \in 0..g
  <2>1. g \in 0..Len(tape[p])
    BY <1>1, GoneType
  <2>2. CASE chan[p] = <<>>
    BY <1>1, <1>3, <2>1, <2>2 DEF Gone
  <2>3. CASE chan[p] # <<>>
    <3>1. 1 \in 1..Len(chan[p]) /\ Names(p, chan[p][1])
      BY <2>3, HeadFill DEF TypeInv
    <3>2. n < chan[p][1].n /\ chan[p][1].n \in Nat
      <4>1. InOrderAt(p)
        BY NoneBefore DEF InOrder
      <4> QED  BY <1>1, <3>1, <4>1 DEF InOrderAt, Names, Notifications
    <3>3. g = chan[p][1].n - 1
      BY <1>1, <2>3 DEF Gone
    <3> QED  BY <1>3, <2>1, <3>2, <3>3
  <2> QED  BY <2>2, <2>3
<1>6. Gone(p)' = g
  <2>1. ~BeginSettle(p)
    BY DEF BeginSettle, Idle
  <2> QED  BY <1>1, <2>1, GoneSteps
<1>7. FilledBy(o, g) = Ticket[o].qty /\ Ticket[o].qty \in Nat
  <2>1. FilledBy(o, n) = Ticket[o].qty
    BY <1>1, <1>3, <1>4 DEF TapeAdds
  <2> QED  BY <1>4, <1>5, <2>1, FilledBound
<1>8. FilledBy(o, Gone(Ticket[o].pair))' = FilledBy(o, g)
  <2>1. FilledBy(o, g)' = FilledBy(o, g)
    BY <1>4, <1>5, FilledKept
  <2> QED  BY <1>4, <1>6, <2>1 DEF FilledBy
<1>9. IsReserved(o) /\ UnitOf(o) \in Nat
  BY <1>4, UnitType DEF CoveredAt
<1>10. (Ticket[o].qty - FilledBy(o, Gone(Ticket[o].pair))') * UnitOf(o) = 0
  <2>1. Ticket[o].qty - FilledBy(o, Gone(Ticket[o].pair))' = 0
    BY <1>7, <1>8
  <2>2. \A k \in Nat : 0 * k = 0
    OBVIOUS
  <2> QED  BY <1>9, <2>1, <2>2
<1> QED  BY <1>9, <1>10

\* A bridge that goes on with its fill took of it what it took.
LEMMA TakenInFullStays ==
    ASSUME TypeInv, [Next]_vars, NEW p \in Pairs, TakenInFull(p), Settling(p)' => bridge'[p] = bridge[p]
    PROVE  TakenInFull(p)'
<1> SUFFICES ASSUME Settling(p)' PROVE TakenInFull(p)'
  BY DEF TakenInFull
<1>1. bridge'[p] = bridge[p] /\ Settling(p)
  BY DEF Settling
<1>2. PICK f : f = bridge[p].fill
  OBVIOUS
<1>3. Names(p, f)
  BY <1>1, <1>2, BridgeFill DEF TypeInv, Settling
<1>4. Fill(f)' = Fill(f)
  BY <1>3, NamesKept
<1>5. Fill(bridge[p].fill)' = Fill(bridge[p].fill)
  BY <1>1, <1>2, <1>4 DEF Fill
<1> QED  BY <1>1, <1>5 DEF TakenInFull, BuyerDebit, Notional, FeeOf, Buyer

\* What a deal takes of its orders, when it is begun.
LEMMA BeginTakes ==
    ASSUME TypeInv, NEW p \in Pairs, BeginSettle(p)
    PROVE  LET x == Fill(chan[p][1])  b == Buyer(x)  s == Seller(x) IN
           /\ x \in Fills /\ IsFillOf(p, x) /\ b \in Orders /\ s \in Orders /\ b # s
           /\ b \in {x.taker, x.maker} /\ s \in {x.taker, x.maker}
           /\ BuyerDebit(x) \in Nat /\ x.qty \in Nat /\ UnitOf(s) = 1
           /\ reservations'[b] = reservations[b] - FromReservation(b, BuyerDebit(x))
           /\ reservations'[s] = reservations[s] - FromReservation(s, x.qty)
           /\ \A o \in Orders : o # b /\ o # s => reservations'[o] = reservations[o]
           /\ bridge'[p] = [at |-> "settle", fill |-> chan[p][1], fromBuyer |-> FromReservation(b, BuyerDebit(x)),
                            fromSeller |-> FromReservation(s, x.qty)]
           /\ \A r \in Pairs : r # p => bridge'[r] = bridge[r]
           /\ UNCHANGED <<tape, stage, left, lapses>>
<1> DEFINE x == Fill(chan[p][1])
<1> DEFINE b == Buyer(x)
<1> DEFINE s == Seller(x)
<1>1. chan[p] # <<>> /\ Head(chan[p]) = chan[p][1] /\ x \in Fills /\ IsFillOf(p, x)
  BY HeadFill DEF BeginSettle, TypeInv
<1>2. /\ reservations' = [reservations EXCEPT ![b] = @ - FromReservation(b, BuyerDebit(x)), ![s] = @ - FromReservation(s, x.qty)]
      /\ bridge' = [bridge EXCEPT ![p] = [at |-> "settle", fill |-> chan[p][1], fromBuyer |-> FromReservation(b, BuyerDebit(x)),
                            fromSeller |-> FromReservation(s, x.qty)]]
      /\ UNCHANGED <<tape, stage, left, lapses>>
  BY <1>1 DEF BeginSettle, engineVars, orderVars, histVars
<1>3. /\ b \in Orders /\ s \in Orders /\ b # s /\ {b, s} = {x.taker, x.maker}
      /\ BuyerDebit(x) \in Nat /\ x.qty \in Nat /\ Ticket[s].side = "Sell"
  <2> HIDE DEF x
  <2> QED  BY <1>1, FillParts
<1>4. UnitOf(s) = 1
  BY <1>3 DEF UnitOf
<1> HIDE DEF x, b, s
<1>5. /\ reservations'[b] = reservations[b] - FromReservation(b, BuyerDebit(x))
      /\ reservations'[s] = reservations[s] - FromReservation(s, x.qty)
      /\ \A o \in Orders : o # b /\ o # s => reservations'[o] = reservations[o]
  BY <1>2, <1>3 DEF TypeInv, WalletTypes
<1>6. /\ bridge'[p] = [at |-> "settle", fill |-> chan[p][1], fromBuyer |-> FromReservation(b, BuyerDebit(x)),
                            fromSeller |-> FromReservation(s, x.qty)]
      /\ \A r \in Pairs : r # p => bridge'[r] = bridge[r]
  BY <1>2 DEF TypeInv, Shape, BridgeShape
<1>7. b \in {x.taker, x.maker} /\ s \in {x.taker, x.maker}
  BY <1>3
<1> QED  BY <1>1, <1>2, <1>3, <1>4, <1>5, <1>6, <1>7 DEF x, b, s

\* The bridge begins a deal: it takes all that the fill costs, and the orders stay covered.
LEMMA CoveredBegun ==
    ASSUME TypeInv, Fresh, TapeAdds, InOrder, [Next]_vars, NoneOf({"late", "crash"})',
           \A o \in Orders : CoveredAt(o), \A q \in Pairs : TakenInFull(q), NEW p \in Pairs, BeginSettle(p)
    PROVE  (\A o \in Orders : CoveredAt(o)') /\ \A q \in Pairs : TakenInFull(q)'
<1>1. PICK x, b, s : x = Fill(chan[p][1]) /\ b = Buyer(x) /\ s = Seller(x)
  OBVIOUS
<1>2. /\ x \in Fills /\ IsFillOf(p, x) /\ b \in Orders /\ s \in Orders /\ b # s
      /\ b \in {x.taker, x.maker} /\ s \in {x.taker, x.maker}
      /\ BuyerDebit(x) \in Nat /\ x.qty \in Nat /\ UnitOf(s) = 1
      /\ reservations'[b] = reservations[b] - FromReservation(b, BuyerDebit(x))
      /\ reservations'[s] = reservations[s] - FromReservation(s, x.qty)
      /\ \A o \in Orders : o # b /\ o # s => reservations'[o] = reservations[o]
      /\ \A r \in Pairs : r # p => bridge'[r] = bridge[r]
      /\ UNCHANGED <<tape, stage, left, lapses>>
  BY <1>1, BeginTakes
<1>3. bridge'[p] = [at |-> "settle", fill |-> chan[p][1], fromBuyer |-> FromReservation(b, BuyerDebit(x)),
                    fromSeller |-> FromReservation(s, x.qty)]
  BY <1>1, BeginTakes
<1>4. IsReserved(b)
  <2>1. Names(p, chan[p][1])
    BY ChanTaken
  <2>2. chan[p][1].n \in 1..Len(tape[p]) /\ x = tape[p][chan[p][1].n]
    BY <1>1, <2>1 DEF Names, Notifications, Fill, TypeInv, Shape, TapeShape
  <2>3. left[b] < Ticket[b].qty /\ left[b] \in Nat /\ Ticket[b].qty \in Nat
    BY <1>2, <2>2, TicketType DEF Fresh, TypeInv, PlainTypes
  <2>4. Placed(b)
    BY <2>3 DEF Placed
  <2> QED  BY <1>2, <2>4 DEF CoveredAt
<1>5. BuyerDebit(x) <= x.qty * UnitOf(b)
  BY <1>1, <1>2, <1>4, DebitWithinUnit
<1>6. x.qty <= x.qty * UnitOf(s)
  BY <1>2
<1>7. CoveredAt(b)' /\ FromReservation(b, BuyerDebit(x)) = BuyerDebit(x)
  <2>1. b \in {Fill(chan[p][1]).taker, Fill(chan[p][1]).maker} /\ CoveredAt(b)
        /\ BuyerDebit(x) <= Fill(chan[p][1]).qty * UnitOf(b)
    BY <1>1, <1>2, <1>5
  <2> QED  BY <1>2, <2>1, CoveredBegin
<1>8. CoveredAt(s)' /\ FromReservation(s, x.qty) = x.qty
  <2>1. s \in {Fill(chan[p][1]).taker, Fill(chan[p][1]).maker} /\ CoveredAt(s)
        /\ x.qty <= Fill(chan[p][1]).qty * UnitOf(s)
    BY <1>1, <1>2, <1>6
  <2> QED  BY <1>2, <2>1, CoveredBegin
<1>9. ASSUME NEW o \in Orders, o # b, o # s PROVE CoveredAt(o)'
  <2>1. reservations'[o] >= reservations[o]
    BY <1>2, <1>9 DEF TypeInv, WalletTypes
  <2>2. Placed(o)' => Placed(o)
    BY <1>2 DEF Placed
  <2> QED  BY <2>1, <2>2, CoveredStays
<1>10. TakenInFull(p)'
  <2>1. /\ bridge'[p].fill = chan[p][1] /\ bridge'[p].fromBuyer = BuyerDebit(x) /\ bridge'[p].fromSeller = x.qty
    BY <1>3, <1>7, <1>8
  <2>2. tape'[bridge'[p].fill.pair][bridge'[p].fill.n] = x
    BY <1>1, <1>2, <2>1 DEF Fill
  <2>3. (bridge[p].fromBuyer)' = BuyerDebit(Fill(bridge[p].fill))'
    BY <2>1, <2>2 DEF Fill, BuyerDebit, Notional, FeeOf, Buyer
  <2>4. (bridge[p].fromSeller)' = Fill(bridge[p].fill).qty'
    BY <2>1, <2>2 DEF Fill
  <2> QED  BY <2>3, <2>4 DEF TakenInFull
<1>11. ASSUME NEW q \in Pairs, q # p PROVE TakenInFull(q)'
  BY <1>2, <1>11, TakenInFullStays
<1> QED  BY <1>7, <1>8, <1>9, <1>10, <1>11

\* Every step keeps what may still be traded covered.
LEMMA CoveredKept ==
    ASSUME TypeInv, Fresh, TapeAdds, InOrder, Covered, [Next]_vars
    PROVE  Covered'
<1> DEFINE Goal == (\A o \in Orders : CoveredAt(o)') /\ \A p \in Pairs : TakenInFull(p)'
<1> SUFFICES ASSUME NoneOf(OrderLapses)' PROVE Goal
  BY DEF Covered
<1>0. /\ \A o \in Orders : reservations[o] \in Nat /\ reservations[o] >= reservations[o] /\ left[o] \in Nat
      /\ \A o \in Orders : reservations'[o] \in Nat
      /\ stage \in [Orders -> {"new", "reserved", "live", "over"}] /\ reservations \in [Orders -> Nat]
  BY TypeInvKept DEF TypeInv, WalletTypes, PlainTypes
<1>1. /\ \A o \in Orders : CoveredAt(o)
      /\ \A p \in Pairs : TakenInFull(p)
      /\ "unreserved" \notin lapses' /\ "commit" \notin lapses' /\ "late" \notin lapses'
         /\ "crash" \notin lapses'
      /\ NoneOf({"late", "crash"})'
  <2>1. NoneOf(OrderLapses) /\ \A l \in OrderLapses : l \notin lapses'
    BY NoneBefore
  <2> QED  BY <2>1 DEF Covered, OrderLapses, NoneOf
<1>a. ASSUME \A o \in Orders : reservations'[o] >= reservations[o] /\ (Placed(o)' => Placed(o)),
             \A p \in Pairs : TakenInFull(p)'
      PROVE  Goal
  BY <1>1, <1>a, CoveredStays
<1>b. ASSUME bridge' = bridge, reservations' = reservations, \A o \in Orders : Placed(o)' => Placed(o)
      PROVE Goal
  <2>1. \A p \in Pairs : TakenInFull(p)'
    BY <1>1, <1>b, TakenInFullStays
  <2> QED  BY <1>0, <1>a, <1>b, <2>1
<1>c. ASSUME UNCHANGED <<bridge, reservations, stage, left>> PROVE Goal
  <2>1. \A o \in Orders : Placed(o)' => Placed(o)
    BY <1>c DEF Placed
  <2> QED  BY <1>b, <1>c, <2>1
<1> HIDE DEF Goal
<1> USE DEF walletVars, orderVars, engineVars, fillVars, depVars, histVars
<1>2. ASSUME NEW o \in Orders, ReserveOrder(o) PROVE Goal
  <2>1. bridge' = bridge /\ left' = left /\ stage[o] = "new" /\ IsReserved(o) /\ left[o] = Ticket[o].qty
    BY <1>2 DEF ReserveOrder, Fresh
  <2>2. CASE stage' = [stage EXCEPT ![o] = "over"] /\ reservations' = reservations
    <3>1. \A q \in Orders : Placed(q)' => Placed(q)
      BY <1>0, <2>1, <2>2 DEF Placed
    <3> QED  BY <1>b, <2>1, <2>2, <3>1
  <2>3. CASE /\ stage' = [stage EXCEPT ![o] = "reserved"]
             /\ reservations' = [reservations EXCEPT ![o] = AmountToReserve(o)]
    <3>1. /\ reservations'[o] = AmountToReserve(o)
          /\ \A q \in Orders : q # o => reservations'[q] >= reservations[q] /\ (Placed(q)' => Placed(q))
      BY <1>0, <2>1, <2>3 DEF Placed
    <3>2. \A q \in Orders : q # o => CoveredAt(q)'
      BY <1>1, <3>1, CoveredStays
    <3>3. \A p \in Pairs : TakenInFull(p)'
      BY <1>1, <2>1, TakenInFullStays
    <3>4. PICK n : n = Gone(Ticket[o].pair)'
      OBVIOUS
    <3>5. tape' = tape /\ chan' = chan
      BY <1>2 DEF ReserveOrder
    <3>6. n \in 0..Len(tape[Ticket[o].pair])
      BY <3>4, <3>5, TicketType, GoneType DEF Gone
    <3>7. FilledBy(o, Gone(Ticket[o].pair))' = FilledBy(o, n)
      <4>1. FilledBy(o, n)' = FilledBy(o, n)
        BY <3>6, FilledKept
      <4> QED  BY <3>4, <4>1 DEF FilledBy
    <3>8. FilledBy(o, n) \in Nat /\ FilledBy(o, n) <= Ticket[o].qty /\ Ticket[o].qty \in Nat
      BY <3>6, FilledBound
    <3>9. PICK a, b, U : a = Ticket[o].qty - FilledBy(o, n) /\ b = Ticket[o].qty /\ U = UnitOf(o)
      OBVIOUS
    <3>10. a \in Nat /\ b \in Nat /\ U \in Nat /\ a <= b /\ AmountToReserve(o) = b * U
      BY <3>8, <3>9, UnitType
    <3>11. a * U <= b * U /\ a * U \in Nat /\ b * U \in Nat
      BY <3>10, ProductMonotone, ProductType
    <3>12. reservations'[o] >= (Ticket[o].qty - FilledBy(o, Gone(Ticket[o].pair))') * UnitOf(o)
      BY <3>1, <3>7, <3>9, <3>10, <3>11
    <3>13. CoveredAt(o)'
      BY <2>1, <3>12 DEF CoveredAt, IsReserved, UnitOf
    <3> QED  BY <3>2, <3>3, <3>13 DEF Goal
  <2> QED  BY <1>2, <2>2, <2>3 DEF ReserveOrder
<1>3. ASSUME NEW o \in Orders, Submit(o) PROVE Goal
  <2>1. UNCHANGED <<bridge, reservations, left>> /\ stage[o] = "reserved"
        /\ stage' = [stage EXCEPT ![o] = "live"]
    BY <1>3, <1>1 DEF Submit, Lapse
  <2>2. \A q \in Orders : Placed(q)' => Placed(q)
    BY <1>0, <2>1 DEF Placed
  <2> QED  BY <1>b, <2>1, <2>2
<1>4. ASSUME NEW o \in Orders, Cancel(o) PROVE Goal
  <2>1. UNCHANGED <<bridge, reservations, left>> /\ stage' = [stage EXCEPT ![o] = "over"]
    BY <1>4 DEF Cancel
  <2>2. \A q \in Orders : Placed(q)' => Placed(q)
    BY <1>0, <2>1 DEF Placed
  <2> QED  BY <1>b, <2>1, <2>2
<1>5. ASSUME NEW d \in Deposits, BeginDeposit(d) PROVE Goal
  BY <1>5, <1>c DEF BeginDeposit, DepositMoves
<1>6. ASSUME NEW d \in Deposits, FindWallet(d) PROVE Goal
  BY <1>6, <1>c DEF FindWallet, DepositMoves, Trouble
<1>7. ASSUME NEW d \in Deposits, CreateWallet(d) PROVE Goal
  BY <1>7, <1>c DEF CreateWallet, DepositMoves
<1>8. ASSUME NEW d \in Deposits, CreditDeposit(d) PROVE Goal
  BY <1>8, <1>c DEF CreditDeposit, DepositMoves, Trouble, Lapse
<1>9. ASSUME NEW d \in Deposits, CreditGhost(d) PROVE Goal
  BY <1>9, <1>c DEF CreditGhost, DepositMoves
<1>10. ASSUME NEW d \in Deposits, RecordDeposit(d) PROVE Goal
  BY <1>10, <1>c DEF RecordDeposit, DepositMoves, Trouble, Lapse
<1>11. ASSUME NEW t \in Orders, NEW m \in Orders, Execute(t, m) PROVE Goal
  <2>1. UNCHANGED <<bridge, reservations, stage>> /\ stage[t] = "live" /\ stage[m] = "live"
        /\ \A q \in Orders : q # t /\ q # m => left'[q] = left[q]
    BY <1>11 DEF Execute, TypeInv, PlainTypes
  <2>2. \A q \in Orders : Placed(q)' => Placed(q)
    BY <1>0, <2>1 DEF Placed
  <2> QED  BY <1>b, <2>1, <2>2
<1>12. ASSUME NEW p \in Pairs, Snapshot(p) PROVE Goal
  BY <1>12, <1>c DEF Snapshot
<1>13. ASSUME NEW s \in spilled, SpillSends(s) PROVE Goal
  BY <1>13, <1>c DEF SpillSends, Lapse
<1>14. ASSUME NEW s \in spilled, SpillWaits(s) PROVE Goal
  BY <1>14, <1>c DEF SpillWaits
<1>15. ASSUME NEW p \in Pairs, BeginSettle(p) PROVE Goal
  BY <1>15, <1>1, CoveredBegun DEF Goal
<1>16. ASSUME NEW p \in Pairs, Settle(p) PROVE Goal
  <2>1. UNCHANGED <<stage, left>> /\ (reservations' = reservations \/ reservations' = Restored(bridge[p]))
        /\ bridge[p].at = "settle" /\ bridge' = [bridge EXCEPT ![p] = [at |-> "taker", fill |-> bridge[p].fill]]
    BY <1>16 DEF Settle
  <2>2. bridge'[p].at # "settle" /\ \A r \in Pairs : r # p => bridge'[r] = bridge[r]
    BY <2>1 DEF TypeInv, Shape, BridgeShape
  <2>3. \A q \in Pairs : TakenInFull(q)'
    BY <1>1, <2>2, TakenInFullStays DEF Settling
  <2>4. \A q \in Orders : Placed(q)' => Placed(q)
    BY <2>1 DEF Placed
  <2>5. \A q \in Orders : Restored(bridge[p])[q] >= reservations[q]
    <3>1. PICK b, s, i, j : /\ b = Buyer(Fill(bridge[p].fill)) /\ s = Seller(Fill(bridge[p].fill))
                            /\ i = bridge[p].fromBuyer /\ j = bridge[p].fromSeller
      OBVIOUS
    <3>2. i \in Nat /\ j \in Nat /\ b # s
      BY <2>1, <3>1, SettlingFill
    <3>3. Restored(bridge[p]) = [reservations EXCEPT ![b] = @ + i, ![s] = @ + j]
      BY <3>1 DEF Restored
    <3> QED  BY <1>0, <3>2, <3>3
  <2>6. \A q \in Orders : reservations'[q] >= reservations[q]
    BY <1>0, <2>1, <2>5
  <2> QED  BY <1>a, <2>3, <2>4, <2>6
<1>17. ASSUME NEW p \in Pairs, ReleaseTaker(p) PROVE Goal
  <2>0. PICK o : o = Fill(bridge[p].fill).taker
    OBVIOUS
  <2>1. bridge[p].at = "taker" /\ bridge' = [bridge EXCEPT ![p] = [at |-> "maker", fill |-> bridge[p].fill]]
    BY <1>17, BridgeMoves DEF ReleaseTaker
  <2>2. bridge'[p].at # "settle" /\ \A r \in Pairs : r # p => bridge'[r] = bridge[r]
    BY <2>1 DEF TypeInv, Shape, BridgeShape, Idle
  <2>3. \A q \in Pairs : TakenInFull(q)'
    BY <1>1, <2>2, TakenInFullStays DEF Settling
  <2>4. o \in Orders
    BY <2>0, <2>1, BridgeFill DEF TypeInv, Fills
  <2>5. UNCHANGED <<stage, left>>
    BY <1>17 DEF ReleaseTaker
  <2>6. \A q \in Orders : Placed(q)' => Placed(q)
    BY <2>5 DEF Placed
  <2>7. \/ Fill(bridge[p].fill).takerFilled /\ reservations' = [reservations EXCEPT ![o] = 0]
        \/ reservations' = reservations
    BY <1>17, <2>0 DEF ReleaseTaker, ReleaseOrder
  <2>8. CASE Fill(bridge[p].fill).takerFilled /\ reservations' = [reservations EXCEPT ![o] = 0]
    <3>1. reservations'[o] = 0 /\ \A q \in Orders : q # o => reservations'[q] = reservations[q]
      BY <1>0, <2>4, <2>8
    <3>2. Uses(o, Fill(bridge[p].fill)) /\ o \in {Fill(bridge[p].fill).taker, Fill(bridge[p].fill).maker}
      BY <2>0, <2>8 DEF Uses
    <3>3. bridge[p].at \in {"taker", "maker"} /\ CoveredAt(o) /\ reservations'[o] \in Nat
          /\ (Placed(o)' => Placed(o))
      BY <1>1, <2>1, <2>4, <2>6, <3>1
    <3>5. CoveredAt(o)'
      BY <1>1, <2>1, <3>2, <3>3, CoveredUsedUp
    <3>6. \A q \in Orders : q # o => reservations'[q] >= reservations[q]
      BY <1>0, <3>1
    <3>7. \A q \in Orders : q # o => CoveredAt(q)'
      BY <1>1, <2>6, <3>6, CoveredStays
    <3> QED  BY <2>3, <3>5, <3>7 DEF Goal
  <2>9. CASE reservations' = reservations
    BY <1>0, <1>a, <2>3, <2>6, <2>9
  <2> QED  BY <2>7, <2>8, <2>9
<1>18. ASSUME NEW p \in Pairs, ReleaseMaker(p) PROVE Goal
  <2>0. PICK o : o = Fill(bridge[p].fill).maker
    OBVIOUS
  <2>1. bridge[p].at = "maker" /\ bridge' = [bridge EXCEPT ![p] = Idle]
    BY <1>18, BridgeMoves DEF ReleaseMaker
  <2>2. bridge'[p].at # "settle" /\ \A r \in Pairs : r # p => bridge'[r] = bridge[r]
    BY <2>1 DEF TypeInv, Shape, BridgeShape, Idle
  <2>3. \A q \in Pairs : TakenInFull(q)'
    BY <1>1, <2>2, TakenInFullStays DEF Settling
  <2>4. o \in Orders
    BY <2>0, <2>1, BridgeFill DEF TypeInv, Fills
  <2>5. UNCHANGED <<stage, left>>
    BY <1>18 DEF ReleaseMaker
  <2>6. \A q \in Orders : Placed(q)' => Placed(q)
    BY <2>5 DEF Placed
  <2>7. \/ Fill(bridge[p].fill).makerFilled /\ reservations' = [reservations EXCEPT ![o] = 0]
        \/ reservations' = reservations
    BY <1>18, <2>0 DEF ReleaseMaker, ReleaseOrder
  <2>8. CASE Fill(bridge[p].fill).makerFilled /\ reservations' = [reservations EXCEPT ![o] = 0]
    <3>1. reservations'[o] = 0 /\ \A q \in Orders : q # o => reservations'[q] = reservations[q]
      BY <1>0, <2>4, <2>8
    <3>2. Uses(o, Fill(bridge[p].fill)) /\ o \in {Fill(bridge[p].fill).taker, Fill(bridge[p].fill).maker}
      BY <2>0, <2>8 DEF Uses
    <3>3. bridge[p].at \in {"taker", "maker"} /\ CoveredAt(o) /\ reservations'[o] \in Nat
          /\ (Placed(o)' => Placed(o))
      BY <1>1, <2>1, <2>4, <2>6, <3>1
    <3>5. CoveredAt(o)'
      BY <1>1, <2>1, <3>2, <3>3, CoveredUsedUp
    <3>6. \A q \in Orders : q # o => reservations'[q] >= reservations[q]
      BY <1>0, <3>1
    <3>7. \A q \in Orders : q # o => CoveredAt(q)'
      BY <1>1, <2>6, <3>6, CoveredStays
    <3> QED  BY <2>3, <3>5, <3>7 DEF Goal
  <2>9. CASE reservations' = reservations
    BY <1>0, <1>a, <2>3, <2>6, <2>9
  <2> QED  BY <2>7, <2>8, <2>9
<1>19. ASSUME Crash PROVE Goal
  BY <1>19, <1>1 DEF Crash, Lapse
<1>20. CASE UNCHANGED vars
  BY <1>20, <1>c DEF vars
<1> QED
  BY <1>2, <1>3, <1>4, <1>5, <1>6, <1>7, <1>8, <1>9, <1>10, <1>11, <1>12, <1>13,
<1>14, <1>15, <1>16, <1>17, <1>18, <1>19, <1>20 DEF Next, ClientStep,
DepositStep, EngineStep, SpillStep, BridgeStep

-------------------------------------------------------------------------------
(* Nobody spends what he does not have.                                      *)

\* What a settled fill moves on each account.
LEMMA ChangesOf ==
    ASSUME NEW p \in Pairs, NEW x \in Fills, IsFillOf(p, x), NEW a
    PROVE  /\ a = ReservedAccount(Buyer(x)) => Changes(x, a) = -BuyerDebit(x)
           /\ a = ReservedAccount(Seller(x)) => Changes(x, a) = -x.qty
           /\ a # ReservedAccount(Buyer(x)) /\ a # ReservedAccount(Seller(x)) => Changes(x, a) \in Nat
<1>1. /\ Ticket[x.taker].pair = p /\ User(Buyer(x)) # User(Seller(x)) /\ Base[p] # Quote[p]
      /\ ReservedAccount(Buyer(x)) = <<User(Buyer(x)), Quote[p]>>
      /\ ReservedAccount(Seller(x)) = <<User(Seller(x)), Base[p]>>
      /\ x.qty \in Nat /\ BuyerDebit(x) \in Nat /\ SellerCredit(x) \in Nat
  BY FillParts, SettlementAssumption
<1> QED  BY <1>1 DEF Changes

\* What is locked stays on a wallet row.
LEMMA LockedRowsKept ==
    ASSUME TypeInv, LockedRows, [Next]_vars
    PROVE  LockedRows'
<1> DEFINE Less == rows \subseteq rows' /\ \A x \in Accounts : locked'[x] <= locked[x]
<1>0. locked \in [Accounts -> Nat] /\ locked' \in [Accounts -> Nat]
  BY TypeInvKept DEF TypeInv, WalletTypes
<1>1. ASSUME Less PROVE LockedRows'
  <2>1. \A x \in Accounts : locked'[x] > 0 => locked[x] > 0
    BY <1>0, <1>1
  <2> QED  BY <1>1, <2>1 DEF LockedRows
<1>a. ASSUME locked' = locked, rows \subseteq rows' PROVE LockedRows'
  BY <1>a DEF LockedRows
<1>r. ASSUME NEW o \in Orders, ReleaseOrder(o), rows' = rows PROVE LockedRows'
  <2>1. ReservedAccount(o) \in Accounts /\ reservations[o] \in Nat
    BY TicketType DEF TypeInv, WalletTypes
  <2>2. Unlocked(ReservedAccount(o), reservations[o]) <= locked[ReservedAccount(o)]
    BY <1>0, <2>1, UnlockedType
  <2>3. Less
    BY <1>0, <1>r, <2>1, <2>2 DEF ReleaseOrder
  <2> QED  BY <1>1, <2>3
<1> USE DEF walletVars, orderVars, engineVars, fillVars, depVars, histVars
<1>2. ASSUME NEW o \in Orders, ReserveOrder(o) PROVE LockedRows'
  <2>1. \/ locked' = locked /\ rows' = rows
        \/ /\ locked' = [locked EXCEPT ![ReservedAccount(o)] = @ + AmountToReserve(o)]
           /\ rows' = rows \cup {ReservedAccount(o)}
    BY <1>2 DEF ReserveOrder
  <2> QED  BY <1>0, <1>a, <2>1 DEF LockedRows
<1>3. ASSUME NEW o \in Orders, Submit(o) PROVE LockedRows'
  BY <1>3, <1>a DEF Submit, Lapse
<1>4. ASSUME NEW o \in Orders, Cancel(o) PROVE LockedRows'
  BY <1>4, <1>a DEF Cancel
<1>5. ASSUME NEW d \in Deposits, BeginDeposit(d) PROVE LockedRows'
  BY <1>5, <1>a DEF BeginDeposit, DepositMoves
<1>6. ASSUME NEW d \in Deposits, FindWallet(d) PROVE LockedRows'
  BY <1>6, <1>a DEF FindWallet, DepositMoves, Trouble
<1>7. ASSUME NEW d \in Deposits, CreateWallet(d) PROVE LockedRows'
  BY <1>7, <1>a DEF CreateWallet, DepositMoves
<1>8. ASSUME NEW d \in Deposits, CreditDeposit(d) PROVE LockedRows'
  BY <1>8, <1>a DEF CreditDeposit, DepositMoves, Trouble, Lapse
<1>9. ASSUME NEW d \in Deposits, CreditGhost(d) PROVE LockedRows'
  BY <1>9, <1>a DEF CreditGhost, DepositMoves
<1>10. ASSUME NEW d \in Deposits, RecordDeposit(d) PROVE LockedRows'
  BY <1>10, <1>a DEF RecordDeposit, DepositMoves, Trouble, Lapse
<1>11. ASSUME NEW t \in Orders, NEW m \in Orders, Execute(t, m) PROVE LockedRows'
  BY <1>11, <1>a DEF Execute, EmitFill
<1>12. ASSUME NEW p \in Pairs, Snapshot(p) PROVE LockedRows'
  BY <1>12, <1>a DEF Snapshot
<1>13. ASSUME NEW s \in spilled, SpillSends(s) PROVE LockedRows'
  BY <1>13, <1>a DEF SpillSends, Lapse
<1>14. ASSUME NEW s \in spilled, SpillWaits(s) PROVE LockedRows'
  BY <1>14, <1>a DEF SpillWaits
<1>15. ASSUME NEW p \in Pairs, BeginSettle(p) PROVE LockedRows'
  BY <1>15, <1>a DEF BeginSettle
<1>16. ASSUME NEW p \in Pairs, Settle(p) PROVE LockedRows'
  <2>1. rows' = rows /\ bridge[p].at = "settle" /\ (locked' = locked \/ locked' = UnlockedFor(bridge[p]))
    BY <1>16 DEF Settle
  <2>2. PICK X, Y, i, j : /\ X = ReservedAccount(Buyer(Fill(bridge[p].fill)))
        /\ Y = ReservedAccount(Seller(Fill(bridge[p].fill)))
                          /\ i = bridge[p].fromBuyer /\ j = bridge[p].fromSeller
    OBVIOUS
  <2>3. /\ X \in Accounts /\ Y \in Accounts /\ i \in Nat /\ j \in Nat
        /\ UnlockedFor(bridge[p]) = [locked EXCEPT ![X] = Unlocked(X, i), ![Y] = Unlocked(Y, j)]
    BY <2>1, <2>2, SettlingFill
  <2>4. Unlocked(X, i) <= locked[X] /\ Unlocked(Y, j) <= locked[Y]
    BY <1>0, <2>3, UnlockedType
  <2>5. locked' = UnlockedFor(bridge[p]) => Less
    BY <1>0, <2>1, <2>3, <2>4
  <2> QED  BY <1>1, <1>a, <2>1, <2>5
<1>17. ASSUME NEW p \in Pairs, ReleaseTaker(p) PROVE LockedRows'
  <2>1. bridge[p].at = "taker" /\ rows' = rows /\ (locked' = locked \/ ReleaseOrder(Fill(bridge[p].fill).taker))
    BY <1>17 DEF ReleaseTaker
  <2>2. Fill(bridge[p].fill).taker \in Orders
    BY <2>1, BridgeFill DEF TypeInv, Fills
  <2> QED  BY <1>a, <1>r, <2>1, <2>2
<1>18. ASSUME NEW p \in Pairs, ReleaseMaker(p) PROVE LockedRows'
  <2>1. bridge[p].at = "maker" /\ rows' = rows /\ (locked' = locked \/ ReleaseOrder(Fill(bridge[p].fill).maker))
    BY <1>18 DEF ReleaseMaker
  <2>2. Fill(bridge[p].fill).maker \in Orders
    BY <2>1, BridgeFill DEF TypeInv, Fills
  <2> QED  BY <1>a, <1>r, <2>1, <2>2
<1>19. ASSUME Crash PROVE LockedRows'
  BY <1>19, <1>a DEF Crash, Trouble, Lapse
<1>20. CASE UNCHANGED vars
  BY <1>20, <1>a DEF vars
<1> QED
  BY <1>2, <1>3, <1>4, <1>5, <1>6, <1>7, <1>8, <1>9, <1>10, <1>11, <1>12, <1>13,
<1>14, <1>15, <1>16, <1>17, <1>18, <1>19, <1>20 DEF Next, ClientStep,
DepositStep, EngineStep, SpillStep, BridgeStep

\* A settled fill takes from an account no more than it unlocks there.
LEMMA SettleSolvent ==
    ASSUME TypeInv, Backed, LockedRows, NEW p \in Pairs, bridge[p].at = "settle", TakenInFull(p),
           "commit" \notin lapses, \A y \in Accounts : locked[y] <= balance[y],
           locked' = UnlockedFor(bridge[p]), balance' = Applied(Fill(bridge[p].fill))
    PROVE  \A y \in Accounts : locked'[y] <= balance'[y]
<1>1. PICK x, b, s, X, Y, i, j :
          /\ x = Fill(bridge[p].fill) /\ b = Buyer(x) /\ s = Seller(x)
          /\ X = ReservedAccount(b) /\ Y = ReservedAccount(s)
          /\ i = bridge[p].fromBuyer /\ j = bridge[p].fromSeller
  OBVIOUS
<1>2. /\ b \in Orders /\ s \in Orders /\ b # s /\ X \in Accounts /\ Y \in Accounts /\ X # Y
      /\ i \in Nat /\ j \in Nat /\ Taken(b) = i /\ Taken(s) = j
      /\ locked' = [locked EXCEPT ![X] = Unlocked(X, i), ![Y] = Unlocked(Y, j)]
  BY <1>1, SettlingFill
<1>3. i = BuyerDebit(x) /\ j = x.qty
  BY <1>1 DEF TakenInFull, Settling
<1>4. x \in Fills /\ IsFillOf(p, x)
  BY <1>1, BridgeFill DEF TypeInv
<1>5. locked \in [Accounts -> Nat] /\ balance \in [Accounts -> Int]
  BY DEF TypeInv, WalletTypes
<1>6. locked[X] >= i /\ locked[Y] >= j
  <2>1. locked[X] >= Claims[b] /\ locked[Y] >= Claims[s]
    BY <1>1, <1>2, ClaimIsLocked
  <2>2. Claims[b] = reservations[b] + i /\ Claims[s] = reservations[s] + j /\ reservations[b] \in Nat
        /\ reservations[s] \in Nat
    BY <1>2, ClaimsType
  <2> QED  BY <1>2, <1>5, <2>1, <2>2
<1>7. locked'[X] = locked[X] - i /\ locked'[Y] = locked[Y] - j
  BY <1>2, <1>5, <1>6 DEF Unlocked
<1>8. ASSUME NEW y \in Accounts
      PROVE balance'[y] = IF y \in rows THEN balance[y] + Changes(x, y) ELSE balance[y]
  BY <1>1 DEF Applied
<1>9. locked'[X] <= balance'[X]
  <2>1. Changes(x, X) = -i /\ locked[X] <= balance[X]
    BY <1>1, <1>2, <1>3, <1>4, ChangesOf
  <2>2. CASE X \in rows
    BY <1>2, <1>5, <1>7, <1>8, <2>1, <2>2
  <2>3. CASE X \notin rows
    BY <1>2, <1>5, <1>7, <1>8, <2>1, <2>3
  <2> QED  BY <2>2, <2>3
<1>10. locked'[Y] <= balance'[Y]
  <2>1. Changes(x, Y) = -j /\ locked[Y] <= balance[Y]
    BY <1>1, <1>2, <1>3, <1>4, ChangesOf
  <2>2. CASE Y \in rows
    BY <1>2, <1>5, <1>7, <1>8, <2>1, <2>2
  <2>3. CASE Y \notin rows
    BY <1>2, <1>5, <1>7, <1>8, <2>1, <2>3
  <2> QED  BY <2>2, <2>3
<1>11. ASSUME NEW y \in Accounts, y # X, y # Y PROVE locked'[y] <= balance'[y]
  <2>1. Changes(x, y) \in Nat /\ locked[y] <= balance[y]
    BY <1>1, <1>4, <1>11, ChangesOf
  <2>2. locked'[y] = locked[y] /\ locked[y] \in Nat /\ balance[y] \in Int
    BY <1>2, <1>5, <1>11
  <2> QED  BY <1>8, <2>1, <2>2
<1> QED  BY <1>9, <1>10, <1>11

\* Every step keeps what is locked within the balance.
LEMMA SolventKept ==
    ASSUME TypeInv, Backed, Covered, LockedRows, Solvent, [Next]_vars
    PROVE  Solvent'
<1> DEFINE Goal == \A x \in Accounts : locked'[x] <= balance'[x]
<1> SUFFICES ASSUME NoneOf(OrderLapses)' PROVE Goal
  BY DEF Solvent
<1>0. locked \in [Accounts -> Nat] /\ locked' \in [Accounts -> Nat] /\ balance \in [Accounts -> Int]
  BY TypeInvKept DEF TypeInv, WalletTypes
<1>1. /\ \A x \in Accounts : locked[x] <= balance[x]
      /\ \A p \in Pairs : TakenInFull(p)
      /\ "commit" \notin lapses' /\ "commit" \notin lapses /\ "crash" \notin lapses'
  <2>1. NoneOf(OrderLapses) /\ \A l \in OrderLapses : l \notin lapses' /\ l \notin lapses
    BY NoneBefore
  <2> QED  BY <2>1 DEF Covered, Solvent, OrderLapses
<1>a. ASSUME UNCHANGED <<locked, balance>> PROVE Goal
  BY <1>1, <1>a
<1>b. ASSUME balance' = balance, \A x \in Accounts : locked'[x] <= locked[x] PROVE Goal
  BY <1>0, <1>1, <1>b
<1>r. ASSUME NEW o \in Orders, ReleaseOrder(o), balance' = balance PROVE Goal
  <2>1. ReservedAccount(o) \in Accounts /\ reservations[o] \in Nat
    BY TicketType DEF TypeInv, WalletTypes
  <2>2. Unlocked(ReservedAccount(o), reservations[o]) <= locked[ReservedAccount(o)]
    BY <1>0, <2>1, UnlockedType
  <2>3. \A x \in Accounts : locked'[x] <= locked[x]
    BY <1>0, <1>r, <2>1, <2>2 DEF ReleaseOrder
  <2> QED  BY <1>b, <1>r, <2>3
<1> HIDE DEF Goal
<1> USE DEF walletVars, orderVars, engineVars, fillVars, depVars, histVars
<1>2. ASSUME NEW o \in Orders, ReserveOrder(o) PROVE Goal
  <2> DEFINE x == ReservedAccount(o)
  <2> DEFINE amt == AmountToReserve(o)
  <2>1. /\ balance' = balance /\ x \in Accounts /\ amt \in Nat
        /\ \/ locked' = locked
           \/ Available(x) >= amt /\ locked' = [locked EXCEPT ![x] = @ + amt]
    BY <1>2, TicketType DEF ReserveOrder
  <2> HIDE DEF x, amt
  <2>2. CASE locked' = locked
    BY <1>a, <2>1, <2>2
  <2>3. CASE Available(x) >= amt /\ locked' = [locked EXCEPT ![x] = @ + amt]
    <3>1. locked'[x] <= balance'[x]
      BY <1>0, <2>1, <2>3 DEF Available
    <3>2. \A y \in Accounts : y # x => locked'[y] <= balance'[y]
      BY <1>0, <1>1, <2>1, <2>3
    <3> QED  BY <3>1, <3>2 DEF Goal
  <2> QED  BY <2>1, <2>2, <2>3
<1>3. ASSUME NEW o \in Orders, Submit(o) PROVE Goal
  BY <1>3, <1>a DEF Submit, Lapse
<1>4. ASSUME NEW o \in Orders, Cancel(o) PROVE Goal
  BY <1>4, <1>a DEF Cancel
<1>5. ASSUME NEW d \in Deposits, BeginDeposit(d) PROVE Goal
  BY <1>5, <1>a DEF BeginDeposit, DepositMoves
<1>6. ASSUME NEW d \in Deposits, FindWallet(d) PROVE Goal
  BY <1>6, <1>a DEF FindWallet, DepositMoves, Trouble
<1>7. ASSUME NEW d \in Deposits, CreateWallet(d) PROVE Goal
  BY <1>7, <1>a DEF CreateWallet, DepositMoves
<1>8. ASSUME NEW d \in Deposits, CreditDeposit(d) PROVE Goal
  <2>1. /\ locked' = locked /\ AccountOf(d) \in Accounts /\ Deposit[d].amount \in Nat
        /\ \/ balance' = balance
           \/ balance' = [balance EXCEPT ![AccountOf(d)] = @ + Deposit[d].amount]
    BY <1>8, AccountOfType DEF CreditDeposit
  <2> QED  BY <1>0, <1>1, <1>a, <2>1 DEF Goal
<1>9. ASSUME NEW d \in Deposits, CreditGhost(d) PROVE Goal
  BY <1>9, <1>a DEF CreditGhost, DepositMoves
<1>10. ASSUME NEW d \in Deposits, RecordDeposit(d) PROVE Goal
  BY <1>10, <1>a DEF RecordDeposit, DepositMoves, Trouble, Lapse
<1>11. ASSUME NEW t \in Orders, NEW m \in Orders, Execute(t, m) PROVE Goal
  BY <1>11, <1>a DEF Execute, EmitFill
<1>12. ASSUME NEW p \in Pairs, Snapshot(p) PROVE Goal
  BY <1>12, <1>a DEF Snapshot
<1>13. ASSUME NEW s \in spilled, SpillSends(s) PROVE Goal
  BY <1>13, <1>a DEF SpillSends, Lapse
<1>14. ASSUME NEW s \in spilled, SpillWaits(s) PROVE Goal
  BY <1>14, <1>a DEF SpillWaits
<1>15. ASSUME NEW p \in Pairs, BeginSettle(p) PROVE Goal
  BY <1>15, <1>a DEF BeginSettle
<1>16. ASSUME NEW p \in Pairs, Settle(p) PROVE Goal
  <2>1. bridge[p].at = "settle" /\ TakenInFull(p)
    BY <1>16, <1>1 DEF Settle
  <2>2. \/ locked' = locked /\ balance' = balance
        \/ locked' = UnlockedFor(bridge[p]) /\ balance' = Applied(Fill(bridge[p].fill))
    BY <1>16 DEF Settle
  <2> QED  BY <1>1, <1>a, <2>1, <2>2, SettleSolvent DEF Goal
<1>17. ASSUME NEW p \in Pairs, ReleaseTaker(p) PROVE Goal
  <2>1. bridge[p].at = "taker" /\ balance' = balance
        /\ (locked' = locked \/ ReleaseOrder(Fill(bridge[p].fill).taker))
    BY <1>17 DEF ReleaseTaker
  <2>2. Fill(bridge[p].fill).taker \in Orders
    BY <2>1, BridgeFill DEF TypeInv, Fills
  <2> QED  BY <1>a, <1>r, <2>1, <2>2
<1>18. ASSUME NEW p \in Pairs, ReleaseMaker(p) PROVE Goal
  <2>1. bridge[p].at = "maker" /\ balance' = balance
        /\ (locked' = locked \/ ReleaseOrder(Fill(bridge[p].fill).maker))
    BY <1>18 DEF ReleaseMaker
  <2>2. Fill(bridge[p].fill).maker \in Orders
    BY <2>1, BridgeFill DEF TypeInv, Fills
  <2> QED  BY <1>a, <1>r, <2>1, <2>2
<1>19. ASSUME Crash PROVE Goal
  BY <1>19, <1>a DEF Crash, Trouble, Lapse
<1>20. CASE UNCHANGED vars
  BY <1>20, <1>a DEF vars
<1> QED
  BY <1>2, <1>3, <1>4, <1>5, <1>6, <1>7, <1>8, <1>9, <1>10, <1>11, <1>12, <1>13,
<1>14, <1>15, <1>16, <1>17, <1>18, <1>19, <1>20 DEF Next, ClientStep,
DepositStep, EngineStep, SpillStep, BridgeStep

-------------------------------------------------------------------------------
(* The theorem.                                                              *)

\* The inductive invariant of the reservations.
ReservationInv ==
    TypeInv /\ Fresh /\ TapeAdds /\ InOrder /\ Backed /\ Covered /\ LockedRows /\ Solvent

\* Nothing is reserved or locked at the start.
LEMMA ReservationInvInit == Init => ReservationInv
<1> SUFFICES ASSUME Init PROVE ReservationInv
  OBVIOUS
<1>1. TypeInv
  BY TypeInvInit
<1>2. /\ locked = [x \in Accounts |-> 0] /\ reservations = [o \in Orders |-> 0] /\ balance = Opening
      /\ left = [o \in Orders |-> Ticket[o].qty] /\ tape = [p \in Pairs |-> <<>>]
         /\ chan = [p \in Pairs |-> <<>>]
      /\ bridge = [p \in Pairs |-> Idle] /\ lapses = {}
      /\ \A o \in Orders : stage[o] \in {"new", "over"}
  BY DEF Init
<1>3. \A o \in Orders : Ticket[o].qty \in Nat /\ Ticket[o].pair \in Pairs
  BY TicketType
<1>4. Fresh
  BY <1>2, <1>3 DEF Fresh
<1>5. ASSUME NEW o \in Orders PROVE FilledBy(o, Len(tape[Ticket[o].pair])) = Ticket[o].qty - left[o]
             /\ Len(tape[Ticket[o].pair]) = 0
  <2>1. Len(tape[Ticket[o].pair]) = 0 /\ 1..0 = {}
    BY <1>2, <1>3
  <2>2. FilledBy(o, 0) = 0
    BY <2>1, SumEmpty DEF FilledBy
  <2> QED  BY <1>2, <1>3, <2>1, <2>2
<1>6. TapeAdds
  BY <1>5 DEF TapeAdds
<1>7. InOrder
  BY <1>2 DEF InOrder, InOrderAt, Idle
<1>8. Backed
  <2>1. ASSUME NEW x \in Accounts PROVE ClaimedOn(x) = 0
    <3>1. \A o \in Orders : Claims[o] = 0
      BY <1>2, <1>3 DEF Claims, Taken, Idle
    <3>2. IsFiniteSet(OrdersOn(x)) /\ \A o \in OrdersOn(x) : Claims[o] = 0
      BY <3>1, SettlementAssumption, FS_Subset DEF OrdersOn
    <3> QED  BY <3>2, SumZero DEF ClaimedOn
  <2> QED  BY <1>2, <2>1 DEF Backed, BackedAt
<1>9. Covered
  <2>1. \A o \in Orders : ~Placed(o)
    BY <1>2 DEF Placed
  <2>2. \A p \in Pairs : ~Settling(p)
    BY <1>2 DEF Settling, Idle
  <2> QED  BY <2>1, <2>2 DEF Covered, CoveredAt, TakenInFull
<1>10. LockedRows
  BY <1>2 DEF LockedRows
<1>11. Solvent
  BY <1>2, SettlementAssumption DEF Solvent
<1> QED  BY <1>1, <1>4, <1>6, <1>7, <1>8, <1>9, <1>10, <1>11 DEF ReservationInv

\* Every step keeps the invariant of the reservations.
LEMMA ReservationInvKept == ReservationInv /\ [Next]_vars => ReservationInv'
BY TypeInvKept, FreshKept, TapeAddsKept, InOrderKept, BackedKept, CoveredKept, LockedRowsKept, SolventKept
   DEF ReservationInv

\* It gives what the runs check.
LEMMA ReservationInvBacks == ReservationInv => ReservationsBacked
<1> SUFFICES ASSUME ReservationInv, NEW x \in Accounts
             PROVE  /\ "commit" \notin lapses => locked[x] >= ReservedOn(x)
                    /\ lapses = {} /\ (\A p \in Pairs : bridge[p].at # "settle") => locked[x] = ReservedOn(x)
                    /\ lapses \cap {"unreserved", "commit", "late", "crash"} = {} => locked[x] <= balance[x]
  BY DEF ReservationsBacked
<1>1. TypeInv /\ BackedAt(x) /\ Solvent
  BY DEF ReservationInv, Backed
<1>2. /\ Claims \in [Orders -> Nat] /\ reservations \in [Orders -> Nat]
      /\ \A o \in Orders : Claims[o] = reservations[o] + Taken(o) /\ Taken(o) \in Nat
  BY <1>1, ClaimsType, TakenType DEF TypeInv, WalletTypes
<1>3. ReservedOn(x) = SumFunctionOnSet(reservations, OrdersOn(x))
  BY DEF ReservedOn, OrdersOn
<1>4. IsFiniteSet(OrdersOn(x)) /\ OrdersOn(x) \subseteq Orders
  BY SettlementAssumption, FS_Subset DEF OrdersOn
<1>5. ReservedOn(x) <= ClaimedOn(x) /\ ReservedOn(x) \in Nat /\ ClaimedOn(x) \in Nat
  <2>1. \A o \in OrdersOn(x) : reservations[o] \in Int /\ Claims[o] \in Int /\ reservations[o] <= Claims[o]
    BY <1>2, <1>4
  <2>2. SumFunctionOnSet(reservations, OrdersOn(x)) <= SumFunctionOnSet(Claims, OrdersOn(x))
    BY <1>4, <2>1, SumMonotone
  <2>3. SumFunctionOnSet(reservations, OrdersOn(x)) \in Nat /\ SumFunctionOnSet(Claims, OrdersOn(x)) \in Nat
    BY <1>2, AccountSame
  <2> QED  BY <1>3, <2>2, <2>3 DEF ClaimedOn
<1>6. locked[x] \in Nat
  BY <1>1 DEF TypeInv, WalletTypes
<1>7. "commit" \notin lapses => locked[x] >= ReservedOn(x)
  BY <1>1, <1>5, <1>6 DEF BackedAt
<1>8. ASSUME lapses = {}, \A p \in Pairs : bridge[p].at # "settle" PROVE locked[x] = ReservedOn(x)
  <2>1. \A o \in Orders : Taken(o) = 0
    BY <1>8, TicketType DEF Taken
  <2>2. \A o \in Orders : Claims[o] = reservations[o]
    BY <1>2, <2>1
  <2>3. SumFunctionOnSet(Claims, OrdersOn(x)) = SumFunctionOnSet(reservations, OrdersOn(x))
    BY <1>2, <2>2, AccountSame
  <2> QED  BY <1>1, <1>3, <1>8, <2>3 DEF BackedAt, ClaimedOn
<1>9. lapses \cap {"unreserved", "commit", "late", "crash"} = {} => locked[x] <= balance[x]
  BY <1>1 DEF Solvent, NoneOf, OrderLapses
<1> QED  BY <1>7, <1>8, <1>9

\* What the wallet service believes to be reserved is locked in the rows, for all
\* orders of an account together; nothing else is locked while nothing has gone
\* wrong; and nobody spends what he does not have, unless an order traded without a
\* reservation, fills overtook each other, a commit was reported as failed or a crash
\* lost the reservations (SettleFill, ReleaseOrder, ReserveOrder).
THEOREM ReservationsAlwaysBacked == Spec => []ReservationsBacked
<1>1. Init => ReservationInv
  BY ReservationInvInit
<1>2. ReservationInv /\ [Next]_vars => ReservationInv'
  BY ReservationInvKept
<1>3. ReservationInv => ReservationsBacked
  BY ReservationInvBacks
<1> QED  BY <1>1, <1>2, <1>3, PTL DEF Spec

-------------------------------------------------------------------------------
(* Positions.                                                                *)

\* After which the tracker has not recorded what the ledger has moved.
TrackerLapses == {"unsettled", "crash"}

\* After which it has not recorded it in the order of the trades.
OrderedLapses == {"unsettled", "crash", "late"}

\* What has moved was executed before whatever still waits in the channel.
MovedInOrderAt(p) ==
    \A m \in moved : m.kind = "fill" /\ m.of.pair = p =>
        /\ \A i \in 1..Len(chan[p]) : m.of.n < chan[p][i].n
        /\ Settling(p) => m.of.n < bridge[p].fill.n

MovedInOrder == NoneOf({"late", "crash"}) => \A p \in Pairs : MovedInOrderAt(p)

\* Who holds nothing has paid for nothing.
FlatIsFree == \A x \in Accounts : position[x].qty = 0 => position[x].cost = 0

\* The position in an asset is what trades have added to its wallet.
WalletPositions ==
    NoneOf(TrackerLapses) =>
        \A x \in Funded : x[2] \in Range(Base) =>
            position[x].qty = balance[x] - Opening[x] - Deposited(x)

\* The position of a user on a pair is what his trades have come to.
TradePositions ==
    NoneOf(OrderedLapses) =>
        \A u \in Users, p \in Pairs :
            /\ position[<<u, Base[p]>>].qty = Held(u, p, Len(tape[p]))
            /\ position[<<u, Base[p]>>].cost = Paid(u, p)

-------------------------------------------------------------------------------
\* What a user has of the fills R of a tape T, to number n.
Signed(T, u) == [i \in DOMAIN T |-> SignedQty(T[i], u)]

HeldIn(T, R, u, n) == SumFunctionOnSet(Signed(T, u), {i \in R : i <= n})

\* Those since he last held nothing, and what he has paid for them.
SinceIn(T, R, u) == {i \in R : \A k \in R : i <= k => HeldIn(T, R, u, k) # 0}

Costs(T, u) == [i \in DOMAIN T |-> SignedQty(T[i], u) * Price(T[i])]

PaidIn(T, R, u) == SumFunctionOnSet(Costs(T, u), SinceIn(T, R, u))

\* A position counts the fills that have reached the ledger.
LEMMA HeldIsIn ==
    ASSUME NEW u, NEW p
    PROVE  /\ \A n : Held(u, p, n) = HeldIn(tape[p], Reached(p), u, n)
           /\ Paid(u, p) = PaidIn(tape[p], Reached(p), u)
<1>1. \A n : Held(u, p, n) = HeldIn(tape[p], Reached(p), u, n)
  BY DEF Held, HeldIn, Signed
<1>2. SinceFlat(u, p) = SinceIn(tape[p], Reached(p), u)
  BY <1>1 DEF SinceFlat, SinceIn
<1> QED  BY <1>1, <1>2 DEF Paid, PaidIn, Costs

\* Some fills of a tape: each is of integers.
SomeFills(T, R, u) ==
    /\ IsFiniteSet(R) /\ R \subseteq DOMAIN T /\ R \subseteq Int
    /\ \A i \in R : SignedQty(T[i], u) \in Int /\ Price(T[i]) \in Int

\* What a user holds and has paid are integers.
LEMMA SomeFillsType ==
    ASSUME NEW T, NEW R, NEW u, SomeFills(T, R, u)
    PROVE  /\ \A i \in R : /\ Signed(T, u)[i] = SignedQty(T[i], u) /\ Signed(T, u)[i] \in Int
                           /\ Costs(T, u)[i] = SignedQty(T[i], u) * Price(T[i]) /\ Costs(T, u)[i] \in Int
           /\ \A n : HeldIn(T, R, u, n) \in Int
           /\ PaidIn(T, R, u) \in Int
           /\ IsFiniteSet(SinceIn(T, R, u)) /\ SinceIn(T, R, u) \subseteq R
<1>1. \A a, b \in Int : a * b \in Int
  OBVIOUS
<1>2. \A i \in R : /\ Signed(T, u)[i] = SignedQty(T[i], u) /\ Signed(T, u)[i] \in Int
                   /\ Costs(T, u)[i] = SignedQty(T[i], u) * Price(T[i]) /\ Costs(T, u)[i] \in Int
  BY <1>1 DEF SomeFills, Signed, Costs
<1>3. \A n : HeldIn(T, R, u, n) \in Int
  <2> SUFFICES ASSUME NEW n PROVE HeldIn(T, R, u, n) \in Int
    OBVIOUS
  <2>1. IsFiniteSet({i \in R : i <= n})
    BY FS_Subset DEF SomeFills
  <2> QED  BY <1>2, <2>1, SumType DEF HeldIn
<1>4. SinceIn(T, R, u) \subseteq R
  BY DEF SinceIn
<1>5. IsFiniteSet(SinceIn(T, R, u))
  BY <1>4, FS_Subset DEF SomeFills
<1>6. \A i \in SinceIn(T, R, u) : Costs(T, u)[i] \in Int
  BY <1>2, <1>4
<1>7. PaidIn(T, R, u) \in Int
  BY <1>5, <1>6, SumType DEF PaidIn
<1> QED  BY <1>2, <1>3, <1>4, <1>5, <1>7

\* The rest of the tape does not matter for what is held,
LEMMA SameHeld ==
    ASSUME NEW T, NEW V, NEW R, NEW u, SomeFills(T, R, u), \A i \in R : V[i] = T[i], R \subseteq DOMAIN V, NEW n
    PROVE  HeldIn(V, R, u, n) = HeldIn(T, R, u, n)
<1> DEFINE S == {i \in R : i <= n}
<1>1. IsFiniteSet(S)
  BY FS_Subset DEF SomeFills
<1>2. \A i \in S : Signed(T, u)[i] = Signed(V, u)[i] /\ Signed(T, u)[i] \in Int
  BY SomeFillsType DEF Signed, SomeFills
<1> HIDE DEF S
<1>3. SumFunctionOnSet(Signed(T, u), S) = SumFunctionOnSet(Signed(V, u), S)
  BY <1>1, <1>2, SumSame
<1> QED  BY <1>3 DEF HeldIn, S

\* nor for what is paid.
LEMMA SamePaid ==
    ASSUME NEW T, NEW V, NEW R, NEW u, SomeFills(T, R, u), R \subseteq DOMAIN V, \A i \in R : V[i] = T[i]
    PROVE  PaidIn(V, R, u) = PaidIn(T, R, u)
<1>1. \A k : HeldIn(V, R, u, k) = HeldIn(T, R, u, k)
  BY SameHeld
<1>2. SinceIn(V, R, u) = SinceIn(T, R, u)
  BY <1>1 DEF SinceIn
<1>3. IsFiniteSet(SinceIn(T, R, u)) /\ SinceIn(T, R, u) \subseteq R
  BY SomeFillsType
<1>4. \A i \in SinceIn(T, R, u) : Costs(T, u)[i] = Costs(V, u)[i] /\ Costs(T, u)[i] \in Int
  BY <1>3, SomeFillsType DEF Costs, SomeFills
<1>5. SumFunctionOnSet(Costs(T, u), SinceIn(T, R, u)) = SumFunctionOnSet(Costs(V, u), SinceIn(T, R, u))
  BY <1>3, <1>4, SumSame
<1> QED  BY <1>2, <1>5 DEF PaidIn

\* Q is R with one fill more behind it, and ends at z.
OneBehind(R, Q, n, z) ==
    /\ n \in Int /\ z \in Int /\ n <= z
    /\ Q = R \cup {n} /\ \A i \in R : i < n

\* The fill adds to what is held; if nothing is held with it, nothing is paid,
\* and else it adds to what is paid.
CountsOneMore(T, R, Q, u, n, z) ==
    /\ HeldIn(T, Q, u, z) = HeldIn(T, R, u, z) + SignedQty(T[n], u)
    /\ HeldIn(T, Q, u, z) = 0 => PaidIn(T, Q, u) = 0
    /\ HeldIn(T, Q, u, z) # 0 => PaidIn(T, Q, u) = PaidIn(T, R, u) + SignedQty(T[n], u) * Price(T[n])

\* So it is with any fill that reaches the ledger in the order of the tape.
LEMMA OneFillMore ==
    ASSUME NEW T, NEW R, NEW Q, NEW u, NEW n, NEW z, SomeFills(T, Q, u), OneBehind(R, Q, n, z)
    PROVE  CountsOneMore(T, R, Q, u, n, z)
<1>0. n \in Int /\ z \in Int /\ n <= z /\ Q = R \cup {n} /\ \A i \in R : i < n
  BY DEF OneBehind
<1>1. R \subseteq Int /\ n \notin R /\ SomeFills(T, R, u)
  <2>1. IsFiniteSet(R)
    BY <1>0, FS_Subset DEF SomeFills
  <2> QED  BY <1>0, <2>1 DEF SomeFills
<1>2. \A i \in Q : /\ Signed(T, u)[i] = SignedQty(T[i], u) /\ Signed(T, u)[i] \in Int
                   /\ Costs(T, u)[i] = SignedQty(T[i], u) * Price(T[i]) /\ Costs(T, u)[i] \in Int
  BY SomeFillsType
<1>3. {i \in R : i <= z} = R /\ {i \in Q : i <= z} = Q /\ {i \in Q : i <= n} = Q
  <2>1. \A i \in Q : i <= z /\ i <= n
    BY <1>0, <1>1
  <2> QED  BY <1>0, <2>1
<1>4. IsFiniteSet(R)
  BY <1>1 DEF SomeFills
<1>5. SumFunctionOnSet(Signed(T, u), Q) = Signed(T, u)[n] + SumFunctionOnSet(Signed(T, u), R)
  BY <1>0, <1>1, <1>2, <1>4, SumAdd
<1>6. HeldIn(T, R, u, z) \in Int
  BY <1>1, SomeFillsType
<1>7. HeldIn(T, Q, u, z) = HeldIn(T, R, u, z) + SignedQty(T[n], u) /\ HeldIn(T, Q, u, n) = HeldIn(T, Q, u, z)
  <2>1. HeldIn(T, Q, u, z) = Signed(T, u)[n] + HeldIn(T, R, u, z)
    BY <1>3, <1>5 DEF HeldIn
  <2>2. Signed(T, u)[n] = SignedQty(T[n], u) /\ Signed(T, u)[n] \in Int
    BY <1>0, <1>2
  <2>3. HeldIn(T, Q, u, n) = HeldIn(T, Q, u, z)
    BY <1>3 DEF HeldIn
  <2> QED  BY <1>6, <2>1, <2>2, <2>3
<1>8. ASSUME NEW k \in R PROVE HeldIn(T, Q, u, k) = HeldIn(T, R, u, k)
  <2>1. {i \in Q : i <= k} = {i \in R : i <= k}
    BY <1>0, <1>1
  <2> QED  BY <2>1 DEF HeldIn
<1>9. SinceIn(T, Q, u) = IF HeldIn(T, Q, u, z) = 0 THEN {} ELSE SinceIn(T, R, u) \cup {n}
  <2>1. \A i \in Q : i <= n
    BY <1>0, <1>1
  <2>2. CASE HeldIn(T, Q, u, z) = 0
    BY <1>0, <1>7, <2>1, <2>2 DEF SinceIn
  <2>3. CASE HeldIn(T, Q, u, z) # 0
    <3>1. \A i \in R : i \in SinceIn(T, Q, u) <=> i \in SinceIn(T, R, u)
      <4> SUFFICES ASSUME NEW i \in R
                   PROVE  (\A k \in Q : i <= k => HeldIn(T, Q, u, k) # 0)
                          <=> (\A k \in R : i <= k => HeldIn(T, R, u, k) # 0)
        BY <1>0 DEF SinceIn
      <4> QED  BY <1>0, <1>7, <1>8, <2>3
    <3>2. n \in SinceIn(T, Q, u)
      <4>1. \A k \in Q : n <= k => k = n
        BY <1>0, <1>1
      <4> QED  BY <1>0, <1>7, <2>3, <4>1 DEF SinceIn
    <3> QED  BY <1>0, <2>3, <3>1, <3>2 DEF SinceIn
  <2> QED  BY <2>2, <2>3
<1>10. ASSUME HeldIn(T, Q, u, z) = 0 PROVE PaidIn(T, Q, u) = 0
  BY <1>9, <1>10, SumEmpty DEF PaidIn
<1>11. ASSUME HeldIn(T, Q, u, z) # 0
       PROVE  PaidIn(T, Q, u) = PaidIn(T, R, u) + SignedQty(T[n], u) * Price(T[n])
  <2>1. IsFiniteSet(SinceIn(T, R, u)) /\ SinceIn(T, R, u) \subseteq R /\ PaidIn(T, R, u) \in Int
    BY <1>1, SomeFillsType
  <2>2. n \notin SinceIn(T, R, u) /\ \A i \in SinceIn(T, R, u) \cup {n} : Costs(T, u)[i] \in Int
    BY <1>0, <1>1, <1>2, <2>1
  <2>3. SumFunctionOnSet(Costs(T, u), SinceIn(T, R, u) \cup {n})
        = Costs(T, u)[n] + SumFunctionOnSet(Costs(T, u), SinceIn(T, R, u))
    BY <2>1, <2>2, SumAdd
  <2>4. SinceIn(T, Q, u) = SinceIn(T, R, u) \cup {n}
    BY <1>9, <1>11
  <2>5. PaidIn(T, Q, u) = Costs(T, u)[n] + PaidIn(T, R, u)
    BY <2>3, <2>4 DEF PaidIn
  <2>6. Costs(T, u)[n] \in Int /\ Costs(T, u)[n] = SignedQty(T[n], u) * Price(T[n])
    BY <1>0, <1>2
  <2> QED  BY <2>1, <2>5, <2>6
<1> QED  BY <1>7, <1>10, <1>11 DEF CountsOneMore

-------------------------------------------------------------------------------
\* The steps that move funds or positions; no other one touches them.
LEMMA PositionSteps ==
    ASSUME [Next]_vars
    PROVE  \/ UNCHANGED <<balance, moved, position>>
           \/ \E d \in Deposits : /\ dep[d] = "found" /\ moved' = moved \cup {Credit(d)} /\ position' = position
                                  /\ balance' = [balance EXCEPT ![AccountOf(d)] = @ + Deposit[d].amount]
           \/ \E p \in Pairs : Settle(p)
           \/ Crash
<1> DEFINE Goal ==
           \/ UNCHANGED <<balance, moved, position>>
           \/ \E d \in Deposits : /\ dep[d] = "found" /\ moved' = moved \cup {Credit(d)} /\ position' = position
                                  /\ balance' = [balance EXCEPT ![AccountOf(d)] = @ + Deposit[d].amount]
           \/ \E p \in Pairs : Settle(p)
           \/ Crash
<1> USE DEF walletVars, orderVars, engineVars, fillVars, depVars, histVars
<1>1. ASSUME NEW o \in Orders, ReserveOrder(o) PROVE Goal
  BY <1>1 DEF ReserveOrder, Trouble, Lapse
<1>2. ASSUME NEW o \in Orders, Submit(o) PROVE Goal
  BY <1>2 DEF Submit, Lapse
<1>3. ASSUME NEW o \in Orders, Cancel(o) PROVE Goal
  BY <1>3 DEF Cancel
<1>4. ASSUME NEW d \in Deposits, BeginDeposit(d) PROVE Goal
  BY <1>4 DEF BeginDeposit, DepositMoves
<1>5. ASSUME NEW d \in Deposits, FindWallet(d) PROVE Goal
  BY <1>5 DEF FindWallet, DepositMoves, Trouble
<1>6. ASSUME NEW d \in Deposits, CreateWallet(d) PROVE Goal
  BY <1>6 DEF CreateWallet, DepositMoves
<1>7. ASSUME NEW d \in Deposits, CreditDeposit(d) PROVE Goal
  BY <1>7 DEF CreditDeposit, DepositMoves, Trouble, Lapse
<1>8. ASSUME NEW d \in Deposits, CreditGhost(d) PROVE Goal
  BY <1>8 DEF CreditGhost, DepositMoves
<1>9. ASSUME NEW d \in Deposits, RecordDeposit(d) PROVE Goal
  BY <1>9 DEF RecordDeposit, DepositMoves, Trouble, Lapse
<1>10. ASSUME NEW t \in Orders, NEW m \in Orders, Execute(t, m) PROVE Goal
  BY <1>10 DEF Execute, EmitFill
<1>11. ASSUME NEW p \in Pairs, Snapshot(p) PROVE Goal
  BY <1>11 DEF Snapshot
<1>12. ASSUME NEW s \in spilled, SpillSends(s) PROVE Goal
  BY <1>12 DEF SpillSends, Lapse
<1>13. ASSUME NEW s \in spilled, SpillWaits(s) PROVE Goal
  BY <1>13 DEF SpillWaits
<1>14. ASSUME NEW p \in Pairs, BeginSettle(p) PROVE Goal
  BY <1>14 DEF BeginSettle
<1>15. ASSUME NEW p \in Pairs, ReleaseTaker(p) PROVE Goal
  BY <1>15 DEF ReleaseTaker, ReleaseOrder, Trouble, Lapse
<1>16. ASSUME NEW p \in Pairs, ReleaseMaker(p) PROVE Goal
  BY <1>16 DEF ReleaseMaker, ReleaseOrder, Trouble, Lapse
<1>17. CASE UNCHANGED vars
  BY <1>17 DEF vars
<1> QED
  BY <1>1, <1>2, <1>3, <1>4, <1>5, <1>6, <1>7, <1>8, <1>9, <1>10, <1>11, <1>12,
<1>13, <1>14, <1>15, <1>16, <1>17 DEF Next, ClientStep,
DepositStep, EngineStep, SpillStep, BridgeStep

\* What a settlement does when it does not fail.
LEMMA SettleEffect ==
    ASSUME TypeInv, NEW p \in Pairs, Settle(p), "unsettled" \notin lapses'
    PROVE  /\ Fill(bridge[p].fill) \in Fills /\ IsFillOf(p, Fill(bridge[p].fill))
           /\ Fill(bridge[p].fill) = tape[p][bridge[p].fill.n]
           /\ Names(p, bridge[p].fill) /\ Settling(p)
           /\ balance' = Applied(Fill(bridge[p].fill)) /\ moved' = moved \cup {Delivery(bridge[p].fill)}
           /\ RecordFill(Fill(bridge[p].fill)) /\ tape' = tape /\ chan' = chan
<1>1. bridge[p].at = "settle" /\ tape' = tape /\ chan' = chan /\ RecordFill(Fill(bridge[p].fill))
  BY DEF Settle, engineVars, fillVars
<1>2. /\ Fill(bridge[p].fill) \in Fills /\ IsFillOf(p, Fill(bridge[p].fill))
      /\ bridge[p].fill.pair = p /\ Names(p, bridge[p].fill)
  BY <1>1, BridgeFill DEF TypeInv
<1>3. balance' = Applied(Fill(bridge[p].fill)) /\ moved' = moved \cup {Delivery(bridge[p].fill)}
  BY DEF Settle, Lapse
<1> QED  BY <1>1, <1>2, <1>3 DEF Settling, Fill

\* The quantity that a fill gives a user is an integer, and so is its price.
LEMMA SignedType ==
    ASSUME NEW p \in Pairs, NEW x \in Fills, IsFillOf(p, x), NEW u
    PROVE  SignedQty(x, u) \in Int /\ Price(x) \in Int
<1>1. x.qty \in Nat /\ x.maker \in Orders
  BY DEF Fills
<1>2. Price(x) \in Int
  BY <1>1, TicketType DEF Price
<1> QED  BY <1>1, <1>2 DEF SignedQty

\* What RecordFill does to the positions.
LEMMA RecordedPositions ==
    ASSUME TypeInv, FlatIsFree, NEW p \in Pairs, NEW x \in Fills, IsFillOf(p, x), RecordFill(x), NEW u \in Users
    PROVE  /\ position'[<<u, Base[p]>>].qty = position[<<u, Base[p]>>].qty + SignedQty(x, u)
           /\ position'[<<u, Base[p]>>].cost =
                  IF position'[<<u, Base[p]>>].qty = 0 THEN 0
                  ELSE position[<<u, Base[p]>>].cost + SignedQty(x, u) * Price(x)
           /\ \A q \in Pairs \ {p} : position'[<<u, Base[q]>>] = position[<<u, Base[q]>>]
<1> DEFINE b == <<User(Buyer(x)), Base[p]>>
<1> DEFINE s == <<User(Seller(x)), Base[p]>>
<1> DEFINE y == <<u, Base[p]>>
<1>1. /\ User(Buyer(x)) \in Users /\ User(Seller(x)) \in Users /\ User(Buyer(x)) # User(Seller(x))
      /\ x.qty \in Nat /\ Ticket[x.taker].pair = p
  BY FillParts, TicketType DEF User
<1>2. \A q \in Pairs : Base[q] \in Assets /\ (q # p => Base[q] # Base[p])
  BY SettlementAssumption, PairsAssumption
<1>3. position' = [position EXCEPT ![b] = Traded(@, x.qty, Price(x)), ![s] = Traded(@, -x.qty, Price(x))]
  BY <1>1 DEF RecordFill
<1>4. b \in Accounts /\ s \in Accounts /\ y \in Accounts /\ b # s
  BY <1>1, <1>2 DEF Accounts
<1>5. position \in [Accounts -> [qty : Int, cost : Int]]
  BY DEF TypeInv, PlainTypes
<1>6. /\ position'[b] = Traded(position[b], x.qty, Price(x)) /\ position'[s] = Traded(position[s], -x.qty, Price(x))
      /\ \A a \in Accounts : a # b /\ a # s => position'[a] = position[a]
  <2> HIDE DEF b, s
  <2> QED  BY <1>3, <1>4, <1>5
<1>7. ASSUME NEW pos \in [qty : Int, cost : Int], NEW n \in Int, NEW k \in Int
      PROVE  /\ Traded(pos, n, k).qty = pos.qty + n
             /\ Traded(pos, n, k).cost = IF pos.qty + n = 0 THEN 0 ELSE pos.cost + n * k
  BY DEF Traded, Flat
<1>8. Price(x) \in Int
  BY SignedType
<1>9. /\ position'[y].qty = position[y].qty + SignedQty(x, u)
      /\ position'[y].cost = IF position'[y].qty = 0 THEN 0 ELSE position[y].cost + SignedQty(x, u) * Price(x)
  <2>1. PICK pos \in [qty : Int, cost : Int] : pos = position[y]
    BY <1>4, <1>5
  <2>2. CASE u = User(Buyer(x))
    <3>1. y = b /\ SignedQty(x, u) = x.qty
      BY <2>2 DEF SignedQty
    <3>2. position'[y] = Traded(pos, x.qty, Price(x))
      BY <1>6, <2>1, <3>1
    <3>3. /\ Traded(pos, x.qty, Price(x)).qty = pos.qty + x.qty
          /\ Traded(pos, x.qty, Price(x)).cost = IF pos.qty + x.qty = 0 THEN 0 ELSE pos.cost + x.qty * Price(x)
      BY <1>1, <1>7, <1>8
    <3> HIDE DEF y
    <3> QED  BY <2>1, <3>1, <3>2, <3>3
  <2>3. CASE u = User(Seller(x))
    <3>1. y = s /\ SignedQty(x, u) = -x.qty
      BY <1>1, <2>3 DEF SignedQty
    <3>2. position'[y] = Traded(pos, -x.qty, Price(x)) /\ -x.qty \in Int
      BY <1>1, <1>6, <2>1, <3>1
    <3>3. /\ Traded(pos, -x.qty, Price(x)).qty = pos.qty + (-x.qty)
          /\ Traded(pos, -x.qty, Price(x)).cost =
                 IF pos.qty + (-x.qty) = 0 THEN 0 ELSE pos.cost + (-x.qty) * Price(x)
      BY <1>7, <1>8, <3>2
    <3> HIDE DEF y
    <3> QED  BY <2>1, <3>1, <3>2, <3>3
  <2>4. CASE u # User(Buyer(x)) /\ u # User(Seller(x))
    <3>1. y # b /\ y # s /\ SignedQty(x, u) = 0
      BY <2>4 DEF SignedQty
    <3>2. position'[y] = pos /\ (pos.qty = 0 => pos.cost = 0) /\ 0 * Price(x) = 0
      BY <1>4, <1>6, <1>8, <2>1, <3>1 DEF FlatIsFree
    <3> HIDE DEF y
    <3> QED  BY <2>1, <3>1, <3>2
  <2> QED  BY <2>2, <2>3, <2>4
<1>10. ASSUME NEW q \in Pairs \ {p} PROVE position'[<<u, Base[q]>>] = position[<<u, Base[q]>>]
  BY <1>2, <1>6, <1>10 DEF Accounts
<1> QED  BY <1>9, <1>10

\* What a fill adds to the balance of an asset that is traded.
LEMMA ChangesBase ==
    ASSUME NEW p \in Pairs, NEW x \in Fills, IsFillOf(p, x), NEW u, NEW q \in Pairs
    PROVE  Changes(x, <<u, Base[q]>>) = IF q = p THEN SignedQty(x, u) ELSE 0
<1>1. /\ User(Buyer(x)) # User(Seller(x)) /\ x.qty \in Nat /\ Ticket[x.taker].pair = p
      /\ BuyerDebit(x) \in Nat /\ SellerCredit(x) \in Nat
  BY FillParts
<1>2. Base[q] # Quote[p] /\ (Base[q] = Base[p] <=> q = p)
  BY PairsAssumption
<1> HIDE DEF BuyerDebit, SellerCredit
<1>3. Changes(x, <<u, Base[q]>>) = (IF q = p /\ u = User(Buyer(x)) THEN x.qty ELSE 0)
                                   + (IF q = p /\ u = User(Seller(x)) THEN -x.qty ELSE 0)
  BY <1>1, <1>2 DEF Changes
<1> QED  BY <1>1, <1>3 DEF SignedQty

-------------------------------------------------------------------------------
\* Every step leaves those who hold nothing without a cost.
LEMMA FlatIsFreeKept ==
    ASSUME TypeInv, FlatIsFree, [Next]_vars
    PROVE  FlatIsFree'
<1>1. ASSUME position' = position PROVE FlatIsFree'
  BY <1>1 DEF FlatIsFree
<1>2. ASSUME NEW p \in Pairs, Settle(p) PROVE FlatIsFree'
  <2>1. bridge[p].at = "settle" /\ RecordFill(Fill(bridge[p].fill))
    BY <1>2 DEF Settle
  <2>2. PICK x \in Fills : x = Fill(bridge[p].fill) /\ IsFillOf(p, x) /\ RecordFill(x)
    BY <2>1, BridgeFill DEF TypeInv
  <2> DEFINE b == <<User(Buyer(x)), Base[Ticket[x.taker].pair]>>
  <2> DEFINE s == <<User(Seller(x)), Base[Ticket[x.taker].pair]>>
  <2>3. x.qty \in Nat /\ Price(x) \in Int
    BY <2>2, FillParts, SignedType
  <2>4. b # s
    BY <2>2, FillParts
  <2>5. position' = [position EXCEPT ![b] = Traded(@, x.qty, Price(x)), ![s] = Traded(@, -x.qty, Price(x))]
    BY <2>2 DEF RecordFill
  <2>6. position \in [Accounts -> [qty : Int, cost : Int]]
    BY DEF TypeInv, PlainTypes
  <2>7. ASSUME NEW pos \in [qty : Int, cost : Int], NEW n \in Int
        PROVE  Traded(pos, n, Price(x)).qty = 0 => Traded(pos, n, Price(x)).cost = 0
    BY DEF Traded, Flat
  <2>8. ASSUME NEW y \in Accounts, position'[y].qty = 0 PROVE position'[y].cost = 0
    <3> HIDE DEF b, s
    <3>1. position[y] \in [qty : Int, cost : Int]
      BY <2>6
    <3>2. CASE y = s
      <4>1. position'[y] = Traded(position[y], -x.qty, Price(x))
        BY <2>4, <2>5, <2>6, <3>2
      <4> QED  BY <2>3, <2>7, <2>8, <3>1, <4>1
    <3>3. CASE y = b
      <4>1. position'[y] = Traded(position[y], x.qty, Price(x))
        BY <2>4, <2>5, <2>6, <3>3
      <4> QED  BY <2>3, <2>7, <2>8, <3>1, <4>1
    <3>4. CASE y # b /\ y # s
      <4>1. position'[y] = position[y]
        BY <2>5, <2>6, <3>4
      <4> QED  BY <2>8, <4>1 DEF FlatIsFree
    <3> QED  BY <3>2, <3>3, <3>4
  <2> QED  BY <2>8 DEF FlatIsFree
<1>3. ASSUME Crash PROVE FlatIsFree'
  BY <1>3 DEF Crash, FlatIsFree, Flat
<1> QED  BY <1>1, <1>2, <1>3, PositionSteps

\* The deposits of an account, and a deposit more.
LEMMA DepositedSteps ==
    ASSUME NEW x
    PROVE  /\ Deposited(x) \in Int
           /\ \A d \in Deposits : moved' = moved \cup {Credit(d)} /\ Credit(d) \notin moved =>
                  Deposited(x)' = Deposited(x) + (IF AccountOf(d) = x THEN Deposit[d].amount ELSE 0)
           /\ (\A d \in Deposits : Credit(d) \in moved' <=> Credit(d) \in moved) => Deposited(x)' = Deposited(x)
<1> DEFINE S == {d \in Deposits : Credit(d) \in moved /\ AccountOf(d) = x}
<1> DEFINE f == [d \in Deposits |-> Deposit[d].amount]
<1>1. IsFiniteSet(S) /\ S \subseteq Deposits
  BY SettlementAssumption, FS_Subset
<1>2. \A d \in Deposits : f[d] \in Int /\ f[d] = Deposit[d].amount
  BY AccountOfType
<1>3. Deposited(x) = SumFunctionOnSet(f, S) /\ Deposited(x) \in Int
  <2>1. \A d \in S : f[d] \in Int
    BY <1>1, <1>2
  <2> HIDE DEF S, f
  <2>2. SumFunctionOnSet(f, S) \in Int
    BY <1>1, <2>1, SumType
  <2> QED  BY <2>2 DEF Deposited, S, f
<1>4. Deposited(x)' = SumFunctionOnSet(f, {d \in Deposits : Credit(d) \in moved' /\ AccountOf(d) = x})
  BY DEF Deposited, Credit, AccountOf
<1>5. ASSUME NEW d \in Deposits, moved' = moved \cup {Credit(d)}, Credit(d) \notin moved
      PROVE  Deposited(x)' = Deposited(x) + (IF AccountOf(d) = x THEN Deposit[d].amount ELSE 0)
  <2>1. \A e \in Deposits : Credit(e) \in moved' <=> Credit(e) \in moved \/ e = d
    BY <1>5, CreditInjective
  <2>2. CASE AccountOf(d) = x
    <3>1. {e \in Deposits : Credit(e) \in moved' /\ AccountOf(e) = x} = S \cup {d} /\ d \notin S
      BY <1>5, <2>1, <2>2
    <3>2. \A e \in S \cup {d} : f[e] \in Int
      BY <1>1, <1>2
    <3> HIDE DEF S, f
    <3>3. SumFunctionOnSet(f, S \cup {d}) = f[d] + SumFunctionOnSet(f, S)
      BY <1>1, <3>1, <3>2, SumAdd
    <3>4. Deposited(x)' = f[d] + Deposited(x)
      BY <1>3, <1>4, <3>1, <3>3
    <3>5. f[d] \in Int /\ f[d] = Deposit[d].amount
      BY <1>2
    <3> QED  BY <1>3, <2>2, <3>4, <3>5
  <2>3. CASE AccountOf(d) # x
    <3>1. {e \in Deposits : Credit(e) \in moved' /\ AccountOf(e) = x} = S
      BY <1>5, <2>1, <2>3
    <3> HIDE DEF S, f
    <3> QED  BY <1>3, <1>4, <2>3, <3>1
  <2> QED  BY <2>2, <2>3
<1>6. ASSUME \A d \in Deposits : Credit(d) \in moved' <=> Credit(d) \in moved
      PROVE  Deposited(x)' = Deposited(x)
  <2>1. {e \in Deposits : Credit(e) \in moved' /\ AccountOf(e) = x} = S
    BY <1>6
  <2> HIDE DEF S, f
  <2> QED  BY <1>3, <1>4, <2>1
<1> QED  BY <1>3, <1>5, <1>6

\* The delivery of a fill is not the credit of a deposit.
LEMMA DeliveryIsNoCredit ==
    ASSUME NEW f, moved' = moved \cup {Delivery(f)}
    PROVE  \A d \in Deposits : Credit(d) \in moved' <=> Credit(d) \in moved
<1>1. \A d \in Deposits : Credit(d) # Delivery(f)
  <2> SUFFICES ASSUME NEW d \in Deposits, Credit(d) = Delivery(f) PROVE FALSE
    OBVIOUS
  <2>1. Credit(d).kind = "deposit" /\ Delivery(f).kind = "fill"
    BY DEF Credit, Delivery
  <2> QED  BY <2>1
<1> QED  BY <1>1

\* Every step keeps positions and wallets together.
LEMMA WalletPositionsKept ==
    ASSUME LedgerInv, FlatIsFree, WalletPositions, [Next]_vars
    PROVE  WalletPositions'
<1> SUFFICES ASSUME NoneOf(TrackerLapses)', NEW x \in Funded, x[2] \in Range(Base)
             PROVE  position'[x].qty = balance'[x] - Opening[x] - Deposited(x)'
  BY DEF WalletPositions
<1>1. position[x].qty = balance[x] - Opening[x] - Deposited(x) /\ "unsettled" \notin lapses' /\ "crash" \notin lapses'
  BY NoneBefore DEF WalletPositions, TrackerLapses
<1>2. /\ TypeInv /\ CreditsOnce /\ x \in Accounts /\ x \in rows /\ balance[x] \in Int /\ Opening[x] \in Int
      /\ position[x].qty \in Int /\ balance \in [Accounts -> Int]
  BY SettlementAssumption DEF LedgerInv, TypeInv, WalletTypes, PlainTypes
<1>3. Deposited(x) \in Int
  BY DepositedSteps
<1>4. ASSUME UNCHANGED <<balance, moved, position>> PROVE position'[x].qty = balance'[x] - Opening[x] - Deposited(x)'
  <2>1. Deposited(x)' = Deposited(x)
    BY <1>4, DepositedSteps
  <2> QED  BY <1>1, <1>4, <2>1
<1>5. ASSUME NEW d \in Deposits, dep[d] = "found", moved' = moved \cup {Credit(d)}, position' = position,
             balance' = [balance EXCEPT ![AccountOf(d)] = @ + Deposit[d].amount]
      PROVE  position'[x].qty = balance'[x] - Opening[x] - Deposited(x)'
  <2>1. Credit(d) \notin moved
    BY <1>2, <1>5 DEF CreditsOnce
  <2>2. Deposited(x)' = Deposited(x) + (IF AccountOf(d) = x THEN Deposit[d].amount ELSE 0)
    BY <1>5, <2>1, DepositedSteps
  <2>3. balance'[x] = balance[x] + (IF AccountOf(d) = x THEN Deposit[d].amount ELSE 0)
    BY <1>2, <1>5
  <2>4. PICK v \in Int : v = IF AccountOf(d) = x THEN Deposit[d].amount ELSE 0
    BY AccountOfType
  <2> QED  BY <1>1, <1>2, <1>3, <1>5, <2>2, <2>3, <2>4
<1>6. ASSUME NEW p \in Pairs, Settle(p) PROVE position'[x].qty = balance'[x] - Opening[x] - Deposited(x)'
  <2>1. PICK y \in Fills : /\ y = Fill(bridge[p].fill) /\ IsFillOf(p, y) /\ balance' = Applied(y) /\ RecordFill(y)
                           /\ moved' = moved \cup {Delivery(bridge[p].fill)}
    BY <1>1, <1>2, <1>6, SettleEffect
  <2>2. PICK u \in Users, q \in Pairs : x = <<u, Base[q]>>
    BY <1>2, SettlementAssumption DEF Accounts, Range
  <2>3. balance'[x] = balance[x] + Changes(y, x)
    BY <1>2, <2>1 DEF Applied
  <2>4. Changes(y, x) = IF q = p THEN SignedQty(y, u) ELSE 0
    BY <2>1, <2>2, ChangesBase
  <2>5. SignedQty(y, u) \in Int
    BY <2>1, SignedType
  <2>6. position'[x].qty = position[x].qty + (IF q = p THEN SignedQty(y, u) ELSE 0)
    <3>1. CASE q = p
      BY <1>2, <2>1, <2>2, <3>1, RecordedPositions
    <3>2. CASE q # p
      <4>1. position'[x] = position[x]
        BY <1>2, <2>1, <2>2, <3>2, RecordedPositions
      <4> QED  BY <1>2, <3>2, <4>1
    <3> QED  BY <3>1, <3>2
  <2>7. Deposited(x)' = Deposited(x)
    BY <2>1, DeliveryIsNoCredit, DepositedSteps
  <2>8. PICK v \in Int : v = IF q = p THEN SignedQty(y, u) ELSE 0
    BY <2>5
  <2> QED  BY <1>1, <1>2, <1>3, <2>3, <2>4, <2>6, <2>7, <2>8
<1>7. ~Crash
  BY <1>1 DEF Crash, Lapse
<1> QED  BY <1>4, <1>5, <1>6, <1>7, PositionSteps

-------------------------------------------------------------------------------
\* Every step lets the fills of a pair move in the order they were executed in.
LEMMA MovedInOrderKept ==
    ASSUME TypeInv, InOrder, MovedInOrder, [Next]_vars
    PROVE  MovedInOrder'
<1> SUFFICES ASSUME NoneOf({"late", "crash"})', NEW p \in Pairs,
                    NEW m \in moved', m.kind = "fill", m.of.pair = p
             PROVE  /\ \A i \in 1..Len(chan'[p]) : m.of.n < chan'[p][i].n
                    /\ bridge'[p].at = "settle" => m.of.n < bridge'[p].fill.n
  BY DEF MovedInOrder, MovedInOrderAt, Settling
<1> DEFINE Goal == /\ \A i \in 1..Len(chan'[p]) : m.of.n < chan'[p][i].n
                   /\ bridge'[p].at = "settle" => m.of.n < bridge'[p].fill.n
<1>1. /\ InOrderAt(p) /\ MovedInOrderAt(p) /\ "late" \notin lapses' /\ "crash" \notin lapses'
      /\ Len(chan[p]) \in Nat /\ chan[p] \in Seq(Notifications) /\ Len(tape[p]) \in Nat
  <2>1. InOrderAt(p) /\ MovedInOrderAt(p) /\ "late" \notin lapses' /\ "crash" \notin lapses'
    BY NoneBefore DEF InOrder, MovedInOrder
  <2> QED  BY <2>1 DEF TypeInv, Shape, ChanShape, TapeShape
<1>2. m \in moved => m.of.n \in Nat /\ m.of.n <= Len(tape[p])
  <2>1. m \in moved => Names(p, m.of)
    BY DEF TypeInv, Shape, MovedShape
  <2> QED  BY <2>1 DEF Names, Notifications
<1>3. m \in moved => /\ \A i \in 1..Len(chan[p]) : m.of.n < chan[p][i].n
                     /\ bridge[p].at = "settle" => m.of.n < bridge[p].fill.n
  BY <1>1 DEF MovedInOrderAt, Settling
<1>4. ASSUME m \in moved, chan'[p] = chan[p], bridge'[p] = bridge[p] \/ bridge'[p].at # "settle" PROVE Goal
  BY <1>3, <1>4
<1>5. ASSUME UNCHANGED <<chan, spilled, bridge, moved, tape, epoch>> PROVE Goal
  BY <1>4, <1>5
<1>6. ASSUME NEW d \in Deposits, CreditDeposit(d) PROVE Goal
  <2>1. chan' = chan /\ bridge' = bridge /\ (moved' = moved \/ moved' = moved \cup {Credit(d)})
    BY <1>6 DEF CreditDeposit, fillVars
  <2>2. Credit(d).kind = "deposit"
    BY DEF Credit
  <2> QED  BY <1>4, <2>1, <2>2
<1>7. ASSUME NEW t \in Orders, NEW o \in Orders, Execute(t, o) PROVE Goal
  <2>1. PICK r, f : r = Ticket[t].pair /\ f = Notification(r, Len(tape[r]) + 1, epoch)
    OBVIOUS
  <2>2. /\ r \in Pairs /\ f \in Notifications /\ f.n = Len(tape[r]) + 1 /\ bridge' = bridge /\ moved' = moved
        /\ (chan' = [chan EXCEPT ![r] = Append(@, f)] \/ chan' = chan)
    <3> USE <2>1
    <3> QED  BY <1>7, NewNotification
  <2>3. CASE chan' = chan \/ p # r
    BY <1>4, <2>2, <2>3 DEF TypeInv, Shape, ChanShape
  <2>4. CASE chan' = [chan EXCEPT ![r] = Append(@, f)] /\ p = r
    <3>1. /\ Len(chan'[p]) = Len(chan[p]) + 1
          /\ \A i \in 1..Len(chan[p]) : chan'[p][i] = chan[p][i]
          /\ chan'[p][Len(chan[p]) + 1] = f
      BY <2>2, <2>4, ChanAppended
    <3>2. \A i \in 1..Len(chan'[p]) : (i \in 1..Len(chan[p]) /\ chan'[p][i] = chan[p][i]) \/ chan'[p][i] = f
      BY <1>1, <3>1
    <3>3. m.of.n < f.n
      BY <1>1, <1>2, <2>2, <2>4
    <3> QED  BY <1>3, <2>2, <3>2, <3>3
  <2> QED  BY <2>2, <2>3, <2>4
<1>8. ASSUME NEW s \in spilled, SpillSends(s) \/ SpillWaits(s) PROVE Goal
  BY <1>1, <1>4, <1>8 DEF SpillSends, SpillWaits, Lapse
<1>9. ASSUME NEW r \in Pairs, BeginSettle(r) PROVE Goal
  <2>1. moved' = moved
    BY <1>9 DEF BeginSettle, histVars
  <2>2. CASE p # r
    BY <1>4, <1>9, <2>1, <2>2, ChanTaken
  <2>3. CASE p = r
    <3>1. /\ Len(chan[p]) > 0 /\ Len(chan'[p]) = Len(chan[p]) - 1
          /\ \A i \in 1..Len(chan'[p]) : chan'[p][i] = chan[p][i + 1]
          /\ bridge'[p].fill = chan[p][1]
      BY <1>9, <2>3, ChanTaken
    <3>2. \A i \in 1..Len(chan'[p]) : i + 1 \in 1..Len(chan[p])
      BY <1>1, <3>1
    <3>3. 1 \in 1..Len(chan[p])
      BY <1>1, <3>1
    <3> QED  BY <1>3, <2>1, <3>1, <3>2, <3>3
  <2> QED  BY <2>2, <2>3
<1>10. ASSUME NEW r \in Pairs, ReleaseTaker(r) \/ ReleaseMaker(r) PROVE Goal
  <2>1. chan' = chan /\ moved' = moved
    BY <1>10 DEF ReleaseTaker, ReleaseMaker, fillVars
  <2>2. bridge'[p] = bridge[p] \/ bridge'[p].at # "settle"
    <3>1. \/ bridge' = [bridge EXCEPT ![r] = [at |-> "maker", fill |-> bridge[r].fill]]
          \/ bridge' = [bridge EXCEPT ![r] = Idle]
      BY <1>10, BridgeMoves
    <3> QED  BY <3>1 DEF TypeInv, Shape, BridgeShape, Idle
  <2> QED  BY <1>4, <2>1, <2>2
<1>11. ASSUME NEW r \in Pairs, Settle(r) PROVE Goal
  <2>1. /\ chan' = chan /\ bridge[r].at = "settle" /\ bridge'[r].at = "taker"
        /\ \A q \in Pairs : q # r => bridge'[q] = bridge[q]
        /\ moved' \subseteq moved \cup {Delivery(bridge[r].fill)}
    <3>1. bridge[r].at = "settle" /\ bridge' = [bridge EXCEPT ![r] = [at |-> "taker", fill |-> bridge[r].fill]]
      BY <1>11, BridgeMoves
    <3>2. chan' = chan /\ moved' \subseteq moved \cup {Delivery(bridge[r].fill)}
      BY <1>11 DEF Settle, fillVars
    <3> QED  BY <3>1, <3>2 DEF TypeInv, Shape, BridgeShape
  <2>2. bridge'[p] = bridge[p] \/ bridge'[p].at # "settle"
    BY <2>1
  <2>3. CASE m \in moved
    BY <1>4, <2>1, <2>2, <2>3
  <2>4. CASE m = Delivery(bridge[r].fill)
    <3>1. m.of = bridge[r].fill /\ bridge[r].fill.pair = r
      BY <2>1, <2>4, BridgeFill DEF Delivery, TypeInv
    <3>2. p = r /\ m.of = bridge[p].fill
      BY <3>1
    <3>3. \A i \in 1..Len(chan[p]) : bridge[p].fill.n < chan[p][i].n
      BY <1>1, <2>1, <3>2 DEF InOrderAt
    <3> QED  BY <2>1, <3>2, <3>3
  <2> QED  BY <2>1, <2>3, <2>4
<1>12. ~Crash
  BY <1>1 DEF Crash, Lapse
<1> QED  BY <1>5, <1>6, <1>7, <1>8, <1>9, <1>10, <1>11, <1>12, FillSteps

-------------------------------------------------------------------------------
\* The fills of a pair that have reached the ledger are some of its tape.
LEMMA ReachedFills ==
    ASSUME TypeInv, NEW p \in Pairs, NEW u
    PROVE  /\ SomeFills(tape[p], Reached(p), u) /\ Len(tape[p]) \in Nat
           /\ Reached(p) \subseteq 1..Len(tape[p]) /\ DOMAIN tape[p] = 1..Len(tape[p])
<1>1. tape[p] \in Seq(Fills) /\ Len(tape[p]) \in Nat /\ DOMAIN tape[p] = 1..Len(tape[p])
  BY DEF TypeInv, Shape, TapeShape
<1>2. Reached(p) \subseteq 1..Len(tape[p])
  BY <1>1 DEF Reached
<1>3. IsFiniteSet(Reached(p))
  <2>1. IsFiniteSet(1..Len(tape[p]))
    BY <1>1, FS_Interval
  <2> QED  BY <1>2, <2>1, FS_Subset
<1>4. \A i \in 1..Len(tape[p]) : SignedQty(tape[p][i], u) \in Int /\ Price(tape[p][i]) \in Int
  <2> SUFFICES ASSUME NEW i \in 1..Len(tape[p])
               PROVE  SignedQty(tape[p][i], u) \in Int /\ Price(tape[p][i]) \in Int
    OBVIOUS
  <2>1. PICK x : x = tape[p][i]
    OBVIOUS
  <2>2. x \in Fills /\ IsFillOf(p, x)
    BY <1>1, <2>1, ElementOfSeq DEF TypeInv, Shape, TapeShape
  <2> QED  BY <2>1, <2>2, SignedType
<1> QED  BY <1>1, <1>2, <1>3, <1>4 DEF SomeFills

\* They are the same while nothing moves on the pair.
LEMMA ReachedStays ==
    ASSUME TypeInv, [Next]_vars, NEW p \in Pairs,
           \A m : m.kind = "fill" /\ m.of.pair = p => (m \in moved' <=> m \in moved)
    PROVE  Reached(p)' = Reached(p)
<1>1. /\ Len(tape[p]) \in Nat /\ Len(tape'[p]) \in Nat /\ Len(tape[p]) <= Len(tape'[p])
      /\ DOMAIN tape[p] = 1..Len(tape[p]) /\ DOMAIN tape'[p] = 1..Len(tape'[p])
  <2>1. tape \in [Pairs -> Seq(Fills)] /\ tape' \in [Pairs -> Seq(Fills)]
    BY TypeInvKept DEF TypeInv, Shape, TapeShape
  <2>2. Len(tape[p]) \in Nat /\ Len(tape'[p]) \in Nat /\ Len(tape[p]) <= Len(tape'[p])
    BY TapeGrows
  <2> QED  BY <2>1, <2>2
<1>2. \A m \in moved : m.kind = "fill" /\ m.of.pair = p => m.of.n \in 1..Len(tape[p])
  <2>1. \A m \in moved : m.kind = "fill" /\ m.of.pair = p => Names(p, m.of)
    BY DEF TypeInv, Shape, MovedShape
  <2>2. \A f : Names(p, f) => f.n \in 1..Len(tape[p])
    BY <1>1 DEF Names, Notifications
  <2> QED  BY <2>1, <2>2
<1>3. \A n : Settled(p, n)' <=> Settled(p, n)
  BY DEF Settled
<1>4. \A n : Settled(p, n) => n \in 1..Len(tape[p])
  BY <1>2 DEF Settled
<1>5. Reached(p)' = {n \in DOMAIN tape'[p] : Settled(p, n)}
  BY <1>3 DEF Reached
<1> QED  BY <1>1, <1>4, <1>5 DEF Reached

\* A settlement adds one to them, behind the others.
LEMMA ReachedNext ==
    ASSUME TypeInv, NEW p \in Pairs, Settle(p), "unsettled" \notin lapses', MovedInOrderAt(p)
    PROVE  /\ Reached(p)' = Reached(p) \cup {bridge[p].fill.n}
           /\ \A i \in Reached(p) : i < bridge[p].fill.n
           /\ bridge[p].fill.n \in 1..Len(tape[p])
<1>1. PICK f : f = bridge[p].fill
  OBVIOUS
<1>2. f.pair = p /\ Names(p, f) /\ Settling(p) /\ moved' = moved \cup {Delivery(f)} /\ tape' = tape
  BY <1>1, SettleEffect DEF Names
<1>3. Delivery(f).kind = "fill" /\ Delivery(f).of = f
  BY DEF Delivery
<1>4. DOMAIN tape[p] = 1..Len(tape[p]) /\ f.n \in 1..Len(tape[p])
  BY <1>2 DEF TypeInv, Shape, TapeShape, Names, Notifications
<1>5. \A n : Settled(p, n)' <=> Settled(p, n) \/ n = f.n
  BY <1>2, <1>3 DEF Settled
<1>6. Reached(p)' = {n \in DOMAIN tape[p] : Settled(p, n) \/ n = f.n}
  BY <1>2, <1>5 DEF Reached
<1>7. \A n : Settled(p, n) => n < f.n
  BY <1>1, <1>2 DEF Settled, MovedInOrderAt
<1> QED  BY <1>1, <1>4, <1>6, <1>7 DEF Reached

\* Every step keeps positions and trades together.
LEMMA TradePositionsKept ==
    ASSUME TypeInv, FlatIsFree, MovedInOrder, TradePositions, [Next]_vars
    PROVE  TradePositions'
<1> SUFFICES ASSUME NoneOf(OrderedLapses)', NEW u \in Users, NEW p \in Pairs
             PROVE  /\ position'[<<u, Base[p]>>].qty = Held(u, p, Len(tape[p]))'
                    /\ position'[<<u, Base[p]>>].cost = Paid(u, p)'
  BY DEF TradePositions
<1>1. PICK y, T, R, V, Q : /\ y = <<u, Base[p]>> /\ T = tape[p] /\ R = Reached(p)
                           /\ V = tape'[p] /\ Q = Reached(p)'
  OBVIOUS
<1>2. /\ "unsettled" \notin lapses' /\ "crash" \notin lapses' /\ MovedInOrderAt(p)
      /\ position[y].qty = HeldIn(T, R, u, Len(T)) /\ position[y].cost = PaidIn(T, R, u)
  <2>1. NoneOf(OrderedLapses) /\ "unsettled" \notin lapses' /\ "crash" \notin lapses'
    BY NoneBefore DEF OrderedLapses
  <2>2. NoneOf({"late", "crash"})
    BY <2>1 DEF NoneOf, OrderedLapses
  <2> QED  BY <1>1, <2>1, <2>2, HeldIsIn DEF TradePositions, MovedInOrder
<1>3. /\ Held(u, p, Len(tape[p]))' = HeldIn(V, Q, u, Len(V))
      /\ Paid(u, p)' = PaidIn(V, Q, u)
  <2>1. Held(u, p, Len(tape[p]))' = HeldIn(V, Q, u, Len(V))
    BY <1>1 DEF Held, HeldIn, Signed
  <2>2. \A n \in Q : Held(u, p, n)' = HeldIn(V, Q, u, n)
    BY <1>1 DEF Held, HeldIn, Signed
  <2>3. SinceFlat(u, p)' = SinceIn(V, Q, u)
    BY <1>1, <2>2 DEF SinceFlat, SinceIn
  <2> QED  BY <1>1, <2>1, <2>3 DEF Paid, PaidIn, Costs
<1>4. SomeFills(T, R, u) /\ Len(T) \in Nat /\ R \subseteq 1..Len(T) /\ DOMAIN T = 1..Len(T)
  BY <1>1, ReachedFills
<1>5. /\ Len(V) \in Nat /\ Len(T) <= Len(V) /\ DOMAIN V = 1..Len(V)
      /\ \A i \in 1..Len(T) : V[i] = T[i]
  <2>1. tape' \in [Pairs -> Seq(Fills)]
    BY TypeInvKept DEF TypeInv, Shape, TapeShape
  <2>2. DOMAIN V = 1..Len(V)
    BY <1>1, <2>1
  <2>3. Len(V) \in Nat /\ Len(T) <= Len(V) /\ \A i \in 1..Len(T) : V[i] = T[i]
    BY <1>1, TapeGrows
  <2> QED  BY <2>2, <2>3
<1>6. PICK t, v \in Nat : t = Len(T) /\ v = Len(V)
  BY <1>4, <1>5
<1> DEFINE Goal == position'[y].qty = HeldIn(V, Q, u, v) /\ position'[y].cost = PaidIn(V, Q, u)
<1>7. ASSUME position'[y] = position[y],
             \A m : m.kind = "fill" /\ m.of.pair = p => (m \in moved' <=> m \in moved)
      PROVE  Goal
  <2>1. Q = R
    BY <1>1, <1>7, ReachedStays
  <2>2. R \subseteq DOMAIN V /\ \A i \in R : V[i] = T[i]
    <3>1. \A i \in 1..t : i \in 1..v
      BY <1>5, <1>6
    <3> QED  BY <1>4, <1>5, <1>6, <3>1
  <2>3. \A i \in R : i <= t /\ i <= v
    BY <1>4, <1>5, <1>6
  <2>4. HeldIn(V, R, u, v) = HeldIn(T, R, u, v) /\ PaidIn(V, R, u) = PaidIn(T, R, u)
    <3>1. SomeFills(T, R, u)
      BY <1>4
    <3>2. HeldIn(V, R, u, v) = HeldIn(T, R, u, v)
      BY ONLY <2>2, <3>1, SameHeld
    <3>3. PaidIn(V, R, u) = PaidIn(T, R, u)
      BY ONLY <2>2, <3>1, SamePaid
    <3> QED  BY <3>2, <3>3
  <2>5. {i \in R : i <= v} = {i \in R : i <= t}
    BY ONLY <2>3
  <2>6. HeldIn(T, R, u, v) = HeldIn(T, R, u, t)
    BY ONLY <2>5 DEF HeldIn
  <2> QED  BY <1>2, <1>6, <1>7, <2>1, <2>4, <2>6
<1>8. ASSUME UNCHANGED <<balance, moved, position>> PROVE Goal
  BY <1>7, <1>8
<1>9. ASSUME NEW d \in Deposits, moved' = moved \cup {Credit(d)}, position' = position PROVE Goal
  <2>1. Credit(d).kind = "deposit"
    BY DEF Credit
  <2> QED  BY <1>7, <1>9, <2>1
<1>10. ASSUME NEW q \in Pairs, Settle(q) PROVE Goal
  <2>1. PICK f : f = bridge[q].fill
    OBVIOUS
  <2>2. PICK x : x = Fill(f)
    OBVIOUS
  <2>3. x \in Fills /\ x = tape[q][f.n] /\ IsFillOf(q, x) /\ Names(q, f)
    BY <1>2, <1>10, <2>1, <2>2, SettleEffect
  <2>4. moved' = moved \cup {Delivery(f)} /\ RecordFill(x) /\ tape' = tape
    BY <1>2, <1>10, <2>1, <2>2, SettleEffect
  <2>5. CASE p # q
    <3>1. position'[y] = position[y]
      BY <1>1, <2>3, <2>4, <2>5, RecordedPositions
    <3>2. Delivery(f).of = f /\ f.pair = q
      BY <2>3 DEF Delivery, Names
    <3> HIDE DEF Goal
    <3> QED  BY <1>7, <2>4, <2>5, <3>1, <3>2
  <2>6. CASE p = q
    <3>1. PICK n : n = f.n
      OBVIOUS
    <3>2. Q = R \cup {n} /\ (\A i \in R : i < n) /\ n \in 1..Len(T)
      BY <1>1, <1>2, <1>10, <2>1, <2>6, <3>1, ReachedNext
    <3>3. V = T /\ v = t /\ T[n] = x
      BY <1>1, <1>6, <2>3, <2>4, <2>6, <3>1
    <3>4. PICK s, c : s = SignedQty(x, u) /\ c = Price(x)
      OBVIOUS
    <3>5. s \in Int /\ c \in Int
      BY <2>3, <3>4, SignedType
    <3>6. /\ position'[y].qty = position[y].qty + s
          /\ position'[y].cost = IF position'[y].qty = 0 THEN 0 ELSE position[y].cost + s * c
      BY <1>1, <2>3, <2>4, <2>6, <3>4, RecordedPositions
    <3>7. n \in Int /\ t \in Int /\ n <= t /\ (\A i \in R : i <= t)
      BY <1>4, <1>6, <3>2
    <3>8. SomeFills(T, Q, u)
      <4>1. IsFiniteSet(Q)
        BY <1>4, <3>2, FS_AddElement DEF SomeFills
      <4> QED  BY <1>4, <3>2, <3>3, <3>4, <3>5, <3>7, <4>1 DEF SomeFills
    <3>9. CountsOneMore(T, R, Q, u, n, t)
      <4>1. OneBehind(R, Q, n, t)
        BY <3>2, <3>7 DEF OneBehind
      <4> QED  BY ONLY <3>8, <4>1, OneFillMore
    <3>10. /\ HeldIn(T, Q, u, t) = HeldIn(T, R, u, t) + s
           /\ HeldIn(T, Q, u, t) = 0 => PaidIn(T, Q, u) = 0
           /\ HeldIn(T, Q, u, t) # 0 => PaidIn(T, Q, u) = PaidIn(T, R, u) + s * c
      BY <3>3, <3>4, <3>9 DEF CountsOneMore
    <3>11. position'[y].qty = HeldIn(T, Q, u, t)
      BY <1>2, <1>6, <3>6, <3>10
    <3>12. position'[y].cost = PaidIn(T, Q, u)
      BY <1>2, <3>6, <3>10, <3>11
    <3> QED  BY <3>3, <3>11, <3>12
  <2> QED  BY <2>5, <2>6
<1>11. ~Crash
  BY <1>2 DEF Crash, Lapse
<1>12. Goal
  <2> HIDE DEF Goal
  <2> QED  BY <1>8, <1>9, <1>10, <1>11, PositionSteps
<1> QED  BY <1>1, <1>3, <1>6, <1>12

-------------------------------------------------------------------------------
PositionInv == LedgerInv /\ InOrder /\ FlatIsFree /\ WalletPositions /\ MovedInOrder /\ TradePositions

\* Nobody has a position at the start.
LEMMA PositionInvInit == Init => PositionInv
<1> SUFFICES ASSUME Init PROVE PositionInv
  OBVIOUS
<1>1. LedgerInv
  BY LedgerInvInit
<1>2. /\ chan = [p \in Pairs |-> <<>>] /\ bridge = [p \in Pairs |-> Idle] /\ tape = [p \in Pairs |-> <<>>]
      /\ position = [x \in Accounts |-> Flat] /\ balance = Opening /\ moved = {}
  BY DEF Init
<1>3. InOrder /\ MovedInOrder
  BY <1>2 DEF InOrder, InOrderAt, MovedInOrder, MovedInOrderAt, Idle
<1>4. FlatIsFree
  BY <1>2 DEF FlatIsFree, Flat
<1>5. WalletPositions
  <2> SUFFICES ASSUME NEW x \in Funded PROVE position[x].qty = balance[x] - Opening[x] - Deposited(x)
    BY DEF WalletPositions
  <2>1. Deposited(x) = 0
    <3>1. {d \in Deposits : Credit(d) \in moved /\ AccountOf(d) = x} = {}
      BY <1>2
    <3> QED  BY <3>1, SumEmpty DEF Deposited
  <2>2. x \in Accounts /\ Opening[x] \in Int
    BY SettlementAssumption
  <2> QED  BY <1>2, <2>1, <2>2 DEF Flat
<1>6. TradePositions
  <2> SUFFICES ASSUME NEW u \in Users, NEW p \in Pairs
               PROVE  /\ position[<<u, Base[p]>>].qty = Held(u, p, Len(tape[p]))
                      /\ position[<<u, Base[p]>>].cost = Paid(u, p)
    BY DEF TradePositions
  <2>1. Reached(p) = {}
    BY <1>2 DEF Reached, Settled
  <2>2. Held(u, p, Len(tape[p])) = 0
    <3>1. {i \in Reached(p) : i <= Len(tape[p])} = {}
      BY <2>1
    <3> QED  BY <3>1, SumEmpty DEF Held
  <2>3. Paid(u, p) = 0
    <3>1. SinceFlat(u, p) = {}
      BY <2>1 DEF SinceFlat
    <3> QED  BY <3>1, SumEmpty DEF Paid
  <2>4. <<u, Base[p]>> \in Accounts
    BY SettlementAssumption DEF Accounts
  <2> QED  BY <1>2, <2>2, <2>3, <2>4 DEF Flat
<1> QED  BY <1>1, <1>3, <1>4, <1>5, <1>6 DEF PositionInv

\* Every step keeps the invariant of the positions.
LEMMA PositionInvKept == PositionInv /\ [Next]_vars => PositionInv'
<1> SUFFICES ASSUME PositionInv, [Next]_vars PROVE PositionInv'
  OBVIOUS
<1>1. TypeInv
  BY DEF PositionInv, LedgerInv
<1>2. LedgerInv'
  BY LedgerInvKept DEF PositionInv
<1>3. InOrder'
  BY <1>1, InOrderKept DEF PositionInv
<1>4. FlatIsFree'
  BY <1>1, FlatIsFreeKept DEF PositionInv
<1>5. WalletPositions'
  BY WalletPositionsKept DEF PositionInv
<1>6. MovedInOrder'
  BY <1>1, MovedInOrderKept DEF PositionInv
<1>7. TradePositions'
  BY <1>1, TradePositionsKept DEF PositionInv
<1> QED  BY <1>2, <1>3, <1>4, <1>5, <1>6, <1>7 DEF PositionInv

\* The profit that is shown for a user is that of his trades, at any prices.
LEMMA ProfitIsOfTrades ==
    ASSUME TradePositions, NoneOf(OrderedLapses), NEW u \in Users, NEW price
    PROVE  LET shown == HeldAssets(u) \cap DOMAIN price IN
           DOMAIN price \subseteq Range(Base) =>
               GetPnL(u, price) = SumFunctionOnSet([a \in shown |-> Profit(u, PairOf(a), price[a])], shown)
<1> DEFINE shown == HeldAssets(u) \cap DOMAIN price
<1> DEFINE refs == [a \in shown |-> price[a]]
<1> SUFFICES ASSUME DOMAIN price \subseteq Range(Base)
             PROVE  GetPnL(u, price) = SumFunctionOnSet([a \in shown |-> Profit(u, PairOf(a), price[a])], shown)
  OBVIOUS
<1>1. ASSUME NEW a \in shown
      PROVE  position[<<u, a>>].qty * refs[a] - position[<<u, a>>].cost = Profit(u, PairOf(a), price[a])
  <2>1. \E p \in Pairs : Base[p] = a
    BY <1>1, SettlementAssumption DEF Range
  <2>2. PICK p : p = PairOf(a)
    OBVIOUS
  <2>3. p \in Pairs /\ Base[p] = a
    BY <2>1, <2>2 DEF PairOf
  <2>4. position[<<u, a>>].qty = Held(u, p, Len(tape[p])) /\ position[<<u, a>>].cost = Paid(u, p)
    BY <2>3 DEF TradePositions
  <2> QED  BY <1>1, <2>2, <2>4 DEF Profit
<1>2. GetPnL(u, price) =
      SumFunctionOnSet([a \in shown |-> position[<<u, a>>].qty * refs[a] - position[<<u, a>>].cost], shown)
  BY DEF GetPnL, ReferencePrices, Unrealized
<1>3. [a \in shown |-> position[<<u, a>>].qty * refs[a] - position[<<u, a>>].cost]
      = [a \in shown |-> Profit(u, PairOf(a), price[a])]
  BY <1>1
<1> QED  BY <1>2, <1>3

\* The position that the tracker shows of an asset is what trades have added to its
\* wallet, and the profit it shows is that of the trades that have reached the
\* ledger since the user last held nothing, whichever fills were lost before the
\* bridge: unless a settlement failed, a crash emptied the tracker, or, for the
\* profit, fills overtook each other (RecordFill and Summary against SettleFill).
THEOREM PositionsAlwaysMatch == Spec => []PositionsMatchWallets
<1>1. PositionInv => PositionsMatchWallets
  <2> SUFFICES ASSUME PositionInv PROVE PositionsMatchWallets
    OBVIOUS
  <2>1. ASSUME lapses \cap {"unsettled", "crash"} = {}
        PROVE  \A x \in Funded : x[2] \in Range(Base) =>
                   position[x].qty = balance[x] - Opening[x] - Deposited(x)
    BY <2>1 DEF PositionInv, WalletPositions, NoneOf, TrackerLapses
  <2>2. ASSUME lapses \cap {"unsettled", "crash", "late"} = {}, NEW u \in Users
        PROVE  LET shown == HeldAssets(u) \cap Range(Base) IN
               GetPnL(u, Reference) =
                   SumFunctionOnSet([a \in shown |-> Profit(u, PairOf(a), Reference[a])], shown)
    <3>1. NoneOf(OrderedLapses) /\ TradePositions
      BY <2>2 DEF PositionInv, NoneOf, OrderedLapses
    <3>2. DOMAIN Reference = Range(Base)
      BY DEF Reference
    <3> QED  BY <3>1, <3>2, ProfitIsOfTrades
  <2> QED  BY <2>1, <2>2 DEF PositionsMatchWallets
<1> QED  BY <1>1, PositionInvInit, PositionInvKept, PTL DEF Spec
===============================================================================
