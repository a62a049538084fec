---------------------------- MODULE Futures_proofs ----------------------------
(***************************************************************************)
(* Proofs about the perpetual futures.  The properties are about goroutines  *)
(* that work on the same rows without a lock, and hold as long as certain    *)
(* lapses do not happen.  The inductive invariant says what makes them true:  *)
(*                                                                         *)
(*   - TypeInv: what a goroutine can be in the middle of (Jobs): what kind of  *)
(*     row each operation writes, and what its second half is;               *)
(*   - InUse: a row that a goroutine holds, or has listed, is in the table;    *)
(*   - Alone: while no two operations of a user in a pair overlap, the row     *)
(*     that an operation works on is still what the operation took it for;     *)
(*   - PaidOnce: a position that has been paid is closed, or the goroutine    *)
(*     that paid it is about to close it;                                    *)
(*   - ExecutedOnce: an order that has been executed is marked, or the        *)
(*     goroutine that executed it is about to mark it, and no list from which  *)
(*     it could be executed again holds it;                                  *)
(*   - MarginInv: what is locked for a user is the sum, over the pairs, of    *)
(*     the margin of his open row, or of the row that an operation which has  *)
(*     moved the lock is about to save.                                      *)
(***************************************************************************)
EXTENDS Futures, SumTheorems, SequenceTheorems, TLAPS

-------------------------------------------------------------------------------
(* The inductive invariant.                                                  *)

Closings == {"close", "liquidate", "scan"}

Kinds == Closings \cup {"open", "partial", "add", "reduce", "funding"}

\* The second half of a netting: it will insert a row.
Later ==
    [at : {"reserve"}, kind : {"open"}, user : Users, pair : Pairs, id : {New}, row : Rows,
     unlock : Int, delta : Int, amount : Int, next : {Idle}, order : Orders \cup {None},
     verdict : {"filled"}]

Tasks ==
    [at : {"settle", "reserve", "save", "status"}, kind : Kinds, user : Users, pair : Pairs,
     id : Positions \cup {New}, row : Rows, unlock : Int, delta : Int, amount : Int,
     next : {Idle} \cup Later, order : Orders \cup {None}, verdict : {None, "filled", "cancelled"}]

Cancels ==
    [at : {"status"}, kind : {"cancel"}, user : Users, pair : Pairs, order : Orders,
     verdict : {"cancelled"}]

RowOf(j) == j.row.user = j.user /\ j.row.pair = j.pair

\* What kind of row an operation writes, and what its second half is.
Coherent(j) ==
    /\ RowOf(j)
    /\ j.id = New => j.kind = "open"
    /\ j.kind \in Closings => j.row.status \in {"closed", "liquidated"}
    /\ j.kind \notin Closings => j.row.status \in {"open", "liquidated"}
    /\ j.kind = "open" => j.row.status = "open"
    /\ j.at = "settle" => j.kind # "open"
    /\ j.at = "reserve" => j.kind = "open"
    /\ j.at = "status" => j.order # None /\ j.verdict # None
    /\ j.order # None => j.kind = "open" /\ j.next = Idle /\ (j.at # "status" => j.verdict = "filled")
    /\ j.next # Idle => /\ j.kind = "close" /\ j.at \in {"settle", "save"} /\ RowOf(j.next)
                        /\ j.next.user = j.user /\ j.next.pair = j.pair
                        /\ j.next.row.status = "open"

Jobs == {Idle} \cup {j \in Tasks : Coherent(j)} \cup Cancels

\* The job works on a row or for one.
AtWork(j) == j.at \in {"settle", "reserve", "save"}

\* The job inserts or enlarges a row, at once or in its second half.
Opens(j) == AtWork(j) /\ (j.kind = "open" \/ j.next # Idle)

TypeInv ==
    /\ price \in [Pairs -> Prices]
    /\ balance \in [Users -> Int] /\ locked \in [Users -> Nat]
    /\ pos \in [Positions -> Rows]
    /\ order \in [Orders -> {None, "open", "filled", "cancelled"}]
    /\ waiting \subseteq Requests /\ \A r \in waiting : job[r] = Idle
    /\ job \in [Workers -> Jobs]
    /\ sweep \in [Loops -> [phase : {"off", "orders", "levels", "liquidations"},
                            orders : SUBSET Orders, rows : SUBSET [id : Positions, row : Rows]]]
    /\ funding \in [Hourly -> [rows : SUBSET [id : Positions, row : Rows], runs : Nat]]
    \* What a loop opens, it opens for an order.
    /\ \A w \in Workers \ Requests : Opens(job[w]) => OrderOf(job[w]) # None
    \* An order that rests was accepted.
    /\ \A o \in Orders : order[o] = "open" => Acceptable(Ticket[o].terms)
    /\ \A l \in Loops : \A o \in sweep[l].orders : Acceptable(Ticket[o].terms)
    /\ moves \in Nat /\ trouble \in 0..MaxTrouble
    /\ paid \in [Positions -> Nat] /\ executed \in [Orders -> Seq(Workers)]

\* A row that a goroutine has in hand is a row of the table; one that is not
\* has not been paid out.
InUse ==
    /\ \A w \in Workers : AtWork(job[w]) /\ job[w].id # New => pos[job[w].id].status # None
    /\ \A l \in Loops : \A c \in sweep[l].rows : c.row.status = "open" /\ pos[c.id].status # None
    /\ \A h \in Hourly : \A c \in funding[h].rows : c.row.status = "open" /\ pos[c.id].status # None
    /\ \A p \in Positions : pos[p].status = None => paid[p] = 0

OpenIn(rows, u, pr) == {p \in Positions : rows[p].status = "open" /\ rows[p].user = u /\ rows[p].pair = pr}

\* What the row that a job works on still is when no operations overlap.
FitsIn(rows, j) ==
    /\ j.id # New =>
          /\ rows[j.id].user = j.user /\ rows[j.id].pair = j.pair
          /\ rows[j.id].status = IF j.kind \in Closings THEN "open" ELSE j.row.status
    /\ j.id = New => OpenIn(rows, j.user, j.pair) = {}
    /\ j.next # Idle => OpenIn(rows, j.user, j.pair) = {j.id}

Fits(j) == FitsIn(pos, j)

Alone ==
    "overlap" \notin lapses =>
        /\ \A v, w \in Workers :
               Busy(v) /\ Busy(w) /\ job[v].user = job[w].user /\ job[v].pair = job[w].pair => v = w
        /\ \A w \in Workers : AtWork(job[w]) => Fits(job[w])
        /\ \A p, q \in OpenPositions : pos[p].user = pos[q].user /\ pos[p].pair = pos[q].pair => p = q

\* A closing that has been paid and not saved.
ClosingNow(p) ==
    \E w \in Workers : job[w].at = "save" /\ job[w].id = p /\ job[w].kind \in Closings

\* The lapses after which a position may be paid twice.
PayTwice == {"overlap", "commit", "unsaved", "crash"}

PaidOnce ==
    lapses \cap PayTwice = {} =>
        \A p \in Positions : /\ paid[p] <= 1
                             /\ paid[p] = 1 => pos[p].status \in {"closed", "liquidated"} \/ ClosingNow(p)

\* The job is about to execute the order.
Executing(j, o) == AtWork(j) /\ OrderOf(j) = o

\* An order that rests is executed by loops, one of them at a time, and none that has
\* executed it will list it again; a market order is executed by its own request.
OrderOnce(o) ==
    /\ Len(executed[o]) <= 1
    /\ order[o] = None /\ Ticket[o].type = "limit" => executed[o] = <<>>
    /\ \A w \in Workers : Executing(job[w], o) =>
           /\ executed[o] = <<>>
           /\ Ticket[o].type = "limit" => w \in Loops /\ order[o] # None /\ o \notin sweep[w].orders
           /\ Ticket[o].type = "market" => w \in Requests /\ Ask[w].kind = "order" /\ Ask[w].order = o
           /\ \A v \in Workers : Executing(job[v], o) => v = w
    /\ \A i \in DOMAIN executed[o] :
           order[o] \in {"filled", "cancelled"} \/ (job[executed[o][i]].at = "status" /\ job[executed[o][i]].order = o)
    /\ Ticket[o].type = "market" =>
           /\ order[o] # "open"
           /\ \A r \in waiting : Ask[r].kind = "order" /\ Ask[r].order = o => executed[o] = <<>>
    /\ \A l \in Loops : o \in sweep[l].orders =>
           /\ Ticket[o].type = "limit" /\ order[o] # None
           /\ \A i \in DOMAIN executed[o] : executed[o][i] # l

\* The lapses after which an order may be executed twice.
ExecuteTwice == {"twice", "status", "crash"}

ExecutedOnce == lapses \cap ExecuteTwice = {} => \A o \in Orders : OrderOnce(o)

FuturesInv == TypeInv /\ InUse /\ Alone /\ PaidOnce /\ ExecutedOnce

-------------------------------------------------------------------------------
(* Numbers and identities.                                                  *)

\* Positions are the numbers from 1; the number 0 is none of them.
LEMMA PositionsAre == Positions \subseteq Nat \ {0} /\ New \notin Positions /\ IsFiniteSet(Positions)
<1>1. IsFiniteSet(Positions) /\ Positions = 1..Cardinality(Positions)
  BY FuturesAssumption
<1>2. Cardinality(Positions) \in Nat
  BY <1>1, FS_CardinalityType
<1> QED  BY <1>1, <1>2 DEF New

\* A finite set of numbers has a largest one.
LEMMA LargestExists ==
    ASSUME NEW S, IsFiniteSet(S), S \subseteq Nat, S # {}
    PROVE  \E p \in S : \A q \in S : q <= p
<1> DEFINE K == {T \in SUBSET S : T # {} => \E p \in T : \A q \in T : q <= p}
<1>1. {} \in K
  OBVIOUS
<1>2. ASSUME NEW T \in K, NEW x \in S \ T PROVE T \cup {x} \in K
  <2>1. CASE T = {}
    <3>1. x \in T \cup {x} /\ \A q \in T \cup {x} : q <= x
      BY <2>1
    <3> QED  BY <3>1
  <2>2. CASE T # {}
    <3>1. PICK p \in T : \A q \in T : q <= p
      BY <2>2
    <3>2. CASE x <= p
      BY <3>1, <3>2
    <3>3. CASE ~(x <= p)
      <4>1. \A q \in T \cup {x} : q <= x
        BY <3>1, <3>3
      <4> QED  BY <4>1
    <3> QED  BY <3>2, <3>3
  <2> QED  BY <2>1, <2>2
<1>3. S \in K
  <2> HIDE DEF K
  <2>1. K \in SUBSET SUBSET S
    BY DEF K
  <2> QED  BY <1>1, <1>2, <2>1, FiniteSetInduction
<1> QED  BY <1>3

\* A finite set of numbers has a smallest one.
LEMMA SmallestExists ==
    ASSUME NEW S, IsFiniteSet(S), S \subseteq Nat, S # {}
    PROVE  \E p \in S : \A q \in S : p <= q
<1> DEFINE K == {T \in SUBSET S : T # {} => \E p \in T : \A q \in T : p <= q}
<1>1. {} \in K
  OBVIOUS
<1>2. ASSUME NEW T \in K, NEW x \in S \ T PROVE T \cup {x} \in K
  <2>1. CASE T = {}
    <3>1. x \in T \cup {x} /\ \A q \in T \cup {x} : x <= q
      BY <2>1
    <3> QED  BY <3>1
  <2>2. CASE T # {}
    <3>1. PICK p \in T : \A q \in T : p <= q
      BY <2>2
    <3>2. CASE p <= x
      BY <3>1, <3>2
    <3>3. CASE ~(p <= x)
      <4>1. \A q \in T \cup {x} : x <= q
        BY <3>1, <3>3
      <4> QED  BY <4>1
    <3> QED  BY <3>2, <3>3
  <2> QED  BY <2>1, <2>2
<1>3. S \in K
  <2> HIDE DEF K
  <2>1. K \in SUBSET SUBSET S
    BY DEF K
  <2> QED  BY <1>1, <1>2, <2>1, FiniteSetInduction
<1> QED  BY <1>3

\* netPosition returns one of the open rows.
LEMMA NewestIn ==
    ASSUME NEW S \in SUBSET Positions, S # {}
    PROVE  Newest(S) \in S
<1>1. IsFiniteSet(S) /\ S \subseteq Nat
  BY PositionsAre, FS_Subset
<1>2. \E p \in S : \A q \in S : q <= p
  BY <1>1, LargestExists
<1> QED  BY <1>2 DEF Newest

\* An inserted row gets an identity that no row has.
LEMMA FreshIdIn == ASSUME Unused # {} PROVE FreshId \in Unused
<1>1. IsFiniteSet(Unused) /\ Unused \subseteq Nat
  BY PositionsAre, FS_Subset DEF Unused
<1>2. \E p \in Unused : \A q \in Unused : p <= q
  BY <1>1, SmallestExists
<1> QED  BY <1>2 DEF FreshId

\* A product of numbers is one, and so is a quotient.
LEMMA NaturalProduct == \A a, b \in Nat : a * b \in Nat
BY SMTT(30)

\* A number divided by one that is not zero is a number.
LEMMA NaturalQuotient == \A a \in Nat : \A b \in Nat \ {0} : a \div b \in Nat
BY SMTT(30)

\* An integer divided by a number that is not zero is an integer.
LEMMA IntegerQuotient == \A a \in Int : \A b \in Nat \ {0} : a \div b \in Int
BY SMTT(30)

\* The margin of an accepted order is a number (calcMargin).
LEMMA MarginType ==
    ASSUME NEW t \in Terms, Acceptable(t), NEW entry \in Nat
    PROVE  calcMargin(entry, t.qty, t.lev) \in Nat
<1>1. Unit \in Nat /\ t.qty \in Nat /\ t.lev \in Nat \ {0}
  <2>1. t.qty \in Nat /\ t.lev \in 1..125
    BY DEF Terms, Acceptable, MaxLeverage
  <2>2. Unit \in Nat
    BY FuturesAssumption
  <2> QED  BY <2>1, <2>2
<1>2. Unit * entry \in Nat
  BY <1>1, NaturalProduct
<1>3. Unit * entry * t.qty \in Nat
  BY <1>1, <1>2, NaturalProduct
<1> QED  BY <1>1, <1>3, NaturalQuotient DEF calcMargin

\* The profit of a row is an integer (calcFuturesPnL).
LEMMA ProfitType ==
    ASSUME NEW row \in Rows, NEW mark \in Nat
    PROVE  calcFuturesPnL(row, mark) \in Int
BY FuturesAssumption DEF calcFuturesPnL, Rows

\* What OpenPosition inserts is a row.
LEMMA FreshRowType ==
    ASSUME NEW t \in Terms, Acceptable(t), NEW entry \in Nat
    PROVE  FreshRow(entry, t) \in Rows
BY MarginType DEF FreshRow, Rows, Terms

\* What mergeSameSidePosition saves is a row.
LEMMA MergedType ==
    ASSUME NEW row \in Rows, NEW t \in Terms, Acceptable(t), NEW entry \in Nat
    PROVE  /\ Merged(row, entry, t) \in Rows
           /\ Merged(row, entry, t).status = row.status
           /\ Merged(row, entry, t).user = row.user
           /\ Merged(row, entry, t).pair = row.pair
<1>1. t.qty \in Nat /\ t.qty > 0 /\ row.qty \in Nat /\ row.entry \in Nat
  BY DEF Terms, Acceptable, Rows
<1>2. row.entry * row.qty \in Nat /\ entry * t.qty \in Nat
  BY <1>1, NaturalProduct
<1>3. row.entry * row.qty + entry * t.qty \in Nat /\ row.qty + t.qty \in Nat \ {0}
  BY <1>1, <1>2
<1>4. (row.entry * row.qty + entry * t.qty) \div (row.qty + t.qty) \in Nat
  BY <1>3, NaturalQuotient
<1>5. row.margin + calcMargin(entry, t.qty, t.lev) \in Int
  BY MarginType DEF Rows
<1> HIDE DEF calcMargin
<1> QED  BY <1>1, <1>3, <1>4, <1>5 DEF Merged, Rows

-------------------------------------------------------------------------------
(* Jobs.                                                                    *)

\* What a goroutine can be in the middle of, by the step that comes next.
LEMMA JobShape ==
    ASSUME NEW j \in Jobs
    PROVE  /\ j.at \in {"idle", "settle", "reserve", "save", "status"}
           /\ j = Idle <=> j.at = "idle"
           /\ AtWork(j) => j \in Tasks /\ Coherent(j)
           /\ j.at = "status" => /\ j.order \in Orders /\ j.user \in Users /\ j.pair \in Pairs
                                 /\ j.verdict \in {"filled", "cancelled"}
BY DEF Jobs, Idle, Tasks, Cancels, Coherent, AtWork

\* A step of an operation on a position only moves it on.
LEMMA TaskMoves ==
    ASSUME NEW j \in Jobs, AtWork(j), j.at # "save"
    PROVE  /\ [j EXCEPT !.at = "save"] \in Jobs
           /\ OrderOf([j EXCEPT !.at = "save"]) = OrderOf(j)
<1>1. j \in Tasks /\ Coherent(j) /\ [j EXCEPT !.at = "save"] \in Tasks
  BY JobShape DEF Tasks
<1> QED  BY <1>1 DEF Jobs, AtWork, Coherent, RowOf, OrderOf, Idle, Tasks


\* An operation on a position that has one (On).
LEMMA OnJob ==
    ASSUME NEW kind \in Kinds \ {"open"}, NEW p \in Positions, NEW row \in Rows,
           NEW unlock \in Int, NEW delta \in Int,
           row.status \in IF kind \in Closings THEN {"closed", "liquidated"} ELSE {"open", "liquidated"}
    PROVE  LET j == On(kind, p, row, unlock, delta) IN
           /\ j \in Jobs /\ AtWork(j) /\ j.at = "settle" /\ j.kind = kind /\ j.id = p /\ j.row = row
           /\ j.user = row.user /\ j.pair = row.pair /\ j.next = Idle /\ OrderOf(j) = None
<1> DEFINE j == On(kind, p, row, unlock, delta)
<1>1. j \in Tasks
  BY DEF On, Tasks, Rows, Kinds, Closings
<1>2. p # New
  BY PositionsAre
<1>3. Coherent(j)
  BY <1>2 DEF On, Coherent, RowOf, Closings
<1> QED  BY <1>1, <1>3 DEF Jobs, On, AtWork, OrderOf, Idle

\* A reservation for the row of position p, or for a new one.
IsAdding(j, p, row, o) ==
    /\ j \in Jobs /\ AtWork(j) /\ j.at = "reserve" /\ j.kind = "open" /\ j.id = p /\ j.row = row
    /\ j.user = row.user /\ j.pair = row.pair /\ j.next = Idle /\ j.order = o /\ OrderOf(j) = o
    /\ p = New => j \in Later

\* What netPosition leads to is one (Adding).
LEMMA AddingJob ==
    ASSUME NEW p \in Positions \cup {New}, NEW row \in Rows, NEW t \in Terms, Acceptable(t),
           NEW entry \in Nat, NEW o \in Orders \cup {None}, row.status = "open"
    PROVE  IsAdding(Adding(p, row, entry, t, o), p, row, o)
<1> DEFINE j == Adding(p, row, entry, t, o)
<1>0. calcMargin(entry, t.qty, t.lev) \in Int
  BY MarginType
<1> DEFINE base == On("open", p, row, 0, 0)
<1>1. /\ base.kind = "open" /\ base.id = p /\ base.row = row /\ base.user = row.user /\ base.pair = row.pair
      /\ base.next = Idle
  BY DEF On
<1>2. row.user \in Users /\ row.pair \in Pairs
  BY DEF Rows
<1>3. base \in Tasks
  BY <1>2 DEF On, Tasks, Kinds
<1> HIDE DEF base, calcMargin
<1>4. j = [base EXCEPT !.at = "reserve", !.amount = calcMargin(entry, t.qty, t.lev),
                       !.order = o, !.verdict = "filled"]
  BY Zenon DEF Adding, base
<1> HIDE DEF j
<1>5. j \in Tasks
  BY <1>0, <1>3, <1>4 DEF Tasks
<1>6. /\ j.at = "reserve" /\ j.kind = "open" /\ j.id = p /\ j.row = row
      /\ j.user = row.user /\ j.pair = row.pair /\ j.next = Idle /\ j.order = o /\ j.verdict = "filled"
  BY <1>1, <1>3, <1>4 DEF Tasks
<1>7. Coherent(j)
  BY <1>6 DEF Coherent, RowOf, Closings
<1>8. p = New => j \in Later
  BY <1>5, <1>6 DEF Tasks, Later
<1>9. j \in Jobs /\ AtWork(j) /\ OrderOf(j) = o
  BY <1>5, <1>6, <1>7 DEF Jobs, AtWork, OrderOf, Idle
<1>10. IsAdding(j, p, row, o)
  BY <1>6, <1>8, <1>9 DEF IsAdding
<1> QED  BY <1>10 DEF j

\* What is known of the rows whenever an operation begins.
RowsTyped == price \in [Pairs -> Prices] /\ pos \in [Positions -> Rows]

OnePerPair == \A p, q \in OpenPositions : pos[p].user = pos[q].user /\ pos[p].pair = pos[q].pair => p = q

\* An operation j of the user in the pair of t that is about to begin.
Begun(j, u, pr, o) ==
    /\ j \in Jobs /\ AtWork(j) /\ j.user = u /\ j.pair = pr /\ OrderOf(j) = o
    /\ j.id # New => pos[j.id].status # None
    /\ OnePerPair => Fits(j)

\* A price of the feed is a number.
LEMMA PriceType == ASSUME RowsTyped, NEW pr \in Pairs PROVE liveMarkPrice(pr) \in Nat
BY FuturesAssumption DEF RowsTyped, liveMarkPrice

\* An order or a request to open finds the newest open position of the user in
\* the pair, or none; of two operations that a netting makes the second inserts.
LEMMA NettingJob ==
    ASSUME RowsTyped, NEW t \in Terms, Acceptable(t), NEW entry \in Nat,
           NEW o \in Orders \cup {None}
    PROVE  Begun(Netting(t, entry, o), t.user, t.pair, o)
<1> DEFINE j == Netting(t, entry, o)
           first == FreshRow(entry, t)
           fresh == Adding(New, first, entry, t, o)
<1> SUFFICES Begun(j, t.user, t.pair, o)
  OBVIOUS
<1>0. first \in Rows /\ first.status = "open" /\ first.user = t.user /\ first.pair = t.pair
  BY FreshRowType DEF FreshRow
<1>1. /\ fresh \in Jobs /\ AtWork(fresh) /\ fresh.at = "reserve" /\ fresh.kind = "open" /\ fresh.id = New
      /\ fresh.row = first /\ fresh.user = t.user /\ fresh.pair = t.pair /\ fresh.next = Idle
      /\ fresh.order = o /\ OrderOf(fresh) = o /\ fresh \in Later
  <2> HIDE DEF first
  <2>1. New \in Positions \cup {New}
    OBVIOUS
  <2>2. IsAdding(fresh, New, first, o)
    BY <1>0, <2>1, AddingJob
  <2> QED  BY <1>0, <2>2 DEF IsAdding
<1>2. CASE NetPosition(t) = {}
  <2>1. j = fresh
    BY <1>2 DEF Netting
  <2>2. OpenIn(pos, t.user, t.pair) = {}
    BY <1>2 DEF NetPosition, OpenIn, OpenPositions
  <2> HIDE DEF j, fresh
  <2> QED  BY <1>1, <2>1, <2>2 DEF Begun, Fits, FitsIn
<1>3. CASE NetPosition(t) # {}
  <2> DEFINE p == Newest(NetPosition(t))
  <2>1. p \in NetPosition(t)
    BY <1>3, NewestIn DEF NetPosition, OpenPositions
  <2> HIDE DEF p
  <2>2. /\ p \in Positions /\ p # New /\ pos[p] \in Rows /\ pos[p].status = "open"
        /\ pos[p].user = t.user /\ pos[p].pair = t.pair
    BY <2>1, PositionsAre DEF NetPosition, OpenPositions, RowsTyped
  <2>3. OnePerPair => OpenIn(pos, t.user, t.pair) = {p}
    BY <2>1 DEF OnePerPair, OpenIn, NetPosition, OpenPositions
  <2>4. CASE pos[p].side = t.side
    <3>1. j = Adding(p, Merged(pos[p], entry, t), entry, t, o)
      BY <1>3, <2>4 DEF Netting, p
    <3>2. /\ Merged(pos[p], entry, t) \in Rows /\ Merged(pos[p], entry, t).status = "open"
          /\ Merged(pos[p], entry, t).user = t.user /\ Merged(pos[p], entry, t).pair = t.pair
      BY <2>2, MergedType
    <3>3. /\ j \in Jobs /\ AtWork(j) /\ j.at = "reserve" /\ j.kind = "open" /\ j.id = p
          /\ j.user = t.user /\ j.pair = t.pair /\ j.next = Idle /\ OrderOf(j) = o
          /\ j.row.status = "open"
      <4>1. IsAdding(j, p, Merged(pos[p], entry, t), o)
        BY <2>2, <3>1, <3>2, AddingJob
      <4> QED  BY <3>2, <4>1 DEF IsAdding
    <3> HIDE DEF j
    <3> QED  BY <2>2, <3>3 DEF Begun, Fits, FitsIn, Closings, None
  <2>5. CASE pos[p].side # t.side
    <3> DEFINE c == Closing(p, pos[p], liveMarkPrice(t.pair))
               row == [pos[p] EXCEPT !.status = "closed"]
    <3>1. j = [c EXCEPT !.next = fresh]
      BY <1>3, <2>5 DEF Netting, p
    <3>2. row \in Rows /\ row.status = "closed" /\ row.user = t.user /\ row.pair = t.pair
      BY <2>2 DEF Rows
    <3>3. liveMarkPrice(t.pair) \in Nat
      BY PriceType DEF Terms
    <3>4. pos[p].margin \in Int /\ calcFuturesPnL(pos[p], liveMarkPrice(t.pair)) \in Int
      BY <2>2, <3>3, ProfitType DEF Rows
    <3>5. /\ c \in Jobs /\ AtWork(c) /\ c.at = "settle" /\ c.kind = "close" /\ c.id = p /\ c.row = row
          /\ c.user = t.user /\ c.pair = t.pair /\ c.next = Idle /\ OrderOf(c) = None
      <4> HIDE DEF row, calcFuturesPnL, liveMarkPrice
      <4>1. "close" \in Kinds \ {"open"} /\ "close" \in Closings
        BY DEF Kinds, Closings
      <4>2. row.status \in IF "close" \in Closings THEN {"closed", "liquidated"} ELSE {"open", "liquidated"}
        BY <3>2, <4>1
      <4>3. c = On("close", p, row, pos[p].margin, calcFuturesPnL(pos[p], liveMarkPrice(t.pair)))
        BY DEF Closing, row
      <4> HIDE DEF c
      <4> QED  BY <2>2, <3>2, <3>4, <4>1, <4>2, <4>3, OnJob
    <3> HIDE DEF c, fresh, row
    <3>6. c \in Tasks /\ Coherent(c) /\ fresh \in Tasks /\ Coherent(fresh)
      BY <1>1, <3>5, JobShape
    <3>7. /\ j \in Tasks /\ j.at = "settle" /\ j.kind = "close" /\ j.id = p /\ j.row = row /\ j.next = fresh
          /\ j.user = t.user /\ j.pair = t.pair /\ j.order = c.order
      BY <1>1, <3>1, <3>5, <3>6 DEF Tasks
    <3>8. Coherent(j)
      BY <1>1, <3>2, <3>5, <3>6, <3>7, <2>2 DEF Coherent, RowOf, Closings, OrderOf, Idle
    <3>9. fresh # Idle
      BY <1>1 DEF Idle
    <3> HIDE DEF j
    <3>10. OrderOf(j) = o
      BY <1>1, <3>7, <3>9 DEF OrderOf, Idle
    <3>11. j \in Jobs /\ AtWork(j)
      BY <3>7, <3>8 DEF Jobs, AtWork
    <3> QED  BY <2>2, <2>3, <3>7, <3>10, <3>11 DEF Begun, Fits, FitsIn, Closings, None
  <2> QED  BY <2>4, <2>5
<1> QED  BY <1>2, <1>3

\* Levels do not change what an operation is about.
LEMMA LevelsJob ==
    ASSUME NEW j, NEW u, NEW pr, NEW o, NEW tp \in Nat, NEW sl \in Nat, Begun(j, u, pr, o)
    PROVE  Begun([j EXCEPT !.row.tp = tp, !.row.sl = sl], u, pr, o)
<1> DEFINE k == [j EXCEPT !.row.tp = tp, !.row.sl = sl]
<1>1. j \in Tasks /\ Coherent(j) /\ AtWork(j)
  BY JobShape DEF Begun
<1>2. k \in Tasks
  BY <1>1 DEF Tasks, Rows
<1>3. Coherent(k)
  BY <1>1 DEF Coherent, RowOf, Tasks, Rows
<1>4. k \in Jobs /\ AtWork(k) /\ OrderOf(k) = OrderOf(j)
  BY <1>1, <1>2, <1>3 DEF Jobs, AtWork, OrderOf, Idle, Tasks
<1> QED  BY <1>1, <1>4 DEF Begun, Fits, FitsIn, Tasks, Rows

-------------------------------------------------------------------------------
(* How an operation begins.                                                 *)

\* A goroutine that was in no operation begins one, for the order o or none.
Starts(w, o) ==
    /\ job[w] = Idle
    /\ \E j \in Jobs \ {Idle} : \E stale \in BOOLEAN :
           /\ job' = [job EXCEPT ![w] = j]
           /\ lapses \cup Overlaps(w, j.user, j.pair, stale) \subseteq lapses'
           /\ AtWork(j) => /\ OrderOf(j) = o /\ (o = None /\ w \notin Requests => ~Opens(j))
                           /\ j.id # New => pos[j.id].status # None
                           /\ OnePerPair /\ ~stale => Fits(j)

\* The rows typed when everything is.
LEMMA TypeRows == ASSUME TypeInv PROVE RowsTyped
BY DEF TypeInv, RowsTyped

\* An operation on a position begins.
LEMMA StartOn ==
    ASSUME TypeInv, NEW w \in Workers, job[w] = Idle, NEW kind \in Kinds \ {"open"},
           NEW p \in Positions, NEW row \in Rows, NEW unlock \in Int, NEW delta \in Int,
           NEW stale \in BOOLEAN,
           row.status \in IF kind \in Closings THEN {"closed", "liquidated"} ELSE {"open", "liquidated"},
           pos[p].status # None,
           ~stale => /\ pos[p].user = row.user /\ pos[p].pair = row.pair
                     /\ pos[p].status = IF kind \in Closings THEN "open" ELSE row.status,
           Begin(w, On(kind, p, row, unlock, delta), stale)
    PROVE  Starts(w, None)
<1> DEFINE j == On(kind, p, row, unlock, delta)
<1>1. /\ j \in Jobs /\ AtWork(j) /\ j.at = "settle" /\ j.kind = kind /\ j.id = p /\ j.row = row
      /\ j.user = row.user /\ j.pair = row.pair /\ j.next = Idle /\ OrderOf(j) = None
  BY OnJob
<1>2. job' = [job EXCEPT ![w] = j] /\ lapses' = lapses \cup Overlaps(w, j.user, j.pair, stale)
  BY DEF Begin
<1> HIDE DEF j
<1>3. j # Idle
  BY <1>1 DEF Idle
<1>4. p # New
  BY PositionsAre
<1>5. ~stale => Fits(j)
  BY <1>1, <1>4 DEF Fits, FitsIn
<1>6. ~Opens(j)
  BY <1>1 DEF Opens
<1> QED  BY <1>1, <1>2, <1>3, <1>5, <1>6 DEF Starts

\* An operation that a netting chose begins.
LEMMA StartBegun ==
    ASSUME NEW w \in Workers, job[w] = Idle, NEW j, NEW u, NEW pr, NEW o, NEW stale \in BOOLEAN,
           o # None \/ w \in Requests,
           Begun(j, u, pr, o), job' = [job EXCEPT ![w] = j],
           lapses \cup Overlaps(w, u, pr, stale) \subseteq lapses'
    PROVE  Starts(w, o)
<1>1. j # Idle
  BY DEF Begun, AtWork, Idle
<1> QED  BY <1>1 DEF Begun, Starts

\* The row of a position that is closed or liquidated.
LEMMA ClosedRow ==
    ASSUME NEW row \in Rows, NEW st \in {"closed", "liquidated"}
    PROVE  LET r == [row EXCEPT !.status = st] IN
           r \in Rows /\ r.status = st /\ r.user = row.user /\ r.pair = row.pair
BY DEF Rows

\* The row of a position with another size and margin.
LEMMA ChangedRow ==
    ASSUME NEW row \in Rows, NEW m \in Int
    PROVE  LET r == [row EXCEPT !.margin = m] IN
           r \in Rows /\ r.status = row.status /\ r.user = row.user /\ r.pair = row.pair
BY DEF Rows

\* The row of a position with another size and margin.
LEMMA ReducedRow ==
    ASSUME NEW row \in Rows, NEW q \in Nat, NEW m \in Int
    PROVE  LET r == [row EXCEPT !.qty = q, !.margin = m] IN
           r \in Rows /\ r.status = row.status /\ r.user = row.user /\ r.pair = row.pair
BY DEF Rows

\* closePosition begins, from a handler or from a copy.
LEMMA StartClosing ==
    ASSUME TypeInv, NEW w \in Workers, job[w] = Idle, NEW p \in Positions, NEW row \in Rows,
           NEW mark \in Nat, NEW stale \in BOOLEAN, row.status = "open",
           pos[p].status # None, ~stale => pos[p] = row, Begin(w, Closing(p, row, mark), stale)
    PROVE  Starts(w, None)
<1> DEFINE closed == [row EXCEPT !.status = "closed"]
<1>1. closed \in Rows /\ closed.status = "closed" /\ closed.user = row.user /\ closed.pair = row.pair
  BY ClosedRow
<1>2. row.margin \in Int /\ calcFuturesPnL(row, mark) \in Int
  BY ProfitType DEF Rows
<1>3. Begin(w, On("close", p, closed, row.margin, calcFuturesPnL(row, mark)), stale)
  BY DEF Closing
<1>4. "close" \in Kinds \ {"open"} /\ "close" \in Closings
  BY DEF Kinds, Closings
<1> HIDE DEF closed
<1> QED  BY <1>1, <1>2, <1>3, <1>4, StartOn

\* A liquidation begins, from a handler or from a copy.
LEMMA StartLiquidation ==
    ASSUME TypeInv, NEW w \in Workers, job[w] = Idle, NEW p \in Positions, NEW row \in Rows,
           NEW kind \in {"liquidate", "scan"}, NEW stale \in BOOLEAN, row.status = "open",
           pos[p].status # None, ~stale => pos[p] = row, Begin(w, Liquidation(kind, p, row), stale)
    PROVE  Starts(w, None)
<1> DEFINE closed == [row EXCEPT !.status = "liquidated"]
<1>1. closed \in Rows /\ closed.status = "liquidated" /\ closed.user = row.user /\ closed.pair = row.pair
  BY ClosedRow
<1>2. row.margin \in Int /\ -row.margin \in Int
  BY DEF Rows
<1>3. Begin(w, On(kind, p, closed, row.margin, -row.margin), stale)
  BY DEF Liquidation
<1>4. kind \in Kinds \ {"open"} /\ kind \in Closings
  BY DEF Kinds, Closings
<1> HIDE DEF closed
<1> QED  BY <1>1, <1>2, <1>3, <1>4, StartOn

\* A request that waits is in no operation yet.
LEMMA WaitingIdle ==
    ASSUME TypeInv, NEW r \in Requests, NEW kind, Take(r, kind)
    PROVE  r \in Workers /\ job[r] = Idle
BY DEF TypeInv, Take, Workers

\* ClosePosition, LiquidatePosition, AddMargin, ReduceMargin and a partial close
\* begin an operation on the row as it is.
LEMMA PositionHandlerStarts ==
    ASSUME TypeInv, NEW r \in Requests, NEW p \in Positions,
           \/ ClosePosition(r, p) \/ ClosePositionPartial(r, p) \/ AddMargin(r, p)
           \/ ReduceMargin(r, p) \/ LiquidatePosition(r, p)
    PROVE  Starts(r, None)
<1> DEFINE row == pos[p]
           amt == Ask[r].amount
           mark == liveMarkPrice(row.pair)
<1>0. row \in Rows
  BY DEF TypeInv
<1>1. mark \in Nat /\ row.margin \in Int /\ row.qty \in Nat /\ calcFuturesPnL(row, mark) \in Int
  <2>1. row.pair \in Pairs /\ row.margin \in Int /\ row.qty \in Nat
    BY <1>0 DEF Rows
  <2>2. mark \in Nat
    BY <2>1, TypeRows, PriceType
  <2> QED  BY <1>0, <2>1, <2>2, ProfitType
<1>2. r \in Workers /\ job[r] = Idle
  BY WaitingIdle DEF ClosePosition, ClosePositionPartial, AddMargin, ReduceMargin,
     LiquidatePosition, TakeFor
<1>3. CASE ClosePosition(r, p)
  <2>1. row.status = "open" /\ Begin(r, Closing(p, row, mark), FALSE)
    BY <1>3 DEF ClosePosition, TakeFor
  <2> QED  BY <1>0, <1>1, <1>2, <2>1, StartClosing DEF None
<1>4. CASE ClosePositionPartial(r, p)
  <2> DEFINE margin == (row.margin * amt) \div row.qty
             pnl == (calcFuturesPnL(row, mark) * amt) \div row.qty
             less == [row EXCEPT !.qty = @ - amt, !.margin = @ - margin]
  <2>1. row.status = "open" /\ amt \in 1..row.qty
    BY <1>4 DEF ClosePositionPartial, TakeFor
  <2>2. CASE amt = row.qty
    <3>1. Begin(r, Closing(p, row, mark), FALSE)
      BY <1>4, <2>2 DEF ClosePositionPartial
    <3> QED  BY <1>0, <1>1, <1>2, <2>1, <3>1, StartClosing DEF None
  <2>3. CASE amt # row.qty
    <3>1. Begin(r, On("partial", p, less, margin, pnl), FALSE)
      BY <1>4, <2>3 DEF ClosePositionPartial
    <3>2. row.margin * amt \in Int /\ calcFuturesPnL(row, mark) * amt \in Int /\ row.qty \in Nat \ {0}
      BY <1>1, <2>1
    <3>3. margin \in Int /\ pnl \in Int
      BY <3>2, IntegerQuotient
    <3> HIDE DEF margin, pnl
    <3>4. row.qty - amt \in Nat /\ row.margin - margin \in Int
      BY <1>1, <2>1, <3>3
    <3>5. less \in Rows /\ less.status = "open" /\ less.user = row.user /\ less.pair = row.pair
      <4>1. PICK q, m : q = row.qty - amt /\ m = row.margin - margin
        OBVIOUS
      <4>2. less = [row EXCEPT !.qty = q, !.margin = m]
        BY <4>1
      <4> HIDE DEF less
      <4>3. q \in Nat /\ m \in Int
        BY <3>4, <4>1
      <4>4. PICK s : s = [row EXCEPT !.qty = q, !.margin = m]
        OBVIOUS
      <4>5. s \in Rows /\ s.status = row.status /\ s.user = row.user /\ s.pair = row.pair
        <5>1. PICK r0 : r0 = row
          OBVIOUS
        <5>2. r0 \in Rows /\ s = [r0 EXCEPT !.qty = q, !.margin = m]
          BY <1>0, <4>4, <5>1
        <5>3. s \in Rows /\ s.status = r0.status /\ s.user = r0.user /\ s.pair = r0.pair
          BY <4>3, <5>2, ReducedRow
        <5> QED  BY <5>1, <5>3
      <4> QED  BY <2>1, <4>2, <4>4, <4>5
    <3>6. "partial" \in Kinds \ {"open"} /\ "partial" \notin Closings
      BY DEF Kinds, Closings
    <3> HIDE DEF less
    <3> QED  BY <1>2, <2>1, <3>1, <3>3, <3>5, <3>6, StartOn DEF None
  <2> QED  BY <2>2, <2>3
<1>5. CASE AddMargin(r, p)
  <2> DEFINE more == [row EXCEPT !.margin = @ + amt]
  <2>1. row.status \in {"open", "liquidated"} /\ Begin(r, On("add", p, more, 0, -amt), FALSE)
    BY <1>5 DEF AddMargin, TakeFor
  <2>2. amt \in Nat
    BY <1>5, FuturesAssumption DEF AddMargin, TakeFor, Take, OnPosition
  <2>3. more \in Rows /\ more.status = row.status /\ more.user = row.user /\ more.pair = row.pair
    <3>1. row.margin + amt \in Int
      BY <1>1, <2>2
    <3> QED  BY <1>0, <3>1, ChangedRow
  <2>4. "add" \in Kinds \ {"open"} /\ "add" \notin Closings /\ 0 \in Int /\ -amt \in Int
    BY <2>2 DEF Kinds, Closings
  <2> HIDE DEF more
  <2> QED  BY <1>2, <2>1, <2>3, <2>4, StartOn DEF None
<1>6. CASE ReduceMargin(r, p)
  <2> DEFINE less == [row EXCEPT !.margin = @ - amt]
  <2>1. row.status \in {"open", "liquidated"} /\ Begin(r, On("reduce", p, less, 0, amt), FALSE)
    BY <1>6 DEF ReduceMargin, TakeFor
  <2>2. amt \in Nat
    BY <1>6, FuturesAssumption DEF ReduceMargin, TakeFor, Take, OnPosition
  <2>3. less \in Rows /\ less.status = row.status /\ less.user = row.user /\ less.pair = row.pair
    BY <1>0, <1>1, <2>2, ChangedRow
  <2>4. "reduce" \in Kinds \ {"open"} /\ "reduce" \notin Closings /\ 0 \in Int /\ amt \in Int
    BY <2>2 DEF Kinds, Closings
  <2> HIDE DEF less
  <2> QED  BY <1>2, <2>1, <2>3, <2>4, StartOn DEF None
<1>7. CASE LiquidatePosition(r, p)
  <2>1. row.status = "open" /\ Begin(r, Liquidation("liquidate", p, row), FALSE)
    BY <1>7 DEF LiquidatePosition, TakeFor
  <2> QED  BY <1>0, <1>2, <2>1, StartLiquidation DEF None
<1> QED  BY <1>3, <1>4, <1>5, <1>6, <1>7

\* The handlers of a position.
HandlesPosition(r) ==
    \E p \in Positions :
        \/ ClosePosition(r, p) \/ ClosePositionPartial(r, p) \/ AddMargin(r, p)
        \/ ReduceMargin(r, p) \/ LiquidatePosition(r, p)

\* They take the request, begin an operation, and leave all else alone.
LEMMA PositionHandlersStart ==
    ASSUME TypeInv, NEW r \in Requests, HandlesPosition(r)
    PROVE  /\ Starts(r, None)
           /\ \E kind : Take(r, kind)
           /\ UNCHANGED <<price, walletVars, pos, order, loopVars, paid, executed, trouble, moves>>
<1>1. PICK p \in Positions :
        \/ ClosePosition(r, p) \/ ClosePositionPartial(r, p) \/ AddMargin(r, p)
        \/ ReduceMargin(r, p) \/ LiquidatePosition(r, p)
  BY DEF HandlesPosition
<1>2. Starts(r, None)
  BY <1>1, PositionHandlerStarts
<1>3. \E kind, st : TakeFor(r, kind, p, st)
  BY <1>1 DEF ClosePosition, ClosePositionPartial, AddMargin, ReduceMargin, LiquidatePosition
<1> QED  BY <1>2, <1>3 DEF TakeFor

\* OpenPosition begins the operation that netting finds, unless it refuses.
LEMMA OpenStarts ==
    ASSUME TypeInv, NEW r \in Requests, OpenPosition(r)
    PROVE  UNCHANGED <<job, lapses>> \/ Starts(r, None)
<1> DEFINE t == Ask[r].terms
           entry == IF t.price > 0 THEN t.price ELSE liveMarkPrice(t.pair)
           j == Netting(t, entry, None)
<1>1. CASE ~Acceptable(t)
  BY <1>1 DEF OpenPosition
<1>2. CASE Acceptable(t)
  <2>1. t \in Terms
    BY FuturesAssumption DEF OpenPosition, Take, OnPosition
  <2>2. entry \in Nat
    <3>1. t.pair \in Pairs /\ t.price \in Nat
      BY <2>1 DEF Terms
    <3> QED  BY <3>1, TypeRows, PriceType
  <2> HIDE DEF entry
  <2>3. Begun(j, t.user, t.pair, None)
    BY <1>2, <2>1, <2>2, TypeRows, NettingJob
  <2>4. Begun(GivenLevels(j, t), t.user, t.pair, None)
    <3> HIDE DEF j
    <3>1. CASE ~IsMerge(j)
      BY <2>3, <3>1 DEF GivenLevels
    <3>2. CASE IsMerge(j)
      <4> DEFINE tp == IF t.tp > 0 THEN t.tp ELSE j.row.tp
                 sl == IF t.sl > 0 THEN t.sl ELSE j.row.sl
      <4>1. j \in Tasks
        BY <2>3, JobShape DEF Begun
      <4>2. tp \in Nat /\ sl \in Nat
        BY <2>1, <4>1 DEF Terms, Tasks, Rows
      <4>3. GivenLevels(j, t) = [j EXCEPT !.row.tp = tp, !.row.sl = sl]
        BY <3>2, <4>1 DEF GivenLevels, Tasks, Rows
      <4> HIDE DEF tp, sl
      <4>4. Begun([j EXCEPT !.row.tp = tp, !.row.sl = sl], t.user, t.pair, None)
        BY <2>3, <4>2, LevelsJob
      <4> QED  BY <4>3, <4>4, Zenon
    <3> QED  BY <3>1, <3>2
  <2>5. r \in Workers /\ job[r] = Idle
    BY WaitingIdle DEF OpenPosition
  <2>6. Begin(r, GivenLevels(j, t), FALSE)
    BY <1>2 DEF OpenPosition, entry
  <2> HIDE DEF j
  <2>7. GivenLevels(j, t).user = t.user /\ GivenLevels(j, t).pair = t.pair
    BY <2>4 DEF Begun
  <2> QED  BY <2>4, <2>5, <2>6, <2>7, StartBegun DEF Begin
<1> QED  BY <1>1, <1>2

\* A market order begins the operation that netting finds, as its own or, merged
\* into a position, as no order's.
LEMMA MarketOrderStarts ==
    ASSUME TypeInv, NEW r \in Requests, CreateMarketOrder(r)
    PROVE  UNCHANGED <<job, lapses>> \/ Starts(r, None) \/ Starts(r, Ask[r].order)
<1> DEFINE o == Ask[r].order
           t == Ticket[o].terms
           n == Netting(t, liveMarkPrice(t.pair), o)
           j == OrderLevels(n, t)
<1>1. CASE ~Acceptable(t)
  BY <1>1 DEF CreateMarketOrder
<1>2. CASE Acceptable(t)
  <2>1. o \in Orders
    BY FuturesAssumption DEF CreateMarketOrder, Take, OnPosition
  <2>2. t \in Terms
    BY <2>1, FuturesAssumption
  <2>3. t.tp \in Nat /\ t.sl \in Nat /\ liveMarkPrice(t.pair) \in Nat
    BY <2>2, TypeRows, PriceType DEF Terms
  <2>4. Begun(n, t.user, t.pair, o)
    BY <1>2, <2>1, <2>2, <2>3, TypeRows, NettingJob
  <2>5. r \in Workers /\ job[r] = Idle
    BY WaitingIdle DEF CreateMarketOrder
  <2>6. Begin(r, IF IsMerge(j) THEN [j EXCEPT !.order = None] ELSE j, FALSE)
    BY <1>2 DEF CreateMarketOrder
  <2> HIDE DEF n
  <2>7. Begun(j, t.user, t.pair, o)
    BY <2>3, <2>4, LevelsJob DEF OrderLevels
  <2> HIDE DEF j
  <2>8. CASE ~IsMerge(j)
    <3>1. j.user = t.user /\ j.pair = t.pair
      BY <2>7 DEF Begun
    <3> QED  BY <2>5, <2>6, <2>7, <2>8, <3>1, StartBegun DEF Begin
  <2>9. CASE IsMerge(j)
    <3> DEFINE k == [j EXCEPT !.order = None]
    <3>1. j \in Tasks /\ Coherent(j) /\ AtWork(j) /\ j.kind = "open"
      BY <2>7, <2>9, JobShape DEF Begun, IsMerge
    <3>2. k \in Tasks /\ Coherent(k)
      BY <3>1 DEF Tasks, Coherent, RowOf, AtWork
    <3>3. k.next = Idle
      BY <3>1 DEF Coherent, Tasks
    <3>4. k \in Jobs /\ AtWork(k) /\ OrderOf(k) = None /\ k.user = t.user /\ k.pair = t.pair
      BY <2>7, <3>1, <3>2, <3>3 DEF Jobs, AtWork, OrderOf, Idle, Tasks, Begun
    <3>5. Begun(k, t.user, t.pair, None)
      BY <2>7, <3>1, <3>4 DEF Begun, Fits, FitsIn, Tasks
    <3>6. Begin(r, k, FALSE)
      BY <2>6, <2>9
    <3> HIDE DEF k
    <3> QED  BY <2>5, <3>4, <3>5, <3>6, StartBegun DEF Begin
  <2> QED  BY <2>8, <2>9
<1> QED  BY <1>1, <1>2

\* CancelOrder begins to write the status.
LEMMA CancelStarts ==
    ASSUME TypeInv, NEW r \in Requests, CancelOrder(r)
    PROVE  \/ UNCHANGED <<job, lapses>>
           \/ /\ Starts(r, None) /\ job'[r].at = "status"
<1> DEFINE o == Ask[r].order
           t == Ticket[o].terms
           j == [at |-> "status", kind |-> "cancel", user |-> t.user, pair |-> t.pair,
                 order |-> o, verdict |-> "cancelled"]
<1>1. CASE order[o] # "open"
  BY <1>1 DEF CancelOrder
<1>2. CASE order[o] = "open"
  <2>1. o \in Orders
    BY FuturesAssumption DEF CancelOrder, Take, OnPosition
  <2>2. t \in Terms
    BY <2>1, FuturesAssumption
  <2>3. j \in Jobs /\ j # Idle /\ ~AtWork(j)
    BY <2>1, <2>2 DEF Jobs, Cancels, AtWork, Idle, Terms
  <2>4. r \in Workers /\ job[r] = Idle
    BY WaitingIdle DEF CancelOrder
  <2>5. Begin(r, j, FALSE) /\ j.at = "status"
    BY <1>2 DEF CancelOrder
  <2> HIDE DEF j
  <2>6. Starts(r, None)
    BY <2>3, <2>4, <2>5 DEF Starts, Begin
  <2>7. job'[r] = j
    BY <2>4, <2>5 DEF Begin, TypeInv
  <2> QED  BY <2>5, <2>6, <2>7
<1> QED  BY <1>1, <1>2

\* ProcessOrders begins the operation that netting finds for the order.
LEMMA ProcessOrderStarts ==
    ASSUME TypeInv, NEW l \in Loops, NEW o \in Orders, ProcessOrder(l, o)
    PROVE  UNCHANGED <<job, lapses>> \/ Starts(l, o)
<1> DEFINE t == Ticket[o].terms
           n == Netting(t, liveMarkPrice(t.pair), o)
           j == OrderLevels(n, t)
<1>1. CASE ~Triggered(o)
  BY <1>1 DEF ProcessOrder
<1>2. CASE Triggered(o)
  <2>1. Acceptable(t) /\ l \in Workers /\ job[l] = Idle
    BY DEF TypeInv, ProcessOrder, LoopIdle, Workers
  <2>2. t \in Terms
    BY FuturesAssumption
  <2>3. t.tp \in Nat /\ t.sl \in Nat /\ liveMarkPrice(t.pair) \in Nat
    BY <2>2, TypeRows, PriceType DEF Terms
  <2>4. Begun(n, t.user, t.pair, o)
    BY <2>1, <2>2, <2>3, TypeRows, NettingJob
  <2>5. /\ job' = [job EXCEPT ![l] = j]
        /\ lapses \cup Overlaps(l, t.user, t.pair, order[o] # "open") \subseteq lapses'
    BY <1>2 DEF ProcessOrder
  <2> HIDE DEF n
  <2>6. Begun(j, t.user, t.pair, o)
    BY <2>3, <2>4, LevelsJob DEF OrderLevels
  <2>7. (order[o] # "open") \in BOOLEAN
    OBVIOUS
  <2>8. o # None \/ l \in Requests
    BY FuturesAssumption
  <2> HIDE DEF j
  <2> QED  BY <2>1, <2>5, <2>6, <2>7, <2>8, StartBegun
<1> QED  BY <1>1, <1>2

\* A copy that the loops have listed is of an open row.
LEMMA ListedCopies ==
    ASSUME TypeInv, InUse
    PROVE  /\ \A l \in Loops : \A c \in sweep[l].rows :
                  c.id \in Positions /\ c.row \in Rows /\ c.row.status = "open" /\ pos[c.id].status # None
           /\ \A h \in Hourly : \A c \in funding[h].rows :
                  c.id \in Positions /\ c.row \in Rows /\ c.row.status = "open" /\ pos[c.id].status # None
<1>1. /\ \A l \in Loops : sweep[l].rows \subseteq [id : Positions, row : Rows]
      /\ \A h \in Hourly : funding[h].rows \subseteq [id : Positions, row : Rows]
  BY DEF TypeInv
<1>2. \A c \in [id : Positions, row : Rows] : c.id \in Positions /\ c.row \in Rows
  OBVIOUS
<1> QED  BY <1>1, <1>2 DEF InUse

\* CheckTPSL and CheckLiquidations begin an operation on the copy they hold.
LEMMA ChecksStart ==
    ASSUME TypeInv, InUse, NEW l \in Loops, NEW c \in sweep[l].rows,
           CheckTPSL(l, c) \/ CheckLiquidations(l, c)
    PROVE  UNCHANGED <<job, lapses>> \/ Starts(l, None)
<1>1. /\ c.id \in Positions /\ c.row \in Rows /\ c.row.status = "open" /\ pos[c.id].status # None
      /\ l \in Workers /\ job[l] = Idle
  BY ListedCopies DEF CheckTPSL, CheckLiquidations, LoopIdle, Workers
<1>2. liveMarkPrice(c.row.pair) \in Nat
  BY <1>1, TypeRows, PriceType DEF Rows
<1>3. (pos[c.id] # c.row) \in BOOLEAN
  OBVIOUS
<1>4. CASE CheckTPSL(l, c) /\ HitsLevel(c.row)
  <2>1. Begin(l, Closing(c.id, c.row, liveMarkPrice(c.row.pair)), pos[c.id] # c.row)
    BY <1>4 DEF CheckTPSL
  <2> HIDE DEF liveMarkPrice
  <2> QED  BY <1>1, <1>2, <1>3, <2>1, StartClosing
<1>5. CASE CheckLiquidations(l, c) /\ isLiquidated(c.row, liveMarkPrice(c.row.pair))
  <2>1. Begin(l, Liquidation("scan", c.id, c.row), pos[c.id] # c.row)
    BY <1>5 DEF CheckLiquidations
  <2> QED  BY <1>1, <1>3, <2>1, StartLiquidation
<1> QED  BY <1>4, <1>5 DEF CheckTPSL, CheckLiquidations

\* ApplyFunding begins an operation on the copy it holds.
LEMMA FundingStarts ==
    ASSUME TypeInv, InUse, NEW h \in Hourly, NEW c \in funding[h].rows, ApplyFunding(h, c)
    PROVE  UNCHANGED <<job, lapses>> \/ Starts(h, None)
<1> DEFINE row == c.row
           sign == IF row.side = "long" THEN -1 ELSE 1
           amt == liveMarkPrice(row.pair) * row.qty * FundingRate[row.pair] * sign
           new == [row EXCEPT !.margin = @ + amt]
<1>1. /\ c.id \in Positions /\ row \in Rows /\ row.status = "open" /\ pos[c.id].status # None
      /\ h \in Workers /\ job[h] = Idle
  BY ListedCopies DEF ApplyFunding, Workers
<1>2. row.margin \in Int /\ row.qty \in Nat /\ row.pair \in Pairs
  BY <1>1 DEF Rows
<1>3. liveMarkPrice(row.pair) \in Nat /\ FundingRate[row.pair] \in Int /\ sign \in Int
  BY <1>2, TypeRows, PriceType, FuturesAssumption
<1> HIDE DEF sign
<1>4. amt \in Int
  BY <1>2, <1>3
<1>5. CASE ~(liveMarkPrice(row.pair) > Outage)
  BY <1>5 DEF ApplyFunding
<1>6. CASE liveMarkPrice(row.pair) > Outage
  <2>1. Begin(h, On("funding", c.id, new, 0, amt), pos[c.id] # row)
    BY <1>6 DEF ApplyFunding, sign
  <2> HIDE DEF amt
  <2>2. row.margin + amt \in Int
    BY <1>2, <1>4
  <2>3. new \in Rows /\ new.status = row.status /\ new.user = row.user /\ new.pair = row.pair
    BY <1>1, <2>2, ChangedRow
  <2>4. "funding" \in Kinds \ {"open"} /\ "funding" \notin Closings /\ 0 \in Int
    BY DEF Kinds, Closings
  <2>5. (pos[c.id] # row) \in BOOLEAN
    OBVIOUS
  <2> HIDE DEF new
  <2> QED  BY <1>1, <1>4, <2>1, <2>3, <2>4, <2>5, StartOn
<1> QED  BY <1>5, <1>6

-------------------------------------------------------------------------------
(* The types are inductive.                                                 *)

\* What a step may do to the lists and rows that no operation writes.
ListsTyped ==
    /\ price \in [Pairs -> Prices]
    /\ waiting \subseteq Requests
    /\ sweep \in [Loops -> [phase : {"off", "orders", "levels", "liquidations"},
                            orders : SUBSET Orders, rows : SUBSET [id : Positions, row : Rows]]]
    /\ funding \in [Hourly -> [rows : SUBSET [id : Positions, row : Rows], runs : Nat]]
    /\ moves \in Nat
    /\ \A l \in Loops : \A o \in sweep[l].orders : Acceptable(Ticket[o].terms)

\* The rows and the histories are as they were, the lapses can only have grown.
RowsKept ==
    UNCHANGED <<balance, locked, pos, paid, executed>> /\ lapses \subseteq lapses'

\* A goroutine that begins an operation leaves the types as they are.
LEMMA StartTypes ==
    ASSUME TypeInv, NEW w \in Workers, NEW o, Starts(w, o), RowsKept, UNCHANGED <<order, trouble>>,
           ListsTyped', waiting' \subseteq waiting, w \in waiting => w \notin waiting'
    PROVE  TypeInv'
<1>1. job' \in [Workers -> Jobs] /\ \A v \in Workers : v # w => job'[v] = job[v]
  BY DEF Starts, TypeInv
<1>2. \A r \in waiting' : job'[r] = Idle
  BY <1>1 DEF TypeInv, Workers
<1>3. \A v \in Workers \ Requests : Opens(job'[v]) => OrderOf(job'[v]) # None
  <2>1. job'[w] \in Jobs /\ (w \notin Requests /\ Opens(job'[w]) => OrderOf(job'[w]) # None)
    BY DEF Starts, TypeInv, Opens
  <2> QED  BY <1>1, <2>1 DEF TypeInv
<1> QED  BY <1>1, <1>2, <1>3 DEF TypeInv, ListsTyped, RowsKept

\* A step that begins nothing and writes no row leaves the types as they are.
LEMMA QuietTypes ==
    ASSUME TypeInv, RowsKept, UNCHANGED <<job, order, trouble>>, ListsTyped', waiting' \subseteq waiting
    PROVE  TypeInv'
BY DEF TypeInv, ListsTyped, RowsKept

\* The lists that a request's handler leaves alone.
LEMMA HandlerLists ==
    ASSUME TypeInv, NEW r \in Requests, NEW kind, Take(r, kind), UNCHANGED <<price, sweep, funding, moves>>
    PROVE  ListsTyped' /\ waiting' \subseteq waiting /\ r \notin waiting'
BY DEF TypeInv, ListsTyped, Take

\* Copies of the open rows.
LEMMA CopiesType == ASSUME TypeInv PROVE Copies \in SUBSET [id : Positions, row : Rows]
BY DEF TypeInv, Copies, OpenPositions

\* A request's handler leaves the types as they are.
LEMMA HandlerTypes ==
    ASSUME TypeInv, NEW r \in Requests,
           \/ OpenPosition(r) \/ CreateMarketOrder(r) \/ CancelOrder(r)
           \/ HandlesPosition(r)
    PROVE  TypeInv'
<1>1. \E kind : Take(r, kind)
  BY PositionHandlersStart DEF OpenPosition, CreateMarketOrder, CancelOrder
<1>2. UNCHANGED <<price, walletVars, pos, order, loopVars, paid, executed, trouble, moves>>
  BY PositionHandlersStart DEF OpenPosition, CreateMarketOrder, CancelOrder
<1>3. ListsTyped' /\ waiting' \subseteq waiting /\ r \notin waiting' /\ r \in Workers
  BY <1>1, <1>2, HandlerLists DEF loopVars, Workers
<1>4. UNCHANGED <<job, lapses>> \/ \E o : Starts(r, o)
  BY OpenStarts, MarketOrderStarts, CancelStarts, PositionHandlersStart
<1>5. CASE UNCHANGED <<job, lapses>>
  <2>1. RowsKept
    BY <1>2, <1>5 DEF RowsKept, walletVars
  <2> QED  BY <1>2, <1>3, <1>5, <2>1, QuietTypes
<1>6. CASE \E o : Starts(r, o)
  <2>1. PICK o : Starts(r, o)
    BY <1>6
  <2>2. lapses \subseteq lapses'
    BY <2>1 DEF Starts
  <2>3. RowsKept
    BY <1>2, <2>2 DEF RowsKept, walletVars
  <2> QED  BY <1>2, <1>3, <2>1, <2>3, StartTypes
<1> QED  BY <1>4, <1>5, <1>6

\* CreateOrder of an order that rests leaves the types as they are.
LEMMA RestingTypes ==
    ASSUME TypeInv, NEW r \in Requests, CreateRestingOrder(r)
    PROVE  TypeInv'
<1> DEFINE o == Ask[r].order
<1>1. o \in Orders /\ MaxTrouble \in Nat
  BY FuturesAssumption DEF CreateRestingOrder, Take, OnPosition
<1>2. CASE UNCHANGED <<order, lapses, trouble>>
  BY <1>2 DEF CreateRestingOrder, TypeInv, Take, walletVars, loopVars
<1>3. CASE Acceptable(Ticket[o].terms) /\ SaveOrder(o)
  <2>1. order' \in [Orders -> {None, "open", "filled", "cancelled"}]
    BY <1>1, <1>3 DEF SaveOrder, TypeInv
  <2>2. \A q \in Orders : order'[q] = "open" => Acceptable(Ticket[q].terms)
    BY <1>1, <1>3 DEF SaveOrder, TypeInv
  <2>3. trouble' \in 0..MaxTrouble
    BY <1>1, <1>3 DEF SaveOrder, TypeInv, Trouble
  <2>4. waiting' \subseteq waiting
    BY DEF CreateRestingOrder, Take
  <2>5. UNCHANGED <<price, walletVars, pos, job, loopVars, paid, executed, moves>>
    BY DEF CreateRestingOrder
  <2> HIDE DEF o
  <2> QED  BY <2>1, <2>2, <2>3, <2>4, <2>5 DEF TypeInv, walletVars, loopVars
<1> QED  BY <1>2, <1>3 DEF CreateRestingOrder

\* The lists of the ten second loop leave the types as they are.
LEMMA LoopTypes ==
    ASSUME TypeInv, InUse, NEW l \in Loops,
           \/ NextPhase(l)
           \/ \E o \in sweep[l].orders : ProcessOrder(l, o)
           \/ \E c \in sweep[l].rows : CheckTPSL(l, c) \/ CheckLiquidations(l, c)
    PROVE  TypeInv'
<1>1. UNCHANGED <<price, walletVars, pos, order, waiting, funding, paid, executed, trouble, moves>>
  BY DEF NextPhase, ProcessOrder, CheckTPSL, CheckLiquidations, LoopIdle
<1>2. ListsTyped'
  <2>1. CASE NextPhase(l)
    <3> DEFINE open == {o \in Orders : order[o] = "open"}
    <3>0. PICK x \in {Listed("levels", {}, Copies), Listed("liquidations", {}, Copies), Listed("orders", open, {})} :
              sweep' = [sweep EXCEPT ![l] = x]
      BY <2>1 DEF NextPhase
    <3>1. /\ x \in [phase : {"off", "orders", "levels", "liquidations"},
                    orders : SUBSET Orders, rows : SUBSET [id : Positions, row : Rows]]
          /\ x.orders \subseteq open
      BY CopiesType DEF Listed
    <3>2. /\ sweep' \in [Loops -> [phase : {"off", "orders", "levels", "liquidations"},
                                   orders : SUBSET Orders, rows : SUBSET [id : Positions, row : Rows]]]
          /\ \A k \in Loops : \A o \in sweep'[k].orders : Acceptable(Ticket[o].terms)
      BY <3>0, <3>1 DEF TypeInv
    <3> QED  BY <1>1, <3>2 DEF TypeInv, ListsTyped
  <2>2. ASSUME NEW o \in sweep[l].orders, ProcessOrder(l, o) PROVE ListsTyped'
    <3>1. /\ sweep' \in [Loops -> [phase : {"off", "orders", "levels", "liquidations"},
                                   orders : SUBSET Orders, rows : SUBSET [id : Positions, row : Rows]]]
          /\ \A k \in Loops : sweep'[k].orders \subseteq sweep[k].orders
      <4>1. sweep' = [sweep EXCEPT ![l].orders = @ \ {o}]
        BY <2>2 DEF ProcessOrder
      <4>2. sweep \in [Loops -> [phase : {"off", "orders", "levels", "liquidations"},
                                orders : SUBSET Orders, rows : SUBSET [id : Positions, row : Rows]]]
        BY DEF TypeInv
      <4> QED  BY ONLY <4>1, <4>2
    <3> QED  BY <1>1, <3>1 DEF TypeInv, ListsTyped
  <2>3. ASSUME NEW c \in sweep[l].rows, CheckTPSL(l, c) \/ CheckLiquidations(l, c) PROVE ListsTyped'
    <3>1. /\ sweep' \in [Loops -> [phase : {"off", "orders", "levels", "liquidations"},
                                   orders : SUBSET Orders, rows : SUBSET [id : Positions, row : Rows]]]
          /\ \A k \in Loops : sweep'[k].orders = sweep[k].orders
      <4> DEFINE x == [sweep[l] EXCEPT !.rows = @ \ {c}]
      <4>1. sweep' = [sweep EXCEPT ![l] = x]
        BY <2>3 DEF CheckTPSL, CheckLiquidations
      <4>2. /\ x \in [phase : {"off", "orders", "levels", "liquidations"},
                      orders : SUBSET Orders, rows : SUBSET [id : Positions, row : Rows]]
            /\ x.orders = sweep[l].orders
        BY DEF TypeInv
      <4> HIDE DEF x
      <4> QED  BY <4>1, <4>2 DEF TypeInv
    <3> QED  BY <1>1, <3>1 DEF TypeInv, ListsTyped
  <2> QED  BY <2>1, <2>2, <2>3
<1>3. l \in Workers /\ waiting' = waiting /\ l \notin waiting
  <2>1. l \notin Requests
    BY FuturesAssumption
  <2> QED  BY <1>1, <2>1 DEF TypeInv, Workers
<1>4. UNCHANGED <<job, lapses>> \/ \E o : Starts(l, o)
  <2>1. CASE NextPhase(l)
    BY <2>1 DEF NextPhase
  <2>2. ASSUME NEW o \in sweep[l].orders, ProcessOrder(l, o) PROVE UNCHANGED <<job, lapses>> \/ Starts(l, o)
    <3>1. o \in Orders
      BY DEF TypeInv
    <3> QED  BY <2>2, <3>1, ProcessOrderStarts
  <2> QED  BY <2>1, <2>2, ChecksStart
<1>5. CASE UNCHANGED <<job, lapses>>
  <2>1. RowsKept
    BY <1>1, <1>5 DEF RowsKept, walletVars
  <2> QED  BY <1>1, <1>2, <1>3, <1>5, <2>1, QuietTypes
<1>6. CASE \E o : Starts(l, o)
  <2>1. PICK o : Starts(l, o)
    BY <1>6
  <2>2. lapses \subseteq lapses'
    BY <2>1 DEF Starts
  <2>3. RowsKept
    BY <1>1, <2>2 DEF RowsKept, walletVars
  <2> QED  BY <1>1, <1>2, <1>3, <2>1, <2>3, StartTypes
<1> QED  BY <1>4, <1>5, <1>6

\* The lists of the hourly loop leave the types as they are.
LEMMA HourlyTypes ==
    ASSUME TypeInv, InUse, NEW h \in Hourly,
           ListForFunding(h) \/ \E c \in funding[h].rows : ApplyFunding(h, c)
    PROVE  TypeInv'
<1>1. UNCHANGED <<price, walletVars, pos, order, waiting, sweep, paid, executed, trouble, moves>>
  BY DEF ListForFunding, ApplyFunding, histVars
<1>2. ListsTyped'
  <2>1. funding' \in [Hourly -> [rows : SUBSET [id : Positions, row : Rows], runs : Nat]]
    <3>1. CASE ListForFunding(h)
      <4>1. funding[h] \in [rows : SUBSET [id : Positions, row : Rows], runs : Nat] /\ funding[h].runs > 0
        BY <3>1 DEF ListForFunding, TypeInv
      <4>2. [rows |-> Copies, runs |-> funding[h].runs - 1] \in [rows : SUBSET [id : Positions, row : Rows], runs : Nat]
        BY <4>1, CopiesType
      <4>3. funding' = [funding EXCEPT ![h] = [rows |-> Copies, runs |-> funding[h].runs - 1]]
        BY <3>1 DEF ListForFunding
      <4> QED  BY <4>2, <4>3 DEF TypeInv
    <3>2. CASE \E c \in funding[h].rows : ApplyFunding(h, c)
      <4>0. PICK c \in funding[h].rows : ApplyFunding(h, c)
        BY <3>2
      <4> DEFINE x == [funding[h] EXCEPT !.rows = @ \ {c}]
      <4>1. funding' = [funding EXCEPT ![h] = x]
        BY <4>0 DEF ApplyFunding
      <4>2. x \in [rows : SUBSET [id : Positions, row : Rows], runs : Nat]
        BY DEF TypeInv
      <4> HIDE DEF x
      <4> QED  BY <4>1, <4>2 DEF TypeInv
    <3> QED  BY <3>1, <3>2
  <2> QED  BY <1>1, <2>1 DEF TypeInv, ListsTyped
<1>3. h \in Workers /\ waiting' = waiting /\ h \notin waiting
  <2>1. h \notin Requests
    BY FuturesAssumption
  <2> QED  BY <1>1, <2>1 DEF TypeInv, Workers
<1>4. UNCHANGED <<job, lapses>> \/ \E o : Starts(h, o)
  <2>1. CASE ListForFunding(h)
    BY <2>1 DEF ListForFunding, histVars
  <2> QED  BY <2>1, FundingStarts
<1>5. CASE UNCHANGED <<job, lapses>>
  <2>1. RowsKept
    BY <1>1, <1>5 DEF RowsKept, walletVars
  <2> QED  BY <1>1, <1>2, <1>3, <1>5, <2>1, QuietTypes
<1>6. CASE \E o : Starts(h, o)
  <2>1. PICK o : Starts(h, o)
    BY <1>6
  <2>2. lapses \subseteq lapses'
    BY <2>1 DEF Starts
  <2>3. RowsKept
    BY <1>1, <2>2 DEF RowsKept, walletVars
  <2> QED  BY <1>1, <1>2, <1>3, <2>1, <2>3, StartTypes
<1> QED  BY <1>4, <1>5, <1>6

-------------------------------------------------------------------------------
(* The steps of a job.                                                      *)

\* What a step of the goroutine w leaves alone.
LEMMA StepKeeps ==
    ASSUME NEW w \in Workers, JobStep(w)
    PROVE  UNCHANGED <<price, waiting, sweep, funding, moves>>
BY DEF JobStep, Settle, Reserve, Save, SetStatus, At, loopVars

\* A failure is counted.
LEMMA TroubleType == ASSUME TypeInv, NEW l, Trouble(l) PROVE trouble' \in 0..MaxTrouble
BY FuturesAssumption DEF TypeInv, Trouble

\* The books stay numbers, whatever a settlement unlocks.
LEMMA BookedTypes ==
    ASSUME TypeInv, NEW j \in Jobs, AtWork(j), Booked(j)
    PROVE  balance' \in [Users -> Int] /\ locked' \in [Users -> Nat] /\ paid' \in [Positions -> Nat]
<1>1. j.user \in Users /\ j.delta \in Int /\ j.unlock \in Int
  BY JobShape DEF Tasks
<1>2. Unlocked(j.user, j.unlock) \in Nat
  BY <1>1 DEF Unlocked, TypeInv
<1>3. (IF j.kind \in {"close", "liquidate", "scan"} THEN 1 ELSE 0) \in Nat
  OBVIOUS
<1>4. balance' \in [Users -> Int]
  BY <1>1 DEF Booked, TypeInv
<1>5. locked' \in [Users -> Nat]
  BY <1>1, <1>2 DEF Booked, TypeInv
<1>6. paid' \in [Positions -> Nat]
  <2> DEFINE n == IF j.kind \in {"close", "liquidate", "scan"} THEN 1 ELSE 0
  <2>1. paid' = [paid EXCEPT ![j.id] = @ + n]
    BY DEF Booked
  <2> HIDE DEF n
  <2>2. n \in Nat
    BY DEF n
  <2>3. paid \in [Positions -> Nat]
    BY DEF TypeInv
  <2>4. paid' = [p \in Positions |-> IF p = j.id THEN paid[p] + n ELSE paid[p]]
    BY <2>1, <2>3
  <2>5. \A p \in Positions : paid[p] \in Nat /\ paid[p] + n \in Nat
    BY <2>2, <2>3
  <2> QED  BY <2>4, <2>5
<1> QED  BY <1>4, <1>5, <1>6

\* Settle goes on to the save, or gives up.
LEMMA SettleMoves ==
    ASSUME TypeInv, NEW w \in Workers, Settle(w)
    PROVE  /\ job[w] \in Jobs /\ AtWork(job[w]) /\ job[w].at = "settle" /\ job[w].kind # "open"
           /\ \/ job' = [job EXCEPT ![w] = [job[w] EXCEPT !.at = "save"]]
              \/ job' = [job EXCEPT ![w] = Idle] /\ lapses' \cap {"unsettled", "commit"} # {}
           /\ \/ UNCHANGED <<walletVars, paid>>
              \/ Booked(job[w])
           /\ UNCHANGED <<pos, order, executed>> /\ lapses \subseteq lapses'
<1>1. job[w] \in Jobs /\ job[w].at = "settle" /\ AtWork(job[w])
  BY DEF TypeInv, Settle, At, AtWork
<1>2. Coherent(job[w])
  BY <1>1, JobShape
<1> QED  BY <1>1, <1>2 DEF Settle, Becomes, Trouble, Coherent

\* A step of a job leaves the jobs typed.
LEMMA JobTypes ==
    ASSUME TypeInv, NEW w \in Workers, job[w] # Idle, NEW j \in Jobs, job' = [job EXCEPT ![w] = j],
           w \notin Requests /\ Opens(j) => OrderOf(j) # None
    PROVE  /\ job' \in [Workers -> Jobs] /\ \A r \in waiting : job'[r] = Idle
           /\ \A v \in Workers \ Requests : Opens(job'[v]) => OrderOf(job'[v]) # None
<1>1. \A v \in Workers : job'[v] = IF v = w THEN j ELSE job[v]
  BY DEF TypeInv
<1> QED  BY <1>1 DEF TypeInv, Workers

\* A settlement leaves the types as they are.
LEMMA SettleTypes == ASSUME TypeInv, NEW w \in Workers, Settle(w) PROVE TypeInv'
<1>1. PICK j \in Jobs : job' = [job EXCEPT ![w] = j] /\ (Opens(j) => Opens(job[w]) /\ OrderOf(j) = OrderOf(job[w]))
  <2>1. [job[w] EXCEPT !.at = "save"] \in Jobs
        /\ OrderOf([job[w] EXCEPT !.at = "save"]) = OrderOf(job[w])
    BY SettleMoves, TaskMoves
  <2>2. Opens([job[w] EXCEPT !.at = "save"]) => Opens(job[w])
    BY SettleMoves, JobShape DEF Opens, Tasks
  <2>3. Idle \in Jobs /\ ~Opens(Idle)
    BY DEF Jobs, Opens, AtWork, Idle
  <2> QED  BY <2>1, <2>2, <2>3, SettleMoves
<1>2. balance' \in [Users -> Int] /\ locked' \in [Users -> Nat] /\ paid' \in [Positions -> Nat]
  BY SettleMoves, BookedTypes DEF walletVars, TypeInv
<1>3. trouble' \in 0..MaxTrouble
  BY TroubleType DEF Settle, TypeInv
<1>4. UNCHANGED <<price, waiting, sweep, funding, moves>>
  BY StepKeeps DEF JobStep
<1>5. job[w] # Idle /\ (w \notin Requests /\ Opens(job[w]) => OrderOf(job[w]) # None)
  BY SettleMoves DEF AtWork, Idle, TypeInv
<1>6. job' \in [Workers -> Jobs] /\ (\A r \in waiting : job'[r] = Idle)
      /\ \A v \in Workers \ Requests : Opens(job'[v]) => OrderOf(job'[v]) # None
  BY <1>1, <1>5, JobTypes
<1> QED  BY <1>2, <1>3, <1>4, <1>6, SettleMoves DEF TypeInv

\* Reserve goes on to the save, or gives up; a loop then cancels the order.
LEMMA ReserveMoves ==
    ASSUME TypeInv, NEW w \in Workers, Reserve(w)
    PROVE  /\ job[w] \in Jobs /\ AtWork(job[w]) /\ job[w].at = "reserve" /\ job[w].kind = "open"
           /\ \/ job' = [job EXCEPT ![w] = [job[w] EXCEPT !.at = "save"]]
              \/ job' = [job EXCEPT ![w] = Idle] /\ w \notin Loops
              \/ /\ job' = [job EXCEPT ![w] = [job[w] EXCEPT !.at = "status", !.verdict = "cancelled"]]
                 /\ w \in Loops
           /\ \/ UNCHANGED locked
              \/ job[w].amount > 0 /\ locked' = [locked EXCEPT ![job[w].user] = @ + job[w].amount]
           /\ UNCHANGED <<balance, pos, order, paid, executed>> /\ lapses \subseteq lapses'
<1>1. job[w] \in Jobs /\ job[w].at = "reserve" /\ AtWork(job[w])
  BY DEF TypeInv, Reserve, At, AtWork
<1>2. Coherent(job[w])
  BY <1>1, JobShape
<1>3. job[w].kind = "open"
  BY <1>1, <1>2 DEF Coherent
<1>4. UNCHANGED <<balance, pos, order, paid, executed>>
  BY DEF Reserve
<1>5. lapses \subseteq lapses'
  BY DEF Reserve, Trouble, At
<1>6. UNCHANGED locked \/ (job[w].amount > 0 /\ locked' = [locked EXCEPT ![job[w].user] = @ + job[w].amount])
  BY DEF Reserve
<1>7. \/ job' = [job EXCEPT ![w] = [job[w] EXCEPT !.at = "save"]]
      \/ job' = [job EXCEPT ![w] = Idle] /\ w \notin Loops
      \/ /\ job' = [job EXCEPT ![w] = [job[w] EXCEPT !.at = "status", !.verdict = "cancelled"]]
         /\ w \in Loops
  BY DEF Reserve, Becomes
<1> QED  BY <1>1, <1>3, <1>4, <1>5, <1>6, <1>7

\* A reservation leaves the types as they are.
LEMMA ReserveTypes == ASSUME TypeInv, NEW w \in Workers, Reserve(w) PROVE TypeInv'
<1> DEFINE saving == [job[w] EXCEPT !.at = "save"]
           rejected == [job[w] EXCEPT !.at = "status", !.verdict = "cancelled"]
<1>0. job[w] # Idle /\ (w \notin Requests /\ Opens(job[w]) => OrderOf(job[w]) # None) /\ Opens(job[w])
      /\ job[w] \in Tasks /\ Coherent(job[w])
  BY ReserveMoves, JobShape DEF AtWork, Idle, TypeInv, Opens
<1>1. PICK j \in Jobs : job' = [job EXCEPT ![w] = j] /\ (Opens(j) => OrderOf(j) = OrderOf(job[w]))
  <2>1. saving \in Jobs /\ OrderOf(saving) = OrderOf(job[w])
    BY ReserveMoves, TaskMoves
  <2>2. Idle \in Jobs /\ ~Opens(Idle)
    BY DEF Jobs, Opens, AtWork, Idle
  <2>3. w \in Loops => rejected \in Jobs /\ ~Opens(rejected)
    <3>1. SUFFICES ASSUME w \in Loops PROVE rejected \in Jobs /\ ~Opens(rejected)
      OBVIOUS
    <3>2. w \notin Requests /\ job[w].at = "reserve"
      BY <3>1, FuturesAssumption, ReserveMoves
    <3>3. job[w].next = Idle
      BY <1>0, <3>2 DEF Coherent
    <3>4. job[w].order # None
      BY <1>0, <3>2, <3>3 DEF OrderOf
    <3>5. rejected \in Tasks /\ Coherent(rejected)
      BY <1>0, <3>2, <3>3, <3>4 DEF Tasks, Coherent, RowOf, None
    <3> QED  BY <1>0, <3>5 DEF Jobs, Opens, AtWork, Tasks
  <2> QED  BY <2>1, <2>2, <2>3, ReserveMoves
<1>2. balance' \in [Users -> Int] /\ paid' \in [Positions -> Nat]
  BY ReserveMoves DEF TypeInv
<1>3. locked' \in [Users -> Nat]
  <2>1. locked \in [Users -> Nat] /\ job[w].user \in Users /\ job[w].amount \in Int
    BY <1>0 DEF TypeInv, Tasks
  <2>2. \/ locked' = locked
        \/ job[w].amount > 0 /\ locked' = [locked EXCEPT ![job[w].user] = @ + job[w].amount]
    BY ReserveMoves
  <2> QED  BY <2>1, <2>2
<1>4. trouble' \in 0..MaxTrouble
  BY TroubleType DEF Reserve, TypeInv
<1>5. UNCHANGED <<price, waiting, sweep, funding, moves>>
  BY StepKeeps DEF JobStep
<1>6. job' \in [Workers -> Jobs] /\ (\A r \in waiting : job'[r] = Idle)
      /\ \A v \in Workers \ Requests : Opens(job'[v]) => OrderOf(job'[v]) # None
  BY <1>0, <1>1, JobTypes
<1> QED  BY <1>2, <1>3, <1>4, <1>5, <1>6, ReserveMoves DEF TypeInv

\* What a saved job becomes: its second half, the write of its order's status, or nothing.
LEMMA AfterSaveJob ==
    ASSUME NEW j \in Jobs, j.at = "save"
    PROVE  /\ AfterSave(j) \in Jobs
           /\ j.next # Idle => AfterSave(j) = j.next /\ j.next \in Later /\ OrderOf(j.next) = OrderOf(j)
           /\ j.next = Idle => ~AtWork(AfterSave(j))
           /\ j.next = Idle /\ j.order = None => AfterSave(j) = Idle
           /\ j.next = Idle /\ j.order # None => AfterSave(j) = [j EXCEPT !.at = "status"]
<1>0. j \in Tasks /\ Coherent(j)
  BY JobShape DEF AtWork
<1>1. CASE j.next # Idle
  <2>1. AfterSave(j) = j.next /\ j.next \in Later
    BY <1>0, <1>1 DEF AfterSave, Tasks
  <2>2. j.next \in Tasks
    BY <2>1 DEF Later, Tasks, Kinds
  <2>3. Coherent(j.next)
    BY <1>0, <1>1, <2>1 DEF Coherent, Later, Closings, RowOf
  <2>4. OrderOf(j.next) = OrderOf(j)
    BY <1>0, <1>1, <2>1 DEF OrderOf, Later, Tasks, Idle
  <2> QED  BY <1>1, <2>1, <2>2, <2>3, <2>4 DEF Jobs
<1>2. CASE j.next = Idle /\ j.order # None
  <2> DEFINE k == [j EXCEPT !.at = "status"]
  <2>1. AfterSave(j) = k
    BY <1>2 DEF AfterSave
  <2>2. k \in Tasks /\ ~AtWork(k)
    BY <1>0 DEF Tasks, AtWork
  <2>3. Coherent(k)
    BY <1>0, <1>2 DEF Coherent, Tasks, RowOf, None
  <2> QED  BY <1>2, <2>1, <2>2, <2>3 DEF Jobs
<1>3. CASE j.next = Idle /\ j.order = None
  BY <1>3 DEF AfterSave, Jobs, AtWork, Idle
<1> QED  BY <1>1, <1>2, <1>3

\* Save writes a row, or fails to, and the job goes on; a close that could not be
\* saved is given up.
LEMMA SaveMoves ==
    ASSUME TypeInv, NEW w \in Workers, Save(w)
    PROVE  /\ job[w] \in Jobs /\ AtWork(job[w]) /\ job[w].at = "save" /\ job[w].id \in Positions \cup {New}
           /\ UNCHANGED <<balance, locked, order, paid>> /\ lapses \subseteq lapses'
           /\ \/ /\ job' = [job EXCEPT ![w] = AfterSave(job[w])]
                 /\ \E p \in Positions :
                        /\ IF job[w].id = New THEN pos[p].status = None ELSE p = job[w].id
                        /\ pos' = Upsert(p, job[w].row)
                 /\ executed' = IF job[w].order = None THEN executed
                                ELSE [executed EXCEPT ![job[w].order] = Append(@, w)]
              \/ /\ UNCHANGED <<pos, executed>> /\ "unsaved" \in lapses'
                 /\ job' = [job EXCEPT ![w] = IF job[w].kind = "close" THEN Idle ELSE AfterSave(job[w])]
<1>1. job[w] \in Jobs /\ job[w].at = "save" /\ AtWork(job[w])
  BY DEF TypeInv, Save, At, AtWork
<1>2. job[w].id \in Positions \cup {New}
  BY <1>1, JobShape DEF Tasks
<1>3. job[w].id = New => FreshId \in Positions /\ pos[FreshId].status = None
  BY FreshIdIn DEF Save, Unused
<1>4. UNCHANGED <<balance, locked, order, paid>> /\ lapses \subseteq lapses'
  BY DEF Save, Trouble, walletVars
<1>5. CASE /\ pos' = Upsert(IF job[w].id = New THEN FreshId ELSE job[w].id, job[w].row)
           /\ executed' = IF job[w].order = None THEN executed
                          ELSE [executed EXCEPT ![job[w].order] = Append(@, w)]
           /\ Becomes(w, AfterSave(job[w]))
  <2>1. \E p \in Positions : /\ IF job[w].id = New THEN pos[p].status = None ELSE p = job[w].id
                             /\ pos' = Upsert(p, job[w].row)
    BY <1>2, <1>3, <1>5
  <2> QED  BY <1>1, <1>2, <1>4, <1>5, <2>1 DEF Becomes
<1>6. CASE /\ Trouble("unsaved")
           /\ Becomes(w, IF job[w].kind = "close" THEN Idle ELSE AfterSave(job[w]))
           /\ UNCHANGED <<pos, executed>>
  BY <1>1, <1>2, <1>4, <1>6 DEF Becomes, Trouble
<1> QED  BY <1>5, <1>6 DEF Save

\* The row that a save leaves in the table: the status, the owner, the pair and
\* the margin are those that it was given.
LEMMA UpsertRow ==
    ASSUME pos \in [Positions -> Rows], NEW p \in Positions, NEW row \in Rows
    PROVE  LET new == Upsert(p, row) IN
           /\ new \in [Positions -> Rows]
           /\ new[p].status = row.status /\ new[p].user = row.user /\ new[p].pair = row.pair
           /\ new[p].margin = row.margin
           /\ \A q \in Positions : q # p => new[q] = pos[q]
<1> DEFINE x == IF pos[p].status = None THEN row ELSE [row EXCEPT !.qty = pos[p].qty, !.entry = pos[p].entry]
<1>1. Upsert(p, row) = [pos EXCEPT ![p] = x]
  BY DEF Upsert
<1>2. x \in Rows /\ x.status = row.status /\ x.user = row.user /\ x.pair = row.pair /\ x.margin = row.margin
  BY DEF Rows
<1> HIDE DEF x
<1> QED  BY <1>1, <1>2

\* A save leaves the types as they are.
LEMMA SaveTypes == ASSUME TypeInv, NEW w \in Workers, Save(w) PROVE TypeInv'
<1>0. job[w] \in Tasks /\ Coherent(job[w]) /\ job[w] # Idle
      /\ (w \notin Requests /\ Opens(job[w]) => OrderOf(job[w]) # None)
  BY SaveMoves, JobShape DEF AtWork, Idle, TypeInv
<1>1. PICK j \in Jobs : job' = [job EXCEPT ![w] = j] /\ (Opens(j) => Opens(job[w]) /\ OrderOf(j) = OrderOf(job[w]))
  <2>1. Idle \in Jobs /\ ~Opens(Idle)
    BY DEF Jobs, Opens, AtWork, Idle
  <2>2. AfterSave(job[w]) \in Jobs
        /\ (Opens(AfterSave(job[w])) => Opens(job[w]) /\ OrderOf(AfterSave(job[w])) = OrderOf(job[w]))
    BY SaveMoves, AfterSaveJob DEF Opens
  <2> QED  BY <2>1, <2>2, SaveMoves
<1>2. pos' \in [Positions -> Rows]
  <2>1. job[w].row \in Rows
    BY <1>0 DEF Tasks
  <2>2. pos \in [Positions -> Rows]
    BY DEF TypeInv
  <2>3. pos' = pos \/ \E p \in Positions : pos' = Upsert(p, job[w].row)
    BY SaveMoves
  <2> QED  BY <2>1, <2>2, <2>3, UpsertRow
<1>3. executed' \in [Orders -> Seq(Workers)]
  <2>1. executed \in [Orders -> Seq(Workers)]
    BY DEF TypeInv
  <2>2. executed' = executed \/ executed' = [executed EXCEPT ![job[w].order] = Append(@, w)]
    BY SaveMoves
  <2>3. \A o \in Orders : executed[o] \in Seq(Workers) /\ Append(executed[o], w) \in Seq(Workers)
    BY <2>1
  <2>4. CASE executed' = [executed EXCEPT ![job[w].order] = Append(@, w)]
    <3>1. executed' = [o \in Orders |-> IF o = job[w].order THEN Append(executed[o], w) ELSE executed[o]]
      BY <2>1, <2>4
    <3> QED  BY <2>3, <3>1
  <2> QED  BY <2>1, <2>2, <2>4
<1>4. trouble' \in 0..MaxTrouble
  BY TroubleType DEF Save, TypeInv
<1>5. UNCHANGED <<price, waiting, sweep, funding, moves>>
  BY StepKeeps DEF JobStep
<1>6. job' \in [Workers -> Jobs] /\ (\A r \in waiting : job'[r] = Idle)
      /\ \A v \in Workers \ Requests : Opens(job'[v]) => OrderOf(job'[v]) # None
  BY <1>0, <1>1, JobTypes
<1> QED  BY <1>2, <1>3, <1>4, <1>5, <1>6, SaveMoves DEF TypeInv

\* SetStatus writes the status of an order, or fails to, and the job is over.
LEMMA StatusMoves ==
    ASSUME TypeInv, NEW w \in Workers, SetStatus(w)
    PROVE  /\ job[w].at = "status" /\ job[w].order \in Orders /\ job[w].verdict \in {"filled", "cancelled"}
           /\ job' = [job EXCEPT ![w] = Idle]
           /\ UNCHANGED <<balance, locked, pos, paid, executed>> /\ lapses \subseteq lapses'
           /\ \/ order' = [order EXCEPT ![job[w].order] = job[w].verdict]
              \/ UNCHANGED order /\ "status" \in lapses'
<1>1. job[w] \in Jobs /\ job[w].at = "status"
  BY DEF TypeInv, SetStatus, At
<1>2. job[w].order \in Orders /\ job[w].verdict \in {"filled", "cancelled"}
  BY <1>1, JobShape
<1> QED  BY <1>1, <1>2 DEF SetStatus, Becomes, Trouble, walletVars

\* The write of a status leaves the types as they are.
LEMMA StatusTypes == ASSUME TypeInv, NEW w \in Workers, SetStatus(w) PROVE TypeInv'
<1>1. job[w] # Idle /\ Idle \in Jobs /\ ~Opens(Idle)
  BY StatusMoves DEF Idle, Jobs, Opens, AtWork
<1>2. /\ order' \in [Orders -> {None, "open", "filled", "cancelled"}]
      /\ \A o \in Orders : order'[o] = "open" => order[o] = "open"
  BY StatusMoves DEF TypeInv
<1>3. trouble' \in 0..MaxTrouble
  BY TroubleType DEF SetStatus, TypeInv
<1>4. UNCHANGED <<price, waiting, sweep, funding, moves>>
  BY StepKeeps DEF JobStep
<1>5. job' \in [Workers -> Jobs] /\ (\A r \in waiting : job'[r] = Idle)
      /\ \A v \in Workers \ Requests : Opens(job'[v]) => OrderOf(job'[v]) # None
  BY <1>1, StatusMoves, JobTypes
<1> QED  BY <1>2, <1>3, <1>4, <1>5, StatusMoves DEF TypeInv

\* A crash leaves the types as they are.
LEMMA CrashTypes == ASSUME TypeInv, Crash PROVE TypeInv'
<1>1. PICK dead \in SUBSET {w \in Workers : Busy(w)} :
          /\ Trouble("crash")
          /\ job' = [w \in Workers |-> IF w \in dead THEN Idle ELSE job[w]]
          /\ sweep' = [l \in Loops |-> IF l \in dead THEN Listed("liquidations", {}, {}) ELSE sweep[l]]
          /\ funding' = [h \in Hourly |-> IF h \in dead THEN [funding[h] EXCEPT !.rows = {}] ELSE funding[h]]
          /\ UNCHANGED <<price, walletVars, pos, order, waiting, paid, executed, moves>>
  BY DEF Crash
<1>2. Idle \in Jobs /\ ~Opens(Idle)
  BY DEF Jobs, Opens, AtWork, Idle
<1>3. job' \in [Workers -> Jobs] /\ (\A r \in waiting : job'[r] = Idle)
  BY <1>1, <1>2 DEF TypeInv, Workers
<1>4. \A v \in Workers \ Requests : Opens(job'[v]) => OrderOf(job'[v]) # None
  BY <1>1, <1>2 DEF TypeInv
<1>5. /\ sweep' \in [Loops -> [phase : {"off", "orders", "levels", "liquidations"},
                              orders : SUBSET Orders, rows : SUBSET [id : Positions, row : Rows]]]
      /\ \A l \in Loops : \A o \in sweep'[l].orders : Acceptable(Ticket[o].terms)
  BY <1>1 DEF TypeInv, Listed
<1>6. funding' \in [Hourly -> [rows : SUBSET [id : Positions, row : Rows], runs : Nat]]
  BY <1>1 DEF TypeInv
<1>7. trouble' \in 0..MaxTrouble
  BY <1>1, TroubleType
<1> QED  BY <1>1, <1>3, <1>4, <1>5, <1>6, <1>7 DEF TypeInv, walletVars

-------------------------------------------------------------------------------
(* Rows in use stay in the table.                                           *)

\* What keeps the rows in use: a row that is in the table stays, and what a
\* goroutine takes in hand is there.
LEMMA InUseKept ==
    ASSUME TypeInv, InUse, TypeInv',
           \A p \in Positions : pos[p].status # None => pos'[p].status # None,
           \A v \in Workers : AtWork(job'[v]) /\ job'[v].id # New =>
               (AtWork(job[v]) /\ job'[v].id = job[v].id) \/ pos[job'[v].id].status # None,
           \A l \in Loops : \A c \in sweep'[l].rows : c \in sweep[l].rows \/ c \in Copies,
           \A h \in Hourly : \A c \in funding'[h].rows : c \in funding[h].rows \/ c \in Copies,
           \A p \in Positions : paid'[p] # paid[p] => pos'[p].status # None
    PROVE  InUse'
<1>1. ASSUME NEW v \in Workers, AtWork(job'[v]), job'[v].id # New PROVE pos'[job'[v].id].status # None
  <2>1. job'[v] \in Tasks
    BY <1>1, JobShape DEF TypeInv
  <2>2. job'[v].id \in Positions
    BY <1>1, <2>1 DEF Tasks
  <2> QED  BY <1>1, <2>2 DEF InUse
<1>2. \A c \in Copies : c.id \in Positions /\ c.row.status = "open" /\ pos[c.id].status # None
  BY DEF Copies, OpenPositions, None
<1>3. ASSUME NEW l \in Loops, NEW c \in sweep'[l].rows PROVE c.row.status = "open" /\ pos'[c.id].status # None
  <2>1. c.id \in Positions /\ c.row.status = "open" /\ pos[c.id].status # None
    BY <1>2, <1>3, ListedCopies
  <2> QED  BY <2>1
<1>4. ASSUME NEW h \in Hourly, NEW c \in funding'[h].rows PROVE c.row.status = "open" /\ pos'[c.id].status # None
  <2>1. c.id \in Positions /\ c.row.status = "open" /\ pos[c.id].status # None
    BY <1>2, <1>4, ListedCopies
  <2> QED  BY <2>1
<1>5. \A p \in Positions : pos'[p].status = None => paid'[p] = 0
  BY DEF InUse
<1> QED  BY <1>1, <1>3, <1>4, <1>5 DEF InUse

\* A beginning of an operation takes in hand a row of the table.
LEMMA StartJobs ==
    ASSUME TypeInv, NEW w \in Workers, NEW o, Starts(w, o)
    PROVE  \A v \in Workers : AtWork(job'[v]) /\ job'[v].id # New =>
               (AtWork(job[v]) /\ job'[v].id = job[v].id) \/ pos[job'[v].id].status # None
<1>1. PICK j \in Jobs \ {Idle} :
          job' = [job EXCEPT ![w] = j] /\ (AtWork(j) /\ j.id # New => pos[j.id].status # None)
  BY DEF Starts
<1>2. \A v \in Workers : job'[v] = IF v = w THEN j ELSE job[v]
  BY <1>1 DEF TypeInv
<1> QED  BY <1>1, <1>2

\* A request's handler keeps the rows in use.
LEMMA HandlerInUse ==
    ASSUME TypeInv, InUse, TypeInv', NEW r \in Requests,
           \/ OpenPosition(r) \/ CreateMarketOrder(r) \/ CreateRestingOrder(r) \/ CancelOrder(r)
           \/ HandlesPosition(r)
    PROVE  InUse'
<1>1. UNCHANGED <<pos, sweep, funding, paid>>
  BY PositionHandlersStart
     DEF OpenPosition, CreateMarketOrder, CreateRestingOrder, CancelOrder, loopVars
<1>2. UNCHANGED job \/ \E o : Starts(r, o)
  BY OpenStarts, MarketOrderStarts, CancelStarts, PositionHandlersStart DEF CreateRestingOrder
<1>3. \A v \in Workers : AtWork(job'[v]) /\ job'[v].id # New =>
               (AtWork(job[v]) /\ job'[v].id = job[v].id) \/ pos[job'[v].id].status # None
  BY <1>2, StartJobs DEF Workers
<1> QED  BY <1>1, <1>3, InUseKept

\* The lists of the ten second loop keep the rows in use.
LEMMA LoopInUse ==
    ASSUME TypeInv, InUse, TypeInv', NEW l \in Loops,
           \/ NextPhase(l)
           \/ \E o \in sweep[l].orders : ProcessOrder(l, o)
           \/ \E c \in sweep[l].rows : CheckTPSL(l, c) \/ CheckLiquidations(l, c)
    PROVE  InUse'
<1>1. UNCHANGED <<pos, funding, paid>>
  BY DEF NextPhase, ProcessOrder, CheckTPSL, CheckLiquidations, LoopIdle
<1>2. UNCHANGED job \/ \E o : Starts(l, o)
  <2>1. CASE NextPhase(l)
    BY <2>1 DEF NextPhase
  <2>2. ASSUME NEW o \in sweep[l].orders, ProcessOrder(l, o) PROVE UNCHANGED job \/ Starts(l, o)
    <3>1. o \in Orders
      BY DEF TypeInv
    <3> QED  BY <2>2, <3>1, ProcessOrderStarts
  <2> QED  BY <2>1, <2>2, ChecksStart
<1>3. \A v \in Workers : AtWork(job'[v]) /\ job'[v].id # New =>
               (AtWork(job[v]) /\ job'[v].id = job[v].id) \/ pos[job'[v].id].status # None
  BY <1>2, StartJobs DEF Workers
<1>4. \A k \in Loops : \A c \in sweep'[k].rows : c \in sweep[k].rows \/ c \in Copies
  <2>1. CASE NextPhase(l)
    <3>1. PICK x : sweep' = [sweep EXCEPT ![l] = x] /\ (x.rows = Copies \/ x.rows = {})
      BY <2>1 DEF NextPhase, Listed
    <3> QED  BY <3>1 DEF TypeInv
  <2>2. CASE \E o \in sweep[l].orders : ProcessOrder(l, o)
    <3>1. PICK o : sweep' = [sweep EXCEPT ![l].orders = @ \ {o}]
      BY <2>2 DEF ProcessOrder
    <3> QED  BY <3>1 DEF TypeInv
  <2>3. CASE \E c \in sweep[l].rows : CheckTPSL(l, c) \/ CheckLiquidations(l, c)
    <3>1. PICK c : sweep' = [sweep EXCEPT ![l].rows = @ \ {c}]
      BY <2>3 DEF CheckTPSL, CheckLiquidations
    <3> QED  BY <3>1 DEF TypeInv
  <2> QED  BY <2>1, <2>2, <2>3
<1> QED  BY <1>1, <1>3, <1>4, InUseKept

\* The lists of the hourly loop keep the rows in use.
LEMMA HourlyInUse ==
    ASSUME TypeInv, InUse, TypeInv', NEW h \in Hourly,
           ListForFunding(h) \/ \E c \in funding[h].rows : ApplyFunding(h, c)
    PROVE  InUse'
<1>1. UNCHANGED <<pos, sweep, paid>>
  BY DEF ListForFunding, ApplyFunding, histVars
<1>2. UNCHANGED job \/ \E o : Starts(h, o)
  BY FundingStarts DEF ListForFunding
<1>3. \A v \in Workers : AtWork(job'[v]) /\ job'[v].id # New =>
               (AtWork(job[v]) /\ job'[v].id = job[v].id) \/ pos[job'[v].id].status # None
  BY <1>2, StartJobs DEF Workers
<1>4. \A k \in Hourly : \A c \in funding'[k].rows : c \in funding[k].rows \/ c \in Copies
  <2>1. CASE ListForFunding(h)
    <3>1. PICK x : funding' = [funding EXCEPT ![h] = x] /\ x.rows = Copies
      <4>1. funding' = [funding EXCEPT ![h] = [rows |-> Copies, runs |-> funding[h].runs - 1]]
        BY <2>1 DEF ListForFunding
      <4>2. [rows |-> Copies, runs |-> funding[h].runs - 1].rows = Copies
        OBVIOUS
      <4> QED  BY <4>1, <4>2, Zenon
    <3> QED  BY <3>1 DEF TypeInv
  <2>2. CASE \E c \in funding[h].rows : ApplyFunding(h, c)
    <3>1. PICK c : funding' = [funding EXCEPT ![h].rows = @ \ {c}]
      BY <2>2 DEF ApplyFunding
    <3> QED  BY <3>1 DEF TypeInv
  <2> QED  BY <2>1, <2>2
<1> QED  BY <1>1, <1>3, <1>4, InUseKept

\* A step of a job keeps the rows in use: what a save writes is not the absence
\* of a row, and what a settlement pays for is in the table.
LEMMA JobInUse ==
    ASSUME TypeInv, InUse, TypeInv', NEW w \in Workers, JobStep(w)
    PROVE  InUse'
<1>0. UNCHANGED <<sweep, funding>>
  BY StepKeeps
<1>1. CASE Settle(w) \/ Reserve(w)
  <2>1. UNCHANGED pos /\ job[w] \in Jobs /\ AtWork(job[w])
    BY <1>1, SettleMoves, ReserveMoves
  <2>2. job[w] \in Tasks /\ Coherent(job[w])
    BY <2>1, JobShape
  <2>3. PICK j : job' = [job EXCEPT ![w] = j] /\ (AtWork(j) => j.id = job[w].id)
    <3>1. [job[w] EXCEPT !.at = "save"].id = job[w].id
      BY <2>2 DEF Tasks
    <3>2. ~AtWork(Idle) /\ ~AtWork([job[w] EXCEPT !.at = "status", !.verdict = "cancelled"])
      BY <2>2 DEF AtWork, Idle, Tasks
    <3> QED  BY <1>1, <3>1, <3>2, SettleMoves, ReserveMoves
  <2>4. \A v \in Workers : AtWork(job'[v]) /\ job'[v].id # New => AtWork(job[v]) /\ job'[v].id = job[v].id
    BY <2>1, <2>3 DEF TypeInv
  <2>5. \A p \in Positions : paid'[p] # paid[p] => pos[p].status # None
    <3>1. CASE UNCHANGED paid
      BY <3>1
    <3>2. CASE Settle(w) /\ Booked(job[w])
      <4>1. job[w].id # New /\ pos[job[w].id].status # None
        BY <2>1, <2>2, <3>2, SettleMoves DEF Coherent, InUse
      <4> QED  BY <3>2, <4>1 DEF Booked, TypeInv
    <3> QED  BY <1>1, <3>1, <3>2, SettleMoves, ReserveMoves
  <2> QED  BY <1>0, <2>1, <2>4, <2>5, InUseKept
<1>2. CASE Save(w)
  <2>1. UNCHANGED paid /\ job[w] \in Tasks /\ Coherent(job[w])
    BY <1>2, SaveMoves, JobShape
  <2>2. \A p \in Positions : pos[p].status # None => pos'[p].status # None
    <3>1. job[w].row.status # None /\ job[w].row \in Rows
      BY <2>1 DEF Coherent, None, Tasks
    <3>2. pos \in [Positions -> Rows] /\ (pos' = pos \/ \E p \in Positions : pos' = Upsert(p, job[w].row))
      BY <1>2, SaveMoves DEF TypeInv
    <3>3. ASSUME NEW p \in Positions, pos' = Upsert(p, job[w].row)
          PROVE  \A q \in Positions : pos[q].status # None => pos'[q].status # None
      <4>1. /\ pos'[p].status = job[w].row.status
            /\ \A q \in Positions : q # p => pos'[q] = pos[q]
        BY <3>1, <3>2, <3>3, UpsertRow
      <4> QED  BY <3>1, <4>1
    <3> QED  BY <3>2, <3>3
  <2>3. PICK j : job' = [job EXCEPT ![w] = j] /\ (AtWork(j) => j.id = New)
    <3>1. AtWork(AfterSave(job[w])) => AfterSave(job[w]).id = New
      BY <1>2, SaveMoves, AfterSaveJob DEF Later
    <3>2. ~AtWork(Idle)
      BY DEF AtWork, Idle
    <3> QED  BY <1>2, <3>1, <3>2, SaveMoves
  <2>4. \A v \in Workers : AtWork(job'[v]) /\ job'[v].id # New => AtWork(job[v]) /\ job'[v].id = job[v].id
    BY <2>3 DEF TypeInv
  <2> QED  BY <1>0, <2>1, <2>2, <2>4, InUseKept
<1>3. CASE SetStatus(w)
  <2>1. UNCHANGED <<pos, paid>> /\ job' = [job EXCEPT ![w] = Idle]
    BY <1>3, StatusMoves
  <2>2. ~AtWork(Idle)
    BY DEF AtWork, Idle
  <2>3. \A v \in Workers : AtWork(job'[v]) /\ job'[v].id # New => AtWork(job[v]) /\ job'[v].id = job[v].id
    BY <2>1, <2>2 DEF TypeInv
  <2> QED  BY <1>0, <2>1, <2>3, InUseKept
<1> QED  BY <1>1, <1>2, <1>3 DEF JobStep

\* A crash keeps the rows in use.
LEMMA CrashInUse == ASSUME TypeInv, InUse, TypeInv', Crash PROVE InUse'
<1>1. PICK dead :
          /\ job' = [w \in Workers |-> IF w \in dead THEN Idle ELSE job[w]]
          /\ sweep' = [l \in Loops |-> IF l \in dead THEN Listed("liquidations", {}, {}) ELSE sweep[l]]
          /\ funding' = [h \in Hourly |-> IF h \in dead THEN [funding[h] EXCEPT !.rows = {}] ELSE funding[h]]
          /\ UNCHANGED <<pos, paid>>
  BY DEF Crash
<1>2. ~AtWork(Idle)
  BY DEF AtWork, Idle
<1>3. \A v \in Workers : AtWork(job'[v]) /\ job'[v].id # New => AtWork(job[v]) /\ job'[v].id = job[v].id
  BY <1>1, <1>2
<1>4. \A l \in Loops : \A c \in sweep'[l].rows : c \in sweep[l].rows
  BY <1>1 DEF Listed
<1>5. \A h \in Hourly : \A c \in funding'[h].rows : c \in funding[h].rows
  BY <1>1 DEF TypeInv
<1> QED  BY <1>1, <1>3, <1>4, <1>5, InUseKept

-------------------------------------------------------------------------------
(* Operations that do not overlap.                                          *)

\* One operation of a user in a pair at a time.
OneOperation ==
    \A v, w \in Workers :
        Busy(v) /\ Busy(w) /\ job[v].user = job[w].user /\ job[v].pair = job[w].pair => v = w

\* What is known of the rows and the jobs while no operations overlap.
LEMMA AloneParts ==
    ASSUME Alone, "overlap" \notin lapses
    PROVE  OneOperation /\ OnePerPair /\ \A w \in Workers : AtWork(job[w]) => Fits(job[w])
BY DEF Alone, OneOperation, OnePerPair

\* A row that no job of the same user and pair writes is as it was to the other jobs.
LEMMA FitsKept ==
    ASSUME NEW rows \in [Positions -> Rows], NEW new \in [Positions -> Rows],
           NEW j \in Jobs, AtWork(j), FitsIn(rows, j),
           \A p \in Positions :
               \/ new[p] = rows[p]
               \/ /\ new[p].user # j.user \/ new[p].pair # j.pair
                  /\ \/ rows[p].user # j.user \/ rows[p].pair # j.pair
                     \/ rows[p].status # "open" /\ p # j.id
    PROVE  FitsIn(new, j)
<1>1. OpenIn(new, j.user, j.pair) = OpenIn(rows, j.user, j.pair)
  BY DEF OpenIn
<1>2. j.id # New => new[j.id] = rows[j.id]
  <2>1. j.id # New => j.id \in Positions
    BY JobShape DEF Tasks
  <2> QED  BY <2>1 DEF FitsIn
<1> QED  BY <1>1, <1>2 DEF FitsIn

\* A goroutine that begins an operation is alone in it, or overlaps.
LEMMA StartAlone ==
    ASSUME TypeInv, Alone, NEW w \in Workers, NEW o, Starts(w, o), UNCHANGED pos, TypeInv'
    PROVE  Alone'
<1>1. PICK j \in Jobs \ {Idle}, stale \in BOOLEAN :
          /\ job' = [job EXCEPT ![w] = j]
          /\ lapses \cup Overlaps(w, j.user, j.pair, stale) \subseteq lapses'
          /\ AtWork(j) /\ OnePerPair /\ ~stale => Fits(j)
  BY DEF Starts
<1>2. \A v \in Workers : job'[v] = IF v = w THEN j ELSE job[v]
  BY <1>1 DEF TypeInv
<1>3. SUFFICES ASSUME "overlap" \notin lapses' PROVE Alone'
  BY DEF Alone
<1>4. /\ OneOperation /\ OnePerPair /\ (\A v \in Workers : AtWork(job[v]) => Fits(job[v]))
      /\ ~stale /\ \A v \in Workers \ {w} : Busy(v) => job[v].user # j.user \/ job[v].pair # j.pair
  <2>1. "overlap" \notin lapses
    BY <1>1, <1>3
  <2>2. "overlap" \notin Overlaps(w, j.user, j.pair, stale)
    BY <1>1, <1>3
  <2>3. ~stale /\ \A v \in Workers \ {w} : Busy(v) => job[v].user # j.user \/ job[v].pair # j.pair
    BY <2>2 DEF Overlaps
  <2> QED  BY <2>1, <2>3, AloneParts
<1>5. OneOperation'
  BY <1>2, <1>4 DEF OneOperation, Busy
<1>6. OnePerPair'
  BY <1>4 DEF OnePerPair, OpenPositions
<1>7. \A v \in Workers : AtWork(job'[v]) => FitsIn(pos', job'[v])
  BY <1>1, <1>2, <1>4 DEF Fits
<1> QED  BY <1>5, <1>6, <1>7 DEF Alone, OneOperation, OnePerPair, Fits

\* A step that writes no row and at most moves jobs on, or ends them, keeps them alone.
LEMMA MovesAlone ==
    ASSUME Alone, UNCHANGED pos, lapses \subseteq lapses',
           \A v \in Workers :
               \/ job'[v] = Idle
               \/ /\ job[v] # Idle /\ job'[v].user = job[v].user /\ job'[v].pair = job[v].pair
                  /\ AtWork(job'[v]) =>
                         /\ AtWork(job[v]) /\ job'[v].id = job[v].id /\ job'[v].kind = job[v].kind
                         /\ job'[v].row = job[v].row /\ job'[v].next = job[v].next
    PROVE  Alone'
<1>1. SUFFICES ASSUME "overlap" \notin lapses' PROVE Alone'
  BY DEF Alone
<1>2. OneOperation /\ OnePerPair /\ \A v \in Workers : AtWork(job[v]) => Fits(job[v])
  BY <1>1, AloneParts
<1>3. OneOperation'
  BY <1>2 DEF OneOperation, Busy
<1>4. OnePerPair'
  BY <1>2 DEF OnePerPair, OpenPositions
<1>5. ~AtWork(Idle)
  BY DEF AtWork, Idle
<1>6. \A v \in Workers : AtWork(job'[v]) => FitsIn(pos', job'[v])
  BY <1>2, <1>5 DEF Fits, FitsIn
<1> QED  BY <1>3, <1>4, <1>6 DEF Alone, OneOperation, OnePerPair, Fits

\* A settlement, a reservation and the write of a status write no row.
LEMMA StepAlone ==
    ASSUME TypeInv, Alone, NEW w \in Workers, Settle(w) \/ Reserve(w) \/ SetStatus(w)
    PROVE  Alone'
<1>1. UNCHANGED pos /\ lapses \subseteq lapses'
  BY SettleMoves, ReserveMoves, StatusMoves
<1>2. PICK j : /\ job' = [job EXCEPT ![w] = j]
               /\ \/ j = Idle
                  \/ /\ job[w] # Idle /\ j.user = job[w].user /\ j.pair = job[w].pair
                     /\ AtWork(j) => /\ AtWork(job[w]) /\ j.id = job[w].id /\ j.kind = job[w].kind
                                     /\ j.row = job[w].row /\ j.next = job[w].next
  <2>1. CASE SetStatus(w)
    BY <2>1, StatusMoves
  <2>2. CASE Settle(w) \/ Reserve(w)
    <3>1. job[w] \in Jobs /\ AtWork(job[w]) /\ job[w] \in Tasks
      BY <2>2, SettleMoves, ReserveMoves, JobShape
    <3>2. job[w] # Idle
      BY <3>1 DEF AtWork, Idle
    <3> DEFINE s == [job[w] EXCEPT !.at = "save"]
               r == [job[w] EXCEPT !.at = "status", !.verdict = "cancelled"]
    <3>3. /\ s.user = job[w].user /\ s.pair = job[w].pair /\ s.id = job[w].id
          /\ s.kind = job[w].kind /\ s.row = job[w].row /\ s.next = job[w].next
      BY <3>1 DEF Tasks
    <3>4. r.user = job[w].user /\ r.pair = job[w].pair /\ ~AtWork(r)
      BY <3>1 DEF Tasks, AtWork
    <3>5. job' = [job EXCEPT ![w] = Idle] \/ job' = [job EXCEPT ![w] = s] \/ job' = [job EXCEPT ![w] = r]
      BY <2>2, SettleMoves, ReserveMoves
    <3> HIDE DEF s, r
    <3> QED  BY <3>1, <3>2, <3>3, <3>4, <3>5
  <2> QED  BY <2>1, <2>2
<1>3. \A v \in Workers : job'[v] = IF v = w THEN j ELSE job[v]
  BY <1>2 DEF TypeInv
<1> QED  BY <1>1, <1>2, <1>3, MovesAlone

\* What a step that leaves jobs and rows alone, or ends jobs, keeps.
LEMMA QuietAlone ==
    ASSUME Alone, UNCHANGED pos, lapses \subseteq lapses',
           \A v \in Workers : job'[v] = Idle \/ job'[v] = job[v]
    PROVE  Alone'
BY MovesAlone

\* A save writes the row of its own user and pair: it inserts one where there is
\* none, it closes the one there is, or it keeps its status.
LEMMA SaveAlone ==
    ASSUME TypeInv, InUse, Alone, NEW w \in Workers, Save(w), TypeInv'
    PROVE  Alone'
<1> DEFINE j == job[w]
<1>1. SUFFICES ASSUME "overlap" \notin lapses' PROVE Alone'
  BY DEF Alone
<1>2. "overlap" \notin lapses
  BY <1>1, SaveMoves
<1>3. OneOperation /\ OnePerPair /\ \A v \in Workers : AtWork(job[v]) => Fits(job[v])
  BY <1>2, AloneParts
<1>4. /\ j \in Jobs /\ j \in Tasks /\ Coherent(j) /\ AtWork(j) /\ j # Idle /\ j.at = "save"
      /\ FitsIn(pos, j)
  BY <1>3, SaveMoves, JobShape DEF AtWork, Idle, Fits
<1>5. \A v \in Workers \ {w} : Busy(v) => job[v].user # j.user \/ job[v].pair # j.pair
  BY <1>3, <1>4 DEF OneOperation, Busy
<1>6. ~AtWork(Idle)
  BY DEF AtWork, Idle
<1>7. AfterSave(j) # Idle => AfterSave(j).user = j.user /\ AfterSave(j).pair = j.pair
  <2>1. [j EXCEPT !.at = "status"].user = j.user /\ [j EXCEPT !.at = "status"].pair = j.pair
    BY <1>4 DEF Tasks
  <2>2. j.next # Idle => j.next.user = j.user /\ j.next.pair = j.pair
    BY <1>4 DEF Coherent
  <2> QED  BY <1>4, <2>1, <2>2, AfterSaveJob
<1>8. CASE UNCHANGED pos /\ job' = [job EXCEPT ![w] = IF j.kind = "close" THEN Idle ELSE AfterSave(j)]
  <2> DEFINE k == IF j.kind = "close" THEN Idle ELSE AfterSave(j)
  <2>1. ~AtWork(k) /\ (k # Idle => k.user = j.user /\ k.pair = j.pair)
    BY <1>4, <1>6, <1>7, AfterSaveJob DEF Coherent
  <2>2. \A v \in Workers : job'[v] = IF v = w THEN k ELSE job[v]
    BY <1>8 DEF TypeInv
  <2>3. lapses \subseteq lapses'
    BY SaveMoves
  <2> HIDE DEF k
  <2> QED  BY <1>4, <1>8, <2>1, <2>2, <2>3, MovesAlone
<1>9. ASSUME NEW p \in Positions, IF j.id = New THEN pos[p].status = None ELSE p = j.id,
             pos' = Upsert(p, j.row), job' = [job EXCEPT ![w] = AfterSave(j)]
      PROVE  Alone'
  <2>1. j.row \in Rows /\ j.row.user = j.user /\ j.row.pair = j.pair
    BY <1>4 DEF Tasks, Coherent, RowOf
  <2>2. /\ pos \in [Positions -> Rows] /\ pos' \in [Positions -> Rows]
        /\ pos'[p].status = j.row.status /\ pos'[p].user = j.user /\ pos'[p].pair = j.pair
        /\ \A q \in Positions : q # p => pos'[q] = pos[q]
    BY <1>9, <2>1, UpsertRow DEF TypeInv
  <2>3. \A v \in Workers : job'[v] = IF v = w THEN AfterSave(j) ELSE job[v]
    BY <1>9 DEF TypeInv
  <2>4. j.id # New => p = j.id /\ pos[p].user = j.user /\ pos[p].pair = j.pair
    BY <1>4, <1>9 DEF FitsIn
  <2>5. ASSUME NEW v \in Workers, v # w, AtWork(job[v]) PROVE FitsIn(pos', job[v])
    <3>1. job[v] \in Jobs /\ FitsIn(pos, job[v]) /\ (job[v].user # j.user \/ job[v].pair # j.pair)
      BY <1>3, <1>5, <2>5 DEF TypeInv, Fits, Busy, AtWork, Idle
    <3>2. j.id = New => pos[p].status # "open" /\ p # job[v].id
      <4>1. j.id = New => pos[p].status = None
        BY <1>9
      <4>2. job[v].id # New => pos[job[v].id].status # None
        BY <2>5 DEF InUse
      <4>3. p # New
        BY PositionsAre
      <4> QED  BY <4>1, <4>2, <4>3 DEF None
    <3>3. \A q \in Positions :
               \/ pos'[q] = pos[q]
               \/ /\ pos'[q].user # job[v].user \/ pos'[q].pair # job[v].pair
                  /\ \/ pos[q].user # job[v].user \/ pos[q].pair # job[v].pair
                     \/ pos[q].status # "open" /\ q # job[v].id
      BY <2>2, <2>4, <3>1, <3>2
    <3> QED  BY <2>2, <2>5, <3>1, <3>3, FitsKept
  <2>6. ASSUME AtWork(AfterSave(j)) PROVE FitsIn(pos', AfterSave(j))
    <3>1. j.next # Idle
      BY <1>4, <2>6, AfterSaveJob
    <3>2. AfterSave(j) = j.next /\ j.next.id = New /\ j.next.next = Idle
          /\ j.next.user = j.user /\ j.next.pair = j.pair
      BY <1>4, <3>1, AfterSaveJob DEF Later, Coherent
    <3>3. OpenIn(pos, j.user, j.pair) = {j.id} /\ j.row.status # "open"
      BY <1>4, <3>1 DEF FitsIn, Coherent, Closings
    <3>4. j.id \in Positions
      BY <3>3 DEF OpenIn
    <3>5. j.id = p
      BY <1>9, <3>4, PositionsAre
    <3>6. OpenIn(pos', j.user, j.pair) = {}
      BY <2>2, <3>3, <3>5 DEF OpenIn
    <3> QED  BY <3>2, <3>6 DEF FitsIn
  <2>7. \A v \in Workers : AtWork(job'[v]) => FitsIn(pos', job'[v])
    BY <2>3, <2>5, <2>6
  <2>8. OneOperation'
    BY <1>3, <1>4, <1>7, <2>3 DEF OneOperation, Busy
  <2>9. OnePerPair'
    <3>1. SUFFICES ASSUME NEW q \in Positions, q # p, pos'[p].status = "open", pos[q].status = "open",
                          pos[q].user = j.user, pos[q].pair = j.pair
                   PROVE  FALSE
      BY <1>3, <2>2 DEF OnePerPair, OpenPositions
    <3>2. q \in OpenIn(pos, j.user, j.pair)
      BY <3>1 DEF OpenIn
    <3>3. j.id # New /\ p = j.id
      BY <1>4, <2>4, <3>2 DEF FitsIn
    <3>4. pos[p].status = "open"
      BY <1>4, <2>2, <3>1, <3>3 DEF FitsIn
    <3> QED  BY <1>3, <2>4, <3>1, <3>3, <3>4 DEF OnePerPair, OpenPositions
  <2> QED  BY <2>7, <2>8, <2>9 DEF Alone, OneOperation, OnePerPair, Fits
<1> QED  BY <1>8, <1>9, SaveMoves

-------------------------------------------------------------------------------
(* A position is paid once.                                                 *)

\* A step that pays nothing, writes no row and leaves the closings that have been paid.
LEMMA QuietPaid ==
    ASSUME PaidOnce, UNCHANGED <<pos, paid>>, lapses \subseteq lapses',
           \A v \in Workers : job[v].at = "save" => job'[v] = job[v]
    PROVE  PaidOnce'
<1>1. \A p \in Positions : ClosingNow(p) => ClosingNow(p)'
  BY DEF ClosingNow
<1> QED  BY <1>1 DEF PaidOnce

\* An operation that begins pays nothing yet.
LEMMA StartPaid ==
    ASSUME TypeInv, PaidOnce, NEW w \in Workers, NEW o, Starts(w, o), UNCHANGED <<pos, paid>>
    PROVE  PaidOnce'
<1>1. PICK j : job' = [job EXCEPT ![w] = j] /\ lapses \subseteq lapses'
  BY DEF Starts
<1>2. job[w].at # "save"
  BY DEF Starts, Idle
<1>3. \A v \in Workers : job[v].at = "save" => job'[v] = job[v]
  BY <1>1, <1>2 DEF TypeInv
<1> QED  BY <1>1, <1>3, QuietPaid

\* A reservation and the write of a status pay nothing.
LEMMA StepPaid ==
    ASSUME TypeInv, PaidOnce, NEW w \in Workers, Reserve(w) \/ SetStatus(w)
    PROVE  PaidOnce'
<1>1. PICK j : job' = [job EXCEPT ![w] = j]
  BY ReserveMoves, StatusMoves
<1>2. job[w].at # "save" /\ UNCHANGED <<pos, paid>> /\ lapses \subseteq lapses'
  BY ReserveMoves, StatusMoves
<1>3. \A v \in Workers : job[v].at = "save" => job'[v] = job[v]
  BY <1>1, <1>2 DEF TypeInv
<1> QED  BY <1>2, <1>3, QuietPaid

\* A settlement pays for a position that is open and that nobody else is paying
\* for: it has not been paid.
LEMMA SettlePaid ==
    ASSUME TypeInv, InUse, Alone, PaidOnce, NEW w \in Workers, Settle(w)
    PROVE  PaidOnce'
<1> DEFINE j == job[w]
<1>1. /\ j \in Jobs /\ j \in Tasks /\ Coherent(j) /\ AtWork(j) /\ j.at = "settle" /\ j.kind # "open"
      /\ UNCHANGED pos /\ lapses \subseteq lapses'
  BY SettleMoves, JobShape
<1>2. SUFFICES ASSUME lapses' \cap PayTwice = {} PROVE PaidOnce'
  BY DEF PaidOnce, PayTwice
<1>3. lapses \cap PayTwice = {} /\ "overlap" \notin lapses
  BY <1>1, <1>2 DEF PayTwice
<1>4. PICK k : job' = [job EXCEPT ![w] = k]
  BY SettleMoves
<1>5. \A v \in Workers : job[v].at = "save" => job'[v] = job[v]
  BY <1>1, <1>4 DEF TypeInv
<1>6. CASE UNCHANGED paid
  BY <1>1, <1>5, <1>6, QuietPaid
<1>7. CASE Booked(j) /\ job' = [job EXCEPT ![w] = [j EXCEPT !.at = "save"]]
  <2>1. j.id \in Positions
    BY <1>1 DEF Tasks, Coherent
  <2>2. CASE j.kind \notin Closings
    <3>1. UNCHANGED paid
      BY <1>7, <2>1, <2>2 DEF Booked, Closings, TypeInv
    <3> QED  BY <1>6, <3>1
  <2>3. CASE j.kind \in Closings
    <3>1. FitsIn(pos, j) /\ OneOperation /\ \A v \in Workers : AtWork(job[v]) => FitsIn(pos, job[v])
      BY <1>1, <1>3, AloneParts DEF Fits
    <3>2. j.id # New /\ pos[j.id].status = "open" /\ pos[j.id].user = j.user /\ pos[j.id].pair = j.pair
      BY <2>1, <2>3, <3>1, PositionsAre DEF FitsIn
    <3>3. ~ClosingNow(j.id)
      <4>1. SUFFICES ASSUME NEW v \in Workers, job[v].at = "save", job[v].id = j.id PROVE FALSE
        BY DEF ClosingNow
      <4>2. FitsIn(pos, job[v]) /\ job[v].user = j.user /\ job[v].pair = j.pair
        BY <3>1, <3>2, <4>1 DEF AtWork, FitsIn
      <4>3. v = w
        BY <1>1, <3>1, <4>1, <4>2 DEF OneOperation, Busy, Idle
      <4> QED  BY <1>1, <4>1, <4>3
    <3>4. paid[j.id] = 0
      <4>1. paid[j.id] <= 1 /\ paid[j.id] # 1
        BY <1>3, <2>1, <3>2, <3>3 DEF PaidOnce, PayTwice
      <4>2. paid[j.id] \in Nat
        BY <2>1 DEF TypeInv
      <4> QED  BY <4>1, <4>2
    <3>5. paid' = [paid EXCEPT ![j.id] = 1]
      BY <1>7, <2>1, <2>3, <3>4 DEF Booked, Closings, TypeInv
    <3> PICK q \in Positions : q = j.id
      BY <2>1
    <3>6. ClosingNow(q)'
      <4>1. job'[w] = [j EXCEPT !.at = "save"]
        BY <1>7 DEF TypeInv
      <4>2. job'[w].at = "save" /\ job'[w].id = j.id /\ job'[w].kind = j.kind
        BY <1>1, <4>1 DEF Tasks
      <4> QED  BY <2>3, <4>2 DEF ClosingNow
    <3>7. \A p \in Positions : ClosingNow(p) => ClosingNow(p)'
      BY <1>5 DEF ClosingNow
    <3>8. \A p \in Positions : paid'[p] = IF p = j.id THEN 1 ELSE paid[p]
      BY <3>5 DEF TypeInv
    <3>9. \A p \in Positions : /\ paid'[p] <= 1
                               /\ paid'[p] = 1 => pos[p].status \in {"closed", "liquidated"} \/ p = q \/ ClosingNow(p)
      BY <1>3, <3>8 DEF PaidOnce, PayTwice
    <3> QED  BY <1>1, <3>6, <3>7, <3>9 DEF PaidOnce
  <2> QED  BY <2>2, <2>3
<1> QED  BY <1>2, <1>6, <1>7 DEF Settle, Becomes, Trouble, PayTwice, walletVars

\* A save takes from the closings that have been paid its own, and closes its
\* row; no save opens a row that was closed, or inserts one that was paid.
LEMMA SavePaid ==
    ASSUME TypeInv, InUse, Alone, PaidOnce, NEW w \in Workers, Save(w)
    PROVE  PaidOnce'
<1> DEFINE j == job[w]
<1>1. j \in Jobs /\ j \in Tasks /\ Coherent(j) /\ AtWork(j) /\ j.at = "save"
      /\ UNCHANGED paid /\ lapses \subseteq lapses'
  BY SaveMoves, JobShape
<1>2. SUFFICES ASSUME lapses' \cap PayTwice = {} PROVE PaidOnce'
  BY DEF PaidOnce, PayTwice
<1>3. lapses \cap PayTwice = {} /\ "overlap" \notin lapses
  BY <1>1, <1>2 DEF PayTwice
<1>4. /\ job' = [job EXCEPT ![w] = AfterSave(j)]
      /\ \E p \in Positions : /\ IF j.id = New THEN pos[p].status = None ELSE p = j.id
                              /\ pos' = Upsert(p, j.row)
  BY <1>2, SaveMoves DEF PayTwice
<1>5. PICK p \in Positions : /\ IF j.id = New THEN pos[p].status = None ELSE p = j.id
                             /\ pos' = Upsert(p, j.row)
  BY <1>4
<1>6. /\ pos'[p].status = j.row.status
      /\ \A q \in Positions : q # p => pos'[q] = pos[q]
  <2>1. j.row \in Rows /\ pos \in [Positions -> Rows]
    BY <1>1 DEF Tasks, TypeInv
  <2> QED  BY <1>5, <2>1, UpsertRow
<1>7. FitsIn(pos, j) /\ OneOperation /\ \A v \in Workers : AtWork(job[v]) => FitsIn(pos, job[v])
  BY <1>1, <1>3, AloneParts DEF Fits
<1>8. \A v \in Workers : job'[v] = IF v = w THEN AfterSave(j) ELSE job[v]
  BY <1>4 DEF TypeInv
<1>9. \A q \in Positions : /\ paid[q] <= 1
                           /\ paid[q] = 1 => pos[q].status \in {"closed", "liquidated"} \/ ClosingNow(q)
  BY <1>3 DEF PaidOnce, PayTwice
<1>10. ASSUME NEW q \in Positions, q # p, paid[q] = 1
       PROVE  pos'[q].status \in {"closed", "liquidated"} \/ ClosingNow(q)'
  <2>1. CASE pos[q].status \in {"closed", "liquidated"}
    BY <1>6, <1>10, <2>1
  <2>2. CASE ClosingNow(q)
    <3>1. PICK v \in Workers : job[v].at = "save" /\ job[v].id = q /\ job[v].kind \in Closings
      BY <2>2 DEF ClosingNow
    <3>2. v # w
      <4>1. SUFFICES ASSUME v = w PROVE FALSE
        OBVIOUS
      <4>2. j.id = q /\ j.kind \in Closings
        BY <3>1, <4>1
      <4>3. j.id # New
        BY <1>10, <4>2, PositionsAre
      <4> QED  BY <1>5, <1>10, <4>2, <4>3
    <3>3. job'[v] = job[v]
      BY <1>8, <3>2
    <3> QED  BY <3>1, <3>3 DEF ClosingNow
  <2> QED  BY <1>9, <1>10, <2>1, <2>2
<1>11. paid[p] = 1 => j.row.status \in {"closed", "liquidated"}
  <2>1. SUFFICES ASSUME paid[p] = 1, j.row.status \notin {"closed", "liquidated"} PROVE FALSE
    OBVIOUS
  <2>2. j.kind \notin Closings /\ j.row.status = "open"
    BY <1>1, <2>1 DEF Coherent
  <2>3. CASE j.id = New
    <3>1. pos[p].status = None
      BY <1>5, <2>3
    <3> QED  BY <2>1, <3>1 DEF InUse
  <2>4. CASE j.id # New
    <3>1. p = j.id /\ pos[p].status = "open" /\ pos[p].user = j.user /\ pos[p].pair = j.pair
      BY <1>5, <1>7, <2>2, <2>4 DEF FitsIn
    <3>2. ClosingNow(p)
      BY <1>9, <2>1, <3>1
    <3>3. PICK v \in Workers : job[v].at = "save" /\ job[v].id = p /\ job[v].kind \in Closings
      BY <3>2 DEF ClosingNow
    <3>4. FitsIn(pos, job[v]) /\ job[v].user = j.user /\ job[v].pair = j.pair
      BY <1>7, <2>4, <3>1, <3>3 DEF AtWork, FitsIn
    <3>5. v = w
      BY <1>1, <1>7, <3>3, <3>4 DEF OneOperation, Busy, Idle
    <3> QED  BY <2>2, <3>3, <3>5
  <2> QED  BY <2>3, <2>4
<1>12. \A q \in Positions : /\ paid[q] <= 1
                            /\ paid[q] = 1 => pos'[q].status \in {"closed", "liquidated"} \/ ClosingNow(q)'
  BY <1>6, <1>9, <1>10, <1>11
<1> QED  BY <1>1, <1>12 DEF PaidOnce

-------------------------------------------------------------------------------
(* An order is executed once.                                               *)

\* A step that executes nothing, puts no order on a list and into no goroutine's
\* hands: an order that was executed stays so, or is marked.
LEMMA QuietExecuted ==
    ASSUME TypeInv, ExecutedOnce, UNCHANGED executed, lapses \subseteq lapses', waiting' \subseteq waiting,
           \A o \in Orders : order'[o] = order[o] \/ order'[o] \in {"filled", "cancelled"},
           \A l \in Loops : sweep'[l].orders \subseteq sweep[l].orders,
           \A v \in Workers : \A o \in Orders : Executing(job'[v], o) => Executing(job[v], o),
           \A v \in Workers : job[v].at = "status" =>
               \/ job'[v] = job[v]
               \/ order'[job[v].order] \in {"filled", "cancelled"}
               \/ lapses' \cap ExecuteTwice # {}
    PROVE  ExecutedOnce'
<1>1. SUFFICES ASSUME lapses' \cap ExecuteTwice = {}, NEW o \in Orders PROVE OrderOnce(o)'
  BY DEF ExecutedOnce
<1>2. OrderOnce(o)
  BY <1>1 DEF ExecutedOnce
<1>3. executed[o] \in Seq(Workers)
  BY DEF TypeInv
<1>4. order'[o] = None => order[o] = None
  BY DEF None
<1>5. order[o] # None => order'[o] # None
  BY DEF None
<1>6. \A w \in Workers : Executing(job'[w], o) =>
           /\ executed[o] = <<>>
           /\ Ticket[o].type = "limit" => w \in Loops /\ order'[o] # None /\ o \notin sweep'[w].orders
           /\ Ticket[o].type = "market" => w \in Requests /\ Ask[w].kind = "order" /\ Ask[w].order = o
           /\ \A v \in Workers : Executing(job'[v], o) => v = w
  BY <1>2, <1>5 DEF OrderOnce
<1>7. \A i \in DOMAIN executed[o] :
           order'[o] \in {"filled", "cancelled"} \/ (job'[executed[o][i]].at = "status" /\ job'[executed[o][i]].order = o)
  BY <1>1, <1>2, <1>3 DEF OrderOnce
<1>8. Ticket[o].type = "market" =>
           /\ order'[o] # "open"
           /\ \A r \in waiting' : Ask[r].kind = "order" /\ Ask[r].order = o => executed[o] = <<>>
  BY <1>2 DEF OrderOnce
<1>9. \A l \in Loops : o \in sweep'[l].orders =>
           /\ Ticket[o].type = "limit" /\ order'[o] # None
           /\ \A i \in DOMAIN executed[o] : executed[o][i] # l
  BY <1>2, <1>5 DEF OrderOnce
<1>10. Len(executed[o]) <= 1 /\ (order'[o] = None /\ Ticket[o].type = "limit" => executed[o] = <<>>)
  BY <1>2, <1>4 DEF OrderOnce
<1> QED  BY <1>6, <1>7, <1>8, <1>9, <1>10 DEF OrderOnce

\* An operation that begins for no order, beside lists that only shrink.
LEMMA StartExecuted ==
    ASSUME TypeInv, ExecutedOnce, NEW w \in Workers, Starts(w, None) \/ UNCHANGED <<job, lapses>>,
           UNCHANGED <<executed, order>>, waiting' \subseteq waiting,
           \A l \in Loops : sweep'[l].orders \subseteq sweep[l].orders
    PROVE  ExecutedOnce'
<1>1. CASE Starts(w, None)
  <2>1. PICK j : job' = [job EXCEPT ![w] = j] /\ lapses \subseteq lapses' /\ (AtWork(j) => OrderOf(j) = None)
    BY <1>1 DEF Starts
  <2>2. \A v \in Workers : job'[v] = IF v = w THEN j ELSE job[v]
    BY <2>1 DEF TypeInv
  <2>3. None \notin Orders /\ job[w].at # "status"
    BY <1>1, FuturesAssumption DEF Starts, Idle
  <2>4. \A v \in Workers : \A o \in Orders : Executing(job'[v], o) => Executing(job[v], o)
    BY <2>1, <2>2, <2>3 DEF Executing
  <2>5. \A v \in Workers : job[v].at = "status" => job'[v] = job[v]
    BY <2>2, <2>3
  <2> QED  BY <2>1, <2>4, <2>5, QuietExecuted
<1>2. CASE UNCHANGED <<job, lapses>>
  BY <1>2, QuietExecuted
<1> QED  BY <1>1, <1>2

\* A market order is executed by its request, which nobody has handled before.
LEMMA MarketExecuted ==
    ASSUME TypeInv, ExecutedOnce, NEW r \in Requests, CreateMarketOrder(r)
    PROVE  ExecutedOnce'
<1> DEFINE o == Ask[r].order
<1>1. /\ UNCHANGED <<executed, order, sweep>> /\ waiting' = waiting \ {r} /\ r \in waiting
      /\ Ask[r].kind = "order" /\ o \in Orders /\ Ticket[o].type = "market" /\ r \in Workers
  BY FuturesAssumption DEF CreateMarketOrder, Take, OnPosition, loopVars, Workers
<1>2. CASE UNCHANGED <<job, lapses>> \/ Starts(r, None)
  BY <1>1, <1>2, StartExecuted
<1>3. CASE Starts(r, o)
  <2>1. PICK j : job' = [job EXCEPT ![r] = j] /\ lapses \subseteq lapses' /\ (AtWork(j) => OrderOf(j) = o)
    BY <1>3 DEF Starts
  <2>2. \A v \in Workers : job'[v] = IF v = r THEN j ELSE job[v]
    BY <2>1 DEF TypeInv
  <2>3. job[r].at # "status"
    BY <1>3 DEF Starts, Idle
  <2>4. SUFFICES ASSUME lapses' \cap ExecuteTwice = {}, NEW q \in Orders PROVE OrderOnce(q)'
    BY DEF ExecutedOnce
  <2>5. OrderOnce(q) /\ executed[q] \in Seq(Workers)
    BY <2>1, <2>4 DEF ExecutedOnce, TypeInv
  <2>6. \A w \in Workers : Executing(job'[w], q) => Executing(job[w], q) \/ (w = r /\ q = o)
    BY <2>1, <2>2 DEF Executing
  <2>7. \A w \in Workers : Executing(job'[w], q) =>
           /\ executed[q] = <<>>
           /\ Ticket[q].type = "limit" => w \in Loops /\ order[q] # None /\ q \notin sweep[w].orders
           /\ Ticket[q].type = "market" => w \in Requests /\ Ask[w].kind = "order" /\ Ask[w].order = q
    BY <1>1, <2>5, <2>6 DEF OrderOnce
  <2>8. \A v, w \in Workers : Executing(job'[v], q) /\ Executing(job'[w], q) => v = w
    <3>1. CASE q = o
      <4>1. \A v \in Workers : Executing(job'[v], q) => v \in Requests /\ Ask[v].kind = "order" /\ Ask[v].order = o
        BY <1>1, <2>7, <3>1
      <4>2. \A v \in Workers : Executing(job'[v], q) => v = r
        BY <1>1, <4>1, FuturesAssumption
      <4> QED  BY <4>2
    <3>2. CASE q # o
      BY <2>5, <2>6, <3>2 DEF OrderOnce
    <3> QED  BY <3>1, <3>2
  <2>9. \A i \in DOMAIN executed[q] :
           order[q] \in {"filled", "cancelled"} \/ (job'[executed[q][i]].at = "status" /\ job'[executed[q][i]].order = q)
    BY <2>2, <2>3, <2>5 DEF OrderOnce
  <2>10. /\ Len(executed[q]) <= 1
         /\ order[q] = None /\ Ticket[q].type = "limit" => executed[q] = <<>>
         /\ Ticket[q].type = "market" =>
               /\ order[q] # "open"
               /\ \A s \in waiting' : Ask[s].kind = "order" /\ Ask[s].order = q => executed[q] = <<>>
         /\ \A l \in Loops : q \in sweep[l].orders =>
               /\ Ticket[q].type = "limit" /\ order[q] # None
               /\ \A i \in DOMAIN executed[q] : executed[q][i] # l
    BY <1>1, <2>5 DEF OrderOnce
  <2> HIDE DEF o
  <2> QED  BY <1>1, <2>7, <2>8, <2>9, <2>10 DEF OrderOnce
<1> QED  BY <1>2, <1>3, MarketOrderStarts

\* An order that comes to rest has not been executed.
LEMMA RestingExecuted ==
    ASSUME TypeInv, ExecutedOnce, NEW r \in Requests, CreateRestingOrder(r)
    PROVE  ExecutedOnce'
<1> DEFINE o == Ask[r].order
<1>1. /\ UNCHANGED <<executed, job, sweep>> /\ waiting' \subseteq waiting
      /\ o \in Orders /\ Ticket[o].type = "limit" /\ order[o] = None
  BY FuturesAssumption DEF CreateRestingOrder, Take, OnPosition, loopVars
<1>2. lapses \subseteq lapses' /\ (UNCHANGED order \/ order' = [order EXCEPT ![o] = "open"])
  BY DEF CreateRestingOrder, SaveOrder, Trouble
<1>3. CASE UNCHANGED order
  BY <1>1, <1>2, <1>3, QuietExecuted
<1>4. CASE order' = [order EXCEPT ![o] = "open"]
  <2>1. SUFFICES ASSUME lapses' \cap ExecuteTwice = {}, NEW q \in Orders PROVE OrderOnce(q)'
    BY DEF ExecutedOnce
  <2>2. OrderOnce(q) /\ executed[q] \in Seq(Workers)
    BY <1>2, <2>1 DEF ExecutedOnce, TypeInv
  <2>3. order'[q] = IF q = o THEN "open" ELSE order[q]
    BY <1>1, <1>4 DEF TypeInv
  <2>4. q = o => executed[q] = <<>>
    BY <1>1, <2>2 DEF OrderOnce
  <2> HIDE DEF o
  <2>5. CASE q # o
    <3>1. order'[q] = order[q]
      BY <2>3, <2>5
    <3> QED  BY <1>1, <2>2, <3>1 DEF OrderOnce
  <2>6. CASE q = o
    <3>1. order'[q] = "open" /\ order'[q] # None
      BY <2>3, <2>6 DEF None
    <3>2. DOMAIN executed[q] = {} /\ Len(executed[q]) = 0
      BY <2>4, <2>6
    <3> QED  BY <1>1, <2>2, <2>4, <2>6, <3>1, <3>2 DEF OrderOnce
  <2> QED  BY <2>5, <2>6
<1> QED  BY <1>2, <1>3, <1>4

\* What a loop lists is open: it rests, and whoever executed it is about to mark it.
LEMMA ListExecuted ==
    ASSUME TypeInv, ExecutedOnce, NEW l \in Loops, NextPhase(l)
    PROVE  ExecutedOnce'
<1>1. UNCHANGED <<executed, order, job, waiting, lapses>> /\ job[l] = Idle
  BY DEF NextPhase, LoopIdle
<1>2. PICK x : /\ sweep' = [sweep EXCEPT ![l] = x]
               /\ \A o \in x.orders : o \in Orders /\ order[o] = "open"
  BY DEF NextPhase, Listed
<1>3. \A k \in Loops : \A o \in Orders :
          o \in sweep'[k].orders => o \in sweep[k].orders \/ (k = l /\ order[o] = "open")
  BY <1>2 DEF TypeInv
<1>4. SUFFICES ASSUME lapses' \cap ExecuteTwice = {}, NEW o \in Orders PROVE OrderOnce(o)'
  BY DEF ExecutedOnce
<1>5. OrderOnce(o) /\ executed[o] \in Seq(Workers)
  BY <1>1, <1>4 DEF ExecutedOnce, TypeInv
<1>6. ~AtWork(job[l]) /\ job[l].at # "status"
  BY <1>1 DEF AtWork, Idle
<1>7. \A w \in Workers : Executing(job[w], o) =>
           /\ executed[o] = <<>>
           /\ Ticket[o].type = "limit" => w \in Loops /\ order[o] # None /\ o \notin sweep'[w].orders
           /\ Ticket[o].type = "market" => w \in Requests /\ Ask[w].kind = "order" /\ Ask[w].order = o
           /\ \A v \in Workers : Executing(job[v], o) => v = w
  BY <1>3, <1>5, <1>6 DEF OrderOnce, Executing
<1>8. \A k \in Loops : o \in sweep'[k].orders =>
           /\ Ticket[o].type = "limit" /\ order[o] # None
           /\ \A i \in DOMAIN executed[o] : executed[o][i] # k
  <2>1. SUFFICES ASSUME NEW k \in Loops, o \in sweep'[k].orders
                 PROVE  /\ Ticket[o].type = "limit" /\ order[o] # None
                        /\ \A i \in DOMAIN executed[o] : executed[o][i] # k
    OBVIOUS
  <2>2. CASE o \in sweep[k].orders
    BY <1>5, <2>2 DEF OrderOnce
  <2>3. CASE k = l /\ order[o] = "open"
    <3>1. Ticket[o].type # "market" /\ Ticket[o].type \in {"market", "limit"}
      BY <1>5, <2>3, FuturesAssumption DEF OrderOnce
    <3>2. \A i \in DOMAIN executed[o] : job[executed[o][i]].at = "status"
      BY <1>5, <2>3 DEF OrderOnce
    <3> QED  BY <1>6, <2>3, <3>1, <3>2 DEF None
  <2> QED  BY <1>3, <2>1, <2>2, <2>3
<1>9. /\ Len(executed[o]) <= 1
      /\ order[o] = None /\ Ticket[o].type = "limit" => executed[o] = <<>>
      /\ \A i \in DOMAIN executed[o] :
             order[o] \in {"filled", "cancelled"} \/ (job[executed[o][i]].at = "status" /\ job[executed[o][i]].order = o)
      /\ Ticket[o].type = "market" =>
             /\ order[o] # "open"
             /\ \A r \in waiting : Ask[r].kind = "order" /\ Ask[r].order = o => executed[o] = <<>>
  BY <1>5 DEF OrderOnce
<1> QED  BY <1>1, <1>7, <1>8, <1>9 DEF OrderOnce

\* An order that a loop takes in hand has been executed by nobody, unless by
\* another loop, and no other loop has it in hand.
LEMMA ProcessExecuted ==
    ASSUME TypeInv, ExecutedOnce, NEW l \in Loops, NEW o \in sweep[l].orders, ProcessOrder(l, o)
    PROVE  ExecutedOnce'
<1>1. /\ UNCHANGED <<executed, order, waiting>> /\ sweep' = [sweep EXCEPT ![l].orders = @ \ {o}]
      /\ o \in Orders /\ l \in Workers
  BY DEF ProcessOrder, LoopIdle, TypeInv, Workers
<1>2. \A k \in Loops : /\ sweep'[k].orders \subseteq sweep[k].orders
                       /\ k = l => o \notin sweep'[k].orders
  BY <1>1 DEF TypeInv
<1>3. CASE UNCHANGED <<job, lapses>>
  BY <1>1, <1>2, <1>3, QuietExecuted
<1>4. CASE Triggered(o) /\ Starts(l, o)
  <2>1. PICK j : job' = [job EXCEPT ![l] = j] /\ lapses \subseteq lapses' /\ (AtWork(j) => OrderOf(j) = o)
    BY <1>4 DEF Starts
  <2>2. \A v \in Workers : job'[v] = IF v = l THEN j ELSE job[v]
    BY <2>1 DEF TypeInv
  <2>3. job[l].at # "status"
    BY <1>4 DEF Starts, Idle
  <2>4. SUFFICES ASSUME lapses' \cap ExecuteTwice = {}, NEW q \in Orders PROVE OrderOnce(q)'
    BY DEF ExecutedOnce
  <2>5. (\A p \in Orders : OrderOnce(p)) /\ executed[q] \in Seq(Workers) /\ executed[o] \in Seq(Workers)
    BY <1>1, <2>1, <2>4 DEF ExecutedOnce, TypeInv
  <2>6. ~Twice(l, o)
    <3>1. "twice" \notin lapses'
      BY <2>4 DEF ExecuteTwice
    <3>2. (IF Twice(l, o) THEN {"twice"} ELSE {}) \subseteq lapses'
      BY <1>4 DEF ProcessOrder
    <3> QED  BY <3>1, <3>2
  <2>7. Ticket[o].type = "limit" /\ order[o] # None /\ \A i \in DOMAIN executed[o] : executed[o][i] # l
    BY <2>5, <1>1 DEF OrderOnce
  <2>8. executed[o] = <<>>
    <3>1. DOMAIN executed[o] = {}
      BY <2>6, <2>7 DEF Twice
    <3>2. Len(executed[o]) \in Nat /\ DOMAIN executed[o] = 1..Len(executed[o])
      BY <2>5
    <3>3. Len(executed[o]) = 0
      <4>1. 1 \notin 1..Len(executed[o])
        BY <3>1, <3>2
      <4> QED  BY <3>2, <4>1
    <3> QED  BY <2>5, <3>3, EmptySeq
  <2>9. \A w \in Workers : ~(w # l /\ Executing(job[w], o))
    <3>1. SUFFICES ASSUME NEW w \in Workers, w # l, Executing(job[w], o) PROVE FALSE
      OBVIOUS
    <3>2. w \in Loops
      BY <1>1, <2>5, <2>7, <3>1 DEF OrderOnce
    <3> QED  BY <2>6, <3>1, <3>2 DEF Twice, Executing
  <2>10. \A w \in Workers : Executing(job'[w], q) => (w # l /\ q # o /\ Executing(job[w], q)) \/ (w = l /\ q = o)
    BY <2>1, <2>2, <2>9, <1>4 DEF Executing, Starts, AtWork, Idle
  <2>11. \A w \in Workers : Executing(job'[w], q) =>
           /\ executed[q] = <<>>
           /\ Ticket[q].type = "limit" => w \in Loops /\ order[q] # None /\ q \notin sweep'[w].orders
           /\ Ticket[q].type = "market" => w \in Requests /\ Ask[w].kind = "order" /\ Ask[w].order = q
           /\ \A v \in Workers : Executing(job'[v], q) => v = w
    <3>1. CASE q = o
      BY <1>1, <1>2, <2>7, <2>8, <2>10, <3>1
    <3>2. CASE q # o
      BY <1>2, <2>5, <2>10, <3>2 DEF OrderOnce
    <3> QED  BY <3>1, <3>2
  <2>12. \A i \in DOMAIN executed[q] :
           order[q] \in {"filled", "cancelled"} \/ (job'[executed[q][i]].at = "status" /\ job'[executed[q][i]].order = q)
    BY <2>2, <2>3, <2>5 DEF OrderOnce
  <2>13. /\ Len(executed[q]) <= 1
         /\ order[q] = None /\ Ticket[q].type = "limit" => executed[q] = <<>>
         /\ Ticket[q].type = "market" =>
               /\ order[q] # "open"
               /\ \A s \in waiting : Ask[s].kind = "order" /\ Ask[s].order = q => executed[q] = <<>>
         /\ \A k \in Loops : q \in sweep'[k].orders =>
               /\ Ticket[q].type = "limit" /\ order[q] # None
               /\ \A i \in DOMAIN executed[q] : executed[q][i] # k
    BY <1>2, <2>5 DEF OrderOnce
  <2> QED  BY <1>1, <2>11, <2>12, <2>13 DEF OrderOnce
<1> QED  BY <1>1, <1>3, <1>4, ProcessOrderStarts DEF ProcessOrder

\* A step of a job puts no order into a goroutine's hands.
LEMMA StepHands ==
    ASSUME TypeInv, NEW w \in Workers, JobStep(w)
    PROVE  /\ \A v \in Workers : \A o \in Orders : Executing(job'[v], o) => Executing(job[v], o)
           /\ \A v \in Workers : v # w => job'[v] = job[v]
<1>0. None \notin Orders /\ ~AtWork(Idle)
  BY FuturesAssumption DEF AtWork, Idle
<1>1. CASE Settle(w) \/ Reserve(w)
  <2>1. job[w] \in Jobs /\ AtWork(job[w]) /\ job[w].at # "save" /\ job[w] \in Tasks
    BY <1>1, SettleMoves, ReserveMoves, JobShape
  <2>2. OrderOf([job[w] EXCEPT !.at = "save"]) = OrderOf(job[w])
    BY <2>1, TaskMoves
  <2>3. ~AtWork([job[w] EXCEPT !.at = "status", !.verdict = "cancelled"])
    BY <2>1 DEF AtWork, Tasks
  <2>4. PICK j : job' = [job EXCEPT ![w] = j] /\ (AtWork(j) => OrderOf(j) = OrderOf(job[w]))
    BY <1>0, <1>1, <2>2, <2>3, SettleMoves, ReserveMoves
  <2>5. \A v \in Workers : job'[v] = IF v = w THEN j ELSE job[v]
    BY <2>4 DEF TypeInv
  <2> QED  BY <2>1, <2>4, <2>5 DEF Executing
<1>2. CASE Save(w)
  <2>1. job[w] \in Jobs /\ AtWork(job[w]) /\ job[w].at = "save"
    BY <1>2, SaveMoves
  <2>2. AtWork(AfterSave(job[w])) => OrderOf(AfterSave(job[w])) = OrderOf(job[w])
    BY <2>1, AfterSaveJob
  <2>3. PICK j : job' = [job EXCEPT ![w] = j] /\ (AtWork(j) => OrderOf(j) = OrderOf(job[w]))
    BY <1>0, <1>2, <2>2, SaveMoves
  <2>4. \A v \in Workers : job'[v] = IF v = w THEN j ELSE job[v]
    BY <2>3 DEF TypeInv
  <2> QED  BY <2>1, <2>3, <2>4 DEF Executing
<1>3. CASE SetStatus(w)
  <2>1. \A v \in Workers : job'[v] = IF v = w THEN Idle ELSE job[v]
    BY <1>3, StatusMoves DEF TypeInv
  <2> QED  BY <1>0, <2>1 DEF Executing
<1> QED  BY <1>1, <1>2, <1>3 DEF JobStep

\* A step of a job that executes nothing.
LEMMA StepExecuted ==
    ASSUME TypeInv, ExecutedOnce, NEW w \in Workers, JobStep(w), UNCHANGED executed
    PROVE  ExecutedOnce'
<1>1. UNCHANGED <<waiting, sweep>> /\ lapses \subseteq lapses'
  BY StepKeeps, SettleMoves, ReserveMoves, SaveMoves, StatusMoves DEF JobStep
<1>2. \A o \in Orders : order'[o] = order[o] \/ order'[o] \in {"filled", "cancelled"}
  <2>1. UNCHANGED order \/ \E o \in Orders, d \in {"filled", "cancelled"} : order' = [order EXCEPT ![o] = d]
    BY SettleMoves, ReserveMoves, SaveMoves, StatusMoves DEF JobStep
  <2> QED  BY <2>1 DEF TypeInv
<1>3. \A v \in Workers : job[v].at = "status" =>
               \/ job'[v] = job[v]
               \/ order'[job[v].order] \in {"filled", "cancelled"}
               \/ lapses' \cap ExecuteTwice # {}
  <2>1. job[w].at = "status" => SetStatus(w)
    BY SettleMoves, ReserveMoves, SaveMoves DEF JobStep
  <2>2. SetStatus(w) => order'[job[w].order] \in {"filled", "cancelled"} \/ "status" \in lapses'
    BY StatusMoves DEF TypeInv
  <2> QED  BY <2>1, <2>2, StepHands DEF ExecuteTwice
<1> QED  BY <1>1, <1>2, <1>3, StepHands, QuietExecuted

\* A save executes an order that was in its hands alone and that nobody executed.
LEMMA SaveExecuted ==
    ASSUME TypeInv, ExecutedOnce, NEW w \in Workers, Save(w)
    PROVE  ExecutedOnce'
<1>1. CASE UNCHANGED executed
  BY <1>1, StepExecuted DEF JobStep
<1>2. CASE /\ job[w].order # None /\ executed' = [executed EXCEPT ![job[w].order] = Append(@, w)]
           /\ job' = [job EXCEPT ![w] = AfterSave(job[w])]
  <2> DEFINE j == job[w]
  <2>1. j \in Jobs /\ j \in Tasks /\ Coherent(j) /\ AtWork(j) /\ j.at = "save"
    BY SaveMoves, JobShape
  <2>2. PICK o \in Orders : o = j.order
    BY <1>2, <2>1 DEF Tasks
  <2>3. j.next = Idle /\ OrderOf(j) = o
    BY <1>2, <2>1, <2>2 DEF Coherent, OrderOf, AtWork, Idle
  <2>4. AfterSave(j) = [j EXCEPT !.at = "status"]
    BY <1>2, <2>1, <2>3, AfterSaveJob
  <2>5. job'[w].at = "status" /\ job'[w].order = o /\ ~AtWork(job'[w]) /\ \A v \in Workers : v # w => job'[v] = job[v]
    <3>1. \A v \in Workers : job'[v] = IF v = w THEN AfterSave(j) ELSE job[v]
      BY <1>2 DEF TypeInv
    <3>2. AfterSave(j).at = "status" /\ AfterSave(j).order = o
      BY <2>1, <2>2, <2>4 DEF Tasks
    <3> HIDE DEF j
    <3> QED  BY <3>1, <3>2 DEF AtWork
  <2>6. SUFFICES ASSUME lapses' \cap ExecuteTwice = {}, NEW q \in Orders PROVE OrderOnce(q)'
    BY DEF ExecutedOnce
  <2>7. OrderOnce(q) /\ executed[q] \in Seq(Workers) /\ UNCHANGED <<order, sweep, waiting>>
    BY <2>6, SaveMoves, StepKeeps DEF ExecutedOnce, TypeInv, JobStep
  <2>8. executed'[q] = IF q = o THEN Append(executed[q], w) ELSE executed[q]
    BY <1>2, <2>2 DEF TypeInv
  <2>9. \A v \in Workers : Executing(job'[v], q) => Executing(job[v], q) /\ v # w
    BY <2>5, StepHands DEF JobStep, Executing
  <2>10. CASE q # o
    <3>1. executed'[q] = executed[q]
      BY <2>8, <2>10
    <3>2. \A i \in DOMAIN executed[q] :
             order[q] \in {"filled", "cancelled"} \/ (job'[executed[q][i]].at = "status" /\ job'[executed[q][i]].order = q)
      BY <2>1, <2>5, <2>7 DEF OrderOnce
    <3> HIDE DEF j
    <3> QED  BY <2>7, <2>9, <3>1, <3>2 DEF OrderOnce
  <2>11. CASE q = o
    <3>1. Executing(job[w], q)
      BY <2>1, <2>3, <2>11 DEF Executing
    <3>2. /\ executed[q] = <<>>
          /\ Ticket[q].type = "limit" => w \in Loops /\ order[q] # None /\ q \notin sweep[w].orders
          /\ Ticket[q].type = "market" => w \in Requests /\ Ask[w].kind = "order" /\ Ask[w].order = q
          /\ \A v \in Workers : Executing(job[v], q) => v = w
      BY <2>7, <3>1 DEF OrderOnce
    <3>3. executed'[q] = <<w>>
      BY <2>8, <2>11, <3>2
    <3>4. \A v \in Workers : ~Executing(job'[v], q)
      BY <2>9, <3>2
    <3>5. DOMAIN executed'[q] = {1} /\ executed'[q][1] = w /\ Len(executed'[q]) = 1
      BY <3>3
    <3>6. Ticket[q].type \in {"market", "limit"}
      BY FuturesAssumption
    <3>7. Ticket[q].type = "market" =>
             /\ order[q] # "open"
             /\ \A r \in waiting : ~(Ask[r].kind = "order" /\ Ask[r].order = q)
      <4>1. SUFFICES ASSUME Ticket[q].type = "market", NEW r \in waiting, Ask[r].kind = "order", Ask[r].order = q
                     PROVE  FALSE
        BY <2>7 DEF OrderOnce
      <4>2. r \in Requests /\ w \in Requests /\ job[r] = Idle
        BY <3>2, <4>1 DEF TypeInv
      <4>3. r = w
        BY <3>2, <4>1, <4>2, FuturesAssumption
      <4> QED  BY <2>1, <4>2, <4>3 DEF AtWork, Idle
    <3>8. \A l \in Loops : q \in sweep[l].orders => Ticket[q].type = "limit" /\ order[q] # None /\ l # w
      BY <2>7, <3>2 DEF OrderOnce
    <3>9. order[q] = None /\ Ticket[q].type = "limit" => FALSE
      BY <3>2
    <3> HIDE DEF j
    <3> QED  BY <2>5, <2>7, <2>11, <3>4, <3>5, <3>7, <3>8, <3>9 DEF OrderOnce
  <2> QED  BY <2>10, <2>11
<1> QED  BY <1>1, <1>2, SaveMoves

-------------------------------------------------------------------------------
(* The invariant.                                                           *)

\* The handlers of requests keep every part of the invariant.
LEMMA HandlerPreserves ==
    ASSUME FuturesInv, NEW r \in Requests,
           \/ OpenPosition(r) \/ CreateMarketOrder(r) \/ CreateRestingOrder(r) \/ CancelOrder(r)
           \/ HandlesPosition(r)
    PROVE  FuturesInv'
<1>0. TypeInv /\ InUse /\ Alone /\ PaidOnce /\ ExecutedOnce /\ r \in Workers
  BY DEF FuturesInv, Workers
<1>1. TypeInv'
  BY <1>0, HandlerTypes, RestingTypes
<1>2. InUse'
  BY <1>0, <1>1, HandlerInUse
<1>3. UNCHANGED <<pos, paid, executed, sweep>> /\ waiting' \subseteq waiting
  BY <1>0, PositionHandlersStart
     DEF OpenPosition, CreateMarketOrder, CreateRestingOrder, CancelOrder, Take, loopVars
<1>4. lapses \subseteq lapses' /\ (UNCHANGED job \/ \E o : Starts(r, o))
  <2>1. CreateRestingOrder(r) => lapses \subseteq lapses' /\ UNCHANGED job
    BY DEF CreateRestingOrder, SaveOrder, Trouble
  <2>2. \A o : Starts(r, o) => lapses \subseteq lapses'
    BY DEF Starts
  <2> QED  BY <1>0, <2>1, <2>2, OpenStarts, MarketOrderStarts, CancelStarts, PositionHandlersStart
<1>5. Alone' /\ PaidOnce'
  BY <1>0, <1>1, <1>3, <1>4, StartAlone, QuietAlone, StartPaid, QuietPaid
<1>6. ExecutedOnce'
  <2>1. CASE CreateMarketOrder(r) \/ CreateRestingOrder(r)
    BY <1>0, <2>1, MarketExecuted, RestingExecuted
  <2>2. CASE \/ OpenPosition(r) \/ CancelOrder(r)
             \/ HandlesPosition(r)
    <3>1. UNCHANGED order
      BY <1>0, <2>2, PositionHandlersStart DEF OpenPosition, CancelOrder
    <3>2. UNCHANGED <<job, lapses>> \/ Starts(r, None)
      BY <1>0, <2>2, OpenStarts, CancelStarts, PositionHandlersStart
    <3> QED  BY <1>0, <1>3, <3>1, <3>2, StartExecuted
  <2> QED  BY <2>1, <2>2
<1> QED  BY <1>1, <1>2, <1>5, <1>6 DEF FuturesInv

\* The lists of the ten second loop keep every part of the invariant.
LEMMA LoopPreserves ==
    ASSUME FuturesInv, NEW l \in Loops,
           \/ NextPhase(l)
           \/ \E o \in sweep[l].orders : ProcessOrder(l, o)
           \/ \E c \in sweep[l].rows : CheckTPSL(l, c) \/ CheckLiquidations(l, c)
    PROVE  FuturesInv'
<1>0. TypeInv /\ InUse /\ Alone /\ PaidOnce /\ ExecutedOnce /\ l \in Workers
  BY DEF FuturesInv, Workers
<1>1. TypeInv'
  BY <1>0, LoopTypes
<1>2. InUse'
  BY <1>0, <1>1, LoopInUse
<1>3. UNCHANGED <<pos, paid, executed, order, waiting>>
  BY DEF NextPhase, ProcessOrder, CheckTPSL, CheckLiquidations, LoopIdle
<1>4. lapses \subseteq lapses' /\ (UNCHANGED job \/ \E o : Starts(l, o))
  <2>1. NextPhase(l) => lapses \subseteq lapses' /\ UNCHANGED job
    BY DEF NextPhase
  <2>2. \A o : Starts(l, o) => lapses \subseteq lapses'
    BY DEF Starts
  <2>3. sweep[l].orders \subseteq Orders
    BY <1>0 DEF TypeInv
  <2> QED  BY <1>0, <2>1, <2>2, <2>3, ProcessOrderStarts, ChecksStart
<1>5. Alone' /\ PaidOnce'
  BY <1>0, <1>1, <1>3, <1>4, StartAlone, QuietAlone, StartPaid, QuietPaid
<1>6. ExecutedOnce'
  <2>1. ASSUME NEW c \in sweep[l].rows, CheckTPSL(l, c) \/ CheckLiquidations(l, c) PROVE ExecutedOnce'
    <3>1. \A k \in Loops : sweep'[k].orders \subseteq sweep[k].orders
      <4>1. sweep' = [sweep EXCEPT ![l].rows = @ \ {c}]
        BY <2>1 DEF CheckTPSL, CheckLiquidations
      <4> QED  BY <1>0, <4>1 DEF TypeInv
    <3> QED  BY <1>0, <1>3, <2>1, <3>1, ChecksStart, StartExecuted
  <2> QED  BY <1>0, <2>1, ListExecuted, ProcessExecuted
<1> QED  BY <1>1, <1>2, <1>5, <1>6 DEF FuturesInv

\* The lists of the hourly loop keep every part of the invariant.
LEMMA HourlyPreserves ==
    ASSUME FuturesInv, NEW h \in Hourly,
           ListForFunding(h) \/ \E c \in funding[h].rows : ApplyFunding(h, c)
    PROVE  FuturesInv'
<1>0. TypeInv /\ InUse /\ Alone /\ PaidOnce /\ ExecutedOnce /\ h \in Workers
  BY DEF FuturesInv, Workers
<1>1. TypeInv'
  BY <1>0, HourlyTypes
<1>2. InUse'
  BY <1>0, <1>1, HourlyInUse
<1>3. UNCHANGED <<pos, paid, executed, order, waiting, sweep>>
  BY DEF ListForFunding, ApplyFunding, histVars
<1>4. UNCHANGED <<job, lapses>> \/ Starts(h, None)
  BY <1>0, FundingStarts DEF ListForFunding, histVars
<1>5. lapses \subseteq lapses'
  BY <1>4 DEF Starts
<1>6. Alone' /\ PaidOnce'
  BY <1>0, <1>1, <1>3, <1>4, <1>5, StartAlone, QuietAlone, StartPaid, QuietPaid
<1>7. ExecutedOnce'
  BY <1>0, <1>3, <1>4, StartExecuted
<1> QED  BY <1>1, <1>2, <1>6, <1>7 DEF FuturesInv

\* The steps of a job keep every part of the invariant.
LEMMA JobPreserves ==
    ASSUME FuturesInv, NEW w \in Workers, JobStep(w)
    PROVE  FuturesInv'
<1>0. TypeInv /\ InUse /\ Alone /\ PaidOnce /\ ExecutedOnce
  BY DEF FuturesInv
<1>1. TypeInv'
  BY <1>0, SettleTypes, ReserveTypes, SaveTypes, StatusTypes DEF JobStep
<1>2. InUse'
  BY <1>0, <1>1, JobInUse
<1>3. Alone'
  BY <1>0, <1>1, StepAlone, SaveAlone DEF JobStep
<1>4. PaidOnce'
  BY <1>0, SettlePaid, StepPaid, SavePaid DEF JobStep
<1>5. ExecutedOnce'
  <2>1. Save(w) \/ UNCHANGED executed
    BY <1>0, SettleMoves, ReserveMoves, StatusMoves DEF JobStep
  <2> QED  BY <1>0, <2>1, SaveExecuted, StepExecuted
<1> QED  BY <1>1, <1>2, <1>3, <1>4, <1>5 DEF FuturesInv

\* A move of the feed keeps the invariant: what is decided on a price is decided when it is read.
LEMMA FeedPreserves ==
    ASSUME FuturesInv, NEW pr \in Pairs, MoveFeed(pr)
    PROVE  FuturesInv'
<1>0. TypeInv /\ InUse /\ Alone /\ PaidOnce /\ ExecutedOnce
  BY DEF FuturesInv
<1>1. UNCHANGED <<balance, locked, pos, order, waiting, job, sweep, funding, paid, executed, lapses, trouble>>
  BY DEF MoveFeed, walletVars, loopVars, histVars
<1>2. price' \in [Pairs -> Prices]
  BY <1>0 DEF MoveFeed, TypeInv
<1>3. moves' \in Nat
  BY <1>0 DEF MoveFeed, TypeInv
<1>4. ListsTyped' /\ RowsKept
  BY <1>0, <1>1, <1>2, <1>3 DEF ListsTyped, RowsKept, TypeInv
<1>5. TypeInv'
  BY <1>0, <1>1, <1>4, QuietTypes
<1>6. InUse'
  BY <1>0, <1>1, <1>5, InUseKept
<1>7. Alone' /\ PaidOnce'
  BY <1>0, <1>1, QuietAlone, QuietPaid
<1>8. ExecutedOnce'
  BY <1>0, <1>1, QuietExecuted
<1> QED  BY <1>5, <1>6, <1>7, <1>8 DEF FuturesInv

\* A crash keeps the invariant.
LEMMA CrashPreserves == ASSUME FuturesInv, Crash PROVE FuturesInv'
<1>0. TypeInv /\ InUse /\ Alone
  BY DEF FuturesInv
<1>1. TypeInv'
  BY <1>0, CrashTypes
<1>2. InUse'
  BY <1>0, <1>1, CrashInUse
<1>3. UNCHANGED pos /\ "crash" \in lapses' /\ lapses \subseteq lapses'
      /\ \A v \in Workers : job'[v] = Idle \/ job'[v] = job[v]
  BY DEF Crash, Trouble
<1>4. Alone'
  BY <1>0, <1>3, QuietAlone
<1>5. PaidOnce' /\ ExecutedOnce'
  BY <1>3 DEF PaidOnce, ExecutedOnce, PayTwice, ExecuteTwice
<1> QED  BY <1>1, <1>2, <1>4, <1>5 DEF FuturesInv

\* A step that changes nothing keeps the invariant.
LEMMA StutterPreserves == ASSUME FuturesInv, UNCHANGED vars PROVE FuturesInv'
<1>0. TypeInv /\ InUse /\ Alone /\ PaidOnce /\ ExecutedOnce
  BY DEF FuturesInv
<1>1. UNCHANGED <<balance, locked, pos, order, waiting, job, sweep, funding, paid, executed, lapses, trouble, price, moves>>
  BY DEF vars, walletVars, loopVars, histVars
<1>2. ListsTyped' /\ RowsKept
  BY <1>0, <1>1 DEF ListsTyped, RowsKept, TypeInv
<1>3. TypeInv'
  BY <1>0, <1>1, <1>2, QuietTypes
<1>4. InUse'
  BY <1>0, <1>1, <1>3, InUseKept
<1>5. Alone' /\ PaidOnce'
  BY <1>0, <1>1, QuietAlone, QuietPaid
<1>6. ExecutedOnce'
  BY <1>0, <1>1, QuietExecuted
<1> QED  BY <1>3, <1>4, <1>5, <1>6 DEF FuturesInv

\* The margin of the open rows of a user is a number when none of them is negative.
LEMMA MarginsType ==
    ASSUME NEW rows \in [Positions -> Rows], NEW u,
           \A p \in Positions : rows[p].status = "open" => rows[p].margin >= 0
    PROVE  Margins(rows, u) \in Nat
<1> DEFINE f == [p \in Positions |-> rows[p].margin]
           S == {p \in Positions : rows[p].status = "open" /\ rows[p].user = u}
<1>1. IsFiniteSet(S)
  BY PositionsAre, FS_Subset
<1>2. \A p \in S : f[p] \in Nat
  BY DEF Rows
<1> HIDE DEF f, S
<1>3. SumFunctionOnSet(f, S) \in Nat
  BY <1>1, <1>2, SumOfNaturals
<1> QED  BY <1>3 DEF Margins, f, S

\* The workload a behaviour starts with satisfies the invariant.
LEMMA InitInvariant == ASSUME Init PROVE FuturesInv
<1>1. PICK w \in Workloads :
           /\ waiting = w.asks /\ pos = w.rows
           /\ locked = [u \in Users |-> Margins(w.rows, u)]
           /\ price \in [Pairs -> w.prices]
           /\ moves = w.moves
           /\ funding = [h \in Hourly |-> [rows |-> {}, runs |-> w.runs]]
           /\ sweep = [l \in Loops |-> Listed(IF l \in w.loops THEN "liquidations" ELSE "off", {}, {})]
  BY DEF Init
<1>2. /\ w.asks \subseteq Requests /\ w.rows \in [Positions -> Rows] /\ w.prices \subseteq Prices
      /\ w.moves \in Nat /\ w.runs \in Nat /\ Opening \in [Users -> Nat] /\ MaxTrouble \in Nat
      /\ \A p, q \in Positions :
             w.rows[p].status = "open" /\ w.rows[q].status = "open" =>
                 /\ w.rows[p].margin >= 0
                 /\ w.rows[p].user = w.rows[q].user /\ w.rows[p].pair = w.rows[q].pair => p = q
  BY FuturesAssumption
<1>3. /\ balance = Opening /\ order = [o \in Orders |-> None] /\ job = [v \in Workers |-> Idle]
      /\ paid = [p \in Positions |-> 0] /\ executed = [o \in Orders |-> <<>>] /\ lapses = {} /\ trouble = 0
  BY DEF Init
<1>4. \A v \in Workers : job[v] = Idle /\ ~AtWork(job[v]) /\ ~Busy(v) /\ ~Opens(job[v])
  BY <1>3 DEF AtWork, Idle, Busy, Opens
<1>5. /\ \A l \in Loops : /\ sweep[l] \in [phase : {"off", "orders", "levels", "liquidations"},
                                           orders : SUBSET Orders, rows : SUBSET [id : Positions, row : Rows]]
                          /\ sweep[l].orders = {} /\ sweep[l].rows = {}
      /\ \A h \in Hourly : /\ funding[h] \in [rows : SUBSET [id : Positions, row : Rows], runs : Nat]
                           /\ funding[h].rows = {}
  BY <1>1, <1>2 DEF Listed
<1>6. locked \in [Users -> Nat]
  <2>1. \A u \in Users : Margins(w.rows, u) \in Nat
    BY <1>2, MarginsType
  <2> QED  BY <1>1, <2>1
<1>7. price \in [Pairs -> Prices]
  BY <1>1, <1>2
<1>8. job \in [Workers -> Jobs]
  BY <1>3 DEF Jobs
<1>9. executed \in [Orders -> Seq(Workers)] /\ \A o \in Orders : executed[o] = <<>> /\ Len(executed[o]) = 0
                                                                /\ DOMAIN executed[o] = {}
  BY <1>3
<1>10. order \in [Orders -> {None, "open", "filled", "cancelled"}] /\ \A o \in Orders : order[o] = None
  BY <1>3
<1>11. TypeInv
  <2>1. sweep \in [Loops -> [phase : {"off", "orders", "levels", "liquidations"},
                             orders : SUBSET Orders, rows : SUBSET [id : Positions, row : Rows]]]
    BY <1>1, <1>5
  <2>2. funding \in [Hourly -> [rows : SUBSET [id : Positions, row : Rows], runs : Nat]]
    BY <1>1, <1>5
  <2>3. balance \in [Users -> Int] /\ pos \in [Positions -> Rows] /\ waiting \subseteq Requests /\ moves \in Nat
        /\ trouble \in 0..MaxTrouble /\ paid \in [Positions -> Nat]
    BY <1>1, <1>2, <1>3
  <2>4. \A r \in waiting : job[r] = Idle
    BY <1>4, <2>3 DEF Workers
  <2>5. \A o \in Orders : order[o] = "open" => Acceptable(Ticket[o].terms)
    BY <1>10 DEF None
  <2> QED  BY <1>4, <1>5, <1>6, <1>7, <1>8, <1>9, <1>10, <2>1, <2>2, <2>3, <2>4, <2>5 DEF TypeInv
<1>12. InUse
  BY <1>3, <1>4, <1>5 DEF InUse
<1>13. Alone
  BY <1>1, <1>2, <1>4 DEF Alone, OpenPositions
<1>14. PaidOnce
  BY <1>3 DEF PaidOnce
<1>15. ExecutedOnce
  BY <1>4, <1>5, <1>9, <1>10 DEF ExecutedOnce, OrderOnce, Executing, None
<1> QED  BY <1>11, <1>12, <1>13, <1>14, <1>15 DEF FuturesInv

\* Every step of the system keeps the invariant.
LEMMA NextPreserves == ASSUME FuturesInv, [Next]_vars PROVE FuturesInv'
<1>1. CASE HandlerStep
  <2>1. PICK r \in Requests :
        \/ OpenPosition(r) \/ CreateMarketOrder(r) \/ CreateRestingOrder(r) \/ CancelOrder(r)
        \/ HandlesPosition(r)
    BY <1>1 DEF HandlerStep, HandlesPosition
  <2> QED  BY <2>1, HandlerPreserves
<1>2. CASE \E l \in Loops : LoopStep(l)
  BY <1>2, LoopPreserves, JobPreserves DEF LoopStep, Workers
<1>3. CASE \E h \in Hourly : HourlyStep(h)
  BY <1>3, HourlyPreserves, JobPreserves DEF HourlyStep, Workers
<1>4. CASE \E r \in Requests : JobStep(r)
  BY <1>4, JobPreserves DEF Workers
<1>5. CASE \E p \in Pairs : MoveFeed(p)
  BY <1>5, FeedPreserves
<1>6. CASE Crash
  BY <1>6, CrashPreserves
<1>7. CASE UNCHANGED vars
  BY <1>7, StutterPreserves
<1> QED  BY <1>1, <1>2, <1>3, <1>4, <1>5, <1>6, <1>7 DEF Next

\* The invariant holds in every state.
THEOREM InvAlways == Spec => []FuturesInv
<1>1. Init => FuturesInv
  BY InitInvariant
<1>2. FuturesInv /\ [Next]_vars => FuturesInv'
  BY NextPreserves
<1> QED  BY <1>1, <1>2, PTL DEF Spec

\* Every variable holds what the code can put there; a job in the middle of a
\* netting has its second half, and no lock and no size becomes negative.
THEOREM TypeCorrect == Spec => []TypeOK
<1>1. FuturesInv => TypeOK
  <2> SUFFICES ASSUME TypeInv PROVE TypeOK
    BY DEF FuturesInv
  <2>1. \A w \in Workers :
           /\ job[w].at \in {"idle", "settle", "reserve", "save", "status"}
           /\ job[w].at \in {"settle", "reserve", "save"} =>
                  job[w].row \in Rows /\ job[w].id \in Positions \cup {New} /\ (job[w].id = New => job[w].kind = "open")
           /\ job[w].at = "status" => job[w].order \in Orders
    <3> SUFFICES ASSUME NEW w \in Workers
                 PROVE  /\ job[w].at \in {"idle", "settle", "reserve", "save", "status"}
                        /\ job[w].at \in {"settle", "reserve", "save"} =>
                               /\ job[w].row \in Rows /\ job[w].id \in Positions \cup {New}
                               /\ job[w].id = New => job[w].kind = "open"
                        /\ job[w].at = "status" => job[w].order \in Orders
      OBVIOUS
    <3>1. job[w] \in Jobs
      BY DEF TypeInv
    <3> QED  BY <3>1, JobShape DEF AtWork, Tasks, Coherent
  <2> QED  BY <2>1 DEF TypeInv, TypeOK
<1> QED  BY <1>1, InvAlways, PTL

\* A user has one open position in a pair, whatever handlers and loops open and
\* close, as long as no two operations of the user in the pair overlap.
THEOREM OnePosition == Spec => []OneOpenPosition
<1>1. FuturesInv => OneOpenPosition
  BY DEF FuturesInv, Alone, OneOpenPosition
<1> QED  BY <1>1, InvAlways, PTL

\* A position is paid out once and an order is executed once, whatever came
\* before, as long as none of the named lapses happens.
THEOREM AllDoneOnce == Spec => []DoneOnce
<1>1. FuturesInv => DoneOnce
  BY DEF FuturesInv, PaidOnce, PayTwice, ExecutedOnce, ExecuteTwice, OrderOnce, DoneOnce
<1> QED  BY <1>1, InvAlways, PTL

-------------------------------------------------------------------------------
(* What is locked is the margin of open positions.  An operation that has     *)
(* locked or unlocked a margin and not saved its row yet counts with the row   *)
(* that it will save; then the lock of a user is the sum of what he owes in    *)
(* each pair, at any time.                                                   *)

\* The lapses that the equality survives.
Harmless == lapses \subseteq {"unsettled", "status"}

MarginOfRow(row) == IF row.status = "open" THEN row.margin ELSE 0

\* What an operation takes for the margin of its row is what it is, and what it
\* moves is the difference to the row that it saves.
CountsIn(rows, j) ==
    /\ j.next # Idle => j.next.row.margin = j.next.amount
    /\ j.at = "settle" /\ j.kind \in Closings => j.unlock = rows[j.id].margin
    /\ j.at = "settle" /\ j.kind = "partial" =>
           /\ j.row.status = "open" /\ j.row.margin >= 0 /\ j.unlock >= 0
           /\ rows[j.id].margin = j.row.margin + j.unlock
    /\ j.at = "reserve" => j.row.margin = j.amount + IF j.id = New THEN 0 ELSE rows[j.id].margin
    /\ j.at = "save" => \/ j.kind \in Closings
                        \/ j.kind \in {"open", "partial"} /\ j.row.status = "open" /\ j.row.margin >= 0

\* The margin of the open row of a user in a pair.
MarginIn(rows, u, pr) ==
    IF OpenIn(rows, u, pr) = {} THEN 0 ELSE rows[CHOOSE p \in OpenIn(rows, u, pr) : TRUE].margin

\* Who is about to save a row of the user in the pair.
SavingIn(jobs, u, pr) == {w \in Workers : jobs[w].at = "save" /\ jobs[w].user = u /\ jobs[w].pair = pr}

\* What is locked for a user in a pair.
LockIn(rows, jobs, u, pr) ==
    IF SavingIn(jobs, u, pr) = {} THEN MarginIn(rows, u, pr)
    ELSE MarginOfRow(jobs[CHOOSE w \in SavingIn(jobs, u, pr) : TRUE].row)

LocksIn(rows, jobs, u) == [pr \in Pairs |-> LockIn(rows, jobs, u, pr)]

NoneNegative(rows) == \A p \in Positions : rows[p].status = "open" => rows[p].margin >= 0

LocksAdd == \A u \in Users : locked[u] = SumFunctionOnSet(LocksIn(pos, job, u), Pairs)

MarginInv ==
    Harmless => /\ NoneNegative(pos)
                /\ \A w \in Workers : AtWork(job[w]) => CountsIn(pos, job[w])
                /\ LocksAdd

-------------------------------------------------------------------------------
(* The sum of what is locked.                                                *)

\* What is locked in one pair changes, and with it the sum.
LEMMA LockChanges ==
    ASSUME NEW f, NEW g, NEW pr \in Pairs,
           \A x \in Pairs : f[x] \in Nat, g[pr] \in Nat,
           \A x \in Pairs : x # pr => g[x] = f[x]
    PROVE  /\ SumFunctionOnSet(f, Pairs) \in Nat
           /\ f[pr] <= SumFunctionOnSet(f, Pairs)
           /\ SumFunctionOnSet(g, Pairs) = SumFunctionOnSet(f, Pairs) - f[pr] + g[pr]
<1>1. IsFiniteSet(Pairs)
  BY FuturesAssumption
<1>2. \A x \in Pairs : f[x] \in Int /\ g[x] \in Int
  OBVIOUS
<1>3. SumFunctionOnSet(f, Pairs) \in Nat /\ f[pr] <= SumFunctionOnSet(f, Pairs)
  BY <1>1, SumOfNaturals
<1>4. SumFunctionOnSet(g, Pairs) = SumFunctionOnSet(f, Pairs) - f[pr] + g[pr]
  BY <1>1, <1>2, SumUpdate
<1> QED  BY <1>3, <1>4

\* The margin of the only open row.
LEMMA MarginOfOne ==
    ASSUME NEW rows, NEW u, NEW pr, NEW p, OpenIn(rows, u, pr) = {p}
    PROVE  MarginIn(rows, u, pr) = rows[p].margin
BY DEF MarginIn

\* What is locked in a pair is a number.
LEMMA LockType ==
    ASSUME NEW rows \in [Positions -> Rows], NoneNegative(rows), NEW jobs \in [Workers -> Jobs],
           \A w \in Workers : AtWork(jobs[w]) => CountsIn(rows, jobs[w]), NEW u, NEW pr
    PROVE  LockIn(rows, jobs, u, pr) \in Nat
<1>1. MarginIn(rows, u, pr) \in Nat
  <2>1. CASE OpenIn(rows, u, pr) = {}
    BY <2>1 DEF MarginIn
  <2>2. CASE OpenIn(rows, u, pr) # {}
    <3>1. PICK p : p = CHOOSE q \in OpenIn(rows, u, pr) : TRUE
      OBVIOUS
    <3>2. p \in OpenIn(rows, u, pr)
      BY <2>2, <3>1
    <3>3. rows[p] \in Rows /\ rows[p].margin >= 0
      BY <3>2 DEF OpenIn, NoneNegative
    <3>4. rows[p].margin \in Nat
      BY <3>3 DEF Rows
    <3> QED  BY <2>2, <3>1, <3>4 DEF MarginIn
  <2> QED  BY <2>1, <2>2
<1>2. CASE SavingIn(jobs, u, pr) # {}
  <2>1. PICK w : w = CHOOSE v \in SavingIn(jobs, u, pr) : TRUE
    OBVIOUS
  <2>2. w \in Workers /\ jobs[w] \in Jobs /\ jobs[w].at = "save"
    BY <1>2, <2>1 DEF SavingIn
  <2>3. AtWork(jobs[w]) /\ jobs[w] \in Tasks /\ Coherent(jobs[w]) /\ CountsIn(rows, jobs[w])
    BY <2>2, JobShape DEF AtWork
  <2>4. jobs[w].row.margin \in Int
    BY <2>3 DEF Tasks, Rows
  <2>5. MarginOfRow(jobs[w].row) \in Nat
    BY <2>2, <2>3, <2>4 DEF CountsIn, Coherent, Closings, MarginOfRow
  <2> QED  BY <1>2, <2>1, <2>5 DEF LockIn
<1> QED  BY <1>1, <1>2 DEF LockIn

\* What is locked in a pair where nobody is about to save.
LEMMA LockOfRow ==
    ASSUME NEW rows, NEW jobs, NEW u, NEW pr,
           \A w \in Workers : jobs[w].at = "save" => jobs[w].user # u \/ jobs[w].pair # pr
    PROVE  LockIn(rows, jobs, u, pr) = MarginIn(rows, u, pr)
<1>1. SavingIn(jobs, u, pr) = {}
  BY DEF SavingIn
<1> QED  BY <1>1 DEF LockIn

\* What is locked in a pair where one goroutine is about to save.
LEMMA LockOfJob ==
    ASSUME NEW rows, NEW jobs, NEW u, NEW pr, NEW w \in Workers,
           jobs[w].at = "save" /\ jobs[w].user = u /\ jobs[w].pair = pr,
           \A v \in Workers : jobs[v].at = "save" /\ jobs[v].user = u /\ jobs[v].pair = pr => v = w
    PROVE  LockIn(rows, jobs, u, pr) = MarginOfRow(jobs[w].row)
<1>1. SavingIn(jobs, u, pr) = {w}
  BY DEF SavingIn
<1> QED  BY <1>1 DEF LockIn

\* A step of a goroutine that is of no concern to the user in the pair.
LEMMA LockElsewhere ==
    ASSUME NEW rows \in [Positions -> Rows], NEW new \in [Positions -> Rows],
           NEW jobs, NEW after, NEW u, NEW pr,
           \A p \in Positions :
               \/ new[p] = rows[p]
               \/ /\ new[p].status # "open" \/ new[p].user # u \/ new[p].pair # pr
                  /\ rows[p].status # "open" \/ rows[p].user # u \/ rows[p].pair # pr,
           \A w \in Workers :
               \/ after[w] = jobs[w]
               \/ /\ after[w].at # "save" \/ after[w].user # u \/ after[w].pair # pr
                  /\ jobs[w].at # "save" \/ jobs[w].user # u \/ jobs[w].pair # pr
    PROVE  LockIn(new, after, u, pr) = LockIn(rows, jobs, u, pr)
<1>1. OpenIn(new, u, pr) = OpenIn(rows, u, pr) /\ \A p \in OpenIn(rows, u, pr) : new[p] = rows[p]
  BY DEF OpenIn
<1>2. MarginIn(new, u, pr) = MarginIn(rows, u, pr)
  <2>1. CASE OpenIn(rows, u, pr) = {}
    BY <1>1, <2>1 DEF MarginIn
  <2>2. CASE OpenIn(rows, u, pr) # {}
    <3>1. (CHOOSE p \in OpenIn(rows, u, pr) : TRUE) \in OpenIn(rows, u, pr)
      BY <2>2
    <3> QED  BY <1>1, <2>2, <3>1 DEF MarginIn
  <2> QED  BY <2>1, <2>2
<1>3. SavingIn(after, u, pr) = SavingIn(jobs, u, pr) /\ \A w \in SavingIn(jobs, u, pr) : after[w] = jobs[w]
  BY DEF SavingIn
<1>4. CASE SavingIn(jobs, u, pr) = {}
  BY <1>2, <1>3, <1>4 DEF LockIn
<1>5. CASE SavingIn(jobs, u, pr) # {}
  <2>1. (CHOOSE w \in SavingIn(jobs, u, pr) : TRUE) \in SavingIn(jobs, u, pr)
    BY <1>5
  <2> QED  BY <1>3, <1>5, <2>1 DEF LockIn
<1> QED  BY <1>4, <1>5

-------------------------------------------------------------------------------
(* How an operation begins, and the margin that it will move.                *)

\* The goroutine w begins an operation, of which the margins are right if its copy is.
StartsCounting(w) ==
    \E j \in Jobs :
        /\ job[w] = Idle /\ job' = [job EXCEPT ![w] = j] /\ j.at # "save"
        /\ AtWork(j) /\ "overlap" \notin lapses' => CountsIn(pos, j)

\* An operation on a position that has one (On).
LEMMA OnCounts ==
    ASSUME TypeInv, NEW w \in Workers, job[w] = Idle, NEW kind \in Kinds \ {"open"}, NEW p \in Positions,
           NEW row \in Rows, NEW unlock \in Int, NEW delta \in Int, NEW stale \in BOOLEAN,
           row.status \in IF kind \in Closings THEN {"closed", "liquidated"} ELSE {"open", "liquidated"},
           ~stale => /\ kind \in Closings => unlock = pos[p].margin
                     /\ kind = "partial" => /\ row.status = "open" /\ row.margin >= 0 /\ unlock >= 0
                                            /\ pos[p].margin = row.margin + unlock,
           Begin(w, On(kind, p, row, unlock, delta), stale)
    PROVE  StartsCounting(w)
<1> DEFINE j == On(kind, p, row, unlock, delta)
<1>1. /\ j \in Jobs /\ AtWork(j) /\ j.at = "settle" /\ j.kind = kind /\ j.id = p /\ j.row = row /\ j.next = Idle
  BY OnJob
<1>2. j.unlock = unlock
  BY DEF On
<1>3. job' = [job EXCEPT ![w] = j] /\ lapses' = lapses \cup Overlaps(w, j.user, j.pair, stale)
  BY DEF Begin
<1> HIDE DEF j
<1>4. "overlap" \notin lapses' => ~stale
  BY <1>3 DEF Overlaps
<1>5. ~stale => CountsIn(pos, j)
  BY <1>1, <1>2 DEF CountsIn
<1> QED  BY <1>1, <1>3, <1>4, <1>5 DEF StartsCounting

\* closePosition unlocks the whole margin.
LEMMA ClosingCounts ==
    ASSUME TypeInv, NEW w \in Workers, job[w] = Idle, NEW p \in Positions, NEW row \in Rows,
           NEW mark \in Nat, NEW stale \in BOOLEAN,
           ~stale => pos[p] = row, Begin(w, Closing(p, row, mark), stale)
    PROVE  StartsCounting(w)
<1> DEFINE closed == [row EXCEPT !.status = "closed"]
<1>1. closed \in Rows /\ closed.status = "closed"
  BY ClosedRow
<1>2. row.margin \in Int /\ calcFuturesPnL(row, mark) \in Int
  BY ProfitType DEF Rows
<1>3. Begin(w, On("close", p, closed, row.margin, calcFuturesPnL(row, mark)), stale)
  BY DEF Closing
<1>4. "close" \in Kinds \ {"open"} /\ "close" \in Closings
  BY DEF Kinds, Closings
<1> HIDE DEF closed
<1> QED  BY <1>1, <1>2, <1>3, <1>4, OnCounts

\* A liquidation unlocks the whole margin.
LEMMA LiquidationCounts ==
    ASSUME TypeInv, NEW w \in Workers, job[w] = Idle, NEW p \in Positions, NEW row \in Rows,
           NEW kind \in {"liquidate", "scan"}, NEW stale \in BOOLEAN,
           ~stale => pos[p] = row, Begin(w, Liquidation(kind, p, row), stale)
    PROVE  StartsCounting(w)
<1> DEFINE closed == [row EXCEPT !.status = "liquidated"]
<1>1. closed \in Rows /\ closed.status = "liquidated"
  BY ClosedRow
<1>2. row.margin \in Int /\ -row.margin \in Int
  BY DEF Rows
<1>3. Begin(w, On(kind, p, closed, row.margin, -row.margin), stale)
  BY DEF Liquidation
<1>4. kind \in Kinds \ {"open"} /\ kind \in Closings
  BY DEF Kinds, Closings
<1> HIDE DEF closed
<1> QED  BY <1>1, <1>2, <1>3, <1>4, OnCounts

\* The part of the margin that a partial close unlocks is no more than the margin.
LEMMA PartOfMargin ==
    ASSUME NEW m \in Nat, NEW q \in Nat \ {0}, NEW a \in 1..q
    PROVE  (m * a) \div q \in 0..m
<1>1. m * a \in Nat /\ m * q \in Nat
  BY NaturalProduct
<1>2. m * a <= m * q
  <2>1. PICK d : d = q - a
    OBVIOUS
  <2>2. d \in Nat /\ q = a + d /\ a \in Nat
    BY <2>1
  <2>3. m * q = m * a + m * d
    BY <2>2
  <2>4. m * d \in Nat
    BY <2>2, NaturalProduct
  <2> QED  BY <1>1, <2>3, <2>4
<1>3. PICK x, y : x = m * a /\ y = m * q
  OBVIOUS
<1>4. PICK z : z = x \div q
  OBVIOUS
<1>5. z \in Nat /\ q * z <= x
  BY <1>1, <1>3, <1>4, NaturalQuotient, SMTT(30)
<1>6. z <= m
  <2>1. SUFFICES ASSUME z > m PROVE FALSE
    BY <1>5
  <2>2. PICK d : d = z - m - 1
    OBVIOUS
  <2>3. d \in Nat /\ z = m + 1 + d
    BY <1>5, <2>1, <2>2
  <2>4. q * z = q * m + q + q * d
    BY <2>3
  <2>5. q * d \in Nat /\ q * m = y
    BY <1>3, <2>3, NaturalProduct
  <2> QED  BY <1>1, <1>2, <1>3, <1>5, <2>4, <2>5
<1> QED  BY <1>3, <1>4, <1>5, <1>6

\* The handlers of a position move the margin of the row as it is.
LEMMA PositionHandlerCounts ==
    ASSUME TypeInv, NoneNegative(pos), NEW r \in Requests, HandlesPosition(r)
    PROVE  StartsCounting(r)
<1>0. PICK p \in Positions :
        \/ ClosePosition(r, p) \/ ClosePositionPartial(r, p) \/ AddMargin(r, p)
        \/ ReduceMargin(r, p) \/ LiquidatePosition(r, p)
  BY DEF HandlesPosition
<1> DEFINE row == pos[p]
           amt == Ask[r].amount
           mark == liveMarkPrice(row.pair)
<1>1. row \in Rows
  BY DEF TypeInv
<1>2. mark \in Nat /\ row.margin \in Int /\ row.qty \in Nat /\ calcFuturesPnL(row, mark) \in Int
  <2>1. row.pair \in Pairs /\ row.margin \in Int /\ row.qty \in Nat
    BY <1>1 DEF Rows
  <2>2. mark \in Nat
    BY <2>1, TypeRows, PriceType
  <2> QED  BY <1>1, <2>1, <2>2, ProfitType
<1>3. r \in Workers /\ job[r] = Idle
  BY <1>0, WaitingIdle DEF ClosePosition, ClosePositionPartial, AddMargin, ReduceMargin,
     LiquidatePosition, TakeFor
<1>4. CASE ClosePosition(r, p)
  <2>1. Begin(r, Closing(p, row, mark), FALSE)
    BY <1>4 DEF ClosePosition
  <2> QED  BY <1>1, <1>2, <1>3, <2>1, ClosingCounts
<1>5. CASE ClosePositionPartial(r, p)
  <2> DEFINE margin == (row.margin * amt) \div row.qty
             pnl == (calcFuturesPnL(row, mark) * amt) \div row.qty
             less == [row EXCEPT !.qty = @ - amt, !.margin = @ - margin]
  <2>1. row.status = "open" /\ amt \in 1..row.qty /\ row.margin \in Nat
    BY <1>2, <1>5 DEF ClosePositionPartial, TakeFor, NoneNegative
  <2>2. CASE amt = row.qty
    <3>1. Begin(r, Closing(p, row, mark), FALSE)
      BY <1>5, <2>2 DEF ClosePositionPartial
    <3> QED  BY <1>1, <1>2, <1>3, <3>1, ClosingCounts
  <2>3. CASE amt # row.qty
    <3>1. Begin(r, On("partial", p, less, margin, pnl), FALSE)
      BY <1>5, <2>3 DEF ClosePositionPartial
    <3>2. calcFuturesPnL(row, mark) * amt \in Int /\ row.qty \in Nat \ {0}
      BY <1>2, <2>1
    <3>3. margin \in 0..row.margin
      BY <2>1, <3>2, PartOfMargin
    <3>4. pnl \in Int
      BY <3>2, IntegerQuotient
    <3> HIDE DEF margin, pnl
    <3>5. row.qty - amt \in Nat /\ row.margin - margin \in Nat /\ row.margin - margin + margin = row.margin
      BY <1>2, <2>1, <3>3
    <3>6. PICK q, m : q = row.qty - amt /\ m = row.margin - margin
      OBVIOUS
    <3>7. PICK r0 : r0 = row
      OBVIOUS
    <3>8. less = [r0 EXCEPT !.qty = q, !.margin = m]
      BY <3>6, <3>7
    <3> HIDE DEF less
    <3>9. less \in Rows /\ less.status = "open" /\ less.margin = m
      <4>1. r0 \in Rows /\ q \in Nat /\ m \in Int /\ r0.status = "open"
        BY <1>1, <2>1, <3>5, <3>6, <3>7
      <4> QED  BY ONLY <4>1, <3>8 DEF Rows
    <3>10. "partial" \in Kinds \ {"open"} /\ "partial" \notin Closings
      BY DEF Kinds, Closings
    <3>11. margin \in Int /\ margin >= 0 /\ less.margin >= 0 /\ pos[p].margin = less.margin + margin
      BY <3>3, <3>5, <3>6, <3>9
    <3> HIDE DEF row
    <3> QED  BY <1>3, <3>1, <3>4, <3>9, <3>10, <3>11, OnCounts
  <2> QED  BY <2>2, <2>3
<1>6. CASE AddMargin(r, p)
  <2> DEFINE more == [row EXCEPT !.margin = @ + amt]
  <2>1. row.status \in {"open", "liquidated"} /\ Begin(r, On("add", p, more, 0, -amt), FALSE)
    BY <1>6 DEF AddMargin, TakeFor
  <2>2. amt \in Nat
    BY <1>6, FuturesAssumption DEF AddMargin, TakeFor, Take, OnPosition
  <2>3. more \in Rows /\ more.status = row.status
    <3>1. row.margin + amt \in Int
      BY <1>2, <2>2
    <3> QED  BY <1>1, <3>1, ChangedRow
  <2>4. "add" \in Kinds \ {"open"} /\ "add" \notin Closings /\ 0 \in Int /\ -amt \in Int
    BY <2>2 DEF Kinds, Closings
  <2> HIDE DEF more
  <2> QED  BY <1>3, <2>1, <2>3, <2>4, OnCounts
<1>7. CASE ReduceMargin(r, p)
  <2> DEFINE less == [row EXCEPT !.margin = @ - amt]
  <2>1. row.status \in {"open", "liquidated"} /\ Begin(r, On("reduce", p, less, 0, amt), FALSE)
    BY <1>7 DEF ReduceMargin, TakeFor
  <2>2. amt \in Nat
    BY <1>7, FuturesAssumption DEF ReduceMargin, TakeFor, Take, OnPosition
  <2>3. less \in Rows /\ less.status = row.status
    <3>1. row.margin - amt \in Int
      BY <1>2, <2>2
    <3> QED  BY <1>1, <3>1, ChangedRow
  <2>4. "reduce" \in Kinds \ {"open"} /\ "reduce" \notin Closings /\ 0 \in Int /\ amt \in Int
    BY <2>2 DEF Kinds, Closings
  <2> HIDE DEF less
  <2> QED  BY <1>3, <2>1, <2>3, <2>4, OnCounts
<1>8. CASE LiquidatePosition(r, p)
  <2>1. Begin(r, Liquidation("liquidate", p, row), FALSE)
    BY <1>8 DEF LiquidatePosition
  <2> QED  BY <1>1, <1>3, <2>1, LiquidationCounts
<1> QED  BY <1>0, <1>4, <1>5, <1>6, <1>7, <1>8

\* What a netting reserves is the margin that it adds to the row (Adding).
LEMMA AddingCounts ==
    ASSUME NEW p \in Positions \cup {New}, NEW row \in Rows, NEW t \in Terms, Acceptable(t),
           NEW entry \in Nat, NEW o \in Orders \cup {None}, row.status = "open",
           row.margin = calcMargin(entry, t.qty, t.lev) + IF p = New THEN 0 ELSE pos[p].margin
    PROVE  LET j == Adding(p, row, entry, t, o) IN
           j.at = "reserve" /\ j.row = row /\ j.amount = calcMargin(entry, t.qty, t.lev) /\ CountsIn(pos, j)
<1> DEFINE j == Adding(p, row, entry, t, o)
<1>1. IsAdding(j, p, row, o)
  BY AddingJob
<1>2. j.amount = calcMargin(entry, t.qty, t.lev)
  <2> HIDE DEF calcMargin
  <2>1. PICK m : m = calcMargin(entry, t.qty, t.lev)
    OBVIOUS
  <2> QED  BY <2>1, Zenon DEF Adding, On
<1> HIDE DEF j, calcMargin
<1>3. CountsIn(pos, j)
  BY <1>1, <1>2 DEF CountsIn, IsAdding
<1> QED  BY <1>1, <1>2, <1>3 DEF IsAdding, j

\* netPosition moves the margins of the rows as they are.
LEMMA NettingCounts ==
    ASSUME RowsTyped, NEW t \in Terms, Acceptable(t), NEW entry \in Nat,
           NEW o \in Orders \cup {None}
    PROVE  CountsIn(pos, Netting(t, entry, o)) /\ Netting(t, entry, o).at # "save"
<1> DEFINE j == Netting(t, entry, o)
           first == FreshRow(entry, t)
           fresh == Adding(New, first, entry, t, o)
           amount == calcMargin(entry, t.qty, t.lev)
<1>0. amount \in Nat
  BY MarginType
<1>1. first \in Rows /\ first.status = "open" /\ first.margin = amount
  BY FreshRowType DEF FreshRow
<1> HIDE DEF amount, first
<1>2. /\ fresh.at = "reserve" /\ fresh.row = first /\ fresh.amount = amount /\ CountsIn(pos, fresh)
  <2>1. New \in Positions \cup {New} /\ first.margin = amount + IF New = New THEN 0 ELSE pos[New].margin
    BY <1>0, <1>1
  <2> QED  BY <1>1, <2>1, AddingCounts DEF amount
<1>3. CASE NetPosition(t) = {}
  <2>1. j = fresh
    BY <1>3 DEF Netting, first
  <2> HIDE DEF fresh
  <2> QED  BY <1>2, <2>1
<1>4. CASE NetPosition(t) # {}
  <2> DEFINE p == Newest(NetPosition(t))
  <2>1. p \in NetPosition(t)
    BY <1>4, NewestIn DEF NetPosition, OpenPositions
  <2> HIDE DEF p
  <2>2. p \in Positions /\ p # New /\ pos[p] \in Rows /\ pos[p].status = "open"
    BY <2>1, PositionsAre DEF NetPosition, OpenPositions, RowsTyped
  <2>3. CASE pos[p].side = t.side
    <3> DEFINE row == Merged(pos[p], entry, t)
    <3>1. j = Adding(p, row, entry, t, o)
      BY <1>4, <2>3 DEF Netting, p
    <3>2. row \in Rows /\ row.status = "open"
      BY <2>2, MergedType
    <3>3. row.margin = amount + IF p = New THEN 0 ELSE pos[p].margin
      <4>1. row.margin = pos[p].margin + amount
        <5> HIDE DEF calcMargin
        <5>1. PICK q, e, r0 : q = pos[p].qty + t.qty /\ r0 = pos[p]
                              /\ e = (pos[p].entry * pos[p].qty + entry * t.qty) \div (pos[p].qty + t.qty)
          OBVIOUS
        <5>2. row = [r0 EXCEPT !.entry = e, !.qty = q, !.margin = r0.margin + amount]
          BY <5>1 DEF Merged, amount
        <5>3. r0 \in Rows
          BY <2>2, <5>1
        <5> HIDE DEF row
        <5> QED  BY <5>1, <5>2, <5>3 DEF Rows
      <4> HIDE DEF row
      <4> QED  BY <1>0, <2>2, <4>1 DEF Rows
    <3> HIDE DEF row
    <3>4. CountsIn(pos, Adding(p, row, entry, t, o)) /\ Adding(p, row, entry, t, o).at = "reserve"
      BY <2>2, <3>2, <3>3, AddingCounts DEF amount
    <3> QED  BY <3>1, <3>4
  <2>4. CASE pos[p].side # t.side
    <3> DEFINE c == Closing(p, pos[p], liveMarkPrice(t.pair))
    <3>1. j = [c EXCEPT !.next = fresh]
      BY <1>4, <2>4 DEF Netting, p, first
    <3>2. c.at = "settle" /\ c.kind = "close" /\ c.id = p /\ c.unlock = pos[p].margin
          /\ DOMAIN c = {"at", "kind", "user", "pair", "id", "row", "unlock", "delta", "amount", "next", "order", "verdict"}
      BY DEF Closing, On
    <3> HIDE DEF c, fresh
    <3>3. j.at = "settle" /\ j.kind = "close" /\ j.id = p /\ j.unlock = pos[p].margin /\ j.next = fresh
      BY <3>1, <3>2
    <3> QED  BY <1>0, <1>1, <1>2, <3>3 DEF CountsIn
  <2> QED  BY <2>3, <2>4
<1> QED  BY <1>3, <1>4

\* Levels and the order that an operation is for do not move margins.
LEMMA LevelsCount ==
    ASSUME NEW j \in Tasks, CountsIn(pos, j), j.at # "save", NEW tp \in Nat, NEW sl \in Nat
    PROVE  /\ CountsIn(pos, [j EXCEPT !.row.tp = tp, !.row.sl = sl])
           /\ [j EXCEPT !.row.tp = tp, !.row.sl = sl].at # "save"
<1> DEFINE k == [j EXCEPT !.row.tp = tp, !.row.sl = sl]
<1>1. /\ k.at = j.at /\ k.kind = j.kind /\ k.id = j.id /\ k.unlock = j.unlock /\ k.amount = j.amount
      /\ k.next = j.next
      /\ k.row.status = j.row.status /\ k.row.margin = j.row.margin
  BY DEF Tasks, Rows
<1> HIDE DEF k
<1>2. CountsIn(pos, k) /\ k.at # "save"
  BY <1>1 DEF CountsIn
<1> QED  BY <1>2 DEF k

\* OpenPosition begins an operation that moves the margins as they are.
LEMMA OpenCounts ==
    ASSUME TypeInv, NEW r \in Requests, OpenPosition(r)
    PROVE  UNCHANGED job \/ StartsCounting(r)
<1> DEFINE t == Ask[r].terms
           entry == IF t.price > 0 THEN t.price ELSE liveMarkPrice(t.pair)
           j == Netting(t, entry, None)
<1>1. CASE ~Acceptable(t)
  BY <1>1 DEF OpenPosition
<1>2. CASE Acceptable(t)
  <2>1. t \in Terms
    BY FuturesAssumption DEF OpenPosition, Take, OnPosition
  <2>2. entry \in Nat
    <3>1. t.pair \in Pairs /\ t.price \in Nat
      BY <2>1 DEF Terms
    <3> QED  BY <3>1, TypeRows, PriceType
  <2> HIDE DEF entry
  <2>3. Begun(j, t.user, t.pair, None) /\ CountsIn(pos, j) /\ j.at # "save"
    BY <1>2, <2>1, <2>2, TypeRows, NettingJob, NettingCounts
  <2>4. j \in Tasks /\ AtWork(j)
    BY <2>3, JobShape DEF Begun
  <2>5. r \in Workers /\ job[r] = Idle
    BY WaitingIdle DEF OpenPosition
  <2>6. job' = [job EXCEPT ![r] = GivenLevels(j, t)]
    BY <1>2 DEF OpenPosition, Begin, entry
  <2>7. PICK k : k = j
    OBVIOUS
  <2> HIDE DEF j
  <2>8. CASE ~IsMerge(k)
    BY <2>3, <2>4, <2>5, <2>6, <2>7, <2>8 DEF GivenLevels, StartsCounting, Begun
  <2>9. CASE IsMerge(k)
    <3> DEFINE tp == IF t.tp > 0 THEN t.tp ELSE k.row.tp
               sl == IF t.sl > 0 THEN t.sl ELSE k.row.sl
    <3>1. tp \in Nat /\ sl \in Nat
      BY <2>1, <2>4, <2>7 DEF Terms, Tasks, Rows
    <3>2. GivenLevels(k, t) = [k EXCEPT !.row.tp = tp, !.row.sl = sl]
      BY <2>4, <2>7, <2>9 DEF GivenLevels, Tasks, Rows
    <3> HIDE DEF tp, sl
    <3> DEFINE m == [k EXCEPT !.row.tp = tp, !.row.sl = sl]
    <3>3. CountsIn(pos, m) /\ m.at # "save"
      BY <2>3, <2>4, <2>7, <3>1, LevelsCount
    <3>4. Begun(m, t.user, t.pair, None)
      BY <2>3, <2>7, <3>1, LevelsJob
    <3> HIDE DEF m
    <3>5. m \in Jobs
      BY <3>4 DEF Begun
    <3>6. job' = [job EXCEPT ![r] = m]
      BY <2>6, <2>7, <3>2 DEF m
    <3> QED  BY <2>5, <3>3, <3>5, <3>6 DEF StartsCounting
  <2> QED  BY <2>8, <2>9
<1> QED  BY <1>1, <1>2

\* So does an order that is executed, at once or by the loop.
LEMMA OrderCounts ==
    ASSUME TypeInv, NEW w \in Workers, job[w] = Idle, NEW o \in Orders, Acceptable(Ticket[o].terms), NEW k,
           LET t == Ticket[o].terms  j == OrderLevels(Netting(t, liveMarkPrice(t.pair), o), t) IN
           k = j \/ (IsMerge(j) /\ k = [j EXCEPT !.order = None]),
           job' = [job EXCEPT ![w] = k]
    PROVE  StartsCounting(w)
<1> DEFINE t == Ticket[o].terms
           n == Netting(t, liveMarkPrice(t.pair), o)
           j == OrderLevels(n, t)
<1>1. t \in Terms
  BY FuturesAssumption
<1>2. t.tp \in Nat /\ t.sl \in Nat /\ liveMarkPrice(t.pair) \in Nat
  BY <1>1, TypeRows, PriceType DEF Terms
<1>3. Begun(n, t.user, t.pair, o) /\ CountsIn(pos, n) /\ n.at # "save"
  BY <1>1, <1>2, TypeRows, NettingJob, NettingCounts
<1>4. n \in Tasks
  BY <1>3, JobShape DEF Begun
<1>5. k = j \/ (IsMerge(j) /\ k = [j EXCEPT !.order = None])
  OBVIOUS
<1> HIDE DEF n
<1>6. Begun(j, t.user, t.pair, o) /\ CountsIn(pos, j) /\ j.at # "save"
  <2>1. PICK m : m = n
    OBVIOUS
  <2>2. PICK tp, sl, u, pr : tp = t.tp /\ sl = t.sl /\ u = t.user /\ pr = t.pair
    OBVIOUS
  <2>3. j = IF IsMerge(m) THEN [m EXCEPT !.row.tp = tp, !.row.sl = sl] ELSE m
    BY <2>1, <2>2 DEF OrderLevels
  <2>4. Begun(m, u, pr, o) /\ CountsIn(pos, m) /\ m.at # "save" /\ m \in Tasks /\ tp \in Nat /\ sl \in Nat
    BY <1>2, <1>3, <1>4, <2>1, <2>2
  <2> HIDE DEF j
  <2>5. CASE ~IsMerge(m)
    BY <2>2, <2>3, <2>4, <2>5
  <2>6. CASE IsMerge(m)
    <3>1. j = [m EXCEPT !.row.tp = tp, !.row.sl = sl]
      BY <2>3, <2>6
    <3>2. Begun([m EXCEPT !.row.tp = tp, !.row.sl = sl], u, pr, o)
      BY <2>4, LevelsJob
    <3>3. CountsIn(pos, [m EXCEPT !.row.tp = tp, !.row.sl = sl])
          /\ [m EXCEPT !.row.tp = tp, !.row.sl = sl].at # "save"
      BY <2>4, LevelsCount
    <3> QED  BY <2>2, <3>1, <3>2, <3>3
  <2> QED  BY <2>5, <2>6
<1> HIDE DEF j
<1>7. j \in Jobs /\ j \in Tasks /\ Coherent(j) /\ AtWork(j)
  BY <1>6, JobShape DEF Begun
<1>8. CASE k = j
  BY <1>6, <1>7, <1>8 DEF StartsCounting
<1>9. CASE IsMerge(j) /\ k = [j EXCEPT !.order = None]
  <2>1. k \in Tasks /\ Coherent(k)
    BY <1>7, <1>9 DEF Tasks, Coherent, RowOf, IsMerge, AtWork
  <2>2. /\ k.at = j.at /\ k.kind = j.kind /\ k.id = j.id /\ k.unlock = j.unlock /\ k.amount = j.amount
        /\ k.next = j.next /\ k.row = j.row
    BY <1>7, <1>9 DEF Tasks
  <2>3. k \in Jobs /\ CountsIn(pos, k)
    BY <1>6, <2>1, <2>2 DEF Jobs, CountsIn
  <2> QED  BY <1>6, <2>2, <2>3 DEF StartsCounting
<1> QED  BY <1>5, <1>8, <1>9

\* What a request begins.
LEMMA RequestCounts ==
    ASSUME TypeInv, NoneNegative(pos), NEW r \in Requests,
           \/ OpenPosition(r) \/ CreateMarketOrder(r) \/ CreateRestingOrder(r) \/ CancelOrder(r)
           \/ HandlesPosition(r)
    PROVE  UNCHANGED job \/ StartsCounting(r)
<1>1. CASE CreateMarketOrder(r)
  <2> DEFINE o == Ask[r].order
             t == Ticket[o].terms
             j == OrderLevels(Netting(t, liveMarkPrice(t.pair), o), t)
             k == IF IsMerge(j) THEN [j EXCEPT !.order = None] ELSE j
  <2>1. o \in Orders
    BY <1>1, FuturesAssumption DEF CreateMarketOrder, Take, OnPosition
  <2>2. r \in Workers /\ job[r] = Idle
    BY <1>1, WaitingIdle DEF CreateMarketOrder
  <2>3. CASE Acceptable(t)
    <3>1. job' = [job EXCEPT ![r] = k]
      BY <1>1, <2>3 DEF CreateMarketOrder, Begin
    <3>2. k = j \/ (IsMerge(j) /\ k = [j EXCEPT !.order = None])
      OBVIOUS
    <3> HIDE DEF k
    <3> QED  BY <2>1, <2>2, <2>3, <3>1, <3>2, OrderCounts
  <2> QED  BY <1>1, <2>3 DEF CreateMarketOrder
<1>2. CASE CancelOrder(r)
  <2> DEFINE o == Ask[r].order
             t == Ticket[o].terms
             j == [at |-> "status", kind |-> "cancel", user |-> t.user, pair |-> t.pair,
                   order |-> o, verdict |-> "cancelled"]
  <2>1. o \in Orders
    BY <1>2, FuturesAssumption DEF CancelOrder, Take, OnPosition
  <2>2. t \in Terms
    BY <2>1, FuturesAssumption
  <2>3. j \in Jobs /\ ~AtWork(j) /\ j.at # "save"
    BY <2>1, <2>2 DEF Jobs, Cancels, AtWork, Terms
  <2>4. r \in Workers /\ job[r] = Idle
    BY <1>2, WaitingIdle DEF CancelOrder
  <2>5. UNCHANGED job \/ job' = [job EXCEPT ![r] = j]
    BY <1>2 DEF CancelOrder, Begin
  <2> HIDE DEF j
  <2> QED  BY <2>3, <2>4, <2>5 DEF StartsCounting
<1> QED  BY <1>1, <1>2, OpenCounts, PositionHandlerCounts DEF CreateRestingOrder

\* What the ten second loop begins.
LEMMA LoopCounts ==
    ASSUME TypeInv, InUse, NEW l \in Loops,
           \/ NextPhase(l)
           \/ \E o \in sweep[l].orders : ProcessOrder(l, o)
           \/ \E c \in sweep[l].rows : CheckTPSL(l, c) \/ CheckLiquidations(l, c)
    PROVE  UNCHANGED job \/ StartsCounting(l)
<1>1. l \in Workers
  BY DEF Workers
<1>2. ASSUME NEW o \in sweep[l].orders, ProcessOrder(l, o) PROVE UNCHANGED job \/ StartsCounting(l)
  <2> DEFINE t == Ticket[o].terms
             j == OrderLevels(Netting(t, liveMarkPrice(t.pair), o), t)
  <2>1. o \in Orders /\ Acceptable(t) /\ job[l] = Idle
    BY <1>2 DEF TypeInv, ProcessOrder, LoopIdle
  <2>2. UNCHANGED job \/ job' = [job EXCEPT ![l] = j]
    BY <1>2 DEF ProcessOrder
  <2>3. PICK k : k = j
    OBVIOUS
  <2> QED  BY <1>1, <2>1, <2>2, <2>3, OrderCounts
<1>3. ASSUME NEW c \in sweep[l].rows, CheckTPSL(l, c) \/ CheckLiquidations(l, c)
      PROVE  UNCHANGED job \/ StartsCounting(l)
  <2>1. c.id \in Positions /\ c.row \in Rows /\ job[l] = Idle
    BY <1>3, ListedCopies DEF CheckTPSL, CheckLiquidations, LoopIdle
  <2>2. liveMarkPrice(c.row.pair) \in Nat
    BY <2>1, TypeRows, PriceType DEF Rows
  <2>3. (pos[c.id] # c.row) \in BOOLEAN
    OBVIOUS
  <2>4. CASE CheckTPSL(l, c) /\ HitsLevel(c.row)
    <3>1. Begin(l, Closing(c.id, c.row, liveMarkPrice(c.row.pair)), pos[c.id] # c.row)
      BY <2>4 DEF CheckTPSL
    <3> HIDE DEF liveMarkPrice
    <3> QED  BY <1>1, <2>1, <2>2, <2>3, <3>1, ClosingCounts
  <2>5. CASE CheckLiquidations(l, c) /\ isLiquidated(c.row, liveMarkPrice(c.row.pair))
    <3>1. Begin(l, Liquidation("scan", c.id, c.row), pos[c.id] # c.row)
      BY <2>5 DEF CheckLiquidations
    <3> QED  BY <1>1, <2>1, <2>3, <3>1, LiquidationCounts
  <2> QED  BY <1>3, <2>4, <2>5 DEF CheckTPSL, CheckLiquidations
<1> QED  BY <1>2, <1>3 DEF NextPhase

\* What the hourly loop begins.
LEMMA HourlyCounts ==
    ASSUME TypeInv, InUse, NEW h \in Hourly,
           ListForFunding(h) \/ \E c \in funding[h].rows : ApplyFunding(h, c)
    PROVE  UNCHANGED job \/ StartsCounting(h)
<1>1. ASSUME NEW c \in funding[h].rows, ApplyFunding(h, c) PROVE UNCHANGED job \/ StartsCounting(h)
  <2> DEFINE row == c.row
             sign == IF row.side = "long" THEN -1 ELSE 1
             amt == liveMarkPrice(row.pair) * row.qty * FundingRate[row.pair] * sign
             new == [row EXCEPT !.margin = @ + amt]
  <2>1. c.id \in Positions /\ row \in Rows /\ row.status = "open" /\ h \in Workers /\ job[h] = Idle
    BY <1>1, ListedCopies DEF ApplyFunding, Workers
  <2>2. row.margin \in Int /\ row.qty \in Nat /\ row.pair \in Pairs
    BY <2>1 DEF Rows
  <2>3. liveMarkPrice(row.pair) \in Nat /\ FundingRate[row.pair] \in Int /\ sign \in Int
    BY <2>2, TypeRows, PriceType, FuturesAssumption
  <2> HIDE DEF sign
  <2>4. amt \in Int
    BY <2>2, <2>3
  <2>5. CASE ~(liveMarkPrice(row.pair) > Outage)
    BY <1>1, <2>5 DEF ApplyFunding
  <2>6. CASE liveMarkPrice(row.pair) > Outage
    <3>1. Begin(h, On("funding", c.id, new, 0, amt), pos[c.id] # row)
      BY <1>1, <2>6 DEF ApplyFunding, sign
    <3> HIDE DEF amt
    <3>2. row.margin + amt \in Int
      BY <2>2, <2>4
    <3>3. new \in Rows /\ new.status = row.status
      BY <2>1, <3>2, ChangedRow
    <3>4. "funding" \in Kinds \ {"open"} /\ "funding" \notin Closings /\ 0 \in Int
      BY DEF Kinds, Closings
    <3>5. (pos[c.id] # row) \in BOOLEAN
      OBVIOUS
    <3> HIDE DEF new
    <3> QED  BY <2>1, <2>4, <3>1, <3>3, <3>4, <3>5, OnCounts
  <2> QED  BY <2>5, <2>6
<1> QED  BY <1>1 DEF ListForFunding

-------------------------------------------------------------------------------
(* The steps keep the sum.                                                   *)

\* What is locked, when what one operation moves is in one pair of one user.
LEMMA OneLock ==
    ASSUME TypeInv, NoneNegative(pos), \A w \in Workers : AtWork(job[w]) => CountsIn(pos, job[w]), LocksAdd,
           NEW u0 \in Users, NEW pr0 \in Pairs, NEW new, NEW after, LockIn(new, after, u0, pr0) \in Nat,
           \A u \in Users, pr \in Pairs :
               u # u0 \/ pr # pr0 => LockIn(new, after, u, pr) = LockIn(pos, job, u, pr)
    PROVE  /\ LockIn(pos, job, u0, pr0) \in Nat /\ LockIn(pos, job, u0, pr0) <= locked[u0]
           /\ \A u \in Users \ {u0} : locked[u] = SumFunctionOnSet(LocksIn(new, after, u), Pairs)
           /\ SumFunctionOnSet(LocksIn(new, after, u0), Pairs)
                  = locked[u0] - LockIn(pos, job, u0, pr0) + LockIn(new, after, u0, pr0)
<1>0. pos \in [Positions -> Rows] /\ job \in [Workers -> Jobs]
  BY DEF TypeInv
<1>1. \A pr \in Pairs : LockIn(pos, job, u0, pr) \in Nat
  BY <1>0, LockType
<1>2. ASSUME NEW u \in Users \ {u0} PROVE locked[u] = SumFunctionOnSet(LocksIn(new, after, u), Pairs)
  <2>1. LocksIn(new, after, u) = LocksIn(pos, job, u)
    BY DEF LocksIn
  <2> QED  BY <2>1 DEF LocksAdd
<1> DEFINE f == LocksIn(pos, job, u0)
           g == LocksIn(new, after, u0)
<1>3. /\ \A x \in Pairs : f[x] \in Nat /\ (x # pr0 => g[x] = f[x])
      /\ f[pr0] = LockIn(pos, job, u0, pr0) /\ g[pr0] = LockIn(new, after, u0, pr0)
  BY <1>1 DEF LocksIn
<1>4. locked[u0] = SumFunctionOnSet(f, Pairs)
  BY DEF LocksAdd
<1> HIDE DEF f, g
<1>5. g[pr0] \in Nat
  BY <1>3
<1>6. /\ f[pr0] <= SumFunctionOnSet(f, Pairs)
      /\ SumFunctionOnSet(g, Pairs) = SumFunctionOnSet(f, Pairs) - f[pr0] + g[pr0]
  BY <1>3, <1>5, LockChanges
<1>7. SumFunctionOnSet(g, Pairs) = locked[u0] - LockIn(pos, job, u0, pr0) + LockIn(new, after, u0, pr0)
  BY <1>3, <1>4, <1>6
<1>8. LockIn(pos, job, u0, pr0) \in Nat /\ LockIn(pos, job, u0, pr0) <= locked[u0]
  BY <1>1, <1>3, <1>4, <1>6
<1> QED  BY <1>2, <1>7, <1>8 DEF g

\* An operation counts with the rows as long as its own row is as it was.
LEMMA CountsKept ==
    ASSUME NEW j \in Tasks, Coherent(j), NEW rows, NEW new, CountsIn(rows, j),
           j.id # New => new[j.id] = rows[j.id]
    PROVE  CountsIn(new, j)
BY DEF CountsIn, Coherent, Closings

\* What is known while the lapses are harmless.
LEMMA MarginParts ==
    ASSUME TypeInv, Alone, MarginInv, Harmless
    PROVE  /\ OneOperation /\ OnePerPair /\ NoneNegative(pos) /\ LocksAdd
           /\ \A w \in Workers : AtWork(job[w]) => CountsIn(pos, job[w]) /\ FitsIn(pos, job[w])
BY AloneParts DEF Harmless, MarginInv, Fits

\* A step that writes no row, moves no money and is not about a save.
LEMMA QuietMargin ==
    ASSUME TypeInv, MarginInv, UNCHANGED <<pos, locked>>, lapses \subseteq lapses',
           \A v \in Workers :
               \/ job'[v] = job[v]
               \/ /\ job[v].at # "save" /\ job'[v].at # "save"
                  /\ AtWork(job'[v]) /\ Harmless' => CountsIn(pos, job'[v])
    PROVE  MarginInv'
<1> SUFFICES ASSUME Harmless'
             PROVE  /\ NoneNegative(pos') /\ (\A w \in Workers : AtWork(job'[w]) => CountsIn(pos', job'[w]))
                    /\ LocksAdd'
  BY DEF MarginInv, NoneNegative
<1>1. Harmless
  BY DEF Harmless
<1>2. NoneNegative(pos) /\ LocksAdd /\ \A w \in Workers : AtWork(job[w]) => CountsIn(pos, job[w])
  BY <1>1 DEF MarginInv
<1>3. \A w \in Workers : AtWork(job'[w]) => CountsIn(pos, job'[w])
  BY <1>2
<1>4. ASSUME NEW u \in Users PROVE locked[u] = SumFunctionOnSet(LocksIn(pos, job', u), Pairs)
  <2>1. pos \in [Positions -> Rows]
    BY DEF TypeInv
  <2>2. PICK after : after = job'
    OBVIOUS
  <2>3. \A pr \in Pairs : LockIn(pos, after, u, pr) = LockIn(pos, job, u, pr)
    BY <2>1, <2>2, LockElsewhere
  <2>4. LocksIn(pos, after, u) = LocksIn(pos, job, u)
    BY <2>3 DEF LocksIn
  <2> QED  BY <1>2, <2>2, <2>4 DEF LocksAdd
<1>5. LocksAdd'
  BY <1>4 DEF LocksAdd
<1> QED  BY <1>2, <1>3, <1>5

\* An operation that begins has moved nothing yet.
LEMMA StartMargin ==
    ASSUME TypeInv, MarginInv, NEW w \in Workers, UNCHANGED job \/ StartsCounting(w),
           UNCHANGED <<pos, locked>>, lapses \subseteq lapses'
    PROVE  MarginInv'
<1>1. CASE UNCHANGED job
  BY <1>1, QuietMargin
<1>2. CASE StartsCounting(w)
  <2>1. PICK j \in Jobs : /\ job[w] = Idle /\ job' = [job EXCEPT ![w] = j] /\ j.at # "save"
                          /\ AtWork(j) /\ "overlap" \notin lapses' => CountsIn(pos, j)
    BY <1>2 DEF StartsCounting
  <2>2. \A v \in Workers : job'[v] = IF v = w THEN j ELSE job[v]
    BY <2>1 DEF TypeInv
  <2>3. Harmless' => "overlap" \notin lapses'
    BY DEF Harmless
  <2>4. job[w].at # "save"
    BY <2>1 DEF Idle
  <2> QED  BY <2>1, <2>2, <2>3, <2>4, QuietMargin
<1> QED  BY <1>1, <1>2

\* The user of an operation, in its pair: nobody else is about to save a row.
LEMMA OwnLock ==
    ASSUME TypeInv, OneOperation, OnePerPair, NEW w \in Workers, AtWork(job[w]), FitsIn(pos, job[w])
    PROVE  LET j == job[w] IN
           /\ j \in Tasks /\ Coherent(j) /\ j.user \in Users /\ j.pair \in Pairs
           /\ \A v \in Workers \ {w} : job[v].at = "save" => job[v].user # j.user \/ job[v].pair # j.pair
           /\ j.id # New /\ (j.kind \in Closings \/ j.row.status = "open") =>
                  j.id \in Positions /\ OpenIn(pos, j.user, j.pair) = {j.id}
           /\ j.id = New => OpenIn(pos, j.user, j.pair) = {}
<1> DEFINE j == job[w]
<1>1. j \in Jobs /\ j \in Tasks /\ Coherent(j) /\ j # Idle
  BY JobShape DEF TypeInv, AtWork, Idle
<1>2. j.user \in Users /\ j.pair \in Pairs /\ j.id \in Positions \cup {New}
  BY <1>1 DEF Tasks
<1>3. ASSUME NEW v \in Workers \ {w}, job[v].at = "save" PROVE job[v].user # j.user \/ job[v].pair # j.pair
  <2>1. Busy(v) /\ Busy(w)
    BY <1>1, <1>3 DEF Busy, Idle
  <2> QED  BY <2>1 DEF OneOperation
<1>4. ASSUME j.id # New, j.kind \in Closings \/ j.row.status = "open"
      PROVE  j.id \in Positions /\ OpenIn(pos, j.user, j.pair) = {j.id}
  <2>1. j.id \in Positions /\ pos[j.id].user = j.user /\ pos[j.id].pair = j.pair /\ pos[j.id].status = "open"
    BY <1>2, <1>4 DEF FitsIn
  <2> QED  BY <2>1 DEF OnePerPair, OpenPositions, OpenIn
<1>5. j.id = New => OpenIn(pos, j.user, j.pair) = {}
  BY DEF FitsIn
<1> QED  BY <1>1, <1>2, <1>3, <1>4, <1>5

\* A settlement unlocks what the row will no longer hold.
LEMMA SettleMargin ==
    ASSUME TypeInv, Alone, MarginInv, NEW w \in Workers, Settle(w)
    PROVE  MarginInv'
<1> DEFINE j == job[w]
<1>0. j \in Jobs /\ AtWork(j) /\ j.at = "settle" /\ j.kind # "open" /\ UNCHANGED pos /\ lapses \subseteq lapses'
  BY SettleMoves
<1> SUFFICES ASSUME Harmless' PROVE MarginInv'
  BY DEF MarginInv
<1>1. Harmless
  BY <1>0 DEF Harmless
<1>2. /\ OneOperation /\ OnePerPair /\ NoneNegative(pos) /\ LocksAdd
      /\ \A v \in Workers : AtWork(job[v]) => CountsIn(pos, job[v]) /\ FitsIn(pos, job[v])
  BY <1>1, MarginParts
<1>3. \/ Booked(j) /\ job' = [job EXCEPT ![w] = [j EXCEPT !.at = "save"]] /\ j.kind \in Closings \cup {"partial"}
      \/ job' = [job EXCEPT ![w] = Idle] /\ UNCHANGED locked
  <2>1. /\ "commit" \notin lapses' /\ "scan" \notin lapses' /\ "transfer" \notin lapses'
    BY DEF Harmless
  <2>2. j.kind \in Kinds
    BY <1>0, JobShape DEF Tasks
  <2> QED  BY <1>0, <2>1, <2>2 DEF Settle, Becomes, Trouble, Kinds, walletVars
<1>4. CASE job' = [job EXCEPT ![w] = Idle] /\ UNCHANGED locked
  <2>1. \A v \in Workers : job'[v] = IF v = w THEN Idle ELSE job[v]
    BY <1>4 DEF TypeInv
  <2>2. Idle.at # "save" /\ ~AtWork(Idle)
    BY DEF Idle, AtWork
  <2> QED  BY <1>0, <1>4, <2>1, <2>2, QuietMargin
<1>5. CASE Booked(j) /\ job' = [job EXCEPT ![w] = [j EXCEPT !.at = "save"]] /\ j.kind \in Closings \cup {"partial"}
  <2> DEFINE s == [j EXCEPT !.at = "save"]
             id == j.id
             u0 == j.user
             pr0 == j.pair
  <2>1. /\ j \in Tasks /\ Coherent(j) /\ u0 \in Users /\ pr0 \in Pairs /\ CountsIn(pos, j)
        /\ \A v \in Workers \ {w} : job[v].at = "save" => job[v].user # u0 \/ job[v].pair # pr0
    BY <1>0, <1>2, OwnLock
  <2>2. /\ s.at = "save" /\ s.kind = j.kind /\ s.user = u0 /\ s.pair = pr0 /\ s.row = j.row /\ s.next = j.next
        /\ s.id = id /\ s.amount = j.amount
    BY <2>1 DEF Tasks
  <2>3. id \in Positions /\ OpenIn(pos, u0, pr0) = {id}
    <3>1. id # New
      BY <1>0, <2>1 DEF Coherent
    <3>2. j.kind \in Closings \/ j.row.status = "open"
      BY <1>0, <1>5, <2>1 DEF CountsIn
    <3> QED  BY <1>0, <1>2, <3>1, <3>2, OwnLock
  <2>4. pos[id] \in Rows /\ pos[id].margin \in Nat /\ j.row.margin \in Int /\ j.unlock \in Int
    <3>1. pos[id] \in Rows /\ pos[id].status = "open"
      BY <2>3 DEF TypeInv, OpenIn
    <3>2. pos[id].margin >= 0
      BY <1>2, <2>3, <3>1 DEF NoneNegative
    <3> QED  BY <2>1, <3>1, <3>2 DEF Rows, Tasks
  <2> DEFINE left == MarginOfRow(j.row)
  <2>5. left \in Nat /\ j.unlock = pos[id].margin - left /\ j.unlock >= 0
    <3>1. CASE j.kind \in Closings
      BY <1>0, <2>1, <2>4, <3>1 DEF CountsIn, Coherent, MarginOfRow
    <3>2. CASE j.kind = "partial"
      BY <1>0, <2>1, <2>4, <3>2 DEF CountsIn, MarginOfRow
    <3> QED  BY <1>5, <3>1, <3>2
  <2>6. CountsIn(pos, s)
    <3>1. j.kind \in Closings \/ (j.kind = "partial" /\ j.row.status = "open" /\ j.row.margin >= 0)
      BY <1>0, <1>5, <2>1 DEF CountsIn
    <3> HIDE DEF s
    <3> QED  BY <2>1, <2>2, <3>1 DEF CountsIn
  <2>7. LockIn(pos, job, u0, pr0) = pos[id].margin
    <3>1. \A v \in Workers : job[v].at = "save" => job[v].user # u0 \/ job[v].pair # pr0
      BY <1>0, <2>1
    <3>2. LockIn(pos, job, u0, pr0) = MarginIn(pos, u0, pr0)
      BY <3>1, LockOfRow
    <3>3. MarginIn(pos, u0, pr0) = pos[id].margin
      <4>1. PICK u, pr, i : u = u0 /\ pr = pr0 /\ i = id
        OBVIOUS
      <4>2. OpenIn(pos, u, pr) = {i}
        BY <2>3, <4>1
      <4>3. MarginIn(pos, u, pr) = pos[i].margin
        BY ONLY <4>2, MarginOfOne
      <4> QED  BY <4>1, <4>3
    <3> QED  BY <3>2, <3>3
  <2>8. PICK after : after = job'
    OBVIOUS
  <2> HIDE DEF s
  <2>9. \A v \in Workers : after[v] = IF v = w THEN s ELSE job[v]
    BY <1>5, <2>8 DEF TypeInv, s
  <2>10. LockIn(pos, after, u0, pr0) = left
    <3>1. after[w] = s
      BY <2>9
    <3>2. \A v \in Workers : after[v].at = "save" /\ after[v].user = u0 /\ after[v].pair = pr0 => v = w
      BY <2>1, <2>9
    <3>3. LockIn(pos, after, u0, pr0) = MarginOfRow(after[w].row)
      BY <2>2, <3>1, <3>2, LockOfJob
    <3> QED  BY <2>2, <3>1, <3>3
  <2>11. \A u \in Users, pr \in Pairs :
             u # u0 \/ pr # pr0 => LockIn(pos, after, u, pr) = LockIn(pos, job, u, pr)
    <3> SUFFICES ASSUME NEW u \in Users, NEW pr \in Pairs, u # u0 \/ pr # pr0
                 PROVE  LockIn(pos, after, u, pr) = LockIn(pos, job, u, pr)
      OBVIOUS
    <3>1. pos \in [Positions -> Rows]
      BY DEF TypeInv
    <3>2. \A v \in Workers :
               \/ after[v] = job[v]
               \/ /\ after[v].at # "save" \/ after[v].user # u \/ after[v].pair # pr
                  /\ job[v].at # "save" \/ job[v].user # u \/ job[v].pair # pr
      BY <2>2, <2>9
    <3> QED  BY <3>1, <3>2, LockElsewhere
  <2> HIDE DEF left
  <2>12. /\ pos[id].margin <= locked[u0]
         /\ \A u \in Users \ {u0} : locked[u] = SumFunctionOnSet(LocksIn(pos, after, u), Pairs)
         /\ SumFunctionOnSet(LocksIn(pos, after, u0), Pairs) = locked[u0] - pos[id].margin + left
    <3>1. LockIn(pos, after, u0, pr0) \in Nat
      BY <2>5, <2>10
    <3>2. \A v \in Workers : AtWork(job[v]) => CountsIn(pos, job[v])
      BY <1>2
    <3>3. /\ LockIn(pos, job, u0, pr0) <= locked[u0]
          /\ \A u \in Users \ {u0} : locked[u] = SumFunctionOnSet(LocksIn(pos, after, u), Pairs)
          /\ SumFunctionOnSet(LocksIn(pos, after, u0), Pairs)
                  = locked[u0] - LockIn(pos, job, u0, pr0) + LockIn(pos, after, u0, pr0)
      <4> HIDE DEF u0, pr0, id
      <4> QED  BY <1>2, <2>1, <2>11, <3>1, <3>2, OneLock
    <3> QED  BY <2>7, <2>10, <3>3
  <2>13. locked' = [locked EXCEPT ![u0] = locked[u0] - pos[id].margin + left] /\ locked \in [Users -> Nat]
    <3>1. locked[u0] \in Nat /\ locked \in [Users -> Nat]
      BY <2>1 DEF TypeInv
    <3>2. j.unlock <= locked[u0]
      BY <2>4, <2>5, <2>12, <3>1
    <3>3. Unlocked(u0, j.unlock) = locked[u0] - j.unlock
      BY <2>4, <3>1, <3>2 DEF Unlocked
    <3>4. Unlocked(u0, j.unlock) = locked[u0] - pos[id].margin + left
      BY <2>4, <2>5, <3>1, <3>3
    <3> QED  BY <1>5, <3>1, <3>4 DEF Booked
  <2>14. \A u \in Users : locked'[u] = SumFunctionOnSet(LocksIn(pos, after, u), Pairs)
    BY <2>1, <2>12, <2>13
  <2>15. LocksAdd'
    BY <1>0, <2>8, <2>14 DEF LocksAdd
  <2>16. \A v \in Workers : AtWork(job'[v]) => CountsIn(pos, job'[v])
    BY <1>2, <2>6, <2>8, <2>9
  <2> QED  BY <1>0, <1>2, <2>15, <2>16 DEF MarginInv, NoneNegative
<1> QED  BY <1>3, <1>4, <1>5

\* A reservation locks what its row will hold more, and a rejected one nothing.
LEMMA ReserveMargin ==
    ASSUME TypeInv, Alone, MarginInv, NEW w \in Workers, Reserve(w)
    PROVE  MarginInv'
<1> DEFINE j == job[w]
<1>0. j \in Jobs /\ AtWork(j) /\ j.at = "reserve" /\ j.kind = "open" /\ UNCHANGED pos /\ lapses \subseteq lapses'
  BY ReserveMoves
<1> SUFFICES ASSUME Harmless' PROVE MarginInv'
  BY DEF MarginInv
<1>1. Harmless
  BY <1>0 DEF Harmless
<1>2. /\ OneOperation /\ OnePerPair /\ NoneNegative(pos) /\ LocksAdd
      /\ \A v \in Workers : AtWork(job[v]) => CountsIn(pos, job[v]) /\ FitsIn(pos, job[v])
  BY <1>1, MarginParts
<1> DEFINE rejected == [j EXCEPT !.at = "status", !.verdict = "cancelled"]
<1>3. \/ /\ j.amount > 0 /\ job' = [job EXCEPT ![w] = [j EXCEPT !.at = "save"]]
         /\ locked' = [locked EXCEPT ![j.user] = @ + j.amount]
      \/ (job' = [job EXCEPT ![w] = Idle] \/ job' = [job EXCEPT ![w] = rejected]) /\ UNCHANGED locked
  <2>1. "lock" \notin lapses'
    BY DEF Harmless
  <2> QED  BY <2>1 DEF Reserve, Becomes, Trouble
<1>4. CASE (job' = [job EXCEPT ![w] = Idle] \/ job' = [job EXCEPT ![w] = rejected]) /\ UNCHANGED locked
  <2>1. Idle.at # "save" /\ ~AtWork(Idle)
    BY DEF Idle, AtWork
  <2>2. rejected.at = "status"
    <3>1. j \in Tasks
      BY <1>0, JobShape
    <3> QED  BY <3>1 DEF Tasks
  <2>3. rejected.at # "save" /\ ~AtWork(rejected)
    <3> HIDE DEF rejected
    <3> QED  BY <2>2 DEF AtWork
  <2> HIDE DEF rejected
  <2>4. PICK k \in {Idle, rejected} : job' = [job EXCEPT ![w] = k]
    BY <1>4
  <2>5. \A v \in Workers : job'[v] = IF v = w THEN k ELSE job[v]
    BY <2>4 DEF TypeInv
  <2>6. k.at # "save" /\ ~AtWork(k)
    BY <2>1, <2>3
  <2> QED  BY <1>0, <1>4, <2>5, <2>6, QuietMargin
<1>5. CASE /\ j.amount > 0 /\ job' = [job EXCEPT ![w] = [j EXCEPT !.at = "save"]]
           /\ locked' = [locked EXCEPT ![j.user] = @ + j.amount]
  <2> DEFINE s == [j EXCEPT !.at = "save"]
             id == j.id
             u0 == j.user
             pr0 == j.pair
             held == IF id = New THEN 0 ELSE pos[id].margin
             more == j.amount
  <2>1. /\ j \in Tasks /\ Coherent(j) /\ u0 \in Users /\ pr0 \in Pairs /\ CountsIn(pos, j)
        /\ \A v \in Workers \ {w} : job[v].at = "save" => job[v].user # u0 \/ job[v].pair # pr0
    BY <1>0, <1>2, OwnLock
  <2>2. /\ s.at = "save" /\ s.kind = "open" /\ s.user = u0 /\ s.pair = pr0 /\ s.row = j.row /\ s.next = j.next
    BY <1>0, <2>1 DEF Tasks
  <2>3. j.row.status = "open" /\ more \in Nat /\ j.row.margin \in Int
    BY <1>0, <1>5, <2>1 DEF Coherent, Tasks, Rows
  <2>4. held \in Nat /\ MarginIn(pos, u0, pr0) = held
    <3>1. CASE id = New
      <4>1. OpenIn(pos, u0, pr0) = {}
        BY <1>0, <1>2, <3>1, OwnLock
      <4> QED  BY <3>1, <4>1 DEF MarginIn
    <3>2. CASE id # New
      <4>1. id \in Positions /\ OpenIn(pos, u0, pr0) = {id}
        BY <1>0, <1>2, <2>3, <3>2, OwnLock
      <4>2. pos[id] \in Rows /\ pos[id].status = "open"
        BY <4>1 DEF TypeInv, OpenIn
      <4>3. pos[id].margin \in Nat
        BY <1>2, <4>1, <4>2 DEF NoneNegative, Rows
      <4>4. MarginIn(pos, u0, pr0) = pos[id].margin
        <5>1. PICK u, pr, i : u = u0 /\ pr = pr0 /\ i = id
          OBVIOUS
        <5>2. OpenIn(pos, u, pr) = {i}
          BY <4>1, <5>1
        <5>3. MarginIn(pos, u, pr) = pos[i].margin
          BY ONLY <5>2, MarginOfOne
        <5> QED  BY <5>1, <5>3
      <4> QED  BY <3>2, <4>3, <4>4
    <3> QED  BY <3>1, <3>2
  <2>5. MarginOfRow(j.row) = more + held /\ j.row.margin >= 0
    <3>1. j.row.margin = more + held
      BY <1>0, <2>1 DEF CountsIn
    <3> HIDE DEF held, more
    <3> QED  BY <2>3, <2>4, <3>1 DEF MarginOfRow
  <2> HIDE DEF held, more
  <2>6. CountsIn(pos, s)
    <3> HIDE DEF s
    <3> QED  BY <2>1, <2>2, <2>3, <2>5 DEF CountsIn
  <2>7. LockIn(pos, job, u0, pr0) = held
    <3>1. \A v \in Workers : job[v].at = "save" => job[v].user # u0 \/ job[v].pair # pr0
      BY <1>0, <2>1
    <3>2. LockIn(pos, job, u0, pr0) = MarginIn(pos, u0, pr0)
      BY <3>1, LockOfRow
    <3> QED  BY <2>4, <3>2
  <2>8. PICK after : after = job'
    OBVIOUS
  <2> HIDE DEF s
  <2>9. \A v \in Workers : after[v] = IF v = w THEN s ELSE job[v]
    BY <1>5, <2>8 DEF TypeInv, s
  <2>10. LockIn(pos, after, u0, pr0) = more + held
    <3>1. after[w] = s
      BY <2>9
    <3>2. \A v \in Workers : after[v].at = "save" /\ after[v].user = u0 /\ after[v].pair = pr0 => v = w
      BY <2>1, <2>9
    <3>3. LockIn(pos, after, u0, pr0) = MarginOfRow(after[w].row)
      BY <2>2, <3>1, <3>2, LockOfJob
    <3> QED  BY <2>2, <2>5, <3>1, <3>3
  <2>11. \A u \in Users, pr \in Pairs :
             u # u0 \/ pr # pr0 => LockIn(pos, after, u, pr) = LockIn(pos, job, u, pr)
    <3> SUFFICES ASSUME NEW u \in Users, NEW pr \in Pairs, u # u0 \/ pr # pr0
                 PROVE  LockIn(pos, after, u, pr) = LockIn(pos, job, u, pr)
      OBVIOUS
    <3>1. pos \in [Positions -> Rows]
      BY DEF TypeInv
    <3>2. \A v \in Workers :
               \/ after[v] = job[v]
               \/ /\ after[v].at # "save" \/ after[v].user # u \/ after[v].pair # pr
                  /\ job[v].at # "save" \/ job[v].user # u \/ job[v].pair # pr
      BY <2>2, <2>9
    <3> QED  BY <3>1, <3>2, LockElsewhere
  <2>12. /\ \A u \in Users \ {u0} : locked[u] = SumFunctionOnSet(LocksIn(pos, after, u), Pairs)
         /\ SumFunctionOnSet(LocksIn(pos, after, u0), Pairs) = locked[u0] - held + (more + held)
    <3>1. LockIn(pos, after, u0, pr0) \in Nat
      BY <2>3, <2>4, <2>10
    <3>2. \A v \in Workers : AtWork(job[v]) => CountsIn(pos, job[v])
      BY <1>2
    <3>3. /\ \A u \in Users \ {u0} : locked[u] = SumFunctionOnSet(LocksIn(pos, after, u), Pairs)
          /\ SumFunctionOnSet(LocksIn(pos, after, u0), Pairs)
                  = locked[u0] - LockIn(pos, job, u0, pr0) + LockIn(pos, after, u0, pr0)
      <4> HIDE DEF u0, pr0, id
      <4> QED  BY <1>2, <2>1, <2>11, <3>1, <3>2, OneLock
    <3> QED  BY <2>7, <2>10, <3>3
  <2>13. locked' = [locked EXCEPT ![u0] = locked[u0] - held + (more + held)] /\ locked \in [Users -> Nat]
    <3>1. locked[u0] \in Nat /\ locked \in [Users -> Nat]
      BY <2>1 DEF TypeInv
    <3>2. locked[u0] + more = locked[u0] - held + (more + held)
      BY <2>3, <2>4, <3>1
    <3> QED  BY <1>5, <3>1, <3>2 DEF more
  <2>14. \A u \in Users : locked'[u] = SumFunctionOnSet(LocksIn(pos, after, u), Pairs)
    BY <2>1, <2>12, <2>13
  <2>15. LocksAdd'
    BY <1>0, <2>8, <2>14 DEF LocksAdd
  <2>16. \A v \in Workers : AtWork(job'[v]) => CountsIn(pos, job'[v])
    BY <1>2, <2>6, <2>8, <2>9
  <2> QED  BY <1>0, <1>2, <2>15, <2>16 DEF MarginInv, NoneNegative
<1> QED  BY <1>3, <1>4, <1>5

\* A save puts into the row what has been locked for it.
LEMMA SaveMargin ==
    ASSUME TypeInv, InUse, Alone, MarginInv, NEW w \in Workers, Save(w)
    PROVE  MarginInv'
<1> DEFINE j == job[w]
<1>0. /\ j \in Jobs /\ AtWork(j) /\ j.at = "save" /\ j.id \in Positions \cup {New}
      /\ UNCHANGED locked /\ lapses \subseteq lapses'
  BY SaveMoves
<1> SUFFICES ASSUME Harmless' PROVE MarginInv'
  BY DEF MarginInv
<1>1. Harmless /\ "unsaved" \notin lapses'
  BY <1>0 DEF Harmless
<1>2. /\ OneOperation /\ OnePerPair /\ NoneNegative(pos) /\ LocksAdd
      /\ \A v \in Workers : AtWork(job[v]) => CountsIn(pos, job[v]) /\ FitsIn(pos, job[v])
  BY <1>1, MarginParts
<1>3. job' = [job EXCEPT ![w] = AfterSave(j)]
  BY <1>1, SaveMoves
<1>4. PICK p \in Positions : /\ IF j.id = New THEN pos[p].status = None ELSE p = j.id
                             /\ pos' = Upsert(p, j.row)
  BY <1>1, SaveMoves
<1> DEFINE u0 == j.user
           pr0 == j.pair
<1>5. /\ j \in Tasks /\ Coherent(j) /\ u0 \in Users /\ pr0 \in Pairs /\ CountsIn(pos, j) /\ FitsIn(pos, j)
      /\ \A v \in Workers \ {w} : job[v].at = "save" => job[v].user # u0 \/ job[v].pair # pr0
  BY <1>0, <1>2, OwnLock
<1>6. j.kind \in Closings \/ (j.row.status = "open" /\ j.row.margin >= 0)
  BY <1>0, <1>5 DEF CountsIn
<1>7. j.row \in Rows /\ j.row.user = u0 /\ j.row.pair = pr0 /\ j.row.margin \in Int
      /\ (j.row.status = "open" => j.kind \notin Closings)
  BY <1>5 DEF Tasks, Coherent, RowOf, Rows
<1>8. PICK new : new = pos'
  OBVIOUS
<1>9. PICK after : after = job'
  OBVIOUS
<1>10. PICK k : k = AfterSave(j)
  OBVIOUS
<1>11. /\ pos \in [Positions -> Rows] /\ new \in [Positions -> Rows]
       /\ new[p].status = j.row.status /\ new[p].user = u0 /\ new[p].pair = pr0 /\ new[p].margin = j.row.margin
       /\ \A q \in Positions : q # p => new[q] = pos[q]
  BY <1>4, <1>7, <1>8, UpsertRow DEF TypeInv
<1>12. \A v \in Workers : after[v] = IF v = w THEN k ELSE job[v]
  BY <1>3, <1>9, <1>10 DEF TypeInv
<1>13. k.at # "save" /\ (AtWork(k) => CountsIn(new, k))
  <2>1. CASE j.next # Idle
    <3>1. k = j.next /\ k \in Later
      BY <1>0, <1>10, <2>1, AfterSaveJob
    <3>2. k.at = "reserve" /\ k.id = New /\ k.next = Idle /\ k.amount \in Int
      BY <3>1 DEF Later
    <3>3. k.row.margin = k.amount
      BY <1>5, <2>1, <3>1 DEF CountsIn
    <3> QED  BY <3>2, <3>3 DEF CountsIn
  <2>2. CASE j.next = Idle
    <3>1. ~AtWork(k)
      BY <1>0, <1>10, <2>2, AfterSaveJob
    <3> QED  BY <3>1 DEF AtWork
  <2> QED  BY <2>1, <2>2
<1>14. \A q \in OpenIn(pos, u0, pr0) : j.id # New /\ q = p
  <2> SUFFICES ASSUME NEW q \in OpenIn(pos, u0, pr0) PROVE j.id # New /\ q = p
    OBVIOUS
  <2>1. j.id # New
    BY <1>0, <1>2, OwnLock
  <2>2. OpenIn(pos, u0, pr0) = {j.id}
    BY <1>0, <1>2, <1>6, <2>1, OwnLock
  <2> QED  BY <1>4, <2>1, <2>2
<1>15. OpenIn(new, u0, pr0) = IF j.row.status = "open" THEN {p} ELSE {}
  <2>1. ASSUME NEW q \in OpenIn(new, u0, pr0) PROVE q = p /\ j.row.status = "open"
    <3>1. q # p => q \in OpenIn(pos, u0, pr0)
      BY <1>11 DEF OpenIn
    <3>2. q = p
      BY <1>14, <3>1
    <3> QED  BY <1>11, <3>2 DEF OpenIn
  <2>2. j.row.status = "open" => p \in OpenIn(new, u0, pr0)
    BY <1>11 DEF OpenIn
  <2> QED  BY <2>1, <2>2
<1>16. LockIn(new, after, u0, pr0) = MarginOfRow(j.row)
  <2>1. \A v \in Workers : after[v].at = "save" => after[v].user # u0 \/ after[v].pair # pr0
    BY <1>5, <1>12, <1>13
  <2>2. LockIn(new, after, u0, pr0) = MarginIn(new, u0, pr0)
    BY <2>1, LockOfRow
  <2>3. CASE j.row.status = "open"
    <3>1. MarginIn(new, u0, pr0) = new[p].margin
      BY <1>15, <2>3, MarginOfOne
    <3> QED  BY <1>11, <2>2, <2>3, <3>1 DEF MarginOfRow
  <2>4. CASE j.row.status # "open"
    BY <1>15, <2>2, <2>4 DEF MarginIn, MarginOfRow
  <2> QED  BY <2>3, <2>4
<1>17. LockIn(pos, job, u0, pr0) = MarginOfRow(j.row)
  <2>1. \A v \in Workers : job[v].at = "save" /\ job[v].user = u0 /\ job[v].pair = pr0 => v = w
    BY <1>5
  <2> QED  BY <1>0, <2>1, LockOfJob
<1>18. p # New /\ (j.id # New => p = j.id /\ pos[p].user = u0 /\ pos[p].pair = pr0)
  BY <1>4, <1>5, PositionsAre DEF FitsIn
<1>19. ASSUME NEW u \in Users, NEW pr \in Pairs PROVE LockIn(new, after, u, pr) = LockIn(pos, job, u, pr)
  <2>1. CASE u = u0 /\ pr = pr0
    BY <1>16, <1>17, <2>1
  <2>2. CASE u # u0 \/ pr # pr0
    <3>1. \A q \in Positions :
               \/ new[q] = pos[q]
               \/ /\ new[q].status # "open" \/ new[q].user # u \/ new[q].pair # pr
                  /\ pos[q].status # "open" \/ pos[q].user # u \/ pos[q].pair # pr
      BY <1>4, <1>11, <1>18, <2>2 DEF None
    <3>2. \A v \in Workers :
               \/ after[v] = job[v]
               \/ /\ after[v].at # "save" \/ after[v].user # u \/ after[v].pair # pr
                  /\ job[v].at # "save" \/ job[v].user # u \/ job[v].pair # pr
      BY <1>12, <1>13, <2>2
    <3> QED  BY <1>11, <3>1, <3>2, LockElsewhere
  <2> QED  BY <2>1, <2>2
<1>20. LocksAdd'
  <2>1. ASSUME NEW u \in Users PROVE locked[u] = SumFunctionOnSet(LocksIn(new, after, u), Pairs)
    <3>1. LocksIn(new, after, u) = LocksIn(pos, job, u)
      BY <1>19 DEF LocksIn
    <3> QED  BY <1>2, <3>1 DEF LocksAdd
  <2> QED  BY <1>0, <1>8, <1>9, <2>1 DEF LocksAdd
<1>21. \A v \in Workers : AtWork(after[v]) => CountsIn(new, after[v])
  <2> SUFFICES ASSUME NEW v \in Workers, v # w, AtWork(job[v]) PROVE CountsIn(new, job[v])
    BY <1>12, <1>13
  <2>1. job[v] \in Tasks /\ Coherent(job[v]) /\ CountsIn(pos, job[v]) /\ FitsIn(pos, job[v])
        /\ job[v].id \in Positions \cup {New}
    BY <1>2, JobShape DEF TypeInv, Tasks
  <2>2. job[v].user # u0 \/ job[v].pair # pr0
    <3>1. Busy(v) /\ Busy(w)
      BY <1>0 DEF Busy, AtWork, Idle
    <3> QED  BY <1>2, <3>1 DEF OneOperation
  <2>3. job[v].id # New => job[v].id # p
    <3> SUFFICES ASSUME job[v].id # New, job[v].id = p PROVE FALSE
      OBVIOUS
    <3>1. pos[p].status # None /\ pos[p].user = job[v].user /\ pos[p].pair = job[v].pair
      BY <2>1 DEF InUse, FitsIn
    <3> QED  BY <1>4, <1>18, <2>2, <3>1
  <2>4. job[v].id # New => new[job[v].id] = pos[job[v].id]
    BY <1>11, <2>1, <2>3
  <2>5. PICK t : t = job[v]
    OBVIOUS
  <2> QED  BY <2>1, <2>4, <2>5, CountsKept
<1>22. NoneNegative(new)
  BY <1>2, <1>6, <1>7, <1>11 DEF NoneNegative
<1> QED  BY <1>8, <1>9, <1>20, <1>21, <1>22 DEF MarginInv

\* What the handlers begin keeps the sum.
LEMMA HandlerMargin ==
    ASSUME TypeInv, MarginInv, NEW r \in Requests,
           \/ OpenPosition(r) \/ CreateMarketOrder(r) \/ CreateRestingOrder(r) \/ CancelOrder(r)
           \/ HandlesPosition(r)
    PROVE  MarginInv'
<1>1. UNCHANGED <<pos, locked>>
  BY PositionHandlersStart
     DEF OpenPosition, CreateMarketOrder, CreateRestingOrder, CancelOrder, walletVars
<1>2. lapses \subseteq lapses'
  <2>1. CreateRestingOrder(r) => lapses \subseteq lapses'
    BY DEF CreateRestingOrder, SaveOrder, Trouble
  <2>2. \A o : Starts(r, o) => lapses \subseteq lapses'
    BY DEF Starts
  <2> QED  BY <2>1, <2>2, OpenStarts, MarketOrderStarts, CancelStarts, PositionHandlersStart
<1>3. SUFFICES ASSUME Harmless' PROVE MarginInv'
  BY DEF MarginInv
<1>4. NoneNegative(pos)
  BY <1>2, <1>3 DEF Harmless, MarginInv
<1>5. UNCHANGED job \/ StartsCounting(r)
  BY <1>4, RequestCounts
<1> QED  BY <1>1, <1>2, <1>5, StartMargin DEF Workers

\* What the ten second loop begins keeps it.
LEMMA LoopMargin ==
    ASSUME TypeInv, InUse, MarginInv, NEW l \in Loops,
           \/ NextPhase(l)
           \/ \E o \in sweep[l].orders : ProcessOrder(l, o)
           \/ \E c \in sweep[l].rows : CheckTPSL(l, c) \/ CheckLiquidations(l, c)
    PROVE  MarginInv'
<1>1. UNCHANGED <<pos, locked>>
  BY DEF NextPhase, ProcessOrder, CheckTPSL, CheckLiquidations, LoopIdle, walletVars
<1>2. lapses \subseteq lapses'
  BY DEF NextPhase, ProcessOrder, CheckTPSL, CheckLiquidations, Begin
<1>3. UNCHANGED job \/ StartsCounting(l)
  BY LoopCounts
<1> QED  BY <1>1, <1>2, <1>3, StartMargin DEF Workers

\* What the hourly loop begins keeps it.
LEMMA HourlyMargin ==
    ASSUME TypeInv, InUse, MarginInv, NEW h \in Hourly,
           ListForFunding(h) \/ \E c \in funding[h].rows : ApplyFunding(h, c)
    PROVE  MarginInv'
<1>1. UNCHANGED <<pos, locked>> /\ lapses \subseteq lapses'
  BY DEF ListForFunding, ApplyFunding, walletVars, histVars, Begin
<1>2. UNCHANGED job \/ StartsCounting(h)
  BY HourlyCounts
<1> QED  BY <1>1, <1>2, StartMargin DEF Workers

\* The steps of a job keep it.
LEMMA JobMargin ==
    ASSUME TypeInv, InUse, Alone, MarginInv, NEW w \in Workers, JobStep(w)
    PROVE  MarginInv'
<1>1. CASE SetStatus(w)
  <2>1. /\ job[w].at = "status" /\ job' = [job EXCEPT ![w] = Idle]
        /\ UNCHANGED <<pos, locked>> /\ lapses \subseteq lapses'
    BY <1>1, StatusMoves
  <2>2. \A v \in Workers : job'[v] = IF v = w THEN Idle ELSE job[v]
    BY <2>1 DEF TypeInv
  <2>3. Idle.at # "save" /\ ~AtWork(Idle)
    BY DEF Idle, AtWork
  <2> QED  BY <2>1, <2>2, <2>3, QuietMargin
<1> QED  BY <1>1, SettleMargin, ReserveMargin, SaveMargin DEF JobStep

\* The margin of the open rows of a user, pair by pair.
LEMMA MarginsByPair ==
    ASSUME NEW rows \in [Positions -> Rows], NEW u,
           \A p, q \in Positions :
               /\ rows[p].status = "open" /\ rows[p].user = u /\ rows[q].status = "open" /\ rows[q].user = u
               /\ rows[p].pair = rows[q].pair
               => p = q
    PROVE  Margins(rows, u) = SumFunctionOnSet([pr \in Pairs |-> MarginIn(rows, u, pr)], Pairs)
<1> DEFINE f == [p \in Positions |-> rows[p].margin]
           S == {p \in Positions : rows[p].status = "open" /\ rows[p].user = u}
           Of(T, pr) == {p \in T : rows[p].pair = pr}
           Part(T, pr) == IF Of(T, pr) = {} THEN 0 ELSE f[CHOOSE p \in Of(T, pr) : TRUE]
           g(T) == [pr \in Pairs |-> Part(T, pr)]
           K == {T \in SUBSET S : SumFunctionOnSet(f, T) = SumFunctionOnSet(g(T), Pairs)}
<1>1. IsFiniteSet(S) /\ IsFiniteSet(Pairs)
  BY PositionsAre, FS_Subset, FuturesAssumption
<1>2. \A p \in S : f[p] \in Int /\ rows[p].pair \in Pairs
  BY DEF Rows
<1>3. \A p, q \in S : rows[p].pair = rows[q].pair => p = q
  OBVIOUS
<1> HIDE DEF f, S
<1>4. ASSUME NEW T \in SUBSET S, NEW pr PROVE Part(T, pr) \in Int
  <2>1. Of(T, pr) # {} => (CHOOSE p \in Of(T, pr) : TRUE) \in S
    OBVIOUS
  <2> QED  BY <1>2, <2>1
<1>5. {} \in K
  <2>1. \A pr \in Pairs : g({})[pr] = 0
    OBVIOUS
  <2>2. SumFunctionOnSet(g({}), Pairs) = 0
    <3> HIDE DEF g
    <3> QED  BY <1>1, <2>1, SumZero
  <2>3. SumFunctionOnSet(f, {}) = 0
    BY SumEmpty
  <2> HIDE DEF g
  <2> QED  BY <2>2, <2>3
<1>6. ASSUME NEW T \in K, NEW x \in S \ T PROVE T \cup {x} \in K
  <2> DEFINE U == T \cup {x}
             px == rows[x].pair
  <2>1. T \in SUBSET S /\ SumFunctionOnSet(f, T) = SumFunctionOnSet(g(T), Pairs)
    <3> HIDE DEF g
    <3> QED  OBVIOUS
  <2>2. px \in Pairs /\ f[x] \in Int
    BY <1>2
  <2>3. Of(T, px) = {} /\ Of(U, px) = {x}
    BY <1>3, <2>1
  <2>4. \A pr \in Pairs : pr # px => Of(U, pr) = Of(T, pr)
    OBVIOUS
  <2>5. Part(T, px) = 0 /\ Part(U, px) = f[x] /\ \A pr \in Pairs : pr # px => Part(U, pr) = Part(T, pr)
    <3> HIDE DEF Of, U, px
    <3> QED  BY <2>3, <2>4
  <2>6. \A pr \in Pairs : Part(T, pr) \in Int /\ Part(U, pr) \in Int
    <3>1. U \in SUBSET S
      BY <2>1
    <3> HIDE DEF Part, U
    <3> QED  BY <1>4, <2>1, <3>1
  <2>7. SumFunctionOnSet(g(U), Pairs) = SumFunctionOnSet(g(T), Pairs) + f[x]
    <3> HIDE DEF Part, U, px
    <3> DEFINE a == g(T)
               b == g(U)
    <3>1. /\ \A pr \in Pairs : a[pr] \in Int /\ b[pr] \in Int /\ (pr # px => b[pr] = a[pr])
          /\ a[px] = 0 /\ b[px] = f[x]
      BY <2>2, <2>5, <2>6
    <3> HIDE DEF a, b
    <3>2. SumFunctionOnSet(a, Pairs) \in Int
          /\ SumFunctionOnSet(b, Pairs) = SumFunctionOnSet(a, Pairs) - a[px] + b[px]
      <4>1. PICK y \in Pairs : y = px
        BY <2>2
      <4>2. /\ \A pr \in Pairs : a[pr] \in Int /\ b[pr] \in Int
            /\ \A pr \in Pairs : pr # y => b[pr] = a[pr]
        BY <3>1, <4>1
      <4>3. SumFunctionOnSet(a, Pairs) \in Int
            /\ SumFunctionOnSet(b, Pairs) = SumFunctionOnSet(a, Pairs) - a[y] + b[y]
        BY <1>1, <4>2, SumUpdate
      <4> QED  BY <4>1, <4>3
    <3>3. SumFunctionOnSet(b, Pairs) = SumFunctionOnSet(a, Pairs) + f[x]
      BY <2>2, <3>1, <3>2
    <3> QED  BY <3>3 DEF a, b
  <2>8. SumFunctionOnSet(f, U) = f[x] + SumFunctionOnSet(f, T) /\ SumFunctionOnSet(f, T) \in Int
    <3>1. IsFiniteSet(T) /\ x \notin T /\ \A p \in T \cup {x} : f[p] \in Int
      BY <1>1, <1>2, <2>1, FS_Subset
    <3> HIDE DEF K, g
    <3> QED  BY <3>1, SumAdd, SumType
  <2>9. SumFunctionOnSet(f, U) = SumFunctionOnSet(g(U), Pairs)
    <3> HIDE DEF g, U
    <3> QED  BY <2>1, <2>2, <2>7, <2>8
  <2>10. U \in SUBSET S
    BY <2>1
  <2> HIDE DEF g
  <2> QED  BY <2>9, <2>10
<1>7. S \in K
  <2>1. K \in SUBSET SUBSET S
    OBVIOUS
  <2> HIDE DEF K
  <2> QED  BY <1>1, <1>5, <1>6, <2>1, FiniteSetInduction
<1>8. \A pr \in Pairs : Part(S, pr) = MarginIn(rows, u, pr)
  <2> SUFFICES ASSUME NEW pr \in Pairs PROVE Part(S, pr) = MarginIn(rows, u, pr)
    OBVIOUS
  <2>1. Of(S, pr) = OpenIn(rows, u, pr)
    BY DEF S, OpenIn
  <2>2. PICK O : O = OpenIn(rows, u, pr)
    OBVIOUS
  <2>3. Of(S, pr) = O /\ O \subseteq Positions
    BY <2>1, <2>2 DEF OpenIn
  <2> HIDE DEF Of
  <2>4. CASE O = {}
    BY <2>2, <2>3, <2>4 DEF MarginIn
  <2>5. CASE O # {}
    <3>1. (CHOOSE p \in O : TRUE) \in Positions
      BY <2>3, <2>5
    <3>2. Part(S, pr) = f[CHOOSE p \in O : TRUE]
      BY <2>3, <2>5
    <3>3. MarginIn(rows, u, pr) = rows[CHOOSE p \in O : TRUE].margin
      BY <2>2, <2>5 DEF MarginIn
    <3>4. f[CHOOSE p \in O : TRUE] = rows[CHOOSE p \in O : TRUE].margin
      BY <3>1 DEF f
    <3> QED  BY <3>2, <3>3, <3>4
  <2> QED  BY <2>4, <2>5
<1>9. g(S) = [pr \in Pairs |-> MarginIn(rows, u, pr)]
  <2> HIDE DEF Part
  <2> QED  BY <1>8
<1>10. SumFunctionOnSet(f, S) = SumFunctionOnSet(g(S), Pairs)
  <2> HIDE DEF g
  <2> QED  BY <1>7
<1>11. Margins(rows, u) = SumFunctionOnSet(f, S)
  BY DEF Margins, f, S
<1> HIDE DEF g
<1> QED  BY <1>9, <1>10, <1>11

\* What is locked for a user while no operation of his is about to save.
LEMMA LocksOfRows ==
    ASSUME NEW rows \in [Positions -> Rows], NEW jobs, NEW u \in Users,
           \A p, q \in Positions :
               /\ rows[p].status = "open" /\ rows[q].status = "open"
               /\ rows[p].user = rows[q].user /\ rows[p].pair = rows[q].pair
               => p = q,
           \A w \in Workers : jobs[w].at = "save" => jobs[w].user # u
    PROVE  Margins(rows, u) = SumFunctionOnSet(LocksIn(rows, jobs, u), Pairs)
<1>1. \A pr \in Pairs : LockIn(rows, jobs, u, pr) = MarginIn(rows, u, pr)
  BY LockOfRow
<1>2. LocksIn(rows, jobs, u) = [pr \in Pairs |-> MarginIn(rows, u, pr)]
  BY <1>1 DEF LocksIn
<1>3. Margins(rows, u) = SumFunctionOnSet([pr \in Pairs |-> MarginIn(rows, u, pr)], Pairs)
  BY MarginsByPair
<1> QED  BY <1>2, <1>3

\* The workload that a behaviour starts with has locked the margins of its rows.
LEMMA InitMargin == ASSUME Init PROVE MarginInv
<1>1. PICK x \in Workloads : pos = x.rows /\ locked = [u \in Users |-> Margins(x.rows, u)]
  BY DEF Init
<1>2. /\ pos \in [Positions -> Rows]
      /\ \A p, q \in Positions :
             pos[p].status = "open" /\ pos[q].status = "open" =>
                 /\ pos[p].margin >= 0
                 /\ pos[p].user = pos[q].user /\ pos[p].pair = pos[q].pair => p = q
  BY <1>1, FuturesAssumption
<1>3. \A w \in Workers : job[w].at # "save" /\ ~AtWork(job[w])
  BY DEF Init, AtWork, Idle
<1>4. NoneNegative(pos)
  BY <1>2 DEF NoneNegative
<1>5. LocksAdd
  <2> SUFFICES ASSUME NEW u \in Users PROVE locked[u] = SumFunctionOnSet(LocksIn(pos, job, u), Pairs)
    BY DEF LocksAdd
  <2>1. Margins(pos, u) = SumFunctionOnSet(LocksIn(pos, job, u), Pairs)
    BY <1>2, <1>3, LocksOfRows
  <2> QED  BY <1>1, <2>1
<1> QED  BY <1>3, <1>4, <1>5 DEF MarginInv

\* Every step of the system keeps the sum.
LEMMA NextMargin == ASSUME FuturesInv, MarginInv, [Next]_vars PROVE MarginInv'
<1>0. TypeInv /\ InUse /\ Alone
  BY DEF FuturesInv
<1>1. CASE HandlerStep
  <2>1. PICK r \in Requests :
        \/ OpenPosition(r) \/ CreateMarketOrder(r) \/ CreateRestingOrder(r) \/ CancelOrder(r)
        \/ HandlesPosition(r)
    BY <1>1 DEF HandlerStep, HandlesPosition
  <2> QED  BY <1>0, <2>1, HandlerMargin
<1>2. CASE \E l \in Loops : LoopStep(l)
  BY <1>0, <1>2, LoopMargin, JobMargin DEF LoopStep, Workers
<1>3. CASE \E h \in Hourly : HourlyStep(h)
  BY <1>0, <1>3, HourlyMargin, JobMargin DEF HourlyStep, Workers
<1>4. CASE \E r \in Requests : JobStep(r)
  BY <1>0, <1>4, JobMargin DEF Workers
<1>5. CASE (\E p \in Pairs : MoveFeed(p)) \/ UNCHANGED vars
  <2>1. UNCHANGED <<pos, locked, job, lapses>>
    BY <1>5 DEF MoveFeed, vars, walletVars, histVars
  <2> QED  BY <1>0, <2>1, QuietMargin
<1>6. CASE Crash
  <2>1. "crash" \in lapses'
    BY <1>6 DEF Crash, Trouble
  <2> QED  BY <2>1 DEF MarginInv, Harmless
<1> QED  BY <1>1, <1>2, <1>3, <1>4, <1>5, <1>6 DEF Next

\* What the wallet holds locked for a user is the margin of his open positions
\* whenever none of his operations is under way, as long as no margin was moved
\* without a lock, no operations overlapped and no store failed halfway.
THEOREM MarginIsLocked == Spec => []MarginLocked
<1>1. Init => MarginInv
  BY InitMargin
<1>2. FuturesInv /\ MarginInv /\ [Next]_vars => MarginInv'
  BY NextMargin
<1>3. FuturesInv /\ MarginInv => MarginLocked
  <2> SUFFICES ASSUME FuturesInv, MarginInv, Harmless, NEW u \in Users,
                      \A w \in Workers : Busy(w) => job[w].user # u
               PROVE  locked[u] = Margins(pos, u)
    BY DEF MarginLocked, Harmless, MarginOf
  <2>1. pos \in [Positions -> Rows] /\ OnePerPair /\ LocksAdd
    BY MarginParts DEF FuturesInv, TypeInv
  <2>2. \A w \in Workers : job[w].at = "save" => job[w].user # u
    BY DEF Busy, Idle
  <2>3. \A p, q \in Positions :
               /\ pos[p].status = "open" /\ pos[q].status = "open"
               /\ pos[p].user = pos[q].user /\ pos[p].pair = pos[q].pair
               => p = q
    BY <2>1 DEF OnePerPair, OpenPositions
  <2>4. Margins(pos, u) = SumFunctionOnSet(LocksIn(pos, job, u), Pairs)
    BY <2>1, <2>2, <2>3, LocksOfRows
  <2> QED  BY <2>1, <2>4 DEF LocksAdd
<1> QED  BY <1>1, <1>2, <1>3, InvAlways, PTL DEF Spec

===============================================================================
