---------------------------------- MODULE Amm ----------------------------------
(***************************************************************************)
(* The constant product pools (internal/amm): adding and removing liquidity *)
(* and swapping, in the gateways (internal/api/amm_handler.go) that share    *)
(* the rows of internal/store/pg_amm.go and the wallet rows.                 *)
(*                                                                         *)
(* Service.mu serialises the operations of one gateway, not those of two.    *)
(* An operation reads the pool, asks the wallet store for one transaction,   *)
(* overwrites the reserves, and then writes a position or a swap: every      *)
(* step can fail or be the last one, and nothing is undone.                  *)
(*                                                                         *)
(* Amounts are integers in the smallest unit a row can hold; a quotient is   *)
(* rounded to it when it is written (textF).                                *)
(***************************************************************************)
EXTENDS Integers, FiniteSets, Functions

CONSTANTS
    Users, Pools, Tokens,
    Token0, Token1,   \* of each pool
    FeeNum, FeeDen,   \* the fee rate, as a fraction
    Opening,          \* the balance of each account
    Funded,           \* the accounts that have a wallet row
    Seed,             \* the pools at first
    SeedShares,       \* the positions at first, of each user and pool
    Gateways,
    Requests,         \* requests of clients
    Ask,              \* what they ask for
    Workloads,        \* which requests are made in one behaviour
    MaxTrouble        \* bound: failures of the store and crashes of gateways

Accounts == Users \X Tokens

Absent == [status |-> "none", r0 |-> 0, r1 |-> 0, lp |-> 0]

\* NewPool.
Created == [Absent EXCEPT !.status = "active"]

\* The sum over all users of what f holds for each of them and k.
OfAll(f, k) == SumFunctionOnSet([u \in Users |-> f[<<u, k>>]], Users)

ASSUME AmmAssumption ==
    /\ IsFiniteSet(Users) /\ IsFiniteSet(Pools) /\ IsFiniteSet(Gateways)
    /\ Token0 \in [Pools -> Tokens] /\ Token1 \in [Pools -> Tokens]
    /\ \A p \in Pools : Token0[p] # Token1[p]
    /\ FeeDen \in Nat \ {0} /\ FeeNum \in 0..(FeeDen - 1)
    /\ Opening \in [Accounts -> Nat] /\ Funded \subseteq Accounts
    /\ Seed \in [Pools -> [status : {"none", "active"}, r0 : Nat, r1 : Nat, lp : Nat]]
    /\ SeedShares \in [Users \X Pools -> Nat]
    /\ \A p \in Pools : /\ Seed[p].lp = OfAll(SeedShares, p)
                        /\ Seed[p].status = "none" => Seed[p] = Absent
    /\ \A r \in Requests :
           /\ Ask[r].pool \in Pools
           /\ \/ Ask[r].kind = "create"
              \/ /\ Ask[r].kind \in {"add", "remove", "swap"}
                 /\ Ask[r].user \in Users /\ Ask[r].amount \in Nat /\ Ask[r].other \in Nat
    /\ Workloads \subseteq SUBSET Requests /\ MaxTrouble \in Nat

VARIABLES
    pool,      \* the rows of amm_pools
    shares,    \* the rows of amm_liquidity, 0 where there is none
    swaps,     \* how many rows amm_swaps has, of each pool
    balance,   \* the wallet rows
    waiting,   \* the requests that no handler has begun
    job,       \* of each gateway: the operation that holds Service.mu
    lapses,    \* history: what has gone wrong
    trouble

histVars == <<lapses, trouble>>
vars == <<pool, shares, swaps, balance, waiting, job, histVars>>

Trouble(l) == trouble < MaxTrouble /\ trouble' = trouble + 1 /\ lapses' = lapses \cup {l}

-------------------------------------------------------------------------------
(* Arithmetic (math.go).                                                    *)

Quot(a, b) == (2 * a + b) \div (2 * b)

\* sqrtBigFloat, to the nearest unit.
Sqrt(x) == CHOOSE s \in 0..x : s * s - s <= x /\ x <= s * s + s

\* AddLiquidity: what is taken of amount1, and the shares for it.  The shares
\* follow from amount0 alone, even when amount1 is too small for it.
Needed(row, a0) == Quot(a0 * row.r1, row.r0)

UsedAmount1(row, a0, a1) == IF row.lp = 0 \/ a1 < Needed(row, a0) THEN a1 ELSE Needed(row, a0)

SharesByToken1(row, a0, a1) == IF row.lp = 0 THEN Sqrt(a0 * a1) ELSE Quot(a1 * row.lp, row.r1)

Minted(row, a0, a1) == IF row.lp = 0 THEN Sqrt(a0 * a1) ELSE Quot(a0 * row.lp, row.r0)

\* RemoveLiquidity: the part of each reserve that belongs to the shares.
PartOf(reserve, s, row) == Quot(s * reserve, row.lp)

\* QuoteSwap: what the pool gives for an amount, after its fee.
AmountOut(in, out, amt) ==
    LET net == amt * (FeeDen - FeeNum) IN Quot(out * net, in * FeeDen + net)

-------------------------------------------------------------------------------
(* The operations up to the wallet transaction: the pool is read and the     *)
(* changes are computed.                                                    *)

Idle == [at |-> "idle"]

\* The change of the pool (d0, d1, dl) is that of the user with the other sign;
\* read is the pool as it was, held the position as it was.
Operation(kind, u, p, d0, d1, dl) ==
    [at |-> "settle", kind |-> kind, user |-> u, pool |-> p, read |-> pool[p], held |-> shares[<<u, p>>],
     d0 |-> d0, d1 |-> d1, dl |-> dl]

\* Another gateway is in an operation on the same pool.
Overlaps(g, p) == IF \E h \in Gateways \ {g} : job[h] # Idle /\ job[h].pool = p THEN {"overlap"} ELSE {}

Take(g, r, kind) ==
    /\ job[g] = Idle /\ r \in waiting /\ Ask[r].kind = kind
    /\ pool[Ask[r].pool].status = "active"
    /\ waiting' = waiting \ {r}
    /\ UNCHANGED <<pool, shares, swaps, balance, trouble>>

Begin(g, j, more) ==
    /\ job' = [job EXCEPT ![g] = j]
    /\ lapses' = lapses \cup Overlaps(g, j.pool) \cup more

\* A second pool for a pair breaks the uniqueness of the row.
CreatePool(r) ==
    LET p == Ask[r].pool IN
    /\ r \in waiting /\ Ask[r].kind = "create"
    /\ waiting' = waiting \ {r}
    /\ \/ /\ \A q \in Pools : {Token0[q], Token1[q]} = {Token0[p], Token1[p]} => pool[q].status = "none"
          /\ pool' = [pool EXCEPT ![p] = Created] /\ UNCHANGED histVars
       \/ Trouble("uncreated") /\ UNCHANGED pool
    /\ UNCHANGED <<shares, swaps, balance, job>>

AddLiquidity(g, r) ==
    LET p == Ask[r].pool  a0 == Ask[r].amount  a1 == Ask[r].other IN
    /\ Take(g, r, "add") /\ a0 > 0 /\ a1 > 0
    /\ pool[p].lp > 0 => pool[p].r0 > 0
    /\ Begin(g, Operation("add", Ask[r].user, p, a0, UsedAmount1(pool[p], a0, a1), Minted(pool[p], a0, a1)),
             IF pool[p].lp > 0 /\ a1 < Needed(pool[p], a0) THEN {"short"} ELSE {})

RemoveUnchecked(g, r) ==
    LET p == Ask[r].pool  s == Ask[r].amount  row == pool[p] IN
    /\ Take(g, r, "remove") /\ s > 0
    /\ row.lp > 0 /\ s <= row.lp
    /\ Begin(g, Operation("remove", Ask[r].user, p, -PartOf(row.r0, s, row), -PartOf(row.r1, s, row), -s), {})

RemoveLiquidity(g, r) ==
    LET p == Ask[r].pool  s == Ask[r].amount  row == pool[p] IN
    /\ Take(g, r, "remove") /\ s > 0
    /\ row.lp > 0 /\ s <= row.lp /\ s <= shares[<<Ask[r].user, p>>]
    /\ Begin(g, Operation("remove", Ask[r].user, p, -PartOf(row.r0, s, row), -PartOf(row.r1, s, row), -s), {})

\* other = 0: the input is token 0.
ExecuteSwap(g, r) ==
    LET p == Ask[r].pool  amt == Ask[r].amount  row == pool[p] IN
    /\ Take(g, r, "swap") /\ amt > 0
    /\ row.r0 > 0 /\ row.r1 > 0
    /\ Begin(g, IF Ask[r].other = 0
                THEN Operation("swap", Ask[r].user, p, amt, -AmountOut(row.r0, row.r1, amt), 0)
                ELSE Operation("swap", Ask[r].user, p, -AmountOut(row.r1, row.r0, amt), amt, 0), {})

-------------------------------------------------------------------------------
(* The steps of an operation.                                               *)

Purse0(j) == <<j.user, Token0[j.pool]>>
Purse1(j) == <<j.user, Token1[j.pool]>>

Goes(g, at) == job' = [job EXCEPT ![g] = IF at = "idle" THEN Idle ELSE [@ EXCEPT !.at = at]]

\* One transaction of the store.  The balance is not compared with anything, and
\* an account without a row is not charged.
Moved(j) ==
    balance' = [x \in Accounts |-> balance[x] + (IF x \notin Funded THEN 0
                                                 ELSE IF x = Purse0(j) THEN -j.d0
                                                 ELSE IF x = Purse1(j) THEN -j.d1 ELSE 0)]

Settle(g) ==
    LET j == job[g] IN
    /\ j.at = "settle"
    /\ \/ /\ Moved(j) /\ Goes(g, "pool")
          /\ lapses' = lapses \cup (IF {Purse0(j), Purse1(j)} \subseteq Funded THEN {} ELSE {"norow"})
          /\ UNCHANGED trouble
       \/ Trouble("unsettled") /\ Goes(g, "idle") /\ UNCHANGED balance
       \/ Trouble("commit") /\ Moved(j) /\ Goes(g, "idle")
    /\ UNCHANGED <<pool, shares, swaps, waiting>>

UpdateNetOfFee(j) ==
    [j.read EXCEPT !.r0 = @ + (IF j.kind = "swap" /\ j.d0 > 0 THEN Quot(j.d0 * (FeeDen - FeeNum), FeeDen) ELSE j.d0),
                   !.r1 = @ + j.d1, !.lp = @ + j.dl]

\* ApplySwap and its siblings: the new reserves follow from those that were read.
Updated(j) == [j.read EXCEPT !.r0 = @ + j.d0, !.r1 = @ + j.d1, !.lp = @ + j.dl]

AfterPool == [add |-> "position", remove |-> "save", swap |-> "record"]

UpdatePoolReserves(g) ==
    LET j == job[g] IN
    /\ j.at = "pool"
    /\ \/ /\ pool' = [pool EXCEPT ![j.pool] = Updated(j)]
          /\ Goes(g, AfterPool[j.kind]) /\ UNCHANGED histVars
       \/ Trouble("unwritten") /\ Goes(g, "idle") /\ UNCHANGED pool
    /\ UNCHANGED <<shares, swaps, balance, waiting>>

\* AddLiquidity reads the position now, and takes an error for "none".
GetPositionByPool(g) ==
    LET j == job[g] IN
    /\ j.at = "position"
    /\ \/ /\ job' = [job EXCEPT ![g] = [j EXCEPT !.at = "save", !.held = shares[<<j.user, j.pool>>]]]
          /\ UNCHANGED histVars
       \/ Trouble("unread") /\ job' = [job EXCEPT ![g] = [j EXCEPT !.at = "save", !.held = 0]]
    /\ UNCHANGED <<pool, shares, swaps, balance, waiting>>

NewPosition(j) == j.held + j.dl

SavePosition(g) ==
    LET j == job[g] IN
    /\ j.at = "save"
    /\ \/ shares' = [shares EXCEPT ![<<j.user, j.pool>>] = NewPosition(j)] /\ UNCHANGED histVars
       \/ Trouble("unwritten") /\ UNCHANGED shares
    /\ Goes(g, "idle")
    /\ UNCHANGED <<pool, swaps, balance, waiting>>

SaveSwap(g) ==
    LET j == job[g] IN
    /\ j.at = "record"
    /\ \/ swaps' = [swaps EXCEPT ![j.pool] = @ + 1] /\ UNCHANGED histVars
       \/ Trouble("unrecorded") /\ UNCHANGED swaps
    /\ Goes(g, "idle")
    /\ UNCHANGED <<pool, shares, balance, waiting>>

Crash(g) ==
    /\ job[g] # Idle /\ Trouble("crash") /\ Goes(g, "idle")
    /\ UNCHANGED <<pool, shares, swaps, balance, waiting>>

-------------------------------------------------------------------------------
Init ==
    /\ pool = Seed /\ shares = SeedShares
    /\ swaps = [p \in Pools |-> 0]
    /\ balance = Opening
    /\ waiting \in Workloads
    /\ job = [g \in Gateways |-> Idle]
    /\ lapses = {} /\ trouble = 0

Next ==
    \/ \E r \in Requests : CreatePool(r)
    \/ \E g \in Gateways :
           \/ \E r \in Requests : AddLiquidity(g, r) \/ RemoveLiquidity(g, r) \/ ExecuteSwap(g, r)
           \/ Settle(g) \/ UpdatePoolReserves(g)
           \/ GetPositionByPool(g) \/ SavePosition(g) \/ SaveSwap(g)
           \/ Crash(g)

Spec == Init /\ [][Next]_vars

-------------------------------------------------------------------------------
(* Properties.                                                              *)

\* Types: reserves, shares and positions never become negative.
TypeOK ==
    /\ pool \in [Pools -> [status : {"none", "active"}, r0 : Nat, r1 : Nat, lp : Nat]]
    /\ shares \in [Users \X Pools -> Nat]
    /\ swaps \in [Pools -> Nat]
    /\ balance \in [Accounts -> Int]
    /\ waiting \subseteq Requests
    /\ \A g \in Gateways : job[g].at \in {"idle", "settle", "pool", "position", "save", "record"}
    /\ trouble \in 0..MaxTrouble

\* What amounts of its two tokens a pool has of token t.
Part(p, a0, a1, t) == (IF Token0[p] = t THEN a0 ELSE 0) + (IF Token1[p] = t THEN a1 ELSE 0)

Reserves(of, t) == SumFunctionOnSet([p \in Pools |-> Part(p, of[p].r0, of[p].r1, t)], Pools)

InFlight(t) ==
    SumFunctionOnSet([g \in Gateways |-> LET j == job[g] IN
        IF j.at = "pool" THEN Part(j.pool, j.d0, j.d1, t) ELSE 0], Gateways)

ToBeWritten(p) ==
    SumFunctionOnSet([g \in Gateways |-> LET j == job[g] IN
        IF j.at \in {"position", "save"} /\ j.pool = p THEN j.dl ELSE 0], Gateways)

\* What the wallets lose the pools gain, to the last unit: fees stay in the
\* reserves (Settle against UpdatePoolReserves), unless a step after the
\* transaction failed or was lost, two gateways worked on a pool at once, or an
\* account had no row.  The shares a pool has issued are those of its positions,
\* and those an operation is about to write: everyone can withdraw at once.
BooksBalance ==
    /\ lapses \cap {"commit", "unwritten", "overlap", "crash", "norow"} = {} =>
           \A t \in Tokens : OfAll(balance, t) + Reserves(pool, t) + InFlight(t)
                                 = OfAll(Opening, t) + Reserves(Seed, t)
    /\ lapses \cap {"unwritten", "overlap", "unread", "crash"} = {} =>
           \A p \in Pools : pool[p].lp = OfAll(shares, p) + ToBeWritten(p)

\* No operation takes from those who stay: the product of the reserves for a
\* share does not fall, up to the rounding of a unit, when somebody swaps, adds
\* or removes, unless a deposit brought too little of token 1 (its shares are
\* counted by token 0 alone), or two gateways worked at once.
SharesKeepWorth ==
    [][lapses \cap {"short", "overlap"} = {} =>
        \A p \in Pools :
            LET old == pool[p]  new == pool'[p] IN
            old.lp > 0 /\ new.lp > 0 =>
                old.r0 * old.r1 * (2 * new.lp - 1) * (2 * new.lp - 1)
                    <= (2 * new.r0 + 1) * (2 * new.r1 + 1) * old.lp * old.lp]_vars

===============================================================================
