------------------------------ MODULE Amm_proofs ------------------------------
(***************************************************************************)
(* Proofs about Amm, for any users, pools, fee, requests and number of      *)
(* gateways: its types, that the books balance, and that a share keeps its  *)
(* worth.                                                                   *)
(*                                                                         *)
(* The inductive invariant says of every operation that what it computed    *)
(* from the row it read is sound and keeps the worth of a share, and, as    *)
(* long as no two gateways met on a pool, that this row and the position it *)
(* read are still the ones in the store.  The products of amounts are       *)
(* compared in the lemmas about quotients, before any step is looked at.    *)
(***************************************************************************)
EXTENDS Amm, SumTheorems

-------------------------------------------------------------------------------
(* Rounded quotients, and what they leave in a pool.                         *)

\* Integer division rounds down.
LEMMA DivBounds ==
    ASSUME NEW x \in Int, NEW y \in Nat \ {0}
    PROVE  /\ x \div y \in Int
           /\ y * (x \div y) <= x /\ x < y * (x \div y) + y
OBVIOUS

\* A rounded quotient (math.go) is off by at most half a unit.
LEMMA QuotBounds ==
    ASSUME NEW a \in Nat, NEW b \in Nat \ {0}
    PROVE  /\ Quot(a, b) \in Nat
           /\ 2 * (b * Quot(a, b)) <= 2 * a + b
           /\ 2 * a < 2 * (b * Quot(a, b)) + b
<1>1. (2 * a + b) \in Int /\ 2 * b \in Nat \ {0}
  OBVIOUS
<1>2. PICK q : q = (2 * a + b) \div (2 * b)
  OBVIOUS
<1>3. q \in Int /\ (2 * b) * q <= 2 * a + b /\ 2 * a + b < (2 * b) * q + 2 * b
  BY <1>1, <1>2, DivBounds
<1>4. (2 * b) * q = 2 * (b * q)
  BY <1>3
<1>5. q >= 0
  BY <1>1, <1>3
<1> QED  BY <1>2, <1>3, <1>4, <1>5 DEF Quot

\* Products of larger factors are larger.
LEMMA MulLe ==
    ASSUME NEW a \in Nat, NEW b \in Nat, NEW c \in Nat, NEW d \in Nat, a <= b, c <= d
    PROVE  a * c <= b * d
OBVIOUS

\* A common factor is dropped from an inequality,
LEMMA MulCancel ==
    ASSUME NEW k \in Nat \ {0}, NEW a \in Int, NEW b \in Int, k * a <= k * b
    PROVE  a <= b
OBVIOUS

\* and from a strict one.
LEMMA MulCancelLt ==
    ASSUME NEW k \in Nat \ {0}, NEW a \in Int, NEW b \in Int, k * a < k * b
    PROVE  a < b
OBVIOUS

\* A quotient is rounded to no more than a whole number that bounds it.
LEMMA QuotAtMost ==
    ASSUME NEW a \in Nat, NEW b \in Nat \ {0}, NEW r \in Nat, a <= b * r
    PROVE  Quot(a, b) \in Nat /\ Quot(a, b) <= r
<1>1. PICK q \in Nat : q = Quot(a, b) /\ 2 * (b * q) <= 2 * a + b
  BY QuotBounds
<1>2. 2 * (b * q) < 2 * (b * (r + 1))
  BY <1>1
<1>3. b * q < b * (r + 1)
  BY <1>2
<1>4. q < r + 1
  BY <1>3, MulCancelLt
<1> QED  BY <1>1, <1>4

\* Every natural number has an integer nearest to its square root.
LEMMA SqrtExists ==
    ASSUME NEW x \in Nat
    PROVE  \E s \in 0..x : s * s - s <= x /\ x <= s * s + s
<1> DEFINE K == {n \in Nat : \E s \in 0..n : s * s - s <= n /\ n <= s * s + s}
<1>1. 0 \in K
  <2>1. 0 \in 0..0 /\ 0 * 0 - 0 <= 0 /\ 0 <= 0 * 0 + 0
    OBVIOUS
  <2> QED  BY <2>1
<1>2. ASSUME NEW n \in K PROVE n + 1 \in K
  <2>1. PICK s \in 0..n : s * s - s <= n /\ n <= s * s + s
    OBVIOUS
  <2>2. n \in Nat /\ s \in Nat /\ n + 1 \in Nat
    OBVIOUS
  <2> HIDE DEF K
  <2>3. PICK q \in Nat : q = s * s
    BY <2>2
  <2>4. CASE n + 1 <= q + s
    <3>1. s \in 0..(n + 1) /\ s * s - s <= n + 1 /\ n + 1 <= s * s + s
      BY <2>1, <2>2, <2>3, <2>4
    <3> QED  BY <2>2, <3>1 DEF K
  <2>5. CASE ~(n + 1 <= q + s)
    <3>1. n = q + s
      BY <2>1, <2>2, <2>3, <2>5
    <3>2. (s + 1) * (s + 1) = q + 2 * s + 1
      BY <2>2, <2>3
    <3>3. /\ s + 1 \in 0..(n + 1)
          /\ (s + 1) * (s + 1) - (s + 1) <= n + 1
          /\ n + 1 <= (s + 1) * (s + 1) + (s + 1)
      BY <2>2, <2>3, <3>1, <3>2
    <3> QED  BY <2>2, <3>3 DEF K
  <2> QED  BY <2>4, <2>5
<1>3. K = Nat
  <2>1. K \in SUBSET Nat
    OBVIOUS
  <2> HIDE DEF K
  <2> QED  BY <1>1, <1>2, <2>1, NatSetInduction
<1> QED  BY <1>3

\* A swap, whatever part of the amount the fee leaves: the pool gives for it no
\* more than keeps the product of the reserves, up to the rounding of a unit.
LEMMA SwapKeeps ==
    ASSUME NEW in \in Nat \ {0}, NEW out \in Nat, NEW L \in Nat \ {0}, NEW amt \in Nat,
           NEW D \in Nat \ {0}, NEW f \in Nat, f <= D
    PROVE  LET o == Quot(out * (amt * f), in * D + amt * f) IN
           in * out * (2 * L - 1) * (2 * L - 1)
              <= (2 * (in + amt) + 1) * (2 * (out - o) + 1) * L * L
<1>1. PICK n \in Nat : n = amt * f
  OBVIOUS
<1>2. PICK B \in Nat \ {0} : B = in * D + n
  <2>1. in * D \in Nat \ {0}
    OBVIOUS
  <2> QED  BY <2>1
<1>3. PICK o \in Nat : o = Quot(out * n, B) /\ 2 * (B * o) <= 2 * (out * n) + B
  <2>1. out * n \in Nat
    OBVIOUS
  <2> QED  BY <2>1, QuotBounds
<1>4. PICK X \in Nat : X = 2 * (in + amt) + 1
  OBVIOUS
<1>5. PICK Y \in Int : Y = 2 * (out - o) + 1
  OBVIOUS
<1>6. B * Y >= 2 * (out * (in * D))
  <2>1. B * Y = 2 * (B * out) - 2 * (B * o) + B
    BY <1>5
  <2>2. B * out = out * (in * D) + out * n
    BY <1>2
  <2> QED  BY <1>3, <2>1, <2>2
<1>7. D * X >= 2 * B
  <2>1. n <= amt * D
    BY <1>1
  <2>2. D * X = 2 * (in * D) + 2 * (amt * D) + D
    BY <1>4
  <2> QED  BY <1>2, <2>1, <2>2
<1>8. PICK R \in Nat : R = in * out
  OBVIOUS
<1>9. X * Y >= 4 * R
  <2>1. (2 * B) * (2 * (out * (in * D))) <= (D * X) * (B * Y)
    <3>1. 2 * (out * (in * D)) \in Nat /\ 2 * B \in Nat
      OBVIOUS
    <3>2. D * X \in Nat /\ B * Y \in Nat
      BY <1>6, <3>1
    <3> QED  BY <1>6, <1>7, <3>1, <3>2, MulLe
  <2>2. (2 * B) * (2 * (out * (in * D))) = (D * B) * (4 * R)
    BY <1>8
  <2>3. (D * X) * (B * Y) = (D * B) * (X * Y)
    OBVIOUS
  <2>4. D * B \in Nat \ {0} /\ X * Y \in Int /\ 4 * R \in Int
    OBVIOUS
  <2>5. (D * B) * (4 * R) <= (D * B) * (X * Y)
    BY <2>1, <2>2, <2>3
  <2> QED  BY <2>4, <2>5, MulCancel
<1>10. R * ((2 * L - 1) * (2 * L - 1)) <= (X * Y) * (L * L)
  <2>1. (2 * L - 1) * (2 * L - 1) <= 4 * (L * L)
    OBVIOUS
  <2>2. PICK Q \in Nat : Q = L * L
    OBVIOUS
  <2>3. PICK u \in Nat : u = (2 * L - 1) * (2 * L - 1)
    OBVIOUS
  <2>4. R * u <= R * (4 * Q)
    BY <2>1, <2>2, <2>3, MulLe
  <2>5. (4 * R) * Q <= (X * Y) * Q
    <3>1. PICK Z \in Nat : Z = X * Y
      BY <1>9
    <3> QED  BY <1>9, <3>1, MulLe
  <2> QED  BY <2>2, <2>3, <2>4, <2>5
<1> QED  BY <1>1, <1>2, <1>3, <1>4, <1>5, <1>8, <1>10

\* A deposit of a of token 0, the token 1 that it needs, and the shares that are
\* counted for it.
LEMMA AddKeeps ==
    ASSUME NEW r0 \in Nat \ {0}, NEW r1 \in Nat, NEW L \in Nat \ {0}, NEW a \in Nat
    PROVE  LET m == Quot(a * L, r0)
               d == Quot(a * r1, r0)
           IN  r0 * r1 * (2 * (L + m) - 1) * (2 * (L + m) - 1)
                  <= (2 * (r0 + a) + 1) * (2 * (r1 + d) + 1) * L * L
<1>1. PICK m \in Nat : m = Quot(a * L, r0) /\ 2 * (r0 * m) <= 2 * (a * L) + r0
  <2>1. a * L \in Nat
    OBVIOUS
  <2> QED  BY <2>1, QuotBounds
<1>2. PICK d \in Nat : d = Quot(a * r1, r0) /\ 2 * (a * r1) < 2 * (r0 * d) + r0
  <2>1. a * r1 \in Nat
    OBVIOUS
  <2> QED  BY <2>1, QuotBounds
<1>3. PICK X \in Nat : X = 2 * (r0 + a) + 1
  OBVIOUS
<1>4. PICK Y \in Nat : Y = 2 * (r1 + d) + 1
  OBVIOUS
<1>5. PICK u \in Nat : u = 2 * (L + m) - 1
  <2>1. 2 * (L + m) - 1 \in Nat
    OBVIOUS
  <2> QED  BY <2>1
<1>6. PICK P \in Nat : P = r0 + a
  OBVIOUS
<1>7. r0 * u <= 2 * (L * P)
  <2>1. r0 * u = 2 * (r0 * L) + 2 * (r0 * m) - r0
    BY <1>5
  <2>2. L * P = r0 * L + a * L
    BY <1>6
  <2> QED  BY <1>1, <2>1, <2>2
<1>8. r0 * Y >= 2 * (r1 * P)
  <2>1. r0 * Y = 2 * (r0 * r1) + 2 * (r0 * d) + r0
    BY <1>4
  <2>2. r1 * P = r0 * r1 + a * r1
    BY <1>6
  <2> QED  BY <1>2, <2>1, <2>2
<1>9. X >= 2 * P
  BY <1>3, <1>6
<1>10. (r0 * u) * (r0 * u) <= (2 * (L * P)) * (2 * (L * P))
  <2>1. r0 * u \in Nat /\ 2 * (L * P) \in Nat
    OBVIOUS
  <2> QED  BY <1>7, <2>1, MulLe
<1>11. r1 * ((r0 * u) * (r0 * u)) <= r1 * ((2 * (L * P)) * (2 * (L * P)))
  <2>1. (r0 * u) * (r0 * u) \in Nat /\ (2 * (L * P)) * (2 * (L * P)) \in Nat
    OBVIOUS
  <2> QED  BY <1>10, <2>1, MulLe
<1>12. (2 * P) * (2 * (r1 * P)) <= X * (r0 * Y)
  <2>1. 2 * P \in Nat /\ 2 * (r1 * P) \in Nat /\ r0 * Y \in Nat
    OBVIOUS
  <2> QED  BY <1>8, <1>9, <2>1, MulLe
<1>13. ((2 * P) * (2 * (r1 * P))) * (L * L) <= (X * (r0 * Y)) * (L * L)
  <2>1. (2 * P) * (2 * (r1 * P)) \in Nat /\ X * (r0 * Y) \in Nat /\ L * L \in Nat
    OBVIOUS
  <2> QED  BY <1>12, <2>1, MulLe
<1>14. r1 * ((2 * (L * P)) * (2 * (L * P))) = ((2 * P) * (2 * (r1 * P))) * (L * L)
  OBVIOUS
<1>15. r0 * (r0 * r1 * u * u) <= r0 * (X * Y * L * L)
  <2>1. r1 * ((r0 * u) * (r0 * u)) = r0 * (r0 * r1 * u * u)
    OBVIOUS
  <2>2. (X * (r0 * Y)) * (L * L) = r0 * (X * Y * L * L)
    OBVIOUS
  <2> QED  BY <1>11, <1>13, <1>14, <2>1, <2>2
<1>16. r0 * r1 * u * u <= X * Y * L * L
  <2>1. r0 * r1 * u * u \in Int /\ X * Y * L * L \in Int
    OBVIOUS
  <2> QED  BY <1>15, <2>1, MulCancel
<1> QED  BY <1>1, <1>2, <1>3, <1>4, <1>5, <1>16

\* A withdrawal of s of the L shares of a pool.
LEMMA RemoveKeeps ==
    ASSUME NEW r0 \in Nat, NEW r1 \in Nat, NEW L \in Nat \ {0}, NEW s \in Nat, s < L
    PROVE  LET x0 == Quot(s * r0, L)
               x1 == Quot(s * r1, L)
           IN  r0 * r1 * (2 * (L - s) - 1) * (2 * (L - s) - 1)
                  <= (2 * (r0 - x0) + 1) * (2 * (r1 - x1) + 1) * L * L
<1>1. PICK x0 \in Nat : x0 = Quot(s * r0, L) /\ 2 * (L * x0) <= 2 * (s * r0) + L
  <2>1. s * r0 \in Nat
    OBVIOUS
  <2> QED  BY <2>1, QuotBounds
<1>2. PICK x1 \in Nat : x1 = Quot(s * r1, L) /\ 2 * (L * x1) <= 2 * (s * r1) + L
  <2>1. s * r1 \in Nat
    OBVIOUS
  <2> QED  BY <2>1, QuotBounds
<1>3. PICK K \in Nat : K = L - s
  OBVIOUS
<1>4. PICK X \in Int : X = 2 * (r0 - x0) + 1
  OBVIOUS
<1>5. PICK Y \in Int : Y = 2 * (r1 - x1) + 1
  OBVIOUS
<1>6. L * X >= 2 * (r0 * K)
  <2>1. L * X = 2 * (L * r0) - 2 * (L * x0) + L
    BY <1>4
  <2>2. r0 * K = L * r0 - s * r0
    BY <1>3
  <2> QED  BY <1>1, <2>1, <2>2
<1>7. L * Y >= 2 * (r1 * K)
  <2>1. L * Y = 2 * (L * r1) - 2 * (L * x1) + L
    BY <1>5
  <2>2. r1 * K = L * r1 - s * r1
    BY <1>3
  <2> QED  BY <1>2, <2>1, <2>2
<1>8. (2 * (r0 * K)) * (2 * (r1 * K)) <= (L * X) * (L * Y)
  <2>1. 2 * (r0 * K) \in Nat /\ 2 * (r1 * K) \in Nat
    OBVIOUS
  <2>2. L * X \in Nat /\ L * Y \in Nat
    BY <1>6, <1>7, <2>1
  <2> QED  BY <1>6, <1>7, <2>1, <2>2, MulLe
<1>9. PICK u \in Nat : u = 2 * K - 1
  <2>1. 2 * K - 1 \in Nat
    BY <1>3
  <2> QED  BY <2>1
<1>10. u * u <= (2 * K) * (2 * K)
  <2>1. u <= 2 * K /\ 2 * K \in Nat
    BY <1>9
  <2> QED  BY <2>1, MulLe
<1>11. (r0 * r1) * (u * u) <= (r0 * r1) * ((2 * K) * (2 * K))
  <2>1. r0 * r1 \in Nat /\ u * u \in Nat /\ (2 * K) * (2 * K) \in Nat
    OBVIOUS
  <2> QED  BY <1>10, <2>1, MulLe
<1>12. (r0 * r1) * ((2 * K) * (2 * K)) = (2 * (r0 * K)) * (2 * (r1 * K))
  OBVIOUS
<1>13. r0 * r1 * u * u <= X * Y * L * L
  <2>1. (L * X) * (L * Y) = X * Y * L * L
    OBVIOUS
  <2>2. (r0 * r1) * (u * u) = r0 * r1 * u * u
    OBVIOUS
  <2> QED  BY <1>8, <1>11, <1>12, <2>1, <2>2
<1>14. u = 2 * (L - s) - 1
  BY <1>3, <1>9
<1> QED  BY <1>1, <1>2, <1>4, <1>5, <1>13, <1>14

-------------------------------------------------------------------------------
(* The inductive invariant.                                                  *)

Rows == [status : {"none", "active"}, r0 : Nat, r1 : Nat, lp : Nat]

Works == [at : {"settle", "pool", "position", "save", "record"}, kind : {"add", "remove", "swap"},
          user : Users, pool : Pools, read : Rows, held : Nat, d0 : Int, d1 : Int, dl : Int]

TypeInv ==
    /\ pool \in [Pools -> Rows]
    /\ shares \in [Users \X Pools -> Nat]
    /\ swaps \in [Pools -> Nat]
    /\ balance \in [Accounts -> Int]
    /\ waiting \subseteq Requests
    /\ job \in [Gateways -> Works \cup {Idle}]
    /\ trouble \in 0..MaxTrouble

\* What an operation computes when it begins stays right whatever others do: it
\* takes no more from the pool than it has read there, and no more shares than
\* it has read of the position.
Sound(j) ==
    /\ j.read.status = "active"
    /\ Updated(j) \in Rows
    /\ NewPosition(j) \in Nat
    /\ j.kind = "add" => j.dl \in Nat
    /\ j.kind = "swap" => j.dl = 0
    /\ j.at = "position" => j.kind = "add"
    /\ j.at = "save" => j.kind \in {"add", "remove"}
    /\ j.at = "record" => j.kind = "swap"

\* The product of the reserves for a share is kept by what becomes of a row.
WorthKept(old, new) ==
    old.lp > 0 /\ new.lp > 0 =>
        old.r0 * old.r1 * (2 * new.lp - 1) * (2 * new.lp - 1)
            <= (2 * new.r0 + 1) * (2 * new.r1 + 1) * old.lp * old.lp

JobRight(g) ==
    job[g] # Idle =>
        /\ Sound(job[g]) /\ pool[job[g].pool].status = "active"
        /\ "short" \notin lapses => WorthKept(job[g].read, Updated(job[g]))

JobsRight == \A g \in Gateways : JobRight(g)

NoRowIsEmpty == \A p \in Pools : pool[p].status = "none" => pool[p] = Absent

\* Without an overlap a pool is in one gateway's hands, and what that gateway
\* read of the pool and of the position is still there.
Alone ==
    "overlap" \notin lapses =>
        \A g, h \in Gateways : g # h /\ job[g] # Idle /\ job[h] # Idle => job[g].pool # job[h].pool

ReadHolds(g) ==
    LET j == job[g] IN
    /\ j.at \in {"settle", "pool"} => j.read = pool[j.pool] /\ j.held = shares[<<j.user, j.pool>>]
    /\ j.at = "save" /\ "unread" \notin lapses => j.held = shares[<<j.user, j.pool>>]

Current == "overlap" \notin lapses => \A g \in Gateways : ReadHolds(g)

AmmInv == TypeInv /\ JobsRight /\ NoRowIsEmpty /\ Alone /\ Current

-------------------------------------------------------------------------------
(* The beginning of an operation.                                            *)

\* What the beginning of an operation j by gateway g is.
Begun(g, j) ==
    /\ job[g] = Idle /\ j \in Works /\ j.at = "settle" /\ Sound(j)
    /\ j.read = pool[j.pool] /\ j.held = shares[<<j.user, j.pool>>]
    /\ job' = [job EXCEPT ![g] = j]
    /\ lapses \subseteq lapses' /\ Overlaps(g, j.pool) \subseteq lapses'
    /\ "short" \notin lapses' => WorthKept(j.read, Updated(j))
    /\ UNCHANGED <<pool, shares, swaps, balance, trouble>> /\ waiting' \subseteq waiting

\* The changes an operation computes make it a sound one.
LEMMA OperationBegun ==
    ASSUME AmmInv, NEW g \in Gateways, job[g] = Idle, NEW kind \in {"add", "remove", "swap"},
           NEW u \in Users, NEW p \in Pools, NEW d0 \in Int, NEW d1 \in Int, NEW dl \in Int,
           pool[p].status = "active",
           pool[p].r0 + d0 \in Nat, pool[p].r1 + d1 \in Nat, pool[p].lp + dl \in Nat,
           shares[<<u, p>>] + dl \in Nat,
           kind = "add" => dl \in Nat, kind = "swap" => dl = 0,
           NEW more, NEW r, Take(g, r, kind), Begin(g, Operation(kind, u, p, d0, d1, dl), more),
           "short" \notin more =>
               WorthKept(pool[p], [pool[p] EXCEPT !.r0 = @ + d0, !.r1 = @ + d1, !.lp = @ + dl])
    PROVE  \E j : Begun(g, j)
<1> DEFINE j == Operation(kind, u, p, d0, d1, dl)
<1>1. pool[p] \in Rows /\ shares[<<u, p>>] \in Nat
  BY DEF AmmInv, TypeInv
<1>2. /\ j.at = "settle" /\ j.kind = kind /\ j.user = u /\ j.pool = p /\ j.read = pool[p]
      /\ j.held = shares[<<u, p>>] /\ j.d0 = d0 /\ j.d1 = d1 /\ j.dl = dl
  BY DEF Operation
<1>3. j \in Works
  BY <1>1 DEF Operation, Works
<1> HIDE DEF j
<1>4. Updated(j) = [pool[p] EXCEPT !.r0 = @ + d0, !.r1 = @ + d1, !.lp = @ + dl]
  BY <1>2 DEF Updated
<1>5. Updated(j) \in Rows
  BY <1>1, <1>4 DEF Rows
<1>6. Sound(j)
  BY <1>2, <1>5 DEF Sound, NewPosition
<1>7. job' = [job EXCEPT ![g] = j] /\ lapses' = lapses \cup Overlaps(g, j.pool) \cup more
  BY DEF Begin, j
<1>8. UNCHANGED <<pool, shares, swaps, balance, trouble>> /\ waiting' \subseteq waiting
  BY DEF Take
<1>9. "short" \notin lapses' => WorthKept(j.read, Updated(j))
  BY <1>2, <1>4, <1>7
<1> QED  BY <1>2, <1>3, <1>6, <1>7, <1>8, <1>9 DEF Begun

\* What a request asks for.
LEMMA Asked ==
    ASSUME NEW r \in Requests, Ask[r].kind \in {"add", "remove", "swap"}
    PROVE  /\ Ask[r].pool \in Pools /\ Ask[r].user \in Users
           /\ Ask[r].amount \in Nat /\ Ask[r].other \in Nat
BY AmmAssumption

\* A deposit begins.
LEMMA AddBegun ==
    ASSUME AmmInv, NEW g \in Gateways, NEW r \in Requests, AddLiquidity(g, r)
    PROVE  \E j : Begun(g, j)
<1>1. PICK p \in Pools : p = Ask[r].pool
  BY Asked DEF AddLiquidity, Take
<1>2. PICK a0 \in Nat \ {0}, a1 \in Nat \ {0}, u \in Users :
          a0 = Ask[r].amount /\ a1 = Ask[r].other /\ u = Ask[r].user
  BY Asked DEF AddLiquidity, Take
<1>3. PICK row \in Rows : row = pool[p]
  BY DEF AmmInv, TypeInv
<1>4. /\ Take(g, r, "add") /\ (row.lp > 0 => row.r0 > 0) /\ row.status = "active"
      /\ job[g] = Idle
  BY <1>1, <1>3 DEF AddLiquidity, Take
<1>5. PICK more : more = IF row.lp > 0 /\ a1 < Needed(row, a0) THEN {"short"} ELSE {}
  OBVIOUS
<1>6. Begin(g, Operation("add", u, p, a0, UsedAmount1(row, a0, a1), Minted(row, a0, a1)), more)
  BY <1>1, <1>2, <1>3, <1>5 DEF AddLiquidity
<1>7. row.r0 \in Nat /\ row.r1 \in Nat /\ row.lp \in Nat /\ shares[<<u, p>>] \in Nat
  BY DEF Rows, AmmInv, TypeInv
<1>8. CASE row.lp = 0
  <2>1. PICK d1 \in Nat : d1 = UsedAmount1(row, a0, a1)
    BY <1>8 DEF UsedAmount1
  <2>2. PICK dl \in Nat : dl = Minted(row, a0, a1)
    <3>1. PICK x \in Nat : x = a0 * a1
      OBVIOUS
    <3>2. Sqrt(x) \in 0..x
      BY SqrtExists DEF Sqrt
    <3> QED  BY <1>8, <3>1, <3>2 DEF Minted
  <2>3. WorthKept(pool[p], [pool[p] EXCEPT !.r0 = @ + a0, !.r1 = @ + d1, !.lp = @ + dl])
    BY <1>3, <1>7, <1>8 DEF WorthKept
  <2>4. Begin(g, Operation("add", u, p, a0, d1, dl), more)
    BY <1>6, <2>1, <2>2
  <2>5. /\ row.r0 + a0 \in Nat /\ row.r1 + d1 \in Nat /\ row.lp + dl \in Nat
        /\ shares[<<u, p>>] + dl \in Nat /\ a0 \in Int /\ d1 \in Int /\ dl \in Int
    BY <1>7
  <2> QED  BY <1>3, <1>4, <2>3, <2>4, <2>5, OperationBegun
<1>9. CASE row.lp > 0
  <2>1. row.r0 \in Nat \ {0} /\ row.lp \in Nat \ {0}
    BY <1>4, <1>7, <1>9
  <2>2. PICK n \in Nat : n = Needed(row, a0)
    <3>1. a0 * row.r1 \in Nat
      BY <1>7
    <3> QED  BY <2>1, <3>1, QuotBounds DEF Needed
  <2>3. PICK d1 \in Nat : d1 = UsedAmount1(row, a0, a1) /\ (~(a1 < n) => d1 = n)
    BY <2>1, <2>2 DEF UsedAmount1
  <2>4. PICK dl \in Nat : dl = Quot(a0 * row.lp, row.r0) /\ dl = Minted(row, a0, a1)
    <3>1. a0 * row.lp \in Nat
      BY <1>7
    <3> QED  BY <2>1, <3>1, QuotBounds DEF Minted
  <2>5. ASSUME "short" \notin more
        PROVE  WorthKept(pool[p], [pool[p] EXCEPT !.r0 = @ + a0, !.r1 = @ + d1, !.lp = @ + dl])
    <3>1. d1 = Quot(a0 * row.r1, row.r0)
      BY <1>5, <1>9, <2>2, <2>3, <2>5 DEF Needed
    <3>2. row.r0 * row.r1 * (2 * (row.lp + dl) - 1) * (2 * (row.lp + dl) - 1)
             <= (2 * (row.r0 + a0) + 1) * (2 * (row.r1 + d1) + 1) * row.lp * row.lp
      BY <1>7, <2>1, <2>4, <3>1, AddKeeps
    <3> QED  BY <1>3, <3>2 DEF WorthKept, Rows
  <2>6. Begin(g, Operation("add", u, p, a0, d1, dl), more)
    BY <1>6, <2>3, <2>4
  <2>7. /\ row.r0 + a0 \in Nat /\ row.r1 + d1 \in Nat /\ row.lp + dl \in Nat
        /\ shares[<<u, p>>] + dl \in Nat /\ a0 \in Int /\ d1 \in Int /\ dl \in Int
    BY <1>7
  <2> QED  BY <1>3, <1>4, <2>5, <2>6, <2>7, OperationBegun
<1> QED  BY <1>7, <1>8, <1>9

\* A withdrawal of liquidity begins.
LEMMA RemoveBegun ==
    ASSUME AmmInv, NEW g \in Gateways, NEW r \in Requests, RemoveLiquidity(g, r)
    PROVE  \E j : Begun(g, j)
<1>1. PICK p \in Pools : p = Ask[r].pool
  BY Asked DEF RemoveLiquidity, Take
<1>2. PICK s \in Nat, u \in Users : s = Ask[r].amount /\ u = Ask[r].user
  BY Asked DEF RemoveLiquidity, Take
<1>3. PICK row \in Rows : row = pool[p]
  BY DEF AmmInv, TypeInv
<1>4. /\ Take(g, r, "remove") /\ row.lp > 0 /\ s <= row.lp /\ s <= shares[<<u, p>>]
      /\ row.status = "active" /\ job[g] = Idle
  BY <1>1, <1>2, <1>3 DEF RemoveLiquidity, Take
<1>5. row.r0 \in Nat /\ row.r1 \in Nat /\ row.lp \in Nat \ {0} /\ shares[<<u, p>>] \in Nat
  BY <1>4 DEF Rows, AmmInv, TypeInv
<1>6. \A x \in Nat : Quot(s * x, row.lp) \in Nat /\ Quot(s * x, row.lp) <= x
  <2> SUFFICES ASSUME NEW x \in Nat
               PROVE  Quot(s * x, row.lp) \in Nat /\ Quot(s * x, row.lp) <= x
    OBVIOUS
  <2>1. PICK l \in Nat \ {0} : l = row.lp
    BY <1>5
  <2>2. s * x \in Nat /\ s * x <= l * x
    BY <1>4, <2>1
  <2>3. Quot(s * x, l) \in Nat /\ Quot(s * x, l) <= x
    BY <2>2, QuotAtMost
  <2> QED  BY <2>1, <2>3
<1>7. PICK x0 \in Nat : x0 = Quot(s * row.r0, row.lp) /\ x0 <= row.r0
  BY <1>5, <1>6
<1>8. PICK x1 \in Nat : x1 = Quot(s * row.r1, row.lp) /\ x1 <= row.r1
  BY <1>5, <1>6
<1>9. Begin(g, Operation("remove", u, p, -x0, -x1, -s), {})
  BY <1>1, <1>2, <1>3, <1>7, <1>8 DEF RemoveLiquidity, PartOf
<1>10. WorthKept(pool[p], [pool[p] EXCEPT !.r0 = @ + (-x0), !.r1 = @ + (-x1), !.lp = @ + (-s)])
  <2>1. PICK n : n = [row EXCEPT !.r0 = @ + (-x0), !.r1 = @ + (-x1), !.lp = @ + (-s)]
    OBVIOUS
  <2>2. n.r0 = row.r0 - x0 /\ n.r1 = row.r1 - x1 /\ n.lp = row.lp - s
    BY <1>5, <2>1 DEF Rows
  <2>3. CASE s < row.lp
    <3>1. row.r0 * row.r1 * (2 * (row.lp - s) - 1) * (2 * (row.lp - s) - 1)
             <= (2 * (row.r0 - x0) + 1) * (2 * (row.r1 - x1) + 1) * row.lp * row.lp
      BY <1>5, <1>7, <1>8, <2>3, RemoveKeeps
    <3> QED  BY <1>3, <2>1, <2>2, <3>1 DEF WorthKept
  <2>4. CASE ~(s < row.lp)
    BY <1>3, <1>5, <2>1, <2>2, <2>4 DEF WorthKept
  <2> QED  BY <2>3, <2>4
<1>11. /\ row.r0 + (-x0) \in Nat /\ row.r1 + (-x1) \in Nat /\ row.lp + (-s) \in Nat
       /\ shares[<<u, p>>] + (-s) \in Nat /\ -x0 \in Int /\ -x1 \in Int /\ -s \in Int
  BY <1>4, <1>5, <1>7, <1>8
<1> QED  BY <1>3, <1>4, <1>9, <1>10, <1>11, OperationBegun

\* What a pool gives for an amount is no more than it has.
LEMMA SwapBounds ==
    ASSUME NEW in \in Nat \ {0}, NEW out \in Nat, NEW amt \in Nat
    PROVE  /\ AmountOut(in, out, amt) \in Nat /\ AmountOut(in, out, amt) <= out
           /\ \A l \in Nat \ {0} :
                 in * out * (2 * l - 1) * (2 * l - 1)
                    <= (2 * (in + amt) + 1) * (2 * (out - AmountOut(in, out, amt)) + 1) * l * l
<1>1. PICK f \in Nat : f = FeeDen - FeeNum /\ f <= FeeDen /\ FeeDen \in Nat \ {0}
  BY AmmAssumption
<1>2. PICK n \in Nat : n = amt * f
  OBVIOUS
<1>3. PICK B \in Nat \ {0} : B = in * FeeDen + n
  <2>1. in * FeeDen \in Nat \ {0}
    BY <1>1
  <2> QED  BY <1>2, <2>1
<1>4. PICK o : o = AmountOut(in, out, amt)
  OBVIOUS
<1>5. o = Quot(out * n, B)
  BY <1>1, <1>2, <1>3, <1>4 DEF AmountOut
<1>6. out * n \in Nat /\ out * n <= B * out
  BY <1>1, <1>3
<1>7. o \in Nat /\ o <= out
  BY <1>5, <1>6, QuotAtMost
<1>8. o = Quot(out * (amt * f), in * FeeDen + amt * f)
  BY <1>2, <1>3, <1>5
<1>9. ASSUME NEW l \in Nat \ {0}
      PROVE  in * out * (2 * l - 1) * (2 * l - 1)
                <= (2 * (in + amt) + 1) * (2 * (out - o) + 1) * l * l
  BY <1>1, <1>8, SwapKeeps
<1> QED  BY <1>4, <1>7, <1>9

\* A swap begins.
LEMMA SwapBegun ==
    ASSUME AmmInv, NEW g \in Gateways, NEW r \in Requests, ExecuteSwap(g, r)
    PROVE  \E j : Begun(g, j)
<1>1. PICK p \in Pools : p = Ask[r].pool
  BY Asked DEF ExecuteSwap, Take
<1>2. PICK a \in Nat, u \in Users : a = Ask[r].amount /\ u = Ask[r].user
  BY Asked DEF ExecuteSwap, Take
<1>3. PICK row \in Rows : row = pool[p]
  BY DEF AmmInv, TypeInv
<1>4. /\ Take(g, r, "swap") /\ row.r0 > 0 /\ row.r1 > 0
      /\ row.status = "active" /\ job[g] = Idle
  BY <1>1, <1>3 DEF ExecuteSwap, Take
<1>5. row.r0 \in Nat \ {0} /\ row.r1 \in Nat \ {0} /\ row.lp \in Nat /\ shares[<<u, p>>] \in Nat
  BY <1>4 DEF Rows, AmmInv, TypeInv
<1> PICK none \in Int : none = 0
  OBVIOUS
<1>6. CASE Ask[r].other = 0
  <2>1. PICK o \in Nat : o = AmountOut(row.r0, row.r1, a) /\ o <= row.r1
    BY <1>5, SwapBounds
  <2>2. Begin(g, Operation("swap", u, p, a, -o, none), {})
    BY <1>1, <1>2, <1>3, <1>6, <2>1 DEF ExecuteSwap
  <2>3. WorthKept(pool[p], [pool[p] EXCEPT !.r0 = @ + a, !.r1 = @ + (-o), !.lp = @ + none])
    <3>1. PICK n : n = [row EXCEPT !.r0 = @ + a, !.r1 = @ + (-o), !.lp = @ + none]
      OBVIOUS
    <3>2. n.r0 = row.r0 + a /\ n.r1 = row.r1 - o /\ n.lp = row.lp
      BY <1>5, <3>1 DEF Rows
    <3>3. ASSUME row.lp > 0
          PROVE  row.r0 * row.r1 * (2 * row.lp - 1) * (2 * row.lp - 1)
                    <= (2 * (row.r0 + a) + 1) * (2 * (row.r1 - o) + 1) * row.lp * row.lp
      <4>1. PICK l \in Nat \ {0} : l = row.lp
        BY <1>5, <3>3
      <4> QED  BY <1>5, <2>1, <4>1, SwapBounds
    <3> QED  BY <1>3, <3>1, <3>2, <3>3 DEF WorthKept
  <2>4. /\ row.r0 + a \in Nat /\ row.r1 + (-o) \in Nat /\ row.lp + none \in Nat
        /\ shares[<<u, p>>] + none \in Nat /\ a \in Int /\ -o \in Int
    BY <1>5, <2>1
  <2> QED  BY <1>3, <1>4, <2>2, <2>3, <2>4, OperationBegun
<1>7. CASE Ask[r].other # 0
  <2>1. PICK o \in Nat : o = AmountOut(row.r1, row.r0, a) /\ o <= row.r0
    BY <1>5, SwapBounds
  <2>2. Begin(g, Operation("swap", u, p, -o, a, none), {})
    BY <1>1, <1>2, <1>3, <1>7, <2>1 DEF ExecuteSwap
  <2>3. WorthKept(pool[p], [pool[p] EXCEPT !.r0 = @ + (-o), !.r1 = @ + a, !.lp = @ + none])
    <3>1. PICK n : n = [row EXCEPT !.r0 = @ + (-o), !.r1 = @ + a, !.lp = @ + none]
      OBVIOUS
    <3>2. n.r0 = row.r0 - o /\ n.r1 = row.r1 + a /\ n.lp = row.lp
      BY <1>5, <3>1 DEF Rows
    <3>3. ASSUME row.lp > 0
          PROVE  row.r0 * row.r1 * (2 * row.lp - 1) * (2 * row.lp - 1)
                    <= (2 * (row.r0 - o) + 1) * (2 * (row.r1 + a) + 1) * row.lp * row.lp
      <4>1. row.r1 * row.r0 * (2 * row.lp - 1) * (2 * row.lp - 1)
               <= (2 * (row.r1 + a) + 1) * (2 * (row.r0 - o) + 1) * row.lp * row.lp
        <5>1. PICK l \in Nat \ {0} : l = row.lp
          BY <1>5, <3>3
        <5> QED  BY <1>5, <2>1, <5>1, SwapBounds
      <4>2. row.r1 * row.r0 = row.r0 * row.r1
        BY <1>5
      <4>3. PICK X \in Int, Y \in Int : X = 2 * (row.r1 + a) + 1 /\ Y = 2 * (row.r0 - o) + 1
        BY <1>5
      <4>4. X * Y = Y * X
        OBVIOUS
      <4> QED  BY <4>1, <4>2, <4>3, <4>4
    <3> QED  BY <1>3, <3>1, <3>2, <3>3 DEF WorthKept
  <2>4. /\ row.r0 + (-o) \in Nat /\ row.r1 + a \in Nat /\ row.lp + none \in Nat
        /\ shares[<<u, p>>] + none \in Nat /\ a \in Int /\ -o \in Int
    BY <1>5, <2>1
  <2> QED  BY <1>3, <1>4, <2>2, <2>3, <2>4, OperationBegun
<1> QED  BY <1>6, <1>7

-----------------------------------------------------------------------
(* The invariant holds at first, and every step keeps it.                     *)

\* Nobody is at work at first, and the pools are those of the seed.
LEMMA AmmInitInv == Init => AmmInv
<1> SUFFICES ASSUME Init PROVE AmmInv
  OBVIOUS
<1>1. TypeInv
  <2>1. waiting \subseteq Requests
    BY AmmAssumption DEF Init
  <2>2. pool \in [Pools -> Rows] /\ shares \in [Users \X Pools -> Nat] /\ swaps \in [Pools -> Nat]
    BY AmmAssumption DEF Init, Rows
  <2>3. balance \in [Accounts -> Int]
    BY AmmAssumption DEF Init
  <2>4. job \in [Gateways -> Works \cup {Idle}]
    BY DEF Init
  <2>5. trouble \in 0..MaxTrouble
    BY AmmAssumption DEF Init
  <2> QED  BY <2>1, <2>2, <2>3, <2>4, <2>5 DEF TypeInv
<1>2. \A g \in Gateways : job[g] = Idle
  BY DEF Init
<1>3. JobsRight
  BY <1>2 DEF JobsRight, JobRight
<1>4. NoRowIsEmpty
  BY AmmAssumption DEF Init, NoRowIsEmpty
<1>5. Alone
  BY <1>2 DEF Alone
<1>6. Current
  BY <1>2 DEF Current, ReadHolds, Idle
<1> QED  BY <1>1, <1>3, <1>4, <1>5, <1>6 DEF AmmInv

\* An operation goes on as k, or ends: what it has computed does not change.
Going(g, k) ==
    /\ job[g] # Idle /\ job' = [job EXCEPT ![g] = k]
    /\ \/ k = Idle
       \/ /\ k \in Works /\ Sound(k) /\ k.user = job[g].user /\ k.pool = job[g].pool
          /\ k.read = job[g].read /\ Updated(k) = Updated(job[g])

\* The row of an active pool stays, and what has gone wrong is not forgotten.
Lasting ==
    /\ lapses \subseteq lapses'
    /\ \A p \in Pools : pool[p].status = "active" => pool'[p].status = "active"

\* A step of an operation leaves what every operation has computed right.
LEMMA GoingRight ==
    ASSUME AmmInv, NEW g \in Gateways, NEW k, Going(g, k), Lasting
    PROVE  JobsRight'
<1> SUFFICES ASSUME NEW h \in Gateways, job'[h] # Idle
             PROVE  /\ Sound(job'[h]) /\ pool'[job'[h].pool].status = "active"
                    /\ "short" \notin lapses' => WorthKept(job'[h].read, Updated(job'[h]))
  BY DEF JobsRight, JobRight
<1>1. /\ JobRight(h) /\ JobRight(g) /\ job[h] \in Works \cup {Idle} /\ job[g] \in Works
  BY DEF AmmInv, JobsRight, TypeInv, Going
<1>2. CASE h = g
  <2>1. job'[h] = k
    BY <1>2 DEF Going, AmmInv, TypeInv
  <2>2. /\ Sound(k) /\ k.pool = job[g].pool /\ k.read = job[g].read /\ Updated(k) = Updated(job[g])
    BY <2>1 DEF Going
  <2>3. /\ pool[job[g].pool].status = "active" /\ job[g].pool \in Pools
        /\ "short" \notin lapses => WorthKept(job[g].read, Updated(job[g]))
    BY <1>1 DEF JobRight, Going, Works
  <2> QED  BY <2>1, <2>2, <2>3 DEF Lasting
<1>3. CASE h # g
  <2>1. job'[h] = job[h]
    BY <1>3 DEF Going, AmmInv, TypeInv
  <2>2. job[h].pool \in Pools
    BY <1>1, <2>1 DEF Works
  <2> QED  BY <1>1, <2>1, <2>2 DEF Lasting, JobRight
<1> QED  BY <1>2, <1>3

\* A step of an operation makes no two of them meet.
LEMMA GoingAlone ==
    ASSUME AmmInv, NEW g \in Gateways, NEW k, Going(g, k), Lasting
    PROVE  Alone'
<1> SUFFICES ASSUME "overlap" \notin lapses', NEW h \in Gateways, NEW i \in Gateways, h # i,
                    job'[h] # Idle, job'[i] # Idle
             PROVE  job'[h].pool # job'[i].pool
  BY DEF Alone
<1>1. job[h].pool # job[i].pool \/ job[h] = Idle \/ job[i] = Idle
  BY DEF AmmInv, Alone, Lasting
<1>2. \A x \in Gateways : job'[x] # Idle => job[x] # Idle /\ job'[x].pool = job[x].pool
  BY DEF Going, AmmInv, TypeInv
<1> QED  BY <1>1, <1>2

\* The pool and the positions of another operation are not those of this one.
LEMMA GoingCurrent ==
    ASSUME AmmInv, NEW g \in Gateways, NEW k, Going(g, k), Lasting,
           \A p \in Pools : p # job[g].pool =>
               pool'[p] = pool[p] /\ \A u \in Users : shares'[<<u, p>>] = shares[<<u, p>>],
           "overlap" \notin lapses /\ k.at \in {"settle", "pool"} =>
               k.read = pool'[k.pool] /\ k.held = shares'[<<k.user, k.pool>>],
           "overlap" \notin lapses /\ k.at = "save" /\ "unread" \notin lapses' => k.held = shares'[<<k.user, k.pool>>]
    PROVE  Current'
<1> SUFFICES ASSUME "overlap" \notin lapses', NEW h \in Gateways
             PROVE  ReadHolds(h)'
  BY DEF Current
<1>1. "overlap" \notin lapses
  BY DEF Lasting
<1>2. CASE h = g
  <2>1. job'[h] = k
    BY <1>2 DEF Going, AmmInv, TypeInv
  <2> QED  BY <1>1, <2>1 DEF ReadHolds
<1>3. CASE h # g
  <2>1. job'[h] = job[h]
    BY <1>3 DEF Going, AmmInv, TypeInv
  <2>2. CASE job[h] = Idle
    BY <2>1, <2>2 DEF ReadHolds, Idle
  <2>3. CASE job[h] # Idle
    <3>1. job[h].pool # job[g].pool /\ job[h].pool \in Pools /\ job[h].user \in Users
      BY <1>1, <1>3, <2>3 DEF Going, AmmInv, Alone, TypeInv, Works
    <3>2. ReadHolds(h)
      BY <1>1 DEF AmmInv, Current
    <3>3. /\ pool'[job[h].pool] = pool[job[h].pool]
          /\ shares'[<<job[h].user, job[h].pool>>] = shares[<<job[h].user, job[h].pool>>]
      BY <3>1
    <3> QED  BY <2>1, <3>2, <3>3 DEF ReadHolds, Lasting
  <2> QED  BY <2>2, <2>3
<1> QED  BY <1>2, <1>3

\* The beginning of an operation keeps the invariant.
LEMMA BegunInv ==
    ASSUME AmmInv, NEW g \in Gateways, NEW j, Begun(g, j)
    PROVE  AmmInv'
<1>1. /\ UNCHANGED <<pool, shares, swaps, balance, trouble>> /\ waiting' \subseteq waiting
      /\ j \in Works /\ job' = [job EXCEPT ![g] = j] /\ lapses \subseteq lapses' /\ job[g] = Idle
  BY DEF Begun
<1>2. TypeInv'
  BY <1>1 DEF AmmInv, TypeInv
<1>3. \A h \in Gateways : job'[h] = IF h = g THEN j ELSE job[h]
  BY <1>1 DEF AmmInv, TypeInv
<1>4. JobsRight'
  <2> SUFFICES ASSUME NEW h \in Gateways, job'[h] # Idle
               PROVE  /\ Sound(job'[h]) /\ pool'[job'[h].pool].status = "active"
                      /\ "short" \notin lapses' => WorthKept(job'[h].read, Updated(job'[h]))
    BY DEF JobsRight, JobRight
  <2>1. CASE h = g
    <3>1. Sound(j) /\ j.read = pool[j.pool] /\ pool' = pool
      BY DEF Begun
    <3>2. "short" \notin lapses' => WorthKept(j.read, Updated(j))
      BY DEF Begun
    <3> QED  BY <1>3, <2>1, <3>1, <3>2 DEF Sound
  <2>2. CASE h # g
    <3>1. job'[h] = job[h] /\ JobRight(h)
      BY <1>3, <2>2 DEF AmmInv, JobsRight
    <3> QED  BY <1>1, <3>1 DEF JobRight
  <2> QED  BY <2>1, <2>2
<1>5. NoRowIsEmpty'
  BY <1>1 DEF AmmInv, NoRowIsEmpty
<1>6. Alone'
  <2>1. "overlap" \notin lapses' => \A h \in Gateways : h # g /\ job[h] # Idle => job[h].pool # j.pool
    BY DEF Begun, Overlaps
  <2> QED  BY <1>1, <1>3, <2>1 DEF AmmInv, Alone
<1>7. Current'
  <2> SUFFICES ASSUME "overlap" \notin lapses', NEW h \in Gateways
               PROVE  ReadHolds(h)'
    BY DEF Current
  <2>1. CASE h = g
    <3>1. j.at = "settle" /\ j.read = pool[j.pool] /\ j.held = shares[<<j.user, j.pool>>]
      BY DEF Begun
    <3> QED  BY <1>1, <1>3, <2>1, <3>1 DEF ReadHolds
  <2>2. CASE h # g
    <3>1. job'[h] = job[h] /\ ReadHolds(h)
      BY <1>1, <1>3, <2>2 DEF AmmInv, Current
    <3> QED  BY <1>1, <3>1 DEF ReadHolds
  <2> QED  BY <2>1, <2>2
<1> QED  BY <1>2, <1>4, <1>5, <1>6, <1>7 DEF AmmInv

\* A failure of the store or of a gateway is within the bound, and is noted.
LEMMA TroubleTypes ==
    ASSUME AmmInv, NEW l, Trouble(l)
    PROVE  trouble' \in 0..MaxTrouble /\ lapses \subseteq lapses'
BY AmmAssumption DEF Trouble, AmmInv, TypeInv

\* The creation of a pool keeps the invariant.
LEMMA CreatePoolInv ==
    ASSUME AmmInv, NEW r \in Requests, CreatePool(r)
    PROVE  AmmInv'
<1>1. PICK p \in Pools : p = Ask[r].pool
  BY AmmAssumption
<1>2. UNCHANGED <<shares, swaps, balance, job>> /\ waiting' \subseteq waiting
  BY DEF CreatePool
<1>3. CASE pool' = [pool EXCEPT ![p] = Created] /\ pool[p].status = "none" /\ UNCHANGED histVars
  <2>1. Created \in Rows /\ Created.status = "active"
    BY DEF Created, Absent, Rows
  <2>2. TypeInv'
    BY <1>2, <1>3, <2>1 DEF AmmInv, TypeInv, histVars
  <2>3. \A q \in Pools : pool'[q] = IF q = p THEN Created ELSE pool[q]
    BY <1>3 DEF AmmInv, TypeInv
  <2>4. \A h \in Gateways : job[h] # Idle => job[h].pool \in Pools /\ pool[job[h].pool].status = "active"
    BY DEF AmmInv, TypeInv, Works, JobsRight, JobRight
  <2>5. JobsRight'
    <3> SUFFICES ASSUME NEW h \in Gateways, job[h] # Idle
                 PROVE  /\ Sound(job[h]) /\ pool'[job[h].pool].status = "active"
                        /\ "short" \notin lapses => WorthKept(job[h].read, Updated(job[h]))
      BY <1>2, <1>3 DEF JobsRight, JobRight, histVars
    <3>1. JobRight(h)
      BY DEF AmmInv, JobsRight
    <3> QED  BY <2>1, <2>3, <2>4, <3>1 DEF JobRight
  <2>6. NoRowIsEmpty'
    BY <2>1, <2>3 DEF AmmInv, NoRowIsEmpty
  <2>7. Alone'
    BY <1>2, <1>3 DEF AmmInv, Alone, histVars
  <2>8. Current'
    <3> SUFFICES ASSUME "overlap" \notin lapses, NEW h \in Gateways
                 PROVE  ReadHolds(h)'
      BY <1>3 DEF Current, histVars
    <3>1. ReadHolds(h)
      BY DEF AmmInv, Current
    <3>2. CASE job[h] = Idle
      BY <1>2, <3>2 DEF ReadHolds, Idle
    <3>3. CASE job[h] # Idle
      <4>1. pool'[job[h].pool] = pool[job[h].pool]
        BY <1>3, <2>3, <2>4, <3>3
      <4> QED  BY <1>2, <1>3, <3>1, <4>1 DEF ReadHolds, histVars
    <3> QED  BY <3>2, <3>3
  <2> QED  BY <2>2, <2>5, <2>6, <2>7, <2>8 DEF AmmInv
<1>4. CASE Trouble("uncreated") /\ UNCHANGED pool
  <2>1. trouble' \in 0..MaxTrouble /\ lapses \subseteq lapses'
    BY <1>4, TroubleTypes
  <2>2. TypeInv'
    BY <1>2, <1>4, <2>1 DEF AmmInv, TypeInv
  <2>3. JobsRight'
    BY <1>2, <1>4, <2>1 DEF AmmInv, JobsRight, JobRight
  <2>4. NoRowIsEmpty' /\ Alone'
    BY <1>2, <1>4, <2>1 DEF AmmInv, NoRowIsEmpty, Alone
  <2>5. Current'
    BY <1>2, <1>4, <2>1 DEF AmmInv, Current, ReadHolds
  <2> QED  BY <2>2, <2>3, <2>4, <2>5 DEF AmmInv
<1> QED  BY <1>1, <1>3, <1>4 DEF CreatePool

\* What a step of an operation and the rest of the state must do to keep the
\* invariant.
LEMMA GoingInv ==
    ASSUME AmmInv, NEW g \in Gateways, NEW k, Going(g, k), Lasting,
           pool' \in [Pools -> Rows], shares' \in [Users \X Pools -> Nat], swaps' \in [Pools -> Nat],
           balance' \in [Accounts -> Int], UNCHANGED waiting, trouble' \in 0..MaxTrouble,
           \A p \in Pools : p # job[g].pool =>
               pool'[p] = pool[p] /\ \A u \in Users : shares'[<<u, p>>] = shares[<<u, p>>],
           "overlap" \notin lapses /\ k.at \in {"settle", "pool"} =>
               k.read = pool'[k.pool] /\ k.held = shares'[<<k.user, k.pool>>],
           "overlap" \notin lapses /\ k.at = "save" /\ "unread" \notin lapses' => k.held = shares'[<<k.user, k.pool>>]
    PROVE  AmmInv'
<1>1. TypeInv'
  <2>1. job' \in [Gateways -> Works \cup {Idle}]
    BY DEF Going, AmmInv, TypeInv
  <2> QED  BY <2>1 DEF AmmInv, TypeInv
<1>2. JobsRight' /\ Alone'
  BY GoingRight, GoingAlone
<1>3. Current'
  BY GoingCurrent
<1>4. NoRowIsEmpty'
  <2> SUFFICES ASSUME NEW p \in Pools, pool'[p].status = "none" PROVE pool'[p] = Absent
    BY DEF NoRowIsEmpty
  <2>1. CASE p = job[g].pool
    <3>1. JobRight(g) /\ job[g] # Idle
      BY DEF AmmInv, JobsRight, Going
    <3>2. pool[p].status = "active"
      BY <2>1, <3>1 DEF JobRight
    <3> QED  BY <3>2 DEF Lasting
  <2>2. CASE p # job[g].pool
    BY <2>2 DEF AmmInv, NoRowIsEmpty
  <2> QED  BY <2>1, <2>2
<1> QED  BY <1>1, <1>2, <1>3, <1>4 DEF AmmInv

\* An operation that ends in its last step, or because of a failure, leaves
\* nothing of it behind.
LEMMA EndingIs ==
    ASSUME AmmInv, NEW g \in Gateways, job[g] # Idle, Goes(g, "idle")
    PROVE  Going(g, Idle)
BY DEF Going, Goes

\* An operation that goes on.
LEMMA GoesIs ==
    ASSUME AmmInv, NEW g \in Gateways, job[g] # Idle, NEW at \in {"pool", "position", "save", "record"},
           Goes(g, at),
           at = "position" => job[g].kind = "add",
           at = "save" => job[g].kind \in {"add", "remove"},
           at = "record" => job[g].kind = "swap"
    PROVE  \E k : /\ Going(g, k) /\ k.at = at /\ k.read = job[g].read /\ k.held = job[g].held
                  /\ k.user = job[g].user /\ k.pool = job[g].pool /\ k.dl = job[g].dl
                  /\ k.kind = job[g].kind /\ k.d0 = job[g].d0 /\ k.d1 = job[g].d1
<1>1. PICK j \in Works : j = job[g]
  BY DEF AmmInv, TypeInv
<1>2. PICK k : k = [j EXCEPT !.at = at]
  OBVIOUS
<1>3. /\ k \in Works /\ k.at = at /\ k.read = j.read /\ k.held = j.held
      /\ k.user = j.user /\ k.pool = j.pool /\ k.dl = j.dl
      /\ k.kind = j.kind /\ k.d0 = j.d0 /\ k.d1 = j.d1
  BY <1>2 DEF Works
<1>4. job' = [job EXCEPT ![g] = k]
  BY <1>1, <1>2 DEF Goes
<1>5. Updated(k) = Updated(j)
  BY <1>3 DEF Updated
<1>6. Sound(j)
  BY <1>1 DEF AmmInv, JobsRight, JobRight
<1>7. Sound(k)
  BY <1>1, <1>3, <1>5, <1>6 DEF Sound, NewPosition
<1>8. Going(g, k)
  BY <1>1, <1>3, <1>4, <1>5, <1>7 DEF Going
<1> QED  BY <1>1, <1>3, <1>8

\* The wallet transaction keeps the invariant.
LEMMA SettleInv ==
    ASSUME AmmInv, NEW g \in Gateways, Settle(g)
    PROVE  AmmInv'
<1>1. PICK j \in Works : j = job[g] /\ job[g] # Idle /\ j.at = "settle"
  BY DEF Settle, AmmInv, TypeInv, Idle
<1>2. UNCHANGED <<pool, shares, swaps, waiting>>
  BY DEF Settle
<1>3. Lasting
  <2>1. lapses \subseteq lapses'
    BY DEF Settle, Trouble
  <2> QED  BY <1>2, <2>1 DEF Lasting
<1>4. trouble' \in 0..MaxTrouble
  BY AmmAssumption DEF Settle, Trouble, AmmInv, TypeInv
<1>5. balance' \in [Accounts -> Int]
  <2>1. Moved(j) => balance' \in [Accounts -> Int]
    BY DEF Moved, Works, AmmInv, TypeInv
  <2> QED  BY <1>1, <2>1 DEF Settle, AmmInv, TypeInv
<1>6. CASE Goes(g, "pool")
  <2>1. PICK k : /\ Going(g, k) /\ k.at = "pool" /\ k.read = j.read /\ k.held = j.held
                 /\ k.user = j.user /\ k.pool = j.pool
    BY <1>1, <1>6, GoesIs
  <2>2. "overlap" \notin lapses => j.read = pool[j.pool] /\ j.held = shares[<<j.user, j.pool>>]
    BY <1>1 DEF AmmInv, Current, ReadHolds
  <2> QED  BY <1>1, <1>2, <1>3, <1>4, <1>5, <2>1, <2>2, GoingInv DEF AmmInv, TypeInv
<1>7. CASE Goes(g, "idle")
  <2>1. Going(g, Idle)
    BY <1>1, <1>7, EndingIs
  <2> QED  BY <1>1, <1>2, <1>3, <1>4, <1>5, <2>1, GoingInv DEF AmmInv, TypeInv, Idle
<1> QED  BY <1>6, <1>7 DEF Settle

\* Writing the reserves keeps the invariant.
LEMMA UpdateInv ==
    ASSUME AmmInv, NEW g \in Gateways, UpdatePoolReserves(g)
    PROVE  AmmInv'
<1>1. PICK j \in Works : j = job[g] /\ job[g] # Idle /\ j.at = "pool"
  BY DEF UpdatePoolReserves, AmmInv, TypeInv, Idle
<1>2. UNCHANGED <<shares, swaps, balance, waiting>>
  BY DEF UpdatePoolReserves
<1>3. j.pool \in Pools /\ j.kind \in {"add", "remove", "swap"} /\ Sound(j)
  BY <1>1 DEF Works, AmmInv, JobsRight, JobRight
<1>4. Updated(j) \in Rows /\ Updated(j).status = "active"
  BY <1>1, <1>3 DEF Sound, Updated, Works, Rows
<1>5. lapses \subseteq lapses'
  BY DEF UpdatePoolReserves, Trouble, histVars
<1>6. trouble' \in 0..MaxTrouble
  BY AmmAssumption DEF UpdatePoolReserves, Trouble, AmmInv, TypeInv, histVars
<1>7. CASE pool' = [pool EXCEPT ![j.pool] = Updated(j)] /\ Goes(g, AfterPool[j.kind])
  <2>1. \A p \in Pools : pool'[p] = IF p = j.pool THEN Updated(j) ELSE pool[p]
    BY <1>7 DEF AmmInv, TypeInv
  <2>2. pool' \in [Pools -> Rows]
    BY <1>4, <1>7 DEF AmmInv, TypeInv
  <2>3. Lasting
    BY <1>4, <1>5, <2>1 DEF Lasting
  <2>4. PICK at \in {"position", "save", "record"} :
            /\ at = AfterPool[j.kind]
            /\ at = "position" => j.kind = "add"
            /\ at = "save" => j.kind \in {"add", "remove"}
            /\ at = "record" => j.kind = "swap"
    BY <1>3 DEF AfterPool
  <2>5. PICK k : /\ Going(g, k) /\ k.at = at /\ k.read = j.read /\ k.held = j.held
                 /\ k.user = j.user /\ k.pool = j.pool
    BY <1>1, <1>7, <2>4, GoesIs
  <2>6. "overlap" \notin lapses => j.held = shares[<<j.user, j.pool>>]
    BY <1>1 DEF AmmInv, Current, ReadHolds
  <2> QED  BY <1>1, <1>2, <1>6, <2>1, <2>2, <2>3, <2>4, <2>5, <2>6, GoingInv DEF AmmInv, TypeInv
<1>8. CASE UNCHANGED pool /\ Goes(g, "idle")
  <2>1. Going(g, Idle)
    BY <1>1, <1>8, EndingIs
  <2>2. Lasting
    BY <1>5, <1>8 DEF Lasting
  <2> QED  BY <1>1, <1>2, <1>6, <1>8, <2>1, <2>2, GoingInv DEF AmmInv, TypeInv, Idle
<1> QED  BY <1>1, <1>7, <1>8 DEF UpdatePoolReserves

\* Reading the position keeps the invariant.
LEMMA GetPositionInv ==
    ASSUME AmmInv, NEW g \in Gateways, GetPositionByPool(g)
    PROVE  AmmInv'
<1>1. PICK j \in Works : j = job[g] /\ job[g] # Idle /\ j.at = "position"
  BY DEF GetPositionByPool, AmmInv, TypeInv, Idle
<1>2. UNCHANGED <<pool, shares, swaps, balance, waiting>>
  BY DEF GetPositionByPool
<1>3. Sound(j) /\ j.kind = "add" /\ j.dl \in Nat
  BY <1>1 DEF AmmInv, JobsRight, JobRight, Sound
<1>4. Lasting
  BY <1>2 DEF Lasting, GetPositionByPool, Trouble, histVars
<1>5. trouble' \in 0..MaxTrouble
  BY AmmAssumption DEF GetPositionByPool, Trouble, AmmInv, TypeInv, histVars
<1>6. PICK n \in Nat : /\ job' = [job EXCEPT ![g] = [j EXCEPT !.at = "save", !.held = n]]
                       /\ n = shares[<<j.user, j.pool>>] \/ "unread" \in lapses'
  <2>1. shares[<<j.user, j.pool>>] \in Nat
    BY DEF Works, AmmInv, TypeInv
  <2>2. CASE job' = [job EXCEPT ![g] = [j EXCEPT !.at = "save", !.held = shares[<<j.user, j.pool>>]]]
    BY <2>1, <2>2
  <2>3. CASE Trouble("unread") /\ job' = [job EXCEPT ![g] = [j EXCEPT !.at = "save", !.held = 0]]
    BY <2>3 DEF Trouble
  <2> QED  BY <1>1, <2>2, <2>3 DEF GetPositionByPool
<1>7. PICK k : k = [j EXCEPT !.at = "save", !.held = n]
  OBVIOUS
<1>8. /\ k \in Works /\ k.at = "save" /\ k.read = j.read /\ k.held = n
      /\ k.user = j.user /\ k.pool = j.pool /\ k.dl = j.dl
      /\ k.kind = j.kind /\ k.d0 = j.d0 /\ k.d1 = j.d1
  BY <1>7 DEF Works
<1>9. Updated(k) = Updated(j)
  BY <1>8 DEF Updated
<1>10. Sound(k)
  BY <1>3, <1>8, <1>9 DEF Sound, NewPosition
<1>11. Going(g, k)
  BY <1>1, <1>6, <1>7, <1>8, <1>9, <1>10 DEF Going
<1> QED  BY <1>2, <1>4, <1>5, <1>6, <1>8, <1>11, GoingInv DEF AmmInv, TypeInv

\* Writing the position keeps the invariant.
LEMMA SavePositionInv ==
    ASSUME AmmInv, NEW g \in Gateways, SavePosition(g)
    PROVE  AmmInv'
<1>1. PICK j \in Works : j = job[g] /\ job[g] # Idle /\ j.at = "save"
  BY DEF SavePosition, AmmInv, TypeInv, Idle
<1>2. UNCHANGED <<pool, swaps, balance, waiting>>
  BY DEF SavePosition
<1>3. Lasting
  BY <1>2 DEF Lasting, SavePosition, Trouble, histVars
<1>4. trouble' \in 0..MaxTrouble
  BY AmmAssumption DEF SavePosition, Trouble, AmmInv, TypeInv, histVars
<1>5. PICK n \in Nat : n = NewPosition(j)
  BY <1>1 DEF AmmInv, JobsRight, JobRight, Sound
<1>6. j.user \in Users /\ j.pool \in Pools
  BY DEF Works
<1>7. /\ shares' \in [Users \X Pools -> Nat]
      /\ \A u \in Users, p \in Pools : p # j.pool => shares'[<<u, p>>] = shares[<<u, p>>]
  BY <1>1, <1>5, <1>6 DEF SavePosition, AmmInv, TypeInv
<1>8. Going(g, Idle)
  BY <1>1, EndingIs DEF SavePosition
<1> QED  BY <1>1, <1>2, <1>3, <1>4, <1>7, <1>8, GoingInv DEF AmmInv, TypeInv, Idle

\* Recording a swap keeps the invariant.
LEMMA SaveSwapInv ==
    ASSUME AmmInv, NEW g \in Gateways, SaveSwap(g)
    PROVE  AmmInv'
<1>1. PICK j \in Works : j = job[g] /\ job[g] # Idle /\ j.at = "record"
  BY DEF SaveSwap, AmmInv, TypeInv, Idle
<1>2. UNCHANGED <<pool, shares, balance, waiting>>
  BY DEF SaveSwap
<1>3. Lasting
  BY <1>2 DEF Lasting, SaveSwap, Trouble, histVars
<1>4. trouble' \in 0..MaxTrouble
  BY AmmAssumption DEF SaveSwap, Trouble, AmmInv, TypeInv, histVars
<1>5. swaps' \in [Pools -> Nat]
  BY DEF SaveSwap, Works, AmmInv, TypeInv
<1>6. Going(g, Idle)
  BY <1>1, EndingIs DEF SaveSwap
<1> QED  BY <1>1, <1>2, <1>3, <1>4, <1>5, <1>6, GoingInv DEF AmmInv, TypeInv, Idle

\* The loss of a gateway keeps the invariant.
LEMMA CrashInv ==
    ASSUME AmmInv, NEW g \in Gateways, Crash(g)
    PROVE  AmmInv'
<1>1. job[g] # Idle /\ UNCHANGED <<pool, shares, swaps, balance, waiting>>
  BY DEF Crash
<1>2. Lasting
  BY <1>1 DEF Lasting, Crash, Trouble
<1>3. trouble' \in 0..MaxTrouble
  BY AmmAssumption DEF Crash, Trouble, AmmInv, TypeInv
<1>4. Going(g, Idle)
  BY <1>1, EndingIs DEF Crash
<1> QED  BY <1>1, <1>2, <1>3, <1>4, GoingInv DEF AmmInv, TypeInv, Idle

\* No step breaks the invariant.
LEMMA AmmStepInv == AmmInv /\ [Next]_vars => AmmInv'
<1> SUFFICES ASSUME AmmInv, [Next]_vars PROVE AmmInv'
  OBVIOUS
<1>1. ASSUME NEW r \in Requests, CreatePool(r) PROVE AmmInv'
  BY <1>1, CreatePoolInv
<1>2. ASSUME NEW g \in Gateways, NEW r \in Requests,
             AddLiquidity(g, r) \/ RemoveLiquidity(g, r) \/ ExecuteSwap(g, r)
      PROVE  AmmInv'
  <2>1. \E j : Begun(g, j)
    BY <1>2, AddBegun, RemoveBegun, SwapBegun
  <2> QED  BY <2>1, BegunInv
<1>3. ASSUME NEW g \in Gateways,
             Settle(g) \/ UpdatePoolReserves(g) \/ GetPositionByPool(g) \/ SavePosition(g)
                \/ SaveSwap(g) \/ Crash(g)
      PROVE  AmmInv'
  BY <1>3, SettleInv, UpdateInv, GetPositionInv, SavePositionInv, SaveSwapInv, CrashInv
<1>4. CASE UNCHANGED vars
  BY <1>4 DEF vars, histVars, AmmInv, TypeInv, JobsRight, JobRight, NoRowIsEmpty, Alone, Current, ReadHolds
<1> QED  BY <1>1, <1>2, <1>3, <1>4 DEF Next

\* The invariant holds in every state.
THEOREM AmmInvariant == Spec => []AmmInv
<1>1. Init => AmmInv
  BY AmmInitInv
<1>2. AmmInv /\ [Next]_vars => AmmInv'
  BY AmmStepInv
<1> QED  BY <1>1, <1>2, PTL DEF Spec

\* Reserves, shares and positions never become negative (TypeOK), however the
\* operations of the gateways meet: what an operation takes was computed from
\* what it read, and it writes what it read less what it takes.
THEOREM TypeCorrect == Spec => []TypeOK
<1>1. AmmInv => TypeOK
  <2> SUFFICES ASSUME AmmInv PROVE TypeOK
    OBVIOUS
  <2>1. \A g \in Gateways : job[g].at \in {"idle", "settle", "pool", "position", "save", "record"}
    BY DEF AmmInv, TypeInv, Works, Idle
  <2> QED  BY <2>1 DEF AmmInv, TypeInv, TypeOK, Rows
<1> QED  BY <1>1, AmmInvariant, PTL

-------------------------------------------------------------------------------
(* What a share is worth.                                                    *)

\* A row that stays, or that has no shares, keeps the worth of a share.
LEMMA WorthStays ==
    ASSUME NEW row \in Rows
    PROVE  WorthKept(row, row)
<1>1. PICK a \in Nat, b \in Nat, l \in Nat : a = row.r0 /\ b = row.r1 /\ l = row.lp
  BY DEF Rows
<1>2. ASSUME l > 0
      PROVE  a * b * (2 * l - 1) * (2 * l - 1) <= (2 * a + 1) * (2 * b + 1) * l * l
  <2>1. PICK u \in Nat : u = 2 * l - 1
    <3>1. 2 * l - 1 \in Nat
      BY <1>2
    <3> QED  BY <3>1
  <2>2. PICK Q \in Nat, W \in Nat, M \in Nat : Q = l * l /\ W = u * u /\ M = a * b
    OBVIOUS
  <2>3. W <= 4 * Q
    BY <2>1, <2>2
  <2>4. PICK X \in Nat : X = (2 * a + 1) * (2 * b + 1)
    OBVIOUS
  <2>5. 4 * M <= X
    BY <2>2, <2>4
  <2>6. M * W <= M * (4 * Q) /\ (4 * M) * Q <= X * Q
    BY <2>3, <2>5, MulLe
  <2>7. M * W <= X * Q
    BY <2>6
  <2>8. M * W = a * b * u * u /\ X * Q = (2 * a + 1) * (2 * b + 1) * l * l
    BY <2>2, <2>4
  <2> QED  BY <2>1, <2>7, <2>8
<1> QED  BY <1>1, <1>2 DEF WorthKept

\* Every step keeps the worth of a share of every pool: a row changes only when
\* it is created, without shares, and when an operation writes it.
LEMMA WorthStep ==
    ASSUME AmmInv, [Next]_vars, lapses \cap {"short", "overlap"} = {}, NEW p \in Pools
    PROVE  WorthKept(pool[p], pool'[p])
<1>1. CASE UNCHANGED pool
  BY <1>1, WorthStays DEF AmmInv, TypeInv
<1>2. ASSUME NEW r \in Requests, CreatePool(r), pool' # pool
      PROVE  WorthKept(pool[p], pool'[p])
  <2>1. PICK q \in Pools : pool' = [pool EXCEPT ![q] = Created]
    BY <1>2, AmmAssumption DEF CreatePool
  <2>2. CASE q = p
    BY <2>1, <2>2 DEF WorthKept, Created, Absent, AmmInv, TypeInv
  <2>3. CASE q # p
    <3>1. pool'[p] = pool[p] /\ pool[p] \in Rows
      BY <2>1, <2>3 DEF AmmInv, TypeInv
    <3> QED  BY <3>1, WorthStays
  <2> QED  BY <2>2, <2>3
<1>3. ASSUME NEW g \in Gateways, UpdatePoolReserves(g), pool' # pool
      PROVE  WorthKept(pool[p], pool'[p])
  <2>1. PICK j \in Works : j = job[g] /\ job[g] # Idle /\ j.at = "pool"
    BY <1>3 DEF UpdatePoolReserves, AmmInv, TypeInv, Idle
  <2>2. pool' = [pool EXCEPT ![j.pool] = Updated(j)]
    BY <1>3, <2>1 DEF UpdatePoolReserves
  <2>3. CASE j.pool = p
    <3>1. pool'[p] = Updated(j)
      BY <2>2, <2>3 DEF AmmInv, TypeInv
    <3>2. j.read = pool[p]
      BY <2>1, <2>3 DEF AmmInv, Current, ReadHolds
    <3>3. WorthKept(j.read, Updated(j))
      BY <2>1 DEF AmmInv, JobsRight, JobRight
    <3> QED  BY <3>1, <3>2, <3>3
  <2>4. CASE j.pool # p
    <3>1. pool'[p] = pool[p] /\ pool[p] \in Rows
      BY <2>2, <2>4 DEF AmmInv, TypeInv
    <3> QED  BY <3>1, WorthStays
  <2> QED  BY <2>3, <2>4
<1>4. ASSUME NEW g \in Gateways,
             \/ \E r \in Requests : AddLiquidity(g, r) \/ RemoveLiquidity(g, r) \/ ExecuteSwap(g, r)
             \/ Settle(g) \/ GetPositionByPool(g) \/ SavePosition(g) \/ SaveSwap(g) \/ Crash(g)
      PROVE  UNCHANGED pool
  BY <1>4 DEF AddLiquidity, RemoveLiquidity, ExecuteSwap, Take, Settle, GetPositionByPool, SavePosition,
              SaveSwap, Crash
<1>5. CASE UNCHANGED vars
  BY <1>1, <1>5 DEF vars
<1> QED  BY <1>1, <1>2, <1>3, <1>4, <1>5 DEF Next

\* No operation takes from those who stay (SharesKeepWorth): swaps, deposits and
\* withdrawals round to the nearest unit, and the product of the reserves for a
\* share falls by no more than that.
THEOREM SharesAlwaysKeepWorth == Spec => SharesKeepWorth
<1>1. ASSUME AmmInv, [Next]_vars
      PROVE  lapses \cap {"short", "overlap"} = {} =>
                 \A p \in Pools :
                     LET old == pool[p]  new == pool'[p] IN
                     old.lp > 0 /\ new.lp > 0 =>
                         old.r0 * old.r1 * (2 * new.lp - 1) * (2 * new.lp - 1)
                             <= (2 * new.r0 + 1) * (2 * new.r1 + 1) * old.lp * old.lp
  <2>1. ASSUME lapses \cap {"short", "overlap"} = {}, NEW p \in Pools
        PROVE  WorthKept(pool[p], pool'[p])
    BY <1>1, <2>1, WorthStep
  <2> QED  BY <2>1 DEF WorthKept
<1>2. Spec => [][lapses \cap {"short", "overlap"} = {} =>
                 \A p \in Pools :
                     LET old == pool[p]  new == pool'[p] IN
                     old.lp > 0 /\ new.lp > 0 =>
                         old.r0 * old.r1 * (2 * new.lp - 1) * (2 * new.lp - 1)
                             <= (2 * new.r0 + 1) * (2 * new.r1 + 1) * old.lp * old.lp]_vars
  BY <1>1, AmmInvariant, PTL DEF Spec
<1> QED  BY <1>2 DEF SharesKeepWorth

-------------------------------------------------------------------------------
(* The books of wallets, pools and operations.                               *)

\* What an operation has taken from the wallets and not yet put into a pool, of
\* token t, and the shares it has put into pool p and not yet into a position.
Flying(j, t) == IF j.at = "pool" THEN Part(j.pool, j.d0, j.d1, t) ELSE 0
Unwritten(j, p) == IF j.at \in {"position", "save"} /\ j.pool = p THEN j.dl ELSE 0

\* The sums of both, for the operations J of the gateways.
FlightOf(J, t) == SumFunctionOnSet([h \in Gateways |-> Flying(J[h], t)], Gateways)
WritingOf(J, p) == SumFunctionOnSet([h \in Gateways |-> Unwritten(J[h], p)], Gateways)

\* These are integers.
LEMMA HeldTypes ==
    ASSUME NEW j \in Works \cup {Idle}, NEW t, NEW p
    PROVE  Flying(j, t) \in Int /\ Unwritten(j, p) \in Int
BY DEF Flying, Unwritten, Part, Works, Idle

\* Functions with integer values, and functions that differ at y alone.
IntsOn(S, f) == \A x \in S : f[x] \in Int
SameBut(S, f, g, y) == \A x \in S : x # y => g[x] = f[x]

\* A change of one value changes the sum by as much.
LEMMA SumChanges ==
    ASSUME NEW S, IsFiniteSet(S), NEW f, NEW g, NEW y \in S, IntsOn(S, f), IntsOn(S, g), SameBut(S, f, g, y)
    PROVE  /\ SumFunctionOnSet(f, S) \in Int
           /\ SumFunctionOnSet(g, S) = SumFunctionOnSet(f, S) - f[y] + g[y]
<1>1. PICK T : T = S \ {y}
  OBVIOUS
<1>2. IsFiniteSet(T) /\ \A x \in T : f[x] = g[x] /\ f[x] \in Int
  BY <1>1, FS_RemoveElement DEF IntsOn, SameBut
<1>3. \A x \in S : f[x] \in Int
  BY DEF IntsOn
<1>4. \A x \in S : g[x] \in Int
  BY DEF IntsOn
<1>5. SumFunctionOnSet(f, S) = f[y] + SumFunctionOnSet(f, T)
  BY <1>1, <1>3, SumRemove
<1>6. SumFunctionOnSet(g, S) = g[y] + SumFunctionOnSet(g, T)
  BY <1>1, <1>4, SumRemove
<1>7. SumFunctionOnSet(f, T) = SumFunctionOnSet(g, T)
  BY <1>2, SumSame
<1>8. SumFunctionOnSet(f, T) \in Int /\ f[y] \in Int /\ g[y] \in Int
  BY <1>2, <1>3, <1>4, SumType
<1> QED  BY <1>5, <1>6, <1>7, <1>8

\* When one gateway goes on, what is in flight changes by what it has, and so
\* does what is to be written.
LEMMA FlightChanges ==
    ASSUME NEW J \in [Gateways -> Works \cup {Idle}], NEW K \in [Gateways -> Works \cup {Idle}],
           NEW g \in Gateways, NEW t, SameBut(Gateways, J, K, g)
    PROVE  FlightOf(J, t) \in Int /\ FlightOf(K, t) = FlightOf(J, t) - Flying(J[g], t) + Flying(K[g], t)
<1> PICK f : f = [h \in Gateways |-> Flying(J[h], t)]
  OBVIOUS
<1> PICK e : e = [h \in Gateways |-> Flying(K[h], t)]
  OBVIOUS
<1>1. IntsOn(Gateways, f) /\ IntsOn(Gateways, e)
  BY HeldTypes DEF IntsOn
<1>2. SameBut(Gateways, f, e, g) /\ IsFiniteSet(Gateways)
  BY AmmAssumption DEF SameBut
<1>3. f[g] = Flying(J[g], t) /\ e[g] = Flying(K[g], t)
  OBVIOUS
<1>4. /\ SumFunctionOnSet(f, Gateways) \in Int
      /\ SumFunctionOnSet(e, Gateways) = SumFunctionOnSet(f, Gateways) - f[g] + e[g]
  BY <1>1, <1>2, SumChanges
<1> QED  BY <1>3, <1>4 DEF FlightOf

\* The same, of what is to be written.
LEMMA WritingChanges ==
    ASSUME NEW J \in [Gateways -> Works \cup {Idle}], NEW K \in [Gateways -> Works \cup {Idle}],
           NEW g \in Gateways, NEW p, SameBut(Gateways, J, K, g)
    PROVE  WritingOf(J, p) \in Int /\ WritingOf(K, p) = WritingOf(J, p) - Unwritten(J[g], p) + Unwritten(K[g], p)
<1> PICK f : f = [h \in Gateways |-> Unwritten(J[h], p)]
  OBVIOUS
<1> PICK e : e = [h \in Gateways |-> Unwritten(K[h], p)]
  OBVIOUS
<1>1. IntsOn(Gateways, f) /\ IntsOn(Gateways, e)
  BY HeldTypes DEF IntsOn
<1>2. SameBut(Gateways, f, e, g) /\ IsFiniteSet(Gateways)
  BY AmmAssumption DEF SameBut
<1>3. f[g] = Unwritten(J[g], p) /\ e[g] = Unwritten(K[g], p)
  OBVIOUS
<1>4. /\ SumFunctionOnSet(f, Gateways) \in Int
      /\ SumFunctionOnSet(e, Gateways) = SumFunctionOnSet(f, Gateways) - f[g] + e[g]
  BY <1>1, <1>2, SumChanges
<1> QED  BY <1>3, <1>4 DEF WritingOf

\* When one row changes, the reserves change by its parts.
LEMMA ReservesChange ==
    ASSUME NEW P \in [Pools -> Rows], NEW R \in [Pools -> Rows], NEW p \in Pools, NEW t, SameBut(Pools, P, R, p)
    PROVE  /\ Reserves(P, t) \in Int
           /\ Reserves(R, t) = Reserves(P, t) - Part(p, P[p].r0, P[p].r1, t) + Part(p, R[p].r0, R[p].r1, t)
<1> PICK f : f = [q \in Pools |-> Part(q, P[q].r0, P[q].r1, t)]
  OBVIOUS
<1> PICK e : e = [q \in Pools |-> Part(q, R[q].r0, R[q].r1, t)]
  OBVIOUS
<1>1. IntsOn(Pools, f) /\ IntsOn(Pools, e)
  BY DEF Part, Rows, IntsOn
<1>2. SameBut(Pools, f, e, p) /\ IsFiniteSet(Pools)
  BY AmmAssumption DEF SameBut
<1>3. f[p] = Part(p, P[p].r0, P[p].r1, t) /\ e[p] = Part(p, R[p].r0, R[p].r1, t)
  OBVIOUS
<1>4. Reserves(P, t) = SumFunctionOnSet(f, Pools) /\ Reserves(R, t) = SumFunctionOnSet(e, Pools)
  BY DEF Reserves
<1>5. /\ SumFunctionOnSet(f, Pools) \in Int
      /\ SumFunctionOnSet(e, Pools) = SumFunctionOnSet(f, Pools) - f[p] + e[p]
  BY <1>1, <1>2, SumChanges
<1> QED  BY <1>3, <1>4, <1>5

\* What the users hold of k is an integer, and only user u has another row for k
\* in G than in F.
IntColumn(F, k) == \A v \in Users : F[<<v, k>>] \in Int
OnlyOf(u, k, F, G) == \A v \in Users : v # u => G[<<v, k>>] = F[<<v, k>>]

\* When the row of one user changes, the sum of all users changes by it.
LEMMA OfAllChanges ==
    ASSUME NEW F, NEW G, NEW u \in Users, NEW k, IntColumn(F, k), IntColumn(G, k), OnlyOf(u, k, F, G)
    PROVE  OfAll(F, k) \in Int /\ OfAll(G, k) = OfAll(F, k) - F[<<u, k>>] + G[<<u, k>>]
<1> PICK f : f = [v \in Users |-> F[<<v, k>>]]
  OBVIOUS
<1> PICK e : e = [v \in Users |-> G[<<v, k>>]]
  OBVIOUS
<1>1. IntsOn(Users, f) /\ IntsOn(Users, e)
  BY DEF IntColumn, IntsOn
<1>2. SameBut(Users, f, e, u) /\ IsFiniteSet(Users)
  BY AmmAssumption DEF OnlyOf, SameBut
<1>3. f[u] = F[<<u, k>>] /\ e[u] = G[<<u, k>>]
  OBVIOUS
<1>4. OfAll(F, k) = SumFunctionOnSet(f, Users) /\ OfAll(G, k) = SumFunctionOnSet(e, Users)
  BY DEF OfAll
<1>5. /\ SumFunctionOnSet(f, Users) \in Int
      /\ SumFunctionOnSet(e, Users) = SumFunctionOnSet(f, Users) - f[u] + e[u]
  BY <1>1, <1>2, SumChanges
<1> QED  BY <1>3, <1>4, <1>5

\* In terms of what each operation has.
LEMMA FlightIs ==
    ASSUME NEW t, NEW p
    PROVE  /\ InFlight(t) = FlightOf(job, t) /\ InFlight(t)' = FlightOf(job', t)
           /\ ToBeWritten(p) = WritingOf(job, p) /\ ToBeWritten(p)' = WritingOf(job', p)
BY DEF InFlight, ToBeWritten, Flying, Unwritten, FlightOf, WritingOf

\* When one gateway goes on, what is in flight and to be written changes by what
\* it has.
LEMMA JobChanges ==
    ASSUME TypeInv, TypeInv', NEW g \in Gateways, NEW k, job' = [job EXCEPT ![g] = k], NEW t, NEW p
    PROVE  /\ InFlight(t) \in Int /\ InFlight(t)' = InFlight(t) - Flying(job[g], t) + Flying(k, t)
           /\ ToBeWritten(p) \in Int
           /\ ToBeWritten(p)' = ToBeWritten(p) - Unwritten(job[g], p) + Unwritten(k, p)
<1>1. PICK J \in [Gateways -> Works \cup {Idle}], K \in [Gateways -> Works \cup {Idle}] : J = job /\ K = job'
  BY DEF TypeInv
<1>2. K[g] = k /\ J[g] = job[g] /\ SameBut(Gateways, J, K, g)
  BY <1>1 DEF SameBut
<1>3. FlightOf(J, t) \in Int /\ FlightOf(K, t) = FlightOf(J, t) - Flying(J[g], t) + Flying(K[g], t)
  BY <1>2, FlightChanges
<1>4. WritingOf(J, p) \in Int /\ WritingOf(K, p) = WritingOf(J, p) - Unwritten(J[g], p) + Unwritten(K[g], p)
  BY <1>2, WritingChanges
<1> QED  BY <1>1, <1>2, <1>3, <1>4, FlightIs

\* The wallets hold an integer of each token, and the positions of each pool.
LEMMA OfAllType ==
    ASSUME NEW F, NEW k, IntColumn(F, k)
    PROVE  OfAll(F, k) \in Int
<1> PICK f : f = [v \in Users |-> F[<<v, k>>]]
  OBVIOUS
<1>1. IsFiniteSet(Users) /\ \A v \in Users : f[v] \in Int
  BY AmmAssumption DEF IntColumn
<1>2. SumFunctionOnSet(f, Users) \in Int
  BY <1>1, SumType
<1> QED  BY <1>2 DEF OfAll

\* These are integers of the state.
LEMMA Columns ==
    ASSUME TypeInv, NEW t \in Tokens, NEW p \in Pools
    PROVE  IntColumn(balance, t) /\ IntColumn(shares, p)
BY DEF TypeInv, Accounts, IntColumn

\* So do the pools.
LEMMA ReservesType ==
    ASSUME NEW P \in [Pools -> Rows], NEW t
    PROVE  Reserves(P, t) \in Int
<1> PICK f : f = [q \in Pools |-> Part(q, P[q].r0, P[q].r1, t)]
  OBVIOUS
<1>1. IsFiniteSet(Pools) /\ \A q \in Pools : f[q] \in Int
  BY AmmAssumption DEF Part, Rows
<1>2. SumFunctionOnSet(f, Pools) \in Int
  BY <1>1, SumType
<1> QED  BY <1>2 DEF Reserves

\* The wallet transaction takes the two parts of the operation from the wallets
\* of its user, when they have a row.
LEMMA WalletsPay ==
    ASSUME AmmInv, NEW j \in Works, Moved(j), {Purse0(j), Purse1(j)} \subseteq Funded, NEW t \in Tokens
    PROVE  OfAll(balance', t) = OfAll(balance, t) - Part(j.pool, j.d0, j.d1, t)
<1>1. PICK F \in [Users \X Tokens -> Int] : F = balance
  BY DEF AmmInv, TypeInv, Accounts
<1>2. PICK u \in Users, p \in Pools, d0 \in Int, d1 \in Int :
          u = j.user /\ p = j.pool /\ d0 = j.d0 /\ d1 = j.d1
  BY DEF Works
<1>3. Token0[p] # Token1[p] /\ Token0[p] \in Tokens /\ Token1[p] \in Tokens
  BY AmmAssumption
<1>4. Purse0(j) = <<u, Token0[p]>> /\ Purse1(j) = <<u, Token1[p]>>
  BY <1>2 DEF Purse0, Purse1
<1>5. \A x \in Users \X Tokens :
          balance'[x] = F[x] + (IF x \notin Funded THEN 0
                                ELSE IF x = <<u, Token0[p]>> THEN -d0
                                ELSE IF x = <<u, Token1[p]>> THEN -d1 ELSE 0)
  BY <1>1, <1>2, <1>4 DEF Moved, Accounts
<1>6. PICK G \in [Users \X Tokens -> Int] : G = balance'
  <2>1. balance' \in [Accounts -> Int]
    BY <1>1, <1>2 DEF Moved, Accounts
  <2> QED  BY <2>1 DEF Accounts
<1>7. OnlyOf(u, t, F, G)
  <2> SUFFICES ASSUME NEW v \in Users, v # u PROVE G[<<v, t>>] = F[<<v, t>>]
    BY DEF OnlyOf
  <2>1. <<v, t>> \in Users \X Tokens /\ <<v, t>> # <<u, Token0[p]>> /\ <<v, t>> # <<u, Token1[p]>>
    OBVIOUS
  <2>2. F[<<v, t>>] \in Int
    BY <2>1
  <2> QED  BY <1>5, <1>6, <2>1, <2>2
<1>8. G[<<u, t>>] = F[<<u, t>>] - Part(p, d0, d1, t)
  <2>1. <<u, t>> \in Users \X Tokens /\ F[<<u, t>>] \in Int
    OBVIOUS
  <2>2. CASE t = Token0[p]
    <3>1. <<u, t>> \in Funded
      BY <1>4, <2>2
    <3>2. G[<<u, t>>] = F[<<u, t>>] + (-d0)
      BY <1>5, <1>6, <2>1, <2>2, <3>1
    <3>3. Part(p, d0, d1, t) = d0
      BY <1>3, <2>2 DEF Part
    <3> QED  BY <2>1, <3>2, <3>3
  <2>3. CASE t = Token1[p]
    <3>1. <<u, t>> \in Funded /\ <<u, t>> # <<u, Token0[p]>>
      BY <1>3, <1>4, <2>3
    <3>2. G[<<u, t>>] = F[<<u, t>>] + (-d1)
      BY <1>5, <1>6, <2>1, <2>3, <3>1
    <3>3. Part(p, d0, d1, t) = d1
      BY <1>3, <2>3 DEF Part
    <3> QED  BY <2>1, <3>2, <3>3
  <2>4. CASE t # Token0[p] /\ t # Token1[p]
    <3>1. <<u, t>> # <<u, Token0[p]>> /\ <<u, t>> # <<u, Token1[p]>>
      BY <2>4
    <3>2. G[<<u, t>>] = F[<<u, t>>]
      BY <1>5, <1>6, <2>1, <3>1
    <3>3. Part(p, d0, d1, t) = 0
      BY <2>4 DEF Part
    <3> QED  BY <2>1, <3>2, <3>3
  <2> QED  BY <2>2, <2>3, <2>4
<1>9. OfAll(F, t) \in Int /\ OfAll(G, t) = OfAll(F, t) - F[<<u, t>>] + G[<<u, t>>]
  <2>1. IntColumn(F, t) /\ IntColumn(G, t)
    BY DEF IntColumn
  <2> QED  BY <1>7, <2>1, OfAllChanges
<1>10. F[<<u, t>>] \in Int /\ Part(p, d0, d1, t) \in Int
  BY DEF Part
<1> QED  BY <1>1, <1>2, <1>6, <1>8, <1>9, <1>10

\* The money of token t in the wallets, the pools and the operations, and the
\* difference between the shares of pool p and those of its positions.
Money(t) == OfAll(balance, t) + Reserves(pool, t) + InFlight(t)
Covered(p) == pool[p].lp = OfAll(shares, p) + ToBeWritten(p)

\* The same, of the next state.
LEMMA MoneyIs ==
    ASSUME NEW t, NEW p
    PROVE  /\ Money(t)' = OfAll(balance', t) + Reserves(pool', t) + InFlight(t)'
           /\ Covered(p)' <=> pool'[p].lp = OfAll(shares', p) + ToBeWritten(p)'
BY DEF Money, Covered, OfAll, Reserves

\* An operation that holds nothing and will hold nothing changes no sum.
LEMMA NothingHeld ==
    ASSUME AmmInv, AmmInv', NEW g \in Gateways, NEW k, job' = [job EXCEPT ![g] = k],
           UNCHANGED <<pool, shares, balance>>, NEW t \in Tokens, NEW p \in Pools,
           Flying(k, t) = Flying(job[g], t), Unwritten(k, p) = Unwritten(job[g], p)
    PROVE  Money(t)' = Money(t) /\ (Covered(p) => Covered(p)')
<1>1. TypeInv /\ TypeInv'
  BY DEF AmmInv
<1>2. job[g] \in Works \cup {Idle}
  BY <1>1 DEF TypeInv
<1>3. Flying(job[g], t) \in Int /\ Unwritten(job[g], p) \in Int
  BY <1>2, HeldTypes
<1>4. InFlight(t) \in Int /\ InFlight(t)' = InFlight(t) - Flying(job[g], t) + Flying(k, t)
  BY <1>1, JobChanges
<1>5. ToBeWritten(p) \in Int /\ ToBeWritten(p)' = ToBeWritten(p) - Unwritten(job[g], p) + Unwritten(k, p)
  BY <1>1, JobChanges
<1>6. InFlight(t)' = InFlight(t) /\ ToBeWritten(p)' = ToBeWritten(p)
  BY <1>3, <1>4, <1>5
<1>7. OfAll(balance', t) = OfAll(balance, t) /\ Reserves(pool', t) = Reserves(pool, t)
  OBVIOUS
<1> QED  BY <1>6, <1>7, MoneyIs DEF Money, Covered

\* The creation of a pool changes no sum: it has neither reserves nor shares.
LEMMA CreateBalances ==
    ASSUME AmmInv, AmmInv', NEW r \in Requests, CreatePool(r), NEW t \in Tokens, NEW p \in Pools
    PROVE  Money(t)' = Money(t) /\ (Covered(p) => Covered(p)')
<1>1. UNCHANGED <<shares, balance, job>>
  BY DEF CreatePool
<1>2. InFlight(t)' = InFlight(t) /\ ToBeWritten(p)' = ToBeWritten(p)
  BY <1>1, FlightIs
<1>3. CASE UNCHANGED pool
  BY <1>1, <1>2, <1>3, MoneyIs DEF Money, Covered
<1>4. CASE ~UNCHANGED pool
  <2>1. PICK q \in Pools : pool' = [pool EXCEPT ![q] = Created] /\ pool[q].status = "none"
    BY <1>4, AmmAssumption DEF CreatePool
  <2>2. PICK P \in [Pools -> Rows], R \in [Pools -> Rows] : P = pool /\ R = pool'
    BY DEF AmmInv, TypeInv
  <2>3. /\ SameBut(Pools, P, R, q)
        /\ P[q] = Absent /\ R[q] = Created
    BY <2>1, <2>2 DEF AmmInv, NoRowIsEmpty, SameBut
  <2>4. /\ P[q].r0 = 0 /\ P[q].r1 = 0 /\ P[q].lp = 0
        /\ R[q].r0 = 0 /\ R[q].r1 = 0 /\ R[q].lp = 0
    BY <2>3 DEF Absent, Created
  <2>5. Part(q, P[q].r0, P[q].r1, t) = 0 /\ Part(q, R[q].r0, R[q].r1, t) = 0
    BY <2>4 DEF Part
  <2>6. Reserves(P, t) \in Int
        /\ Reserves(R, t) = Reserves(P, t) - Part(q, P[q].r0, P[q].r1, t) + Part(q, R[q].r0, R[q].r1, t)
    BY <2>3, ReservesChange
  <2>7. Reserves(pool', t) = Reserves(pool, t)
    BY <2>2, <2>5, <2>6
  <2>8. pool'[p].lp = pool[p].lp
    BY <2>2, <2>3, <2>4 DEF SameBut
  <2> QED  BY <1>1, <1>2, <2>7, <2>8, MoneyIs DEF Money, Covered
<1> QED  BY <1>3, <1>4

\* The beginning of an operation changes no sum.
LEMMA BegunBalances ==
    ASSUME AmmInv, AmmInv', NEW g \in Gateways, NEW j, Begun(g, j), NEW t \in Tokens, NEW p \in Pools
    PROVE  Money(t)' = Money(t) /\ (Covered(p) => Covered(p)')
<1>1. /\ UNCHANGED <<pool, shares, balance>> /\ job' = [job EXCEPT ![g] = j]
      /\ job[g] = Idle /\ j.at = "settle"
  BY DEF Begun
<1>2. Flying(j, t) = Flying(job[g], t) /\ Unwritten(j, p) = Unwritten(job[g], p)
  BY <1>1 DEF Flying, Unwritten, Idle
<1> QED  BY <1>1, <1>2, NothingHeld

\* What the wallet transaction takes from the wallets is in flight, if every
\* account has a row and the answer arrives.
LEMMA SettleBalances ==
    ASSUME AmmInv, AmmInv', NEW g \in Gateways, Settle(g), NEW t \in Tokens, NEW p \in Pools
    PROVE  /\ lapses' \cap {"commit", "norow"} = {} => Money(t)' = Money(t)
           /\ Covered(p) => Covered(p)'
<1>1. PICK j \in Works : j = job[g] /\ job[g] # Idle /\ j.at = "settle"
  BY DEF Settle, AmmInv, TypeInv, Idle
<1>2. UNCHANGED <<pool, shares>> /\ TypeInv /\ TypeInv'
  BY DEF Settle, AmmInv
<1>3. Flying(j, t) = 0 /\ Unwritten(j, p) = 0 /\ Flying(Idle, t) = 0 /\ Unwritten(Idle, p) = 0
  BY <1>1 DEF Flying, Unwritten, Idle
<1>4. InFlight(t) \in Int /\ ToBeWritten(p) \in Int
  BY <1>1, <1>2, JobChanges DEF Settle, Goes
<1>5. PICK k : /\ job' = [job EXCEPT ![g] = k] /\ Unwritten(k, p) = 0
               /\ \/ "commit" \in lapses'
                  \/ k = Idle /\ UNCHANGED balance
                  \/ /\ Moved(j) /\ Flying(k, t) = Part(j.pool, j.d0, j.d1, t)
                     /\ {Purse0(j), Purse1(j)} \subseteq Funded \/ "norow" \in lapses'
  <2>1. CASE Goes(g, "idle")
    <3>1. job' = [job EXCEPT ![g] = Idle]
      BY <2>1 DEF Goes
    <3>2. UNCHANGED balance \/ "commit" \in lapses' \/ Goes(g, "pool")
      BY <1>1 DEF Settle, Trouble
    <3>3. ~Goes(g, "pool")
      <4>1. job'[g] = Idle
        BY <3>1 DEF AmmInv, TypeInv
      <4> QED  BY <1>1, <4>1 DEF Goes, AmmInv, TypeInv, Works, Idle
    <3> QED  BY <1>3, <3>1, <3>2, <3>3
  <2>2. CASE Goes(g, "pool") /\ Moved(j) /\
             lapses' = lapses \cup (IF {Purse0(j), Purse1(j)} \subseteq Funded THEN {} ELSE {"norow"})
    <3>1. PICK k : k = [j EXCEPT !.at = "pool"]
      OBVIOUS
    <3>2. job' = [job EXCEPT ![g] = k]
      BY <1>1, <2>2, <3>1 DEF Goes
    <3>3. k.at = "pool" /\ k.pool = j.pool /\ k.d0 = j.d0 /\ k.d1 = j.d1
      BY <3>1 DEF Works
    <3>4. Flying(k, t) = Part(j.pool, j.d0, j.d1, t) /\ Unwritten(k, p) = 0
      BY <3>3 DEF Flying, Unwritten
    <3> QED  BY <2>2, <3>2, <3>4
  <2> QED  BY <1>1, <2>1, <2>2 DEF Settle
<1>6. InFlight(t)' = InFlight(t) + Flying(k, t) /\ ToBeWritten(p)' = ToBeWritten(p)
  <2>1. job[g] = j
    BY <1>1
  <2>2. InFlight(t)' = InFlight(t) - Flying(job[g], t) + Flying(k, t)
    BY <1>2, <1>5, JobChanges
  <2>3. ToBeWritten(p)' = ToBeWritten(p) - Unwritten(job[g], p) + Unwritten(k, p)
    BY <1>2, <1>5, JobChanges
  <2> QED  BY <1>3, <1>4, <1>5, <2>1, <2>2, <2>3
<1>7. Covered(p) => Covered(p)'
  <2>1. pool' = pool /\ shares' = shares
    BY <1>2
  <2> QED  BY <1>6, <2>1, MoneyIs DEF Covered
<1>8. ASSUME lapses' \cap {"commit", "norow"} = {}
      PROVE  Money(t)' = Money(t)
  <2>1. OfAll(balance, t) \in Int /\ Reserves(pool, t) \in Int
    BY <1>2, Columns, OfAllType, ReservesType DEF TypeInv
  <2>2. CASE k = Idle /\ UNCHANGED balance
    <3>1. OfAll(balance', t) = OfAll(balance, t) /\ Reserves(pool', t) = Reserves(pool, t)
      BY <1>2, <2>2
    <3>2. InFlight(t)' = InFlight(t)
      BY <1>3, <1>4, <1>6, <2>2
    <3> QED  BY <3>1, <3>2, MoneyIs DEF Money
  <2>3. CASE Moved(j) /\ Flying(k, t) = Part(j.pool, j.d0, j.d1, t) /\ {Purse0(j), Purse1(j)} \subseteq Funded
    <3>1. PICK x \in Int : x = Part(j.pool, j.d0, j.d1, t)
      BY DEF Part, Works
    <3>2. OfAll(balance', t) = OfAll(balance, t) - x
      BY <2>3, <3>1, WalletsPay
    <3>3. InFlight(t)' = InFlight(t) + x
      BY <1>6, <2>3, <3>1
    <3>4. Reserves(pool', t) = Reserves(pool, t)
      BY <1>2
    <3> QED  BY <1>4, <2>1, <3>1, <3>2, <3>3, <3>4, MoneyIs DEF Money
  <2> QED  BY <1>5, <1>8, <2>2, <2>3
<1> QED  BY <1>7, <1>8

\* What was in flight goes into the reserves when nobody else worked on the pool,
\* and the shares of the pool are those that are to be written.
LEMMA UpdateBalances ==
    ASSUME AmmInv, AmmInv', NEW g \in Gateways, UpdatePoolReserves(g),
           lapses' \cap {"unwritten", "overlap"} = {}, NEW t \in Tokens, NEW p \in Pools
    PROVE  Money(t)' = Money(t) /\ (Covered(p) => Covered(p)')
<1>1. PICK j \in Works : j = job[g] /\ job[g] # Idle /\ j.at = "pool"
  BY DEF UpdatePoolReserves, AmmInv, TypeInv, Idle
<1>2. UNCHANGED <<shares, balance>> /\ TypeInv /\ TypeInv'
  BY DEF UpdatePoolReserves, AmmInv
<1>3. /\ pool' = [pool EXCEPT ![j.pool] = Updated(j)] /\ Goes(g, AfterPool[j.kind])
      /\ "overlap" \notin lapses
  BY <1>1 DEF UpdatePoolReserves, Trouble, histVars
<1>4. PICK q \in Pools, d0 \in Int, d1 \in Int, dl \in Int :
          q = j.pool /\ d0 = j.d0 /\ d1 = j.d1 /\ dl = j.dl
  BY DEF Works
<1>5. PICK P \in [Pools -> Rows], R \in [Pools -> Rows] : P = pool /\ R = pool'
  BY <1>2 DEF TypeInv
<1>6. j.read = P[q] /\ Sound(j)
  BY <1>1, <1>3, <1>4, <1>5 DEF AmmInv, Current, ReadHolds, JobsRight, JobRight
<1>7. PICK a0 \in Nat, a1 \in Nat, l \in Nat : a0 = P[q].r0 /\ a1 = P[q].r1 /\ l = P[q].lp
  BY DEF Rows
<1>8. /\ R[q].r0 = a0 + d0 /\ R[q].r1 = a1 + d1 /\ R[q].lp = l + dl
      /\ SameBut(Pools, P, R, q)
  <2>1. R[q] = Updated(j) /\ SameBut(Pools, P, R, q)
    BY <1>3, <1>4, <1>5 DEF SameBut
  <2>2. Updated(j).r0 = a0 + d0 /\ Updated(j).r1 = a1 + d1 /\ Updated(j).lp = l + dl
    BY <1>4, <1>6, <1>7 DEF Updated, Rows
  <2> QED  BY <2>1, <2>2
<1>9. PICK k : /\ job' = [job EXCEPT ![g] = k] /\ Flying(k, t) = 0
               /\ Unwritten(k, p) = IF q = p THEN dl ELSE 0
  <2>1. PICK k : k = [j EXCEPT !.at = AfterPool[j.kind]]
    OBVIOUS
  <2>2. j.kind \in {"add", "remove", "swap"} /\ (j.kind = "swap" => dl = 0)
    BY <1>4, <1>6 DEF Works, Sound
  <2>3. job' = [job EXCEPT ![g] = k]
    <3>1. PICK at : at = AfterPool[j.kind]
      OBVIOUS
    <3>2. at # "idle"
      BY <2>2, <3>1 DEF AfterPool
    <3> QED  BY <1>1, <1>3, <2>1, <3>1, <3>2 DEF Goes
  <2>4. k.at = AfterPool[j.kind] /\ k.pool = q /\ k.dl = dl
    BY <1>4, <2>1 DEF Works
  <2>5. Flying(k, t) = 0 /\ Unwritten(k, p) = IF q = p THEN dl ELSE 0
    BY <2>2, <2>4 DEF Flying, Unwritten, AfterPool
  <2> QED  BY <2>3, <2>5
<1>10. Flying(j, t) = Part(q, d0, d1, t) /\ Unwritten(j, p) = 0
  BY <1>1, <1>4 DEF Flying, Unwritten
<1>11. PICK x \in Int : x = Part(q, d0, d1, t)
  BY DEF Part
<1>12. InFlight(t) \in Int /\ InFlight(t)' = InFlight(t) - x
  <2>1. InFlight(t) \in Int /\ InFlight(t)' = InFlight(t) - Flying(job[g], t) + Flying(k, t)
    BY <1>2, <1>9, JobChanges
  <2> QED  BY <1>1, <1>9, <1>10, <1>11, <2>1
<1>13. ToBeWritten(p) \in Int /\ ToBeWritten(p)' = ToBeWritten(p) + (IF q = p THEN dl ELSE 0)
  <2>1. ToBeWritten(p) \in Int
        /\ ToBeWritten(p)' = ToBeWritten(p) - Unwritten(job[g], p) + Unwritten(k, p)
    BY <1>2, <1>9, JobChanges
  <2> QED  BY <1>1, <1>9, <1>10, <2>1
<1>14. Reserves(pool, t) \in Int /\ Reserves(pool', t) = Reserves(pool, t) + x
  <2>1. Reserves(P, t) \in Int
        /\ Reserves(R, t) = Reserves(P, t) - Part(q, P[q].r0, P[q].r1, t) + Part(q, R[q].r0, R[q].r1, t)
    BY <1>8, ReservesChange
  <2>2. Part(q, a0 + d0, a1 + d1, t) = Part(q, a0, a1, t) + Part(q, d0, d1, t)
        /\ Part(q, a0, a1, t) \in Int
    BY AmmAssumption DEF Part
  <2> QED  BY <1>5, <1>7, <1>8, <1>11, <2>1, <2>2
<1>15. Money(t)' = Money(t)
  <2>1. OfAll(balance, t) \in Int /\ OfAll(balance', t) = OfAll(balance, t)
    BY <1>2, Columns, OfAllType
  <2> QED  BY <1>12, <1>14, <2>1, MoneyIs DEF Money
<1>16. Covered(p) => Covered(p)'
  <2>1. OfAll(shares', p) = OfAll(shares, p)
    BY <1>2
  <2>2. OfAll(shares, p) \in Int
    BY <1>2, Columns, OfAllType
  <2>3. CASE q = p
    <3>1. pool[p].lp = l /\ pool'[p].lp = l + dl
      BY <1>5, <1>7, <1>8, <2>3
    <3> QED  BY <1>13, <2>1, <2>2, <2>3, <3>1, MoneyIs DEF Covered
  <2>4. CASE q # p
    <3>1. pool'[p] = pool[p]
      BY <1>5, <1>8, <2>4 DEF SameBut
    <3> QED  BY <1>13, <2>1, <2>2, <2>4, <3>1, MoneyIs DEF Covered
  <2> QED  BY <2>3, <2>4
<1> QED  BY <1>15, <1>16

\* Reading the position changes no sum.
LEMMA GetBalances ==
    ASSUME AmmInv, AmmInv', NEW g \in Gateways, GetPositionByPool(g), NEW t \in Tokens, NEW p \in Pools
    PROVE  Money(t)' = Money(t) /\ (Covered(p) => Covered(p)')
<1>1. PICK j \in Works : j = job[g] /\ j.at = "position"
  BY DEF GetPositionByPool, AmmInv, TypeInv, Idle
<1>2. UNCHANGED <<pool, shares, balance>>
  BY DEF GetPositionByPool
<1>3. PICK n : job' = [job EXCEPT ![g] = [j EXCEPT !.at = "save", !.held = n]]
  BY <1>1 DEF GetPositionByPool
<1>4. PICK k : k = [j EXCEPT !.at = "save", !.held = n]
  OBVIOUS
<1>5. k.at = "save" /\ k.pool = j.pool /\ k.dl = j.dl /\ job' = [job EXCEPT ![g] = k]
  BY <1>3, <1>4 DEF Works
<1>6. Flying(k, t) = Flying(job[g], t) /\ Unwritten(k, p) = Unwritten(job[g], p)
  BY <1>1, <1>5 DEF Flying, Unwritten
<1> QED  BY <1>2, <1>5, <1>6, NothingHeld

\* The shares that were to be written are those of the position, if it was read
\* and nobody else wrote it.
LEMMA SaveBalances ==
    ASSUME AmmInv, AmmInv', NEW g \in Gateways, SavePosition(g), NEW t \in Tokens, NEW p \in Pools
    PROVE  /\ Money(t)' = Money(t)
           /\ lapses' \cap {"unwritten", "overlap", "unread"} = {} => (Covered(p) => Covered(p)')
<1>1. PICK j \in Works : j = job[g] /\ job[g] # Idle /\ j.at = "save"
  BY DEF SavePosition, AmmInv, TypeInv, Idle
<1>2. UNCHANGED <<pool, balance>> /\ TypeInv /\ TypeInv' /\ job' = [job EXCEPT ![g] = Idle]
  BY DEF SavePosition, Goes, AmmInv
<1>3. Flying(j, t) = 0 /\ Flying(Idle, t) = 0 /\ Unwritten(Idle, p) = 0
  BY <1>1 DEF Flying, Unwritten, Idle
<1>4. InFlight(t) \in Int /\ InFlight(t)' = InFlight(t) - Flying(job[g], t) + Flying(Idle, t)
  BY <1>2, JobChanges
<1>5. Money(t)' = Money(t)
  <2>1. InFlight(t)' = InFlight(t)
    BY <1>1, <1>3, <1>4
  <2>2. OfAll(balance', t) = OfAll(balance, t) /\ Reserves(pool', t) = Reserves(pool, t)
    BY <1>2
  <2> QED  BY <2>1, <2>2, MoneyIs DEF Money
<1>6. ASSUME lapses' \cap {"unwritten", "overlap", "unread"} = {}, Covered(p)
      PROVE  Covered(p)'
  <2>1. PICK u \in Users, q \in Pools, dl \in Int, held \in Nat :
            u = j.user /\ q = j.pool /\ dl = j.dl /\ held = j.held
    BY DEF Works
  <2>2. shares' = [shares EXCEPT ![<<u, q>>] = held + dl] /\ lapses' = lapses
    BY <1>1, <1>6, <2>1 DEF SavePosition, Trouble, NewPosition, histVars
  <2>3. held = shares[<<u, q>>]
    BY <1>1, <1>6, <2>1, <2>2 DEF AmmInv, Current, ReadHolds
  <2>4. PICK F \in [Users \X Pools -> Int], G \in [Users \X Pools -> Int] : F = shares /\ G = shares'
    <3>1. shares \in [Users \X Pools -> Int] /\ shares' \in [Users \X Pools -> Int]
      BY <1>2 DEF TypeInv
    <3> QED  BY <3>1
  <2>5. OnlyOf(u, p, F, G)
    <3> SUFFICES ASSUME NEW v \in Users, v # u PROVE G[<<v, p>>] = F[<<v, p>>]
      BY DEF OnlyOf
    <3>1. <<v, p>> # <<u, q>>
      OBVIOUS
    <3> QED  BY <2>2, <2>4, <3>1
  <2>6. G[<<u, p>>] = F[<<u, p>>] + (IF q = p THEN dl ELSE 0)
    <3>1. CASE q = p
      BY <2>2, <2>3, <2>4, <3>1
    <3>2. CASE q # p
      <4>1. <<u, p>> # <<u, q>>
        BY <3>2
      <4>2. G[<<u, p>>] = F[<<u, p>>]
        BY <2>2, <2>4, <4>1
      <4>3. F[<<u, p>>] \in Int
        OBVIOUS
      <4> QED  BY <3>2, <4>2, <4>3
    <3> QED  BY <3>1, <3>2
  <2>7. IntColumn(F, p) /\ IntColumn(G, p)
    BY DEF IntColumn
  <2>8. OfAll(F, p) \in Int
    BY <2>7, OfAllType
  <2>9. OfAll(G, p) = OfAll(F, p) - F[<<u, p>>] + G[<<u, p>>]
    BY <2>5, <2>7, OfAllChanges
  <2>10. F[<<u, p>>] \in Int
    OBVIOUS
  <2>11. OfAll(shares', p) = OfAll(shares, p) + (IF q = p THEN dl ELSE 0)
    BY <2>4, <2>6, <2>8, <2>9, <2>10
  <2>12. ToBeWritten(p) \in Int
         /\ ToBeWritten(p)' = ToBeWritten(p) - Unwritten(job[g], p) + Unwritten(Idle, p)
    BY <1>2, JobChanges
  <2>13. Unwritten(j, p) = IF q = p THEN dl ELSE 0
    BY <1>1, <2>1 DEF Unwritten
  <2>14. ToBeWritten(p)' = ToBeWritten(p) - (IF q = p THEN dl ELSE 0)
    BY <1>1, <1>3, <2>12, <2>13
  <2>15. pool'[p].lp = OfAll(shares, p) + ToBeWritten(p)
    BY <1>2, <1>6 DEF Covered
  <2>16. OfAll(shares, p) \in Int
    BY <2>4, <2>8
  <2>17. pool'[p].lp = OfAll(shares', p) + ToBeWritten(p)'
    BY <2>11, <2>12, <2>14, <2>15, <2>16
  <2> QED  BY <2>17, MoneyIs
<1> QED  BY <1>5, <1>6

\* Recording a swap changes no sum.
LEMMA RecordBalances ==
    ASSUME AmmInv, AmmInv', NEW g \in Gateways, SaveSwap(g), NEW t \in Tokens, NEW p \in Pools
    PROVE  Money(t)' = Money(t) /\ (Covered(p) => Covered(p)')
<1>1. PICK j \in Works : j = job[g] /\ job[g] # Idle /\ j.at = "record"
  BY DEF SaveSwap, AmmInv, TypeInv, Idle
<1>2. UNCHANGED <<pool, shares, balance>> /\ job' = [job EXCEPT ![g] = Idle]
  BY DEF SaveSwap, Goes
<1>3. Flying(Idle, t) = Flying(job[g], t) /\ Unwritten(Idle, p) = Unwritten(job[g], p)
  BY <1>1 DEF Flying, Unwritten, Idle
<1> QED  BY <1>2, <1>3, NothingHeld

\* A step changes no sum of money that no failure or overlap disturbs, and keeps
\* the shares of every pool covered.
LEMMA BalancesStep ==
    ASSUME AmmInv, AmmInv', [Next]_vars, NEW t \in Tokens, NEW p \in Pools
    PROVE  /\ lapses' \cap {"commit", "unwritten", "overlap", "crash", "norow"} = {} => Money(t)' = Money(t)
           /\ lapses' \cap {"unwritten", "overlap", "unread", "crash"} = {} => (Covered(p) => Covered(p)')
<1>1. ASSUME NEW r \in Requests, CreatePool(r)
      PROVE  Money(t)' = Money(t) /\ (Covered(p) => Covered(p)')
  BY <1>1, CreateBalances
<1>2. ASSUME NEW g \in Gateways, NEW r \in Requests,
             AddLiquidity(g, r) \/ RemoveLiquidity(g, r) \/ ExecuteSwap(g, r)
      PROVE  Money(t)' = Money(t) /\ (Covered(p) => Covered(p)')
  <2>1. \E j : Begun(g, j)
    BY <1>2, AddBegun, RemoveBegun, SwapBegun
  <2> QED  BY <2>1, BegunBalances
<1>3. ASSUME NEW g \in Gateways, Settle(g)
      PROVE  /\ lapses' \cap {"commit", "norow"} = {} => Money(t)' = Money(t)
             /\ Covered(p) => Covered(p)'
  BY <1>3, SettleBalances
<1>4. ASSUME NEW g \in Gateways, UpdatePoolReserves(g), lapses' \cap {"unwritten", "overlap"} = {}
      PROVE  Money(t)' = Money(t) /\ (Covered(p) => Covered(p)')
  BY <1>4, UpdateBalances
<1>5. ASSUME NEW g \in Gateways, GetPositionByPool(g) \/ SaveSwap(g)
      PROVE  Money(t)' = Money(t) /\ (Covered(p) => Covered(p)')
  BY <1>5, GetBalances, RecordBalances
<1>6. ASSUME NEW g \in Gateways, SavePosition(g)
      PROVE  /\ Money(t)' = Money(t)
             /\ lapses' \cap {"unwritten", "overlap", "unread"} = {} => (Covered(p) => Covered(p)')
  BY <1>6, SaveBalances
<1>7. ASSUME NEW g \in Gateways, Crash(g)
      PROVE  "crash" \in lapses'
  BY <1>7 DEF Crash, Trouble
<1>8. CASE UNCHANGED vars
  <2>1. UNCHANGED <<pool, shares, balance, job>>
    BY <1>8 DEF vars
  <2>2. InFlight(t)' = InFlight(t) /\ ToBeWritten(p)' = ToBeWritten(p)
    BY <2>1, FlightIs
  <2>3. OfAll(balance', t) = OfAll(balance, t) /\ Reserves(pool', t) = Reserves(pool, t)
        /\ OfAll(shares', p) = OfAll(shares, p)
    BY <2>1
  <2> QED  BY <2>1, <2>2, <2>3, MoneyIs DEF Money, Covered
<1> QED  BY <1>1, <1>2, <1>3, <1>4, <1>5, <1>6, <1>7, <1>8 DEF Next

\* The books balance, in terms of the two sums.
Balanced ==
    /\ lapses \cap {"commit", "unwritten", "overlap", "crash", "norow"} = {} =>
           \A t \in Tokens : Money(t) = OfAll(Opening, t) + Reserves(Seed, t)
    /\ lapses \cap {"unwritten", "overlap", "unread", "crash"} = {} => \A p \in Pools : Covered(p)

\* At first nothing is in flight, and the positions of the seed cover its pools.
LEMMA BalancedAtFirst == Init => Balanced
<1> SUFFICES ASSUME Init PROVE Balanced
  OBVIOUS
<1>1. \A g \in Gateways : job[g] = Idle
  BY DEF Init
<1>2. TypeInv
  BY AmmInitInv DEF AmmInv
<1>3. ASSUME NEW t PROVE InFlight(t) = 0
  <2> PICK f : f = [h \in Gateways |-> Flying(job[h], t)]
    OBVIOUS
  <2>1. IsFiniteSet(Gateways) /\ \A h \in Gateways : f[h] = 0
    BY <1>1, AmmAssumption DEF Flying, Idle
  <2>2. SumFunctionOnSet(f, Gateways) = 0
    BY <2>1, SumZero
  <2> QED  BY <2>2, FlightIs DEF FlightOf
<1>4. ASSUME NEW p PROVE ToBeWritten(p) = 0
  <2> PICK f : f = [h \in Gateways |-> Unwritten(job[h], p)]
    OBVIOUS
  <2>1. IsFiniteSet(Gateways) /\ \A h \in Gateways : f[h] = 0
    BY <1>1, AmmAssumption DEF Unwritten, Idle
  <2>2. SumFunctionOnSet(f, Gateways) = 0
    BY <2>1, SumZero
  <2> QED  BY <2>2, FlightIs DEF WritingOf
<1>5. balance = Opening /\ pool = Seed /\ shares = SeedShares
  BY DEF Init
<1>6. ASSUME NEW t \in Tokens
      PROVE  Money(t) = OfAll(Opening, t) + Reserves(Seed, t)
  <2>1. OfAll(balance, t) \in Int /\ Reserves(pool, t) \in Int
    <3>1. IntColumn(balance, t)
      BY <1>2 DEF TypeInv, Accounts, IntColumn
    <3> QED  BY <1>2, <3>1, OfAllType, ReservesType DEF TypeInv
  <2> QED  BY <1>3, <1>5, <2>1 DEF Money
<1>7. ASSUME NEW p \in Pools
      PROVE  Covered(p)
  <2>1. Seed[p].lp = OfAll(SeedShares, p) /\ Seed[p].lp \in Nat
    BY AmmAssumption
  <2> QED  BY <1>4, <1>5, <2>1 DEF Covered
<1> QED  BY <1>6, <1>7 DEF Balanced

\* Without a pool nothing can be asked, and nothing happens.
LEMMA WithoutPools ==
    ASSUME AmmInv, [Next]_vars, Pools = {}
    PROVE  UNCHANGED vars
<1>1. Requests = {}
  BY AmmAssumption
<1>2. \A g \in Gateways : job[g] = Idle
  BY DEF AmmInv, TypeInv, Works
<1>3. \A g \in Gateways : job[g].at = "idle"
  BY <1>2 DEF Idle
<1>4. ASSUME NEW g \in Gateways,
             Settle(g) \/ UpdatePoolReserves(g) \/ GetPositionByPool(g) \/ SavePosition(g) \/ SaveSwap(g)
      PROVE  FALSE
  <2>1. job[g].at \in {"settle", "pool", "position", "save", "record"}
    BY <1>4 DEF Settle, UpdatePoolReserves, GetPositionByPool, SavePosition, SaveSwap
  <2> QED  BY <1>3, <2>1
<1>5. ASSUME NEW g \in Gateways, Crash(g) PROVE FALSE
  BY <1>2, <1>5 DEF Crash
<1>6. ~Next
  BY <1>1, <1>4, <1>5 DEF Next
<1> QED  BY <1>6

\* What the wallets lose the pools gain, and everyone can withdraw at once
\* (BooksBalance), unless a step after the wallet transaction failed, an answer
\* was lost, a gateway stopped or two gateways met on a pool: no other order of
\* the steps of the gateways does harm.
THEOREM BooksAlwaysBalance == Spec => []BooksBalance
<1>1. AmmInv /\ AmmInv' /\ Balanced /\ [Next]_vars => Balanced'
  <2> SUFFICES ASSUME AmmInv, AmmInv', Balanced, [Next]_vars
               PROVE  Balanced'
    OBVIOUS
  <2>1. lapses \subseteq lapses'
    <3>1. ASSUME NEW r \in Requests, CreatePool(r) PROVE lapses \subseteq lapses'
      BY <3>1 DEF CreatePool, Trouble, histVars
    <3>2. ASSUME NEW g \in Gateways, NEW r \in Requests,
                 AddLiquidity(g, r) \/ RemoveLiquidity(g, r) \/ ExecuteSwap(g, r)
          PROVE  lapses \subseteq lapses'
      BY <3>2 DEF AddLiquidity, RemoveLiquidity, ExecuteSwap, Begin
    <3>3. ASSUME NEW g \in Gateways,
                 Settle(g) \/ UpdatePoolReserves(g) \/ GetPositionByPool(g) \/ SavePosition(g)
                    \/ SaveSwap(g) \/ Crash(g)
          PROVE  lapses \subseteq lapses'
      BY <3>3 DEF Settle, UpdatePoolReserves, GetPositionByPool, SavePosition, SaveSwap, Crash,
         Trouble, histVars
    <3>4. CASE UNCHANGED vars
      BY <3>4 DEF vars, histVars
    <3> QED  BY <3>1, <3>2, <3>3, <3>4 DEF Next
  <2>2. ASSUME lapses' \cap {"commit", "unwritten", "overlap", "crash", "norow"} = {}, NEW t \in Tokens
        PROVE  Money(t)' = OfAll(Opening, t) + Reserves(Seed, t)
    <3>1. Money(t) = OfAll(Opening, t) + Reserves(Seed, t)
      BY <2>1, <2>2 DEF Balanced
    <3>2. CASE Pools # {}
      <4>1. PICK p \in Pools : TRUE
        BY <3>2
      <4> QED  BY <2>2, <3>1, <4>1, BalancesStep
    <3>3. CASE Pools = {}
      <4>1. UNCHANGED vars
        BY <3>3, WithoutPools
      <4>2. UNCHANGED <<balance, pool, job>>
        BY <4>1 DEF vars
      <4>3. InFlight(t)' = InFlight(t) /\ OfAll(balance', t) = OfAll(balance, t)
            /\ Reserves(pool', t) = Reserves(pool, t)
        BY <4>2, FlightIs
      <4> QED  BY <3>1, <4>3, MoneyIs DEF Money
    <3> QED  BY <3>2, <3>3
  <2>3. ASSUME lapses' \cap {"unwritten", "overlap", "unread", "crash"} = {}, NEW p \in Pools
        PROVE  Covered(p)'
    <3>1. Covered(p)
      BY <2>1, <2>3 DEF Balanced
    <3>2. PICK t \in Tokens : TRUE
      BY AmmAssumption
    <3> QED  BY <2>3, <3>1, <3>2, BalancesStep
  <2> QED  BY <2>2, <2>3 DEF Balanced
<1>2. Init => AmmInv /\ Balanced
  BY AmmInitInv, BalancedAtFirst
<1>3. AmmInv /\ [Next]_vars => AmmInv'
  BY AmmStepInv
<1>4. Balanced => BooksBalance
  BY DEF Balanced, BooksBalance, Money, Covered
<1> QED  BY <1>1, <1>2, <1>3, <1>4, PTL DEF Spec

=============================================================================
