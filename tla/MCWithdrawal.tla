----------------------------- MODULE MCWithdrawal -----------------------------
(* Bounds for TLC: two withdrawals, one below the review threshold and one at *)
(* it, of a user whose balance covers one of them and the other not or just.  *)
EXTENDS Withdrawal, TLC

CONSTANTS w1, w2

Asked == w1 :> 1 @@ w2 :> 2

AskedOfOne == w2 :> 2

TwoStores == {[replaces |-> TRUE, updates |-> TRUE], PGWalletStore}


===============================================================================
