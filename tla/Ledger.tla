-------------------------------- MODULE Ledger --------------------------------
(***************************************************************************)
(* What the wallet ledger promises to those who move funds through it      *)
(* (wallet.WalletStore, internal/wallet/types.go): a movement changes      *)
(* every account it concerns in one step, and happens at most once.        *)
(* Settlement implements this specification with one movement for each     *)
(* delivery of a fill and for each deposit request.                        *)
(***************************************************************************)
EXTENDS Integers

CONSTANTS
    Accounts,
    Movements,
    Change(_, _)   \* Change(m, a): what movement m adds to account a

VARIABLES
    balance,   \* of each account
    moved      \* the movements that have happened

Init ==
    /\ balance \in [Accounts -> Int]
    /\ moved = {}

Move(m) ==
    /\ m \in Movements \ moved
    /\ moved' = moved \cup {m}
    /\ balance' = [a \in Accounts |-> balance[a] + Change(m, a)]

\* A step that changes nothing but balances is no step of the ledger: the
\* movement that explains it is one that moved' names.
Next == \E m \in moved' : Move(m)

Spec == Init /\ [][Next]_<<balance, moved>>

===============================================================================
