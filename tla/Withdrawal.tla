------------------------------ MODULE Withdrawal ------------------------------
(***************************************************************************)
(* The life of the withdrawals of one user and asset: WithdrawalService    *)
(* (internal/wallet/withdrawal.go), the wallet row and the transaction     *)
(* rows it works on (internal/store/pg_wallet.go), the administrators who  *)
(* decide (internal/api/admin_handler.go) and the on-chain worker of the   *)
(* wallet service (cmd/wallet-service/main.go).                            *)
(*                                                                         *)
(* Every call to the store or to the chain is a step, and each may fail:   *)
(* Trouble counts the failures and the answers that come too early.  A     *)
(* process that dies between two steps leaves what a failure of the second *)
(* leaves; only the memory of a gateway needs a restart of its own.  What  *)
(* a property does not survive is recorded in lapses when it happens.  A   *)
(* behaviour lies within one calendar day.                                 *)
(***************************************************************************)
EXTENDS Integers, FiniteSets, Functions

CONSTANTS
    Withdrawals,   \* withdrawal requests
    NoWithdrawal,
    Amount,        \* what each of them asks for
    Opening,       \* the balance before the first of them
    Threshold,     \* reviewThreshold
    DailyLimit,    \* a limit that is set and positive; the code takes any other for none
    Gateways,      \* processes that serve requests, each with its own limits
    Admins,        \* administrators' requests to reject
    Workers,       \* processes that run the on-chain worker
    Stores,        \* the WalletStores considered, see Store
    MaxDecisions,  \* bound: decisions of the administrators
    MaxTrouble     \* bound: failures, early answers and restarts

\* What the service sees of a WalletStore: whether SaveTx replaces a row that
\* exists, and whether UpdateTxStatus works.  In PGWalletStore SaveTx leaves
\* such a row alone, and UpdateTxStatus names a column of transactions,
\* updated_at, that no migration adds.
Store == [replaces : BOOLEAN, updates : BOOLEAN]

PGWalletStore == [replaces |-> FALSE, updates |-> FALSE]

ASSUME WithdrawalAssumption ==
    /\ IsFiniteSet(Withdrawals) /\ NoWithdrawal \notin Withdrawals
    /\ Amount \in [Withdrawals -> Nat \ {0}]
    /\ Opening \in Nat /\ Threshold \in Nat /\ DailyLimit \in Nat \ {0}
    /\ Stores # {} /\ Stores \subseteq Store
    /\ Gateways # {} /\ MaxDecisions \in Nat /\ MaxTrouble \in Nat

VARIABLES
    store,
    balance, locked, \* the wallet row
    status, hash,    \* the transaction rows
    listed, limited, \* a gateway's memory: the address book and the limit are set
    used,            \* dailyWithdrawn of a gateway
    req, gate,       \* where a request is, and the gateway that serves it
    decided,         \* decisions taken
    apc, rejecting,  \* an administrator's request to reject
    wpc, todo, cur,  \* a worker: its step, the rows listed, the row in progress
    sent,            \* the chain: how often a withdrawal was sent
    lapses,          \* history: what has gone wrong
    trouble

walletVars == <<balance, locked>>
rowVars    == <<status, hash>>
memoryVars == <<listed, limited, used>>
reqVars    == <<req, gate>>
adminVars  == <<decided, apc, rejecting>>
workerVars == <<wpc, todo, cur>>
faultVars  == <<lapses, trouble>>
vars == <<store, walletVars, rowVars, memoryVars, reqVars, adminVars, workerVars, sent, faultVars>>

Statuses == {"None", "Pending", "Reviewing", "Approved", "Broadcast", "Completed", "Rejected"}

Trouble == trouble < MaxTrouble /\ trouble' = trouble + 1

Lapse(l) == lapses' = lapses \cup {l}

LapseIf(l, c) == lapses' = IF c THEN lapses \cup {l} ELSE lapses

-------------------------------------------------------------------------------
(* The wallet row.                                                          *)

Affordable(w) == balance - locked >= Amount[w]

UnlockedBlindly(w) == locked - Amount[w]

\* The unlock of Settle: without effect, and without an error, when it is too large.
Unlocked(w) == IF locked >= Amount[w] THEN locked - Amount[w] ELSE locked

-------------------------------------------------------------------------------
(* RequestWithdrawal.                                                       *)

\* The administrators' AddAddress and SetLimit, in the memory of one gateway.
AddAddress(g) ==
    /\ ~listed[g]
    /\ listed' = [listed EXCEPT ![g] = TRUE]
    /\ UNCHANGED <<store, walletVars, rowVars, limited, used, reqVars, adminVars, workerVars, sent, faultVars>>

SetLimit(g) ==
    /\ ~limited[g]
    /\ limited' = [limited EXCEPT ![g] = TRUE]
    /\ UNCHANGED <<store, walletVars, rowVars, listed, used, reqVars, adminVars, workerVars, sent, faultVars>>

IsWhitelisted(g) == listed[g]

WithinWhatIsLeft(g, w) == used[g] <= DailyLimit

Within(g, w) == used[g] + Amount[w] <= DailyLimit

InProgress(g) == {v \in Withdrawals : gate[v] = g /\ req[v] \in {"checked", "reserved", "saved"}}

\* checkDailyLimit, which looks at what earlier requests have recorded.
Check(w, g) ==
    /\ req[w] = "new" /\ IsWhitelisted(g)
    /\ gate' = [gate EXCEPT ![w] = g]
    /\ req' = [req EXCEPT ![w] = IF limited[g] /\ ~Within(g, w) THEN "failed" ELSE "checked"]
    /\ lapses' = lapses \cup (IF limited[g] THEN {} ELSE {"unlimited"})
                        \cup (IF InProgress(g) = {} THEN {} ELSE {"overlap"})
    /\ UNCHANGED <<store, walletVars, rowVars, memoryVars, adminVars, workerVars, sent, trouble>>

Goto(w, l) == req' = [req EXCEPT ![w] = l]

\* ReserveForOrder commits the lock and then reads the wallet back.
Reserve(w) ==
    /\ req[w] = "checked"
    /\ \/ Affordable(w) /\ locked' = locked + Amount[w] /\ Goto(w, "reserved")
          /\ UNCHANGED faultVars
       \/ ~Affordable(w) /\ Goto(w, "failed") /\ UNCHANGED <<locked, faultVars>>
       \/ Trouble /\ Goto(w, "failed") /\ UNCHANGED <<locked, lapses>>
       \/ /\ Affordable(w) /\ locked' = locked + Amount[w] /\ Goto(w, "failed")
          /\ Trouble /\ Lapse("lock")
    /\ UNCHANGED <<store, balance, rowVars, memoryVars, gate, adminVars, workerVars, sent>>

FirstStatus(w) == IF Threshold > 0 /\ Amount[w] >= Threshold THEN "Reviewing" ELSE "Pending"

SaveRequest(w) ==
    /\ req[w] = "reserved"
    /\ \/ /\ status' = [status EXCEPT ![w] = FirstStatus(w)]
          /\ Goto(w, "saved") /\ UNCHANGED trouble
       \/ Trouble /\ Goto(w, "undo") /\ UNCHANGED status
    /\ UNCHANGED <<store, walletVars, hash, memoryVars, gate, adminVars, workerVars, sent, lapses>>

KeptAfterUndo(w) == locked

LeftAfterUndo(w) == Unlocked(w)

\* The reservation of a request that could not be saved is released, errors ignored.
Undo(w) ==
    /\ req[w] = "undo"
    /\ \/ locked' = LeftAfterUndo(w) /\ UNCHANGED faultVars
       \/ Trouble /\ Lapse("lock") /\ UNCHANGED locked
    /\ Goto(w, "failed")
    /\ UNCHANGED <<store, balance, rowVars, memoryVars, gate, adminVars, workerVars, sent>>

\* recordDailyWithdrawn.
Record(w) ==
    /\ req[w] = "saved"
    /\ used' = [used EXCEPT ![gate[w]] = @ + Amount[w]]
    /\ Goto(w, "done")
    /\ UNCHANGED <<store, walletVars, rowVars, listed, limited, gate, adminVars, workerVars, sent, faultVars>>

\* Restarting a gateway ends the requests it serves and empties its memory.
RestartGateway(g) ==
    /\ Trouble
    /\ lapses' = lapses \cup {"forgot"} \cup
          (IF \E w \in Withdrawals : gate[w] = g /\ req[w] \in {"reserved", "undo"}
           THEN {"lock"} ELSE {})
    /\ req' = [w \in Withdrawals |->
          IF gate[w] = g /\ req[w] \notin {"new", "done", "failed"} THEN "failed" ELSE req[w]]
    /\ listed' = [listed EXCEPT ![g] = FALSE]
    /\ limited' = [limited EXCEPT ![g] = FALSE]
    /\ used' = [used EXCEPT ![g] = 0]
    /\ UNCHANGED <<store, walletVars, rowVars, gate, adminVars, workerVars, sent>>

-------------------------------------------------------------------------------
(* The administrators.                                                      *)

Decides(w) ==
    /\ status[w] # "None" /\ decided < MaxDecisions
    /\ decided' = decided + 1

Undecided == {"Pending", "Reviewing"}

Contested(w) == status[w] \notin Undecided \/ \E a \in Admins : rejecting[a] = w

\* One UPDATE, whatever the status is.
ApproveWithdrawal(w) ==
    /\ Decides(w)
    /\ \/ /\ store.updates
          /\ status' = [status EXCEPT ![w] = "Approved"]
          /\ LapseIf("contested", Contested(w)) /\ UNCHANGED trouble
       \/ ~store.updates /\ UNCHANGED <<status, faultVars>>
       \/ Trouble /\ UNCHANGED <<status, lapses>>
    /\ UNCHANGED <<store, walletVars, hash, memoryVars, reqVars, apc, rejecting, workerVars, sent>>

\* RejectWithdrawal: the status is read, the funds are released, the row is marked.
BeginReject(a, w) ==
    /\ apc[a] = "idle"
    /\ Decides(w)
    /\ \/ /\ status[w] \in Undecided
          /\ apc' = [apc EXCEPT ![a] = "release"]
          /\ rejecting' = [rejecting EXCEPT ![a] = w]
          /\ LapseIf("contested", Contested(w))
       \/ status[w] \notin Undecided /\ UNCHANGED <<apc, rejecting, lapses>>
    /\ UNCHANGED <<store, walletVars, rowVars, memoryVars, reqVars, workerVars, sent, trouble>>

ReleaseFunds(a) ==
    /\ apc[a] = "release"
    /\ \/ /\ locked' = Unlocked(rejecting[a])
          /\ apc' = [apc EXCEPT ![a] = "mark"]
          /\ UNCHANGED <<rejecting, trouble>>
       \/ /\ Trouble
          /\ apc' = [apc EXCEPT ![a] = "idle"]
          /\ rejecting' = [rejecting EXCEPT ![a] = NoWithdrawal]
          /\ UNCHANGED locked
    /\ UNCHANGED <<store, balance, rowVars, memoryVars, reqVars, decided, workerVars, sent, lapses>>

MarkRejected(a) ==
    /\ apc[a] = "mark"
    /\ \/ /\ store.updates
          /\ status' = [status EXCEPT ![rejecting[a]] = "Rejected"] /\ UNCHANGED faultVars
       \/ ~store.updates /\ Lapse("mark") /\ UNCHANGED <<status, trouble>>
       \/ Trouble /\ Lapse("mark") /\ UNCHANGED status
    /\ apc' = [apc EXCEPT ![a] = "idle"]
    /\ rejecting' = [rejecting EXCEPT ![a] = NoWithdrawal]
    /\ UNCHANGED <<store, walletVars, hash, memoryVars, reqVars, decided, workerVars, sent>>

-------------------------------------------------------------------------------
(* The on-chain worker: it broadcasts what is approved, then confirms what   *)
(* is broadcast, and starts over.                                            *)

At(k, l) == wpc[k] = l
Move(k, l, w) == wpc' = [wpc EXCEPT ![k] = l] /\ cur' = [cur EXCEPT ![k] = w]

\* Failing to list skips the batch.
List(k, s, l) ==
    /\ \/ todo' = [todo EXCEPT ![k] = {w \in Withdrawals : status[w] = s}] /\ UNCHANGED trouble
       \/ Trouble /\ UNCHANGED todo
    /\ Move(k, l, NoWithdrawal)
    /\ UNCHANGED <<store, walletVars, rowVars, memoryVars, reqVars, adminVars, sent, lapses>>

ListApproved(k) == At(k, "idle") /\ List(k, "Approved", "broadcast")

WaitedForStatus == "Confirming"

ConfirmedStatus == "Broadcast"

ListBroadcast(k) == At(k, "broadcast") /\ todo[k] = {} /\ List(k, ConfirmedStatus, "confirm")

EndTick(k) ==
    /\ At(k, "confirm") /\ todo[k] = {}
    /\ Move(k, "idle", NoWithdrawal)
    /\ UNCHANGED <<store, walletVars, rowVars, memoryVars, reqVars, adminVars, todo, sent, faultVars>>

\* Takes a listed row; ready says whether the row it then reads goes to step l.
Take(k, w, ready, l) ==
    /\ w \in todo[k]
    /\ todo' = [todo EXCEPT ![k] = @ \ {w}]
    /\ \/ /\ ready /\ Move(k, l, w) /\ UNCHANGED trouble
          /\ LapseIf("race", \E j \in Workers : cur[j] = w)
       \/ ~ready /\ UNCHANGED <<wpc, cur, faultVars>>
       \/ Trouble /\ UNCHANGED <<wpc, cur, lapses>>
    /\ UNCHANGED <<store, walletVars, rowVars, memoryVars, reqVars, adminVars, sent>>

SendableUnlessDone(w) == status[w] \in {"Approved", "Broadcast"}

Sendable(w) == status[w] = "Approved"

LoadApproved(k, w) == At(k, "broadcast") /\ Take(k, w, Sendable(w), "send")

\* SendTransaction.
Send(k) ==
    /\ At(k, "send")
    /\ \/ /\ sent' = [sent EXCEPT ![cur[k]] = @ + 1]
          /\ Move(k, "saveHash", cur[k]) /\ UNCHANGED trouble
       \/ Trouble /\ Move(k, "broadcast", NoWithdrawal) /\ UNCHANGED sent
    /\ UNCHANGED <<store, walletVars, rowVars, memoryVars, reqVars, adminVars, todo, lapses>>

\* SaveTx of the row as it was read, with the fields that changed.
SaveTx(w, s) ==
    \/ /\ store.replaces
       /\ status' = [status EXCEPT ![w] = s] /\ hash' = [hash EXCEPT ![w] = TRUE]
       /\ UNCHANGED faultVars
    \/ ~store.replaces /\ Lapse("mark") /\ UNCHANGED <<rowVars, trouble>>
    \/ Trouble /\ Lapse("mark") /\ UNCHANGED rowVars

SaveHash(k) ==
    /\ At(k, "saveHash")
    /\ SaveTx(cur[k], "Broadcast")
    /\ Move(k, "broadcast", NoWithdrawal)
    /\ UNCHANGED <<store, walletVars, memoryVars, reqVars, adminVars, todo, sent>>

\* Too few confirmations are a case of Trouble: the row waits for the next tick.
LoadBroadcast(k, w) == At(k, "confirm") /\ Take(k, w, status[w] = "Broadcast", "finalise")

Debited(w) == balance - Amount[w]

Finalise(k) ==
    /\ At(k, "finalise")
    /\ \/ /\ locked' = Unlocked(cur[k]) /\ balance' = Debited(cur[k])
          /\ Move(k, "saveDone", cur[k]) /\ UNCHANGED trouble
       \/ Trouble /\ Move(k, "confirm", NoWithdrawal) /\ UNCHANGED walletVars
    /\ UNCHANGED <<store, rowVars, memoryVars, reqVars, adminVars, todo, sent, lapses>>

SaveDone(k) ==
    /\ At(k, "saveDone")
    /\ SaveTx(cur[k], "Completed")
    /\ Move(k, "confirm", NoWithdrawal)
    /\ UNCHANGED <<store, walletVars, memoryVars, reqVars, adminVars, todo, sent>>

-------------------------------------------------------------------------------

Init ==
    /\ store \in Stores
    /\ balance = Opening /\ locked = 0
    /\ status = [w \in Withdrawals |-> "None"] /\ hash = [w \in Withdrawals |-> FALSE]
    /\ listed = [g \in Gateways |-> FALSE] /\ limited = [g \in Gateways |-> FALSE]
    /\ used = [g \in Gateways |-> 0]
    /\ req = [w \in Withdrawals |-> "new"]
    /\ gate = [w \in Withdrawals |-> CHOOSE g \in Gateways : TRUE]
    /\ decided = 0
    /\ apc = [a \in Admins |-> "idle"] /\ rejecting = [a \in Admins |-> NoWithdrawal]
    /\ wpc = [k \in Workers |-> "idle"] /\ todo = [k \in Workers |-> {}]
    /\ cur = [k \in Workers |-> NoWithdrawal]
    /\ sent = [w \in Withdrawals |-> 0]
    /\ lapses = {} /\ trouble = 0

\* What the user's request does; a gateway serves many at a time.
Withdraw(w) ==
    \/ \E g \in Gateways : Check(w, g)
    \/ Reserve(w) \/ SaveRequest(w) \/ Undo(w) \/ Record(w)

GatewayStep ==
    \/ \E g \in Gateways : RestartGateway(g)
    \/ \E w \in Withdrawals : Withdraw(w)

\* The administrators' handlers that touch only the memory of a gateway.
AdminSets == \E g \in Gateways : AddAddress(g) \/ SetLimit(g)

AdminStep ==
    \/ AdminSets
    \/ \E w \in Withdrawals : ApproveWithdrawal(w)
    \/ \E a \in Admins : \/ \E w \in Withdrawals : BeginReject(a, w)
                         \/ ReleaseFunds(a) \/ MarkRejected(a)

Tick(k) ==
    \/ ListApproved(k) \/ ListBroadcast(k) \/ EndTick(k)
    \/ \E w \in Withdrawals : LoadApproved(k, w) \/ LoadBroadcast(k, w)
    \/ Send(k) \/ SaveHash(k) \/ Finalise(k) \/ SaveDone(k)

Next == GatewayStep \/ AdminStep \/ \E k \in Workers : Tick(k)

\* The worker's ticker keeps firing; nobody else owes a step.
Fairness == \A k \in Workers : WF_vars(Tick(k))

Spec == Init /\ [][Next]_vars /\ Fairness

-------------------------------------------------------------------------------
(* Properties.  Each names the lapses it does not survive; the others it    *)
(* survives together with any failure.                                      *)

Without(ls) == lapses \cap ls = {}

Total(S) == SumFunctionOnSet(Amount, S)

\* Withdrawals that are neither settled nor undone.
Open ==
    {w \in Withdrawals :
        /\ req[w] \in {"reserved", "undo"}
              \/ status[w] \in {"Pending", "Reviewing", "Approved", "Broadcast"}
        /\ \A a \in Admins : ~(apc[a] = "mark" /\ rejecting[a] = w)
        /\ \A k \in Workers : ~(wpc[k] = "saveDone" /\ cur[k] = w)}

\* Every variable keeps its type; in particular the wallet row never goes
\* below zero, although Settle checks neither column and the schema has no
\* constraint (pg_wallet.go, Settle).
TypeOK ==
    /\ store \in Stores
    /\ balance \in Int /\ locked \in Nat
    /\ status \in [Withdrawals -> Statuses] /\ hash \in [Withdrawals -> BOOLEAN]
    /\ listed \in [Gateways -> BOOLEAN] /\ limited \in [Gateways -> BOOLEAN]
    /\ used \in [Gateways -> Nat]
    /\ req \in [Withdrawals -> {"new", "checked", "reserved", "saved", "undo", "done", "failed"}]
    /\ gate \in [Withdrawals -> Gateways]
    /\ decided \in 0..MaxDecisions
    /\ apc \in [Admins -> {"idle", "release", "mark"}]
    /\ rejecting \in [Admins -> Withdrawals \cup {NoWithdrawal}]
    /\ wpc \in [Workers -> {"idle", "broadcast", "send", "saveHash", "confirm", "finalise", "saveDone"}]
    /\ todo \in [Workers -> SUBSET Withdrawals]
    /\ cur \in [Workers -> Withdrawals \cup {NoWithdrawal}]
    /\ sent \in [Withdrawals -> Nat]
    /\ lapses \subseteq {"unlimited", "overlap", "forgot", "lock", "mark", "contested", "race"}
    /\ trouble \in 0..MaxTrouble

\* What RequestWithdrawal reserved stays reserved until the withdrawal is over
\* (withdrawal.go, RejectWithdrawal and ConfirmWithdrawal).
ReservationKept == locked >= Total(Open)

\* The funds of every open withdrawal are locked, whatever fails; and nothing
\* else is, unless a reservation was left behind by a call that failed half way.
LockedCoversOpen ==
    Without({"mark", "contested", "race"}) =>
        ReservationKept /\ (Without({"lock"}) => locked = Total(Open))

\* Wallet, rows and chain tell the same story.  The lock never exceeds the balance:
\* concurrent requests cannot reserve the same funds twice.  The balance has lost
\* exactly the withdrawals that are completed.  The chain has seen a withdrawal
\* once if its row says so or is about to, and not at all otherwise: nothing
\* rejected or undecided leaves, nothing leaves twice.
BooksAgree ==
    Without({"mark", "contested", "race"}) =>
        /\ locked <= balance
        /\ balance = Opening - Total({w \in Withdrawals :
               \/ status[w] = "Completed"
               \/ \E k \in Workers : wpc[k] = "saveDone" /\ cur[k] = w})
        /\ \A w \in Withdrawals :
               sent[w] = IF \/ hash[w] /\ status[w] \in {"Broadcast", "Completed"}
                            \/ \E k \in Workers : wpc[k] = "saveHash" /\ cur[k] = w
                         THEN 1 ELSE 0

\* Whatever the failures, the withdrawals a gateway has recorded in a day stay
\* within the limit, if it had one and no two requests overlapped.
LimitKept ==
    Without({"unlimited", "overlap", "forgot"}) =>
        \A g \in Gateways :
            Total({w \in Withdrawals : gate[w] = g /\ status[w] # "None"}) <= DailyLimit

\* With a store that keeps what SaveTx writes, an approved withdrawal is
\* completed in the end: lost marks and failures are made up for by a later tick.
ApprovedIsCompleted ==
    \A w \in Withdrawals :
        (status[w] = "Approved" /\ store.replaces) ~>
            (status[w] = "Completed" \/ "contested" \in lapses)

===============================================================================
