--------------------------- MODULE Withdrawal_proofs ---------------------------
(***************************************************************************)
(* Proofs about Withdrawal, for any requests, amounts, limit, gateways,    *)
(* administrators and workers, whatever fails: its types, that what a      *)
(* request reserved stays locked until the withdrawal is over, that        *)
(* wallet, rows and chain agree, and that the daily limit is kept.         *)
(*                                                                         *)
(* None of the three is inductive alone.  Releasing funds is right because *)
(* the withdrawal released is open, and it is open because nobody else has *)
(* it in hand (OneActor), as long as the lapses that the properties        *)
(* exclude have not happened.  The limit rests on the request that passed  *)
(* the check being the only one of its gateway that is not yet recorded.   *)
(***************************************************************************)
EXTENDS Withdrawal, SumTheorems

-------------------------------------------------------------------------------
(* What holds whatever goes wrong: a row exists once its request was saved,  *)
(* and administrators and workers have only rows in hand that exist.         *)
RequestFirst ==
    \A w \in Withdrawals :
       req[w] \in {"new", "checked", "reserved", "undo"} => status[w] = "None"

KnownRejections ==
    \A a \in Admins :
       IF apc[a] = "idle" THEN rejecting[a] = NoWithdrawal
       ELSE rejecting[a] \in Withdrawals /\ status[rejecting[a]] # "None"

InWork == {"send", "saveHash", "finalise", "saveDone"}

KnownWork ==
    \A k \in Workers :
       IF wpc[k] \in InWork THEN cur[k] \in Withdrawals /\ status[cur[k]] # "None"
       ELSE cur[k] = NoWithdrawal

Known == RequestFirst /\ KnownRejections /\ KnownWork

\* The names of what can go wrong.
Lapses == {"unlimited", "overlap", "forgot", "lock", "mark", "contested", "race"}

\* What went wrong is never forgotten.
LEMMA LapsesKept ==
    ASSUME lapses \subseteq Lapses, [Next]_vars
    PROVE  lapses' \subseteq Lapses /\ lapses \subseteq lapses'
<1> USE DEF Lapses,
    walletVars, rowVars, memoryVars, reqVars, adminVars, workerVars, faultVars
<1> DEFINE Goal == lapses' \subseteq Lapses /\ lapses \subseteq lapses'
<1>1. ASSUME NEW g \in Gateways, AddAddress(g) PROVE Goal
  BY <1>1 DEF AddAddress
<1>2. ASSUME NEW g \in Gateways, SetLimit(g) PROVE Goal
  BY <1>2 DEF SetLimit
<1>3. ASSUME NEW g \in Gateways, RestartGateway(g) PROVE Goal
  BY <1>3 DEF RestartGateway, Trouble
<1>4. ASSUME NEW w \in Withdrawals, NEW g \in Gateways, Check(w, g) PROVE Goal
  BY <1>4 DEF Check, IsWhitelisted, Within, InProgress
<1>5. ASSUME NEW w \in Withdrawals, Reserve(w) PROVE Goal
  BY <1>5 DEF Reserve, Affordable, Goto, Trouble, Lapse
<1>6. ASSUME NEW w \in Withdrawals, SaveRequest(w) PROVE Goal
  BY <1>6 DEF SaveRequest, FirstStatus, Goto, Trouble
<1>7. ASSUME NEW w \in Withdrawals, Undo(w) PROVE Goal
  BY <1>7 DEF Undo, LeftAfterUndo, Unlocked, Goto, Trouble, Lapse
<1>8. ASSUME NEW w \in Withdrawals, Record(w) PROVE Goal
  BY <1>8 DEF Record, Goto
<1>9. ASSUME NEW w \in Withdrawals, ApproveWithdrawal(w) PROVE Goal
  BY <1>9 DEF ApproveWithdrawal, Decides, LapseIf, Contested, Trouble
<1>10. ASSUME NEW a \in Admins, NEW w \in Withdrawals, BeginReject(a, w) PROVE Goal
  BY <1>10 DEF BeginReject, Decides, LapseIf, Contested
<1>11. ASSUME NEW a \in Admins, ReleaseFunds(a) PROVE Goal
  BY <1>11 DEF ReleaseFunds, Unlocked, Trouble
<1>12. ASSUME NEW a \in Admins, MarkRejected(a) PROVE Goal
  BY <1>12 DEF MarkRejected, Trouble, Lapse
<1>13. ASSUME NEW k \in Workers, ListApproved(k) PROVE Goal
  BY <1>13 DEF ListApproved, At, List, Move, Trouble
<1>14. ASSUME NEW k \in Workers, ListBroadcast(k) PROVE Goal
  BY <1>14 DEF ListBroadcast, At, List, Move, Trouble, ConfirmedStatus
<1>15. ASSUME NEW k \in Workers, EndTick(k) PROVE Goal
  BY <1>15 DEF EndTick, At, Move
<1>16. ASSUME NEW k \in Workers, NEW w \in Withdrawals, LoadApproved(k, w) PROVE Goal
  BY <1>16 DEF LoadApproved, At, Take, Sendable, LapseIf, Move, Trouble
<1>17. ASSUME NEW k \in Workers, NEW w \in Withdrawals, LoadBroadcast(k, w) PROVE Goal
  BY <1>17 DEF LoadBroadcast, At, Take, LapseIf, Move, Trouble
<1>18. ASSUME NEW k \in Workers, Send(k) PROVE Goal
  BY <1>18 DEF Send, At, Move, Trouble
<1>19. ASSUME NEW k \in Workers, SaveHash(k) PROVE Goal
  BY <1>19 DEF SaveHash, At, Move, SaveTx, Trouble, Lapse
<1>20. ASSUME NEW k \in Workers, Finalise(k) PROVE Goal
  BY <1>20 DEF Finalise, At, Move, Unlocked, Debited, Trouble
<1>21. ASSUME NEW k \in Workers, SaveDone(k) PROVE Goal
  BY <1>21 DEF SaveDone, At, Move, SaveTx, Trouble, Lapse
<1>22. CASE UNCHANGED vars
  BY <1>22 DEF vars
<1> QED
  BY <1>1, <1>2, <1>3, <1>4, <1>5, <1>6, <1>7, <1>8, <1>9, <1>10, <1>11, <1>12, <1>13,
     <1>14, <1>15, <1>16, <1>17, <1>18, <1>19, <1>20, <1>21, <1>22 DEF Next,
     GatewayStep, Withdraw, AdminStep, AdminSets, Tick

\* Every step of a handler or a worker keeps the types; the releases need to know
\* that what is released exists.
LEMMA TypeKept == TypeOK /\ Known /\ [Next]_vars => TypeOK'
<1> SUFFICES ASSUME TypeOK, Known, [Next]_vars PROVE TypeOK'
  OBVIOUS
<1>0. lapses' \subseteq Lapses
  BY LapsesKept DEF TypeOK, Lapses
<1> USE WithdrawalAssumption DEF TypeOK, Known, KnownRejections, KnownWork, InWork,
     Statuses, Lapses,
    walletVars, rowVars, memoryVars, reqVars, adminVars, workerVars, faultVars
<1>1. ASSUME NEW g \in Gateways, AddAddress(g) PROVE TypeOK'
  BY <1>1, <1>0 DEF AddAddress
<1>2. ASSUME NEW g \in Gateways, SetLimit(g) PROVE TypeOK'
  BY <1>2, <1>0 DEF SetLimit
<1>3. ASSUME NEW g \in Gateways, RestartGateway(g) PROVE TypeOK'
  BY <1>3, <1>0 DEF RestartGateway, Trouble
<1>4. ASSUME NEW w \in Withdrawals, NEW g \in Gateways, Check(w, g) PROVE TypeOK'
  BY <1>4, <1>0 DEF Check, IsWhitelisted, Within
<1>5. ASSUME NEW w \in Withdrawals, Reserve(w) PROVE TypeOK'
  BY <1>5, <1>0 DEF Reserve, Affordable, Goto, Trouble
<1>6. ASSUME NEW w \in Withdrawals, SaveRequest(w) PROVE TypeOK'
  BY <1>6, <1>0 DEF SaveRequest, FirstStatus, Goto, Trouble
<1>7. ASSUME NEW w \in Withdrawals, Undo(w) PROVE TypeOK'
  BY <1>7, <1>0 DEF Undo, LeftAfterUndo, Unlocked, Goto, Trouble
<1>8. ASSUME NEW w \in Withdrawals, Record(w) PROVE TypeOK'
  BY <1>8, <1>0 DEF Record, Goto
<1>9. ASSUME NEW w \in Withdrawals, ApproveWithdrawal(w) PROVE TypeOK'
  BY <1>9, <1>0 DEF ApproveWithdrawal, Decides, Trouble
<1>10. ASSUME NEW a \in Admins, NEW w \in Withdrawals, BeginReject(a, w) PROVE TypeOK'
  BY <1>10, <1>0 DEF BeginReject, Decides
<1>11. ASSUME NEW a \in Admins, ReleaseFunds(a) PROVE TypeOK'
  BY <1>11, <1>0 DEF ReleaseFunds, Unlocked, Trouble
<1>12. ASSUME NEW a \in Admins, MarkRejected(a) PROVE TypeOK'
  BY <1>12, <1>0 DEF MarkRejected, Trouble
<1>13. ASSUME NEW k \in Workers, ListApproved(k) PROVE TypeOK'
  BY <1>13, <1>0 DEF ListApproved, At, List, Move, Trouble
<1>14. ASSUME NEW k \in Workers, ListBroadcast(k) PROVE TypeOK'
  BY <1>14, <1>0 DEF ListBroadcast, At, List, Move, Trouble, ConfirmedStatus
<1>15. ASSUME NEW k \in Workers, EndTick(k) PROVE TypeOK'
  BY <1>15, <1>0 DEF EndTick, At, Move
<1>16. ASSUME NEW k \in Workers, NEW w \in Withdrawals, LoadApproved(k, w) PROVE TypeOK'
  <2>1. Take(k, w, Sendable(w), "send")
    BY <1>16 DEF LoadApproved
  <2>2. todo' \in [Workers -> SUBSET Withdrawals]
    BY <2>1 DEF Take
  <2>3. /\ wpc' \in [Workers -> {"idle", "broadcast", "send", "saveHash", "confirm", "finalise", "saveDone"}]
        /\ cur' \in [Workers -> Withdrawals \cup {NoWithdrawal}]
    BY <2>1 DEF Take, Move, LapseIf
  <2>4. trouble' \in 0..MaxTrouble
    BY <2>1 DEF Take, Trouble, LapseIf, faultVars
  <2>5. UNCHANGED <<store, walletVars, rowVars, memoryVars, reqVars, adminVars, sent>>
    BY <2>1 DEF Take
  <2> QED  BY <1>0, <2>2, <2>3, <2>4, <2>5 
<1>17. ASSUME NEW k \in Workers, NEW w \in Withdrawals, LoadBroadcast(k, w) PROVE TypeOK'
  <2>1. Take(k, w, status[w] = "Broadcast", "finalise")
    BY <1>17 DEF LoadBroadcast
  <2>2. todo' \in [Workers -> SUBSET Withdrawals]
    BY <2>1 DEF Take
  <2>3. /\ wpc' \in [Workers -> {"idle", "broadcast", "send", "saveHash", "confirm", "finalise", "saveDone"}]
        /\ cur' \in [Workers -> Withdrawals \cup {NoWithdrawal}]
    BY <2>1 DEF Take, Move, LapseIf
  <2>4. trouble' \in 0..MaxTrouble
    BY <2>1 DEF Take, Trouble, LapseIf, faultVars
  <2>5. UNCHANGED <<store, walletVars, rowVars, memoryVars, reqVars, adminVars, sent>>
    BY <2>1 DEF Take
  <2> QED  BY <1>0, <2>2, <2>3, <2>4, <2>5 
<1>18. ASSUME NEW k \in Workers, Send(k) PROVE TypeOK'
  BY <1>18, <1>0 DEF Send, At, Move, Trouble
<1>19. ASSUME NEW k \in Workers, SaveHash(k) PROVE TypeOK'
  <2>0. \/ status' = [status EXCEPT ![cur[k]] = "Broadcast"] /\ hash' = [hash EXCEPT ![cur[k]] = TRUE]
        \/ UNCHANGED <<status, hash>>
    BY <1>19 DEF SaveHash, SaveTx, rowVars
  <2>1. status' \in [Withdrawals -> Statuses] /\ hash' \in [Withdrawals -> BOOLEAN]
    <3>1. status \in [Withdrawals -> Statuses] /\ hash \in [Withdrawals -> BOOLEAN] /\ "Broadcast" \in Statuses
      OBVIOUS
    <3> QED  BY ONLY <2>0, <3>1
  <2>2. trouble' \in 0..MaxTrouble
    BY <1>19 DEF SaveHash, SaveTx, Trouble, faultVars
  <2>3. /\ wpc' \in [Workers -> {"idle", "broadcast", "send", "saveHash", "confirm", "finalise", "saveDone"}]
        /\ cur' \in [Workers -> Withdrawals \cup {NoWithdrawal}]
    BY <1>19 DEF SaveHash, Move
  <2>4. UNCHANGED <<store, walletVars, memoryVars, reqVars, adminVars, todo, sent>>
    BY <1>19 DEF SaveHash
  <2> QED  BY <1>0, <2>1, <2>2, <2>3, <2>4 
<1>20. ASSUME NEW k \in Workers, Finalise(k) PROVE TypeOK'
  BY <1>20, <1>0 DEF Finalise, At, Move, Unlocked, Debited, Trouble
<1>21. ASSUME NEW k \in Workers, SaveDone(k) PROVE TypeOK'
  <2>0. \/ status' = [status EXCEPT ![cur[k]] = "Completed"] /\ hash' = [hash EXCEPT ![cur[k]] = TRUE]
        \/ UNCHANGED <<status, hash>>
    BY <1>21 DEF SaveDone, SaveTx, rowVars
  <2>1. status' \in [Withdrawals -> Statuses] /\ hash' \in [Withdrawals -> BOOLEAN]
    <3>1. status \in [Withdrawals -> Statuses] /\ hash \in [Withdrawals -> BOOLEAN] /\ "Completed" \in Statuses
      OBVIOUS
    <3> QED  BY ONLY <2>0, <3>1
  <2>2. trouble' \in 0..MaxTrouble
    BY <1>21 DEF SaveDone, SaveTx, Trouble, faultVars
  <2>3. /\ wpc' \in [Workers -> {"idle", "broadcast", "send", "saveHash", "confirm", "finalise", "saveDone"}]
        /\ cur' \in [Workers -> Withdrawals \cup {NoWithdrawal}]
    BY <1>21 DEF SaveDone, Move
  <2>4. UNCHANGED <<store, walletVars, memoryVars, reqVars, adminVars, todo, sent>>
    BY <1>21 DEF SaveDone
  <2> QED  BY <1>0, <2>1, <2>2, <2>3, <2>4 
<1>22. CASE UNCHANGED vars
  BY <1>22 DEF vars
<1> QED
  BY <1>1, <1>2, <1>3, <1>4, <1>5, <1>6, <1>7, <1>8, <1>9, <1>10, <1>11, <1>12, <1>13,
     <1>14, <1>15, <1>16, <1>17, <1>18, <1>19, <1>20, <1>21, <1>22 DEF Next,
     GatewayStep, Withdraw, AdminStep, AdminSets, Tick

\* Every step keeps what is known of rows, rejections and work in progress.
LEMMA KnownKept == TypeOK /\ Known /\ [Next]_vars => Known'
<1> SUFFICES ASSUME TypeOK, Known, [Next]_vars PROVE Known'
  OBVIOUS
<1> USE WithdrawalAssumption DEF TypeOK, Known, RequestFirst, KnownRejections, KnownWork,
     InWork, Undecided, Statuses,
    walletVars, rowVars, memoryVars, reqVars, adminVars, workerVars, faultVars
<1>1. ASSUME NEW g \in Gateways, AddAddress(g) PROVE Known'
  BY <1>1 DEF AddAddress
<1>2. ASSUME NEW g \in Gateways, SetLimit(g) PROVE Known'
  BY <1>2 DEF SetLimit
<1>3. ASSUME NEW g \in Gateways, RestartGateway(g) PROVE Known'
  BY <1>3 DEF RestartGateway, Trouble
<1>4. ASSUME NEW w \in Withdrawals, NEW g \in Gateways, Check(w, g) PROVE Known'
  BY <1>4 DEF Check, IsWhitelisted, Within, InProgress
<1>5. ASSUME NEW w \in Withdrawals, Reserve(w) PROVE Known'
  BY <1>5 DEF Reserve, Affordable, Goto, Trouble, Lapse
<1>6. ASSUME NEW w \in Withdrawals, SaveRequest(w) PROVE Known'
  BY <1>6 DEF SaveRequest, FirstStatus, Goto, Trouble
<1>7. ASSUME NEW w \in Withdrawals, Undo(w) PROVE Known'
  BY <1>7 DEF Undo, LeftAfterUndo, Unlocked, Goto, Trouble, Lapse
<1>8. ASSUME NEW w \in Withdrawals, Record(w) PROVE Known'
  BY <1>8 DEF Record, Goto
<1>9. ASSUME NEW w \in Withdrawals, ApproveWithdrawal(w) PROVE Known'
  BY <1>9 DEF ApproveWithdrawal, Decides, LapseIf, Contested, Trouble
<1>10. ASSUME NEW a \in Admins, NEW w \in Withdrawals, BeginReject(a, w) PROVE Known'
  BY <1>10 DEF BeginReject, Decides, LapseIf, Contested
<1>11. ASSUME NEW a \in Admins, ReleaseFunds(a) PROVE Known'
  BY <1>11 DEF ReleaseFunds, Unlocked, Trouble
<1>12. ASSUME NEW a \in Admins, MarkRejected(a) PROVE Known'
  BY <1>12 DEF MarkRejected, Trouble, Lapse
<1>13. ASSUME NEW k \in Workers, ListApproved(k) PROVE Known'
  BY <1>13 DEF ListApproved, At, List, Move, Trouble
<1>14. ASSUME NEW k \in Workers, ListBroadcast(k) PROVE Known'
  BY <1>14 DEF ListBroadcast, At, List, Move, Trouble, ConfirmedStatus
<1>15. ASSUME NEW k \in Workers, EndTick(k) PROVE Known'
  BY <1>15 DEF EndTick, At, Move
<1>16. ASSUME NEW k \in Workers, NEW w \in Withdrawals, LoadApproved(k, w) PROVE Known'
  BY <1>16 DEF LoadApproved, At, Take, Sendable, LapseIf, Move, Trouble
<1>17. ASSUME NEW k \in Workers, NEW w \in Withdrawals, LoadBroadcast(k, w) PROVE Known'
  BY <1>17 DEF LoadBroadcast, At, Take, LapseIf, Move, Trouble
<1>18. ASSUME NEW k \in Workers, Send(k) PROVE Known'
  BY <1>18 DEF Send, At, Move, Trouble
<1>19. ASSUME NEW k \in Workers, SaveHash(k) PROVE Known'
  BY <1>19 DEF SaveHash, At, Move, SaveTx, Trouble, Lapse
<1>20. ASSUME NEW k \in Workers, Finalise(k) PROVE Known'
  BY <1>20 DEF Finalise, At, Move, Unlocked, Debited, Trouble
<1>21. ASSUME NEW k \in Workers, SaveDone(k) PROVE Known'
  BY <1>21 DEF SaveDone, At, Move, SaveTx, Trouble, Lapse
<1>22. CASE UNCHANGED vars
  BY <1>22 DEF vars
<1> QED
  BY <1>1, <1>2, <1>3, <1>4, <1>5, <1>6, <1>7, <1>8, <1>9, <1>10, <1>11, <1>12, <1>13,
     <1>14, <1>15, <1>16, <1>17, <1>18, <1>19, <1>20, <1>21, <1>22 DEF Next,
     GatewayStep, Withdraw, AdminStep, AdminSets, Tick

-------------------------------------------------------------------------------
(* While no mark was lost, no decision contested and no row taken twice, a   *)
(* row that somebody has in hand is in the status in which he found it, and  *)
(* nobody else has it in hand.                                               *)
Clean == Without({"mark", "contested", "race"})

OneActor ==
    /\ \A a \in Admins : apc[a] # "idle" => status[rejecting[a]] \in Undecided
    /\ \A a, b \in Admins : rejecting[a] = rejecting[b] /\ rejecting[a] # NoWithdrawal => a = b
    /\ \A k \in Workers : wpc[k] \in {"send", "saveHash"} => status[cur[k]] = "Approved"
    /\ \A k \in Workers : wpc[k] \in {"finalise", "saveDone"} => status[cur[k]] = "Broadcast"
    /\ \A j, k \in Workers : cur[j] = cur[k] /\ cur[j] # NoWithdrawal => j = k

\* What has not gone wrong after a step had not gone wrong before it.
LEMMA CleanBefore ==
    ASSUME TypeOK, [Next]_vars, Clean'
    PROVE  /\ Clean
           /\ "mark" \notin lapses' /\ "contested" \notin lapses' /\ "race" \notin lapses'
<1>1. lapses \subseteq lapses'
  BY LapsesKept DEF TypeOK, Lapses
<1> QED  BY <1>1 DEF Clean, Without

\* A row in hand keeps its status and its one holder (RejectWithdrawal, runOnChainWorker).
LEMMA OneActorKept ==
    ASSUME TypeOK, Known, OneActor, [Next]_vars, Clean'
    PROVE  OneActor'
<1>0. "mark" \notin lapses' /\ "contested" \notin lapses' /\ "race" \notin lapses'
  BY CleanBefore
<1> USE WithdrawalAssumption DEF TypeOK, Known, RequestFirst, KnownRejections, KnownWork,
     InWork, Undecided, OneActor,
    walletVars, rowVars, memoryVars, reqVars, adminVars, workerVars, faultVars
<1>1. ASSUME NEW g \in Gateways, AddAddress(g) PROVE OneActor'
  BY <1>1, <1>0 DEF AddAddress
<1>2. ASSUME NEW g \in Gateways, SetLimit(g) PROVE OneActor'
  BY <1>2, <1>0 DEF SetLimit
<1>3. ASSUME NEW g \in Gateways, RestartGateway(g) PROVE OneActor'
  BY <1>3, <1>0 DEF RestartGateway, Trouble
<1>4. ASSUME NEW w \in Withdrawals, NEW g \in Gateways, Check(w, g) PROVE OneActor'
  BY <1>4, <1>0 DEF Check, IsWhitelisted, Within, InProgress
<1>5. ASSUME NEW w \in Withdrawals, Reserve(w) PROVE OneActor'
  BY <1>5, <1>0 DEF Reserve, Affordable, Goto, Trouble, Lapse
<1>6. ASSUME NEW w \in Withdrawals, SaveRequest(w) PROVE OneActor'
  BY <1>6, <1>0 DEF SaveRequest, FirstStatus, Goto, Trouble
<1>7. ASSUME NEW w \in Withdrawals, Undo(w) PROVE OneActor'
  BY <1>7, <1>0 DEF Undo, LeftAfterUndo, Unlocked, Goto, Trouble, Lapse
<1>8. ASSUME NEW w \in Withdrawals, Record(w) PROVE OneActor'
  BY <1>8, <1>0 DEF Record, Goto
<1>9. ASSUME NEW w \in Withdrawals, ApproveWithdrawal(w) PROVE OneActor'
  BY <1>9, <1>0 DEF ApproveWithdrawal, Decides, LapseIf, Contested, Trouble
<1>10. ASSUME NEW a \in Admins, NEW w \in Withdrawals, BeginReject(a, w) PROVE OneActor'
  BY <1>10, <1>0 DEF BeginReject, Decides, LapseIf, Contested
<1>11. ASSUME NEW a \in Admins, ReleaseFunds(a) PROVE OneActor'
  BY <1>11, <1>0 DEF ReleaseFunds, Unlocked, Trouble
<1>12. ASSUME NEW a \in Admins, MarkRejected(a) PROVE OneActor'
  BY <1>12, <1>0 DEF MarkRejected, Trouble, Lapse
<1>13. ASSUME NEW k \in Workers, ListApproved(k) PROVE OneActor'
  BY <1>13, <1>0 DEF ListApproved, At, List, Move, Trouble
<1>14. ASSUME NEW k \in Workers, ListBroadcast(k) PROVE OneActor'
  BY <1>14, <1>0 DEF ListBroadcast, At, List, Move, Trouble, ConfirmedStatus
<1>15. ASSUME NEW k \in Workers, EndTick(k) PROVE OneActor'
  BY <1>15, <1>0 DEF EndTick, At, Move
<1>16. ASSUME NEW k \in Workers, NEW w \in Withdrawals, LoadApproved(k, w) PROVE OneActor'
  <2>1. UNCHANGED <<status, rejecting, apc>>
    BY <1>16 DEF LoadApproved, Take
  <2>2. CASE UNCHANGED <<wpc, cur>>
    BY <2>1, <2>2
  <2>3. CASE /\ wpc' = [wpc EXCEPT ![k] = "send"] /\ cur' = [cur EXCEPT ![k] = w]
             /\ status[w] = "Approved" /\ \A j \in Workers : cur[j] # w
    BY <2>1, <2>3
  <2> QED  BY <1>16, <1>0, <2>2, <2>3 DEF LoadApproved, Take, Sendable, LapseIf, Move
<1>17. ASSUME NEW k \in Workers, NEW w \in Withdrawals, LoadBroadcast(k, w) PROVE OneActor'
  <2>1. UNCHANGED <<status, rejecting, apc>>
    BY <1>17 DEF LoadBroadcast, Take
  <2>2. CASE UNCHANGED <<wpc, cur>>
    BY <2>1, <2>2
  <2>3. CASE /\ wpc' = [wpc EXCEPT ![k] = "finalise"] /\ cur' = [cur EXCEPT ![k] = w]
             /\ status[w] = "Broadcast" /\ \A j \in Workers : cur[j] # w
    BY <2>1, <2>3
  <2> QED  BY <1>17, <1>0, <2>2, <2>3 DEF LoadBroadcast, Take, LapseIf, Move
<1>18. ASSUME NEW k \in Workers, Send(k) PROVE OneActor'
  BY <1>18, <1>0 DEF Send, At, Move, Trouble
<1>19. ASSUME NEW k \in Workers, SaveHash(k) PROVE OneActor'
  BY <1>19, <1>0 DEF SaveHash, At, Move, SaveTx, Trouble, Lapse
<1>20. ASSUME NEW k \in Workers, Finalise(k) PROVE OneActor'
  BY <1>20, <1>0 DEF Finalise, At, Move, Unlocked, Debited, Trouble
<1>21. ASSUME NEW k \in Workers, SaveDone(k) PROVE OneActor'
  BY <1>21, <1>0 DEF SaveDone, At, Move, SaveTx, Trouble, Lapse
<1>22. CASE UNCHANGED vars
  BY <1>22 DEF vars
<1> QED
  BY <1>1, <1>2, <1>3, <1>4, <1>5, <1>6, <1>7, <1>8, <1>9, <1>10, <1>11, <1>12, <1>13,
     <1>14, <1>15, <1>16, <1>17, <1>18, <1>19, <1>20, <1>21, <1>22 DEF Next,
     GatewayStep, Withdraw, AdminStep, AdminSets, Tick

\* Totals of amounts: one more, one less, and fewer.
LEMMA TotalFacts ==
    ASSUME NEW S \in SUBSET Withdrawals
    PROVE  /\ Total(S) \in Nat
           /\ \A w \in Withdrawals \ S : Total(S \cup {w}) = Total(S) + Amount[w]
           /\ \A w \in S : Total(S) = Total(S \ {w}) + Amount[w] /\ Total(S \ {w}) \in Nat
           /\ \A T \in SUBSET S : Total(T) \in Nat /\ Total(T) <= Total(S)
<1> USE WithdrawalAssumption
<1>1. \A T \in SUBSET Withdrawals : IsFiniteSet(T) /\ \A w \in T : Amount[w] \in Nat /\ Amount[w] \in Int
  BY FS_Subset
<1>2. \A T \in SUBSET Withdrawals : Total(T) \in Nat
  BY <1>1, SumOfNaturals DEF Total
<1>3. ASSUME NEW w \in Withdrawals \ S PROVE Total(S \cup {w}) = Total(S) + Amount[w]
  <2>1. w \notin S /\ \A x \in S \cup {w} : Amount[x] \in Int
    BY <1>1
  <2>2. Total(S \cup {w}) = Amount[w] + Total(S)
    BY <1>1, <2>1, SumAdd DEF Total
  <2> QED  BY <1>2, <2>2
<1>4. ASSUME NEW w \in S PROVE Total(S) = Total(S \ {w}) + Amount[w] /\ Total(S \ {w}) \in Nat
  <2>1. Total(S) = Amount[w] + Total(S \ {w})
    BY <1>1, SumRemove DEF Total
  <2>2. Total(S \ {w}) \in Nat
    BY <1>2
  <2> QED  BY <2>1, <2>2
<1>5. ASSUME NEW T \in SUBSET S PROVE Total(T) \in Nat /\ Total(T) <= Total(S)
  BY <1>1, <1>2, SumOfFewer DEF Total
<1> QED  BY <1>2, <1>3, <1>4, <1>5

-------------------------------------------------------------------------------
(* The reservation: a step leaves the open withdrawals and the lock as they  *)
(* are, adds or removes one withdrawal and its amount, or leaves a lock      *)
(* behind and records that.                                                  *)
Covered == locked >= Total(Open) /\ (Without({"lock"}) => locked = Total(Open))

\* Every step keeps the open withdrawals covered by what is locked.
LEMMA CoveredKept ==
    ASSUME TypeOK, Known, OneActor, Covered, [Next]_vars, Clean'
    PROVE  Covered'
<1>0. "mark" \notin lapses' /\ "contested" \notin lapses' /\ "race" \notin lapses'
  BY CleanBefore
<1>1. /\ Open \in SUBSET Withdrawals /\ Open' \in SUBSET Withdrawals
      /\ locked \in Nat /\ Amount \in [Withdrawals -> Nat]
      /\ "lock" \in lapses => "lock" \in lapses'
  <2>1. lapses \subseteq lapses'
    BY LapsesKept DEF TypeOK, Lapses
  <2> QED  BY <2>1, WithdrawalAssumption DEF Open, TypeOK
<1>2. ASSUME Open' = Open, locked' = locked PROVE Covered'
  BY <1>1, <1>2 DEF Covered, Without, Total
<1>3. ASSUME NEW w \in Withdrawals \ Open, Open' = Open \cup {w}, locked' = locked + Amount[w]
      PROVE  Covered'
  <2>1. Total(Open') = Total(Open) + Amount[w] /\ Total(Open) \in Nat
    BY <1>1, <1>3, TotalFacts
  <2> QED  BY <1>1, <1>3, <2>1 DEF Covered, Without, Total
<1>4. ASSUME NEW w \in Open, Open' = Open \ {w}, locked' = Unlocked(w) PROVE Covered'
  <2>1. Total(Open) = Total(Open') + Amount[w] /\ Total(Open') \in Nat
    BY <1>1, <1>4, TotalFacts
  <2> QED  BY <1>1, <1>4, <2>1 DEF Covered, Without, Unlocked, Total
<1>5. ASSUME Open' \subseteq Open, locked' \in Nat, locked' >= locked, "lock" \in lapses' PROVE Covered'
  <2>1. Total(Open') <= Total(Open) /\ Total(Open') \in Nat /\ Total(Open) \in Nat
    BY <1>1, <1>5, TotalFacts
  <2> QED  BY <1>1, <1>5, <2>1 DEF Covered, Without, Total
<1> USE WithdrawalAssumption DEF TypeOK, Known, RequestFirst, KnownRejections, KnownWork,
     InWork, Undecided, OneActor, Open,
    walletVars, rowVars, memoryVars, reqVars, adminVars, workerVars, faultVars
<1>6. ASSUME NEW g \in Gateways, AddAddress(g) PROVE Covered'
  <2>1. Open' = Open /\ locked' = locked
    BY <1>6, <1>0 DEF AddAddress
  <2> QED  BY <1>2, <2>1
<1>7. ASSUME NEW g \in Gateways, SetLimit(g) PROVE Covered'
  <2>1. Open' = Open /\ locked' = locked
    BY <1>7, <1>0 DEF SetLimit
  <2> QED  BY <1>2, <2>1
<1>8. ASSUME NEW g \in Gateways, RestartGateway(g) PROVE Covered'
  <2>1. CASE \E w \in Withdrawals : gate[w] = g /\ req[w] \in {"reserved", "undo"}
    <3>1. Open' \subseteq Open /\ locked' = locked /\ "lock" \in lapses'
      BY <1>8, <2>1 DEF RestartGateway
    <3> QED  BY <1>5, <3>1
  <2>2. CASE ~ \E w \in Withdrawals : gate[w] = g /\ req[w] \in {"reserved", "undo"}
    <3>1. Open' = Open /\ locked' = locked
      BY <1>8, <2>2 DEF RestartGateway
    <3> QED  BY <1>2, <3>1
  <2> QED  BY <2>1, <2>2
<1>9. ASSUME NEW w \in Withdrawals, NEW g \in Gateways, Check(w, g) PROVE Covered'
  <2>1. Open' = Open /\ locked' = locked
    BY <1>9, <1>0 DEF Check, IsWhitelisted, Within, InProgress
  <2> QED  BY <1>2, <2>1
<1>10. ASSUME NEW w \in Withdrawals, Reserve(w) PROVE Covered'
  <2>1. CASE req' = [req EXCEPT ![w] = "reserved"]
    <3>1. w \in Withdrawals \ Open /\ Open' = Open \cup {w} /\ locked' = locked + Amount[w]
      BY <1>10, <2>1 DEF Reserve, Goto
    <3> QED  BY <1>3, <3>1
  <2>2. CASE req' = [req EXCEPT ![w] = "failed"]
    <3>1. Open' = Open
      BY <1>10, <2>2 DEF Reserve, Goto
    <3>2. CASE locked' = locked
      BY <1>2, <3>1, <3>2
    <3>3. CASE locked' = locked + Amount[w] /\ "lock" \in lapses'
      BY <1>5, <3>1, <3>3
    <3> QED  BY <1>10, <2>2, <3>2, <3>3 DEF Reserve, Goto, Lapse, faultVars
  <2> QED  BY <1>10, <2>1, <2>2 DEF Reserve, Goto
<1>11. ASSUME NEW w \in Withdrawals, SaveRequest(w) PROVE Covered'
  <2>1. Open' = Open /\ locked' = locked
    BY <1>11, <1>0 DEF SaveRequest, FirstStatus, Goto, Trouble
  <2> QED  BY <1>2, <2>1
<1>12. ASSUME NEW w \in Withdrawals, Undo(w) PROVE Covered'
  <2>1. w \in Open /\ Open' = Open \ {w}
    BY <1>12 DEF Undo, Goto
  <2>2. CASE locked' = Unlocked(w)
    BY <1>4, <2>1, <2>2
  <2>3. CASE locked' = locked /\ "lock" \in lapses'
    BY <1>5, <2>1, <2>3
  <2> QED  BY <1>12, <2>2, <2>3 DEF Undo, LeftAfterUndo, Lapse
<1>13. ASSUME NEW w \in Withdrawals, Record(w) PROVE Covered'
  <2>1. Open' = Open /\ locked' = locked
    BY <1>13, <1>0 DEF Record, Goto
  <2> QED  BY <1>2, <2>1
<1>14. ASSUME NEW w \in Withdrawals, ApproveWithdrawal(w) PROVE Covered'
  <2>1. Open' = Open /\ locked' = locked
    BY <1>14, <1>0 DEF ApproveWithdrawal, Decides, LapseIf, Contested, Trouble
  <2> QED  BY <1>2, <2>1
<1>15. ASSUME NEW a \in Admins, NEW w \in Withdrawals, BeginReject(a, w) PROVE Covered'
  <2>1. Open' = Open /\ locked' = locked
    BY <1>15, <1>0 DEF BeginReject, Decides, LapseIf, Contested
  <2> QED  BY <1>2, <2>1
<1>16. ASSUME NEW a \in Admins, ReleaseFunds(a) PROVE Covered'
  <2>1. CASE locked' = Unlocked(rejecting[a]) /\ apc' = [apc EXCEPT ![a] = "mark"]
    <3>1. rejecting[a] \in Open
      BY <1>16 DEF ReleaseFunds
    <3>2. UNCHANGED <<req, status, wpc, cur>> /\ rejecting' = rejecting
      BY <1>16, <2>1 DEF ReleaseFunds
    <3>3. Open' = Open \ {rejecting[a]}
      BY <1>16, <2>1, <3>1, <3>2
    <3> QED  BY <1>4, <2>1, <3>1, <3>3
  <2>2. CASE locked' = locked /\ apc' = [apc EXCEPT ![a] = "idle"] /\ rejecting' = [rejecting EXCEPT ![a] = NoWithdrawal]
    <3>1. UNCHANGED <<req, status, wpc, cur>> /\ apc[a] = "release"
      BY <1>16 DEF ReleaseFunds
    <3>2. Open' = Open
      BY <2>2, <3>1
    <3> QED  BY <1>2, <2>2, <3>2
  <2> QED  BY <1>16, <2>1, <2>2 DEF ReleaseFunds
<1>17. ASSUME NEW a \in Admins, MarkRejected(a) PROVE Covered'
  <2>1. Open' = Open /\ locked' = locked
    BY <1>17, <1>0 DEF MarkRejected, Trouble, Lapse
  <2> QED  BY <1>2, <2>1
<1>18. ASSUME NEW k \in Workers, ListApproved(k) PROVE Covered'
  <2>1. Open' = Open /\ locked' = locked
    BY <1>18, <1>0 DEF ListApproved, At, List, Move, Trouble
  <2> QED  BY <1>2, <2>1
<1>19. ASSUME NEW k \in Workers, ListBroadcast(k) PROVE Covered'
  <2>1. Open' = Open /\ locked' = locked
    BY <1>19, <1>0 DEF ListBroadcast, At, List, Move, Trouble, ConfirmedStatus
  <2> QED  BY <1>2, <2>1
<1>20. ASSUME NEW k \in Workers, EndTick(k) PROVE Covered'
  <2>1. Open' = Open /\ locked' = locked
    BY <1>20, <1>0 DEF EndTick, At, Move
  <2> QED  BY <1>2, <2>1
<1>21. ASSUME NEW k \in Workers, NEW w \in Withdrawals, LoadApproved(k, w) PROVE Covered'
  <2>1. Open' = Open /\ locked' = locked
    BY <1>21, <1>0 DEF LoadApproved, At, Take, Sendable, LapseIf, Move, Trouble
  <2> QED  BY <1>2, <2>1
<1>22. ASSUME NEW k \in Workers, NEW w \in Withdrawals, LoadBroadcast(k, w) PROVE Covered'
  <2>1. Open' = Open /\ locked' = locked
    BY <1>22, <1>0 DEF LoadBroadcast, At, Take, LapseIf, Move, Trouble
  <2> QED  BY <1>2, <2>1
<1>23. ASSUME NEW k \in Workers, Send(k) PROVE Covered'
  <2>1. Open' = Open /\ locked' = locked
    BY <1>23, <1>0 DEF Send, At, Move, Trouble
  <2> QED  BY <1>2, <2>1
<1>24. ASSUME NEW k \in Workers, SaveHash(k) PROVE Covered'
  <2>1. Open' = Open /\ locked' = locked
    BY <1>24, <1>0 DEF SaveHash, At, Move, SaveTx, Trouble, Lapse
  <2> QED  BY <1>2, <2>1
<1>25. ASSUME NEW k \in Workers, Finalise(k) PROVE Covered'
  <2>1. CASE locked' = Unlocked(cur[k]) /\ Move(k, "saveDone", cur[k])
    <3>1. cur[k] \in Open /\ UNCHANGED <<req, status, apc, rejecting>>
      BY <1>25 DEF Finalise, At
    <3>2. wpc' = [wpc EXCEPT ![k] = "saveDone"] /\ cur' = cur /\ wpc[k] = "finalise"
      BY <1>25, <2>1 DEF Move, Finalise, At
    <3>3. Open' = Open \ {cur[k]}
      BY <3>1, <3>2
    <3> QED  BY <1>4, <2>1, <3>1, <3>3
  <2>2. CASE locked' = locked /\ Move(k, "confirm", NoWithdrawal)
    <3>1. UNCHANGED <<req, status, apc, rejecting>> /\ wpc[k] = "finalise"
      BY <1>25 DEF Finalise, At
    <3>2. wpc' = [wpc EXCEPT ![k] = "confirm"] /\ cur' = [cur EXCEPT ![k] = NoWithdrawal]
      BY <2>2 DEF Move
    <3>3. Open' = Open
      BY <3>1, <3>2
    <3> QED  BY <1>2, <2>2, <3>3
  <2> QED  BY <1>25, <2>1, <2>2 DEF Finalise, walletVars
<1>26. ASSUME NEW k \in Workers, SaveDone(k) PROVE Covered'
  <2>1. Open' = Open /\ locked' = locked
    BY <1>26, <1>0 DEF SaveDone, At, Move, SaveTx, Trouble, Lapse
  <2> QED  BY <1>2, <2>1
<1>27. CASE UNCHANGED vars
  BY <1>27 DEF vars, Covered, Without, Total
<1> QED
  BY <1>6, <1>7, <1>8, <1>9, <1>10, <1>11, <1>12, <1>13, <1>14, <1>15, <1>16, <1>17,
     <1>18, <1>19, <1>20, <1>21, <1>22, <1>23, <1>24, <1>25, <1>26, <1>27 DEF Next,
     GatewayStep, Withdraw, AdminStep, AdminSets, Tick

-------------------------------------------------------------------------------
(* The balance: what has left it is the withdrawals that are completed, or   *)
(* about to be.                                                              *)
Completed ==
    {w \in Withdrawals :
        \/ status[w] = "Completed"
        \/ \E k \in Workers : wpc[k] = "saveDone" /\ cur[k] = w}

BalanceExplained == locked <= balance /\ balance = Opening - Total(Completed)

\* Only a confirmation changes the balance, and what it debits was locked.
LEMMA BalanceKept ==
    ASSUME TypeOK, Known, OneActor, Covered, BalanceExplained, [Next]_vars, Clean'
    PROVE  BalanceExplained'
<1>0. "mark" \notin lapses' /\ "contested" \notin lapses' /\ "race" \notin lapses'
  BY CleanBefore
<1>1. /\ Completed \in SUBSET Withdrawals /\ Open \in SUBSET Withdrawals
      /\ locked \in Nat /\ balance \in Int /\ Amount \in [Withdrawals -> Nat] /\ Opening \in Nat
      /\ Total(Completed) \in Nat
  <2>1. Completed \in SUBSET Withdrawals /\ Open \in SUBSET Withdrawals
    BY DEF Completed, Open
  <2> QED  BY <2>1, TotalFacts, WithdrawalAssumption DEF TypeOK
<1>2. ASSUME Completed' = Completed, balance' = balance, locked' <= locked \/ locked' <= balance
      PROVE  BalanceExplained'
  <2>0. TypeOK'
    BY TypeKept
  <2>1. locked' \in Nat
    BY <2>0 DEF TypeOK
  <2> QED  BY <1>1, <1>2, <2>1 DEF BalanceExplained, Total
<1>3. ASSUME NEW w \in Withdrawals \ Completed, w \in Open, Completed' = Completed \cup {w},
             locked' = Unlocked(w), balance' = Debited(w)
      PROVE  BalanceExplained'
  <2>1. Total(Completed') = Total(Completed) + Amount[w]
    BY <1>1, <1>3, TotalFacts
  <2>2. Total(Open) = Total(Open \ {w}) + Amount[w] /\ Total(Open \ {w}) \in Nat
    BY <1>1, <1>3, TotalFacts
  <2>3. locked >= Amount[w]
    BY <1>1, <2>2 DEF Covered
  <2> QED  BY <1>1, <1>3, <2>1, <2>3 DEF BalanceExplained, Unlocked, Debited, Total
<1> USE WithdrawalAssumption DEF TypeOK, Known, RequestFirst, KnownRejections, KnownWork,
     InWork, Undecided, OneActor, Completed,
    walletVars, rowVars, memoryVars, reqVars, adminVars, workerVars, faultVars
<1>4. ASSUME NEW g \in Gateways, AddAddress(g) PROVE BalanceExplained'
  <2>1. Completed' = Completed /\ balance' = balance /\ locked' = locked
    BY <1>4, <1>0 DEF AddAddress
  <2> QED  BY <1>2, <2>1
<1>5. ASSUME NEW g \in Gateways, SetLimit(g) PROVE BalanceExplained'
  <2>1. Completed' = Completed /\ balance' = balance /\ locked' = locked
    BY <1>5, <1>0 DEF SetLimit
  <2> QED  BY <1>2, <2>1
<1>6. ASSUME NEW g \in Gateways, RestartGateway(g) PROVE BalanceExplained'
  <2>1. Completed' = Completed /\ balance' = balance /\ locked' = locked
    BY <1>6, <1>0 DEF RestartGateway, Trouble
  <2> QED  BY <1>2, <2>1
<1>7. ASSUME NEW w \in Withdrawals, NEW g \in Gateways, Check(w, g) PROVE BalanceExplained'
  <2>1. Completed' = Completed /\ balance' = balance /\ locked' = locked
    BY <1>7, <1>0 DEF Check, IsWhitelisted, Within, InProgress
  <2> QED  BY <1>2, <2>1
<1>8. ASSUME NEW w \in Withdrawals, Reserve(w) PROVE BalanceExplained'
  <2>1. Completed' = Completed /\ balance' = balance
    BY <1>8 DEF Reserve
  <2>2. locked' = locked \/ (locked' = locked + Amount[w] /\ locked' <= balance)
    BY <1>8 DEF Reserve, Affordable
  <2> QED  BY <1>2, <2>1, <2>2
<1>9. ASSUME NEW w \in Withdrawals, SaveRequest(w) PROVE BalanceExplained'
  <2>1. Completed' = Completed /\ balance' = balance /\ locked' = locked
    BY <1>9, <1>0 DEF SaveRequest, FirstStatus, Goto, Trouble
  <2> QED  BY <1>2, <2>1
<1>10. ASSUME NEW w \in Withdrawals, Undo(w) PROVE BalanceExplained'
  <2>1. Completed' = Completed /\ balance' = balance
    BY <1>10 DEF Undo
  <2>2. locked' = locked \/ locked' = Unlocked(w)
    BY <1>10 DEF Undo, LeftAfterUndo
  <2>3. w \in Withdrawals
    BY <1>10 DEF Undo
  <2>4. locked' <= locked
    BY <1>1, <2>2, <2>3 DEF Unlocked
  <2> QED  BY <1>2, <2>1, <2>4
<1>11. ASSUME NEW w \in Withdrawals, Record(w) PROVE BalanceExplained'
  <2>1. Completed' = Completed /\ balance' = balance /\ locked' = locked
    BY <1>11, <1>0 DEF Record, Goto
  <2> QED  BY <1>2, <2>1
<1>12. ASSUME NEW w \in Withdrawals, ApproveWithdrawal(w) PROVE BalanceExplained'
  <2>1. Completed' = Completed /\ balance' = balance /\ locked' = locked
    BY <1>12, <1>0 DEF ApproveWithdrawal, Decides, LapseIf, Contested, Trouble
  <2> QED  BY <1>2, <2>1
<1>13. ASSUME NEW a \in Admins, NEW w \in Withdrawals, BeginReject(a, w) PROVE BalanceExplained'
  <2>1. Completed' = Completed /\ balance' = balance /\ locked' = locked
    BY <1>13, <1>0 DEF BeginReject, Decides, LapseIf, Contested
  <2> QED  BY <1>2, <2>1
<1>14. ASSUME NEW a \in Admins, ReleaseFunds(a) PROVE BalanceExplained'
  <2>1. Completed' = Completed /\ balance' = balance
    BY <1>14 DEF ReleaseFunds
  <2>2. locked' = locked \/ locked' = Unlocked(rejecting[a])
    BY <1>14 DEF ReleaseFunds, LeftAfterUndo
  <2>3. rejecting[a] \in Withdrawals
    BY <1>14 DEF ReleaseFunds
  <2>4. locked' <= locked
    BY <1>1, <2>2, <2>3 DEF Unlocked
  <2> QED  BY <1>2, <2>1, <2>4
<1>15. ASSUME NEW a \in Admins, MarkRejected(a) PROVE BalanceExplained'
  <2>1. Completed' = Completed /\ balance' = balance /\ locked' = locked
    BY <1>15, <1>0 DEF MarkRejected, Trouble, Lapse
  <2> QED  BY <1>2, <2>1
<1>16. ASSUME NEW k \in Workers, ListApproved(k) PROVE BalanceExplained'
  <2>1. Completed' = Completed /\ balance' = balance /\ locked' = locked
    BY <1>16, <1>0 DEF ListApproved, At, List, Move, Trouble
  <2> QED  BY <1>2, <2>1
<1>17. ASSUME NEW k \in Workers, ListBroadcast(k) PROVE BalanceExplained'
  <2>1. Completed' = Completed /\ balance' = balance /\ locked' = locked
    BY <1>17, <1>0 DEF ListBroadcast, At, List, Move, Trouble, ConfirmedStatus
  <2> QED  BY <1>2, <2>1
<1>18. ASSUME NEW k \in Workers, EndTick(k) PROVE BalanceExplained'
  <2>1. Completed' = Completed /\ balance' = balance /\ locked' = locked
    BY <1>18, <1>0 DEF EndTick, At, Move
  <2> QED  BY <1>2, <2>1
<1>19. ASSUME NEW k \in Workers, NEW w \in Withdrawals, LoadApproved(k, w) PROVE BalanceExplained'
  <2>1. Completed' = Completed /\ balance' = balance /\ locked' = locked
    BY <1>19, <1>0 DEF LoadApproved, At, Take, Sendable, LapseIf, Move, Trouble
  <2> QED  BY <1>2, <2>1
<1>20. ASSUME NEW k \in Workers, NEW w \in Withdrawals, LoadBroadcast(k, w) PROVE BalanceExplained'
  <2>1. Completed' = Completed /\ balance' = balance /\ locked' = locked
    BY <1>20, <1>0 DEF LoadBroadcast, At, Take, LapseIf, Move, Trouble
  <2> QED  BY <1>2, <2>1
<1>21. ASSUME NEW k \in Workers, Send(k) PROVE BalanceExplained'
  <2>1. Completed' = Completed /\ balance' = balance /\ locked' = locked
    BY <1>21, <1>0 DEF Send, At, Move, Trouble
  <2> QED  BY <1>2, <2>1
<1>22. ASSUME NEW k \in Workers, SaveHash(k) PROVE BalanceExplained'
  <2>1. Completed' = Completed /\ balance' = balance /\ locked' = locked
    BY <1>22, <1>0 DEF SaveHash, At, Move, SaveTx, Trouble, Lapse
  <2> QED  BY <1>2, <2>1
<1>23. ASSUME NEW k \in Workers, Finalise(k) PROVE BalanceExplained'
  <2>1. CASE /\ locked' = Unlocked(cur[k]) /\ balance' = Debited(cur[k])
             /\ Move(k, "saveDone", cur[k])
    <3>1. /\ cur[k] \in Withdrawals \ Completed /\ cur[k] \in Open /\ UNCHANGED status
          /\ wpc[k] = "finalise"
      BY <1>23 DEF Finalise, At, Open
    <3>2. wpc' = [wpc EXCEPT ![k] = "saveDone"] /\ cur' = cur
      BY <1>23, <2>1 DEF Move, Finalise, At
    <3>3. Completed' = Completed \cup {cur[k]}
      BY <3>1, <3>2
    <3> QED  BY <1>3, <2>1, <3>1, <3>3
  <2>2. CASE UNCHANGED <<balance, locked>> /\ Move(k, "confirm", NoWithdrawal)
    <3>1. UNCHANGED status /\ wpc[k] = "finalise"
      BY <1>23 DEF Finalise, At
    <3>2. wpc' = [wpc EXCEPT ![k] = "confirm"] /\ cur' = [cur EXCEPT ![k] = NoWithdrawal]
      BY <2>2 DEF Move
    <3>3. Completed' = Completed
      BY <3>1, <3>2
    <3> QED  BY <1>2, <2>2, <3>3
  <2> QED  BY <1>23, <2>1, <2>2 DEF Finalise, walletVars
<1>24. ASSUME NEW k \in Workers, SaveDone(k) PROVE BalanceExplained'
  <2>1. Completed' = Completed /\ balance' = balance /\ locked' = locked
    BY <1>24, <1>0 DEF SaveDone, At, Move, SaveTx, Trouble, Lapse
  <2> QED  BY <1>2, <2>1
<1>25. CASE UNCHANGED vars
  BY <1>25 DEF vars, BalanceExplained, Total
<1> QED
  BY <1>4, <1>5, <1>6, <1>7, <1>8, <1>9, <1>10, <1>11, <1>12, <1>13, <1>14, <1>15,
     <1>16, <1>17, <1>18, <1>19, <1>20, <1>21, <1>22, <1>23, <1>24, <1>25 DEF Next,
     GatewayStep, Withdraw, AdminStep, AdminSets, Tick

\* What the chain has seen of each withdrawal, and that a row which says so has a hash.
SentOnce ==
    \A w \in Withdrawals :
       /\ status[w] \in {"Broadcast", "Completed"} => hash[w]
       /\ sent[w] = IF \/ hash[w] /\ status[w] \in {"Broadcast", "Completed"}
                       \/ \E k \in Workers : wpc[k] = "saveHash" /\ cur[k] = w
                    THEN 1 ELSE 0

\* A withdrawal is sent from the status Approved only, and by one worker.
LEMMA SentKept ==
    ASSUME TypeOK, Known, OneActor, SentOnce, [Next]_vars, Clean'
    PROVE  SentOnce'
<1>0. "mark" \notin lapses' /\ "contested" \notin lapses' /\ "race" \notin lapses'
  BY CleanBefore
<1> USE WithdrawalAssumption DEF TypeOK, Known, RequestFirst, KnownRejections, KnownWork,
     InWork, Undecided, OneActor, SentOnce,
    walletVars, rowVars, memoryVars, reqVars, adminVars, workerVars, faultVars
<1>1. ASSUME NEW g \in Gateways, AddAddress(g) PROVE SentOnce'
  BY <1>1, <1>0 DEF AddAddress
<1>2. ASSUME NEW g \in Gateways, SetLimit(g) PROVE SentOnce'
  BY <1>2, <1>0 DEF SetLimit
<1>3. ASSUME NEW g \in Gateways, RestartGateway(g) PROVE SentOnce'
  BY <1>3, <1>0 DEF RestartGateway, Trouble
<1>4. ASSUME NEW w \in Withdrawals, NEW g \in Gateways, Check(w, g) PROVE SentOnce'
  BY <1>4, <1>0 DEF Check, IsWhitelisted, Within, InProgress
<1>5. ASSUME NEW w \in Withdrawals, Reserve(w) PROVE SentOnce'
  BY <1>5, <1>0 DEF Reserve, Affordable, Goto, Trouble, Lapse
<1>6. ASSUME NEW w \in Withdrawals, SaveRequest(w) PROVE SentOnce'
  BY <1>6, <1>0 DEF SaveRequest, FirstStatus, Goto, Trouble
<1>7. ASSUME NEW w \in Withdrawals, Undo(w) PROVE SentOnce'
  BY <1>7, <1>0 DEF Undo, LeftAfterUndo, Unlocked, Goto, Trouble, Lapse
<1>8. ASSUME NEW w \in Withdrawals, Record(w) PROVE SentOnce'
  BY <1>8, <1>0 DEF Record, Goto
<1>9. ASSUME NEW w \in Withdrawals, ApproveWithdrawal(w) PROVE SentOnce'
  BY <1>9, <1>0 DEF ApproveWithdrawal, Decides, LapseIf, Contested, Trouble
<1>10. ASSUME NEW a \in Admins, NEW w \in Withdrawals, BeginReject(a, w) PROVE SentOnce'
  BY <1>10, <1>0 DEF BeginReject, Decides, LapseIf, Contested
<1>11. ASSUME NEW a \in Admins, ReleaseFunds(a) PROVE SentOnce'
  BY <1>11, <1>0 DEF ReleaseFunds, Unlocked, Trouble
<1>12. ASSUME NEW a \in Admins, MarkRejected(a) PROVE SentOnce'
  BY <1>12, <1>0 DEF MarkRejected, Trouble, Lapse
<1>13. ASSUME NEW k \in Workers, ListApproved(k) PROVE SentOnce'
  BY <1>13, <1>0 DEF ListApproved, At, List, Move, Trouble
<1>14. ASSUME NEW k \in Workers, ListBroadcast(k) PROVE SentOnce'
  BY <1>14, <1>0 DEF ListBroadcast, At, List, Move, Trouble, ConfirmedStatus
<1>15. ASSUME NEW k \in Workers, EndTick(k) PROVE SentOnce'
  BY <1>15, <1>0 DEF EndTick, At, Move
<1>16. ASSUME NEW k \in Workers, NEW w \in Withdrawals, LoadApproved(k, w) PROVE SentOnce'
  <2>1. UNCHANGED <<status, hash, sent>>
    BY <1>16 DEF LoadApproved, Take, rowVars
  <2>2. \A j \in Workers : wpc'[j] = "saveHash" <=> wpc[j] = "saveHash"
    BY <1>16 DEF LoadApproved, At, Take, LapseIf, Move, Sendable
  <2>3. \A j \in Workers : wpc[j] = "saveHash" => cur'[j] = cur[j]
    BY <1>16 DEF LoadApproved, At, Take, LapseIf, Move, Sendable
  <2> QED  BY <2>1, <2>2, <2>3
<1>17. ASSUME NEW k \in Workers, NEW w \in Withdrawals, LoadBroadcast(k, w) PROVE SentOnce'
  <2>1. UNCHANGED <<status, hash, sent>>
    BY <1>17 DEF LoadBroadcast, Take, rowVars
  <2>2. \A j \in Workers : wpc'[j] = "saveHash" <=> wpc[j] = "saveHash"
    BY <1>17 DEF LoadBroadcast, At, Take, LapseIf, Move
  <2>3. \A j \in Workers : wpc[j] = "saveHash" => cur'[j] = cur[j]
    BY <1>17 DEF LoadBroadcast, At, Take, LapseIf, Move
  <2> QED  BY <2>1, <2>2, <2>3
<1>18. ASSUME NEW k \in Workers, Send(k) PROVE SentOnce'
  BY <1>18, <1>0 DEF Send, At, Move, Trouble
<1>19. ASSUME NEW k \in Workers, SaveHash(k) PROVE SentOnce'
  BY <1>19, <1>0 DEF SaveHash, At, Move, SaveTx, Trouble, Lapse
<1>20. ASSUME NEW k \in Workers, Finalise(k) PROVE SentOnce'
  BY <1>20, <1>0 DEF Finalise, At, Move, Unlocked, Debited, Trouble
<1>21. ASSUME NEW k \in Workers, SaveDone(k) PROVE SentOnce'
  BY <1>21, <1>0 DEF SaveDone, At, Move, SaveTx, Trouble, Lapse
<1>22. CASE UNCHANGED vars
  BY <1>22 DEF vars
<1> QED
  BY <1>1, <1>2, <1>3, <1>4, <1>5, <1>6, <1>7, <1>8, <1>9, <1>10, <1>11, <1>12, <1>13,
     <1>14, <1>15, <1>16, <1>17, <1>18, <1>19, <1>20, <1>21, <1>22 DEF Next,
     GatewayStep, Withdraw, AdminStep, AdminSets, Tick

-------------------------------------------------------------------------------
(* The daily limit: what a gateway has recorded is within it, and so is that *)
(* with the one request it has in progress.                                  *)
Unhindered == Without({"unlimited", "overlap", "forgot"})

Recorded(g) == {w \in Withdrawals : gate[w] = g /\ req[w] = "done"}

WithinLimit ==
    /\ \A w \in Withdrawals : status[w] # "None" => req[w] \in {"saved", "done"}
    /\ \A g \in Gateways : used[g] = Total(Recorded(g)) /\ used[g] <= DailyLimit
    /\ \A g \in Gateways : \A v, w \in InProgress(g) : v = w /\ used[g] + Amount[w] <= DailyLimit

\* A request in progress was checked against what was recorded, and nothing was
\* recorded since (checkDailyLimit, recordDailyWithdrawn).
LEMMA WithinLimitKept ==
    ASSUME TypeOK, Known, WithinLimit, [Next]_vars, Unhindered'
    PROVE  WithinLimit'
<1>0. "unlimited" \notin lapses' /\ "overlap" \notin lapses' /\ "forgot" \notin lapses'
  BY DEF Unhindered, Without
<1>1. \A g \in Gateways : Recorded(g) \in SUBSET Withdrawals
  BY DEF Recorded
<1>2. ASSUME UNCHANGED <<req, gate, used>>,
             \A x \in Withdrawals : status'[x] # "None" => status[x] # "None"
      PROVE  WithinLimit'
  <2>1. \A g \in Gateways : Recorded(g)' = Recorded(g) /\ InProgress(g)' = InProgress(g)
    BY <1>2 DEF Recorded, InProgress
  <2> QED  BY <1>2, <2>1 DEF WithinLimit, Total
<1> USE WithdrawalAssumption DEF TypeOK, Known, RequestFirst, KnownRejections, KnownWork,
     InWork, Undecided,
    walletVars, rowVars, memoryVars, reqVars, adminVars, workerVars, faultVars
<1>3. ASSUME NEW g \in Gateways, AddAddress(g) PROVE WithinLimit'
  <2>1. UNCHANGED <<req, gate, used, status>>
    BY <1>3 DEF AddAddress
  <2> QED  BY <1>2, <2>1
<1>4. ASSUME NEW g \in Gateways, SetLimit(g) PROVE WithinLimit'
  <2>1. UNCHANGED <<req, gate, used, status>>
    BY <1>4 DEF SetLimit
  <2> QED  BY <1>2, <2>1
<1>5. ASSUME NEW g \in Gateways, RestartGateway(g) PROVE WithinLimit'
  <2>1. "forgot" \in lapses'
    BY <1>5 DEF RestartGateway
  <2> QED  BY <1>0, <2>1
<1>6. ASSUME NEW w \in Withdrawals, NEW g \in Gateways, Check(w, g) PROVE WithinLimit'
  <2>1. /\ UNCHANGED <<used, status>> /\ req[w] = "new" /\ status[w] = "None"
        /\ gate' = [gate EXCEPT ![w] = g] /\ InProgress(g) = {}
        /\ req' = [req EXCEPT ![w] = IF Within(g, w) THEN "checked" ELSE "failed"]
    BY <1>6, <1>0 DEF Check
  <2>2. \A h \in Gateways : Recorded(h)' = Recorded(h)
    BY <2>1 DEF Recorded
  <2>3. \A h \in Gateways : h # g => InProgress(h)' = InProgress(h)
    BY <2>1 DEF InProgress
  <2>4. InProgress(g)' = IF Within(g, w) THEN {w} ELSE {}
    BY <2>1 DEF InProgress
  <2> QED  BY <2>1, <2>2, <2>3, <2>4 DEF WithinLimit, Within, Total
<1>7. ASSUME NEW w \in Withdrawals, Reserve(w) PROVE WithinLimit'
  <2>1. /\ UNCHANGED <<gate, used>> /\ req[w] \in {"checked", "reserved", "undo"}
        /\ req'[w] \in {"reserved", "saved", "undo", "failed"}
        /\ \A x \in Withdrawals : x # w => req'[x] = req[x] /\ status'[x] = status[x]
        /\ status'[w] # "None" => req'[w] = "saved"
    BY <1>7 DEF Reserve, Goto
  <2>2. \A h \in Gateways : Recorded(h)' = Recorded(h)
    BY <2>1 DEF Recorded
  <2>3. \A h \in Gateways : InProgress(h)' \subseteq InProgress(h)
    <3>1. req[w] \in {"checked", "reserved"} \/ req'[w] \notin {"checked", "reserved", "saved"}
      BY <1>7 DEF Reserve, Goto
    <3> QED  BY <2>1, <3>1 DEF InProgress
  <2> QED  BY <2>1, <2>2, <2>3 DEF WithinLimit, Total
<1>8. ASSUME NEW w \in Withdrawals, SaveRequest(w) PROVE WithinLimit'
  <2>1. /\ UNCHANGED <<gate, used>> /\ req[w] \in {"checked", "reserved", "undo"}
        /\ req'[w] \in {"reserved", "saved", "undo", "failed"}
        /\ \A x \in Withdrawals : x # w => req'[x] = req[x] /\ status'[x] = status[x]
        /\ status'[w] # "None" => req'[w] = "saved"
    BY <1>8 DEF SaveRequest, Goto
  <2>2. \A h \in Gateways : Recorded(h)' = Recorded(h)
    BY <2>1 DEF Recorded
  <2>3. \A h \in Gateways : InProgress(h)' \subseteq InProgress(h)
    <3>1. req[w] \in {"checked", "reserved"} \/ req'[w] \notin {"checked", "reserved", "saved"}
      BY <1>8 DEF SaveRequest, Goto
    <3> QED  BY <2>1, <3>1 DEF InProgress
  <2> QED  BY <2>1, <2>2, <2>3 DEF WithinLimit, Total
<1>9. ASSUME NEW w \in Withdrawals, Undo(w) PROVE WithinLimit'
  <2>1. /\ UNCHANGED <<gate, used>> /\ req[w] \in {"checked", "reserved", "undo"}
        /\ req'[w] \in {"reserved", "saved", "undo", "failed"}
        /\ \A x \in Withdrawals : x # w => req'[x] = req[x] /\ status'[x] = status[x]
        /\ status'[w] # "None" => req'[w] = "saved"
    BY <1>9 DEF Undo, Goto
  <2>2. \A h \in Gateways : Recorded(h)' = Recorded(h)
    BY <2>1 DEF Recorded
  <2>3. \A h \in Gateways : InProgress(h)' \subseteq InProgress(h)
    <3>1. req[w] \in {"checked", "reserved"} \/ req'[w] \notin {"checked", "reserved", "saved"}
      BY <1>9 DEF Undo, Goto
    <3> QED  BY <2>1, <3>1 DEF InProgress
  <2> QED  BY <2>1, <2>2, <2>3 DEF WithinLimit, Total
<1>10. ASSUME NEW w \in Withdrawals, Record(w) PROVE WithinLimit'
  <2>1. /\ UNCHANGED <<gate, status>> /\ req[w] = "saved" /\ gate[w] \in Gateways
        /\ req' = [req EXCEPT ![w] = "done"]
        /\ used' = [used EXCEPT ![gate[w]] = @ + Amount[w]]
    BY <1>10 DEF Record, Goto
  <2>2. \A h \in Gateways : h # gate[w] => Recorded(h)' = Recorded(h) /\ InProgress(h)' = InProgress(h)
    BY <2>1 DEF Recorded, InProgress
  <2>3. Recorded(gate[w])' = Recorded(gate[w]) \cup {w} /\ w \in Withdrawals \ Recorded(gate[w])
    BY <2>1 DEF Recorded
  <2>4. Total(Recorded(gate[w]) \cup {w}) = Total(Recorded(gate[w])) + Amount[w]
    BY <2>3, <1>1, TotalFacts
  <2>5. w \in InProgress(gate[w])
    BY <2>1 DEF InProgress
  <2>6. InProgress(gate[w])' = {}
    BY <2>1, <2>5 DEF InProgress, WithinLimit
  <2>7. \A x \in Withdrawals : status'[x] # "None" => req'[x] \in {"saved", "done"}
    BY <2>1 DEF WithinLimit
  <2>8. \A h \in Gateways : used'[h] = Total(Recorded(h)') /\ used'[h] <= DailyLimit
    <3> SUFFICES ASSUME NEW h \in Gateways
                 PROVE  used'[h] = Total(Recorded(h)') /\ used'[h] <= DailyLimit
      OBVIOUS
    <3>1. CASE h = gate[w]
      <4>1. used'[h] = used[h] + Amount[w] /\ Total(Recorded(h)') = Total(Recorded(h)) + Amount[w]
        BY <2>1, <2>3, <2>4, <3>1
      <4>2. used[h] = Total(Recorded(h)) /\ used[h] + Amount[w] <= DailyLimit
        BY <2>5, <3>1 DEF WithinLimit
      <4> QED  BY <4>1, <4>2
    <3>2. CASE h # gate[w]
      <4>1. used'[h] = used[h] /\ Recorded(h)' = Recorded(h)
        BY <2>1, <2>2, <3>2
      <4>2. used[h] = Total(Recorded(h)) /\ used[h] <= DailyLimit
        BY DEF WithinLimit
      <4> QED  BY <4>1, <4>2
    <3> QED  BY <3>1, <3>2
  <2>9. \A h \in Gateways : \A x, y \in InProgress(h)' : x = y /\ used'[h] + Amount[y] <= DailyLimit
    BY <2>1, <2>2, <2>6 DEF WithinLimit
  <2> QED  BY <2>7, <2>8, <2>9 DEF WithinLimit, Total
<1>11. ASSUME NEW w \in Withdrawals, ApproveWithdrawal(w) PROVE WithinLimit'
  <2>1. UNCHANGED <<req, gate, used>>
    BY <1>11 DEF ApproveWithdrawal, Decides, LapseIf, Contested, Trouble
  <2>2. \A x \in Withdrawals : status'[x] # "None" => status[x] # "None"
    BY <1>11 DEF ApproveWithdrawal, Decides, LapseIf, Contested, Trouble
  <2> QED  BY <1>2, <2>1, <2>2
<1>12. ASSUME NEW a \in Admins, NEW w \in Withdrawals, BeginReject(a, w) PROVE WithinLimit'
  <2>1. UNCHANGED <<req, gate, used>>
    BY <1>12 DEF BeginReject, Decides, LapseIf, Contested
  <2>2. \A x \in Withdrawals : status'[x] # "None" => status[x] # "None"
    BY <1>12 DEF BeginReject, Decides, LapseIf, Contested
  <2> QED  BY <1>2, <2>1, <2>2
<1>13. ASSUME NEW a \in Admins, ReleaseFunds(a) PROVE WithinLimit'
  <2>1. UNCHANGED <<req, gate, used>>
    BY <1>13 DEF ReleaseFunds, Unlocked, Trouble
  <2>2. \A x \in Withdrawals : status'[x] # "None" => status[x] # "None"
    BY <1>13 DEF ReleaseFunds, Unlocked, Trouble
  <2> QED  BY <1>2, <2>1, <2>2
<1>14. ASSUME NEW a \in Admins, MarkRejected(a) PROVE WithinLimit'
  <2>1. UNCHANGED <<req, gate, used>>
    BY <1>14 DEF MarkRejected, Trouble, Lapse
  <2>2. \A x \in Withdrawals : status'[x] # "None" => status[x] # "None"
    BY <1>14 DEF MarkRejected, Trouble, Lapse
  <2> QED  BY <1>2, <2>1, <2>2
<1>15. ASSUME NEW k \in Workers, ListApproved(k) PROVE WithinLimit'
  <2>1. UNCHANGED <<req, gate, used, status>>
    BY <1>15 DEF ListApproved, At, List, Move, Trouble
  <2> QED  BY <1>2, <2>1
<1>16. ASSUME NEW k \in Workers, ListBroadcast(k) PROVE WithinLimit'
  <2>1. UNCHANGED <<req, gate, used, status>>
    BY <1>16 DEF ListBroadcast, At, List, Move, Trouble, ConfirmedStatus
  <2> QED  BY <1>2, <2>1
<1>17. ASSUME NEW k \in Workers, EndTick(k) PROVE WithinLimit'
  <2>1. UNCHANGED <<req, gate, used, status>>
    BY <1>17 DEF EndTick, At, Move
  <2> QED  BY <1>2, <2>1
<1>18. ASSUME NEW k \in Workers, NEW w \in Withdrawals, LoadApproved(k, w) PROVE WithinLimit'
  <2>1. UNCHANGED <<req, gate, used, status>>
    BY <1>18 DEF LoadApproved, At, Take, Sendable, LapseIf, Move, Trouble
  <2> QED  BY <1>2, <2>1
<1>19. ASSUME NEW k \in Workers, NEW w \in Withdrawals, LoadBroadcast(k, w) PROVE WithinLimit'
  <2>1. UNCHANGED <<req, gate, used, status>>
    BY <1>19 DEF LoadBroadcast, At, Take, LapseIf, Move, Trouble
  <2> QED  BY <1>2, <2>1
<1>20. ASSUME NEW k \in Workers, Send(k) PROVE WithinLimit'
  <2>1. UNCHANGED <<req, gate, used, status>>
    BY <1>20 DEF Send, At, Move, Trouble
  <2> QED  BY <1>2, <2>1
<1>21. ASSUME NEW k \in Workers, SaveHash(k) PROVE WithinLimit'
  <2>1. UNCHANGED <<req, gate, used>>
    BY <1>21 DEF SaveHash, At, Move, SaveTx, Trouble, Lapse
  <2>2. \A x \in Withdrawals : status'[x] # "None" => status[x] # "None"
    BY <1>21 DEF SaveHash, At, Move, SaveTx, Trouble, Lapse
  <2> QED  BY <1>2, <2>1, <2>2
<1>22. ASSUME NEW k \in Workers, Finalise(k) PROVE WithinLimit'
  <2>1. UNCHANGED <<req, gate, used, status>>
    BY <1>22 DEF Finalise, At, Move, Unlocked, Debited, Trouble
  <2> QED  BY <1>2, <2>1
<1>23. ASSUME NEW k \in Workers, SaveDone(k) PROVE WithinLimit'
  <2>1. UNCHANGED <<req, gate, used>>
    BY <1>23 DEF SaveDone, At, Move, SaveTx, Trouble, Lapse
  <2>2. \A x \in Withdrawals : status'[x] # "None" => status[x] # "None"
    BY <1>23 DEF SaveDone, At, Move, SaveTx, Trouble, Lapse
  <2> QED  BY <1>2, <2>1, <2>2
<1>24. CASE UNCHANGED vars
  BY <1>2, <1>24 DEF vars
<1> QED
  BY <1>3, <1>4, <1>5, <1>6, <1>7, <1>8, <1>9, <1>10, <1>11, <1>12, <1>13, <1>14,
     <1>15, <1>16, <1>17, <1>18, <1>19, <1>20, <1>21, <1>22, <1>23, <1>24 DEF Next,
     GatewayStep, Withdraw, AdminStep, AdminSets, Tick

-------------------------------------------------------------------------------
\* The inductive invariant.
WithdrawalInv ==
    /\ TypeOK /\ Known
    /\ Clean => OneActor /\ Covered /\ BalanceExplained /\ SentOnce
    /\ Unhindered => WithinLimit

\* It holds before the first request.
LEMMA InvInitially == Init => WithdrawalInv
<1> SUFFICES ASSUME Init PROVE WithdrawalInv
  OBVIOUS
<1> USE WithdrawalAssumption DEF Init
<1>1. Total({}) = 0
  BY SumEmpty DEF Total
<1>2. TypeOK
  <2>1. (CHOOSE g \in Gateways : TRUE) \in Gateways
    OBVIOUS
  <2> QED  BY <2>1 DEF TypeOK, Statuses
<1>3. Known
  BY DEF Known, RequestFirst, KnownRejections, KnownWork, InWork
<1>4. OneActor
  BY DEF OneActor
<1>5. Open = {} /\ Completed = {}
  BY DEF Open, Completed
<1>6. Covered /\ BalanceExplained
  BY <1>1, <1>5 DEF Covered, BalanceExplained
<1>7. SentOnce
  BY DEF SentOnce
<1>8. WithinLimit
  <2>1. \A g \in Gateways : Recorded(g) = {} /\ InProgress(g) = {}
    BY DEF Recorded, InProgress
  <2>2. ASSUME NEW g \in Gateways PROVE used[g] = Total(Recorded(g)) /\ used[g] <= DailyLimit
    <3>1. used[g] = 0 /\ 0 <= DailyLimit
      OBVIOUS
    <3>2. Total(Recorded(g)) = 0
      BY <1>1, <2>1
    <3> QED  BY <3>1, <3>2
  <2>3. \A w \in Withdrawals : status[w] = "None"
    OBVIOUS
  <2> QED  BY <2>1, <2>2, <2>3 DEF WithinLimit
<1> QED  BY <1>2, <1>3, <1>4, <1>6, <1>7, <1>8 DEF WithdrawalInv

\* It is kept by every step.
LEMMA InvKept == WithdrawalInv /\ [Next]_vars => WithdrawalInv'
<1> SUFFICES ASSUME WithdrawalInv, [Next]_vars PROVE WithdrawalInv'
  OBVIOUS
<1>1. TypeOK /\ Known
  BY DEF WithdrawalInv
<1>2. TypeOK' /\ Known'
  BY <1>1, TypeKept, KnownKept
<1>3. ASSUME Clean' PROVE OneActor' /\ Covered' /\ BalanceExplained' /\ SentOnce'
  <2>1. OneActor /\ Covered /\ BalanceExplained /\ SentOnce
    BY <1>1, <1>3, CleanBefore DEF WithdrawalInv
  <2> QED
    BY <1>1, <1>3, <2>1, OneActorKept, CoveredKept, BalanceKept, SentKept
<1>4. ASSUME Unhindered' PROVE WithinLimit'
  <2>1. lapses \subseteq lapses'
    BY <1>1, LapsesKept DEF TypeOK, Lapses
  <2>2. WithinLimit
    BY <1>4, <2>1 DEF WithdrawalInv, Unhindered, Without
  <2> QED  BY <1>1, <1>4, <2>2, WithinLimitKept
<1> QED  BY <1>2, <1>3, <1>4 DEF WithdrawalInv

\* It always holds.
THEOREM InvAlways == Spec => []WithdrawalInv
<1> QED  BY InvInitially, InvKept, PTL DEF Spec

\* Every variable keeps its type; what is locked never becomes negative (Settle).
THEOREM TypeCorrect == Spec => []TypeOK
<1>1. WithdrawalInv => TypeOK
  BY DEF WithdrawalInv
<1> QED  BY <1>1, InvAlways, PTL

\* The funds of every open withdrawal are locked, whatever fails, and nothing else
\* is unless a call failed half way (RequestWithdrawal, RejectWithdrawal, ConfirmWithdrawal).
THEOREM OpenWithdrawalsCovered == Spec => []LockedCoversOpen
<1>1. WithdrawalInv => LockedCoversOpen
  BY DEF WithdrawalInv, LockedCoversOpen, ReservationKept, Covered, Clean
<1> QED  BY <1>1, InvAlways, PTL

\* The lock is within the balance, the balance has lost what was completed, and the
\* chain has seen a withdrawal once or not at all (ConfirmWithdrawal, runOnChainWorker).
THEOREM BooksAlwaysAgree == Spec => []BooksAgree
<1>1. WithdrawalInv => BooksAgree
  BY DEF WithdrawalInv, BooksAgree, BalanceExplained, SentOnce, Completed, Clean
<1> QED  BY <1>1, InvAlways, PTL

\* What a gateway lets out in a day is within the limit, if it had one, no two
\* requests overlapped and it did not restart (checkDailyLimit).
THEOREM LimitAlwaysKept == Spec => []LimitKept
<1>1. WithdrawalInv => LimitKept
  <2> SUFFICES ASSUME WithdrawalInv, Unhindered, NEW g \in Gateways
               PROVE  Total({w \in Withdrawals : gate[w] = g /\ status[w] # "None"}) <= DailyLimit
    BY DEF LimitKept, Unhindered
  <2> DEFINE S == {w \in Withdrawals : gate[w] = g /\ status[w] # "None"}
  <2>1. WithinLimit /\ TypeOK
    BY DEF WithdrawalInv
  <2>2. /\ S \in SUBSET Withdrawals /\ Recorded(g) \in SUBSET Withdrawals
        /\ Amount \in [Withdrawals -> Nat] /\ DailyLimit \in Nat
        /\ Total(Recorded(g)) \in Nat
        /\ used[g] = Total(Recorded(g)) /\ used[g] <= DailyLimit
    <3>1. S \in SUBSET Withdrawals /\ Recorded(g) \in SUBSET Withdrawals
      BY DEF Recorded
    <3> QED  BY <2>1, <3>1, TotalFacts, WithdrawalAssumption DEF WithinLimit
  <2>3. CASE S \subseteq Recorded(g)
    <3>1. Total(S) \in Nat /\ Total(S) <= Total(Recorded(g))
      BY <2>2, <2>3, TotalFacts
    <3> QED  BY <2>2, <3>1
  <2>4. CASE \E v \in S : v \notin Recorded(g)
    <3>1. PICK v \in S : v \notin Recorded(g)
      BY <2>4
    <3>2. req[v] = "saved" /\ v \in InProgress(g)
      BY <2>1, <3>1 DEF WithinLimit, Recorded, InProgress
    <3>3. \A w \in S : w # v => w \in Recorded(g)
      BY <2>1, <3>2 DEF WithinLimit, Recorded, InProgress
    <3>4. S \in SUBSET (Recorded(g) \cup {v}) /\ v \in Withdrawals \ Recorded(g)
      BY <2>2, <3>1, <3>3
    <3>5. Total(Recorded(g) \cup {v}) = Total(Recorded(g)) + Amount[v]
      BY <2>2, <3>4, TotalFacts
    <3>6. used[g] + Amount[v] <= DailyLimit
      BY <2>1, <3>2 DEF WithinLimit
    <3>7. Recorded(g) \cup {v} \in SUBSET Withdrawals
      BY <2>2, <3>4
    <3> HIDE DEF S
    <3>8. Total(S) <= Total(Recorded(g) \cup {v})
      BY <3>4, <3>7, TotalFacts
    <3>9. Total(S) \in Nat /\ Amount[v] \in Nat
      BY <2>2, <3>4, TotalFacts
    <3> QED  BY <2>2, <3>5, <3>6, <3>8, <3>9 DEF S
  <2> QED  BY <2>3, <2>4
<1> QED  BY <1>1, InvAlways, PTL

================================================================================
