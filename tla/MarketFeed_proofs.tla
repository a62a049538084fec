--------------------------- MODULE MarketFeed_proofs ---------------------------
(***************************************************************************)
(* Theorems about the WebSocket hub as the gateway runs it, beside the     *)
(* bridge, the administrators and crashes; about the limits of the risk    *)
(* engine, about who holds a trade, about what a recorder answers and what *)
(* the rows of candles hold; and about the types of all variables: for any *)
(* number of connections, streams and users, any buffers, limits, windows  *)
(* and intervals, and any workload.                                        *)
(***************************************************************************)
EXTENDS MarketFeed, SumTheorems, SequenceTheorems

\* What the hub's safety rests on: how far a connection can be.
ConnectionTypes ==
    /\ conn \in [Clients -> {"absent", "open", "cut", "closed"}]
    /\ reader \in [Clients -> {"none", "joining", "reading", "done"}]
    /\ writer \in [Clients -> {"none", "writing", "failed", "done"}]

\* Only who has connected is registered, and nobody is registered once Run has
\* closed his channel.
Registered ==
    /\ clients \cap closed = {}
    /\ \A c \in clients \cup closed : c \in Clients /\ conn[c] # "absent"

\* A broadcast that holds a closed client, a room that holds one, and a writer
\* that has failed are each the trace of a race.
RacesLeaveTraces ==
    /\ \A c \in sending.left \cap closed : <<"held", c>> \in races \/ <<"rejoined", c>> \in races
    /\ \A c \in members \cap closed : <<"rejoined", c>> \in races
    /\ \A c \in Clients : writer[c] = "failed" => <<"cut", c>> \in races

RacesInv == ConnectionTypes /\ Registered /\ RacesLeaveTraces /\ PanicsAreRaces

-------------------------------------------------------------------------------

\* Each step of the hub keeps the traces.
LEMMA HubKeepsTraces ==
    ASSUME RacesInv, Alive, HubStep
    PROVE  RacesInv'
<1> USE DEF RacesInv, ConnectionTypes, Registered, RacesLeaveTraces, PanicsAreRaces, Alive, Races
<1>1. ASSUME NEW c \in Clients, Register(c) PROVE RacesInv'
  BY <1>1 DEF Register
<1>2. ASSUME NEW c \in Clients, StartPumps(c) PROVE RacesInv'
  <2>1. CASE c \in SignedIn
    BY <1>2, <2>1 DEF StartPumps, JoinRoom
  <2>2. CASE c \notin SignedIn
    BY <1>2, <2>2 DEF StartPumps
  <2> QED  BY <2>1, <2>2
<1>3. ASSUME NEW c \in Clients, Cut(c) PROVE RacesInv'
  BY <1>3 DEF Cut
<1>4. ASSUME NEW c \in Clients, Subscribe(c) PROVE RacesInv'
  BY <1>4 DEF Subscribe, JoinRoom
<1>5. ASSUME NEW c \in Clients, Unsubscribe(c) PROVE RacesInv'
  BY <1>5 DEF Unsubscribe
<1>6. ASSUME NEW c \in Clients, Shout(c) PROVE RacesInv'
  BY <1>6 DEF Shout
<1>7. ASSUME NEW c \in Clients, ReadError(c) PROVE RacesInv'
  BY <1>7 DEF ReadError
<1>8. ASSUME NEW c \in Clients, Write(c) PROVE RacesInv'
  BY <1>8 DEF Write
<1>9. ASSUME NEW c \in Clients, WriteAgain(c) PROVE RacesInv'
  BY <1>9 DEF WriteAgain
<1>10. ASSUME NEW c \in Clients, Finish(c) PROVE RacesInv'
  BY <1>10 DEF Finish
<1>11. ASSUME NEW c \in Clients, Unregister(c) PROVE RacesInv'
  <2>1. CASE c \in clients
    BY <1>11, <2>1 DEF Unregister, Forgotten
  <2>2. CASE c \notin clients
    BY <1>11, <2>2 DEF Unregister
  <2> QED  BY <2>1, <2>2
<1>12. ASSUME Broadcast PROVE RacesInv'
  BY <1>12 DEF Broadcast
<1>13. ASSUME NEW c \in Clients, SendTo(c) PROVE RacesInv'
  <2>1. sending'.left \subseteq sending.left
    BY <1>13 DEF SendTo
  <2>2. CASE c \in closed
    BY <1>13, <2>1, <2>2 DEF SendTo
  <2>3. CASE c \notin closed
    BY <1>13, <2>1, <2>3 DEF SendTo
  <2> QED  BY <2>2, <2>3
<1> QED
  BY <1>1, <1>2, <1>3, <1>4, <1>5, <1>6, <1>7, <1>8, <1>9, <1>10, <1>11, <1>12, <1>13
  DEF HubStep, ConnectionStep, ReaderStep, WriterStep, RunStep, SenderStep

\* Of the other steps only Publish touches the hub: it copies the room.
LEMMA OthersLeaveHub ==
    ASSUME Next, ~ConnectedStep, ~Publish
    PROVE  UNCHANGED hubVars
<1>1. CASE OrderStep
  BY <1>1 DEF OrderStep, Check, Admit, Fill
<1>2. CASE SpillStep
  BY <1>2 DEF SpillStep, SpillSends, SpillGivesUp
<1>3. CASE BridgeStep
  BY <1>3 DEF BridgeStep, Take, RecordCandle
<1>4. CASE StreamStep
  BY <1>4 DEF StreamStep, StreamTrade
<1>5. CASE AdminStep
  BY <1>5 DEF AdminStep, SetTradingEnabled, UpdatePairRisk, UpdateUserRisk
<1>6. CASE Tick
  BY <1>6 DEF Tick
<1>7. CASE Crash
  BY <1>7 DEF Crash
<1> QED  BY <1>1, <1>2, <1>3, <1>4, <1>5, <1>6, <1>7 DEF Next

\* And so does every step of the market feed.
LEMMA FeedKeepsTraces ==
    ASSUME RacesInv, [Next]_vars
    PROVE  RacesInv'
<1>1. CASE ConnectedStep
  BY <1>1, HubKeepsTraces DEF ConnectedStep, HubStep
<1>2. CASE Publish
  BY <1>2 DEF Publish, CopyMembers, RacesInv, ConnectionTypes, Registered, RacesLeaveTraces,
     PanicsAreRaces, Alive
<1>3. CASE UNCHANGED hubVars
  BY <1>3 DEF hubVars, RacesInv, ConnectionTypes, Registered, RacesLeaveTraces,
     PanicsAreRaces, Alive
<1> QED  BY <1>1, <1>2, <1>3, OthersLeaveHub DEF vars

\* The process dies at a client only after one of three races with it: a broadcast
\* held it while it was unregistered, it joined the room after that, or a write to
\* it failed (hub.go:69, hub.go:50, client.go:82).
THEOREM PanicsOnlyAfterRaces == Spec => []PanicsAreRaces
<1>1. Init => RacesInv
  BY DEF Init, HubInit, Quiet, RacesInv, ConnectionTypes, Registered, RacesLeaveTraces,
     PanicsAreRaces, Alive
<1>2. RacesInv => PanicsAreRaces
  BY DEF RacesInv
<1> QED  BY <1>1, <1>2, FeedKeepsTraces, PTL DEF Spec

-------------------------------------------------------------------------------
(* No holes in the stream of a client that stays.                           *)

Trades == [id : Nat, price : Nat, at : Nat]

\* Messages are integers: trades have the numbers of their places, what clients
\* shout has negative ones.
FeedTypes ==
    /\ now \in Nat /\ executed \in Seq(Trades)
    /\ channel \in Seq(Nat) /\ spilled \subseteq Nat
    /\ job \in [id : Nat, todo : Nat]

MessageTypes ==
    /\ send \in [Clients -> Seq(Int)] /\ got \in [Clients -> Seq(Int)] /\ due \in [Clients -> Seq(Int)]
    /\ leaving \in [Clients -> Nat]
    /\ shouts \in Seq(Int) /\ shouted \in Nat
    /\ sending \in [msg : Int, left : SUBSET Clients]
    /\ clients \subseteq Clients /\ members \subseteq Clients

\* A client that has not connected yet is nowhere, and one that has is registered
\* until Run closes its channel: so a call of Unregister that was waiting has
\* either closed it or found it closed.
Accounted ==
    \A c \in Clients :
        /\ conn[c] = "absent" => /\ c \notin members /\ c \notin sending.left
                                /\ leaving[c] = 0 /\ reader[c] = "none" /\ writer[c] = "none"
        /\ conn[c] # "absent" => c \in clients \cup closed

Served(c) == conn[c] \in {"absent", "open"} /\ c \notin closed /\ leaving[c] = 0

NoHoles == \A c \in Clients : Served(c) => got[c] \o send[c] = due[c]

HolesInv == RacesInv /\ MessageTypes /\ Accounted /\ NoHoles

\* emitTrade keeps the types of the channel and of the goroutines.
LEMMA EmitKeepsTypes ==
    ASSUME channel \in Seq(Nat), spilled \subseteq Nat, NEW id \in Nat, Emit(id)
    PROVE  channel' \in Seq(Nat) /\ spilled' \subseteq Nat
<1>1. Append(channel, id) \in Seq(Nat)
  BY AppendProperties
<1> QED  BY <1>1 DEF Emit

\* So do the numbers of trades wherever they are held.
LEMMA FeedStaysTyped ==
    ASSUME FeedTypes, [Next]_vars
    PROVE  FeedTypes'
<1> USE DEF FeedTypes
<1>0. Len(executed) \in Nat
  OBVIOUS
<1>1. ASSUME NEW r \in Requests, Fill(r) PROVE FeedTypes'
  <2>1. PICK price \in Nat :
            LET trade == [id |-> Len(executed) + 1, price |-> price, at |-> now]
            IN  executed' = Append(executed, trade) /\ Emit(trade.id)
    BY <1>1, FeedAssumption DEF Fill
  <2>2. [id |-> Len(executed) + 1, price |-> price, at |-> now] \in Trades
    BY DEF Trades
  <2>3. executed' \in Seq(Trades)
    BY <2>1, <2>2
  <2>4. Emit(Len(executed) + 1)
    BY <2>1
  <2>5. channel' \in Seq(Nat) /\ spilled' \subseteq Nat
    BY <1>0, <2>4, EmitKeepsTypes
  <2> QED  BY <1>1, <2>3, <2>5 DEF Fill, bridgeVars
<1>2. ASSUME NEW id \in spilled, SpillSends(id) PROVE FeedTypes'
  <2>1. channel' \in Seq(Nat)
    BY <1>2, AppendProperties DEF SpillSends
  <2> QED  BY <1>2, <2>1 DEF SpillSends, recorderVars, bridgeVars
<1>13. ASSUME NEW id \in spilled, SpillGivesUp(id) PROVE FeedTypes'
  BY <1>13 DEF SpillGivesUp, recorderVars, bridgeVars
<1>3. CASE Take
  BY <1>3 DEF Take, recorderVars
<1>4. CASE RecordCandle
  <2>1. job.todo \in Nat /\ Len(Intervals) \in Nat
    BY <1>4, FeedAssumption
  <2>2. \E n \in Nat : job' = [job EXCEPT !.todo = n]
    BY <1>4, <2>1 DEF RecordCandle
  <2>3. job' \in [id : Nat, todo : Nat]
    BY <2>2
  <2> QED  BY <1>4, <2>3 DEF RecordCandle, recorderVars
<1>5. CASE Publish
  BY <1>5 DEF Publish, recorderVars, Resting
<1>6. CASE StreamStep
  BY <1>6 DEF StreamStep, StreamTrade, recorderVars, bridgeVars
<1>7. CASE AdminStep
  BY <1>7 DEF AdminStep, SetTradingEnabled, UpdatePairRisk, UpdateUserRisk, recorderVars, bridgeVars
<1>8. CASE Tick
  BY <1>8 DEF Tick, recorderVars, bridgeVars
<1>9. CASE Crash
  <2>1. PICK again \in {<<>>} \cup {<<executed[n].price>> : n \in DOMAIN executed \cap {Len(executed)}} :
            LET trades == [k \in DOMAIN again |-> [id |-> Len(executed) + k, price |-> again[k], at |-> now]]
            IN  executed' = executed \o trades /\ channel' = [k \in DOMAIN trades |-> trades[k].id]
    BY <1>9 DEF Crash
  <2> DEFINE trades == [k \in DOMAIN again |-> [id |-> Len(executed) + k, price |-> again[k], at |-> now]]
  <2>2. CASE again = <<>>
    <3>1. executed' = executed \o <<>> /\ channel' = <<>>
      BY <2>1, <2>2
    <3> QED  BY <1>9, <3>1 DEF Crash, Resting
  <2>3. CASE again # <<>>
    <3>1. PICK n \in DOMAIN executed : again = <<executed[n].price>>
      BY <2>1, <2>3
    <3>2. executed[n] \in Trades
      BY ElementOfSeq
    <3>3. executed[n].price \in Nat
      BY <3>2 DEF Trades
    <3> DEFINE trade == [id |-> Len(executed) + 1, price |-> executed[n].price, at |-> now]
    <3>4. trade \in Trades
      BY <1>0, <3>3 DEF Trades
    <3>5. executed' = executed \o <<trade>> /\ channel' = <<trade.id>>
      <4>1. PICK p : p = executed[n].price
        OBVIOUS
      <4>2. DOMAIN again = {1} /\ again[1] = p
        BY <3>1, <4>1
      <4>3. trades = [k \in {1} |-> [id |-> Len(executed) + k, price |-> again[k], at |-> now]]
        BY <4>2
      <4>4. trades = <<trade>>
        BY <4>1, <4>2, <4>3
      <4>5. executed' = executed \o trades /\ channel' = [k \in DOMAIN trades |-> trades[k].id]
        BY <2>1
      <4> HIDE DEF trades, trade
      <4>6. DOMAIN trades = {1} /\ trades[1] = trade
        BY <4>4
      <4>7. channel' = <<trade.id>>
        BY <4>5, <4>6
      <4> QED  BY <4>4, <4>5, <4>7
    <3>6. trade.id \in Nat
      BY <1>0
    <3> HIDE DEF trade
    <3>7. executed' \in Seq(Trades)
      BY <3>4, <3>5
    <3>8. channel' \in Seq(Nat)
      BY <3>5, <3>6
    <3> QED  BY <1>9, <3>7, <3>8 DEF Crash, Resting
  <2> QED  BY <2>2, <2>3
<1>10. CASE ConnectedStep
  BY <1>10 DEF ConnectedStep, FeedUnchanged, recorderVars, bridgeVars
<1>11. ASSUME NEW r \in Requests, Check(r) \/ Admit(r) PROVE FeedTypes'
  BY <1>11 DEF Check, Admit, recorderVars, bridgeVars
<1>12. CASE UNCHANGED vars
  BY <1>12 DEF vars, recorderVars, bridgeVars
<1> QED
  BY <1>1, <1>2, <1>3, <1>4, <1>5, <1>6, <1>7, <1>8, <1>9, <1>10, <1>11, <1>12, <1>13
  DEF Next, OrderStep, SpillStep, BridgeStep

\* What is appended to the second of two sequences is appended to both together.
LEMMA AppendedBehind ==
    ASSUME NEW s \in Seq(Int), NEW t \in Seq(Int), NEW m \in Int
    PROVE  s \o Append(t, m) = Append(s \o t, m)
<1>1. <<m>> \in Seq(Int)
  OBVIOUS
<1>2. (s \o t) \o <<m>> = s \o (t \o <<m>>)
  BY <1>1, ConcatAssociative
<1>3. s \o t \in Seq(Int)
  BY ConcatProperties
<1> QED  BY <1>2, <1>3, AppendIsConcat

\* A message is appended to what a client is owed and to its buffer alike, or the
\* client is on its way out.
LEMMA OfferedKeepsOrder ==
    ASSUME MessageTypes, NEW to \in SUBSET Clients, NEW msg \in Int, Offered(to, msg)
    PROVE  /\ send' \in [Clients -> Seq(Int)] /\ due' \in [Clients -> Seq(Int)]
           /\ leaving' \in [Clients -> Nat]
           /\ \A c \in Clients :
                  /\ leaving'[c] = 0 => leaving[c] = 0
                  /\ c \notin to => leaving'[c] = leaving[c]
                  /\ leaving'[c] = 0 /\ got[c] \o send[c] = due[c] => got[c] \o send'[c] = due'[c]
<1>1. send' \in [Clients -> Seq(Int)] /\ due' \in [Clients -> Seq(Int)]
  BY AppendProperties DEF Offered, MessageTypes
<1>2. leaving' \in [Clients -> Nat]
  BY DEF Offered, MessageTypes
<1>3. ASSUME NEW c \in Clients
      PROVE  (leaving'[c] = 0 => leaving[c] = 0) /\ (c \notin to => leaving'[c] = leaving[c])
  BY DEF Offered, MessageTypes
<1>4. ASSUME NEW c \in Clients, leaving'[c] = 0, got[c] \o send[c] = due[c]
      PROVE  got[c] \o send'[c] = due'[c]
  <2>1. CASE c \in to
    <3>1. ~Full(c)
      BY <1>4, <2>1 DEF Offered, MessageTypes
    <3>2. send'[c] = Append(send[c], msg) /\ due'[c] = Append(due[c], msg)
      BY <2>1, <3>1 DEF Offered
    <3>3. got[c] \in Seq(Int) /\ send[c] \in Seq(Int)
      BY DEF MessageTypes
    <3>4. got[c] \o Append(send[c], msg) = Append(got[c] \o send[c], msg)
      BY <3>3, AppendedBehind
    <3> QED  BY <1>4, <3>2, <3>4
  <2>2. CASE c \notin to
    BY <1>4, <2>2 DEF Offered
  <2> QED  BY <2>1, <2>2
<1> QED  BY <1>1, <1>2, <1>3, <1>4

-------------------------------------------------------------------------------

\* Every step of the hub keeps the types of the messages and of who they are for.
LEMMA HubKeepsMessageTypes ==
    ASSUME MessageTypes, HubStep
    PROVE  MessageTypes'
<1>1. ASSUME NEW c \in Clients, Register(c) \/ Cut(c) \/ Unsubscribe(c) \/ WriteAgain(c) \/ Finish(c)
      PROVE  MessageTypes'
  BY <1>1 DEF MessageTypes, Register, Cut, Unsubscribe, WriteAgain, Finish
<1>2. ASSUME NEW c \in Clients, StartPumps(c) \/ Subscribe(c) PROVE MessageTypes'
  BY <1>2 DEF MessageTypes, StartPumps, Subscribe, JoinRoom
<1>3. ASSUME NEW c \in Clients, Shout(c) PROVE MessageTypes'
  <2>1. shouted' \in Nat /\ -shouted' \in Int
    BY <1>3 DEF MessageTypes, Shout
  <2>2. shouts' \in Seq(Int)
    BY <1>3, <2>1, AppendProperties DEF MessageTypes, Shout
  <2> QED  BY <1>3, <2>1, <2>2 DEF MessageTypes, Shout
<1>4. ASSUME NEW c \in Clients, ReadError(c) \/ Unregister(c) PROVE MessageTypes'
  <2>1. leaving' \in [Clients -> Nat]
    <3>1. leaving \in [Clients -> Nat]
      BY DEF MessageTypes
    <3>2. CASE ReadError(c)
      BY <3>1, <3>2 DEF ReadError
    <3>3. CASE Unregister(c)
      BY <3>1, <3>3 DEF Unregister
    <3> QED  BY <1>4, <3>2, <3>3
  <2>2. clients' \subseteq Clients /\ members' \subseteq Clients
    BY <1>4 DEF MessageTypes, ReadError, Unregister, Forgotten
  <2>3. UNCHANGED <<send, got, due, shouts, shouted, sending>>
    BY <1>4 DEF ReadError, Unregister
  <2> QED  BY <2>1, <2>2, <2>3 DEF MessageTypes
<1>5. ASSUME NEW c \in Clients, Write(c) PROVE MessageTypes'
  <2>1. got[c] \o send[c] \in Seq(Int)
    BY ConcatProperties DEF MessageTypes
  <2>2. got' \in [Clients -> Seq(Int)]
    BY <1>5, <2>1 DEF MessageTypes, Write
  <2>3. send' \in [Clients -> Seq(Int)]
    BY <1>5 DEF MessageTypes, Write
  <2>4. UNCHANGED <<due, leaving, shouts, shouted, sending, clients, members>>
    BY <1>5 DEF Write
  <2> QED  BY <2>2, <2>3, <2>4 DEF MessageTypes
<1>6. CASE Broadcast
  <2>1. Head(shouts) \in Int /\ shouts' \in Seq(Int)
    BY <1>6, HeadTailProperties DEF Broadcast, MessageTypes
  <2>2. Offered(clients, Head(shouts)) /\ clients \in SUBSET Clients
    BY <1>6 DEF Broadcast, MessageTypes
  <2>3. send' \in [Clients -> Seq(Int)] /\ due' \in [Clients -> Seq(Int)] /\ leaving' \in [Clients -> Nat]
    BY <2>1, <2>2, OfferedKeepsOrder
  <2> QED  BY <1>6, <2>1, <2>3 DEF Broadcast, MessageTypes
<1>7. ASSUME NEW c \in Clients, SendTo(c) PROVE MessageTypes'
  <2>1. sending' \in [msg : Int, left : SUBSET Clients]
    BY <1>7 DEF SendTo, MessageTypes
  <2>2. UNCHANGED <<clients, members, shouts, got, shouted>>
    BY <1>7 DEF SendTo
  <2>3. CASE Offered({c}, sending.msg)
    <3>1. sending.msg \in Int /\ {c} \in SUBSET Clients
      BY DEF MessageTypes
    <3>2. send' \in [Clients -> Seq(Int)] /\ due' \in [Clients -> Seq(Int)] /\ leaving' \in [Clients -> Nat]
      BY <2>3, <3>1, OfferedKeepsOrder
    <3> QED  BY <2>1, <2>2, <3>2 DEF MessageTypes
  <2>4. CASE UNCHANGED <<send, leaving, due>>
    BY <2>1, <2>2, <2>4 DEF MessageTypes
  <2> QED  BY <1>7, <2>3, <2>4 DEF SendTo
<1> QED
  BY <1>1, <1>2, <1>3, <1>4, <1>5, <1>6, <1>7
  DEF HubStep, ConnectionStep, ReaderStep, WriterStep, RunStep, SenderStep

\* A step never takes a connection back to where it was before it connected, and
\* offers a message to nobody who has not.
LEMMA OfferedAccounts ==
    ASSUME MessageTypes, Accounted, NEW to \in SUBSET Clients, NEW msg \in Int, Offered(to, msg),
           \A c \in to : conn[c] # "absent",
           UNCHANGED <<conn, clients, closed, members, reader, writer>>, sending'.left \subseteq sending.left
    PROVE  Accounted'
<1>1. \A c \in Clients : c \notin to => leaving'[c] = leaving[c]
  BY OfferedKeepsOrder
<1> QED  BY <1>1 DEF Accounted

\* Every step of the hub keeps account of who is where.
LEMMA HubKeepsAccount ==
    ASSUME RacesInv, MessageTypes, Accounted, HubStep
    PROVE  Accounted'
<1>1. ASSUME NEW c \in Clients, Register(c) \/ Cut(c) \/ ReadError(c) PROVE Accounted'
  <2>1. conn \in [Clients -> {"absent", "open", "cut", "closed"}] /\ leaving \in [Clients -> Nat]
        /\ reader \in [Clients -> {"none", "joining", "reading", "done"}]
    BY DEF RacesInv, ConnectionTypes, MessageTypes
  <2> QED  BY <1>1, <2>1 DEF Accounted, Register, Cut, ReadError
<1>2. ASSUME NEW c \in Clients, StartPumps(c) \/ Subscribe(c) \/ Unsubscribe(c) PROVE Accounted'
  <2>1. conn[c] # "absent"
    BY <1>2 DEF Accounted, StartPumps, Subscribe, Unsubscribe
  <2>2. members' \subseteq members \cup {c} /\ UNCHANGED <<conn, clients, closed, leaving, sending>>
    BY <1>2 DEF StartPumps, Subscribe, Unsubscribe, JoinRoom
  <2>3. \A d \in Clients : d # c => reader'[d] = reader[d] /\ writer'[d] = writer[d]
    BY <1>2 DEF StartPumps, Subscribe, Unsubscribe, RacesInv, ConnectionTypes
  <2> QED  BY <2>1, <2>2, <2>3 DEF Accounted
<1>3. ASSUME NEW c \in Clients, Shout(c) PROVE Accounted'
  BY <1>3 DEF Accounted, Shout
<1>4. ASSUME NEW c \in Clients, Write(c) \/ WriteAgain(c) \/ Finish(c) PROVE Accounted'
  <2>1. writer[c] # "none"
    BY <1>4 DEF Write, WriteAgain, Finish
  <2>2. conn[c] # "absent"
    BY <2>1 DEF Accounted
  <2>3. UNCHANGED <<clients, closed, members, leaving, sending, reader>>
    BY <1>4 DEF Write, WriteAgain, Finish
  <2>4. conn'[c] # "absent" /\ \A d \in Clients : d # c => conn'[d] = conn[d] /\ writer'[d] = writer[d]
    BY <1>4, <2>2 DEF Write, WriteAgain, Finish, RacesInv, ConnectionTypes
  <2> QED  BY <2>2, <2>3, <2>4 DEF Accounted
<1>5. ASSUME NEW c \in Clients, Unregister(c) PROVE Accounted'
  <2>1. leaving \in [Clients -> Nat] /\ leaving[c] > 0
    BY <1>5 DEF Unregister, MessageTypes
  <2>2. conn[c] # "absent"
    BY <2>1 DEF Accounted
  <2>3. clients' \cup closed' = clients \cup closed /\ members' \subseteq members
    BY <1>5 DEF Unregister, Forgotten
  <2>4. UNCHANGED <<conn, reader, writer, sending>> /\ \A d \in Clients : d # c => leaving'[d] = leaving[d]
    BY <1>5, <2>1 DEF Unregister
  <2> QED  BY <2>2, <2>3, <2>4 DEF Accounted
<1>6. CASE Broadcast
  <2>1. Head(shouts) \in Int /\ clients \in SUBSET Clients
    BY <1>6, HeadTailProperties DEF Broadcast, MessageTypes
  <2>2. \A c \in clients : conn[c] # "absent"
    BY DEF RacesInv, Registered
  <2>3. Offered(clients, Head(shouts)) /\ UNCHANGED <<conn, clients, closed, members, reader, writer, sending>>
    BY <1>6 DEF Broadcast
  <2> QED  BY <2>1, <2>2, <2>3, OfferedAccounts
<1>7. ASSUME NEW c \in Clients, SendTo(c) PROVE Accounted'
  <2>1. conn[c] # "absent"
    BY <1>7 DEF SendTo, Accounted
  <2>2. UNCHANGED <<conn, clients, closed, members, reader, writer>> /\ sending'.left \subseteq sending.left
    BY <1>7 DEF SendTo, MessageTypes
  <2>3. CASE Offered({c}, sending.msg)
    <3>1. sending.msg \in Int /\ {c} \in SUBSET Clients
      BY DEF MessageTypes
    <3> QED  BY <2>1, <2>2, <2>3, <3>1, OfferedAccounts
  <2>4. CASE UNCHANGED leaving
    BY <2>2, <2>4 DEF Accounted
  <2> QED  BY <1>7, <2>3, <2>4 DEF SendTo
<1> QED
  BY <1>1, <1>2, <1>3, <1>4, <1>5, <1>6, <1>7
  DEF HubStep, ConnectionStep, ReaderStep, WriterStep, RunStep, SenderStep

\* What is offered to some clients leaves no hole in the stream of any.
LEMMA OfferedLeavesNoHole ==
    ASSUME MessageTypes, NoHoles, NEW to \in SUBSET Clients, NEW msg \in Int, Offered(to, msg),
           UNCHANGED <<conn, closed, got>>
    PROVE  NoHoles'
<1>1. ASSUME NEW c \in Clients, Served(c)' PROVE (got[c] \o send[c] = due[c])'
  <2>1. leaving'[c] = 0 /\ leaving[c] = 0
    BY <1>1, OfferedKeepsOrder DEF Served
  <2>2. got[c] \o send[c] = due[c]
    BY <1>1, <2>1 DEF Served, NoHoles
  <2> QED  BY <2>1, <2>2, OfferedKeepsOrder
<1> QED  BY <1>1 DEF NoHoles

\* No step of the hub makes a hole in the stream of a client that stays.
LEMMA HubLeavesNoHole ==
    ASSUME RacesInv, MessageTypes, Accounted, NoHoles, HubStep
    PROVE  NoHoles'
<1>1. ASSUME NEW c \in Clients, \/ Register(c) \/ StartPumps(c) \/ Cut(c) \/ Subscribe(c) \/ Unsubscribe(c)
                               \/ Shout(c) \/ ReadError(c) \/ WriteAgain(c) \/ Finish(c)
      PROVE  NoHoles'
  <2>1. UNCHANGED <<send, got, due, closed>>
    BY <1>1 DEF Register, StartPumps, Cut, Subscribe, Unsubscribe, Shout, ReadError, WriteAgain, Finish
  <2>2. ASSUME NEW d \in Clients, Served(d)' PROVE Served(d)
    <3>1. conn'[d] \in {"absent", "open"} => conn[d] \in {"absent", "open"}
      BY <1>1 DEF Register, StartPumps, Cut, Subscribe, Unsubscribe, Shout, ReadError, WriteAgain, Finish,
         RacesInv, ConnectionTypes
    <3>2. leaving'[d] = 0 => leaving[d] = 0
      BY <1>1 DEF Register, StartPumps, Cut, Subscribe, Unsubscribe, Shout, ReadError, WriteAgain, Finish,
         MessageTypes
    <3> QED  BY <2>1, <2>2, <3>1, <3>2 DEF Served
  <2> QED  BY <2>1, <2>2 DEF NoHoles
<1>2. ASSUME NEW c \in Clients, Write(c) PROVE NoHoles'
  <2>1. UNCHANGED <<conn, closed, leaving, due>>
    BY <1>2 DEF Write
  <2>2. ASSUME NEW d \in Clients, Served(d)' PROVE got'[d] \o send'[d] = due'[d]
    <3>1. got[d] \o send[d] = due[d]
      BY <2>1, <2>2 DEF Served, NoHoles
    <3>2. CASE d # c
      BY <1>2, <2>1, <3>1, <3>2 DEF Write, MessageTypes
    <3>3. CASE d = c
      <4>1. conn[c] = "open"
        <5>1. writer[c] # "none"
          BY <1>2 DEF Write
        <5> QED  BY <2>1, <2>2, <3>3, <5>1 DEF Served, Accounted
      <4>2. got'[c] = got[c] \o send[c] /\ send'[c] = <<>>
        BY <1>2, <4>1 DEF Write, MessageTypes
      <4>3. got[c] \o send[c] \in Seq(Int)
        BY ConcatProperties DEF MessageTypes
      <4>4. got'[c] \o <<>> = got'[c]
        BY <4>2, <4>3, ConcatEmptySeq
      <4> QED  BY <2>1, <3>1, <3>3, <4>2, <4>4
    <3> QED  BY <3>2, <3>3
  <2> QED  BY <2>2 DEF NoHoles
<1>3. ASSUME NEW c \in Clients, Unregister(c) PROVE NoHoles'
  <2>1. ASSUME NEW d \in Clients, Served(d)' PROVE Served(d)
    <3>1. CASE d # c
      BY <1>3, <2>1, <3>1 DEF Unregister, Served, MessageTypes
    <3>2. CASE d = c
      <4>1. c \in closed'
        <5>1. conn[c] # "absent"
          BY <1>3 DEF Unregister, Accounted, MessageTypes
        <5> QED  BY <1>3, <5>1 DEF Unregister, Accounted
      <4> QED  BY <2>1, <3>2, <4>1 DEF Served
    <3> QED  BY <3>1, <3>2
  <2> QED  BY <1>3, <2>1 DEF Unregister, NoHoles
<1>4. CASE Broadcast
  <2>1. Head(shouts) \in Int /\ clients \in SUBSET Clients
    BY <1>4, HeadTailProperties DEF Broadcast, MessageTypes
  <2> QED  BY <1>4, <2>1, OfferedLeavesNoHole DEF Broadcast
<1>5. ASSUME NEW c \in Clients, SendTo(c) PROVE NoHoles'
  <2>1. CASE Offered({c}, sending.msg)
    <3>1. sending.msg \in Int /\ {c} \in SUBSET Clients
      BY DEF MessageTypes
    <3> QED  BY <1>5, <2>1, <3>1, OfferedLeavesNoHole DEF SendTo
  <2>2. CASE UNCHANGED <<send, leaving, due>>
    BY <1>5, <2>2 DEF SendTo, NoHoles, Served
  <2> QED  BY <1>5, <2>1, <2>2 DEF SendTo
<1> QED
  BY <1>1, <1>2, <1>3, <1>4, <1>5
  DEF HubStep, ConnectionStep, ReaderStep, WriterStep, RunStep, SenderStep

\* Nor does any step of the market feed.
LEMMA FeedKeepsOrder ==
    ASSUME HolesInv, FeedTypes, [Next]_vars
    PROVE  HolesInv'
<1>0. RacesInv'
  BY FeedKeepsTraces DEF HolesInv
<1>1. CASE ConnectedStep
  BY <1>0, <1>1, HubKeepsMessageTypes, HubKeepsAccount, HubLeavesNoHole DEF ConnectedStep, HolesInv
<1>2. CASE Publish
  <2>1. job.id \in Int
    BY DEF FeedTypes
  <2> QED  BY <1>0, <1>2, <2>1 DEF Publish, CopyMembers, HolesInv, MessageTypes, Accounted, NoHoles, Served
<1>3. CASE UNCHANGED hubVars
  BY <1>0, <1>3 DEF hubVars, HolesInv, MessageTypes, Accounted, NoHoles, Served
<1> QED  BY <1>1, <1>2, <1>3, OthersLeaveHub DEF vars

\* At first a client has no connection, and nothing is on its way.
LEMMA HolesBegin == ASSUME Init PROVE HolesInv
<1>1. RacesInv
  BY DEF Init, HubInit, Quiet, RacesInv, ConnectionTypes, Registered, RacesLeaveTraces,
     PanicsAreRaces, Alive
<1>2. MessageTypes /\ Accounted
  BY DEF Init, HubInit, Quiet, MessageTypes, Accounted
<1>3. NoHoles
  BY ConcatEmptySeq DEF Init, HubInit, NoHoles
<1> QED  BY <1>1, <1>2, <1>3 DEF HolesInv

\* A connection that stays open and that nobody unregisters is written every
\* message that was meant for it, in order and without a hole, whatever the size of
\* the buffers and however the two ways to broadcast, the pumps and the goroutines
\* that unregister interleave (hub.go:37, hub.go:69).
THEOREM StreamsHaveNoHoles == Spec => []NothingSkipped
<1>1. Init => HolesInv /\ FeedTypes
  <2> SUFFICES ASSUME Init PROVE HolesInv /\ FeedTypes
    OBVIOUS
  <2>1. HolesInv
    BY HolesBegin
  <2>2. FeedTypes
    BY DEF Init, FeedTypes, Resting
  <2> QED  BY <2>1, <2>2
<1>2. HolesInv /\ FeedTypes /\ [Next]_vars => (HolesInv /\ FeedTypes)'
  BY FeedKeepsOrder, FeedStaysTyped
<1>3. HolesInv => NothingSkipped
  BY DEF HolesInv, NoHoles, Served, NothingSkipped
<1> QED  BY <1>1, <1>2, <1>3, PTL DEF Spec

-------------------------------------------------------------------------------
(***************************************************************************)
(* The limits of the risk engine.                                          *)
(***************************************************************************)

\* The loop as a function of how far it is: that the recursion has a solution goes
\* by induction.
LEMMA PickedRecursion ==
    ASSUME NEW s, Len(s) \in Nat, NEW places
    PROVE  \E g : /\ g[0] = <<>>
                  /\ \A n \in 1..Len(s) :
                        g[n] = IF n \in places THEN Append(g[n - 1], s[n]) ELSE g[n - 1]
                  /\ Picked(s, places) = g[Len(s)]
<1> DEFINE N == Len(s)
           Step(g, n) == IF n = 0 THEN <<>>
                         ELSE IF n \in places THEN Append(g[n - 1], s[n]) ELSE g[n - 1]
           Solves(g) == g = [n \in 0..N |-> Step(g, n)]
           Begins(g, n) == g = [m \in 0..n |-> g[m]] /\ \A m \in 0..n : g[m] = Step(g, m)
           K == {n \in Nat : n <= N => \E g : Begins(g, n)}
<1>1. N \in Nat
  OBVIOUS
<1>2. Picked(s, places) = (CHOOSE g : Solves(g))[N]
  BY DEF Picked
<1> HIDE DEF N
<1>3. 0 \in K
  <2> DEFINE g == [m \in 0..0 |-> <<>>]
  <2>1. Begins(g, 0)
    OBVIOUS
  <2> QED  BY <2>1, <1>1
<1>4. ASSUME NEW n \in K PROVE n + 1 \in K
  <2> SUFFICES ASSUME n + 1 <= N PROVE \E h : Begins(h, n + 1)
    OBVIOUS
  <2>1. n \in Nat /\ n <= N
    BY <1>1
  <2>2. PICK g : Begins(g, n)
    BY <1>4, <2>1
  <2> DEFINE h == [m \in 0..n + 1 |-> IF m \in 0..n THEN g[m] ELSE Step(g, m)]
  <2>3. \A m \in 0..n : h[m] = g[m]
    BY <2>1
  <2>4. h[n + 1] = Step(g, n + 1)
    BY <2>1
  <2>5. h = [m \in 0..n + 1 |-> h[m]]
    OBVIOUS
  <2> HIDE DEF h
  <2>6. \A m \in 0..n + 1 : h[m] = Step(h, m)
    <3> SUFFICES ASSUME NEW m \in 0..n + 1 PROVE h[m] = Step(h, m)
      OBVIOUS
    <3>1. CASE m = 0
      BY <2>1, <2>2, <2>3, <3>1
    <3>2. CASE m \in 1..n
      <4>1. m - 1 \in 0..n /\ m \in 0..n
        BY <2>1, <3>2
      <4> QED  BY <2>2, <2>3, <4>1
    <3>3. CASE m = n + 1
      <4>1. m - 1 \in 0..n
        BY <2>1, <3>3
      <4> QED  BY <2>3, <2>4, <3>3, <4>1
    <3>4. m = 0 \/ m \in 1..n \/ m = n + 1
      BY <2>1
    <3> HIDE DEF Step
    <3> QED  BY <3>1, <3>2, <3>3, <3>4
  <2>7. Begins(h, n + 1)
    BY <2>5, <2>6
  <2> QED  BY <2>7
<1>5. K = Nat
  <2> HIDE DEF K
  <2>1. K \in SUBSET Nat
    BY DEF K
  <2> QED  BY <1>3, <1>4, <2>1, NatSetInduction
<1>6. PICK g : Begins(g, N)
  BY <1>1, <1>5
<1>7. Solves(g)
  <2>1. g = [m \in 0..N |-> g[m]] /\ \A m \in 0..N : g[m] = Step(g, m)
    BY <1>6
  <2> HIDE DEF Step
  <2> QED  BY <2>1
<1>8. PICK r : Solves(r) /\ Picked(s, places) = r[N]
  <2> DEFINE c == CHOOSE r : Solves(r)
  <2>1. Solves(c)
    BY <1>7
  <2> QED  BY <1>2, <2>1
<1>9. \A m \in 0..N : r[m] = Step(r, m)
  BY <1>8
<1>10. r[0] = <<>>
  BY <1>1, <1>9
<1>11. ASSUME NEW n \in 1..N
       PROVE  r[n] = IF n \in places THEN Append(r[n - 1], s[n]) ELSE r[n - 1]
  <2>1. n \in 0..N /\ n # 0
    BY <1>1
  <2> QED  BY <1>9, <2>1
<1> QED  BY <1>8, <1>10, <1>11 DEF N

\* So the pruning.
LEMMA KeptRecursion ==
    ASSUME NEW times \in Seq(Int)
    PROVE  \E g : /\ g[0] = <<>>
                  /\ \A n \in 1..Len(times) :
                        g[n] = IF times[n] > now - Day THEN Append(g[n - 1], times[n]) ELSE g[n - 1]
                  /\ Kept(times) = g[Len(times)]
<1> DEFINE places == {n \in DOMAIN times : times[n] > now - Day}
<1>1. Len(times) \in Nat /\ DOMAIN times = 1..Len(times)
  BY LenProperties
<1>2. \A n \in 1..Len(times) : n \in places <=> times[n] > now - Day
  BY <1>1
<1>3. Kept(times) = Picked(times, places)
  BY DEF Kept
<1> HIDE DEF places
<1> QED  BY <1>1, <1>2, <1>3, PickedRecursion

\* How many stamps of the first n are later than c.
Later(times, n, c) == {i \in 1..n : times[i] > c}

\* A set of places of a sequence is finite.
LEMMA LaterIsFinite ==
    ASSUME NEW times, NEW n \in Nat, NEW c
    PROVE  IsFiniteSet(Later(times, n, c)) /\ Cardinality(Later(times, n, c)) \in Nat
<1>1. IsFiniteSet(1..n)
  BY FS_Interval
<1>2. Later(times, n, c) \in SUBSET (1..n)
  BY DEF Later
<1> QED  BY <1>1, <1>2, FS_Subset, FS_CardinalityType

\* One more stamp is one more if it is later.
LEMMA LaterGrows ==
    ASSUME NEW times, NEW n \in Nat, NEW c, NEW more \in BOOLEAN, more <=> times[n + 1] > c
    PROVE  Cardinality(Later(times, n + 1, c))
               = IF more THEN Cardinality(Later(times, n, c)) + 1 ELSE Cardinality(Later(times, n, c))
<1>1. IsFiniteSet(Later(times, n, c))
  BY LaterIsFinite
<1>2. n + 1 \notin Later(times, n, c)
  BY DEF Later
<1>3. CASE more
  <2>1. Later(times, n + 1, c) = Later(times, n, c) \cup {n + 1}
    BY <1>3 DEF Later
  <2> QED  BY <1>1, <1>2, <1>3, <2>1, FS_AddElement
<1>4. CASE ~more
  <2>1. Later(times, n + 1, c) = Later(times, n, c)
    BY <1>4 DEF Later
  <2> QED  BY <1>4, <2>1
<1> QED  BY <1>3, <1>4

\* Of sequences that agree so far, as many are later.
LEMMA LaterAgrees ==
    ASSUME NEW s, NEW t, NEW n \in Nat, NEW c, \A i \in 1..n : s[i] = t[i]
    PROVE  Later(s, n, c) = Later(t, n, c)
BY DEF Later

\* What Since counts.
LEMMA SinceIsLater ==
    ASSUME NEW times \in Seq(Int), NEW c
    PROVE  Since(times, c) = Cardinality(Later(times, Len(times), c)) /\ Since(times, c) \in Nat
<1>1. Len(times) \in Nat /\ DOMAIN times = 1..Len(times)
  BY LenProperties
<1>2. Since(times, c) = Cardinality(Later(times, Len(times), c))
  BY <1>1 DEF Since, Later
<1> QED  BY <1>1, <1>2, LaterIsFinite

\* A stamp that is appended counts if it is later.
LEMMA SinceAppended ==
    ASSUME NEW times \in Seq(Int), NEW x \in Int, NEW c \in Int
    PROVE  Since(Append(times, x), c) = IF x > c THEN Since(times, c) + 1 ELSE Since(times, c)
<1> DEFINE n == Len(times)
           s == Append(times, x)
<1>1. n \in Nat /\ s \in Seq(Int) /\ Len(s) = n + 1 /\ s[n + 1] = x /\ \A i \in 1..n : s[i] = times[i]
  BY LenProperties, AppendProperties
<1> HIDE DEF n, s
<1>2. Later(s, n, c) = Later(times, n, c)
  BY <1>1, LaterAgrees
<1>3. (x > c) \in BOOLEAN
  OBVIOUS
<1>4. Cardinality(Later(s, n + 1, c))
          = IF x > c THEN Cardinality(Later(s, n, c)) + 1 ELSE Cardinality(Later(s, n, c))
  <2>1. (x > c) <=> s[n + 1] > c
    BY <1>1
  <2> QED  BY <1>1, <1>3, <2>1, LaterGrows
<1>5. Since(s, c) = Cardinality(Later(s, n + 1, c)) /\ Since(times, c) = Cardinality(Later(times, n, c))
  BY <1>1, SinceIsLater DEF n
<1> QED  BY <1>2, <1>4, <1>5 DEF s

\* Stamps behind others take nothing from the count.
LEMMA SinceExtended ==
    ASSUME NEW s \in Seq(Int), NEW t \in Seq(Int), NEW c
    PROVE  s \o t \in Seq(Int) /\ Since(s \o t, c) >= Since(s, c)
<1>1. s \o t \in Seq(Int) /\ Len(s \o t) = Len(s) + Len(t) /\ Len(s) \in Nat /\ Len(t) \in Nat
      /\ \A i \in 1..Len(s) : (s \o t)[i] = s[i]
  BY ConcatProperties, LenProperties
<1> DEFINE whole == Later(s \o t, Len(s \o t), c)
           part == Later(s, Len(s), c)
<1>2. IsFiniteSet(whole) /\ Cardinality(whole) \in Nat
  BY <1>1, LaterIsFinite
<1>3. part \in SUBSET whole
  <2> SUFFICES ASSUME NEW i \in part PROVE i \in whole
    OBVIOUS
  <2>1. i \in 1..Len(s) /\ s[i] > c
    BY DEF Later
  <2>2. (s \o t)[i] > c
    BY <1>1, <2>1
  <2>3. i \in 1..Len(s \o t)
    BY <1>1, <2>1
  <2> QED  BY <2>2, <2>3 DEF Later
<1>4. Cardinality(part) <= Cardinality(whole)
  BY <1>2, <1>3, FS_Subset
<1>5. Since(s \o t, c) = Cardinality(whole) /\ Since(s, c) = Cardinality(part) /\ Since(s, c) \in Nat
  BY <1>1, SinceIsLater
<1> QED  BY <1>1, <1>2, <1>4, <1>5

\* The loop keeps, in order, as many stamps later than any moment of the day as there are.
LEMMA KeptCounts ==
    ASSUME NEW times \in Seq(Int), now \in Int, Day \in Int
    PROVE  /\ Kept(times) \in Seq(Int)
           /\ Len(Kept(times)) <= Len(times)
           /\ \A c \in Int : c >= now - Day => Since(Kept(times), c) = Since(times, c)
<1> DEFINE N == Len(times)
<1>1. N \in Nat /\ \A n \in 1..N : times[n] \in Int
  BY LenProperties, ElementOfSeq
<1>2. PICK g : /\ g[0] = <<>>
               /\ \A n \in 1..N :
                     g[n] = IF times[n] > now - Day THEN Append(g[n - 1], times[n]) ELSE g[n - 1]
               /\ Kept(times) = g[N]
  BY <1>1, KeptRecursion
<1> DEFINE Good(n) == /\ g[n] \in Seq(Int) /\ Len(g[n]) <= n
                      /\ \A c \in Int : c >= now - Day =>
                            Since(g[n], c) = Cardinality(Later(times, n, c))
           K == {n \in Nat : n <= N => Good(n)}
<1>3. 0 \in K
  <2>1. g[0] \in Seq(Int) /\ Len(g[0]) = 0
    BY <1>2
  <2>2. ASSUME NEW c \in Int PROVE Since(g[0], c) = Cardinality(Later(times, 0, c))
    <3>1. Since(g[0], c) = Cardinality(Later(g[0], 0, c))
      BY <2>1, SinceIsLater
    <3>2. Later(g[0], 0, c) = Later(times, 0, c)
      BY LaterAgrees
    <3> QED  BY <3>1, <3>2
  <2> QED  BY <2>1, <2>2
<1>4. ASSUME NEW n \in K PROVE n + 1 \in K
  <2> SUFFICES ASSUME n + 1 <= N PROVE Good(n + 1)
    OBVIOUS
  <2>1. n \in Nat /\ n <= N /\ n + 1 \in 1..N /\ (n + 1) - 1 = n
    BY <1>1
  <2>2. Good(n)
    BY <1>4, <2>1
  <2>3. times[n + 1] \in Int /\ Len(g[n]) \in Nat
    BY <1>1, <2>1, <2>2, LenProperties
  <2>4. g[n + 1] = IF times[n + 1] > now - Day THEN Append(g[n], times[n + 1]) ELSE g[n]
    BY <1>2, <2>1
  <2>5. CASE times[n + 1] > now - Day
    <3>1. g[n + 1] = Append(g[n], times[n + 1])
      BY <2>4, <2>5
    <3>2. g[n + 1] \in Seq(Int) /\ Len(g[n + 1]) = Len(g[n]) + 1
      BY <2>2, <2>3, <3>1, AppendProperties
    <3>3. ASSUME NEW c \in Int, c >= now - Day
          PROVE  Since(g[n + 1], c) = Cardinality(Later(times, n + 1, c))
      <4>1. Since(g[n + 1], c) = IF times[n + 1] > c THEN Since(g[n], c) + 1 ELSE Since(g[n], c)
        BY <2>2, <2>3, <3>1, SinceAppended
      <4>2. Cardinality(Later(times, n + 1, c))
                = IF times[n + 1] > c THEN Cardinality(Later(times, n, c)) + 1
                  ELSE Cardinality(Later(times, n, c))
        BY <2>1, <2>3, LaterGrows
      <4>3. Since(g[n], c) = Cardinality(Later(times, n, c))
        BY <2>2, <3>3
      <4> QED  BY <4>1, <4>2, <4>3
    <3> QED  BY <2>1, <2>2, <2>3, <3>2, <3>3
  <2>6. CASE ~(times[n + 1] > now - Day)
    <3>1. g[n + 1] = g[n]
      BY <2>4, <2>6
    <3>2. ASSUME NEW c \in Int, c >= now - Day
          PROVE  Since(g[n + 1], c) = Cardinality(Later(times, n + 1, c))
      <4>1. ~(times[n + 1] > c)
        BY <2>3, <2>6, <3>2
      <4>2. Cardinality(Later(times, n + 1, c)) = Cardinality(Later(times, n, c))
        BY <2>1, <4>1, LaterGrows
      <4> QED  BY <2>2, <3>1, <3>2, <4>2
    <3> QED  BY <2>1, <2>2, <2>3, <3>1, <3>2
  <2> QED  BY <2>5, <2>6
<1>5. K = Nat
  <2> HIDE DEF K
  <2>1. K \in SUBSET Nat
    BY DEF K
  <2> QED  BY <1>3, <1>4, <2>1, NatSetInduction
<1>6. Good(N)
  BY <1>1, <1>5
<1>7. \A c \in Int : Since(times, c) = Cardinality(Later(times, N, c))
  BY SinceIsLater
<1> QED  BY <1>2, <1>6, <1>7

\* What a refused order leaves counts for no less.
LEMMA MovedCounts ==
    ASSUME NEW times \in Seq(Int), now \in Int, Day \in Int
    PROVE  /\ Moved(times) \in Seq(Int)
           /\ \A c \in Int : c >= now - Day => Since(Moved(times), c) >= Since(times, c)
<1> DEFINE k == Kept(times)
           rest == SubSeq(times, Len(k) + 1, Len(times))
<1>1. k \in Seq(Int) /\ \A c \in Int : c >= now - Day => Since(k, c) = Since(times, c)
  BY KeptCounts
<1>2. rest \in Seq(Int)
  <2>1. Len(k) \in Nat /\ Len(times) \in Nat
    BY <1>1, LenProperties
  <2>2. \A i \in Len(k) + 1..Len(times) : times[i] \in Int
    BY <2>1, ElementOfSeq
  <2> QED  BY <2>1, <2>2, SubSeqProperties
<1>3. Moved(times) = k \o rest
  BY DEF Moved
<1> HIDE DEF k, rest
<1>4. k \o rest \in Seq(Int) /\ \A c \in Int : Since(k \o rest, c) >= Since(k, c)
  BY <1>1, <1>2, SinceExtended
<1> QED  BY <1>1, <1>3, <1>4

\* The orders of a user that were admitted after a moment.
OrdersOf(u) == {a \in admitted : Request[a.request].user = u}
AdmittedAfter(u, at) == {a \in OrdersOf(u) : a.at > at}

Kind == {"minute", "day"}

LimitTypes ==
    /\ now \in Nat
    /\ limit \in [Users -> Limits \cup {NoLimit}]
    /\ DOMAIN loosest = Users
    /\ \A u \in Users : loosest[u].minute \in Int /\ loosest[u].day \in Int
    /\ stamps \in [Users -> Seq(Int)]
    /\ IsFiniteSet(admitted)
    /\ \A a \in admitted : a.at \in Int /\ a.at <= now

\* What is in force is no looser than the loosest there has been.
NoLooser(mine, most) == most > 0 => 0 < mine /\ mine <= most

LimitsAreTighter == \A u \in Users :
    /\ NoLooser(limit[u].minute, loosest[u].minute) /\ NoLooser(limit[u].day, loosest[u].day)

\* A user who has had a limit all the time has a stamp for each admitted order of the day.
AdmittedAreStamped == \A u \in Users :
    loosest[u].minute > 0 \/ loosest[u].day > 0 =>
        \A c \in Int : c >= now - Day => Cardinality(AdmittedAfter(u, c)) <= Since(stamps[u], c)

InWindowOf(S, a, window) == {b \in S : b.at <= a.at /\ b.at > a.at - window}

AtMostIn(S, most, window) ==
    most <= 0 \/ \A a \in S : Cardinality(InWindowOf(S, a, window)) <= most

RateInv == LimitTypes /\ LimitsAreTighter /\ AdmittedAreStamped /\ RateLimitHolds

\* The property with its parts named.
LEMMA RateLimitIs ==
    RateLimitHolds <=> \A u \in Users :
        AtMostIn(OrdersOf(u), loosest[u].minute, Minute) /\ AtMostIn(OrdersOf(u), loosest[u].day, Day)
BY DEF RateLimitHolds, AtMostIn, InWindowOf, OrdersOf

\* And after a step.
LEMMA RateLimitThen ==
    ASSUME \A u \in Users : /\ AtMostIn(OrdersOf(u)', loosest'[u].minute, Minute)
                             /\ AtMostIn(OrdersOf(u)', loosest'[u].day, Day)
    PROVE  RateLimitHolds'
BY DEF RateLimitHolds, AtMostIn, InWindowOf, OrdersOf

\* What a check leaves in the stamps of its user: no fewer than there were, and one
\* more if the order passes.
LEMMA AdmitStamps ==
    ASSUME RateInv, NEW r \in Requests, Admit(r), FeedAssumption
    PROVE  LET u == Request[r].user IN
           /\ u \in Users
           /\ UNCHANGED <<now, limit, loosest>>
           /\ stamps' \in [Users -> Seq(Int)]
           /\ \A v \in Users : v # u => stamps'[v] = stamps[v]
           /\ limit[u] # NoLimit => \A c \in Int : c >= now - Day =>
                  /\ Since(stamps'[u], c) >= Since(stamps[u], c)
                  /\ ~Exhausted(u) /\ now > c => Since(stamps'[u], c) >= Since(stamps[u], c) + 1
           /\ \/ admitted' = admitted
              \/ ~Exhausted(u) /\ admitted' = admitted \cup {[request |-> r, at |-> now]}
<1> DEFINE u == Request[r].user
           s == stamps[u]
<1>1. u \in Users /\ now \in Int /\ Day \in Int /\ s \in Seq(Int)
  BY DEF FeedAssumption, RateInv, LimitTypes
<1>2. UNCHANGED <<now, limit, loosest>>
  BY DEF Admit
<1>3. stamps' = [stamps EXCEPT ![u] =
          IF limit[u] = NoLimit THEN @ ELSE IF ~Exhausted(u) THEN Append(Kept(@), now) ELSE Moved(@)]
  BY DEF Admit
<1>4. admitted' = admitted \/ (~Exhausted(u) /\ admitted' = admitted \cup {[request |-> r, at |-> now]})
  BY DEF Admit
<1>5. /\ Kept(s) \in Seq(Int) /\ Moved(s) \in Seq(Int)
      /\ \A c \in Int : c >= now - Day =>
             Since(Kept(s), c) = Since(s, c) /\ Since(Moved(s), c) >= Since(s, c)
      /\ Append(Kept(s), now) \in Seq(Int)
      /\ \A c \in Int : Since(s, c) \in Nat
  BY <1>1, KeptCounts, MovedCounts, AppendProperties, SinceIsLater
<1>6. stamps \in [Users -> Seq(Int)]
  BY DEF RateInv, LimitTypes
<1>7. ASSUME NEW c \in Int, c >= now - Day
      PROVE  Since(Append(Kept(s), now), c) = IF now > c THEN Since(s, c) + 1 ELSE Since(s, c)
  BY <1>1, <1>5, <1>7, SinceAppended
<1> HIDE DEF s
<1>8. stamps'[u] = IF limit[u] = NoLimit THEN s
                   ELSE IF ~Exhausted(u) THEN Append(Kept(s), now) ELSE Moved(s)
  BY <1>1, <1>3, <1>6 DEF s
<1>9. /\ stamps' \in [Users -> Seq(Int)]
      /\ \A v \in Users : v # u => stamps'[v] = stamps[v]
  BY <1>1, <1>3, <1>5, <1>6 DEF s
<1>10. ASSUME limit[u] # NoLimit, NEW c \in Int, c >= now - Day
       PROVE  /\ Since(stamps'[u], c) >= Since(stamps[u], c)
              /\ ~Exhausted(u) /\ now > c => Since(stamps'[u], c) >= Since(stamps[u], c) + 1
  <2>1. CASE Exhausted(u)
    BY <1>5, <1>8, <1>10, <2>1 DEF s
  <2>2. CASE ~Exhausted(u)
    <3>1. stamps'[u] = Append(Kept(s), now)
      BY <1>8, <1>10, <2>2
    <3>2. Since(s, c) \in Nat
      BY <1>5
    <3> QED  BY <1>1, <1>7, <1>10, <3>1, <3>2 DEF s
  <2> QED  BY <2>1, <2>2
<1> QED  BY <1>1, <1>2, <1>4, <1>9, <1>10

\* An order that passes finds fewer stamps in each window than the loosest limit allows.
LEMMA NotExhausted ==
    ASSUME RateInv, NEW u \in Users, ~Exhausted(u), FeedAssumption
    PROVE  /\ loosest[u].day > 0 => Since(stamps[u], now - Day) < loosest[u].day
           /\ loosest[u].minute > 0 => Since(stamps[u], now - Minute) < loosest[u].minute
<1>1. /\ now \in Int /\ Day \in Int /\ Minute \in Int /\ Minute <= Day /\ stamps[u] \in Seq(Int)
      /\ loosest[u].minute \in Int /\ loosest[u].day \in Int
  BY DEF FeedAssumption, RateInv, LimitTypes
<1>2. limit[u].minute \in Int /\ limit[u].day \in Int
  BY DEF FeedAssumption, RateInv, LimitTypes, NoLimit
<1>3. /\ Within(stamps[u], Day) = Since(stamps[u], now - Day)
      /\ Within(stamps[u], Minute) = Since(stamps[u], now - Minute)
  BY <1>1, KeptCounts DEF Within
<1>4. Since(stamps[u], now - Day) \in Nat /\ Since(stamps[u], now - Minute) \in Nat
  BY <1>1, SinceIsLater
<1>5. /\ limit[u].day > 0 => ~(Since(stamps[u], now - Day) >= limit[u].day)
      /\ limit[u].minute > 0 => ~(Since(stamps[u], now - Minute) >= limit[u].minute)
  BY <1>3 DEF Exhausted
<1>6. /\ NoLooser(limit[u].minute, loosest[u].minute) /\ NoLooser(limit[u].day, loosest[u].day)
  BY DEF RateInv, LimitsAreTighter
<1> QED  BY <1>1, <1>2, <1>4, <1>5, <1>6 DEF NoLooser

\* One order more is one more after any moment before.
LEMMA AdmittedGrows ==
    ASSUME NEW S, IsFiniteSet(S), NEW x, NEW T \in SUBSET S
    PROVE  /\ IsFiniteSet(T) /\ Cardinality(T) \in Nat
           /\ IsFiniteSet(T \cup {x}) /\ Cardinality(T \cup {x}) <= Cardinality(T) + 1
           /\ Cardinality(T \cup {x}) \in Nat
<1>1. IsFiniteSet(T)
  BY FS_Subset
<1>2. Cardinality(T) \in Nat
  BY <1>1, FS_CardinalityType
<1>3. IsFiniteSet(T \cup {x})
      /\ Cardinality(T \cup {x}) = IF x \in T THEN Cardinality(T) ELSE Cardinality(T) + 1
  BY <1>1, FS_AddElement
<1> QED  BY <1>1, <1>2, <1>3

\* An order that is admitted leaves both windows within the limits.
LEMMA AdmitKeepsRates ==
    ASSUME RateInv, NEW r \in Requests, Admit(r), FeedAssumption
    PROVE  RateInv'
<1> DEFINE u == Request[r].user
           x == [request |-> r, at |-> now]
<1>1. /\ u \in Users
      /\ UNCHANGED <<now, limit, loosest>>
      /\ stamps' \in [Users -> Seq(Int)]
      /\ \A v \in Users : v # u => stamps'[v] = stamps[v]
      /\ limit[u] # NoLimit => \A c \in Int : c >= now - Day =>
             /\ Since(stamps'[u], c) >= Since(stamps[u], c)
             /\ ~Exhausted(u) /\ now > c => Since(stamps'[u], c) >= Since(stamps[u], c) + 1
      /\ admitted' = admitted \/ (~Exhausted(u) /\ admitted' = admitted \cup {x})
  BY AdmitStamps
<1>2. /\ now \in Nat /\ Day \in Nat /\ Minute \in Nat /\ 0 < Minute /\ Minute <= Day
      /\ IsFiniteSet(admitted) /\ \A a \in admitted : a.at \in Int /\ a.at <= now
      /\ \A v \in Users : loosest[v].minute \in Int /\ loosest[v].day \in Int
  BY DEF FeedAssumption, RateInv, LimitTypes
<1>3. LimitTypes'
  <2>1. IsFiniteSet(admitted \cup {x}) /\ x.at = now
    BY <1>2, FS_AddElement
  <2>2. IsFiniteSet(admitted')
    BY <1>1, <1>2, <2>1
  <2>3. \A a \in admitted' : a.at \in Int /\ a.at <= now
    BY <1>1, <1>2, <2>1
  <2> QED  BY <1>1, <2>2, <2>3 DEF RateInv, LimitTypes
<1>4. LimitsAreTighter'
  BY <1>1 DEF RateInv, LimitsAreTighter
<1>5. \A v \in Users : v # u => OrdersOf(v)' = OrdersOf(v)
  BY <1>1 DEF OrdersOf
<1>6. OrdersOf(u)' = OrdersOf(u) \/ (~Exhausted(u) /\ OrdersOf(u)' = OrdersOf(u) \cup {x})
  BY <1>1 DEF OrdersOf
<1>7. IsFiniteSet(OrdersOf(u)) /\ \A a \in OrdersOf(u) : a.at \in Int /\ a.at <= now
  <2>1. OrdersOf(u) \in SUBSET admitted
    BY DEF OrdersOf
  <2> QED  BY <1>2, <2>1, FS_Subset
<1>8. ASSUME loosest[u].minute > 0 \/ loosest[u].day > 0
      PROVE  /\ limit[u] # NoLimit
             /\ \A c \in Int : c >= now - Day => Cardinality(AdmittedAfter(u, c)) <= Since(stamps[u], c)
  <2>1. limit[u] # NoLimit
    BY <1>1, <1>2, <1>8 DEF RateInv, LimitsAreTighter, NoLooser, NoLimit
  <2> QED  BY <1>1, <1>8, <2>1 DEF RateInv, AdmittedAreStamped
<1>9. AdmittedAreStamped'
  <2> SUFFICES ASSUME NEW v \in Users, loosest[v].minute > 0 \/ loosest[v].day > 0,
                      NEW c \in Int, c >= now - Day
               PROVE  Cardinality(AdmittedAfter(v, c)') <= Since(stamps'[v], c)
    BY <1>1 DEF AdmittedAreStamped, Since
  <2>1. CASE v # u
    <3>1. AdmittedAfter(v, c)' = AdmittedAfter(v, c)
      BY <1>5, <2>1 DEF AdmittedAfter
    <3>2. stamps'[v] = stamps[v]
      BY <1>1, <2>1
    <3> QED  BY <3>1, <3>2 DEF RateInv, AdmittedAreStamped
  <2>2. CASE v = u
    <3>1. /\ Cardinality(AdmittedAfter(u, c)) <= Since(stamps[u], c)
          /\ Since(stamps'[u], c) >= Since(stamps[u], c)
          /\ ~Exhausted(u) /\ now > c => Since(stamps'[u], c) >= Since(stamps[u], c) + 1
      BY <1>1, <1>8, <2>2
    <3>2. Since(stamps'[u], c) \in Nat /\ Since(stamps[u], c) \in Nat
      <4>1. stamps'[u] \in Seq(Int) /\ stamps[u] \in Seq(Int)
        BY <1>1 DEF RateInv, LimitTypes
      <4> QED  BY <4>1, SinceIsLater
    <3>3. AdmittedAfter(u, c) \in SUBSET OrdersOf(u)
      BY DEF AdmittedAfter
    <3>4. /\ Cardinality(AdmittedAfter(u, c)) \in Nat
          /\ Cardinality(AdmittedAfter(u, c) \cup {x}) \in Nat
          /\ Cardinality(AdmittedAfter(u, c) \cup {x}) <= Cardinality(AdmittedAfter(u, c)) + 1
      BY <1>7, <3>3, AdmittedGrows
    <3>5. CASE AdmittedAfter(u, c)' = AdmittedAfter(u, c)
      BY <2>2, <3>1, <3>2, <3>4, <3>5
    <3>6. CASE ~Exhausted(u) /\ now > c /\ AdmittedAfter(u, c)' = AdmittedAfter(u, c) \cup {x}
      BY <2>2, <3>1, <3>2, <3>4, <3>6
    <3>7. \/ AdmittedAfter(u, c)' = AdmittedAfter(u, c)
          \/ ~Exhausted(u) /\ now > c /\ AdmittedAfter(u, c)' = AdmittedAfter(u, c) \cup {x}
      <4>1. x.at = now
        OBVIOUS
      <4> QED  BY <1>6, <4>1 DEF AdmittedAfter
    <3> QED  BY <3>5, <3>6, <3>7
  <2> QED  BY <2>1, <2>2
<1>10. ASSUME NEW most \in Int, NEW window \in Nat, 0 < window, window <= Day,
              AtMostIn(OrdersOf(u), most, window),
              most > 0 => /\ loosest[u].minute > 0 \/ loosest[u].day > 0
                          /\ ~Exhausted(u) => Since(stamps[u], now - window) < most
       PROVE  AtMostIn(OrdersOf(u)', most, window)
  <2> DEFINE S == OrdersOf(u)
             T == OrdersOf(u)'
  <2>1. CASE ~(most > 0)
    BY <1>10, <2>1 DEF AtMostIn
  <2>2. CASE T = S
    BY <1>10, <2>2
  <2>3. CASE most > 0 /\ ~Exhausted(u) /\ T = S \cup {x}
    <3> DEFINE c == now - window
    <3>1. c \in Int /\ c >= now - Day /\ now > c
      BY <1>2, <1>10
    <3>2. Cardinality(AdmittedAfter(u, c)) <= Since(stamps[u], c) /\ Since(stamps[u], c) < most
      BY <1>8, <1>10, <2>3, <3>1
    <3>3. Since(stamps[u], c) \in Nat
      <4>1. stamps[u] \in Seq(Int)
        BY <1>1 DEF RateInv, LimitTypes
      <4> QED  BY <4>1, SinceIsLater
    <3>4. AdmittedAfter(u, c) \in SUBSET S
      BY DEF AdmittedAfter
    <3>5. /\ Cardinality(AdmittedAfter(u, c) \cup {x}) \in Nat
          /\ Cardinality(AdmittedAfter(u, c)) \in Nat
          /\ Cardinality(AdmittedAfter(u, c) \cup {x}) <= Cardinality(AdmittedAfter(u, c)) + 1
      BY <1>7, <3>4, AdmittedGrows
    <3>6. Cardinality(AdmittedAfter(u, c) \cup {x}) <= most
      BY <1>10, <3>2, <3>3, <3>5
    <3>7. AdmittedAfter(u, c) = {b \in S : b.at > now - window}
      BY DEF AdmittedAfter
    <3>8. ASSUME NEW a \in T PROVE Cardinality(InWindowOf(T, a, window)) <= most
      <4>1. x.at = now /\ (a = x \/ a \in S)
        BY <2>3, <3>8
      <4>2. a.at \in Int /\ a.at <= now /\ \A b \in S : b.at \in Int /\ b.at <= now
        BY <1>2, <1>7, <4>1
      <4>3. CASE a.at = now
        <5>1. \A b \in T : b.at <= a.at
          BY <1>2, <2>3, <4>1, <4>2, <4>3
        <5>2. \A b \in T : b.at > a.at - window <=> b \in AdmittedAfter(u, c) \cup {x}
          BY <1>2, <1>10, <2>3, <3>7, <4>1, <4>2, <4>3
        <5>3. AdmittedAfter(u, c) \cup {x} \subseteq T
          BY <2>3, <3>4
        <5>4. InWindowOf(T, a, window) = AdmittedAfter(u, c) \cup {x}
          BY <5>1, <5>2, <5>3 DEF InWindowOf
        <5> QED  BY <3>6, <5>4
      <4>4. CASE a.at < now
        <5>1. a \in S /\ ~(x.at <= a.at)
          BY <1>2, <4>1, <4>2, <4>4
        <5>2. InWindowOf(T, a, window) = InWindowOf(S, a, window)
          BY <2>3, <5>1 DEF InWindowOf
        <5>3. Cardinality(InWindowOf(S, a, window)) <= most
          BY <1>10, <2>3, <5>1 DEF AtMostIn
        <5> QED  BY <5>2, <5>3
      <4> QED  BY <1>2, <4>2, <4>3, <4>4
    <3> QED  BY <3>8 DEF AtMostIn
  <2> QED  BY <1>6, <1>10, <2>1, <2>2, <2>3
<1>11. \A v \in Users : /\ AtMostIn(OrdersOf(v), loosest[v].minute, Minute)
                        /\ AtMostIn(OrdersOf(v), loosest[v].day, Day)
  BY RateLimitIs DEF RateInv
<1>12. ASSUME NEW v \in Users
       PROVE  AtMostIn(OrdersOf(v)', loosest[v].minute, Minute) /\ AtMostIn(OrdersOf(v)', loosest[v].day, Day)
  <2>1. CASE v # u
    BY <1>5, <1>11, <2>1
  <2>2. CASE v = u
    <3>1. PICK minute, day : minute = loosest[u].minute /\ day = loosest[u].day
      OBVIOUS
    <3>2. /\ minute > 0 /\ ~Exhausted(u) => Since(stamps[u], now - Minute) < minute
          /\ day > 0 /\ ~Exhausted(u) => Since(stamps[u], now - Day) < day
      BY <1>1, <3>1, NotExhausted
    <3>3. minute \in Int /\ day \in Int
      BY <1>1, <1>2, <3>1
    <3>4. AtMostIn(OrdersOf(u), minute, Minute) /\ AtMostIn(OrdersOf(u), day, Day)
      BY <1>1, <1>11, <3>1
    <3>5. AtMostIn(OrdersOf(u)', minute, Minute)
      BY <1>2, <1>10, <3>1, <3>2, <3>3, <3>4
    <3>6. AtMostIn(OrdersOf(u)', day, Day)
      BY <1>2, <1>10, <3>1, <3>2, <3>3, <3>4
    <3> QED  BY <2>2, <3>1, <3>5, <3>6
  <2> QED  BY <2>1, <2>2
<1>13. RateLimitHolds'
  BY <1>1, <1>12, RateLimitThen
<1> QED  BY <1>3, <1>4, <1>9, <1>13 DEF RateInv

\* Time only takes moments out of the windows.
LEMMA TickKeepsRates ==
    ASSUME RateInv, Tick, FeedAssumption
    PROVE  RateInv'
<1>1. now' = now + 1 /\ UNCHANGED <<limit, loosest, stamps, admitted>> /\ now \in Nat /\ Day \in Nat
  BY DEF Tick, requestVars, FeedAssumption, RateInv, LimitTypes
<1>2. LimitTypes'
  BY <1>1 DEF RateInv, LimitTypes
<1>3. LimitsAreTighter' /\ RateLimitHolds'
  BY <1>1 DEF RateInv, LimitsAreTighter, RateLimitHolds
<1>4. \A u \in Users, c \in Int : /\ AdmittedAfter(u, c)' = AdmittedAfter(u, c)
                                 /\ Since(stamps[u], c)' = Since(stamps[u], c)
  BY <1>1 DEF AdmittedAfter, OrdersOf, Since
<1>5. \A c \in Int : c >= now' - Day => c >= now - Day
  BY <1>1
<1>6. AdmittedAreStamped'
  BY <1>1, <1>4, <1>5 DEF RateInv, AdmittedAreStamped
<1> QED  BY <1>2, <1>3, <1>6 DEF RateInv

\* What an administrator sets is not looser than the loosest there has been then.
LEMMA LimitsKeepRates ==
    ASSUME RateInv, UpdateUserRisk, FeedAssumption
    PROVE  RateInv'
<1>1. PICK u \in Users, l \in Limits :
          /\ limit' = [limit EXCEPT ![u] = l]
          /\ loosest' = [loosest EXCEPT ![u] =
                 [minute |-> Looser(@.minute, l.minute), day |-> Looser(@.day, l.day)]]
  BY DEF UpdateUserRisk
<1>2. UNCHANGED <<now, stamps, admitted>>
  BY DEF UpdateUserRisk
<1>3. l.minute \in Nat /\ l.day \in Nat /\ limit \in [Users -> Limits \cup {NoLimit}]
      /\ DOMAIN loosest = Users
      /\ \A v \in Users : loosest[v].minute \in Int /\ loosest[v].day \in Int
  BY DEF FeedAssumption, RateInv, LimitTypes
<1>4. /\ limit'[u] = l /\ \A v \in Users : v # u => limit'[v] = limit[v]
      /\ limit' \in [Users -> Limits \cup {NoLimit}]
  BY <1>1, <1>3
<1>5. /\ loosest'[u].minute = Looser(loosest[u].minute, l.minute)
      /\ loosest'[u].day = Looser(loosest[u].day, l.day)
      /\ \A v \in Users : v # u => loosest'[v] = loosest[v]
      /\ DOMAIN loosest' = Users
  BY <1>1, <1>3
<1>6. \A a, b \in Int :
          /\ Looser(a, b) \in Int
          /\ Looser(a, b) > 0 => a > 0 /\ a <= Looser(a, b) /\ b > 0 /\ b <= Looser(a, b)
  BY DEF Looser
<1>7. /\ loosest'[u].minute \in Int
      /\ loosest'[u].minute > 0 => /\ loosest[u].minute > 0 /\ loosest[u].minute <= loosest'[u].minute
                                   /\ l.minute > 0 /\ l.minute <= loosest'[u].minute
  <2>1. PICK a \in Int, b \in Int : a = loosest[u].minute /\ b = l.minute
    BY <1>3
  <2>2. loosest'[u].minute = Looser(a, b)
    BY <1>5, <2>1
  <2>3. /\ Looser(a, b) \in Int
        /\ Looser(a, b) > 0 => a > 0 /\ a <= Looser(a, b) /\ b > 0 /\ b <= Looser(a, b)
    BY <1>6
  <2> QED  BY <2>1, <2>2, <2>3
<1>8. /\ loosest'[u].day \in Int
      /\ loosest'[u].day > 0 => /\ loosest[u].day > 0 /\ loosest[u].day <= loosest'[u].day
                                /\ l.day > 0 /\ l.day <= loosest'[u].day
  <2>1. PICK a \in Int, b \in Int : a = loosest[u].day /\ b = l.day
    BY <1>3
  <2>2. loosest'[u].day = Looser(a, b)
    BY <1>5, <2>1
  <2>3. /\ Looser(a, b) \in Int
        /\ Looser(a, b) > 0 => a > 0 /\ a <= Looser(a, b) /\ b > 0 /\ b <= Looser(a, b)
    BY <1>6
  <2> QED  BY <2>1, <2>2, <2>3
<1>9. ASSUME NEW v \in Users
      PROVE  /\ loosest'[v].minute \in Int /\ loosest'[v].day \in Int
             /\ loosest'[v].minute > 0 => loosest[v].minute > 0 /\ loosest[v].minute <= loosest'[v].minute
             /\ loosest'[v].day > 0 => loosest[v].day > 0 /\ loosest[v].day <= loosest'[v].day
             /\ NoLooser(limit'[v].minute, loosest'[v].minute) /\ NoLooser(limit'[v].day, loosest'[v].day)
  <2>1. CASE v = u
    BY <1>4, <1>7, <1>8, <2>1 DEF NoLooser
  <2>2. CASE v # u
    <3>1. loosest'[v] = loosest[v] /\ limit'[v] = limit[v]
      BY <1>4, <1>5, <2>2
    <3>2. loosest[v].minute \in Int /\ loosest[v].day \in Int
      BY <1>3
    <3>3. NoLooser(limit[v].minute, loosest[v].minute) /\ NoLooser(limit[v].day, loosest[v].day)
      BY DEF RateInv, LimitsAreTighter
    <3> QED  BY <3>1, <3>2, <3>3
  <2> QED  BY <2>1, <2>2
<1>10. LimitTypes'
  BY <1>2, <1>4, <1>5, <1>9 DEF RateInv, LimitTypes
<1>11. LimitsAreTighter'
  BY <1>9 DEF LimitsAreTighter, NoLooser
<1>12. AdmittedAreStamped'
  BY <1>2, <1>9 DEF RateInv, AdmittedAreStamped, AdmittedAfter, OrdersOf, Since
<1>13. ASSUME NEW v \in Users, NEW window, NEW most \in Int, NEW more \in Int,
              AtMostIn(OrdersOf(v), most, window), more > 0 => most > 0 /\ most <= more
       PROVE  AtMostIn(OrdersOf(v), more, window)
  <2> SUFFICES ASSUME more > 0, NEW a \in OrdersOf(v)
               PROVE  Cardinality(InWindowOf(OrdersOf(v), a, window)) <= more
    BY DEF AtMostIn
  <2>1. IsFiniteSet(InWindowOf(OrdersOf(v), a, window))
    <3>1. InWindowOf(OrdersOf(v), a, window) \in SUBSET admitted
      BY DEF OrdersOf, InWindowOf
    <3> QED  BY <3>1, FS_Subset DEF RateInv, LimitTypes
  <2>2. Cardinality(InWindowOf(OrdersOf(v), a, window)) \in Nat
    BY <2>1, FS_CardinalityType
  <2>3. Cardinality(InWindowOf(OrdersOf(v), a, window)) <= most
    BY <1>13 DEF AtMostIn
  <2> QED  BY <1>13, <2>2, <2>3
<1>14. RateLimitHolds'
  <2> SUFFICES ASSUME NEW v \in Users
               PROVE  /\ AtMostIn(OrdersOf(v)', loosest'[v].minute, Minute)
                      /\ AtMostIn(OrdersOf(v)', loosest'[v].day, Day)
    BY RateLimitThen
  <2>1. PICK m, d, mm, dd : /\ m = loosest[v].minute /\ d = loosest[v].day
                            /\ mm = loosest'[v].minute /\ dd = loosest'[v].day
    OBVIOUS
  <2>2. /\ m \in Int /\ d \in Int /\ mm \in Int /\ dd \in Int
        /\ mm > 0 => m > 0 /\ m <= mm
        /\ dd > 0 => d > 0 /\ d <= dd
    BY <1>3, <1>9, <2>1
  <2>3. AtMostIn(OrdersOf(v), m, Minute) /\ AtMostIn(OrdersOf(v), d, Day)
    BY <2>1, RateLimitIs DEF RateInv
  <2>4. AtMostIn(OrdersOf(v), mm, Minute) /\ AtMostIn(OrdersOf(v), dd, Day)
    BY <1>13, <2>2, <2>3
  <2>5. OrdersOf(v)' = OrdersOf(v)
    BY <1>2 DEF OrdersOf
  <2> QED  BY <2>1, <2>4, <2>5
<1> QED  BY <1>10, <1>11, <1>12, <1>14 DEF RateInv

\* A new process knows neither limits nor orders.
LEMMA CrashKeepsRates ==
    ASSUME RateInv, Crash, FeedAssumption
    PROVE  RateInv'
<1>1. /\ limit' = Unlimited /\ loosest' = Unlimited /\ stamps' = [u \in Users |-> <<>>]
      /\ admitted' = {} /\ now' = now
  BY DEF Crash
<1>2. LimitTypes'
  BY <1>1, FS_EmptySet DEF RateInv, LimitTypes, Unlimited, NoLimit
<1>3. LimitsAreTighter' /\ AdmittedAreStamped' /\ RateLimitHolds'
  BY <1>1 DEF LimitsAreTighter, AdmittedAreStamped, RateLimitHolds, NoLooser, Unlimited, NoLimit
<1> QED  BY <1>2, <1>3 DEF RateInv

\* The other steps leave limits, stamps and the clock alone.
LEMMA FeedKeepsRates ==
    ASSUME RateInv, [Next]_vars
    PROVE  RateInv'
<1> DEFINE same == UNCHANGED <<now, limit, loosest, stamps, admitted>>
<1>1. CASE same
  <2>1. LimitTypes' /\ LimitsAreTighter'
    BY <1>1 DEF RateInv, LimitTypes, LimitsAreTighter
  <2>2. AdmittedAreStamped'
    BY <1>1 DEF RateInv, AdmittedAreStamped, AdmittedAfter, OrdersOf, Since
  <2>3. RateLimitHolds'
    BY <1>1 DEF RateInv, RateLimitHolds
  <2> QED  BY <2>1, <2>2, <2>3 DEF RateInv
<1>2. CASE OrderStep
  <2>1. ASSUME NEW r \in Requests, Check(r) \/ Fill(r) PROVE same
    BY <2>1 DEF Check, Fill
  <2> QED  BY <1>1, <1>2, <2>1, FeedAssumption, AdmitKeepsRates DEF OrderStep
<1>3. CASE SpillStep
  <2>1. same
    BY <1>3 DEF SpillStep, SpillSends, SpillGivesUp, requestVars
  <2> QED  BY <1>1, <2>1
<1>4. CASE BridgeStep
  <2>1. same
    BY <1>4 DEF BridgeStep, Take, RecordCandle, Publish, requestVars
  <2> QED  BY <1>1, <2>1
<1>5. CASE StreamStep
  <2>1. same
    BY <1>5 DEF StreamStep, StreamTrade, requestVars
  <2> QED  BY <1>1, <2>1
<1>6. CASE AdminStep
  <2>1. ASSUME SetTradingEnabled \/ UpdatePairRisk PROVE same
    BY <2>1 DEF SetTradingEnabled, UpdatePairRisk
  <2> QED  BY <1>1, <1>6, <2>1, FeedAssumption, LimitsKeepRates DEF AdminStep
<1>7. CASE Tick
  BY <1>7, FeedAssumption, TickKeepsRates
<1>8. CASE Crash
  BY <1>8, FeedAssumption, CrashKeepsRates
<1>9. CASE ConnectedStep
  <2>1. same
    BY <1>9 DEF ConnectedStep, FeedUnchanged, requestVars
  <2> QED  BY <1>1, <2>1
<1>10. CASE UNCHANGED vars
  <2>1. same
    BY <1>10 DEF vars, requestVars
  <2> QED  BY <1>1, <2>1
<1> QED
  BY <1>2, <1>3, <1>4, <1>5, <1>6, <1>7, <1>8, <1>9, <1>10 DEF Next

\* However many requests of a user are checked, in whatever order, and whatever
\* refused orders leave in the slice of his stamps, no more are admitted within a
\* minute or a day than the loosest limits he has had in this process (risk.go:258).
THEOREM RatesAreLimited == Spec => []RateLimitHolds
<1>1. Init => RateInv
  <2> SUFFICES ASSUME Init PROVE RateInv
    OBVIOUS
  <2>1. /\ workload \in Workloads /\ now = 0 /\ limit = [u \in Users |-> workload.limits] /\ loosest = limit
        /\ stamps = [u \in Users |-> <<>>] /\ admitted = {}
    BY DEF Init
  <2>2. workload.limits \in Limits \cup {NoLimit}
    BY <2>1, FeedAssumption DEF FeedAssumption
  <2>3. workload.limits.minute \in Int /\ workload.limits.day \in Int
    BY <2>2, FeedAssumption DEF FeedAssumption, NoLimit
  <2>4. LimitTypes
    BY <2>1, <2>2, <2>3, FS_EmptySet DEF LimitTypes
  <2>5. LimitsAreTighter
    BY <2>1, <2>3 DEF LimitsAreTighter, NoLooser
  <2>6. RateLimitHolds
    BY <2>1 DEF RateLimitHolds
  <2>7. AdmittedAreStamped
    <3> SUFFICES ASSUME NEW u \in Users, NEW c \in Int
                 PROVE  Cardinality(AdmittedAfter(u, c)) <= Since(stamps[u], c)
      BY DEF AdmittedAreStamped
    <3>1. Cardinality(AdmittedAfter(u, c)) = 0
      BY <2>1, FS_EmptySet DEF AdmittedAfter, OrdersOf
    <3>2. Since(stamps[u], c) \in Nat
      <4>1. stamps[u] \in Seq(Int)
        BY <2>4 DEF LimitTypes
      <4> QED  BY <4>1, SinceIsLater
    <3> QED  BY <3>1, <3>2
  <2> QED  BY <2>4, <2>5, <2>6, <2>7 DEF RateInv
<1>2. RateInv => RateLimitHolds
  BY DEF RateInv
<1> QED  BY <1>1, <1>2, FeedKeepsRates, PTL DEF Spec

-------------------------------------------------------------------------------
(* One pair of hands for every trade.                                        *)

\* Nothing stands in a sequence twice.
Once(s) == \A a, b \in DOMAIN s : s[a] = s[b] => a = b

\* Numbers of trades, wherever they are held, and those of this process in the
\* hands of the engine.
HandTypes ==
    /\ boot \in 0..Len(executed)
    /\ delivered \in Seq(Nat) /\ streamed \in [Streams -> Seq(Nat)] /\ lost \subseteq Nat
    /\ Range(channel) \cup spilled \subseteq (boot + 1)..Len(executed)

NobodyHasTwo ==
    /\ Once(channel) /\ Once(delivered) /\ \A s \in Streams : Once(streamed[s])
    /\ \A x \in Range(channel) : x \notin spilled /\ x \notin Range(delivered) /\ x \notin lost
    /\ \A x \in spilled : x \notin Range(delivered) /\ x \notin lost
    /\ \A x \in Range(delivered) : x \notin lost
    /\ \A s \in Streams : \A x \in Range(streamed[s]) :
           /\ x \notin Range(channel) /\ x \notin spilled
           /\ x \notin Range(delivered) /\ x \notin lost
           /\ \A r \in Streams \ {s} : x \notin Range(streamed[r])

Streaming == UNION {Range(streamed[s]) : s \in Streams}

AllAreHeld ==
    Range(channel) \cup spilled \cup Range(delivered) \cup lost \cup Streaming = 1..Len(executed)

HandsInv == FeedTypes /\ HandTypes /\ NobodyHasTwo /\ AllAreHeld

\* What a sequence holds when something new is appended,
LEMMA OnceAppended ==
    ASSUME NEW s \in Seq(Nat), Once(s), NEW x \in Nat, x \notin Range(s)
    PROVE  /\ Append(s, x) \in Seq(Nat) /\ Once(Append(s, x))
           /\ Range(Append(s, x)) = Range(s) \cup {x}
<1>1. /\ Append(s, x) \in Seq(Nat) /\ Len(Append(s, x)) = Len(s) + 1 /\ Len(s) \in Nat
      /\ \A n \in 1..Len(s) : Append(s, x)[n] = s[n]
      /\ Append(s, x)[Len(s) + 1] = x
      /\ DOMAIN s = 1..Len(s) /\ DOMAIN Append(s, x) = 1..(Len(s) + 1)
  BY AppendProperties, LenProperties
<1>2. PICK t : t = Append(s, x)
  OBVIOUS
<1>3. Range(t) = Range(s) \cup {x}
  BY <1>1, <1>2 DEF Range
<1>4. \A n \in 1..Len(s) : s[n] # x
  BY <1>1 DEF Range
<1>5. Once(t)
  <2> SUFFICES ASSUME NEW a \in 1..(Len(s) + 1), NEW b \in 1..(Len(s) + 1), t[a] = t[b] PROVE a = b
    BY <1>1, <1>2 DEF Once
  <2>1. CASE a \in 1..Len(s) /\ b \in 1..Len(s)
    BY <1>1, <1>2, <2>1 DEF Once
  <2>2. CASE a = Len(s) + 1
    BY <1>1, <1>2, <1>4, <2>2
  <2>3. CASE b = Len(s) + 1
    BY <1>1, <1>2, <1>4, <2>3
  <2>4. a \in 1..Len(s) \/ a = Len(s) + 1
    BY <1>1
  <2>5. b \in 1..Len(s) \/ b = Len(s) + 1
    BY <1>1
  <2> QED  BY <2>1, <2>2, <2>3, <2>4, <2>5
<1> QED  BY <1>1, <1>2, <1>3, <1>5

\* and when its first element is taken.
LEMMA OnceTaken ==
    ASSUME NEW s \in Seq(Nat), Once(s), s # <<>>
    PROVE  /\ Tail(s) \in Seq(Nat) /\ Once(Tail(s)) /\ Head(s) \in Nat
           /\ Head(s) \in Range(s) /\ Range(Tail(s)) = Range(s) \ {Head(s)}
<1>1. /\ Tail(s) \in Seq(Nat) /\ Len(Tail(s)) = Len(s) - 1 /\ Len(s) \in Nat \ {0}
      /\ \A n \in 1..(Len(s) - 1) : Tail(s)[n] = s[n + 1]
      /\ DOMAIN s = 1..Len(s) /\ DOMAIN Tail(s) = 1..(Len(s) - 1)
      /\ Head(s) = s[1] /\ Head(s) \in Nat
  BY HeadTailProperties, LenProperties, EmptySeq
<1>2. PICK t : t = Tail(s)
  OBVIOUS
<1>3. Once(t)
  BY <1>1, <1>2 DEF Once
<1>4. Head(s) \in Range(s)
  BY <1>1 DEF Range
<1>5. \A n \in 2..Len(s) : s[n] # s[1]
  BY <1>1 DEF Once
<1>6. Range(t) \subseteq Range(s) \ {s[1]}
  BY <1>1, <1>2, <1>5 DEF Range
<1>7. ASSUME NEW y \in Range(s), y # s[1] PROVE y \in Range(t)
  <2>1. PICK n \in 1..Len(s) : s[n] = y
    BY <1>1 DEF Range
  <2>2. n - 1 \in 1..(Len(s) - 1) /\ (n - 1) + 1 = n
    BY <1>1, <1>7, <2>1
  <2>3. t[n - 1] = y
    BY <1>1, <1>2, <2>1, <2>2
  <2> QED  BY <1>1, <1>2, <2>2, <2>3 DEF Range
<1> QED  BY <1>1, <1>2, <1>3, <1>4, <1>6, <1>7

\* The property: who holds a trade holds it once and alone.
LEMMA HeldOnce == ASSUME HandsInv PROVE TradesInOneHand
<1> SUFFICES ASSUME NEW id \in DOMAIN executed
             PROVE  \E h \in Hands(id) : Hands(id) = {h}
  BY DEF TradesInOneHand
<1> DEFINE InChannel == HeldIn(<<"channel">>, channel, id)
           InBridge == HeldIn(<<"bridge">>, delivered, id)
           InStream(s) == HeldIn(<<"stream", s>>, streamed[s], id)
           InStreams == UNION {InStream(s) : s \in Streams}
           InGoroutine == {<<"goroutine">>} \X (spilled \cap {id})
           InNobody == {<<"nobody">>} \X (lost \cap {id})
<1>1. id \in 1..Len(executed)
  BY LenProperties DEF HandsInv, FeedTypes
<1>2. Hands(id) = InChannel \cup InBridge \cup InStreams \cup InGoroutine \cup InNobody
  BY DEF Hands
<1>3. ASSUME NEW whose, NEW trades, Once(trades)
      PROVE  /\ id \notin Range(trades) => HeldIn(whose, trades, id) = {}
             /\ id \in Range(trades) => \E h : HeldIn(whose, trades, id) = {h}
  <2>1. ASSUME id \in Range(trades) PROVE \E h : HeldIn(whose, trades, id) = {h}
    <3>1. PICK k \in DOMAIN trades : trades[k] = id
      BY <2>1 DEF Range
    <3>2. {n \in DOMAIN trades : trades[n] = id} = {k}
      BY <1>3, <3>1 DEF Once
    <3>3. HeldIn(whose, trades, id) = {<<whose, k>>}
      BY <3>2 DEF HeldIn
    <3> QED  BY <3>3
  <2>2. ASSUME id \notin Range(trades) PROVE HeldIn(whose, trades, id) = {}
    <3>1. {n \in DOMAIN trades : trades[n] = id} = {}
      BY <2>2 DEF Range
    <3> QED  BY <3>1 DEF HeldIn
  <2> QED  BY <2>1, <2>2
<1>4. /\ id \notin Range(channel) => InChannel = {}
      /\ id \in Range(channel) => \E h : InChannel = {h}
      /\ id \notin Range(delivered) => InBridge = {}
      /\ id \in Range(delivered) => \E h : InBridge = {h}
  BY <1>3 DEF HandsInv, NobodyHasTwo
<1>5. ASSUME NEW s \in Streams
      PROVE  /\ id \notin Range(streamed[s]) => InStream(s) = {}
             /\ id \in Range(streamed[s]) => \E h : InStream(s) = {h}
  BY <1>3 DEF HandsInv, NobodyHasTwo
<1>6. /\ id \notin spilled => InGoroutine = {}
      /\ id \in spilled => \E h : InGoroutine = {h}
      /\ id \notin lost => InNobody = {}
      /\ id \in lost => \E h : InNobody = {h}
  <2>1. ASSUME NEW w, NEW S
        PROVE  /\ id \notin S => {w} \X (S \cap {id}) = {}
               /\ id \in S => {w} \X (S \cap {id}) = {<<w, id>>}
    OBVIOUS
  <2> QED  BY <2>1
<1> HIDE DEF InChannel, InBridge, InStream, InGoroutine, InNobody
<1>7. id \notin Streaming => InStreams = {}
  BY <1>5 DEF Streaming
<1>8. id \in Streaming => \E h : InStreams = {h}
  <2> SUFFICES ASSUME id \in Streaming PROVE \E h : InStreams = {h}
    OBVIOUS
  <2>1. PICK s \in Streams : id \in Range(streamed[s])
    BY DEF Streaming
  <2>2. \A r \in Streams \ {s} : id \notin Range(streamed[r])
    BY <2>1 DEF HandsInv, NobodyHasTwo
  <2>3. PICK h : InStream(s) = {h}
    BY <1>5, <2>1
  <2>4. \A r \in Streams \ {s} : InStream(r) = {}
    BY <1>5, <2>2
  <2>5. InStreams = InStream(s)
    BY <2>4
  <2> QED  BY <2>3, <2>5
<1> HIDE DEF InStreams
<1>9. id \in Range(channel) \/ id \in spilled \/ id \in Range(delivered) \/ id \in lost \/ id \in Streaming
  BY <1>1 DEF HandsInv, AllAreHeld
<1>10. /\ id \in Range(channel) => id \notin spilled
       /\ id \in Range(delivered) => id \notin Range(channel) /\ id \notin spilled
       /\ id \in lost => id \notin Range(channel) /\ id \notin spilled /\ id \notin Range(delivered)
       /\ id \in Streaming => id \notin Range(channel) /\ id \notin spilled
                              /\ id \notin Range(delivered) /\ id \notin lost
  BY DEF HandsInv, NobodyHasTwo, Streaming
<1>11. CASE id \in Range(channel)
  BY <1>2, <1>4, <1>6, <1>7, <1>10, <1>11
<1>12. CASE id \in spilled
  BY <1>2, <1>4, <1>6, <1>7, <1>10, <1>12
<1>13. CASE id \in Range(delivered)
  BY <1>2, <1>4, <1>6, <1>7, <1>10, <1>13
<1>14. CASE id \in lost
  BY <1>2, <1>4, <1>6, <1>7, <1>10, <1>14
<1>15. CASE id \in Streaming
  BY <1>2, <1>4, <1>6, <1>8, <1>10, <1>15
<1> QED  BY <1>9, <1>11, <1>12, <1>13, <1>14, <1>15

\* A trade that has just been made goes to the channel or to a goroutine.
LEMMA NewTradeIsHeld ==
    ASSUME HandsInv, NEW id, id = Len(executed) + 1, Emit(id), Len(executed') = id,
           FeedTypes', UNCHANGED <<boot, delivered, streamed, lost>>
    PROVE  HandsInv'
<1>1. /\ id \in Nat /\ channel \in Seq(Nat) /\ Len(executed) \in Nat
      /\ \A x \in 1..Len(executed) : x # id
  BY LenProperties DEF HandsInv, FeedTypes
<1>2. 1..id = 1..Len(executed) \cup {id} /\ (boot + 1)..id = (boot + 1)..Len(executed) \cup {id}
      /\ boot \in 0..id
  BY <1>1 DEF HandsInv, HandTypes
<1>3. /\ id \notin Range(channel) /\ id \notin spilled /\ id \notin Range(delivered) /\ id \notin lost
      /\ id \notin Streaming
  BY <1>1 DEF HandsInv, AllAreHeld
<1>4. Streaming' = Streaming
  BY DEF Streaming
<1>5. \/ /\ Range(channel') = Range(channel) \cup {id} /\ Once(channel') /\ spilled' = spilled
      \/ /\ channel' = channel /\ spilled' = spilled \cup {id}
  BY <1>1, <1>3, OnceAppended DEF Emit, HandsInv, NobodyHasTwo
<1>6. /\ Range(channel') \cup spilled' = Range(channel) \cup spilled \cup {id}
      /\ \A x \in Range(channel') : x \notin spilled'
      /\ Once(channel')
  BY <1>3, <1>5 DEF HandsInv, NobodyHasTwo
<1>7. HandTypes'
  BY <1>2, <1>6 DEF HandsInv, HandTypes
<1>8. \A s \in Streams : id \notin Range(streamed[s])
  BY <1>3 DEF Streaming
<1>9. NobodyHasTwo'
  BY <1>3, <1>6, <1>8 DEF HandsInv, NobodyHasTwo
<1>10. AllAreHeld'
  BY <1>2, <1>4, <1>6 DEF HandsInv, AllAreHeld
<1> QED  BY <1>7, <1>9, <1>10 DEF HandsInv

\* A goroutine hands its trade to the channel, or lets it go.
LEMMA SpillKeepsHands ==
    ASSUME HandsInv, NEW id \in spilled, SpillSends(id) \/ SpillGivesUp(id), FeedTypes'
    PROVE  HandsInv'
<1>1. UNCHANGED <<executed, boot, delivered, streamed>> /\ spilled' = spilled \ {id}
  BY DEF SpillSends, SpillGivesUp, recorderVars, bridgeVars
<1>2. id \in Nat /\ channel \in Seq(Nat) /\ id \in 1..Len(executed)
  BY DEF HandsInv, FeedTypes, HandTypes, AllAreHeld
<1>3. /\ id \notin Range(channel) /\ id \notin Range(delivered) /\ id \notin lost
      /\ \A s \in Streams : id \notin Range(streamed[s])
  BY DEF HandsInv, NobodyHasTwo
<1>4. \/ Range(channel') = Range(channel) \cup {id} /\ Once(channel') /\ lost' = lost
      \/ channel' = channel /\ lost' = lost \cup {id}
  BY <1>2, <1>3, OnceAppended DEF SpillSends, SpillGivesUp, HandsInv, NobodyHasTwo
<1>5. Streaming' = Streaming
  BY <1>1 DEF Streaming
<1>6. HandTypes'
  BY <1>1, <1>2, <1>4 DEF HandsInv, HandTypes
<1>7. NobodyHasTwo'
  BY <1>1, <1>3, <1>4 DEF HandsInv, NobodyHasTwo
<1>8. AllAreHeld'
  BY <1>1, <1>4, <1>5 DEF HandsInv, AllAreHeld
<1> QED  BY <1>6, <1>7, <1>8 DEF HandsInv

\* Who receives from the channel has what was first in it.
LEMMA ReceivingKeepsHands ==
    ASSUME HandsInv, channel # <<>>, channel' = Tail(channel),
           UNCHANGED <<executed, boot, spilled>>, FeedTypes',
           \/ delivered' = Append(delivered, Head(channel)) /\ UNCHANGED <<streamed, lost>>
           \/ lost' = lost \cup {Head(channel)} /\ UNCHANGED <<streamed, delivered>>
           \/ /\ \E s \in Streams : streamed' = [streamed EXCEPT ![s] = Append(@, Head(channel))]
              /\ UNCHANGED <<delivered, lost>>
    PROVE  HandsInv'
<1> DEFINE id == Head(channel)
<1>1. /\ id \in Nat /\ id \in Range(channel) /\ Range(channel') = Range(channel) \ {id}
      /\ Once(channel')
  BY OnceTaken DEF HandsInv, FeedTypes, NobodyHasTwo
<1> HIDE DEF id
<1>2. /\ id \notin spilled /\ id \notin Range(delivered) /\ id \notin lost
      /\ \A s \in Streams : id \notin Range(streamed[s])
      /\ id \in 1..Len(executed)
  BY <1>1 DEF HandsInv, NobodyHasTwo, AllAreHeld
<1>3. CASE delivered' = Append(delivered, id) /\ UNCHANGED <<streamed, lost>>
  <2>1. delivered' \in Seq(Nat) /\ Once(delivered') /\ Range(delivered') = Range(delivered) \cup {id}
    BY <1>1, <1>2, <1>3, OnceAppended DEF HandsInv, HandTypes, NobodyHasTwo
  <2>2. HandTypes'
    BY <1>1, <1>3, <2>1 DEF HandsInv, HandTypes
  <2>3. NobodyHasTwo'
    BY <1>1, <1>2, <1>3, <2>1 DEF HandsInv, NobodyHasTwo
  <2>4. Streaming' = Streaming
    BY <1>3 DEF Streaming
  <2>5. AllAreHeld'
    BY <1>1, <1>3, <2>1, <2>4 DEF HandsInv, AllAreHeld
  <2> QED  BY <2>2, <2>3, <2>5 DEF HandsInv
<1>4. CASE lost' = lost \cup {id} /\ UNCHANGED <<streamed, delivered>>
  <2>1. HandTypes'
    BY <1>1, <1>4 DEF HandsInv, HandTypes
  <2>2. NobodyHasTwo'
    BY <1>1, <1>2, <1>4 DEF HandsInv, NobodyHasTwo
  <2>3. Streaming' = Streaming
    BY <1>4 DEF Streaming
  <2>4. AllAreHeld'
    BY <1>1, <1>4, <2>3 DEF HandsInv, AllAreHeld
  <2> QED  BY <2>1, <2>2, <2>4 DEF HandsInv
<1>5. ASSUME NEW s \in Streams, streamed' = [streamed EXCEPT ![s] = Append(@, id)],
             UNCHANGED <<delivered, lost>>
      PROVE  HandsInv'
  <2>1. streamed \in [Streams -> Seq(Nat)]
    BY DEF HandsInv, HandTypes
  <2>2. /\ streamed'[s] = Append(streamed[s], id)
        /\ \A r \in Streams \ {s} : streamed'[r] = streamed[r]
    BY <1>5, <2>1
  <2>3. /\ Append(streamed[s], id) \in Seq(Nat) /\ Once(Append(streamed[s], id))
        /\ Range(Append(streamed[s], id)) = Range(streamed[s]) \cup {id}
    BY <1>1, <1>2, <2>1, OnceAppended DEF HandsInv, NobodyHasTwo
  <2>4. streamed' \in [Streams -> Seq(Nat)]
    BY <1>5, <2>1, <2>3
  <2>5. /\ Range(streamed'[s]) = Range(streamed[s]) \cup {id} /\ Once(streamed'[s])
    BY <2>2, <2>3
  <2>6. HandTypes'
    BY <1>1, <1>5, <2>4 DEF HandsInv, HandTypes
  <2>7. \A r \in Streams :
            /\ Once(streamed'[r])
            /\ Range(streamed'[r]) \subseteq Range(streamed[r]) \cup {id}
            /\ r # s => Range(streamed'[r]) = Range(streamed[r])
    BY <2>2, <2>5 DEF HandsInv, NobodyHasTwo
  <2>8. ASSUME NEW r \in Streams, NEW x \in Range(streamed'[r])
        PROVE  /\ x \notin Range(channel') /\ x \notin spilled'
               /\ x \notin Range(delivered') /\ x \notin lost'
    <3>1. UNCHANGED <<spilled, delivered, lost>>
      BY <1>5
    <3>2. CASE x = id
      BY <1>1, <1>2, <3>1, <3>2
    <3>3. CASE x \in Range(streamed[r])
      BY <1>1, <3>1, <3>3 DEF HandsInv, NobodyHasTwo
    <3> QED  BY <2>7, <3>2, <3>3
  <2>9. ASSUME NEW r \in Streams, NEW x \in Range(streamed'[r]), NEW q \in Streams \ {r}
        PROVE  x \notin Range(streamed'[q])
    <3>1. CASE r = s
      <4>1. Range(streamed'[q]) = Range(streamed[q]) /\ x \in Range(streamed[s]) \cup {id}
        BY <2>5, <2>7, <3>1
      <4> QED  BY <1>2, <3>1, <4>1 DEF HandsInv, NobodyHasTwo
    <3>2. CASE r # s
      <4>1. x \in Range(streamed[r]) /\ Range(streamed'[q]) \subseteq Range(streamed[q]) \cup {id}
        BY <2>7, <3>2
      <4> QED  BY <1>2, <4>1 DEF HandsInv, NobodyHasTwo
    <3> QED  BY <3>1, <3>2
  <2>10. /\ \A x \in Range(channel') : x \notin spilled' /\ x \notin Range(delivered') /\ x \notin lost'
         /\ \A x \in spilled' : x \notin Range(delivered') /\ x \notin lost'
         /\ \A x \in Range(delivered') : x \notin lost'
    BY <1>1, <1>5 DEF HandsInv, NobodyHasTwo
  <2>11. NobodyHasTwo'
    <3>1. Once(channel') /\ Once(delivered') /\ \A r \in Streams : Once(streamed'[r])
      BY <1>1, <1>5, <2>7 DEF HandsInv, NobodyHasTwo
    <3> QED  BY <2>8, <2>9, <2>10, <3>1 DEF NobodyHasTwo
  <2>12. Streaming' = Streaming \cup {id}
    <3>1. ASSUME NEW x PROVE x \in Streaming' <=> x \in Streaming \cup {id}
      <4>1. x \in Streaming' <=> \E r \in Streams : x \in Range(streamed'[r])
        BY DEF Streaming
      <4>2. x \in Streaming <=> \E r \in Streams : x \in Range(streamed[r])
        BY DEF Streaming
      <4>3. ASSUME NEW r \in Streams, r # s PROVE Range(streamed'[r]) = Range(streamed[r])
        BY <2>7, <4>3
      <4> QED  BY <2>5, <4>1, <4>2, <4>3
    <3> QED  BY <3>1
  <2>13. AllAreHeld'
    BY <1>1, <1>5, <2>12 DEF HandsInv, AllAreHeld
  <2> QED  BY <2>6, <2>11, <2>13 DEF HandsInv
<1> QED  BY <1>3, <1>4, <1>5 DEF id

-------------------------------------------------------------------------------

\* What the log makes again after a crash: nothing, or the last trade at its old price
\* with a new number.
LEMMA CrashReplays ==
    ASSUME FeedTypes, Crash
    PROVE  \/ /\ executed' = executed /\ tape' = <<>> /\ channel' = <<>>
              /\ series' = [i \in Ordinals |-> <<>>]
           \/ \E price \in Nat :
                  LET trade == [id |-> Len(executed) + 1, price |-> price, at |-> now]
                  IN  /\ executed' = Append(executed, trade) /\ tape' = <<trade>>
                      /\ channel' = <<Len(executed) + 1>>
                      /\ series' = [i \in Ordinals |-> <<Opened(trade, Bucket(i, now))>>]
<1> USE DEF FeedTypes
<1>1. PICK again \in {<<>>} \cup {<<executed[n].price>> : n \in DOMAIN executed \cap {Len(executed)}} :
          LET trades == [k \in DOMAIN again |->
                  [id |-> Len(executed) + k, price |-> again[k], at |-> now]]
          IN  /\ executed' = executed \o trades
              /\ tape' = trades
              /\ series' = [i \in Ordinals |-> [k \in DOMAIN trades |->
                     Opened(trades[k], Bucket(i, now))]]
              /\ channel' = [k \in DOMAIN trades |-> trades[k].id]
  BY DEF Crash
<1> DEFINE trades == [k \in DOMAIN again |-> [id |-> Len(executed) + k, price |-> again[k], at |-> now]]
<1>2. /\ executed' = executed \o trades /\ tape' = trades
      /\ series' = [i \in Ordinals |-> [k \in DOMAIN trades |-> Opened(trades[k], Bucket(i, now))]]
      /\ channel' = [k \in DOMAIN trades |-> trades[k].id]
  BY <1>1
<1>3. CASE again = <<>>
  <2>1. trades = <<>>
    BY <1>3
  <2> HIDE DEF trades
  <2>2. executed' = executed
    BY <1>2, <2>1, ConcatEmptySeq
  <2>3. channel' = <<>> /\ tape' = <<>>
    BY <1>2, <2>1
  <2>4. series' = [i \in Ordinals |-> <<>>]
    <3>1. \A i \in Ordinals : [k \in DOMAIN trades |-> Opened(trades[k], Bucket(i, now))] = <<>>
      BY <2>1
    <3> QED  BY <1>2, <3>1
  <2> QED  BY <2>2, <2>3, <2>4
<1>4. CASE again # <<>>
  <2>1. PICK n \in DOMAIN executed : again = <<executed[n].price>>
    BY <1>1, <1>4
  <2>2. executed[n] \in Trades
    BY <2>1, ElementOfSeq
  <2>3. PICK p \in Nat : p = executed[n].price
    BY <2>2 DEF Trades
  <2>4. DOMAIN again = {1} /\ again[1] = p
    BY <2>1, <2>3
  <2>5. PICK trade : trade = [id |-> Len(executed) + 1, price |-> p, at |-> now]
    OBVIOUS
  <2>6. trades = [k \in {1} |-> trade]
    BY <2>4, <2>5
  <2>7. trades = <<trade>>
    BY <2>6
  <2>8. DOMAIN trades = {1} /\ trades[1] = trade
    BY <2>6
  <2> HIDE DEF trades
  <2>9. Len(executed) \in Nat /\ trade.id = Len(executed) + 1 /\ trade \in Trades
    BY <2>5, LenProperties DEF Trades
  <2>10. executed' = Append(executed, trade)
    BY <1>2, <2>7, <2>9, AppendIsConcat
  <2>11. channel' = <<Len(executed) + 1>>
    BY <1>2, <2>8, <2>9
  <2>12. series' = [i \in Ordinals |-> <<Opened(trade, Bucket(i, now))>>]
    <3>1. \A i \in Ordinals : [k \in DOMAIN trades |-> Opened(trades[k], Bucket(i, now))]
                                 = <<Opened(trade, Bucket(i, now))>>
      <4> SUFFICES ASSUME NEW i \in Ordinals
                   PROVE  [k \in DOMAIN trades |-> Opened(trades[k], Bucket(i, now))]
                              = <<Opened(trade, Bucket(i, now))>>
        OBVIOUS
      <4>1. PICK c : c = Opened(trade, Bucket(i, now))
        OBVIOUS
      <4>2. [k \in DOMAIN trades |-> Opened(trades[k], Bucket(i, now))] = [k \in {1} |-> c]
        BY <2>8, <4>1
      <4> QED  BY <4>1, <4>2
    <3> QED  BY <1>2, <3>1
  <2>13. tape' = <<trade>>
    BY <1>2, <2>7
  <2> QED  BY <2>3, <2>5, <2>10, <2>11, <2>12, <2>13
<1> QED  BY <1>3, <1>4

\* A crash loses what only its process had.
LEMMA CrashKeepsHands ==
    ASSUME HandsInv, Crash, FeedTypes'
    PROVE  HandsInv'
<1> DEFINE n == Len(executed)
<1>1. n \in Nat /\ Len(executed') \in Nat
  BY LenProperties DEF HandsInv, FeedTypes
<1>2. /\ UNCHANGED <<delivered, streamed>> /\ boot' = n /\ spilled' = {}
      /\ lost' = lost \cup (((boot + 1)..n) \ (Range(delivered) \cup Streaming))
  BY DEF Crash, Streaming
<1>3. /\ Once(channel')
      /\ \/ Len(executed') = n /\ Range(channel') = {}
         \/ Len(executed') = n + 1 /\ Range(channel') = {n + 1}
  <2>1. Once(<<>>) /\ Range(<<>>) = {}
    BY DEF Once, Range
  <2>2. Once(<<n + 1>>) /\ Range(<<n + 1>>) = {n + 1}
    BY DEF Once, Range
  <2>3. CASE executed' = executed /\ channel' = <<>>
    BY <2>1, <2>3
  <2>4. ASSUME NEW trade, trade \in Trades, executed' = Append(executed, trade), channel' = <<n + 1>>
        PROVE  Len(executed') = n + 1 /\ Once(channel') /\ Range(channel') = {n + 1}
    BY <2>2, <2>4, AppendProperties DEF HandsInv, FeedTypes
  <2>5. \A price \in Nat : [id |-> n + 1, price |-> price, at |-> now] \in Trades
    BY <1>1 DEF Trades, HandsInv, FeedTypes
  <2> HIDE DEF n
  <2>6. \/ executed' = executed /\ channel' = <<>>
        \/ \E trade \in Trades : executed' = Append(executed, trade) /\ channel' = <<n + 1>>
    BY <2>5, CrashReplays DEF HandsInv, n
  <2> QED  BY <2>3, <2>4, <2>6 DEF n
<1>4. /\ boot \in 0..n /\ lost \subseteq 1..n /\ Range(delivered) \subseteq 1..n
      /\ Streaming \subseteq 1..n /\ Range(channel) \cup spilled \subseteq (boot + 1)..n
      /\ Range(channel) \cup spilled \cup Range(delivered) \cup lost \cup Streaming = 1..n
  BY DEF HandsInv, HandTypes, AllAreHeld
<1>5. \A s \in Streams : Range(streamed[s]) \subseteq Streaming
  BY DEF Streaming
<1> HIDE DEF n
<1>6. 1..Len(executed') = 1..n \cup Range(channel')
  BY <1>1, <1>3
<1>7. \A x \in Range(channel') : x \notin 1..n
  BY <1>1, <1>3
<1>8. (boot + 1)..n \subseteq 1..n /\ lost' \subseteq 1..n
  BY <1>1, <1>2, <1>4
<1>9. HandTypes'
  <2>1. boot' \in 0..Len(executed') /\ Range(channel') \subseteq (n + 1)..Len(executed')
    BY <1>1, <1>2, <1>3
  <2>2. lost' \subseteq Nat
    BY <1>8
  <2> QED  BY <1>2, <2>1, <2>2 DEF HandsInv, HandTypes
<1>10. NobodyHasTwo'
  <2>1. Once(channel') /\ Once(delivered') /\ \A s \in Streams : Once(streamed'[s])
    BY <1>2, <1>3 DEF HandsInv, NobodyHasTwo
  <2>2. \A x \in Range(channel') : x \notin spilled' /\ x \notin Range(delivered') /\ x \notin lost'
    BY <1>2, <1>4, <1>7, <1>8
  <2>3. \A x \in Range(delivered') : x \notin lost'
    BY <1>2 DEF HandsInv, NobodyHasTwo
  <2>4. ASSUME NEW s \in Streams, NEW x \in Range(streamed'[s])
        PROVE  /\ x \notin Range(channel') /\ x \notin spilled'
               /\ x \notin Range(delivered') /\ x \notin lost'
               /\ \A r \in Streams \ {s} : x \notin Range(streamed'[r])
    <3>1. x \in Range(streamed[s]) /\ x \in Streaming /\ x \in 1..n
      BY <1>2, <1>4, <1>5, <2>4
    <3> QED  BY <1>2, <1>7, <3>1 DEF HandsInv, NobodyHasTwo
  <2> QED  BY <1>2, <2>1, <2>2, <2>3, <2>4 DEF NobodyHasTwo
<1>11. AllAreHeld'
  <2>1. Streaming' = Streaming
    BY <1>2 DEF Streaming
  <2>2. 1..n = Range(delivered) \cup lost' \cup Streaming
    BY <1>2, <1>4, <1>8
  <2> QED  BY <1>2, <1>6, <2>1, <2>2 DEF AllAreHeld
<1> QED  BY <1>9, <1>10, <1>11 DEF HandsInv

\* The other steps leave all hands as they are.
LEMMA FeedKeepsHands ==
    ASSUME HandsInv, [Next]_vars
    PROVE  HandsInv'
<1> DEFINE same == UNCHANGED <<executed, boot, channel, spilled, delivered, streamed, lost>>
<1>0. FeedTypes /\ FeedTypes'
  BY FeedStaysTyped DEF HandsInv
<1>1. ASSUME same PROVE HandsInv'
  <2>1. HandTypes' /\ NobodyHasTwo'
    BY <1>1 DEF HandsInv, HandTypes, NobodyHasTwo
  <2>2. AllAreHeld'
    BY <1>1 DEF HandsInv, AllAreHeld, Streaming
  <2> QED  BY <1>0, <2>1, <2>2 DEF HandsInv
<1>2. ASSUME NEW r \in Requests, Check(r) \/ Admit(r) PROVE same
  BY <1>2 DEF Check, Admit, recorderVars, bridgeVars
<1>3. ASSUME NEW r \in Requests, Fill(r) PROVE HandsInv'
  <2>1. PICK price \in Nat : LET trade == [id |-> Len(executed) + 1, price |-> price, at |-> now]
                             IN  executed' = Append(executed, trade) /\ Emit(trade.id)
    BY <1>3, FeedAssumption DEF Fill
  <2>2. PICK trade : trade = [id |-> Len(executed) + 1, price |-> price, at |-> now]
    OBVIOUS
  <2>3. executed' = Append(executed, trade) /\ Emit(trade.id) /\ trade.id = Len(executed) + 1
    BY <2>1, <2>2
  <2>4. trade \in Trades /\ executed \in Seq(Trades)
    BY <1>0, <2>2, LenProperties DEF FeedTypes, Trades
  <2>5. Len(executed') = Len(executed) + 1
    BY <2>3, <2>4, AppendProperties
  <2>6. UNCHANGED <<boot, delivered, streamed, lost>>
    BY <1>3 DEF Fill, bridgeVars
  <2> QED  BY <1>0, <2>3, <2>5, <2>6, NewTradeIsHeld
<1>4. CASE SpillStep
  BY <1>0, <1>4, SpillKeepsHands DEF SpillStep
<1>5. CASE Take
  <2>1. /\ channel # <<>> /\ channel' = Tail(channel) /\ delivered' = Append(delivered, Head(channel))
        /\ UNCHANGED <<executed, boot, spilled, streamed, lost>>
    BY <1>5 DEF Take, recorderVars
  <2> QED  BY <1>0, <2>1, ReceivingKeepsHands
<1>6. CASE RecordCandle \/ Publish
  <2>1. same
    BY <1>6 DEF RecordCandle, Publish, recorderVars
  <2> QED  BY <1>1, <2>1
<1>7. CASE StreamStep
  <2>1. PICK s \in Streams : StreamTrade(s)
    BY <1>7 DEF StreamStep
  <2>2. channel # <<>> /\ channel' = Tail(channel) /\ UNCHANGED <<executed, boot, spilled, delivered>>
    BY <2>1 DEF StreamTrade, recorderVars, bridgeVars
  <2>3. \/ lost' = lost \cup {Head(channel)} /\ UNCHANGED streamed
        \/ streamed' = [streamed EXCEPT ![s] = Append(@, Head(channel))] /\ UNCHANGED lost
    BY <2>1 DEF StreamTrade
  <2> QED  BY <1>0, <2>2, <2>3, ReceivingKeepsHands
<1>8. CASE AdminStep
  <2>1. same
    BY <1>8 DEF AdminStep, SetTradingEnabled, UpdatePairRisk, UpdateUserRisk, recorderVars, bridgeVars
  <2> QED  BY <1>1, <2>1
<1>9. CASE Tick
  <2>1. same
    BY <1>9 DEF Tick, recorderVars, bridgeVars
  <2> QED  BY <1>1, <2>1
<1>10. CASE Crash
  BY <1>0, <1>10, CrashKeepsHands
<1>11. CASE ConnectedStep
  <2>1. same
    BY <1>11 DEF ConnectedStep, FeedUnchanged, recorderVars, bridgeVars
  <2> QED  BY <1>1, <2>1
<1>12. CASE UNCHANGED vars
  <2>1. same
    BY <1>12 DEF vars, recorderVars, bridgeVars
  <2> QED  BY <1>1, <2>1
<1> QED
  BY <1>1, <1>2, <1>3, <1>4, <1>5, <1>6, <1>7, <1>8, <1>9, <1>10, <1>11, <1>12
  DEF Next, OrderStep, BridgeStep

\* At first there is nothing to hold.
LEMMA HandsBegin == ASSUME Init PROVE HandsInv
<1>1. FeedTypes
  BY DEF Init, FeedTypes, Resting
<1>2. /\ executed = <<>> /\ boot = 0 /\ channel = <<>> /\ spilled = {} /\ delivered = <<>>
      /\ streamed = [s \in Streams |-> <<>>] /\ lost = {}
  BY DEF Init
<1>3. Once(<<>>) /\ Range(<<>>) = {}
  BY DEF Once, Range
<1>4. Len(executed) = 0 /\ 1..Len(executed) = {} /\ (boot + 1)..Len(executed) = {}
  BY <1>2
<1>5. HandTypes /\ NobodyHasTwo
  BY <1>2, <1>3, <1>4 DEF HandTypes, NobodyHasTwo
<1>6. AllAreHeld
  BY <1>2, <1>3, <1>4 DEF AllAreHeld, Streaming
<1> QED  BY <1>1, <1>5, <1>6 DEF HandsInv

\* However the engine, the goroutines that wait for room, the bridge, the streams and
\* crashes interleave, every trade waits in one place, or was taken by the bridge or by
\* one stream, or by nobody, once and for all (engine.go:346, server.go:360).
THEOREM NoTradeIsSharedOrRepeated == Spec => []TradesInOneHand
<1>1. Init => HandsInv
  BY HandsBegin
<1> QED  BY <1>1, FeedKeepsHands, HeldOnce, PTL DEF Spec

-------------------------------------------------------------------------------
(* The recorder: the tape, the ticker, the candles.                          *)

\* t is what s ends with.
IsEndOf(t, s) ==
    Len(t) <= Len(s) /\ \A k \in 1..Len(t) : t[k] = s[Len(s) - Len(t) + k]

InTime(s) == \A a, b \in 1..Len(s) : a <= b => s[a].at <= s[b].at

\* A set of numbers that is finite has a greatest and a least one.
LEMMA FiniteHasBounds ==
    ASSUME NEW S \in SUBSET Int, IsFiniteSet(S), S # {}
    PROVE  /\ Max(S) \in S /\ \A y \in S : y <= Max(S)
           /\ Min(S) \in S /\ \A y \in S : Min(S) <= y
<1> DEFINE K == {T \in SUBSET S : T # {} => /\ \E x \in T : \A y \in T : x >= y
                                           /\ \E x \in T : \A y \in T : x <= y}
<1>1. {} \in K
  OBVIOUS
<1>2. ASSUME NEW T \in K, NEW z \in S \ T PROVE T \cup {z} \in K
  <2>1. CASE T = {}
    BY <2>1
  <2>2. CASE T # {}
    <3>1. PICK x \in T : \A y \in T : x >= y
      BY <2>2
    <3>2. PICK w \in T : \A y \in T : w <= y
      BY <2>2
    <3>3. \E v \in T \cup {z} : \A y \in T \cup {z} : v >= y
      <4>1. CASE x >= z
        BY <3>1, <4>1
      <4>2. CASE z >= x
        BY <3>1, <4>2
      <4> QED  BY <4>1, <4>2
    <3>4. \E v \in T \cup {z} : \A y \in T \cup {z} : v <= y
      <4>1. CASE w <= z
        BY <3>2, <4>1
      <4>2. CASE z <= w
        BY <3>2, <4>2
      <4> QED  BY <4>1, <4>2
    <3> QED  BY <3>3, <3>4
  <2> QED  BY <2>1, <2>2
<1>3. S \in K
  <2>1. K \in SUBSET SUBSET S
    OBVIOUS
  <2> HIDE DEF K
  <2> QED  BY <1>1, <1>2, <2>1, FiniteSetInduction
<1>4. (\E x \in S : \A y \in S : x >= y) /\ (\E x \in S : \A y \in S : x <= y)
  BY <1>3
<1>5. Max(S) \in S /\ \A y \in S : Max(S) >= y
  BY <1>4 DEF Max
<1>6. Min(S) \in S /\ \A y \in S : Min(S) <= y
  BY <1>4 DEF Min
<1> QED  BY <1>5, <1>6

\* What is a bound and in the set is that one.
LEMMA BoundIs ==
    ASSUME NEW S \in SUBSET Int, NEW x \in S
    PROVE  /\ (\A y \in S : y <= x) => Max(S) = x
           /\ (\A y \in S : x <= y) => Min(S) = x
<1>1. ASSUME \A y \in S : y <= x PROVE Max(S) = x
  <2>1. PICK m : m = Max(S)
    OBVIOUS
  <2>2. m \in S /\ \A y \in S : m >= y
    BY <1>1, <2>1 DEF Max
  <2>3. m \in Int /\ x \in Int /\ m >= x /\ m <= x
    BY <1>1, <2>2
  <2> QED  BY <2>1, <2>3
<1>2. ASSUME \A y \in S : x <= y PROVE Min(S) = x
  <2>1. PICK m : m = Min(S)
    OBVIOUS
  <2>2. m \in S /\ \A y \in S : m <= y
    BY <1>2, <2>1 DEF Min
  <2>3. m \in Int /\ x \in Int /\ m <= x /\ x <= m
    BY <1>2, <2>2
  <2> QED  BY <2>1, <2>3
<1> QED  BY <1>1, <1>2

\* The last of a sequence.
LEMMA NewestIs ==
    ASSUME NEW T, NEW s \in Seq(T), NEW n \in Nat
    PROVE  /\ Newest(n, s) \in Seq(T) /\ IsEndOf(Newest(n, s), s)
           /\ Len(Newest(n, s)) = IF Len(s) > n THEN n ELSE Len(s)
<1>1. Len(s) \in Nat /\ \A k \in 1..Len(s) : s[k] \in T
  BY LenProperties, ElementOfSeq
<1>2. CASE Len(s) > n
  <2>1. Newest(n, s) = SubSeq(s, Len(s) - n + 1, Len(s))
    BY <1>2 DEF Newest
  <2>2. PICK m, l : m = Len(s) - n + 1 /\ l = Len(s)
    OBVIOUS
  <2>3. m \in Nat \ {0} /\ l \in Nat /\ l - m + 1 = n /\ m <= l + 1
    BY <1>1, <1>2, <2>2
  <2>4. \A k \in m..l : s[k] \in T
    BY <1>1, <2>2, <2>3
  <2>5. /\ SubSeq(s, m, l) \in Seq(T) /\ Len(SubSeq(s, m, l)) = n
        /\ \A k \in 1..n : SubSeq(s, m, l)[k] = s[m + k - 1]
    BY <1>1, <2>3, <2>4, SubSeqProperties
  <2>6. \A k \in 1..n : m + k - 1 = Len(s) - n + k
    BY <1>1, <2>2
  <2>7. PICK r : r = SubSeq(s, m, l)
    OBVIOUS
  <2>8. IsEndOf(r, s)
    <3>1. Len(r) = n /\ n <= Len(s)
      BY <1>1, <1>2, <2>5, <2>7
    <3>2. \A k \in 1..n : r[k] = s[Len(s) - n + k]
      BY <2>5, <2>6, <2>7
    <3> QED  BY <3>1, <3>2 DEF IsEndOf
  <2>9. Newest(n, s) = r
    BY <2>1, <2>2, <2>7
  <2>10. r \in Seq(T) /\ Len(r) = n
    BY <2>5, <2>7
  <2> QED  BY <1>2, <2>8, <2>9, <2>10
<1>3. CASE ~(Len(s) > n)
  <2>1. Newest(n, s) = s
    BY <1>3 DEF Newest
  <2>2. \A k \in 1..Len(s) : Len(s) - Len(s) + k = k
    BY <1>1
  <2> QED  BY <1>1, <1>3, <2>1, <2>2 DEF IsEndOf
<1> QED  BY <1>2, <1>3

\* The end of an end.
LEMMA EndOfEnd ==
    ASSUME NEW r, NEW t, NEW s, Len(r) \in Nat, Len(t) \in Nat, Len(s) \in Nat,
           IsEndOf(r, t), IsEndOf(t, s)
    PROVE  IsEndOf(r, s)
<1>1. Len(r) <= Len(t) /\ Len(t) <= Len(s)
  BY DEF IsEndOf
<1>2. ASSUME NEW k \in 1..Len(r) PROVE r[k] = s[Len(s) - Len(r) + k]
  <2>1. PICK j : j = Len(t) - Len(r) + k
    OBVIOUS
  <2>2. j \in 1..Len(t) /\ Len(s) - Len(t) + j = Len(s) - Len(r) + k
    BY <1>1, <2>1
  <2>3. r[k] = t[j] /\ t[j] = s[Len(s) - Len(t) + j]
    BY <2>1, <2>2 DEF IsEndOf
  <2> QED  BY <2>2, <2>3
<1> QED  BY <1>1, <1>2 DEF IsEndOf

\* The trades of a window: the last ones, all that are young enough, and no older one.
LEMMA FreshIs ==
    ASSUME NEW s \in Seq(Trades), InTime(s), now \in Int, NEW window \in Int
    PROVE  LET f == Fresh(s, window) IN
           /\ f \in Seq(Trades) /\ IsEndOf(f, s)
           /\ \A k \in 1..Len(f) : f[k].at >= now - window
           /\ \A k \in 1..(Len(s) - Len(f)) : s[k].at < now - window
<1> DEFINE young == {k \in DOMAIN s : s[k].at >= now - window}
           f == Fresh(s, window)
<1>1. Len(s) \in Nat /\ DOMAIN s = 1..Len(s) /\ \A k \in 1..Len(s) : s[k] \in Trades
  BY LenProperties, ElementOfSeq
<1>2. \A k \in 1..Len(s) : s[k].at \in Nat
  BY <1>1 DEF Trades
<1>3. CASE young = {}
  <2>1. f = <<>>
    BY <1>3 DEF Fresh
  <2>2. Len(<<>>) = 0 /\ <<>> \in Seq(Trades)
    OBVIOUS
  <2>3. \A k \in 1..Len(s) : s[k].at < now - window
    BY <1>1, <1>2, <1>3
  <2> QED  BY <1>1, <2>1, <2>2, <2>3 DEF IsEndOf
<1>4. CASE young # {}
  <2>1. young \in SUBSET Int /\ IsFiniteSet(young)
    <3>1. young \in SUBSET (1..Len(s)) /\ IsFiniteSet(1..Len(s))
      BY <1>1, FS_Interval
    <3> QED  BY <1>1, <3>1, FS_Subset
  <2>2. PICK m : m = Min(young)
    OBVIOUS
  <2> HIDE DEF young
  <2>3. m \in young /\ \A y \in young : m <= y
    BY <1>4, <2>1, <2>2, FiniteHasBounds
  <2>4. m \in 1..Len(s) /\ s[m].at >= now - window
        /\ \A k \in 1..Len(s) : k < m => ~(s[k].at >= now - window)
    BY <1>1, <2>3 DEF young
  <2>5. f = SubSeq(s, m, Len(s))
    BY <1>4, <2>2 DEF Fresh, young
  <2>6. \A k \in m..Len(s) : s[k] \in Trades
    BY <1>1, <2>4
  <2>7. /\ f \in Seq(Trades) /\ Len(f) = Len(s) - m + 1
        /\ \A k \in 1..Len(f) : f[k] = s[m + k - 1]
    BY <1>1, <2>4, <2>5, <2>6, SubSeqProperties
  <2> HIDE DEF f
  <2>8. ASSUME NEW k \in 1..Len(f)
        PROVE  f[k] = s[Len(s) - Len(f) + k] /\ f[k].at >= now - window
    <3>1. PICK j : j = m + k - 1
      OBVIOUS
    <3>2. j \in 1..Len(s) /\ m <= j /\ j = Len(s) - Len(f) + k
      BY <1>1, <2>4, <2>7, <3>1
    <3>3. f[k] = s[j]
      BY <2>7, <3>1
    <3>4. s[m].at <= s[j].at
      BY <2>4, <3>2 DEF InTime
    <3> QED  BY <1>2, <2>4, <3>2, <3>3, <3>4
  <2>9. \A k \in 1..(Len(s) - Len(f)) : s[k].at < now - window
    BY <1>1, <1>2, <2>4, <2>7
  <2>10. Len(f) <= Len(s)
    BY <1>1, <2>4, <2>7
  <2> QED  BY <2>7, <2>8, <2>9, <2>10 DEF f, IsEndOf
<1> QED  BY <1>3, <1>4

\* An end of what is in time is in time, and its parts are those of the whole.
LEMMA EndInTime ==
    ASSUME NEW t \in Seq(Trades), NEW s \in Seq(Trades), IsEndOf(t, s), InTime(s)
    PROVE  InTime(t)
<1>1. Len(t) \in Nat /\ Len(s) \in Nat /\ Len(t) <= Len(s)
  BY LenProperties DEF IsEndOf
<1> SUFFICES ASSUME NEW a \in 1..Len(t), NEW b \in 1..Len(t), a <= b PROVE t[a].at <= t[b].at
  BY DEF InTime
<1>2. PICK x, y : x = Len(s) - Len(t) + a /\ y = Len(s) - Len(t) + b
  OBVIOUS
<1>3. x \in 1..Len(s) /\ y \in 1..Len(s) /\ x <= y
  BY <1>1, <1>2
<1>4. t[a] = s[x] /\ t[b] = s[y]
  BY <1>2 DEF IsEndOf
<1> QED  BY <1>3, <1>4 DEF InTime

\* What is appended to a sequence is appended to its ends.
LEMMA EndAppended ==
    ASSUME NEW t \in Seq(Trades), NEW s \in Seq(Trades), IsEndOf(t, s), NEW x \in Trades
    PROVE  IsEndOf(Append(t, x), Append(s, x))
<1> DEFINE T == Append(t, x)
           S == Append(s, x)
<1>1. /\ Len(t) \in Nat /\ Len(s) \in Nat /\ Len(t) <= Len(s)
      /\ Len(T) = Len(t) + 1 /\ Len(S) = Len(s) + 1
      /\ \A k \in 1..Len(t) : T[k] = t[k]
      /\ \A k \in 1..Len(s) : S[k] = s[k]
      /\ T[Len(t) + 1] = x /\ S[Len(s) + 1] = x
  BY LenProperties, AppendProperties DEF IsEndOf
<1> HIDE DEF T, S
<1>2. ASSUME NEW k \in 1..Len(T) PROVE T[k] = S[Len(S) - Len(T) + k]
  <2>1. CASE k \in 1..Len(t)
    <3>1. PICK j : j = Len(s) - Len(t) + k
      OBVIOUS
    <3>2. j \in 1..Len(s) /\ j = Len(S) - Len(T) + k
      BY <1>1, <2>1, <3>1
    <3>3. t[k] = s[j]
      BY <2>1, <3>1 DEF IsEndOf
    <3> QED  BY <1>1, <2>1, <3>2, <3>3
  <2>2. CASE k = Len(t) + 1
    <3>1. Len(S) - Len(T) + k = Len(s) + 1
      BY <1>1, <2>2
    <3> QED  BY <1>1, <2>2, <3>1
  <2> QED  BY <1>1, <2>1, <2>2
<1>3. Len(T) <= Len(S)
  BY <1>1
<1> QED  BY <1>2, <1>3 DEF IsEndOf, T, S

\* A trade that is made now comes after the others.
LEMMA AppendedInTime ==
    ASSUME NEW s \in Seq(Trades), InTime(s), NEW x \in Trades,
           \A k \in 1..Len(s) : s[k].at <= x.at
    PROVE  /\ Append(s, x) \in Seq(Trades) /\ InTime(Append(s, x))
           /\ Len(Append(s, x)) = Len(s) + 1 /\ Append(s, x)[Len(s) + 1] = x
           /\ \A k \in 1..Len(s) : Append(s, x)[k] = s[k]
<1> DEFINE S == Append(s, x)
<1>1. /\ Len(s) \in Nat /\ S \in Seq(Trades) /\ Len(S) = Len(s) + 1
      /\ \A k \in 1..Len(s) : S[k] = s[k]
      /\ S[Len(s) + 1] = x
  BY LenProperties, AppendProperties
<1> HIDE DEF S
<1>2. x.at \in Nat
  BY DEF Trades
<1>3. ASSUME NEW a \in 1..Len(S), NEW b \in 1..Len(S), a <= b PROVE S[a].at <= S[b].at
  <2>1. CASE b \in 1..Len(s)
    <3>1. a \in 1..Len(s)
      BY <1>1, <1>3, <2>1
    <3> QED  BY <1>1, <1>3, <2>1, <3>1 DEF InTime
  <2>2. CASE b = Len(s) + 1
    <3>1. CASE a \in 1..Len(s)
      BY <1>1, <2>2, <3>1
    <3>2. CASE a = Len(s) + 1
      BY <1>1, <1>2, <2>2, <3>2
    <3> QED  BY <1>1, <3>1, <3>2
  <2> QED  BY <1>1, <2>1, <2>2
<1> QED  BY <1>1, <1>3 DEF InTime, S

\* The trades of all processes: their numbers are their places, in the order of time.
ExecutedInTime ==
    /\ boot \in 0..Len(executed) /\ InTime(executed)
    /\ \A k \in 1..Len(executed) : executed[k].id = k /\ executed[k].at <= now

\* The tape lacks only trades of this process that are a day old or too many.
TapeKept ==
    /\ tape \in Seq(Trades) /\ Len(tape) <= MaxTape /\ IsEndOf(tape, OfProcess)
    /\ \A k \in 1..(Len(OfProcess) - Len(tape)) :
           OfProcess[k].at < now - Day \/ Len(OfProcess) - k >= MaxTape

\* What the trades of this process are.
LEMMA OfProcessIs ==
    ASSUME FeedTypes, ExecutedInTime
    PROVE  /\ OfProcess \in Seq(Trades) /\ InTime(OfProcess)
           /\ Len(OfProcess) = Len(executed) - boot /\ IsEndOf(OfProcess, executed)
           /\ \A k \in 1..Len(OfProcess) :
                  /\ OfProcess[k] = executed[boot + k]
                  /\ OfProcess[k].id = boot + k /\ OfProcess[k].at <= now
<1>1. /\ Len(executed) \in Nat /\ executed \in Seq(Trades) /\ boot \in Nat /\ boot <= Len(executed)
      /\ \A k \in 1..Len(executed) : executed[k] \in Trades
  BY LenProperties, ElementOfSeq DEF FeedTypes, ExecutedInTime
<1>2. \A k \in (boot + 1)..Len(executed) : executed[k] \in Trades
  BY <1>1
<1>3. /\ OfProcess \in Seq(Trades) /\ Len(OfProcess) = Len(executed) - boot
      /\ \A k \in 1..(Len(executed) - boot) : OfProcess[k] = executed[boot + 1 + k - 1]
  <2>1. PICK m : m = boot + 1
    OBVIOUS
  <2>2. m \in Int /\ Len(executed) - m + 1 = Len(executed) - boot
    BY <1>1, <2>1
  <2>3. /\ SubSeq(executed, m, Len(executed)) \in Seq(Trades)
        /\ Len(SubSeq(executed, m, Len(executed)))
               = IF m <= Len(executed) THEN Len(executed) - m + 1 ELSE 0
        /\ \A k \in 1..(Len(executed) - m + 1) :
               SubSeq(executed, m, Len(executed))[k] = executed[m + k - 1]
    BY <1>1, <1>2, <2>1, <2>2, SubSeqProperties
  <2>4. OfProcess = SubSeq(executed, m, Len(executed))
    BY <2>1 DEF OfProcess
  <2>5. PICK q : q = SubSeq(executed, m, Len(executed))
    OBVIOUS
  <2>6. q \in Seq(Trades) /\ Len(q) = Len(executed) - boot
    BY <1>1, <2>1, <2>3, <2>5
  <2>7. \A k \in 1..(Len(executed) - boot) : q[k] = executed[boot + 1 + k - 1]
    BY <2>1, <2>2, <2>3, <2>5
  <2> QED  BY <2>4, <2>5, <2>6, <2>7
<1>4. \A k \in 1..Len(OfProcess) : boot + 1 + k - 1 = boot + k
  BY <1>1
<1>5. \A k \in 1..Len(OfProcess) : OfProcess[k] = executed[boot + k]
  BY <1>3, <1>4
<1>6. IsEndOf(OfProcess, executed)
  <2>1. Len(executed) - Len(OfProcess) = boot /\ Len(OfProcess) <= Len(executed)
    BY <1>1, <1>3
  <2> QED  BY <1>5, <2>1 DEF IsEndOf
<1>7. InTime(OfProcess)
  BY <1>1, <1>3, <1>6, EndInTime DEF ExecutedInTime
<1>8. \A k \in 1..Len(OfProcess) : boot + k \in 1..Len(executed)
  BY <1>1, <1>3
<1> QED  BY <1>3, <1>5, <1>6, <1>7, <1>8 DEF ExecutedInTime

\* One trade more is one more of this process.
LEMMA OfProcessGrows ==
    ASSUME FeedTypes, ExecutedInTime, NEW x \in Trades, executed' = Append(executed, x),
           boot' = boot
    PROVE  OfProcess' = Append(OfProcess, x)
<1>1. /\ Len(executed) \in Nat /\ executed \in Seq(Trades) /\ boot \in Nat /\ boot <= Len(executed)
  BY LenProperties DEF FeedTypes, ExecutedInTime
<1>2. PICK n, e, m : n = Len(executed) /\ e = Append(executed, x) /\ m = boot + 1
  OBVIOUS
<1>3. /\ e \in Seq(Trades) /\ Len(e) = n + 1 /\ e[n + 1] = x /\ \A k \in 1..n : e[k] = executed[k]
  BY <1>1, <1>2, AppendProperties
<1>4. OfProcess' = SubSeq(e, m, n + 1)
  BY <1>2, <1>3 DEF OfProcess
<1>5. m \in Int /\ n \in Nat /\ m <= n + 1
  BY <1>1, <1>2
<1>6. \A k \in m..(n + 1) : e[k] \in Trades
  <2>1. \A k \in 1..(n + 1) : e[k] \in Trades
    BY <1>3, ElementOfSeq
  <2> QED  BY <1>1, <1>2, <1>5, <2>1
<1>7. /\ SubSeq(e, m, n + 1) \in Seq(Trades) /\ Len(SubSeq(e, m, n + 1)) = n + 1 - m + 1
      /\ \A k \in 1..(n + 1 - m + 1) : SubSeq(e, m, n + 1)[k] = e[m + k - 1]
  BY <1>5, <1>6, SubSeqProperties
<1>8. /\ OfProcess \in Seq(Trades) /\ Len(OfProcess) = n - boot
      /\ \A k \in 1..Len(OfProcess) : OfProcess[k] = executed[boot + k]
  BY <1>2, OfProcessIs
<1>9. PICK p, q : p = Append(OfProcess, x) /\ q = SubSeq(e, m, n + 1)
  OBVIOUS
<1>10. /\ p \in Seq(Trades) /\ Len(p) = n - boot + 1 /\ p[n - boot + 1] = x
       /\ \A k \in 1..(n - boot) : p[k] = executed[boot + k]
  <2>1. /\ p \in Seq(Trades) /\ Len(p) = Len(OfProcess) + 1 /\ p[Len(OfProcess) + 1] = x
        /\ \A k \in 1..Len(OfProcess) : p[k] = OfProcess[k]
    BY <1>8, <1>9, AppendProperties
  <2> QED  BY <1>8, <2>1
<1>11. q \in Seq(Trades) /\ Len(q) = n - boot + 1
  BY <1>1, <1>2, <1>5, <1>7, <1>9
<1>12. ASSUME NEW k \in 1..(n - boot + 1) PROVE q[k] = p[k]
  <2>1. m + k - 1 = boot + k /\ k \in 1..(n + 1 - m + 1)
    BY <1>1, <1>2
  <2>2. q[k] = e[boot + k]
    BY <1>7, <1>9, <2>1
  <2>3. CASE k \in 1..(n - boot)
    <3>1. boot + k \in 1..n
      BY <1>1, <1>2, <2>3
    <3> QED  BY <1>2, <1>3, <1>10, <2>2, <2>3, <3>1
  <2>4. CASE k = n - boot + 1
    <3>1. boot + k = n + 1
      BY <1>1, <1>2, <2>4
    <3> QED  BY <1>3, <1>10, <2>2, <2>4, <3>1
  <2> QED  BY <1>1, <1>2, <2>3, <2>4
<1>13. p = q
  BY <1>10, <1>11, <1>12, SeqEqual
<1> QED  BY <1>4, <1>9, <1>13

\* RecordTrade keeps the tape: what it drops is a day old or one too many.
LEMMA TapeWithKeeps ==
    ASSUME FeedTypes, ExecutedInTime, TapeKept, FeedAssumption, NEW x \in Trades,
           executed' = Append(executed, x), boot' = boot, now' = now, x.at = now,
           tape' = TapeWith(x)
    PROVE  TapeKept'
<1>1. /\ OfProcess' = Append(OfProcess, x) /\ OfProcess \in Seq(Trades) /\ InTime(OfProcess)
      /\ \A k \in 1..Len(OfProcess) : OfProcess[k].at <= x.at
  BY OfProcessGrows, OfProcessIs
<1>2. /\ tape \in Seq(Trades) /\ IsEndOf(tape, OfProcess)
      /\ now \in Int /\ Day \in Int /\ MaxTape \in Nat
  BY DEF TapeKept, FeedTypes, FeedAssumption
<1>3. PICK s, t : s = Append(OfProcess, x) /\ t = Append(tape, x)
  OBVIOUS
<1>4. /\ s \in Seq(Trades) /\ InTime(s) /\ IsEndOf(t, s) /\ t \in Seq(Trades)
      /\ Len(s) = Len(OfProcess) + 1 /\ Len(t) = Len(tape) + 1
      /\ \A k \in 1..Len(OfProcess) : s[k] = OfProcess[k]
  BY <1>1, <1>2, <1>3, AppendedInTime, EndAppended, AppendProperties
<1>5. InTime(t)
  BY <1>4, EndInTime
<1>6. PICK f : f = Fresh(t, Day)
  OBVIOUS
<1>7. /\ f \in Seq(Trades) /\ IsEndOf(f, t)
      /\ \A k \in 1..(Len(t) - Len(f)) : t[k].at < now - Day
  BY <1>2, <1>4, <1>5, <1>6, FreshIs
<1>8. PICK r : r = Newest(MaxTape, f)
  OBVIOUS
<1>9. /\ r \in Seq(Trades) /\ IsEndOf(r, f) /\ Len(r) = IF Len(f) > MaxTape THEN MaxTape ELSE Len(f)
  BY <1>2, <1>7, <1>8, NewestIs
<1>10. /\ Len(s) \in Nat /\ Len(t) \in Nat /\ Len(f) \in Nat /\ Len(r) \in Nat
       /\ Len(tape) \in Nat /\ Len(OfProcess) \in Nat /\ Len(tape) <= Len(OfProcess)
       /\ Len(r) <= Len(f) /\ Len(f) <= Len(t) /\ Len(t) <= Len(s) /\ Len(r) <= MaxTape
  BY <1>1, <1>2, <1>4, <1>7, <1>9, LenProperties DEF IsEndOf
<1>11. IsEndOf(r, s)
  BY <1>4, <1>7, <1>9, <1>10, EndOfEnd
<1>12. tape' = r /\ OfProcess' = s
  BY <1>1, <1>3, <1>6, <1>8 DEF TapeWith
<1>13. ASSUME NEW k \in 1..(Len(s) - Len(r))
       PROVE  s[k].at < now - Day \/ Len(s) - k >= MaxTape
  <2>1. CASE k \in 1..(Len(OfProcess) - Len(tape))
    <3>1. OfProcess[k].at < now - Day \/ Len(OfProcess) - k >= MaxTape
      BY <2>1 DEF TapeKept
    <3>2. s[k] = OfProcess[k]
      BY <1>4, <1>10, <2>1
    <3> QED  BY <1>2, <1>4, <1>10, <3>1, <3>2
  <2>2. CASE k > Len(OfProcess) - Len(tape)
    <3>1. PICK j : j = k - (Len(s) - Len(t))
      OBVIOUS
    <3>2. j \in 1..Len(t) /\ k = Len(s) - Len(t) + j
      BY <1>4, <1>10, <2>2, <3>1
    <3>3. t[j] = s[k]
      BY <1>4, <3>2 DEF IsEndOf
    <3>4. CASE j <= Len(t) - Len(f)
      <4>1. j \in 1..(Len(t) - Len(f))
        BY <1>10, <3>2, <3>4
      <4> QED  BY <1>7, <3>3, <4>1
    <3>5. CASE j > Len(t) - Len(f)
      <4>1. k > Len(s) - Len(f)
        BY <1>10, <3>2, <3>5
      <4>2. Len(f) > MaxTape /\ Len(r) = MaxTape
        BY <1>2, <1>9, <1>10, <4>1
      <4> QED  BY <1>2, <1>10, <4>2
    <3> QED  BY <1>10, <3>2, <3>4, <3>5
  <2> QED  BY <1>10, <2>1, <2>2
<1> QED  BY <1>9, <1>10, <1>11, <1>12, <1>13 DEF TapeKept

\* A trade that is made now has no number that is on the tape.
LEMMA NumbersAreNew ==
    ASSUME FeedTypes, ExecutedInTime, TapeKept
    PROVE  \A k \in DOMAIN tape : tape[k].id # Len(executed) + 1
<1> SUFFICES ASSUME NEW k \in DOMAIN tape PROVE tape[k].id # Len(executed) + 1
  OBVIOUS
<1>1. /\ Len(executed) \in Nat /\ boot \in Nat /\ boot <= Len(executed)
      /\ Len(OfProcess) = Len(executed) - boot
      /\ \A j \in 1..Len(OfProcess) : OfProcess[j].id = boot + j
  BY OfProcessIs, LenProperties DEF FeedTypes, ExecutedInTime
<1>2. k \in 1..Len(tape) /\ Len(tape) \in Nat /\ Len(tape) <= Len(OfProcess)
  BY LenProperties DEF TapeKept, IsEndOf
<1>3. PICK j : j = Len(OfProcess) - Len(tape) + k
  OBVIOUS
<1>4. j \in 1..Len(OfProcess)
  BY <1>1, <1>2, <1>3
<1>5. tape[k] = OfProcess[j]
  BY <1>2, <1>3 DEF TapeKept, IsEndOf
<1> QED  BY <1>1, <1>4, <1>5

\* The ticker and the list of trades are those of all trades of the process.
LEMMA TapeAnswers ==
    ASSUME FeedTypes, ExecutedInTime, TapeKept, FeedAssumption
    PROVE  TapeIsExact
<1> DEFINE ofDay == {k \in DOMAIN OfProcess : OfProcess[k].at >= now - Day /\ k > Len(OfProcess) - MaxTape}
           prices == {OfProcess[k].price : k \in ofDay}
<1>0. PICK all, N : all = OfProcess /\ N = Len(all)
  OBVIOUS
<1>1. /\ all \in Seq(Trades) /\ InTime(all) /\ N \in Nat /\ DOMAIN all = 1..N
      /\ N = Len(executed) - boot /\ \A k \in 1..N : all[k] = executed[boot + k] /\ all[k] \in Trades
      /\ Len(executed) \in Nat /\ boot \in Nat
  <2>1. /\ all \in Seq(Trades) /\ InTime(all) /\ N = Len(executed) - boot
        /\ \A k \in 1..N : all[k] = executed[boot + k]
    BY <1>0, OfProcessIs
  <2>2. Len(all) \in Nat /\ DOMAIN all = 1..Len(all) /\ \A k \in 1..Len(all) : all[k] \in Trades
    BY <2>1, LenProperties, ElementOfSeq
  <2>3. Len(executed) \in Nat /\ boot \in Nat
    BY LenProperties DEF FeedTypes, ExecutedInTime
  <2> QED  BY <1>0, <2>1, <2>2, <2>3
<1>2. /\ tape \in Seq(Trades) /\ IsEndOf(tape, all) /\ Len(tape) <= MaxTape /\ Len(tape) \in Nat
      /\ now \in Int /\ Day \in Int /\ MaxTape \in Nat
  BY <1>0, LenProperties DEF TapeKept, FeedTypes, FeedAssumption
<1>3. InTime(tape)
  BY <1>1, <1>2, EndInTime
<1>4. PICK w : w = Fresh(tape, Day)
  OBVIOUS
<1>5. /\ w \in Seq(Trades) /\ IsEndOf(w, tape)
      /\ \A k \in 1..Len(w) : w[k].at >= now - Day
      /\ \A k \in 1..(Len(tape) - Len(w)) : tape[k].at < now - Day
  BY <1>2, <1>3, <1>4, FreshIs
<1>6. Len(w) \in Nat /\ Len(w) <= Len(tape) /\ Len(tape) <= N /\ DOMAIN w = 1..Len(w)
  BY <1>0, <1>2, <1>5, LenProperties DEF IsEndOf
<1>7. IsEndOf(w, all)
  BY <1>1, <1>2, <1>5, <1>6, EndOfEnd
<1>8. PICK first : first = N - Len(w)
  OBVIOUS
<1>9. first \in 0..N /\ \A k \in 1..Len(w) : w[k] = all[first + k]
  BY <1>0, <1>1, <1>6, <1>7, <1>8 DEF IsEndOf
<1>10. ofDay = (first + 1)..N
  <2>1. ASSUME NEW k \in (first + 1)..N PROVE k \in ofDay
    <3>1. PICK j : j = k - first
      OBVIOUS
    <3>2. j \in 1..Len(w) /\ k = first + j /\ k \in 1..N /\ k > N - MaxTape
      BY <1>1, <1>2, <1>6, <1>8, <1>9, <2>1, <3>1
    <3>3. all[k].at >= now - Day
      BY <1>5, <1>9, <3>2
    <3> QED  BY <1>0, <1>1, <3>2, <3>3
  <2>2. ASSUME NEW k \in 1..first PROVE k \notin ofDay
    <3>1. k \in 1..N /\ all[k].at \in Nat
      <4>1. k \in 1..N
        BY <1>1, <1>9
      <4>2. all[k] \in Trades
        BY <1>1, <4>1
      <4> QED  BY <4>1, <4>2 DEF Trades
    <3>2. CASE k <= N - Len(tape)
      <4>1. k \in 1..(N - Len(tape))
        BY <3>1, <3>2, <1>6, <1>1
      <4>2. all[k].at < now - Day \/ N - k >= MaxTape
        BY <1>0, <4>1 DEF TapeKept
      <4> QED  BY <1>0, <1>1, <1>2, <3>1, <4>2
    <3>3. CASE k > N - Len(tape)
      <4>1. PICK j : j = k - (N - Len(tape))
        OBVIOUS
      <4>2. j \in 1..(Len(tape) - Len(w)) /\ j \in 1..Len(tape) /\ k = N - Len(tape) + j
        <5>1. j \in Int /\ k = N - Len(tape) + j
          BY <1>1, <1>6, <3>1, <4>1
        <5>2. 1 <= j /\ j <= Len(tape) - Len(w)
          BY <1>1, <1>6, <1>8, <3>1, <3>3, <4>1
        <5> QED  BY <1>6, <5>1, <5>2
      <4>3. tape[j] = all[k]
        BY <1>0, <1>2, <4>2 DEF IsEndOf
      <4> QED  BY <1>0, <1>2, <1>5, <3>1, <4>2, <4>3
    <3> QED  BY <1>1, <1>6, <3>1, <3>2, <3>3
  <2>3. ofDay \subseteq 1..N
    BY <1>0, <1>1
  <2> HIDE DEF ofDay
  <2>4. \A k \in 1..N : k \in 1..first \/ k \in (first + 1)..N
    BY <1>1, <1>9
  <2>5. ofDay \subseteq (first + 1)..N
    BY <2>2, <2>3, <2>4
  <2>6. (first + 1)..N \subseteq ofDay
    BY <2>1
  <2> QED  BY <2>5, <2>6
<1> HIDE DEF ofDay
<1>11. IsFiniteSet(ofDay) /\ Cardinality(ofDay) = Len(w)
  <2>1. PICK low : low = first + 1
    OBVIOUS
  <2>2. low \in Int /\ N \in Int /\ ofDay = low..N
    BY <1>1, <1>9, <1>10, <2>1
  <2>3. /\ IsFiniteSet(low..N)
        /\ Cardinality(low..N) = IF low > N THEN 0 ELSE N - low + 1
    BY <2>2, FS_Interval
  <2>4. (IF low > N THEN 0 ELSE N - low + 1) = Len(w)
    BY <1>1, <1>6, <1>8, <1>9, <2>1
  <2> QED  BY <2>2, <2>3, <2>4
<1>12. {w[k].price : k \in DOMAIN w} = prices
  <2>1. ASSUME NEW k \in 1..Len(w) PROVE first + k \in ofDay /\ w[k].price = all[first + k].price
    BY <1>1, <1>6, <1>8, <1>9, <1>10
  <2>2. ASSUME NEW k \in ofDay
        PROVE  k - first \in 1..Len(w) /\ w[k - first].price = all[k].price
    <3>1. k - first \in 1..Len(w) /\ first + (k - first) = k
      BY <1>1, <1>6, <1>8, <1>9, <1>10
    <3> QED  BY <1>9, <3>1
  <2>3. prices = {all[k].price : k \in ofDay}
    BY <1>0
  <2> HIDE DEF prices
  <2>4. {w[k].price : k \in 1..Len(w)} \subseteq {all[k].price : k \in ofDay}
    BY <2>1
  <2>5. {all[k].price : k \in ofDay} \subseteq {w[k].price : k \in 1..Len(w)}
    BY <2>2
  <2> QED  BY <1>6, <2>3, <2>4, <2>5
<1> HIDE DEF prices
<1>13. Ticker = IF ofDay = {} THEN NoTicker
                ELSE [open |-> OfProcess[Min(ofDay)].price, last |-> Last(OfProcess).price,
                      high |-> Max(prices), low |-> Min(prices), volume |-> Cardinality(ofDay)]
  <2>1. Ticker = TickerOf(w)
    BY <1>4 DEF Ticker
  <2>2. CASE Len(w) = 0
    <3>1. w = <<>> /\ ofDay = {}
      BY <1>1, <1>5, <1>8, <1>10, <2>2, EmptySeq
    <3> QED  BY <2>1, <3>1 DEF TickerOf
  <2>3. CASE Len(w) # 0
    <3>1. w # <<>> /\ ofDay # {}
      <4>1. N \in (first + 1)..N
        BY <1>1, <1>6, <1>8, <2>3
      <4>2. w = <<>> => Len(w) = 0
        OBVIOUS
      <4> QED  BY <1>10, <2>3, <4>1, <4>2
    <3>2. Min(ofDay) = first + 1
      <4>1. first + 1 \in ofDay /\ ofDay \in SUBSET Int /\ \A y \in ofDay : first + 1 <= y
        BY <1>1, <1>6, <1>8, <1>9, <1>10, <2>3
      <4>2. PICK x : x = first + 1
        OBVIOUS
      <4>3. Min(ofDay) = x
        BY <4>1, <4>2, BoundIs
      <4> QED  BY <4>2, <4>3
    <3>3. Head(w) = w[1] /\ w[1] = all[first + 1]
      BY <1>5, <1>6, <1>9, <2>3, <3>1, HeadTailProperties
    <3>4. Last(w) = w[Len(w)] /\ w[Len(w)] = all[N] /\ Last(OfProcess) = all[N]
      <4>1. first + Len(w) = N /\ Len(w) \in 1..Len(w)
        BY <1>1, <1>6, <1>8, <2>3
      <4> QED  BY <1>0, <1>9, <4>1 DEF Last
    <3>5. TickerOf(w) = [open |-> Head(w).price, last |-> Last(w).price,
                         high |-> Max(prices), low |-> Min(prices), volume |-> Len(w)]
      BY <1>12, <3>1 DEF TickerOf
    <3> QED  BY <1>0, <1>11, <2>1, <3>1, <3>2, <3>3, <3>4, <3>5
  <2> QED  BY <2>2, <2>3
<1>14. ASSUME NEW n \in Pages
       PROVE  LET list == ListTrades(n) IN
              /\ \A k \in DOMAIN list : list[k] = executed[Len(executed) + 1 - k]
              /\ Len(list) >= Min({Or(n, TradesPage), Cardinality(ofDay)})
  <2>1. PICK many : many = Or(n, TradesPage)
    OBVIOUS
  <2>2. many \in Nat
    BY <2>1, <1>14 DEF Or, Pages, FeedAssumption
  <2>3. PICK r : r = Newest(many, tape)
    OBVIOUS
  <2>4. /\ r \in Seq(Trades) /\ IsEndOf(r, tape)
        /\ Len(r) = IF Len(tape) > many THEN many ELSE Len(tape)
    BY <1>2, <2>2, <2>3, NewestIs
  <2>5. Len(r) \in Nat /\ DOMAIN r = 1..Len(r) /\ Len(r) <= Len(tape)
    BY <1>2, <2>2, <2>4, LenProperties
  <2>6. IsEndOf(r, all)
    BY <1>1, <1>2, <1>6, <2>4, <2>5, EndOfEnd
  <2>7. ListTrades(n) = [k \in 1..Len(r) |-> r[Len(r) - k + 1]]
    BY <2>1, <2>3 DEF ListTrades, RecentTrades, Reverse
  <2>8. PICK list : list = ListTrades(n)
    OBVIOUS
  <2>9. /\ DOMAIN list = 1..Len(r) /\ \A k \in 1..Len(r) : list[k] = r[Len(r) - k + 1]
    BY <2>7, <2>8
  <2>10. Len(list) = Len(r)
    <3>1. \A k \in 1..Len(r) : list[k] \in Trades
      <4>1. \A k \in 1..Len(r) : Len(r) - k + 1 \in 1..Len(r)
        BY <2>5
      <4>2. \A k \in 1..Len(r) : r[k] \in Trades
        BY <2>4, ElementOfSeq
      <4> QED  BY <2>9, <4>1, <4>2
    <3>2. list \in Seq(Trades)
      BY <2>5, <2>7, <2>8, <2>9, <3>1
    <3> QED  BY <2>5, <2>9, <3>2, LenProperties
  <2>11. ASSUME NEW k \in 1..Len(r) PROVE list[k] = executed[Len(executed) + 1 - k]
    <3>1. PICK j : j = Len(r) - k + 1
      OBVIOUS
    <3>2. j \in 1..Len(r) /\ N - Len(r) + j = N - k + 1 /\ N - k + 1 \in 1..N
          /\ boot + (N - k + 1) = Len(executed) + 1 - k
      BY <1>1, <1>6, <2>5, <3>1
    <3>3. r[j] = all[N - k + 1]
      BY <1>0, <2>6, <3>2 DEF IsEndOf
    <3>4. all[N - k + 1] = executed[boot + (N - k + 1)]
      BY <1>1, <3>2
    <3> QED  BY <2>9, <3>1, <3>2, <3>3, <3>4
  <2>12. Len(r) >= Min({many, Cardinality(ofDay)})
    <3>1. PICK m : m = Min({many, Cardinality(ofDay)})
      OBVIOUS
    <3>2. PICK S : S = {many, Len(w)}
      OBVIOUS
    <3>3. S \in SUBSET Int /\ m = Min(S) /\ many \in S /\ Len(w) \in S
      BY <1>6, <1>11, <2>2, <3>1, <3>2
    <3>4. CASE many <= Len(w)
      <4>1. m = many
        <5>1. \A y \in S : many <= y
          BY <1>6, <2>2, <3>2, <3>4
        <5> QED  BY <3>3, <5>1, BoundIs
      <4> QED  BY <1>2, <1>6, <2>2, <2>4, <3>1, <3>4, <4>1
    <3>5. CASE Len(w) <= many
      <4>1. m = Len(w)
        <5>1. \A y \in S : Len(w) <= y
          BY <1>6, <2>2, <3>2, <3>5
        <5> QED  BY <3>3, <5>1, BoundIs
      <4> QED  BY <1>2, <1>6, <2>2, <2>4, <3>1, <3>5, <4>1
    <3> QED  BY <1>6, <2>2, <3>4, <3>5
  <2> QED  BY <2>1, <2>8, <2>9, <2>10, <2>11, <2>12
<1> QED  BY <1>13, <1>14 DEF TapeIsExact, ofDay, prices

-------------------------------------------------------------------------------
(* The candles.                                                              *)

CandleRecords == [ts : Nat, open : Nat, high : Nat, low : Nat, close : Nat, volume : Nat]

\* A quotient is rounded down.
LEMMA QuotientIs ==
    ASSUME NEW x \in Nat, NEW y \in Nat \ {0}
    PROVE  /\ x \div y \in Nat
           /\ y * (x \div y) <= x /\ x < y * (x \div y) + y
OBVIOUS

\* Multiples keep the order of what they are multiples of, and betray it.
LEMMA MultiplesInOrder ==
    ASSUME NEW k \in Nat \ {0}, NEW a \in Int, NEW b \in Int
    PROVE  /\ a <= b => a * k <= b * k
           /\ k * a < k * b => a < b
OBVIOUS

\* Buckets follow one another in time.
LEMMA BucketIs ==
    ASSUME FeedAssumption, NEW i \in Ordinals
    PROVE  /\ \A a \in Nat : Bucket(i, a) \in Nat
           /\ \A a, b \in Nat : a <= b => Bucket(i, a) <= Bucket(i, b)
<1>1. PICK L : L = Intervals[i]
  OBVIOUS
<1>2. L \in Nat \ {0}
  BY <1>1, ElementOfSeq, LenProperties DEF FeedAssumption, Ordinals
<1>3. ASSUME NEW a \in Nat PROVE Bucket(i, a) \in Nat
  <2>1. PICK q : q = a \div L
    OBVIOUS
  <2>2. q \in Nat
    BY <1>2, <2>1, QuotientIs
  <2>3. q * L \in Nat
    BY <1>2, <2>2
  <2> QED  BY <1>1, <2>1, <2>3 DEF Bucket
<1>4. ASSUME NEW a \in Nat, NEW b \in Nat, a <= b PROVE Bucket(i, a) <= Bucket(i, b)
  <2>1. PICK p, q : p = a \div L /\ q = b \div L
    OBVIOUS
  <2>2. p \in Nat /\ q \in Nat /\ L * p <= a /\ b < L * q + L
    BY <1>2, <2>1, QuotientIs
  <2>3. L * (q + 1) = L * q + L
    BY <1>2, <2>2
  <2>4. L * p \in Int /\ L * q \in Int
    BY <1>2, <2>2
  <2>5. L * p < L * (q + 1)
    BY <1>2, <1>4, <2>2, <2>3, <2>4
  <2>6. PICK z : z = q + 1
    OBVIOUS
  <2>7. z \in Int /\ L * p < L * z
    BY <2>2, <2>5, <2>6
  <2>8. p < z
    BY <1>2, <2>2, <2>7, MultiplesInOrder
  <2>9. p <= q
    BY <2>2, <2>6, <2>8
  <2>10. p * L <= q * L
    BY <1>2, <2>2, <2>9, MultiplesInOrder
  <2> QED  BY <1>1, <2>1, <2>10 DEF Bucket
<1> QED  BY <1>3, <1>4

\* What a trade more does to the buckets,
LEMMA BucketsGrow ==
    ASSUME NEW s \in Seq(Trades), NEW x \in Trades, NEW i
    PROVE  BucketsOf(Append(s, x), i) = BucketsOf(s, i) \cup {Bucket(i, x.at)}
<1>1. PICK t : t = Append(s, x)
  OBVIOUS
<1>2. /\ Len(s) \in Nat /\ DOMAIN s = 1..Len(s) /\ DOMAIN t = 1..(Len(s) + 1)
      /\ t[Len(s) + 1] = x /\ \A k \in 1..Len(s) : t[k] = s[k]
  BY <1>1, AppendProperties, LenProperties
<1>3. 1..(Len(s) + 1) = (1..Len(s)) \cup {Len(s) + 1}
  BY <1>2
<1>4. {Bucket(i, t[k].at) : k \in DOMAIN t}
          = {Bucket(i, t[k].at) : k \in 1..Len(s)} \cup {Bucket(i, t[Len(s) + 1].at)}
  BY <1>2, <1>3
<1>5. {Bucket(i, t[k].at) : k \in 1..Len(s)} = {Bucket(i, s[k].at) : k \in 1..Len(s)}
  BY <1>2
<1> QED  BY <1>1, <1>2, <1>4, <1>5 DEF BucketsOf

\* and to the places in one.
LEMMA InBucketGrows ==
    ASSUME NEW s \in Seq(Trades), NEW x \in Trades, NEW i, NEW ts
    PROVE  /\ InBucket(s, i, ts) \in SUBSET Int /\ IsFiniteSet(InBucket(s, i, ts))
           /\ InBucket(s, i, ts) \subseteq 1..Len(s)
           /\ InBucket(s, i, ts) # {} <=> ts \in BucketsOf(s, i)
           /\ InBucket(Append(s, x), i, ts)
                  = InBucket(s, i, ts) \cup (IF Bucket(i, x.at) = ts THEN {Len(s) + 1} ELSE {})
<1>1. PICK t : t = Append(s, x)
  OBVIOUS
<1>2. /\ Len(s) \in Nat /\ DOMAIN s = 1..Len(s) /\ DOMAIN t = 1..(Len(s) + 1)
      /\ t[Len(s) + 1] = x /\ \A k \in 1..Len(s) : t[k] = s[k]
  BY <1>1, AppendProperties, LenProperties
<1>3. InBucket(s, i, ts) \subseteq 1..Len(s)
  BY <1>2 DEF InBucket
<1>4. IsFiniteSet(1..Len(s))
  BY <1>2, FS_Interval
<1>5. IsFiniteSet(InBucket(s, i, ts))
  BY <1>3, <1>4, FS_Subset
<1>6. InBucket(s, i, ts) # {} <=> ts \in BucketsOf(s, i)
  BY DEF InBucket, BucketsOf
<1>7. 1..(Len(s) + 1) = (1..Len(s)) \cup {Len(s) + 1}
  BY <1>2
<1>8. InBucket(t, i, ts) = InBucket(s, i, ts) \cup (IF Bucket(i, x.at) = ts THEN {Len(s) + 1} ELSE {})
  BY <1>2, <1>7 DEF InBucket
<1>9. InBucket(s, i, ts) \in SUBSET Int
  BY <1>2, <1>3
<1> QED  BY <1>1, <1>3, <1>5, <1>6, <1>8, <1>9

\* The prices at some places are finitely many.
LEMMA PricesAreFinite ==
    ASSUME NEW s, NEW places, IsFiniteSet(places)
    PROVE  IsFiniteSet({s[k].price : k \in places})
<1> DEFINE Of(T) == {s[k].price : k \in T}
           K == {T \in SUBSET places : IsFiniteSet(Of(T))}
<1>1. {} \in K
  <2>1. Of({}) = {}
    OBVIOUS
  <2> QED  BY <2>1, FS_EmptySet
<1>2. ASSUME NEW T \in K, NEW z \in places \ T PROVE T \cup {z} \in K
  <2>1. Of(T \cup {z}) = Of(T) \cup {s[z].price}
    OBVIOUS
  <2>2. IsFiniteSet(Of(T))
    BY <1>2
  <2> HIDE DEF Of
  <2>3. IsFiniteSet(Of(T) \cup {s[z].price})
    BY <2>2, FS_AddElement
  <2> QED  BY <2>1, <2>3
<1>3. places \in K
  <2>1. K \in SUBSET SUBSET places
    OBVIOUS
  <2> HIDE DEF K
  <2> QED  BY <1>1, <1>2, <2>1, FiniteSetInduction
<1> QED  BY <1>3

\* What a candle takes from its trades: the first, the last, and the prices.
LEMMA CandleParts ==
    ASSUME FeedAssumption, NEW i \in Ordinals,
           NEW s \in Seq(Trades), NEW ts \in BucketsOf(s, i)
    PROVE  LET places == InBucket(s, i, ts)
               prices == {s[k].price : k \in places}
           IN  /\ Min(places) \in places /\ \A k \in places : Min(places) <= k
               /\ Max(places) \in places /\ \A k \in places : k <= Max(places)
               /\ prices \in SUBSET Nat /\ prices # {}
               /\ Max(prices) \in prices /\ \A p \in prices : p <= Max(prices)
               /\ Min(prices) \in prices /\ \A p \in prices : Min(prices) <= p
               /\ Cardinality(places) \in Nat
               /\ CandleOf(s, i, ts) \in CandleRecords /\ CandleOf(s, i, ts).ts = ts
<1>0. Len(s) \in Nat /\ DOMAIN s = 1..Len(s) /\ \A k \in 1..Len(s) : s[k] \in Trades
  BY LenProperties, ElementOfSeq
<1>1. PICK places : places = InBucket(s, i, ts)
  OBVIOUS
<1>2. places \in SUBSET Int /\ IsFiniteSet(places) /\ places # {} /\ places \subseteq 1..Len(s)
  <2>1. 1..Len(s) \subseteq Int
    BY <1>0
  <2>2. IsFiniteSet(1..Len(s))
    BY <1>0, FS_Interval
  <2>3. places \subseteq 1..Len(s) /\ places # {}
    BY <1>0, <1>1 DEF InBucket, BucketsOf
  <2> QED  BY <2>1, <2>2, <2>3, FS_Subset
<1>3. PICK prices : prices = {s[k].price : k \in places}
  OBVIOUS
<1>4. prices \in SUBSET Nat /\ prices # {} /\ IsFiniteSet(prices)
  <2>1. \A k \in places : s[k].price \in Nat
    BY <1>0, <1>2 DEF Trades
  <2> QED  BY <1>2, <1>3, <2>1, PricesAreFinite
<1>5. /\ Min(places) \in places /\ \A k \in places : Min(places) <= k
      /\ Max(places) \in places /\ \A k \in places : k <= Max(places)
  BY <1>2, FiniteHasBounds
<1>6. /\ Max(prices) \in prices /\ \A p \in prices : p <= Max(prices)
      /\ Min(prices) \in prices /\ \A p \in prices : Min(prices) <= p
  <2>1. prices \in SUBSET Int
    BY <1>4
  <2> QED  BY <1>4, <2>1, FiniteHasBounds
<1>7. Cardinality(places) \in Nat
  BY <1>2, FS_CardinalityType
<1>8. ts \in Nat
  <2>1. PICK k \in 1..Len(s) : ts = Bucket(i, s[k].at)
    BY <1>0 DEF BucketsOf
  <2>2. s[k].at \in Nat
    BY <1>0, <2>1 DEF Trades
  <2> QED  BY <2>1, <2>2, BucketIs
<1>9. CandleOf(s, i, ts) = [ts |-> ts, open |-> s[Min(places)].price, high |-> Max(prices),
                            low |-> Min(prices), close |-> s[Max(places)].price,
                            volume |-> Cardinality(places)]
  BY <1>1, <1>3 DEF CandleOf
<1>10. s[Min(places)].price \in Nat /\ s[Max(places)].price \in Nat
  BY <1>3, <1>4, <1>5
<1>11. Max(prices) \in Nat /\ Min(prices) \in Nat
  BY <1>4, <1>6
<1>12. CandleOf(s, i, ts) \in CandleRecords /\ CandleOf(s, i, ts).ts = ts
  BY <1>7, <1>8, <1>9, <1>10, <1>11 DEF CandleRecords
<1> QED  BY <1>1, <1>3, <1>4, <1>5, <1>6, <1>7, <1>12

\* A trade in another bucket leaves a candle as it is.
LEMMA CandleUnchanged ==
    ASSUME FeedAssumption, NEW i \in Ordinals, NEW s \in Seq(Trades), NEW x \in Trades,
           NEW ts \in BucketsOf(s, i), ts # Bucket(i, x.at)
    PROVE  CandleOf(Append(s, x), i, ts) = CandleOf(s, i, ts)
<1>1. PICK t : t = Append(s, x)
  OBVIOUS
<1>2. PICK places : places = InBucket(s, i, ts)
  OBVIOUS
<1>3. places \subseteq 1..Len(s) /\ InBucket(t, i, ts) = places
  <2>1. /\ InBucket(s, i, ts) \subseteq 1..Len(s)
        /\ InBucket(Append(s, x), i, ts)
               = InBucket(s, i, ts) \cup (IF Bucket(i, x.at) = ts THEN {Len(s) + 1} ELSE {})
    BY InBucketGrows
  <2> QED  BY <1>1, <1>2, <2>1
<1>4. Min(places) \in places /\ Max(places) \in places
  BY <1>2, CandleParts
<1>5. \A k \in 1..Len(s) : t[k] = s[k]
  BY <1>1, AppendProperties
<1>6. {t[k].price : k \in places} = {s[k].price : k \in places}
  BY <1>3, <1>5
<1>7. t[Min(places)] = s[Min(places)] /\ t[Max(places)] = s[Max(places)]
  BY <1>3, <1>4, <1>5
<1>8. CandleOf(t, i, ts) = CandleOf(s, i, ts)
  BY <1>2, <1>3, <1>6, <1>7 DEF CandleOf
<1> QED  BY <1>1, <1>8

\* The first trade in a bucket opens its candle.
LEMMA CandleOpened ==
    ASSUME FeedAssumption, NEW i \in Ordinals, NEW s \in Seq(Trades), NEW x \in Trades,
           NEW ts, ts = Bucket(i, x.at), ts \notin BucketsOf(s, i)
    PROVE  CandleOf(Append(s, x), i, ts) = Opened(x, ts)
<1>1. PICK t, n : t = Append(s, x) /\ n = Len(s) + 1
  OBVIOUS
<1>2. t[n] = x /\ n \in Nat
  BY <1>1, AppendProperties, LenProperties
<1>3. InBucket(t, i, ts) = {n}
  <2>1. InBucket(s, i, ts) = {}
    BY InBucketGrows
  <2> QED  BY <1>1, <2>1, InBucketGrows
<1>4. Min({n}) = n /\ Max({n}) = n
  <2>1. {n} \in SUBSET Int /\ n \in {n} /\ (\A y \in {n} : y <= n) /\ (\A y \in {n} : n <= y)
    BY <1>2
  <2> QED  BY <2>1, BoundIs
<1>5. PICK p : p = x.price
  OBVIOUS
<1>6. {t[k].price : k \in {n}} = {p}
  BY <1>2, <1>5
<1>7. Min({p}) = p /\ Max({p}) = p
  <2>1. p \in Nat
    BY <1>5 DEF Trades
  <2>2. {p} \in SUBSET Int /\ p \in {p} /\ (\A y \in {p} : y <= p) /\ (\A y \in {p} : p <= y)
    BY <2>1
  <2> QED  BY <2>2, BoundIs
<1>8. Cardinality({n}) = 1
  BY FS_Singleton
<1>9. CandleOf(t, i, ts) = [ts |-> ts, open |-> p, high |-> p, low |-> p, close |-> p, volume |-> 1]
  BY <1>2, <1>3, <1>4, <1>5, <1>6, <1>7, <1>8 DEF CandleOf
<1> QED  BY <1>1, <1>5, <1>9 DEF Opened

\* What is left of a candle that is changed.
LEMMA AddedIs ==
    ASSUME NEW r0, NEW x,
           r0 = [ts |-> r0.ts, open |-> r0.open, high |-> r0.high, low |-> r0.low,
                 close |-> r0.close, volume |-> r0.volume]
    PROVE  Added(r0, x) = [ts |-> r0.ts, open |-> r0.open, high |-> Max({r0.high, x.price}),
                           low |-> Min({r0.low, x.price}), close |-> x.price,
                           volume |-> r0.volume + 1]
<1>0. PICK ts, o, h, l, c, v :
          r0 = [ts |-> ts, open |-> o, high |-> h, low |-> l, close |-> c, volume |-> v]
  OBVIOUS
<1>1. PICK a, b, p, u : /\ a = Max({r0.high, x.price}) /\ b = Min({r0.low, x.price})
                        /\ p = x.price /\ u = r0.volume + 1
  OBVIOUS
<1>2. PICK r1 : r1 = [r0 EXCEPT !.high = a]
  OBVIOUS
<1>3. r1 = [ts |-> ts, open |-> o, high |-> a, low |-> l, close |-> c, volume |-> v]
  BY <1>0, <1>2
<1>4. PICK r2 : r2 = [r1 EXCEPT !.low = b]
  OBVIOUS
<1>5. r2 = [ts |-> ts, open |-> o, high |-> a, low |-> b, close |-> c, volume |-> v]
  BY <1>3, <1>4
<1>6. PICK r3 : r3 = [r2 EXCEPT !.close = p]
  OBVIOUS
<1>7. r3 = [ts |-> ts, open |-> o, high |-> a, low |-> b, close |-> p, volume |-> v]
  BY <1>5, <1>6
<1>8. [r3 EXCEPT !.volume = u] = [ts |-> ts, open |-> o, high |-> a, low |-> b, close |-> p, volume |-> u]
  BY <1>7
<1>9. Added(r0, x) = [r0 EXCEPT !.high = a, !.low = b, !.close = p, !.volume = u]
  BY <1>1, Zenon DEF Added
<1>10. [r0 EXCEPT !.high = a, !.low = b, !.close = p, !.volume = u] = [r3 EXCEPT !.volume = u]
  BY <1>2, <1>4, <1>6, Zenon
<1>11. Added(r0, x) = [ts |-> ts, open |-> o, high |-> a, low |-> b, close |-> p, volume |-> u]
  BY <1>8, <1>9, <1>10
<1>12. ts = r0.ts /\ o = r0.open
  BY <1>0
<1> QED  BY <1>1, <1>11, <1>12

\* A later one is added to it.
LEMMA CandleAdded ==
    ASSUME FeedAssumption, NEW i \in Ordinals, NEW s \in Seq(Trades), NEW x \in Trades,
           NEW ts \in BucketsOf(s, i), ts = Bucket(i, x.at)
    PROVE  CandleOf(Append(s, x), i, ts) = Added(CandleOf(s, i, ts), x)
<1>1. PICK t, n : t = Append(s, x) /\ n = Len(s) + 1
  OBVIOUS
<1>2. /\ t[n] = x /\ n \in Nat /\ Len(s) \in Nat
      /\ \A k \in 1..Len(s) : t[k] = s[k]
  BY <1>1, AppendProperties, LenProperties
<1>3. PICK places : places = InBucket(s, i, ts)
  OBVIOUS
<1>4. PICK prices : prices = {s[k].price : k \in places}
  OBVIOUS
<1>5. PICK p : p = x.price
  OBVIOUS
<1>6. /\ Min(places) \in places /\ \A k \in places : Min(places) <= k
      /\ prices \in SUBSET Nat /\ prices # {}
      /\ Max(prices) \in prices /\ \A q \in prices : q <= Max(prices)
      /\ Min(prices) \in prices /\ \A q \in prices : Min(prices) <= q
      /\ Cardinality(places) \in Nat
  <2> DEFINE S == InBucket(s, i, ts)
             P == {s[k].price : k \in S}
  <2>1. Min(S) \in S /\ \A k \in S : Min(S) <= k
    BY CandleParts
  <2>2. P \in SUBSET Nat /\ P # {}
    BY CandleParts
  <2>3. Max(P) \in P /\ \A q \in P : q <= Max(P)
    BY CandleParts
  <2>4. Min(P) \in P /\ \A q \in P : Min(P) <= q
    BY CandleParts
  <2>5. Cardinality(S) \in Nat
    BY CandleParts
  <2>6. S = places /\ P = prices
    BY <1>3, <1>4
  <2> HIDE DEF S, P
  <2> QED  BY <2>1, <2>2, <2>3, <2>4, <2>5, <2>6
<1>7. /\ places \in SUBSET Int /\ IsFiniteSet(places) /\ places \subseteq 1..Len(s)
      /\ InBucket(t, i, ts) = places \cup {n}
  BY <1>1, <1>3, InBucketGrows
<1>8. p \in Nat
  BY <1>5 DEF Trades
<1>9. n \notin places /\ \A k \in places : k <= n
  BY <1>1, <1>2, <1>7
<1>10. PICK all : all = places \cup {n}
  OBVIOUS
<1>11. Max(all) = n /\ Min(all) = Min(places)
  <2>1. PICK m : m = Min(places)
    OBVIOUS
  <2>2. all \in SUBSET Int /\ n \in all /\ (\A y \in all : y <= n)
    BY <1>2, <1>7, <1>9, <1>10
  <2>3. m \in all /\ \A y \in all : m <= y
    BY <1>6, <1>9, <1>10, <2>1
  <2> QED  BY <2>1, <2>2, <2>3, BoundIs
<1>12. Cardinality(all) = Cardinality(places) + 1
  BY <1>7, <1>9, <1>10, FS_AddElement
<1>13. {t[k].price : k \in all} = prices \cup {p}
  BY <1>2, <1>4, <1>5, <1>7, <1>10
<1>14. PICK high, low : high = Max(prices) /\ low = Min(prices)
  OBVIOUS
<1>15. /\ high \in Nat /\ low \in Nat /\ high \in prices /\ low \in prices
       /\ \A q \in prices : q <= high /\ low <= q
  BY <1>6, <1>14
<1>16. PICK grown, top, bottom : grown = prices \cup {p} /\ top = {high, p} /\ bottom = {low, p}
  OBVIOUS
<1>17. grown \in SUBSET Int /\ top \in SUBSET Int /\ bottom \in SUBSET Int
  BY <1>6, <1>8, <1>15, <1>16
<1>18. Max(grown) = Max(top)
  <2>1. CASE p <= high
    <3>1. high \in grown /\ high \in top /\ (\A y \in grown : y <= high) /\ (\A y \in top : y <= high)
      BY <1>8, <1>15, <1>16, <2>1
    <3>2. Max(grown) = high
      BY <1>17, <3>1, BoundIs
    <3>3. Max(top) = high
      BY <1>17, <3>1, BoundIs
    <3> QED  BY <3>2, <3>3
  <2>2. CASE high <= p
    <3>1. p \in grown /\ p \in top /\ (\A y \in grown : y <= p) /\ (\A y \in top : y <= p)
      BY <1>6, <1>8, <1>15, <1>16, <2>2
    <3>2. Max(grown) = p
      BY <1>17, <3>1, BoundIs
    <3>3. Max(top) = p
      BY <1>17, <3>1, BoundIs
    <3> QED  BY <3>2, <3>3
  <2> QED  BY <1>8, <1>15, <2>1, <2>2
<1>19. Min(grown) = Min(bottom)
  <2>1. CASE low <= p
    <3>1. low \in grown /\ low \in bottom /\ (\A y \in grown : low <= y) /\ (\A y \in bottom : low <= y)
      BY <1>8, <1>15, <1>16, <2>1
    <3>2. Min(grown) = low
      BY <1>17, <3>1, BoundIs
    <3>3. Min(bottom) = low
      BY <1>17, <3>1, BoundIs
    <3> QED  BY <3>2, <3>3
  <2>2. CASE p <= low
    <3>1. p \in grown /\ p \in bottom /\ (\A y \in grown : p <= y) /\ (\A y \in bottom : p <= y)
      BY <1>6, <1>8, <1>15, <1>16, <2>2
    <3>2. Min(grown) = p
      BY <1>17, <3>1, BoundIs
    <3>3. Min(bottom) = p
      BY <1>17, <3>1, BoundIs
    <3> QED  BY <3>2, <3>3
  <2> QED  BY <1>8, <1>15, <2>1, <2>2
<1>20. CandleOf(t, i, ts) = [ts |-> ts, open |-> t[Min(places)].price, high |-> Max(top),
                             low |-> Min(bottom), close |-> p, volume |-> Cardinality(places) + 1]
  BY <1>2, <1>5, <1>7, <1>10, <1>11, <1>12, <1>13, <1>16, <1>18, <1>19 DEF CandleOf
<1>21. CandleOf(s, i, ts) = [ts |-> ts, open |-> s[Min(places)].price, high |-> high, low |-> low,
                             close |-> s[Max(places)].price, volume |-> Cardinality(places)]
  BY <1>3, <1>4, <1>14 DEF CandleOf
<1>22. t[Min(places)] = s[Min(places)]
  BY <1>2, <1>6, <1>7
<1>23. CandleOf(t, i, ts) = Added(CandleOf(s, i, ts), x)
  <2>1. PICK o, l, v : o = s[Min(places)].price /\ l = s[Max(places)].price /\ v = Cardinality(places)
    OBVIOUS
  <2>2. PICK c : c = [ts |-> ts, open |-> o, high |-> high, low |-> low, close |-> l, volume |-> v]
    OBVIOUS
  <2>3. Added(c, x) = [ts |-> ts, open |-> o, high |-> Max({high, p}), low |-> Min({low, p}),
                       close |-> p, volume |-> v + 1]
    <3>1. /\ c.ts = ts /\ c.open = o /\ c.high = high /\ c.low = low /\ c.close = l
          /\ c.volume = v
      BY <2>2
    <3>2. c = [ts |-> c.ts, open |-> c.open, high |-> c.high, low |-> c.low,
               close |-> c.close, volume |-> c.volume]
      BY <2>2, <3>1
    <3>3. Added(c, x) = [ts |-> c.ts, open |-> c.open, high |-> Max({c.high, x.price}),
                         low |-> Min({c.low, x.price}), close |-> x.price,
                         volume |-> c.volume + 1]
      BY <3>2, AddedIs
    <3> QED  BY <1>5, <3>1, <3>3
  <2> QED  BY <1>16, <1>20, <1>21, <1>22, <2>1, <2>2, <2>3
<1> QED  BY <1>1, <1>23

\* The newest of candles in order are in order, and newer than what is left out.
LEMMA NewestInOrder ==
    ASSUME NEW s \in Seq(CandleRecords), InOrder(s), NEW n \in Nat
    PROVE  LET p == Newest(n, s) IN
           /\ p \in Seq(CandleRecords) /\ InOrder(p) /\ Len(p) <= n
           /\ Range(p) \subseteq Range(s)
           /\ \A c \in Range(s) \ Range(p) : Len(p) = n /\ \A d \in Range(p) : c.ts < d.ts
<1>1. PICK p : p = Newest(n, s)
  OBVIOUS
<1>2. /\ p \in Seq(CandleRecords) /\ IsEndOf(p, s) /\ Len(p) = IF Len(s) > n THEN n ELSE Len(s)
  BY <1>1, NewestIs
<1>3. /\ Len(s) \in Nat /\ Len(p) \in Nat /\ DOMAIN s = 1..Len(s) /\ DOMAIN p = 1..Len(p)
      /\ Len(p) <= n /\ Len(p) <= Len(s)
  BY <1>2, LenProperties
<1>4. \A k \in 1..Len(p) : Len(s) - Len(p) + k \in 1..Len(s)
  BY <1>3
<1>5. \A k \in 1..Len(p) : p[k] = s[Len(s) - Len(p) + k]
  BY <1>2 DEF IsEndOf
<1>6. InOrder(p)
  <2> SUFFICES ASSUME NEW a \in 1..Len(p), NEW b \in 1..Len(p), a < b PROVE p[a].ts < p[b].ts
    BY <1>3 DEF InOrder
  <2>1. PICK x, y : x = Len(s) - Len(p) + a /\ y = Len(s) - Len(p) + b
    OBVIOUS
  <2>2. x \in 1..Len(s) /\ y \in 1..Len(s) /\ x < y
    BY <1>3, <2>1
  <2>3. p[a] = s[x] /\ p[b] = s[y]
    BY <1>5, <2>1
  <2> QED  BY <1>3, <2>2, <2>3 DEF InOrder
<1>7. Range(p) \subseteq Range(s)
  BY <1>3, <1>4, <1>5 DEF Range
<1>8. ASSUME NEW c \in Range(s) \ Range(p)
      PROVE  Len(p) = n /\ \A d \in Range(p) : c.ts < d.ts
  <2>1. PICK x \in 1..Len(s) : c = s[x]
    BY <1>3 DEF Range
  <2>2. x <= Len(s) - Len(p)
    <3> SUFFICES ASSUME x > Len(s) - Len(p) PROVE FALSE
      BY <1>3
    <3>1. PICK k : k = x - (Len(s) - Len(p))
      OBVIOUS
    <3>2. k \in 1..Len(p) /\ Len(s) - Len(p) + k = x
      BY <1>3, <3>1
    <3>3. p[k] = c
      BY <1>5, <2>1, <3>2
    <3> QED  BY <1>3, <3>2, <3>3 DEF Range
  <2>3. Len(p) = n
    <3>1. Len(s) > Len(p)
      BY <1>3, <2>2
    <3>2. Len(s) > n \/ Len(p) = Len(s)
      BY <1>2
    <3>3. Len(s) > n => Len(p) = n
      BY <1>2
    <3> QED  BY <3>1, <3>2, <3>3
  <2>4. ASSUME NEW d \in Range(p) PROVE c.ts < d.ts
    <3>1. PICK k \in 1..Len(p) : d = p[k]
      BY <1>3 DEF Range
    <3>2. PICK y : y = Len(s) - Len(p) + k
      OBVIOUS
    <3>3. y \in 1..Len(s) /\ x < y /\ d = s[y]
      BY <1>3, <1>5, <2>2, <3>1, <3>2
    <3> QED  BY <1>3, <2>1, <3>3 DEF InOrder
  <2> QED  BY <2>3, <2>4
<1> QED  BY <1>1, <1>2, <1>3, <1>6, <1>7, <1>8

\* A candle that begins later than all goes behind them.
LEMMA AppendedInOrder ==
    ASSUME NEW s \in Seq(CandleRecords), InOrder(s), NEW c \in CandleRecords,
           \A d \in Range(s) : d.ts < c.ts
    PROVE  LET t == Append(s, c) IN
           /\ t \in Seq(CandleRecords) /\ InOrder(t) /\ Len(t) = Len(s) + 1
           /\ Range(t) = Range(s) \cup {c}
<1>1. PICK t : t = Append(s, c)
  OBVIOUS
<1>2. /\ t \in Seq(CandleRecords) /\ Len(t) = Len(s) + 1 /\ Len(s) \in Nat
      /\ DOMAIN s = 1..Len(s) /\ DOMAIN t = 1..(Len(s) + 1)
      /\ t[Len(s) + 1] = c /\ \A k \in 1..Len(s) : t[k] = s[k]
  BY <1>1, AppendProperties, LenProperties
<1>3. 1..(Len(s) + 1) = (1..Len(s)) \cup {Len(s) + 1}
  BY <1>2
<1>4. Range(t) = Range(s) \cup {c}
  BY <1>2, <1>3 DEF Range
<1>5. InOrder(t)
  <2> SUFFICES ASSUME NEW a \in 1..(Len(s) + 1), NEW b \in 1..(Len(s) + 1), a < b
               PROVE  t[a].ts < t[b].ts
    BY <1>2 DEF InOrder
  <2>1. a \in 1..Len(s)
    BY <1>2
  <2>2. CASE b \in 1..Len(s)
    BY <1>2, <2>1, <2>2 DEF InOrder
  <2>3. CASE b = Len(s) + 1
    <3>1. s[a] \in Range(s)
      BY <1>2, <2>1 DEF Range
    <3> QED  BY <1>2, <2>1, <2>3, <3>1
  <2> QED  BY <1>3, <2>2, <2>3
<1> QED  BY <1>1, <1>2, <1>4, <1>5

\* What is picked from candles in order are those at the places, in order.
LEMMA PickedIs ==
    ASSUME NEW s \in Seq(CandleRecords), InOrder(s), NEW places \in SUBSET DOMAIN s
    PROVE  LET p == Picked(s, places) IN
           /\ p \in Seq(CandleRecords) /\ InOrder(p) /\ Range(p) = {s[n] : n \in places}
<1>1. /\ Len(s) \in Nat /\ DOMAIN s = 1..Len(s)
      /\ \A n \in 1..Len(s) : s[n] \in CandleRecords
  BY LenProperties, ElementOfSeq
<1>2. PICK g : /\ g[0] = <<>>
               /\ \A n \in 1..Len(s) :
                     g[n] = IF n \in places THEN Append(g[n - 1], s[n]) ELSE g[n - 1]
               /\ Picked(s, places) = g[Len(s)]
  BY <1>1, PickedRecursion
<1> DEFINE Good(q, n) == q \in Seq(CandleRecords) /\ InOrder(q) /\ Range(q) = {s[m] : m \in places \cap (1..n)}
           K == {n \in Nat : n <= Len(s) => Good(g[n], n)}
<1>3. 0 \in K
  <2>1. <<>> \in Seq(CandleRecords) /\ InOrder(<<>>) /\ Range(<<>>) = {}
    BY DEF InOrder, Range
  <2>2. places \cap (1..0) = {}
    OBVIOUS
  <2>3. Good(g[0], 0)
    BY <1>2, <2>1, <2>2
  <2> QED  BY <2>3
<1>4. ASSUME NEW n \in K PROVE n + 1 \in K
  <2>0. PICK z : z = n + 1
    OBVIOUS
  <2> SUFFICES ASSUME z <= Len(s) PROVE Good(g[z], z)
    BY <2>0
  <2>1. n \in Nat /\ n <= Len(s) /\ z \in 1..Len(s) /\ z - 1 = n
    BY <1>1, <2>0
  <2>2. PICK q : q = g[n]
    OBVIOUS
  <2>3. q \in Seq(CandleRecords) /\ InOrder(q) /\ Range(q) = {s[m] : m \in places \cap (1..n)}
    BY <1>4, <2>1, <2>2
  <2>4. g[z] = IF z \in places THEN Append(q, s[z]) ELSE q
    BY <1>2, <2>1, <2>2
  <2>5. 1..z = (1..n) \cup {z}
    BY <2>0, <2>1
  <2>6. CASE z \notin places
    <3>1. places \cap (1..z) = places \cap (1..n)
      BY <2>5, <2>6
    <3> QED  BY <2>3, <2>4, <2>6, <3>1
  <2>7. CASE z \in places
    <3>1. places \cap (1..z) = (places \cap (1..n)) \cup {z}
      BY <2>5, <2>7
    <3>2. {s[m] : m \in places \cap (1..z)} = Range(q) \cup {s[z]}
      BY <2>3, <3>1
    <3>3. \A d \in Range(q) : d.ts < s[z].ts
      <4> SUFFICES ASSUME NEW m \in places \cap (1..n) PROVE s[m].ts < s[z].ts
        BY <2>3
      <4>1. m \in DOMAIN s /\ z \in DOMAIN s /\ m < z
        BY <1>1, <2>0, <2>1
      <4> QED  BY <4>1 DEF InOrder
    <3>4. s[z] \in CandleRecords
      BY <1>1, <2>1
    <3>5. PICK t : t = Append(q, s[z])
      OBVIOUS
    <3>6. t \in Seq(CandleRecords) /\ InOrder(t) /\ Range(t) = Range(q) \cup {s[z]}
      BY <2>3, <3>3, <3>4, <3>5, AppendedInOrder
    <3> QED  BY <2>4, <2>7, <3>2, <3>5, <3>6
  <2> QED  BY <2>6, <2>7
<1>5. K = Nat
  <2> HIDE DEF K
  <2>1. K \in SUBSET Nat
    BY DEF K
  <2> QED  BY <1>3, <1>4, <2>1, NatSetInduction
<1>6. Good(g[Len(s)], Len(s))
  <2>1. Len(s) \in K
    BY <1>1, <1>5
  <2> QED  BY <1>1, <2>1
<1>7. places \cap (1..Len(s)) = places
  BY <1>1
<1> QED  BY <1>2, <1>6, <1>7

\* The candles of one interval: those of the trades, and none is missing but the
\* oldest ones when there are too many.
SeriesKept(candles, trades, i) ==
    /\ candles \in Seq(CandleRecords) /\ Len(candles) <= MaxCandles
    /\ AreCandles(candles, trades, i)
    /\ \A ts \in Missing(candles, trades, i) :
           Len(candles) = MaxCandles /\ \A c \in Range(candles) : ts < c.ts

\* updateCandlesLocked keeps them.
LEMMA CandlesWithKeep ==
    ASSUME FeedAssumption, NEW i \in Ordinals, NEW s \in Seq(Trades), NEW x \in Trades,
           \A k \in 1..Len(s) : s[k].at <= x.at, NEW candles, SeriesKept(candles, s, i)
    PROVE  SeriesKept(CandlesWith(candles, i, x), Append(s, x), i)
<1>1. PICK t, ts : t = Append(s, x) /\ ts = Bucket(i, x.at)
  OBVIOUS
<1>2. /\ Len(s) \in Nat /\ DOMAIN s = 1..Len(s) /\ t \in Seq(Trades)
      /\ \A k \in 1..Len(s) : s[k] \in Trades
  BY <1>1, LenProperties, ElementOfSeq, AppendProperties
<1>3. BucketsOf(t, i) = BucketsOf(s, i) \cup {ts}
  BY <1>1, BucketsGrow
<1>4. ts \in Nat /\ \A b \in BucketsOf(s, i) : b \in Nat /\ b <= ts
  <2>1. x.at \in Nat
    BY DEF Trades
  <2>2. ASSUME NEW k \in 1..Len(s) PROVE Bucket(i, s[k].at) \in Nat /\ Bucket(i, s[k].at) <= ts
    <3>1. s[k].at \in Nat /\ s[k].at <= x.at
      BY <1>2 DEF Trades
    <3> QED  BY <1>1, <2>1, <3>1, BucketIs
  <2>3. ts \in Nat
    BY <1>1, <2>1, BucketIs
  <2> QED  BY <1>2, <2>2, <2>3 DEF BucketsOf
<1>5. /\ candles \in Seq(CandleRecords) /\ Len(candles) <= MaxCandles
      /\ MaxCandles \in Nat \ {0} /\ Len(candles) \in Nat /\ DOMAIN candles = 1..Len(candles)
      /\ InOrder(candles)
      /\ \A c \in Range(candles) : c.ts \in BucketsOf(s, i) /\ c = CandleOf(s, i, c.ts)
      /\ \A b \in Missing(candles, s, i) :
             Len(candles) = MaxCandles /\ \A c \in Range(candles) : b < c.ts
  <2>1. candles \in Seq(CandleRecords) /\ AreCandles(candles, s, i)
    BY DEF SeriesKept
  <2>2. Len(candles) \in Nat /\ DOMAIN candles = 1..Len(candles)
    BY <2>1, LenProperties
  <2> QED  BY <2>1, <2>2 DEF SeriesKept, AreCandles, FeedAssumption
<1>5a. Len(candles) \in Nat /\ DOMAIN candles = 1..Len(candles)
  BY <1>5
<1>6. \A b \in BucketsOf(t, i) : CandleOf(t, i, b) \in CandleRecords /\ CandleOf(t, i, b).ts = b
  BY <1>2, CandleParts
<1>7. CASE candles # <<>> /\ Last(candles).ts = ts
  <2>1. PICK n, c : n = Len(candles) /\ c = candles[n]
    OBVIOUS
  <2>2. n \in 1..Len(candles) /\ c.ts = ts /\ c \in Range(candles)
    <3>1. n # 0
      BY <1>5, <1>7, <2>1, EmptySeq
    <3>2. n \in 1..Len(candles)
      BY <1>5a, <2>1, <3>1
    <3>3. Last(candles) = c
      BY <2>1 DEF Last
    <3> QED  BY <1>5, <1>7, <2>1, <3>2, <3>3 DEF Range
  <2>3. ts \in BucketsOf(s, i) /\ c = CandleOf(s, i, ts)
    BY <1>5, <2>2
  <2>4. CandleOf(t, i, ts) = Added(c, x)
    BY <1>1, <2>3, CandleAdded
  <2>5. PICK e : e = Added(c, x)
    OBVIOUS
  <2>6. e \in CandleRecords /\ e.ts = ts /\ e = CandleOf(t, i, ts)
    BY <1>3, <1>6, <2>4, <2>5
  <2>7. PICK r : r = CandlesWith(candles, i, x)
    OBVIOUS
  <2>8. r = [candles EXCEPT ![n] = e]
    BY <1>1, <1>7, <2>1, <2>5, <2>7 DEF CandlesWith
  <2>9. /\ r \in Seq(CandleRecords) /\ Len(r) = Len(candles) /\ DOMAIN r = 1..Len(candles)
        /\ r[n] = e /\ \A k \in 1..Len(candles) : k # n => r[k] = candles[k]
    <3>1. r \in Seq(CandleRecords) /\ Len(r) = Len(candles)
      <4>1. candles \in Seq(CandleRecords) /\ n \in 1..Len(candles) /\ e \in CandleRecords
        BY <1>5, <2>2, <2>6
      <4>2. /\ [candles EXCEPT ![n] = e] \in Seq(CandleRecords)
            /\ Len([candles EXCEPT ![n] = e]) = Len(candles)
        BY <4>1, ExceptSeq
      <4> QED  BY <2>8, <4>2
    <3>2. DOMAIN r = 1..Len(candles)
      BY <1>5, <2>8
    <3> QED  BY <1>5, <2>2, <2>8, <3>1, <3>2
  <2>10. \A k \in 1..Len(candles) : r[k].ts = candles[k].ts
    BY <2>1, <2>2, <2>6, <2>9
  <2>11. InOrder(r)
    BY <1>5, <2>9, <2>10 DEF InOrder
  <2>12. ASSUME NEW k \in 1..Len(candles), k # n
         PROVE  candles[k].ts # ts /\ candles[k] \in Range(candles)
    <3>1. k < n
      <4>1. n \in Nat /\ k \in Int /\ k <= n
        BY <1>5a, <2>1
      <4> QED  BY <2>12, <4>1
    <3>2. candles[k] \in Range(candles)
      BY <1>5 DEF Range
    <3>3. candles[k].ts < candles[n].ts
      BY <1>5, <2>2, <3>1 DEF InOrder
    <3>4. candles[k].ts \in Nat
      BY <1>4, <1>5, <3>2
    <3> QED  BY <1>4, <2>1, <2>2, <3>2, <3>3, <3>4
  <2>13. ASSUME NEW k \in 1..Len(candles)
         PROVE  r[k].ts \in BucketsOf(t, i) /\ r[k] = CandleOf(t, i, r[k].ts)
    <3>1. CASE k = n
      BY <1>3, <2>6, <2>9, <3>1
    <3>2. CASE k # n
      <4>1. PICK d : d = candles[k]
        OBVIOUS
      <4>2. d.ts \in BucketsOf(s, i) /\ d = CandleOf(s, i, d.ts) /\ d.ts # ts /\ r[k] = d
        BY <1>5, <2>9, <2>12, <3>2, <4>1
      <4>3. CandleOf(t, i, d.ts) = CandleOf(s, i, d.ts)
        BY <1>1, <4>2, CandleUnchanged
      <4> QED  BY <1>3, <4>2, <4>3
    <3> QED  BY <3>1, <3>2
  <2>14. AreCandles(r, t, i)
    BY <2>9, <2>11, <2>13 DEF AreCandles, Range
  <2>15. {d.ts : d \in Range(r)} = {d.ts : d \in Range(candles)}
    <3>1. {d.ts : d \in Range(r)} = {r[k].ts : k \in 1..Len(candles)}
      BY <2>9 DEF Range
    <3>2. {d.ts : d \in Range(candles)} = {candles[k].ts : k \in 1..Len(candles)}
      BY <1>5 DEF Range
    <3> QED  BY <2>10, <3>1, <3>2
  <2>16. Missing(r, t, i) = Missing(candles, s, i)
    BY <1>3, <2>3, <2>15 DEF Missing
  <2>17. ASSUME NEW b \in Missing(r, t, i)
         PROVE  Len(r) = MaxCandles /\ \A d \in Range(r) : b < d.ts
    <3>1. Len(candles) = MaxCandles /\ \A d \in Range(candles) : b < d.ts
      BY <1>5, <2>16
    <3>2. ASSUME NEW d \in Range(r) PROVE b < d.ts
      <4>1. PICK f \in Range(candles) : d.ts = f.ts
        BY <2>15
      <4> QED  BY <3>1, <4>1
    <3> QED  BY <2>9, <3>1, <3>2
  <2> QED  BY <1>1, <1>5, <2>7, <2>9, <2>14, <2>17 DEF SeriesKept
<1>8. CASE ~(candles # <<>> /\ Last(candles).ts = ts)
  <2>1. \A c \in Range(candles) : c.ts < ts
    <3> SUFFICES ASSUME NEW k \in 1..Len(candles) PROVE candles[k].ts < ts
      BY <1>5 DEF Range
    <3>1. PICK n : n = Len(candles)
      OBVIOUS
    <3>2. n \in 1..Len(candles) /\ k <= n
      BY <1>5a, <3>1
    <3>3. candles # <<>>
      BY <3>1, <3>2
    <3>4. candles[k] \in Range(candles) /\ candles[n] \in Range(candles)
      BY <1>5, <3>2 DEF Range
    <3>5. Last(candles) = candles[n]
      BY <3>1 DEF Last
    <3>6. candles[n].ts # ts /\ candles[n].ts \in Nat /\ candles[n].ts <= ts
      BY <1>4, <1>5, <1>8, <3>3, <3>4, <3>5
    <3>7. candles[k].ts \in Nat
      BY <1>4, <1>5, <3>4
    <3>8. k = n \/ candles[k].ts < candles[n].ts
      <4>1. k = n \/ k < n
        BY <1>5a, <3>2
      <4>2. k \in DOMAIN candles /\ n \in DOMAIN candles
        BY <1>5a, <3>2
      <4> QED  BY <1>5, <4>1, <4>2 DEF InOrder
    <3> QED  BY <1>4, <3>6, <3>7, <3>8
  <2>2. ts \notin BucketsOf(s, i)
    <3> SUFFICES ASSUME ts \in BucketsOf(s, i) PROVE FALSE
      OBVIOUS
    <3>1. ts \in Missing(candles, s, i)
      <4>1. \A c \in Range(candles) : c.ts # ts
        <5> SUFFICES ASSUME NEW c \in Range(candles) PROVE c.ts # ts
          OBVIOUS
        <5>1. c.ts \in Nat
          BY <1>4, <1>5
        <5> QED  BY <1>4, <2>1, <5>1
      <4> QED  BY <4>1 DEF Missing
    <3>2. Len(candles) = MaxCandles /\ \A c \in Range(candles) : ts < c.ts
      BY <1>5, <3>1
    <3>3. candles[1] \in Range(candles)
      BY <1>5, <3>2 DEF Range
    <3>4. ts < candles[1].ts /\ candles[1].ts < ts /\ candles[1].ts \in Nat
      BY <1>4, <1>5, <2>1, <3>2, <3>3
    <3> QED  BY <1>4, <3>4
  <2>3. PICK e : e = Opened(x, ts)
    OBVIOUS
  <2>4. e \in CandleRecords /\ e.ts = ts /\ e = CandleOf(t, i, ts)
    <3>1. CandleOf(t, i, ts) = Opened(x, ts)
      BY <1>1, <2>2, CandleOpened
    <3> QED  BY <1>3, <1>6, <2>3, <3>1
  <2>5. PICK all : all = Append(candles, e)
    OBVIOUS
  <2>6. /\ all \in Seq(CandleRecords) /\ InOrder(all) /\ Len(all) = Len(candles) + 1
        /\ Range(all) = Range(candles) \cup {e}
    BY <1>5, <2>1, <2>4, <2>5, AppendedInOrder
  <2>7. PICK r : r = Newest(MaxCandles, all)
    OBVIOUS
  <2>8. /\ r \in Seq(CandleRecords) /\ InOrder(r) /\ Len(r) <= MaxCandles
        /\ Range(r) \subseteq Range(all)
        /\ \A c \in Range(all) \ Range(r) : Len(r) = MaxCandles /\ \A d \in Range(r) : c.ts < d.ts
    <3>1. MaxCandles \in Nat
      BY <1>5
    <3> QED  BY <2>6, <2>7, <3>1, NewestInOrder
  <2>9. CandlesWith(candles, i, x) = r
    BY <1>1, <1>8, <2>3, <2>5, <2>7 DEF CandlesWith
  <2>10. ASSUME NEW c \in Range(all) PROVE c.ts \in BucketsOf(t, i) /\ c = CandleOf(t, i, c.ts)
    <3>1. CASE c = e
      BY <1>3, <2>4, <3>1
    <3>2. CASE c \in Range(candles)
      <4>1. c.ts \in BucketsOf(s, i) /\ c = CandleOf(s, i, c.ts) /\ c.ts # ts
        BY <1>4, <1>5, <2>2, <3>2
      <4>2. CandleOf(t, i, c.ts) = CandleOf(s, i, c.ts)
        BY <1>1, <4>1, CandleUnchanged
      <4> QED  BY <1>3, <4>1, <4>2
    <3> QED  BY <2>6, <3>1, <3>2
  <2>11. AreCandles(r, t, i)
    BY <2>8, <2>10 DEF AreCandles
  <2>12. ASSUME NEW b \in Missing(r, t, i)
         PROVE  Len(r) = MaxCandles /\ \A d \in Range(r) : b < d.ts
    <3>1. b \in BucketsOf(t, i) /\ \A d \in Range(r) : d.ts # b
      BY DEF Missing
    <3>2. CASE \E c \in Range(all) : c.ts = b
      <4>1. PICK c \in Range(all) : c.ts = b
        BY <3>2
      <4> QED  BY <2>8, <3>1, <4>1
    <3>3. CASE \A c \in Range(all) : c.ts # b
      <4>1. b \in Missing(candles, s, i)
        BY <1>3, <2>4, <2>6, <3>1, <3>3 DEF Missing
      <4>2. Len(candles) = MaxCandles /\ \A c \in Range(candles) : b < c.ts
        BY <1>5, <4>1
      <4>3. Len(r) = MaxCandles
        BY <1>5, <2>6, <2>7, <4>2, NewestIs
      <4>4. b < ts
        BY <1>3, <1>4, <2>4, <2>6, <3>1, <3>3
      <4> QED  BY <2>4, <2>6, <2>8, <4>2, <4>3, <4>4
    <3> QED  BY <3>2, <3>3
  <2> QED  BY <1>1, <2>8, <2>9, <2>11, <2>12 DEF SeriesKept
<1> QED  BY <1>7, <1>8

RecorderInv ==
    /\ FeedTypes /\ ExecutedInTime /\ TapeKept
    /\ \A i \in Ordinals : SeriesKept(series[i], OfProcess, i)

\* A window of the candles, and the newest of it: what a reader gets.
LEMMA SeriesAnswers ==
    ASSUME FeedAssumption, RecorderInv
    PROVE  SeriesAreExact
<1> SUFFICES ASSUME NEW i \in Ordinals
             PROVE  /\ AreCandles(series[i], OfProcess, i)
                    /\ \A ts \in Missing(series[i], OfProcess, i) :
                           Len(series[i]) = MaxCandles /\ \A c \in Range(series[i]) : ts < c.ts
                    /\ \A w \in Windows, n \in Pages :
                           LET page == GetCandles(i, n, w[1], w[2])
                               inside == {c \in Range(series[i]) : c.ts \in w[1]..w[2]}
                           IN  /\ InOrder(page) /\ Range(page) \subseteq inside
                               /\ \A c \in inside \ Range(page) :
                                      Len(page) = Or(n, DefaultPage) /\ \A d \in Range(page) : c.ts < d.ts
  BY DEF SeriesAreExact
<1>1. /\ AreCandles(series[i], OfProcess, i)
      /\ \A ts \in Missing(series[i], OfProcess, i) :
             Len(series[i]) = MaxCandles /\ \A c \in Range(series[i]) : ts < c.ts
  BY DEF RecorderInv, SeriesKept
<1>2. PICK s : s = series[i]
  OBVIOUS
<1>3. s \in Seq(CandleRecords) /\ InOrder(s)
  BY <1>1, <1>2 DEF RecorderInv, SeriesKept, AreCandles
<1>4. ASSUME NEW w \in Windows, NEW n \in Pages
      PROVE  LET page == GetCandles(i, n, w[1], w[2])
                 inside == {c \in Range(series[i]) : c.ts \in w[1]..w[2]}
             IN  /\ InOrder(page) /\ Range(page) \subseteq inside
                 /\ \A c \in inside \ Range(page) :
                        Len(page) = Or(n, DefaultPage) /\ \A d \in Range(page) : c.ts < d.ts
  <2>1. PICK a, b, many : a = w[1] /\ b = w[2] /\ many = Or(n, DefaultPage)
    OBVIOUS
  <2>2. a \in Int /\ b \in Int /\ b > 0
    <3>1. now \in Nat
      BY DEF RecorderInv, FeedTypes
    <3>2. (w = <<0, now - 1>> \/ w = <<now, now>>) /\ w[2] > 0
      BY DEF Windows
    <3>3. w[1] \in Int /\ w[2] \in Int
      BY <3>1, <3>2
    <3> QED  BY <2>1, <3>2, <3>3
  <2>3. many \in Nat
    BY <2>1 DEF Or, Pages, FeedAssumption
  <2>4. PICK places : places = {k \in DOMAIN s : InWindow(s[k].ts, a, b)}
    OBVIOUS
  <2>5. PICK p : p = Picked(s, places)
    OBVIOUS
  <2>6. p \in Seq(CandleRecords) /\ InOrder(p) /\ Range(p) = {s[k] : k \in places}
    BY <1>3, <2>4, <2>5, PickedIs
  <2>7. PICK page : page = Newest(many, p)
    OBVIOUS
  <2>8. /\ page \in Seq(CandleRecords) /\ InOrder(page) /\ Range(page) \subseteq Range(p)
        /\ \A c \in Range(p) \ Range(page) : Len(page) = many /\ \A d \in Range(page) : c.ts < d.ts
    BY <2>3, <2>6, <2>7, NewestInOrder
  <2>9. Range(p) = {c \in Range(s) : c.ts \in a..b}
    <3>1. \A k \in DOMAIN s : s[k].ts \in Nat
      <4>1. DOMAIN s = 1..Len(s) /\ \A k \in 1..Len(s) : s[k] \in CandleRecords
        BY <1>3, LenProperties, ElementOfSeq
      <4> QED  BY <4>1 DEF CandleRecords
    <3>2. \A k \in DOMAIN s : InWindow(s[k].ts, a, b) <=> s[k].ts \in a..b
      BY <2>2, <3>1 DEF InWindow
    <3>3. {s[k] : k \in places} = {c \in Range(s) : c.ts \in a..b}
      BY <2>4, <3>2 DEF Range
    <3> QED  BY <2>6, <3>3
  <2>10. GetCandles(i, n, w[1], w[2]) = page
    BY <1>2, <2>1, <2>4, <2>5, <2>7 DEF GetCandles, Candles
  <2> QED  BY <1>2, <2>1, <2>8, <2>9, <2>10
<1> QED  BY <1>1, <1>4

\* A recorder that has recorded nothing.
LEMMA NothingRecorded ==
    ASSUME FeedAssumption, NEW i \in Ordinals
    PROVE  SeriesKept(<<>>, <<>>, i) /\ IsEndOf(<<>>, <<>>) /\ InTime(<<>>)
<1>1. Len(<<>>) = 0 /\ DOMAIN <<>> = {} /\ 1..0 = {}
  OBVIOUS
<1>2. BucketsOf(<<>>, i) = {} /\ Range(<<>>) = {} /\ InOrder(<<>>)
  BY <1>1 DEF BucketsOf, Range, InOrder
<1>3. SeriesKept(<<>>, <<>>, i)
  BY <1>1, <1>2 DEF SeriesKept, AreCandles, Missing, FeedAssumption
<1>4. IsEndOf(<<>>, <<>>) /\ InTime(<<>>)
  BY <1>1 DEF IsEndOf, InTime
<1> QED  BY <1>3, <1>4

\* A trade that is made is the last one, of all and of this process.
LEMMA TradeIsMade ==
    ASSUME FeedTypes, ExecutedInTime, NEW price \in Nat, NEW x,
           x = [id |-> Len(executed) + 1, price |-> price, at |-> now],
           executed' = Append(executed, x), now' = now, boot' \in 0..Len(executed)
    PROVE  ExecutedInTime' /\ x \in Trades
<1>1. /\ executed \in Seq(Trades) /\ Len(executed) \in Nat /\ now \in Nat
      /\ InTime(executed) /\ \A k \in 1..Len(executed) : executed[k].id = k /\ executed[k].at <= now
  BY LenProperties DEF FeedTypes, ExecutedInTime
<1>2. x \in Trades /\ x.at = now /\ x.id = Len(executed) + 1
  BY <1>1 DEF Trades
<1>3. PICK e : e = Append(executed, x)
  OBVIOUS
<1>4. /\ InTime(e) /\ Len(e) = Len(executed) + 1 /\ e[Len(executed) + 1] = x
      /\ \A k \in 1..Len(executed) : e[k] = executed[k]
  BY <1>1, <1>2, <1>3, AppendedInTime
<1>5. ASSUME NEW k \in 1..Len(e) PROVE e[k].id = k /\ e[k].at <= now
  <2>1. CASE k \in 1..Len(executed)
    BY <1>1, <1>4, <2>1
  <2>2. CASE k = Len(executed) + 1
    BY <1>1, <1>2, <1>4, <2>2
  <2> QED  BY <1>1, <1>4, <2>1, <2>2
<1>6. boot' \in 0..Len(e)
  BY <1>1, <1>4
<1> QED  BY <1>2, <1>3, <1>4, <1>5, <1>6 DEF ExecutedInTime

\* fillLocked keeps what the recorder holds.
LEMMA FillKeepsRecorder ==
    ASSUME FeedAssumption, RecorderInv, FeedTypes', NEW r \in Requests, Fill(r)
    PROVE  RecorderInv'
<1>1. FeedTypes /\ ExecutedInTime /\ TapeKept /\ executed \in Seq(Trades) /\ Len(executed) \in Nat
  BY LenProperties DEF RecorderInv, FeedTypes
<1>2. PICK price \in Nat : LET trade == [id |-> Len(executed) + 1, price |-> price, at |-> now]
                           IN  executed' = Append(executed, trade) /\ RecordTrade(trade)
  BY FeedAssumption DEF Fill
<1>3. PICK x : x = [id |-> Len(executed) + 1, price |-> price, at |-> now]
  OBVIOUS
<1>4. /\ executed' = Append(executed, x) /\ RecordTrade(x)
      /\ x.id = Len(executed) + 1 /\ x.at = now
  BY <1>2, <1>3
<1>5. boot' = boot /\ now' = now
  BY DEF Fill
<1>6. ExecutedInTime' /\ x \in Trades
  <2>1. boot' \in 0..Len(executed)
    BY <1>1, <1>5 DEF ExecutedInTime
  <2> QED  BY <1>1, <1>3, <1>4, <1>5, <2>1, TradeIsMade
<1>7. /\ tape' = TapeWith(x)
      /\ series' = [i \in Ordinals |-> CandlesWith(series[i], i, x)]
  BY <1>1, <1>4, NumbersAreNew DEF RecordTrade
<1>8. TapeKept'
  BY <1>1, <1>4, <1>5, <1>6, <1>7, TapeWithKeeps
<1>9. OfProcess' = Append(OfProcess, x)
  BY <1>1, <1>4, <1>5, <1>6, OfProcessGrows
<1>10. PICK p : p = OfProcess
  OBVIOUS
<1>11. p \in Seq(Trades) /\ \A k \in 1..Len(p) : p[k].at <= x.at
  BY <1>1, <1>4, <1>10, OfProcessIs
<1>12. ASSUME NEW i \in Ordinals PROVE SeriesKept(series'[i], OfProcess', i)
  <2>1. PICK s : s = series[i]
    OBVIOUS
  <2>2. SeriesKept(s, p, i)
    BY <1>10, <2>1 DEF RecorderInv
  <2>3. SeriesKept(CandlesWith(s, i, x), Append(p, x), i)
    BY <1>6, <1>11, <2>2, CandlesWithKeep
  <2> QED  BY <1>7, <1>9, <1>10, <2>1, <2>3
<1> QED  BY <1>6, <1>8, <1>12 DEF RecorderInv, Ordinals

\* A crash leaves a recorder with nothing but what the log makes again.
LEMMA CrashKeepsRecorder ==
    ASSUME FeedAssumption, RecorderInv, FeedTypes', Crash
    PROVE  RecorderInv'
<1>1. FeedTypes /\ ExecutedInTime /\ executed \in Seq(Trades) /\ Len(executed) \in Nat /\ now \in Nat
  BY LenProperties DEF RecorderInv, FeedTypes
<1>2. boot' = Len(executed) /\ now' = now
  BY DEF Crash
<1>3. PICK n : n = Len(executed)
  OBVIOUS
<1>4. CASE /\ executed' = executed /\ tape' = <<>> /\ channel' = <<>>
           /\ series' = [i \in Ordinals |-> <<>>]
  <2>1. ExecutedInTime'
    BY <1>1, <1>2, <1>4 DEF ExecutedInTime
  <2>2. OfProcess' = <<>>
    <3>1. OfProcess' = SubSeq(executed, n + 1, n)
      BY <1>2, <1>3, <1>4 DEF OfProcess
    <3>2. SubSeq(executed, n + 1, n) = <<>>
      <4>1. PICK m : m = n + 1
        OBVIOUS
      <4>2. m \in Int /\ n \in Int /\ n < m
        BY <1>1, <1>3, <4>1
      <4>3. SubSeq(executed, m, n) = <<>>
        BY <4>2, SubSeqEmpty
      <4> QED  BY <4>1, <4>3
    <3> QED  BY <3>1, <3>2
  <2>3. TapeKept'
    <3>1. Len(<<>>) = 0 /\ 1..0 = {} /\ <<>> \in Seq(Trades)
      OBVIOUS
    <3>2. IsEndOf(<<>>, <<>>)
      BY <3>1 DEF IsEndOf
    <3>3. 0 <= MaxTape
      BY DEF FeedAssumption
    <3>4. 1..(Len(<<>>) - Len(<<>>)) = {}
      BY <3>1
    <3> QED  BY <1>4, <2>2, <3>1, <3>2, <3>3, <3>4 DEF TapeKept
  <2>4. \A i \in Ordinals : SeriesKept(series'[i], OfProcess', i)
    BY <1>4, <2>2, NothingRecorded
  <2> QED  BY <2>1, <2>3, <2>4 DEF RecorderInv, Ordinals
<1>5. CASE \E price \in Nat :
               LET trade == [id |-> Len(executed) + 1, price |-> price, at |-> now]
               IN  /\ executed' = Append(executed, trade) /\ tape' = <<trade>>
                   /\ channel' = <<Len(executed) + 1>>
                   /\ series' = [i \in Ordinals |-> <<Opened(trade, Bucket(i, now))>>]
  <2>1. PICK price \in Nat :
               LET trade == [id |-> Len(executed) + 1, price |-> price, at |-> now]
               IN  /\ executed' = Append(executed, trade) /\ tape' = <<trade>>
                   /\ series' = [i \in Ordinals |-> <<Opened(trade, Bucket(i, now))>>]
    BY <1>5
  <2>2. PICK x : x = [id |-> Len(executed) + 1, price |-> price, at |-> now]
    OBVIOUS
  <2>3. /\ executed' = Append(executed, x) /\ tape' = <<x>> /\ x.at = now
        /\ series' = [i \in Ordinals |-> <<Opened(x, Bucket(i, now))>>]
    BY <2>1, <2>2
  <2>4. ExecutedInTime' /\ x \in Trades
    <3>1. boot' \in 0..Len(executed)
      BY <1>1, <1>2
    <3> QED  BY <1>1, <1>2, <2>2, <2>3, <3>1, TradeIsMade
  <2>5. OfProcess' = <<x>>
    <3>1. PICK e, m : e = Append(executed, x) /\ m = n + 1
      OBVIOUS
    <3>2. e \in Seq(Trades) /\ Len(e) = m /\ e[m] = x /\ m \in 1..Len(e)
      BY <1>1, <1>3, <2>4, <3>1, AppendProperties
    <3>3. OfProcess' = SubSeq(e, m, m)
      BY <1>2, <1>3, <2>3, <3>1, <3>2 DEF OfProcess
    <3>4. /\ SubSeq(e, m, m) \in Seq(Trades) /\ Len(SubSeq(e, m, m)) = m - m + 1
          /\ \A k \in 1..(m - m + 1) : SubSeq(e, m, m)[k] = e[m + k - 1]
      <4>1. m \in Int /\ m <= m + 1 /\ \A k \in m..m : e[k] \in Trades
        BY <1>1, <1>3, <2>4, <3>1, <3>2
      <4> QED  BY <4>1, SubSeqProperties
    <3>5. PICK q : q = SubSeq(e, m, m)
      OBVIOUS
    <3>6. q \in Seq(Trades) /\ Len(q) = 1 /\ q[1] = x
      <4>1. m - m + 1 = 1 /\ m + 1 - 1 = m
        BY <1>1, <1>3, <3>1
      <4> QED  BY <3>2, <3>4, <3>5, <4>1
    <3>7. q = <<x>>
      <4>1. <<x>> \in Seq(Trades) /\ Len(<<x>>) = 1 /\ <<x>>[1] = x
        BY <2>4
      <4> QED  BY <3>6, <4>1, SeqEqual
    <3> QED  BY <3>3, <3>5, <3>7
  <2>6. <<x>> = Append(<<>>, x) /\ Len(<<x>>) = 1 /\ <<x>> \in Seq(Trades) /\ <<>> \in Seq(Trades)
    BY <2>4
  <2>7. TapeKept'
    <3>1. IsEndOf(<<x>>, <<x>>)
      BY <2>6 DEF IsEndOf
    <3>2. 1 <= MaxTape
      BY DEF FeedAssumption
    <3>3. 1..(Len(<<x>>) - Len(<<x>>)) = {}
      BY <2>6
    <3> QED  BY <2>3, <2>5, <2>6, <3>1, <3>2, <3>3 DEF TapeKept
  <2>8. ASSUME NEW i \in Ordinals PROVE SeriesKept(series'[i], OfProcess', i)
    <3>1. Len(<<>>) = 0 /\ 1..0 = {}
      OBVIOUS
    <3>2. SeriesKept(CandlesWith(<<>>, i, x), Append(<<>>, x), i)
      BY <2>4, <2>6, <3>1, NothingRecorded, CandlesWithKeep
    <3>3. PICK c : c = Opened(x, Bucket(i, now))
      OBVIOUS
    <3>4. CandlesWith(<<>>, i, x) = Newest(MaxCandles, Append(<<>>, c))
      BY <2>3, <3>3 DEF CandlesWith
    <3>5. Append(<<>>, c) = <<c>> /\ Len(<<c>>) = 1
      OBVIOUS
    <3>6. Newest(MaxCandles, <<c>>) = <<c>>
      BY <3>5 DEF Newest, FeedAssumption
    <3>7. series'[i] = <<c>>
      BY <2>3, <3>3
    <3> QED  BY <2>5, <2>6, <3>2, <3>4, <3>5, <3>6, <3>7
  <2> QED  BY <2>4, <2>7, <2>8 DEF RecorderInv, Ordinals
<1> QED  BY <1>1, <1>4, <1>5, CrashReplays

\* Every step keeps what the recorder holds: the tape and the candles of its process.
LEMMA FeedKeepsRecorder ==
    ASSUME FeedAssumption, RecorderInv, [Next]_vars
    PROVE  RecorderInv'
<1> DEFINE same == UNCHANGED <<executed, boot, tape, series>>
<1>0. FeedTypes /\ FeedTypes'
  BY FeedStaysTyped DEF RecorderInv
<1>1. ASSUME same, now' \in Nat, now' >= now PROVE RecorderInv'
  <2>1. OfProcess' = OfProcess
    BY <1>1 DEF OfProcess
  <2>2. now \in Nat
    BY <1>0 DEF FeedTypes
  <2>3. ExecutedInTime'
    <3>1. ASSUME NEW k \in 1..Len(executed) PROVE executed[k].at <= now'
      <4>1. executed[k] \in Trades /\ executed[k].at <= now
        BY <1>0, ElementOfSeq DEF FeedTypes, RecorderInv, ExecutedInTime
      <4> QED  BY <1>1, <2>2, <4>1 DEF Trades
    <3> QED  BY <1>1, <3>1 DEF RecorderInv, ExecutedInTime
  <2>4. TapeKept'
    <3>1. ASSUME NEW k \in 1..(Len(OfProcess) - Len(tape)), OfProcess[k].at < now - Day
          PROVE  OfProcess[k].at < now' - Day
      <4>1. k \in 1..Len(OfProcess) /\ OfProcess \in Seq(Trades)
        <5>1. Len(OfProcess) \in Nat /\ Len(tape) \in Nat /\ OfProcess \in Seq(Trades)
          BY <1>0, OfProcessIs, LenProperties DEF RecorderInv, TapeKept
        <5> QED  BY <5>1
      <4>2. OfProcess[k].at \in Nat
        <5>1. OfProcess[k] \in Trades
          BY <4>1, ElementOfSeq
        <5> QED  BY <5>1 DEF Trades
      <4> QED  BY <1>1, <2>2, <3>1, <4>2 DEF FeedAssumption
    <3> QED  BY <1>1, <2>1, <3>1 DEF RecorderInv, TapeKept
  <2>5. \A i \in Ordinals : SeriesKept(series'[i], OfProcess', i)
    BY <1>1, <2>1 DEF RecorderInv
  <2> QED  BY <1>0, <2>3, <2>4, <2>5 DEF RecorderInv, Ordinals
<1>2. now \in Nat
  BY <1>0 DEF FeedTypes
<1>3. ASSUME same, now' = now PROVE RecorderInv'
  <2>1. now' \in Nat /\ now' >= now
    BY <1>2, <1>3
  <2> QED  BY <1>1, <1>3, <2>1
<1>4. ASSUME NEW r \in Requests, Check(r) \/ Admit(r) PROVE RecorderInv'
  <2>1. same /\ now' = now
    BY <1>4 DEF Check, Admit, recorderVars
  <2> QED  BY <1>3, <2>1
<1>5. ASSUME NEW r \in Requests, Fill(r) PROVE RecorderInv'
  BY <1>0, <1>5, FillKeepsRecorder
<1>6. CASE SpillStep
  <2>1. same /\ now' = now
    BY <1>6 DEF SpillStep, SpillSends, SpillGivesUp, recorderVars
  <2> QED  BY <1>3, <2>1
<1>7. CASE BridgeStep
  <2>1. same /\ now' = now
    BY <1>7 DEF BridgeStep, Take, RecordCandle, Publish, recorderVars
  <2> QED  BY <1>3, <2>1
<1>8. CASE StreamStep
  <2>1. same /\ now' = now
    BY <1>8 DEF StreamStep, StreamTrade, recorderVars
  <2> QED  BY <1>3, <2>1
<1>9. CASE AdminStep
  <2>1. same /\ now' = now
    BY <1>9 DEF AdminStep, SetTradingEnabled, UpdatePairRisk, UpdateUserRisk, recorderVars
  <2> QED  BY <1>3, <2>1
<1>10. CASE Tick
  <2>1. same /\ now' \in Nat /\ now' >= now
    BY <1>2, <1>10 DEF Tick, recorderVars
  <2> QED  BY <1>1, <2>1
<1>11. CASE Crash
  BY <1>0, <1>11, CrashKeepsRecorder
<1>12. CASE ConnectedStep
  <2>1. same /\ now' = now
    BY <1>12 DEF ConnectedStep, FeedUnchanged, recorderVars
  <2> QED  BY <1>3, <2>1
<1>13. CASE UNCHANGED vars
  <2>1. same /\ now' = now
    BY <1>13 DEF vars, recorderVars
  <2> QED  BY <1>3, <2>1
<1> QED
  BY <1>4, <1>5, <1>6, <1>7, <1>8, <1>9, <1>10, <1>11, <1>12, <1>13 DEF Next, OrderStep

\* A new exchange has recorded nothing.
LEMMA RecorderBegins == ASSUME FeedAssumption, Init PROVE RecorderInv
<1>1. /\ now = 0 /\ tape = <<>> /\ series = [i \in Ordinals |-> <<>>]
      /\ executed = <<>> /\ boot = 0
  BY DEF Init
<1>2. FeedTypes
  BY DEF Init, FeedTypes, Resting
<1>3. Len(<<>>) = 0 /\ 1..0 = {} /\ <<>> \in Seq(Trades)
  OBVIOUS
<1>4. InTime(<<>>) /\ IsEndOf(<<>>, <<>>)
  BY <1>3 DEF InTime, IsEndOf
<1>5. ExecutedInTime
  BY <1>1, <1>3, <1>4 DEF ExecutedInTime
<1>6. OfProcess = <<>>
  <2>1. OfProcess = SubSeq(<<>>, 1, 0)
    BY <1>1, <1>3 DEF OfProcess
  <2>2. 0 < 1 /\ 1 \in Int /\ 0 \in Int
    OBVIOUS
  <2> QED  BY <2>1, <2>2, SubSeqEmpty
<1>7. TapeKept
  <2>1. 0 <= MaxTape
    BY DEF FeedAssumption
  <2>2. 1..(Len(<<>>) - Len(<<>>)) = {}
    BY <1>3
  <2> QED  BY <1>1, <1>3, <1>4, <1>6, <2>1, <2>2 DEF TapeKept
<1>8. \A i \in Ordinals : SeriesKept(series[i], OfProcess, i)
  BY <1>1, <1>6, NothingRecorded
<1> QED  BY <1>2, <1>5, <1>7, <1>8 DEF RecorderInv

\* The ticker and the list of trades are those of all trades of the process, whatever
\* the tape has dropped (marketdata.go:106, 176, 263).
THEOREM TapeAnswersExactly == Spec => []TapeIsExact
<1>1. RecorderInv => TapeIsExact
  BY TapeAnswers, FeedAssumption DEF RecorderInv
<1>2. Init => RecorderInv
  BY RecorderBegins, FeedAssumption
<1>3. RecorderInv /\ [Next]_vars => RecorderInv'
  BY FeedKeepsRecorder, FeedAssumption
<1> QED  BY <1>1, <1>2, <1>3, PTL DEF Spec

\* The candles of a recorder are those of the trades of its process, in order and
\* without a gap, and every page of them is the newest of its window
\* (marketdata.go:132, 238, server.go:297).
THEOREM CandlesAnswerExactly == Spec => []SeriesAreExact
<1>1. RecorderInv => SeriesAreExact
  BY SeriesAnswers, FeedAssumption
<1>2. Init => RecorderInv
  BY RecorderBegins, FeedAssumption
<1>3. RecorderInv /\ [Next]_vars => RecorderInv'
  BY FeedKeepsRecorder, FeedAssumption
<1> QED  BY <1>1, <1>2, <1>3, PTL DEF Spec

-------------------------------------------------------------------------------
(* The rows of candles.                                                      *)

\* All of a sequence but its last element.
LEMMA FrontAppended ==
    ASSUME NEW S, NEW s \in Seq(S), NEW x \in S
    PROVE  Front(Append(s, x)) = s /\ Last(Append(s, x)) = x
<1>1. PICK t, n : t = Append(s, x) /\ n = Len(s)
  OBVIOUS
<1>2. /\ t \in Seq(S) /\ Len(t) = n + 1 /\ n \in Nat /\ t[n + 1] = x
      /\ \A k \in 1..n : t[k] = s[k]
  BY <1>1, AppendProperties, LenProperties
<1>3. PICK f : f = SubSeq(t, 1, n)
  OBVIOUS
<1>4. f \in Seq(S) /\ Len(f) = n /\ \A k \in 1..n : f[k] = t[k]
  <2>1. \A k \in 1..n : t[k] \in S
    BY <1>2, ElementOfSeq
  <2>2. /\ f \in Seq(S) /\ Len(f) = IF 1 <= n THEN n - 1 + 1 ELSE 0
        /\ \A k \in 1..(n - 1 + 1) : f[k] = t[1 + k - 1]
    BY <1>2, <1>3, <2>1, SubSeqProperties
  <2>3. n - 1 + 1 = n /\ \A k \in 1..n : 1 + k - 1 = k
    BY <1>2
  <2> QED  BY <1>2, <2>2, <2>3
<1>5. f = s
  BY <1>1, <1>2, <1>4, SeqEqual
<1>6. Front(t) = f
  BY <1>2, <1>3 DEF Front
<1>7. Last(t) = x
  BY <1>2 DEF Last
<1> QED  BY <1>1, <1>5, <1>6, <1>7

\* A sequence that is not empty is its front with its last element.
LEMMA FrontAndLast ==
    ASSUME NEW S, NEW s \in Seq(S), s # <<>>
    PROVE  /\ Front(s) \in Seq(S) /\ Last(s) \in S /\ s = Append(Front(s), Last(s))
           /\ Len(s) = Len(Front(s)) + 1
<1>1. PICK n : n = Len(s) - 1
  OBVIOUS
<1>2. n \in Nat /\ Len(s) = n + 1 /\ \A k \in 1..(n + 1) : s[k] \in S
  BY <1>1, LenProperties, ElementOfSeq, EmptySeq
<1>3. PICK f, x : f = SubSeq(s, 1, n) /\ x = s[n + 1]
  OBVIOUS
<1>4. f \in Seq(S) /\ Len(f) = n /\ \A k \in 1..n : f[k] = s[k]
  <2>1. \A k \in 1..n : s[k] \in S
    BY <1>2
  <2>2. /\ f \in Seq(S) /\ Len(f) = IF 1 <= n THEN n - 1 + 1 ELSE 0
        /\ \A k \in 1..(n - 1 + 1) : f[k] = s[1 + k - 1]
    BY <1>2, <1>3, <2>1, SubSeqProperties
  <2>3. n - 1 + 1 = n /\ \A k \in 1..n : 1 + k - 1 = k
    BY <1>2
  <2> QED  BY <1>2, <2>2, <2>3
<1>5. Front(s) = f /\ Last(s) = x
  BY <1>1, <1>2, <1>3 DEF Front, Last
<1>6. x \in S
  BY <1>2, <1>3
<1>7. PICK t : t = Append(f, x)
  OBVIOUS
<1>8. t \in Seq(S) /\ Len(t) = n + 1 /\ t[n + 1] = x /\ \A k \in 1..n : t[k] = f[k]
  BY <1>4, <1>6, <1>7, AppendProperties
<1>9. ASSUME NEW k \in 1..(n + 1) PROVE s[k] = t[k]
  <2>1. CASE k \in 1..n
    BY <1>4, <1>8, <2>1
  <2>2. CASE k = n + 1
    BY <1>3, <1>8, <2>2
  <2> QED  BY <1>2, <2>1, <2>2
<1>10. s = t
  BY <1>2, <1>8, <1>9, SeqEqual
<1> QED  BY <1>2, <1>4, <1>5, <1>6, <1>7, <1>10

\* The times of some rows are finitely many.
LEMMA StampsAreFinite ==
    ASSUME NEW rows, IsFiniteSet(rows)
    PROVE  IsFiniteSet({r.ts : r \in rows})
<1> DEFINE Of(T) == {r.ts : r \in T}
           K == {T \in SUBSET rows : IsFiniteSet(Of(T))}
<1>1. {} \in K
  <2>1. Of({}) = {}
    OBVIOUS
  <2> QED  BY <2>1, FS_EmptySet
<1>2. ASSUME NEW T \in K, NEW z \in rows \ T PROVE T \cup {z} \in K
  <2>1. Of(T \cup {z}) = Of(T) \cup {z.ts}
    OBVIOUS
  <2>2. IsFiniteSet(Of(T))
    BY <1>2
  <2> HIDE DEF Of
  <2>3. IsFiniteSet(Of(T) \cup {z.ts})
    BY <2>2, FS_AddElement
  <2> QED  BY <2>1, <2>3
<1>3. rows \in K
  <2>1. K \in SUBSET SUBSET rows
    OBVIOUS
  <2> HIDE DEF K
  <2> QED  BY <1>1, <1>2, <2>1, FiniteSetInduction
<1> QED  BY <1>3

\* Rows with times of their own can be put in the order of their times in one way.
LEMMA ByTimeIs ==
    ASSUME NEW S \in SUBSET CandleRecords, IsFiniteSet(S),
           \A a, b \in S : a.ts = b.ts => a = b
    PROVE  LET s == ByTime(S) IN
           s \in Seq(CandleRecords) /\ InOrder(s) /\ Range(s) = S
<1> DEFINE Sorts(s, T) == /\ s \in [1..Cardinality(T) -> T] /\ InOrder(s)
                          /\ s \in Seq(CandleRecords) /\ Range(s) = T /\ Len(s) = Cardinality(T)
           K == {n \in Nat : \A T \in SUBSET S : IsFiniteSet(T) /\ Cardinality(T) = n
                                 => \E s : Sorts(s, T)}
<1>1. 0 \in K
  <2> SUFFICES ASSUME NEW T \in SUBSET S, IsFiniteSet(T), Cardinality(T) = 0
               PROVE  Sorts(<<>>, T)
    OBVIOUS
  <2>1. T = {}
    BY FS_EmptySet
  <2>2. <<>> \in [1..0 -> T] /\ <<>> \in Seq(CandleRecords) /\ Range(<<>>) = {} /\ InOrder(<<>>)
         /\ Len(<<>>) = 0
    BY DEF Range, InOrder
  <2> QED  BY <2>1, <2>2
<1>2. ASSUME NEW n \in K PROVE n + 1 \in K
  <2> SUFFICES ASSUME NEW T \in SUBSET S, IsFiniteSet(T), Cardinality(T) = n + 1
               PROVE  \E s : Sorts(s, T)
    OBVIOUS
  <2>1. n \in Nat
    OBVIOUS
  <2>2. T # {}
    BY <2>1, FS_EmptySet
  <2>3. PICK times : times = {r.ts : r \in T}
    OBVIOUS
  <2>4. times \in SUBSET Int /\ times # {}
    BY <2>2, <2>3 DEF CandleRecords
  <2>5. IsFiniteSet(times)
    BY <2>3, StampsAreFinite
  <2>6. PICK m \in T : \A r \in T : r.ts <= m.ts
    <3>1. Max(times) \in times /\ \A y \in times : y <= Max(times)
      BY <2>4, <2>5, FiniteHasBounds
    <3>2. PICK m \in T : m.ts = Max(times)
      BY <2>3, <3>1
    <3>3. \A r \in T : r.ts \in times
      BY <2>3
    <3> QED  BY <3>1, <3>2, <3>3
  <2>7. PICK U : U = T \ {m}
    OBVIOUS
  <2>8. IsFiniteSet(U) /\ Cardinality(U) = n /\ U \in SUBSET S
    <3>1. IsFiniteSet(U) /\ Cardinality(U) = Cardinality(T) - 1
      BY <2>6, <2>7, FS_RemoveElement
    <3> QED  BY <2>1, <2>7, <3>1
  <2>9. PICK s : Sorts(s, U)
    BY <1>2, <2>8
  <2>10. \A d \in Range(s) : d.ts < m.ts
    <3> SUFFICES ASSUME NEW d \in U PROVE d.ts < m.ts
      BY <2>9
    <3>1. d \in T /\ d \in S /\ m \in S /\ d # m
      BY <2>6, <2>7
    <3>2. d.ts \in Nat /\ m.ts \in Nat
      BY <3>1 DEF CandleRecords
    <3>3. d.ts <= m.ts
      BY <2>6, <3>1
    <3> QED  BY <3>1, <3>2, <3>3
  <2>11. PICK t : t = Append(s, m)
    OBVIOUS
  <2>12. s \in Seq(CandleRecords) /\ InOrder(s) /\ Range(s) = U /\ m \in CandleRecords
    BY <2>6, <2>9
  <2>13. t \in Seq(CandleRecords) /\ InOrder(t) /\ Len(t) = Len(s) + 1 /\ Range(t) = U \cup {m}
    BY <2>10, <2>11, <2>12, AppendedInOrder
  <2>14. Range(t) = T
    BY <2>6, <2>7, <2>13
  <2>15. Len(s) = n
    BY <2>8, <2>9
  <2>16. t \in [1..(n + 1) -> T]
    <3>1. DOMAIN t = 1..(n + 1) /\ t \in [1..(n + 1) -> CandleRecords]
      BY <2>13, <2>15, LenProperties
    <3>2. \A k \in 1..(n + 1) : t[k] \in T
      BY <2>14, <3>1 DEF Range
    <3> QED  BY <3>1, <3>2
  <2> QED  BY <2>13, <2>14, <2>16
<1>3. K = Nat
  <2>1. K \in SUBSET Nat
    OBVIOUS
  <2> HIDE DEF K
  <2> QED  BY <1>1, <1>2, <2>1, NatSetInduction
<1>4. PICK s : Sorts(s, S)
  <2>1. Cardinality(S) \in K
    BY <1>3, FS_CardinalityType
  <2> QED  BY <2>1
<1>5. PICK t : t = ByTime(S)
  OBVIOUS
<1>6. t \in [1..Cardinality(S) -> S] /\ InOrder(t)
  BY <1>4, <1>5 DEF ByTime
<1>7. PICK n \in Nat : n = Cardinality(S)
  BY FS_CardinalityType
<1>8. t \in Seq(CandleRecords)
  <2>1. t \in [1..n -> CandleRecords]
    BY <1>6, <1>7
  <2> QED  BY <1>7, <2>1, SeqDef
<1>9. Range(t) \subseteq S /\ IsFiniteSet(Range(t))
  <2>1. Range(t) \subseteq S
    BY <1>6 DEF Range
  <2> QED  BY <2>1, FS_Subset
<1>10. Cardinality(Range(t)) = n
  <2>1. t \in [1..n -> Range(t)] /\ \A y \in Range(t) : \E k \in 1..n : t[k] = y
    BY <1>6, <1>7 DEF Range
  <2>2. t \in Surjection(1..n, Range(t))
    BY <2>1 DEF Surjection
  <2>3. ASSUME NEW a \in 1..n, NEW b \in 1..n, t[a] = t[b] PROVE a = b
    <3>1. t[a].ts \in Nat /\ t[b].ts \in Nat /\ DOMAIN t = 1..n
      BY <1>6, <1>7 DEF CandleRecords
    <3>2. ~(a < b) /\ ~(b < a)
      BY <1>6, <2>3, <3>1 DEF InOrder
    <3> QED  BY <1>7, <3>2
  <2>4. t \in Injection(1..n, Range(t))
    BY <2>1, <2>3 DEF Injection, IsInjective
  <2>5. IsFiniteSet(1..n) /\ Cardinality(1..n) = n
    BY <1>7, FS_Interval
  <2> QED  BY <2>2, <2>4, <2>5, FS_Surjection
<1>11. Range(t) = S
  BY <1>7, <1>9, <1>10, FS_Subset
<1> QED  BY <1>5, <1>6, <1>8, <1>11

\* The first of rows in order are in order, and older than what is left out.
LEMMA OldestRows ==
    ASSUME NEW s \in Seq(CandleRecords), InOrder(s), NEW n \in Nat
    PROVE  LET p == SubSeq(s, 1, Min({n, Len(s)})) IN
           /\ InOrder(p) /\ Range(p) \subseteq Range(s)
           /\ \A c \in Range(s) \ Range(p) : Len(p) = n /\ \A d \in Range(p) : d.ts < c.ts
<1>1. PICK m : m = Min({n, Len(s)})
  OBVIOUS
<1>2. Len(s) \in Nat /\ DOMAIN s = 1..Len(s) /\ \A k \in 1..Len(s) : s[k] \in CandleRecords
  BY LenProperties, ElementOfSeq
<1>3. m \in Nat /\ m <= Len(s) /\ (m = n \/ m = Len(s))
  <2>1. CASE n <= Len(s)
    <3>1. {n, Len(s)} \in SUBSET Int /\ n \in {n, Len(s)} /\ \A y \in {n, Len(s)} : n <= y
      BY <1>2, <2>1
    <3>2. m = n
      BY <1>1, <3>1, BoundIs
    <3> QED  BY <2>1, <3>2
  <2>2. CASE Len(s) <= n
    <3>1. {n, Len(s)} \in SUBSET Int /\ Len(s) \in {n, Len(s)} /\ \A y \in {n, Len(s)} : Len(s) <= y
      BY <1>2, <2>2
    <3>2. m = Len(s)
      BY <1>1, <3>1, BoundIs
    <3> QED  BY <1>2, <3>2
  <2> QED  BY <1>2, <2>1, <2>2
<1>10. 1..m \subseteq 1..Len(s)
  <2>1. Len(s) \in Nat /\ m \in Nat /\ m <= Len(s)
    BY <1>2, <1>3
  <2> QED  BY <2>1
<1>4. PICK p : p = SubSeq(s, 1, m)
  OBVIOUS
<1>5. p \in Seq(CandleRecords) /\ Len(p) = m /\ \A k \in 1..m : p[k] = s[k]
  <2>1. \A k \in 1..m : s[k] \in CandleRecords
    BY <1>2, <1>10
  <2>2. /\ p \in Seq(CandleRecords) /\ Len(p) = IF 1 <= m THEN m - 1 + 1 ELSE 0
        /\ \A k \in 1..(m - 1 + 1) : p[k] = s[1 + k - 1]
    BY <1>3, <1>4, <2>1, SubSeqProperties
  <2>3. m - 1 + 1 = m /\ \A k \in 1..m : 1 + k - 1 = k
    BY <1>3
  <2> QED  BY <1>3, <2>2, <2>3
<1>6. DOMAIN p = 1..m /\ 1..m \subseteq 1..Len(s)
  BY <1>3, <1>5, LenProperties
<1>7. InOrder(p)
  BY <1>2, <1>5, <1>6 DEF InOrder
<1>8. Range(p) \subseteq Range(s)
  BY <1>2, <1>5, <1>6 DEF Range
<1>9. ASSUME NEW c \in Range(s) \ Range(p) PROVE Len(p) = n /\ \A d \in Range(p) : d.ts < c.ts
  <2>1. PICK x \in 1..Len(s) : c = s[x]
    BY <1>2 DEF Range
  <2>2. x \notin 1..m
    BY <1>5, <1>6, <2>1 DEF Range
  <2>6. Len(s) \in Nat /\ m \in Nat /\ m <= Len(s) /\ Len(p) = m
    BY <1>2, <1>3, <1>5
  <2>3. m < x
    BY <2>2, <2>6
  <2>4. Len(p) = n
    <3>1. m # Len(s)
      BY <2>3, <2>6
    <3> QED  BY <1>3, <2>6, <3>1
  <2>5. ASSUME NEW d \in Range(p) PROVE d.ts < c.ts
    <3>1. PICK k \in 1..m : d = s[k]
      BY <1>5, <1>6 DEF Range
    <3>2. k \in 1..Len(s) /\ k < x
      BY <1>6, <2>3, <1>3
    <3> QED  BY <1>2, <2>1, <3>1, <3>2 DEF InOrder
  <2> QED  BY <2>4, <2>5
<1> QED  BY <1>1, <1>4, <1>7, <1>8, <1>9

\* What rows are like.
RowsOf(i) == {r \in CandleRecords : r.low <= r.high /\ r.ts % Intervals[i] = 0}

\* The rows of some trades: one for each bucket, but for those that went wrong.
AreRows(rows, trades, i, bad) ==
    /\ \A ts \in BucketsOf(trades, i) \ bad :
           {row \in rows : row.ts = ts} = {CandleOf(trades, i, ts)}
    /\ \A row \in rows : row.ts \in BucketsOf(trades, i) \cup bad

\* The candle in memory is that of its bucket.
IsOpenCandle(candle, trades, i, bad) ==
    candle.ts # -1 /\ candle.ts \notin bad =>
        candle.ts \in BucketsOf(trades, i) /\ candle = CandleOf(trades, i, candle.ts)

\* The remainder of a multiple.
LEMMA MultipleHasNoRest ==
    ASSUME NEW k \in Nat \ {0}, NEW q \in Nat
    PROVE  (q * k) % k = 0
<1>1. PICK x : x = q * k
  OBVIOUS
<1>2. x \in Nat
  BY <1>1
<1>3. PICK z, r : z = x \div k /\ r = x % k
  OBVIOUS
<1>4. z \in Nat /\ r \in Nat /\ r < k /\ x = k * z + r
  BY <1>2, <1>3
<1>5. z <= q
  <2> SUFFICES ASSUME q + 1 <= z PROVE FALSE
    BY <1>4
  <2>1. (q + 1) * k <= z * k
    BY <1>4, MultiplesInOrder
  <2>2. (q + 1) * k = x + k /\ z * k = k * z
    BY <1>1, <1>4
  <2> QED  BY <1>2, <1>4, <2>1, <2>2
<1>6. q <= z
  <2> SUFFICES ASSUME z + 1 <= q PROVE FALSE
    BY <1>4
  <2>1. (z + 1) * k <= q * k
    BY <1>4, MultiplesInOrder
  <2>2. (z + 1) * k = k * z + k
    BY <1>4
  <2>3. k * z \in Nat
    BY <1>4
  <2> QED  BY <1>1, <1>2, <1>4, <2>1, <2>2, <2>3
<1>7. z = q
  BY <1>4, <1>5, <1>6
<1>8. k * z = x
  BY <1>1, <1>7
<1> QED  BY <1>1, <1>2, <1>3, <1>4, <1>8

\* The largest and the smallest of two.
LEMMA BoundsOfTwo ==
    ASSUME NEW a \in Nat, NEW b \in Nat
    PROVE  /\ Max({a, b}) \in Nat /\ a <= Max({a, b}) /\ b <= Max({a, b})
           /\ Min({a, b}) \in Nat /\ Min({a, b}) <= a /\ Min({a, b}) <= b
<1>1. PICK S : S = {a, b}
  OBVIOUS
<1>2. S \in SUBSET Int /\ a \in S /\ b \in S /\ S \subseteq Nat
  BY <1>1
<1>3. CASE a <= b
  <2>1. (\A y \in S : y <= b) /\ (\A y \in S : a <= y)
    BY <1>1, <1>3
  <2>2. Max(S) = b /\ Min(S) = a
    BY <1>2, <2>1, BoundIs
  <2> QED  BY <1>1, <1>3, <2>2
<1>4. CASE b <= a
  <2>1. (\A y \in S : y <= a) /\ (\A y \in S : b <= y)
    BY <1>1, <1>4
  <2>2. Max(S) = a /\ Min(S) = b
    BY <1>2, <2>1, BoundIs
  <2> QED  BY <1>1, <1>4, <2>2
<1> QED  BY <1>3, <1>4

\* What updateCandle makes of the candle in memory.
MadeOf(i, c, x) ==
    IF c.ts = Bucket(i, x.at) THEN Added(c, x) ELSE Opened(x, Bucket(i, x.at))

\* It is of the bucket of the trade.
LEMMA CurrentIs ==
    ASSUME FeedAssumption, NEW i \in Ordinals, NEW c \in RowsOf(i) \cup {None},
           NEW x \in Trades
    PROVE  /\ MadeOf(i, c, x) \in RowsOf(i) /\ MadeOf(i, c, x).ts = Bucket(i, x.at)
           /\ c.ts = Bucket(i, x.at) => MadeOf(i, c, x).open = c.open
<1>b. PICK b, new : b = Bucket(i, x.at) /\ new = MadeOf(i, c, x)
  OBVIOUS
<1>0. x.price \in Nat /\ x.at \in Nat
  BY DEF Trades
<1>1. b \in Nat /\ b % Intervals[i] = 0
  <2>1. PICK L : L = Intervals[i]
    OBVIOUS
  <2>2. L \in Nat \ {0}
    BY <2>1, ElementOfSeq, LenProperties DEF FeedAssumption, Ordinals
  <2>3. PICK q : q = x.at \div L
    OBVIOUS
  <2>4. q \in Nat
    BY <1>0, <2>2, <2>3, QuotientIs
  <2>5. b = q * L
    BY <1>b, <2>1, <2>3 DEF Bucket
  <2>6. q * L \in Nat
    BY <2>2, <2>4
  <2>7. (q * L) % L = 0
    BY <2>2, <2>4, MultipleHasNoRest
  <2> QED  BY <2>1, <2>5, <2>6, <2>7
<1>4. ASSUME c.ts = b PROVE new \in RowsOf(i) /\ new.ts = b /\ new.open = c.open
  <2>1. c \in RowsOf(i)
    BY <1>1, <1>4 DEF None
  <2>2. PICK o, h, l, e, v : /\ o = c.open /\ h = c.high /\ l = c.low /\ e = c.close /\ v = c.volume
    OBVIOUS
  <2>3. /\ o \in Nat /\ h \in Nat /\ l \in Nat /\ e \in Nat /\ v \in Nat /\ l <= h
        /\ c = [ts |-> c.ts, open |-> c.open, high |-> c.high, low |-> c.low,
                close |-> c.close, volume |-> c.volume]
    BY <2>1, <2>2 DEF RowsOf, CandleRecords
  <2>4. Added(c, x) = [ts |-> c.ts, open |-> c.open, high |-> Max({c.high, x.price}),
                       low |-> Min({c.low, x.price}), close |-> x.price, volume |-> c.volume + 1]
    BY <2>3, AddedIs
  <2>5. PICK top, bottom : top = Max({h, x.price}) /\ bottom = Min({l, x.price})
    OBVIOUS
  <2>6. top \in Nat /\ bottom \in Nat /\ bottom <= top
    <3>1. top \in Nat /\ h <= top
      BY <1>0, <2>3, <2>5, BoundsOfTwo
    <3>2. bottom \in Nat /\ bottom <= l
      BY <1>0, <2>3, <2>5, BoundsOfTwo
    <3>3. h \in Nat /\ l \in Nat /\ l <= h
      BY <2>3
    <3> QED  BY <3>1, <3>2, <3>3
  <2>10. PICK p, u : p = x.price /\ u = v + 1
    OBVIOUS
  <2>11. p \in Nat /\ u \in Nat
    <3>1. v \in Nat
      BY <2>3
    <3> QED  BY <1>0, <2>10, <3>1
  <2>7. new = [ts |-> b, open |-> o, high |-> top, low |-> bottom, close |-> p, volume |-> u]
    BY <1>b, <1>4, <2>2, <2>4, <2>5, <2>10 DEF MadeOf
  <2>8. new \in CandleRecords
    <3>1. o \in Nat /\ b \in Nat /\ top \in Nat /\ bottom \in Nat
      BY <1>1, <2>3, <2>6
    <3> QED  BY <2>7, <2>11, <3>1 DEF CandleRecords
  <2>9. new.low = bottom /\ new.high = top /\ new.ts = b /\ new.open = o
    BY <2>7
  <2> QED  BY <1>1, <2>2, <2>6, <2>8, <2>9 DEF RowsOf
<1>5. ASSUME c.ts # b PROVE new \in RowsOf(i) /\ new.ts = b
  <2>1. PICK p : p = x.price
    OBVIOUS
  <2>2. new = [ts |-> b, open |-> p, high |-> p, low |-> p, close |-> p, volume |-> 1]
    BY <1>b, <1>5, <2>1 DEF Opened, MadeOf
  <2>3. new \in CandleRecords
    BY <1>0, <1>1, <2>1, <2>2 DEF CandleRecords
  <2>4. new.low = p /\ new.high = p /\ new.ts = b
    BY <2>2
  <2> QED  BY <1>0, <1>1, <1>5, <2>1, <2>3, <2>4 DEF RowsOf
<1> QED  BY <1>b, <1>4, <1>5

\* What an upsert leaves.
LEMMA UpsertedIs ==
    ASSUME NEW i \in Ordinals, NEW rows \in SUBSET RowsOf(i), NEW new \in RowsOf(i)
    PROVE  \E kept \in RowsOf(i) :
               /\ Upserted(rows, new) = {row \in rows : row.ts # new.ts} \cup {kept}
               /\ kept.ts = new.ts
               /\ (\A row \in rows : row.ts = new.ts => row.open = new.open) => kept = new
<1>1. PICK old : old = {row \in rows : row.ts = new.ts}
  OBVIOUS
<1>2. rows \ old = {row \in rows : row.ts # new.ts}
  BY <1>1
<1>3. CASE old = {}
  <2>1. Upserted(rows, new) = (rows \ old) \cup {new}
    BY <1>1, <1>3 DEF Upserted
  <2> QED  BY <1>2, <2>1
<1>4. CASE old # {}
  <2>1. PICK o : o = (CHOOSE row \in old : TRUE)
    OBVIOUS
  <2>2. o \in old
    BY <1>4, <2>1
  <2>3. o \in RowsOf(i) /\ o.open \in Nat
    BY <1>1, <2>2 DEF RowsOf, CandleRecords
  <2>4. PICK p : p = o.open
    OBVIOUS
  <2>5. PICK kept : kept = [new EXCEPT !.open = p]
    OBVIOUS
  <2>6. Upserted(rows, new) = (rows \ old) \cup {kept}
    BY <1>1, <1>4, <2>1, <2>4, <2>5 DEF Upserted
  <2>7. /\ kept \in CandleRecords /\ kept.ts = new.ts /\ kept.low = new.low /\ kept.high = new.high
        /\ (p = new.open => kept = new)
    BY <2>3, <2>4, <2>5 DEF RowsOf, CandleRecords
  <2>8. kept \in RowsOf(i)
    BY <2>7 DEF RowsOf
  <2>9. (\A row \in rows : row.ts = new.ts => row.open = new.open) => p = new.open
    BY <1>1, <2>2, <2>4
  <2> QED  BY <1>2, <2>6, <2>7, <2>8, <2>9
<1> QED  BY <1>3, <1>4

\* A trade whose candle was recorded.
LEMMA RecordedKeepsRows ==
    ASSUME FeedAssumption, NEW i \in Ordinals, NEW s \in Seq(Trades), NEW x \in Trades,
           NEW bad, NEW rows \in SUBSET RowsOf(i), NEW c \in RowsOf(i) \cup {None},
           AreRows(rows, s, i, bad), IsOpenCandle(c, s, i, bad),
           Bucket(i, x.at) \in BucketsOf(s, i) \ bad => c.ts = Bucket(i, x.at)
    PROVE  /\ Upserted(rows, MadeOf(i, c, x)) \in SUBSET RowsOf(i)
           /\ AreRows(Upserted(rows, MadeOf(i, c, x)), Append(s, x), i, bad)
           /\ IsOpenCandle(MadeOf(i, c, x), Append(s, x), i, bad)
<1>b. PICK b, new : b = Bucket(i, x.at) /\ new = MadeOf(i, c, x)
  OBVIOUS
<1>1. new \in RowsOf(i) /\ new.ts = b /\ (c.ts = b => new.open = c.open)
  BY <1>b, CurrentIs
<1>2. PICK t : t = Append(s, x)
  OBVIOUS
<1>3. BucketsOf(t, i) = BucketsOf(s, i) \cup {b}
  BY <1>b, <1>2, BucketsGrow
<1>4. b \in Nat
  BY <1>1 DEF RowsOf, CandleRecords
<1>5. b \notin bad /\ c.ts = b => b \in BucketsOf(s, i) /\ c = CandleOf(s, i, b)
  BY <1>4 DEF IsOpenCandle
<1>6. b \notin bad => new = CandleOf(t, i, b)
  <2> SUFFICES ASSUME b \notin bad PROVE new = CandleOf(t, i, b)
    OBVIOUS
  <2>1. CASE b \in BucketsOf(s, i)
    <3>1. c = CandleOf(s, i, b) /\ new = Added(c, x)
      BY <1>b, <1>5, <2>1 DEF MadeOf
    <3> QED  BY <1>b, <1>2, <2>1, <3>1, CandleAdded
  <2>2. CASE b \notin BucketsOf(s, i)
    <3>1. new = Opened(x, b)
      BY <1>b, <1>5, <2>2 DEF MadeOf
    <3> QED  BY <1>b, <1>2, <2>2, <3>1, CandleOpened
  <2> QED  BY <2>1, <2>2
<1>16. PICK kept \in RowsOf(i) :
           /\ Upserted(rows, new) = {row \in rows : row.ts # new.ts} \cup {kept}
           /\ kept.ts = new.ts
           /\ (\A row \in rows : row.ts = new.ts => row.open = new.open) => kept = new
  BY <1>1, UpsertedIs
<1>7. /\ Upserted(rows, new) = {row \in rows : row.ts # b} \cup {kept}
      /\ kept.ts = b
      /\ (\A row \in rows : row.ts = b => row.open = new.open) => kept = new
  BY <1>1, <1>16
<1>8. b \notin bad => kept = new
  <2> SUFFICES ASSUME b \notin bad, NEW row \in rows, row.ts = b PROVE row.open = new.open
    BY <1>7
  <2>1. b \in BucketsOf(s, i)
    BY DEF AreRows
  <2>2. c.ts = b /\ c = CandleOf(s, i, b)
    BY <1>b, <1>5, <2>1
  <2>3. row = CandleOf(s, i, b)
    BY <2>1 DEF AreRows
  <2> QED  BY <1>1, <2>2, <2>3
<1>9. PICK all : all = Upserted(rows, new)
  OBVIOUS
<1>10. all = {row \in rows : row.ts # b} \cup {kept}
  BY <1>7, <1>9
<1>11. ASSUME NEW ts \in BucketsOf(t, i) \ bad
       PROVE  {row \in all : row.ts = ts} = {CandleOf(t, i, ts)}
  <2>1. CASE ts = b
    <3>1. {row \in all : row.ts = ts} = {kept}
      BY <1>7, <1>10, <2>1
    <3> QED  BY <1>6, <1>8, <1>11, <2>1, <3>1
  <2>2. CASE ts # b
    <3>1. {row \in all : row.ts = ts} = {row \in rows : row.ts = ts}
      BY <1>7, <1>10, <2>2
    <3>2. ts \in BucketsOf(s, i) \ bad
      BY <1>3, <1>11, <2>2
    <3>3. CandleOf(t, i, ts) = CandleOf(s, i, ts)
      BY <1>b, <1>2, <2>2, <3>2, CandleUnchanged
    <3> QED  BY <3>1, <3>2, <3>3 DEF AreRows
  <2> QED  BY <2>1, <2>2
<1>12. \A row \in all : row.ts \in BucketsOf(t, i) \cup bad
  BY <1>3, <1>7, <1>10 DEF AreRows
<1>13. AreRows(all, t, i, bad)
  BY <1>11, <1>12 DEF AreRows
<1>14. IsOpenCandle(new, t, i, bad)
  BY <1>1, <1>3, <1>6 DEF IsOpenCandle
<1>15. all \in SUBSET RowsOf(i)
  BY <1>10
<1> QED  BY <1>b, <1>2, <1>9, <1>13, <1>14, <1>15

\* A trade whose candle was not, in a bucket that is known to have gone wrong.
LEMMA SkippedKeepsRows ==
    ASSUME FeedAssumption, NEW i \in Ordinals, NEW s \in Seq(Trades), NEW x \in Trades,
           NEW bad, Bucket(i, x.at) \in bad, NEW rows, NEW c,
           AreRows(rows, s, i, bad)
    PROVE  /\ AreRows(rows, Append(s, x), i, bad)
           /\ IsOpenCandle(c, s, i, bad) => IsOpenCandle(c, Append(s, x), i, bad)
<1>1. PICK t, b : t = Append(s, x) /\ b = Bucket(i, x.at)
  OBVIOUS
<1>2. BucketsOf(t, i) = BucketsOf(s, i) \cup {b}
  BY <1>1, BucketsGrow
<1>3. ASSUME NEW ts \in BucketsOf(t, i) \ bad
      PROVE  ts \in BucketsOf(s, i) /\ CandleOf(t, i, ts) = CandleOf(s, i, ts)
  <2>1. ts \in BucketsOf(s, i) /\ ts # b
    BY <1>1, <1>2, <1>3
  <2> QED  BY <1>1, <2>1, CandleUnchanged
<1>4. AreRows(rows, t, i, bad)
  <2>1. ASSUME NEW ts \in BucketsOf(t, i) \ bad
        PROVE  {row \in rows : row.ts = ts} = {CandleOf(t, i, ts)}
    BY <1>3, <2>1 DEF AreRows
  <2>2. \A row \in rows : row.ts \in BucketsOf(t, i) \cup bad
    BY <1>2 DEF AreRows
  <2> QED  BY <2>1, <2>2 DEF AreRows
<1>5. IsOpenCandle(c, s, i, bad) => IsOpenCandle(c, t, i, bad)
  BY <1>2, <1>3 DEF IsOpenCandle
<1> QED  BY <1>1, <1>4, <1>5

-------------------------------------------------------------------------------
(* The bridge.                                                               *)

\* The trades of numbers in whatever list.
Listed(all, ids) == [k \in DOMAIN ids |-> all[ids[k]]]

\* The bucket of a trade of a list.
BucketAt(all, i, id) == Bucket(i, all[id].at)

\* The rows and the candle in memory after some trades; the candle is that of the last
\* trade, or there is none since the process began.
RowsRight(rows, candle, all, ids, i, bad, old) ==
    /\ AreRows(rows, Listed(all, ids), i, bad)
    /\ IsOpenCandle(candle, Listed(all, ids), i, bad)
    /\ ids # <<>> /\ BucketAt(all, i, Last(ids)) \notin bad =>
           \/ candle.ts = BucketAt(all, i, Last(ids))
           \/ candle.ts = -1 /\ \A k \in DOMAIN ids : ids[k] <= old

\* What a list of trades is.
LEMMA ListedIs ==
    ASSUME NEW all \in Seq(Trades), NEW ids \in Seq(1..Len(all))
    PROVE  /\ Listed(all, ids) \in Seq(Trades) /\ Len(Listed(all, ids)) = Len(ids)
           /\ \A k \in 1..Len(ids) : Listed(all, ids)[k] = all[ids[k]]
           /\ \A x \in 1..Len(all) : /\ Append(ids, x) \in Seq(1..Len(all))
                                     /\ Listed(all, Append(ids, x)) = Append(Listed(all, ids), all[x])
<1>1. PICK t : t = Listed(all, ids)
  OBVIOUS
<1>2. PICK n \in Nat : n = Len(ids)
  BY LenProperties
<1>3. DOMAIN ids = 1..n /\ \A k \in 1..n : ids[k] \in 1..Len(all)
  BY <1>2, LenProperties, ElementOfSeq
<1>4. \A x \in 1..Len(all) : all[x] \in Trades
  BY ElementOfSeq
<1>5. t = [k \in 1..n |-> all[ids[k]]]
  BY <1>1, <1>3 DEF Listed
<1>6. t \in Seq(Trades) /\ Len(t) = n
  <2>1. t \in [1..n -> Trades]
    BY <1>3, <1>4, <1>5
  <2> QED  BY <1>2, <2>1, SeqDef, LenProperties
<1>7. \A k \in 1..n : t[k] = all[ids[k]]
  BY <1>5
<1>8. ASSUME NEW x \in 1..Len(all)
      PROVE  /\ Append(ids, x) \in Seq(1..Len(all))
             /\ Listed(all, Append(ids, x)) = Append(t, all[x])
  <2>1. PICK s : s = Append(ids, x)
    OBVIOUS
  <2>2. /\ s \in Seq(1..Len(all)) /\ Len(s) = n + 1 /\ s[n + 1] = x
        /\ \A k \in 1..n : s[k] = ids[k]
    BY <1>2, <2>1, AppendProperties
  <2>3. DOMAIN s = 1..(n + 1) /\ \A k \in 1..(n + 1) : s[k] \in 1..Len(all)
    BY <2>2, LenProperties, ElementOfSeq
  <2>4. PICK l : l = Listed(all, s)
    OBVIOUS
  <2>5. l = [k \in 1..(n + 1) |-> all[s[k]]]
    BY <2>3, <2>4 DEF Listed
  <2>6. l \in Seq(Trades) /\ Len(l) = n + 1
    <3>1. l \in [1..(n + 1) -> Trades]
      BY <1>4, <2>3, <2>5
    <3>2. n + 1 \in Nat
      BY <1>2
    <3> QED  BY <3>1, <3>2, SeqDef, LenProperties
  <2>7. PICK a : a = Append(t, all[x])
    OBVIOUS
  <2>8. /\ a \in Seq(Trades) /\ Len(a) = n + 1 /\ a[n + 1] = all[x]
        /\ \A k \in 1..n : a[k] = t[k]
    BY <1>4, <1>6, <2>7, AppendProperties
  <2>9. ASSUME NEW k \in 1..(n + 1) PROVE l[k] = a[k]
    <3>1. CASE k \in 1..n
      BY <1>7, <2>2, <2>5, <2>8, <3>1
    <3>2. CASE k = n + 1
      BY <2>2, <2>5, <2>8, <3>2
    <3> QED  BY <1>2, <3>1, <3>2
  <2>10. l = a
    BY <2>6, <2>8, <2>9, SeqEqual
  <2> QED  BY <2>1, <2>2, <2>4, <2>7, <2>10
<1> QED  BY <1>1, <1>2, <1>6, <1>7, <1>8

\* New trades change nothing about those there are.
Extends(more, all) ==
    /\ Len(all) <= Len(more)
    /\ \A k \in 1..Len(all) : more[k] = all[k]

\* What was right stays so as trades and bad buckets are added.
LEMMA RowsStayRight ==
    ASSUME NEW all \in Seq(Trades), NEW more, Extends(more, all), NEW ids \in Seq(1..Len(all)),
           NEW i, NEW bad, NEW worse, bad \subseteq worse, NEW rows, NEW c, NEW old,
           RowsRight(rows, c, all, ids, i, bad, old)
    PROVE  RowsRight(rows, c, more, ids, i, worse, old)
<1>1. DOMAIN ids = 1..Len(ids) /\ \A k \in 1..Len(ids) : ids[k] \in 1..Len(all)
  BY LenProperties, ElementOfSeq
<1>2. \A k \in DOMAIN ids : more[ids[k]] = all[ids[k]]
  BY <1>1 DEF Extends
<1>3. Listed(more, ids) = Listed(all, ids)
  BY <1>2 DEF Listed
<1>4. ids # <<>> => BucketAt(more, i, Last(ids)) = BucketAt(all, i, Last(ids))
  <2> SUFFICES ASSUME ids # <<>> PROVE more[Last(ids)] = all[Last(ids)]
    BY DEF BucketAt
  <2>1. Last(ids) \in 1..Len(all)
    BY FrontAndLast
  <2> QED  BY <2>1 DEF Extends
<1>5. PICK t : t = Listed(all, ids)
  OBVIOUS
<1>6. AreRows(rows, t, i, worse)
  BY <1>5 DEF RowsRight, AreRows
<1>7. IsOpenCandle(c, t, i, worse)
  BY <1>5 DEF RowsRight, IsOpenCandle
<1> QED  BY <1>3, <1>4, <1>5, <1>6, <1>7 DEF RowsRight

\* A trade in a bad bucket.
LEMMA SkippedStaysRight ==
    ASSUME FeedAssumption, NEW all \in Seq(Trades), NEW ids \in Seq(1..Len(all)),
           NEW i \in Ordinals, NEW bad, NEW rows, NEW c, NEW old,
           NEW x \in 1..Len(all), BucketAt(all, i, x) \in bad,
           RowsRight(rows, c, all, ids, i, bad, old)
    PROVE  /\ RowsRight(rows, c, all, Append(ids, x), i, bad, old)
           /\ \A d : d.ts \in bad => RowsRight(rows, d, all, Append(ids, x), i, bad, old)
<1>1. PICK s : s = Listed(all, ids)
  OBVIOUS
<1>2. s \in Seq(Trades) /\ Listed(all, Append(ids, x)) = Append(s, all[x])
  BY <1>1, ListedIs
<1>3. all[x] \in Trades
  BY ElementOfSeq
<1>4. Last(Append(ids, x)) = x
  BY FrontAppended
<1>5. AreRows(rows, s, i, bad) /\ IsOpenCandle(c, s, i, bad)
  BY <1>1 DEF RowsRight
<1>6. Bucket(i, all[x].at) \in bad
  BY DEF BucketAt
<1>7. AreRows(rows, Append(s, all[x]), i, bad) /\ IsOpenCandle(c, Append(s, all[x]), i, bad)
  BY <1>2, <1>3, <1>5, <1>6, SkippedKeepsRows
<1>8. \A d : d.ts \in bad => IsOpenCandle(d, Append(s, all[x]), i, bad)
  BY DEF IsOpenCandle
<1> QED  BY <1>2, <1>4, <1>7, <1>8 DEF RowsRight

\* A trade in a good bucket comes right after the others of it, all of them new.
InTurn(all, ids, i, x, bad, old) == \A k \in DOMAIN ids :
    LET b == BucketAt(all, i, x) IN
    BucketAt(all, i, ids[k]) = b /\ b \notin bad => BucketAt(all, i, Last(ids)) = b /\ ids[k] > old

\* A trade in its turn is recorded.
LEMMA RecordedStaysRight ==
    ASSUME FeedAssumption, NEW all \in Seq(Trades), NEW ids \in Seq(1..Len(all)),
           NEW i \in Ordinals, NEW bad, NEW rows \in SUBSET RowsOf(i), NEW c \in RowsOf(i) \cup {None},
           NEW old \in Nat, NEW x \in 1..Len(all),
           RowsRight(rows, c, all, ids, i, bad, old),
           InTurn(all, ids, i, x, bad, old), NEW y \in Trades, y = all[x]
    PROVE  /\ Upserted(rows, MadeOf(i, c, y)) \in SUBSET RowsOf(i)
           /\ RowsRight(Upserted(rows, MadeOf(i, c, y)), MadeOf(i, c, y), all, Append(ids, x),
                        i, bad, old)
<1>1. PICK s : s = Listed(all, ids)
  OBVIOUS
<1>2. /\ s \in Seq(Trades) /\ Listed(all, Append(ids, x)) = Append(s, all[x])
      /\ Len(s) = Len(ids) /\ \A k \in 1..Len(ids) : s[k] = all[ids[k]]
  BY <1>1, ListedIs
<1>3. PICK b, new : b = Bucket(i, y.at) /\ new = MadeOf(i, c, y)
  OBVIOUS
<1>4. Last(Append(ids, x)) = x
  BY FrontAppended
<1>5. AreRows(rows, s, i, bad) /\ IsOpenCandle(c, s, i, bad)
  BY <1>1 DEF RowsRight
<1>6. b = BucketAt(all, i, x)
  BY <1>3 DEF BucketAt
<1>7. ASSUME b \notin bad, b \in BucketsOf(s, i) PROVE c.ts = b
  <2>1. DOMAIN s = 1..Len(ids) /\ DOMAIN ids = 1..Len(ids)
    BY <1>2, LenProperties
  <2>2. PICK k \in 1..Len(ids) : Bucket(i, s[k].at) = b
    BY <1>7, <2>1 DEF BucketsOf
  <2>3. BucketAt(all, i, ids[k]) = b /\ k \in DOMAIN ids
    BY <1>2, <2>1, <2>2 DEF BucketAt
  <2>4. ids # <<>> /\ BucketAt(all, i, Last(ids)) = b /\ ids[k] > old
    <3>1. ids # <<>>
      BY <2>3
    <3> QED  BY <1>6, <1>7, <2>3, <3>1 DEF InTurn
  <2>5. ids[k] \in Nat
    BY <2>2, ElementOfSeq
  <2> QED  BY <1>7, <2>3, <2>4, <2>5 DEF RowsRight
<1>8. Bucket(i, y.at) \in BucketsOf(s, i) \ bad => c.ts = Bucket(i, y.at)
  BY <1>3, <1>7
<1>9. /\ Upserted(rows, new) \in SUBSET RowsOf(i)
      /\ AreRows(Upserted(rows, new), Append(s, y), i, bad)
      /\ IsOpenCandle(new, Append(s, y), i, bad)
  BY <1>2, <1>3, <1>5, <1>8, RecordedKeepsRows
<1>10. new.ts = b
  BY <1>3, CurrentIs
<1> QED  BY <1>2, <1>3, <1>4, <1>6, <1>9, <1>10 DEF RowsRight

BridgeTypes ==
    /\ cache \in [Ordinals -> CandleRecords \cup {None}]
    /\ stored \in [Ordinals -> SUBSET CandleRecords]
    /\ tainted \in [Ordinals -> SUBSET Nat]
    /\ \A i \in Ordinals : cache[i] \in RowsOf(i) \cup {None} /\ stored[i] \in SUBSET RowsOf(i)

\* The bridge is busy with the trade it has taken last, which is of this process.
JobKept ==
    IF job.id = 0 THEN job.todo = 0
    ELSE /\ delivered # <<>> /\ Last(delivered) = job.id /\ job.id > boot
         /\ job.todo \in 1..(Len(Intervals) + 1)

\* Two trades in one bucket, or in bad ones.
Excused(all, bad, x, y) == \A i \in Ordinals :
    \/ BucketAt(all, i, x) = BucketAt(all, i, y)
    \/ BucketAt(all, i, x) \in bad[i] /\ BucketAt(all, i, y) \in bad[i]

OvertakingIsExcused(all, bad, s) ==
    \A a, b \in DOMAIN s : a < b /\ s[a] > s[b] => Excused(all, bad, s[a], s[b])

\* A trade that overtakes another makes the buckets of both bad, if they differ.
QueueRight(all, bad, front, back) ==
    /\ OvertakingIsExcused(all, bad, front) /\ OvertakingIsExcused(all, bad, back)
    /\ \A x \in Range(front), y \in Range(back) : x > y => Excused(all, bad, x, y)

QueueKept == QueueRight(executed, tainted, delivered, channel)

\* The bucket in which a process begins is bad, if an earlier one had it too.
RestartRight(all, bad, first, at) == \A i \in Ordinals, a \in 1..first :
    /\ BucketAt(all, i, a) = Bucket(i, at) => Bucket(i, at) \in bad[i]
    /\ \A b \in (first + 1)..Len(all) :
           BucketAt(all, i, a) = BucketAt(all, i, b) => BucketAt(all, i, b) \in bad[i]

RestartKept == RestartRight(executed, tainted, boot, now)

RowsKept == \A i \in Ordinals :
    RowsRight(stored[i], cache[i], executed, Recorded(i), i, tainted[i], boot)

Held == RecorderInv /\ HandsInv

RowsInv == Held /\ BridgeTypes /\ JobKept /\ QueueKept /\ RestartKept /\ RowsKept

\* The trades of the bridge and of the channel are among those there are.
LEMMA NumbersAreRight ==
    ASSUME Held
    PROVE  /\ executed \in Seq(Trades) /\ Len(executed) \in Nat /\ now \in Nat
           /\ boot \in 0..Len(executed)
           /\ delivered \in Seq(1..Len(executed)) /\ channel \in Seq(1..Len(executed))
           /\ Range(delivered) \subseteq 1..Len(executed)
           /\ Range(channel) \subseteq (boot + 1)..Len(executed)
           /\ spilled \subseteq (boot + 1)..Len(executed)
           /\ job \in [id : Nat, todo : Nat]
<1>1. PICK n \in Nat : n = Len(executed)
  BY LenProperties DEF Held, RecorderInv, FeedTypes
<1>2. /\ executed \in Seq(Trades) /\ now \in Nat /\ boot \in 0..n
      /\ job \in [id : Nat, todo : Nat] /\ delivered \in Seq(Nat) /\ channel \in Seq(Nat)
      /\ Range(delivered) \subseteq 1..n /\ Range(channel) \cup spilled \subseteq (boot + 1)..n
  BY <1>1 DEF Held, HandsInv, HandTypes, AllAreHeld, FeedTypes
<1>3. (boot + 1)..n \subseteq 1..n
  BY <1>2
<1>4. ASSUME NEW s \in Seq(Nat), Range(s) \subseteq 1..n PROVE s \in Seq(1..n)
  <2>1. DOMAIN s = 1..Len(s) /\ Len(s) \in Nat
    BY LenProperties
  <2>2. PICK l \in Nat : l = Len(s)
    BY <2>1
  <2>3. s \in [1..l -> 1..n]
    <3>1. s \in [1..l -> Nat]
      BY <2>2, LenProperties
    <3>2. \A k \in 1..l : s[k] \in Range(s)
      BY <2>1, <2>2 DEF Range
    <3> QED  BY <1>4, <3>1, <3>2
  <2> QED  BY <2>2, <2>3, SeqDef
<1>5. Range(channel) \subseteq 1..n
  BY <1>2, <1>3
<1>6. delivered \in Seq(1..n) /\ channel \in Seq(1..n)
  BY <1>2, <1>4, <1>5
<1> QED  BY <1>1, <1>2, <1>6

\* Trades, buckets and time go together.
LEMMA BucketsAscend ==
    ASSUME FeedAssumption, Held, NEW i \in Ordinals,
           NEW x \in 1..Len(executed), NEW y \in 1..Len(executed)
    PROVE  /\ BucketAt(executed, i, x) \in Nat /\ Bucket(i, now) \in Nat
           /\ BucketAt(executed, i, x) <= Bucket(i, now)
           /\ x <= y => BucketAt(executed, i, x) <= BucketAt(executed, i, y)
<1>1. /\ executed[x] \in Trades /\ executed[y] \in Trades /\ now \in Nat
      /\ executed[x].at <= now
  <2>1. executed[x] \in Trades /\ executed[y] \in Trades
    BY NumbersAreRight, ElementOfSeq
  <2>2. executed[x].at <= now /\ now \in Nat
    BY NumbersAreRight DEF Held, RecorderInv, ExecutedInTime
  <2> QED  BY <2>1, <2>2
<1>2. PICK a, b \in Nat : a = executed[x].at /\ b = executed[y].at
  BY <1>1 DEF Trades
<1>3. Bucket(i, a) \in Nat /\ Bucket(i, now) \in Nat /\ Bucket(i, a) <= Bucket(i, now)
  BY <1>1, <1>2, BucketIs
<1>4. x <= y => Bucket(i, a) <= Bucket(i, b)
  <2> SUFFICES ASSUME x <= y PROVE Bucket(i, a) <= Bucket(i, b)
    OBVIOUS
  <2>1. executed[x].at <= executed[y].at
    <3>1. InTime(executed)
      BY DEF Held, RecorderInv, ExecutedInTime
    <3> QED  BY <3>1 DEF InTime
  <2>2. a <= b
    BY <1>2, <2>1
  <2> QED  BY <1>2, <2>2, BucketIs
<1> QED  BY <1>2, <1>3, <1>4 DEF BucketAt

\* What the bridge has recorded is what it has taken, with or without the last.
LEMMA RecordedIs ==
    ASSUME Held, JobKept, NEW i \in Ordinals
    PROVE  /\ Recorded(i) \in Seq(1..Len(executed))
           /\ job.id # 0 /\ job.todo <= i => delivered = Append(Recorded(i), job.id)
           /\ ~(job.id # 0 /\ job.todo <= i) => Recorded(i) = delivered
           /\ job.id # 0 => job.id \in 1..Len(executed)
<1>1. delivered \in Seq(1..Len(executed))
  BY NumbersAreRight
<1>2. CASE job.id # 0
  <2>1. delivered # <<>> /\ Last(delivered) = job.id
    BY <1>2 DEF JobKept
  <2>2. PICK f, x : f = Front(delivered) /\ x = Last(delivered)
    OBVIOUS
  <2>3. f \in Seq(1..Len(executed)) /\ x \in 1..Len(executed) /\ delivered = Append(f, x)
    BY <1>1, <2>1, <2>2, FrontAndLast
  <2> QED  BY <1>1, <1>2, <2>1, <2>2, <2>3 DEF Recorded
<1>3. CASE job.id = 0
  BY <1>1, <1>3 DEF Recorded
<1> QED  BY <1>2, <1>3

\* The trades of a good bucket come one after another.
LEMMA GoodBucketsAreTogether ==
    ASSUME FeedAssumption, Held, QueueKept, NEW i \in Ordinals,
           NEW ids \in Seq(1..Len(executed)), NEW x \in 1..Len(executed),
           delivered = Append(ids, x), NEW k \in DOMAIN ids,
           BucketAt(executed, i, ids[k]) = BucketAt(executed, i, x)
    PROVE  \/ BucketAt(executed, i, x) \in tainted[i]
           \/ BucketAt(executed, i, Last(ids)) = BucketAt(executed, i, x)
<1>1. PICK n \in Nat : n = Len(ids)
  BY LenProperties
<1>2. /\ DOMAIN ids = 1..n /\ DOMAIN delivered = 1..(n + 1) /\ delivered[n + 1] = x
      /\ \A m \in 1..n : delivered[m] = ids[m] /\ ids[m] \in 1..Len(executed)
  <2>1. Append(ids, x) \in Seq(1..Len(executed)) /\ Len(Append(ids, x)) = n + 1
    BY <1>1, AppendProperties
  <2> QED  BY <1>1, <2>1, AppendProperties, LenProperties, ElementOfSeq
<1>3. PICK b, t : b = BucketAt(executed, i, x) /\ t = tainted[i]
  OBVIOUS
<1>4. k \in 1..n /\ n \in 1..n /\ n >= 1
  BY <1>1, <1>2
<1>5. Last(ids) = ids[n]
  BY <1>1 DEF Last
<1>6. PICK c, d, e : c = ids[k] /\ d = ids[n] /\ e = BucketAt(executed, i, ids[n])
  OBVIOUS
<1>7. c \in 1..Len(executed) /\ d \in 1..Len(executed) /\ Len(executed) \in Nat
  BY <1>2, <1>4, <1>6, NumbersAreRight
<1> SUFFICES ASSUME b \notin t PROVE e = b
  BY <1>3, <1>5, <1>6
<1>8. CASE k = n
  BY <1>3, <1>6, <1>8
<1>9. CASE k < n
  <2>1. c > d => e = b
    <3> SUFFICES ASSUME c > d PROVE e = b
      OBVIOUS
    <3>1. Excused(executed, tainted, c, d)
      <4>1. k \in DOMAIN delivered /\ n \in DOMAIN delivered /\ delivered[k] = c /\ delivered[n] = d
        BY <1>1, <1>2, <1>4, <1>6
      <4> QED  BY <1>9, <4>1 DEF QueueKept, QueueRight, OvertakingIsExcused
    <3>2. BucketAt(executed, i, c) = b /\ BucketAt(executed, i, d) = e
      BY <1>3, <1>6
    <3> QED  BY <1>3, <3>1, <3>2 DEF Excused
  <2>2. d > x => e = b
    <3> SUFFICES ASSUME d > x PROVE e = b
      OBVIOUS
    <3>1. Excused(executed, tainted, d, x)
      <4>1. n \in DOMAIN delivered /\ n + 1 \in DOMAIN delivered /\ delivered[n] = d /\ n < n + 1
        BY <1>1, <1>2, <1>4, <1>6
      <4> QED  BY <1>2, <4>1 DEF QueueKept, QueueRight, OvertakingIsExcused
    <3>2. BucketAt(executed, i, d) = e
      BY <1>6
    <3> QED  BY <1>3, <3>1, <3>2 DEF Excused
  <2>3. c <= d /\ d <= x => e = b
    <3> SUFFICES ASSUME c <= d, d <= x PROVE e = b
      OBVIOUS
    <3>1. /\ BucketAt(executed, i, c) = b /\ BucketAt(executed, i, d) = e
          /\ BucketAt(executed, i, x) = b
      BY <1>3, <1>6
    <3>2. b <= e /\ b \in Nat
      BY <1>7, <3>1, BucketsAscend
    <3>3. e <= b /\ e \in Nat
      BY <1>7, <3>1, BucketsAscend
    <3> QED  BY <3>2, <3>3
  <2> QED  BY <1>7, <2>1, <2>2, <2>3
<1> QED  BY <1>1, <1>4, <1>8, <1>9

\* What was excused stays so.
LEMMA QueueStaysRight ==
    ASSUME NEW all, NEW more, Extends(more, all), NEW bad, NEW worse,
           \A i \in Ordinals : bad[i] \subseteq worse[i],
           NEW front \in Seq(1..Len(all)), NEW back \in Seq(1..Len(all)),
           QueueRight(all, bad, front, back)
    PROVE  QueueRight(more, worse, front, back)
<1>1. ASSUME NEW x \in 1..Len(all), NEW y \in 1..Len(all), Excused(all, bad, x, y)
      PROVE  Excused(more, worse, x, y)
  <2>1. more[x] = all[x] /\ more[y] = all[y]
    BY DEF Extends
  <2> QED  BY <1>1, <2>1 DEF Excused, BucketAt
<1>2. /\ \A k \in DOMAIN front : front[k] \in 1..Len(all)
      /\ \A k \in DOMAIN back : back[k] \in 1..Len(all)
  BY LenProperties, ElementOfSeq
<1>3. Range(front) \subseteq 1..Len(all) /\ Range(back) \subseteq 1..Len(all)
  BY <1>2 DEF Range
<1>4. OvertakingIsExcused(more, worse, front)
  BY <1>1, <1>2 DEF QueueRight, OvertakingIsExcused
<1>5. OvertakingIsExcused(more, worse, back)
  BY <1>1, <1>2 DEF QueueRight, OvertakingIsExcused
<1>6. \A x \in Range(front), y \in Range(back) : x > y => Excused(more, worse, x, y)
  BY <1>1, <1>3 DEF QueueRight
<1> QED  BY <1>4, <1>5, <1>6 DEF QueueRight

\* A trade at the end that is excused for all it comes after.
LEMMA LastIsExcused ==
    ASSUME NEW all, NEW bad, NEW s \in Seq(Nat), NEW x \in Nat,
           OvertakingIsExcused(all, bad, s),
           \A y \in Range(s) : y > x => Excused(all, bad, y, x)
    PROVE  OvertakingIsExcused(all, bad, Append(s, x)) /\ Range(Append(s, x)) = Range(s) \cup {x}
<1>1. PICK n, t : n \in Nat /\ n = Len(s) /\ t = Append(s, x)
  BY LenProperties
<1>2. /\ n \in Nat /\ DOMAIN s = 1..n /\ DOMAIN t = 1..(n + 1) /\ t[n + 1] = x
      /\ \A k \in 1..n : t[k] = s[k]
  BY <1>1, AppendProperties, LenProperties
<1>3. 1..(n + 1) = (1..n) \cup {n + 1}
  BY <1>2
<1>4. Range(t) = Range(s) \cup {x}
  BY <1>2, <1>3 DEF Range
<1>5. ASSUME NEW a \in 1..(n + 1), NEW b \in 1..(n + 1), a < b, t[a] > t[b]
      PROVE  Excused(all, bad, t[a], t[b])
  <2>1. a \in 1..n
    BY <1>2, <1>5
  <2>2. CASE b \in 1..n
    BY <1>2, <1>5, <2>1, <2>2 DEF OvertakingIsExcused
  <2>3. CASE b = n + 1
    <3>1. t[a] \in Range(s)
      BY <1>2, <2>1 DEF Range
    <3> QED  BY <1>2, <1>5, <2>3, <3>1
  <2> QED  BY <1>3, <2>2, <2>3
<1>6. OvertakingIsExcused(all, bad, t)
  BY <1>2, <1>5 DEF OvertakingIsExcused
<1> QED  BY <1>1, <1>4, <1>6

\* A trade comes in at the end,
LEMMA QueueGrows ==
    ASSUME NEW all, NEW bad, NEW front \in Seq(Nat), NEW back \in Seq(Nat), NEW x \in Nat,
           QueueRight(all, bad, front, back),
           \A y \in Range(front) \cup Range(back) : y > x => Excused(all, bad, y, x)
    PROVE  QueueRight(all, bad, front, Append(back, x))
<1>1. /\ OvertakingIsExcused(all, bad, Append(back, x))
      /\ Range(Append(back, x)) = Range(back) \cup {x}
  BY LastIsExcused DEF QueueRight
<1> QED  BY <1>1 DEF QueueRight

\* the first one is taken away,
LEMMA QueueShrinks ==
    ASSUME NEW all, NEW bad, NEW front \in Seq(Nat), NEW back \in Seq(Nat), back # <<>>,
           QueueRight(all, bad, front, back)
    PROVE  QueueRight(all, bad, front, Tail(back))
<1>1. PICK n, t : n \in Nat /\ n = Len(back) /\ t = Tail(back)
  BY LenProperties
<1>2. /\ n \in Nat /\ n >= 1 /\ DOMAIN back = 1..n /\ DOMAIN t = 1..(n - 1)
      /\ \A k \in 1..(n - 1) : t[k] = back[k + 1]
  BY <1>1, HeadTailProperties, LenProperties, EmptySeq
<1>3. Range(t) \subseteq Range(back)
  <2> SUFFICES ASSUME NEW k \in 1..(n - 1) PROVE t[k] \in Range(back)
    BY <1>2 DEF Range
  <2>1. PICK c : c = k + 1
    OBVIOUS
  <2>2. c \in DOMAIN back /\ t[k] = back[c]
    BY <1>2, <2>1
  <2> QED  BY <2>2 DEF Range
<1>4. OvertakingIsExcused(all, bad, t)
  <2> SUFFICES ASSUME NEW a \in 1..(n - 1), NEW b \in 1..(n - 1), a < b, t[a] > t[b]
               PROVE  Excused(all, bad, t[a], t[b])
    BY <1>2 DEF OvertakingIsExcused
  <2>1. PICK c, d : c = a + 1 /\ d = b + 1
    OBVIOUS
  <2>2. c \in 1..n /\ d \in 1..n /\ c < d /\ t[a] = back[c] /\ t[b] = back[d]
    BY <1>2, <2>1
  <2> QED  BY <1>2, <2>2 DEF QueueRight, OvertakingIsExcused
<1> QED  BY <1>1, <1>3, <1>4 DEF QueueRight

\* or goes on to the other list.
LEMMA QueueMoves ==
    ASSUME NEW all, NEW bad, NEW front \in Seq(Nat), NEW back \in Seq(Nat), back # <<>>,
           QueueRight(all, bad, front, back)
    PROVE  QueueRight(all, bad, Append(front, Head(back)), Tail(back))
<1>1. PICK n, t, x : n \in Nat /\ n = Len(back) /\ t = Tail(back) /\ x = Head(back)
  BY LenProperties
<1>2. /\ n \in Nat /\ n >= 1 /\ DOMAIN back = 1..n /\ DOMAIN t = 1..(n - 1) /\ x \in Nat
      /\ \A k \in 1..(n - 1) : t[k] = back[k + 1]
  BY <1>1, HeadTailProperties, LenProperties, EmptySeq
<1>3. x = back[1] /\ x \in Range(back)
  BY <1>1, <1>2 DEF Range
<1>4. /\ OvertakingIsExcused(all, bad, Append(front, x))
      /\ Range(Append(front, x)) = Range(front) \cup {x}
  BY <1>2, <1>3, LastIsExcused DEF QueueRight
<1>5. QueueRight(all, bad, front, t)
  BY <1>1, QueueShrinks
<1>6. ASSUME NEW y \in Range(t), x > y PROVE Excused(all, bad, x, y)
  <2>1. PICK k \in 1..(n - 1) : y = t[k]
    BY <1>2 DEF Range
  <2>2. PICK c : c = k + 1
    OBVIOUS
  <2>3. 1 \in 1..n /\ c \in 1..n /\ 1 < c /\ y = back[c]
    BY <1>2, <2>1, <2>2
  <2> QED  BY <1>2, <1>3, <1>6, <2>3 DEF QueueRight, OvertakingIsExcused
<1> QED  BY <1>1, <1>4, <1>5, <1>6 DEF QueueRight

\* More trades and more bad buckets.
Grown ==
    /\ Extends(executed', executed)
    /\ tainted' \in [Ordinals -> SUBSET Nat]
    /\ \A i \in Ordinals : tainted[i] \subseteq tainted'[i]

\* While the bridge rests, only trades and bad buckets come.
LEMMA RestingKeepsRows ==
    ASSUME FeedAssumption, RowsInv, Held', Grown, UNCHANGED <<delivered, job, cache, stored, boot>>
    PROVE  BridgeTypes' /\ JobKept' /\ RowsKept'
<1>1. BridgeTypes'
  BY DEF RowsInv, BridgeTypes, Grown, Ordinals, RowsOf, CandleRecords, None
<1>2. JobKept'
  BY DEF RowsInv, JobKept
<1>3. ASSUME NEW i \in Ordinals
      PROVE  RowsRight(stored'[i], cache'[i], executed', Recorded(i)', i, tainted'[i], boot')
  <2>1. Recorded(i)' = Recorded(i)
    BY DEF Recorded
  <2>2. Recorded(i) \in Seq(1..Len(executed)) /\ executed \in Seq(Trades)
    BY RecordedIs, NumbersAreRight DEF RowsInv
  <2>3. RowsRight(stored[i], cache[i], executed, Recorded(i), i, tainted[i], boot)
    BY DEF RowsInv, RowsKept
  <2>4. tainted[i] \subseteq tainted'[i] /\ Extends(executed', executed)
    BY DEF Grown
  <2>5. RowsRight(stored[i], cache[i], executed', Recorded(i), i, tainted'[i], boot)
    BY <2>2, <2>3, <2>4, RowsStayRight
  <2> QED  BY <2>1, <2>5
<1>4. RowsKept'
  BY <1>3 DEF RowsKept, Ordinals
<1> QED  BY <1>1, <1>2, <1>4

\* A restart that was marked stays so while no trade comes and time stands still,
LEMMA RestartStays ==
    ASSUME RestartKept, Grown, UNCHANGED <<executed, boot, now>>
    PROVE  RestartKept'
BY DEF RestartKept, RestartRight, Grown, Bucket, BucketAt

\* when a trade comes,
LEMMA TradeKeepsRestart ==
    ASSUME FeedAssumption, Held, RestartKept, Grown, UNCHANGED <<boot, now>>,
           NEW x, executed' = Append(executed, x), x \in Trades, x.at = now
    PROVE  RestartKept'
<1>1. PICK n, e : n = Len(executed) /\ e = executed'
  OBVIOUS
<1>2. /\ n \in Nat /\ boot \in 0..n /\ Len(e) = n + 1 /\ e[n + 1] = x
      /\ \A k \in 1..n : e[k] = executed[k]
  BY <1>1, NumbersAreRight, AppendProperties
<1>3. ASSUME NEW i \in Ordinals, NEW a \in 1..boot
      PROVE  /\ BucketAt(e, i, a) = Bucket(i, now) => Bucket(i, now) \in tainted'[i]
             /\ \A b \in (boot + 1)..Len(e) :
                    BucketAt(e, i, a) = BucketAt(e, i, b) => BucketAt(e, i, b) \in tainted'[i]
  <2>1. a \in 1..n /\ BucketAt(e, i, a) = BucketAt(executed, i, a)
    BY <1>2 DEF BucketAt
  <2>2. tainted[i] \subseteq tainted'[i]
    BY DEF Grown
  <2>3. BucketAt(e, i, a) = Bucket(i, now) => Bucket(i, now) \in tainted'[i]
    BY <2>1, <2>2 DEF RestartKept, RestartRight
  <2>4. ASSUME NEW b \in (boot + 1)..Len(e), BucketAt(e, i, a) = BucketAt(e, i, b)
        PROVE  BucketAt(e, i, b) \in tainted'[i]
    <3>1. CASE b = n + 1
      <4>1. BucketAt(e, i, b) = Bucket(i, now)
        BY <1>2, <3>1 DEF BucketAt
      <4> QED  BY <2>3, <2>4, <4>1
    <3>2. CASE b # n + 1
      <4>1. b \in (boot + 1)..n /\ b \in 1..n
        BY <1>2, <3>2
      <4>2. BucketAt(e, i, b) = BucketAt(executed, i, b)
        BY <1>2, <4>1 DEF BucketAt
      <4> QED  BY <1>1, <2>1, <2>2, <2>4, <4>1, <4>2 DEF RestartKept, RestartRight
    <3> QED  BY <3>1, <3>2
  <2> QED  BY <2>3, <2>4
<1>4. RestartRight(executed', tainted', boot, now)
  BY <1>1, <1>3 DEF RestartRight
<1> QED  BY <1>4 DEF RestartKept

\* and when time goes on.
LEMMA TimeKeepsRestart ==
    ASSUME FeedAssumption, Held, RestartKept, UNCHANGED <<executed, boot, tainted>>,
           now' \in Nat, now <= now'
    PROVE  RestartKept'
<1>1. ASSUME NEW i \in Ordinals, NEW a \in 1..boot, BucketAt(executed, i, a) = Bucket(i, now')
      PROVE  Bucket(i, now') \in tainted[i]
  <2>1. boot \in 0..Len(executed) /\ Len(executed) \in Nat /\ now \in Nat
    BY NumbersAreRight
  <2>2. a \in 1..Len(executed)
    BY <2>1
  <2>3. BucketAt(executed, i, a) \in Nat /\ Bucket(i, now) \in Nat /\ BucketAt(executed, i, a) <= Bucket(i, now)
    BY <2>2, BucketsAscend
  <2>4. Bucket(i, now) <= Bucket(i, now') /\ Bucket(i, now') \in Nat
    BY <2>1, BucketIs
  <2>5. Bucket(i, now) = Bucket(i, now')
    BY <1>1, <2>3, <2>4
  <2> QED  BY <1>1, <2>5 DEF RestartKept, RestartRight
<1> QED  BY <1>1 DEF RestartKept, RestartRight, Ordinals, Bucket, BucketAt

\* Trades are appended, and buckets only become bad.
LEMMA FeedGrows ==
    ASSUME FeedAssumption, RowsInv, Held', [Next]_vars
    PROVE  Grown
<1> DEFINE same == UNCHANGED <<executed, tainted>>
<1>0. /\ executed \in Seq(Trades) /\ Len(executed) \in Nat /\ now \in Nat
      /\ tainted \in [Ordinals -> SUBSET Nat]
  BY NumbersAreRight DEF RowsInv, BridgeTypes
<1>1. ASSUME same PROVE Grown
  BY <1>0, <1>1 DEF Grown, Extends
<1>2. ASSUME NEW x \in Trades, executed' = Append(executed, x) PROVE Extends(executed', executed)
  <2>1. Len(Append(executed, x)) = Len(executed) + 1 /\ \A k \in 1..Len(executed) : Append(executed, x)[k] = executed[k]
    BY <1>0, AppendProperties
  <2> QED  BY <1>0, <1>2, <2>1 DEF Extends
<1>3. Extends(executed, executed)
  BY <1>0 DEF Extends
<1>4. ASSUME NEW i \in Ordinals, NEW k \in 1..Len(executed) PROVE Bucket(i, executed[k].at) \in Nat
  BY <1>4, BucketsAscend DEF RowsInv, BucketAt
<1>5. ASSUME NEW r \in Requests, Check(r) \/ Admit(r) PROVE same
  BY <1>5 DEF Check, Admit, recorderVars
<1>6. ASSUME NEW r \in Requests, Fill(r) PROVE Grown
  <2>1. PICK price \in Nat : LET trade == [id |-> Len(executed) + 1, price |-> price, at |-> now]
                             IN  executed' = Append(executed, trade)
    BY <1>6, FeedAssumption DEF Fill
  <2>2. PICK x : x = [id |-> Len(executed) + 1, price |-> price, at |-> now]
    OBVIOUS
  <2>3. x \in Trades /\ executed' = Append(executed, x)
    BY <1>0, <2>1, <2>2 DEF Trades
  <2>4. tainted' = tainted
    BY <1>6 DEF Fill
  <2> QED  BY <1>0, <1>2, <2>3, <2>4 DEF Grown
<1>7. ASSUME NEW id \in spilled, SpillSends(id) PROVE Grown
  <2>1. executed' = executed /\ tainted' = [i \in Ordinals |-> tainted[i] \cup Spoiled(i, id..Len(executed))]
    BY <1>7 DEF SpillSends, recorderVars
  <2>2. id \in 1..Len(executed)
    <3>1. id \in (boot + 1)..Len(executed) /\ boot \in Nat
      BY NumbersAreRight DEF RowsInv
    <3> QED  BY <1>0, <3>1
  <2>3. \A i \in Ordinals : Spoiled(i, id..Len(executed)) \subseteq Nat
    <3>1. id..Len(executed) \subseteq 1..Len(executed)
      BY <1>0, <2>2
    <3> QED  BY <1>4, <3>1 DEF Spoiled
  <2> QED  BY <1>0, <1>3, <2>1, <2>3 DEF Grown
<1>8. ASSUME NEW id \in spilled, SpillGivesUp(id) PROVE same
  BY <1>8 DEF SpillGivesUp, recorderVars
<1>9. CASE Take \/ Publish
  <2>1. same
    BY <1>9 DEF Take, Publish, recorderVars
  <2> QED  BY <1>1, <2>1
<1>10. CASE RecordCandle
  <2>1. executed' = executed
    BY <1>10 DEF RecordCandle, recorderVars
  <2>2. \/ tainted' = tainted
        \/ tainted' = [k \in Ordinals |-> tainted[k] \cup
                          (IF k >= job.todo THEN {Bucket(k, executed[job.id].at)} ELSE {})]
    BY <1>10 DEF RecordCandle
  <2>3. job.id # 0
    BY <1>10 DEF RecordCandle, RowsInv, JobKept, Ordinals
  <2>4. job.id \in 1..Len(executed)
    <3>1. 1 \in Ordinals
      BY <1>10, FeedAssumption DEF RecordCandle, Ordinals, FeedAssumption
    <3> QED  BY <2>3, <3>1, RecordedIs DEF RowsInv
  <2>5. \A k \in Ordinals : Bucket(k, executed[job.id].at) \in Nat
    BY <1>4, <2>4
  <2> QED  BY <1>0, <1>3, <2>1, <2>2, <2>5 DEF Grown
<1>11. CASE StreamStep
  <2>1. same
    BY <1>11 DEF StreamStep, StreamTrade, recorderVars
  <2> QED  BY <1>1, <2>1
<1>12. CASE AdminStep
  <2>1. same
    BY <1>12 DEF AdminStep, SetTradingEnabled, UpdatePairRisk, UpdateUserRisk, recorderVars
  <2> QED  BY <1>1, <2>1
<1>13. CASE Tick
  <2>1. same
    BY <1>13 DEF Tick, recorderVars
  <2> QED  BY <1>1, <2>1
<1>14. CASE Crash
  <2>1. Extends(executed', executed)
    <3>1. FeedTypes
      BY DEF RowsInv, Held, HandsInv
    <3>2. \A price \in Nat : [id |-> Len(executed) + 1, price |-> price, at |-> now] \in Trades
      BY <1>0 DEF Trades
    <3>3. executed' = executed \/ \E x \in Trades : executed' = Append(executed, x)
      BY <1>14, <3>1, <3>2, CrashReplays
    <3> QED  BY <1>2, <1>3, <3>3
  <2>2. tainted' = [i \in Ordinals |-> tainted[i] \cup {Bucket(i, now)}
                       \cup (IF job.id = 0 THEN {} ELSE {Bucket(i, executed[job.id].at)})]
    BY <1>14 DEF Crash
  <2>3. ASSUME NEW i \in Ordinals
        PROVE  Bucket(i, now) \in Nat /\ (job.id # 0 => Bucket(i, executed[job.id].at) \in Nat)
    <3>1. Bucket(i, now) \in Nat
      BY <1>0, BucketIs
    <3>2. job.id # 0 => job.id \in 1..Len(executed)
      BY RecordedIs DEF RowsInv
    <3> QED  BY <1>4, <3>1, <3>2
  <2>4. PICK g : g = [i \in Ordinals |-> {Bucket(i, now)}
                       \cup (IF job.id = 0 THEN {} ELSE {Bucket(i, executed[job.id].at)})]
    OBVIOUS
  <2>5. \A i \in Ordinals : g[i] \subseteq Nat
    BY <2>3, <2>4
  <2>6. tainted' = [i \in Ordinals |-> tainted[i] \cup g[i]]
    BY <2>2, <2>4
  <2> QED  BY <1>0, <2>1, <2>5, <2>6 DEF Grown
<1>15. CASE ConnectedStep
  <2>1. same
    BY <1>15 DEF ConnectedStep, FeedUnchanged, recorderVars
  <2> QED  BY <1>1, <2>1
<1>16. CASE UNCHANGED vars
  <2>1. same
    BY <1>16 DEF vars, recorderVars
  <2> QED  BY <1>1, <2>1
<1> QED
  BY <1>1, <1>5, <1>6, <1>7, <1>8, <1>9, <1>10, <1>11, <1>12, <1>13, <1>14, <1>15, <1>16
  DEF Next, OrderStep, SpillStep, BridgeStep

\* What was excused of the trades that were there stays so.
LEMMA QueueStaysKept ==
    ASSUME RowsInv, Grown
    PROVE  QueueRight(executed', tainted', delivered, channel)
<1>1. delivered \in Seq(1..Len(executed)) /\ channel \in Seq(1..Len(executed))
  BY NumbersAreRight DEF RowsInv
<1> QED  BY <1>1, QueueStaysRight DEF RowsInv, QueueKept, Grown

\* Trades among which two are of different buckets make all their buckets bad.
LEMMA SpoiledIs ==
    ASSUME FeedAssumption, Held, NEW i \in Ordinals, NEW x \in 1..Len(executed),
           NEW y \in 1..Len(executed), x < y
    PROVE  \/ BucketAt(executed, i, x) = BucketAt(executed, i, y)
           \/ /\ BucketAt(executed, i, x) \in Spoiled(i, x..Len(executed))
              /\ BucketAt(executed, i, y) \in Spoiled(i, x..Len(executed))
<1>1. PICK n, a, b : n = Len(executed) /\ a = BucketAt(executed, i, x) /\ b = BucketAt(executed, i, y)
  OBVIOUS
<1>2. n \in Nat /\ x \in x..n /\ y \in x..n /\ x..n \subseteq 1..n
  BY <1>1, NumbersAreRight
<1>3. PICK S : S = {Bucket(i, executed[k].at) : k \in x..n}
  OBVIOUS
<1>4. a \in S /\ b \in S
  BY <1>1, <1>2, <1>3 DEF BucketAt
<1>5. IsFiniteSet(S)
  <2>1. PICK m \in Nat : m = Bucket(i, now)
    BY <1>1, BucketsAscend
  <2>2. \A k \in x..n : Bucket(i, executed[k].at) \in 0..m
    <3> SUFFICES ASSUME NEW k \in x..n PROVE BucketAt(executed, i, k) \in 0..m
      BY DEF BucketAt
    <3>1. k \in 1..Len(executed)
      BY <1>1, <1>2
    <3> QED  BY <2>1, <3>1, BucketsAscend
  <2>3. S \subseteq 0..m
    BY <1>3, <2>2
  <2>4. IsFiniteSet(0..m)
    BY <2>1, FS_Interval
  <2> QED  BY <2>3, <2>4, FS_Subset
<1> SUFFICES ASSUME a # b PROVE Spoiled(i, x..n) = S
  BY <1>1, <1>4
<1>6. Cardinality(S) > 1
  <2>1. PICK T : T = {a} \cup {b}
    OBVIOUS
  <2>2. IsFiniteSet({a}) /\ Cardinality({a}) = 1
    BY FS_Singleton
  <2>3. Cardinality(T) = 2
    <3>1. PICK A : A = {a}
      OBVIOUS
    <3>2. Cardinality(A \cup {b}) = IF b \in A THEN Cardinality(A) ELSE Cardinality(A) + 1
      BY <2>2, <3>1, FS_AddElement
    <3>3. b \notin A
      BY <3>1
    <3>4. T = A \cup {b} /\ Cardinality(A) = 1
      BY <2>1, <2>2, <3>1
    <3> QED  BY <3>2, <3>3, <3>4
  <2>4. T \subseteq S
    BY <1>4, <2>1
  <2>5. Cardinality(T) <= Cardinality(S) /\ Cardinality(S) \in Nat
    BY <1>5, <2>4, FS_Subset, FS_CardinalityType
  <2> QED  BY <2>3, <2>5
<1> QED  BY <1>3, <1>6 DEF Spoiled

\* fillLocked adds the newest trade,
LEMMA FillKeepsRows ==
    ASSUME FeedAssumption, RowsInv, Held', Grown, NEW r \in Requests, Fill(r)
    PROVE  RowsInv'
<1>1. UNCHANGED <<delivered, job, cache, stored, boot, now>>
  BY DEF Fill, bridgeVars
<1>2. BridgeTypes' /\ JobKept' /\ RowsKept'
  BY <1>1, RestingKeepsRows
<1>3. PICK price \in Nat : LET trade == [id |-> Len(executed) + 1, price |-> price, at |-> now]
                           IN  executed' = Append(executed, trade) /\ Emit(trade.id)
  BY FeedAssumption DEF Fill
<1>4. PICK x : x = [id |-> Len(executed) + 1, price |-> price, at |-> now]
  OBVIOUS
<1>5. PICK n \in Nat : n = Len(executed) + 1
  BY NumbersAreRight DEF RowsInv
<1>6. executed' = Append(executed, x) /\ Emit(n) /\ x.at = now /\ x \in Trades
  <2>1. now \in Nat
    BY NumbersAreRight DEF RowsInv
  <2>2. x \in Trades
    BY <1>4, <1>5, <2>1 DEF Trades
  <2> QED  BY <1>3, <1>4, <1>5, <2>2
<1>7. RestartKept'
  BY <1>1, <1>6, TradeKeepsRestart DEF RowsInv
<1>8. QueueRight(executed', tainted', delivered, channel)
  BY QueueStaysKept
<1>9. QueueKept'
  <2>1. CASE channel' = channel
    BY <1>1, <1>8, <2>1 DEF QueueKept
  <2>2. CASE channel' = Append(channel, n)
    <3>1. delivered \in Seq(Nat) /\ channel \in Seq(Nat)
      BY DEF RowsInv, Held, HandsInv, HandTypes, FeedTypes
    <3>2. \A y \in Range(delivered) \cup Range(channel) : ~(y > n)
      <4>1. /\ Range(delivered) \subseteq 1..Len(executed) /\ Len(executed) \in Nat
            /\ Range(channel) \subseteq (boot + 1)..Len(executed) /\ boot \in Nat
        BY NumbersAreRight DEF RowsInv
      <4> QED  BY <1>5, <4>1
    <3>3. QueueRight(executed', tainted', delivered, Append(channel, n))
      BY <1>8, <3>1, <3>2, QueueGrows
    <3> QED  BY <1>1, <2>2, <3>3 DEF QueueKept
  <2> QED  BY <1>6, <2>1, <2>2 DEF Emit
<1> QED  BY <1>2, <1>7, <1>9 DEF RowsInv

\* a goroutine one that later trades have overtaken.
LEMMA SpillKeepsRows ==
    ASSUME FeedAssumption, RowsInv, Held', Grown, NEW id \in spilled, SpillSends(id)
    PROVE  RowsInv'
<1>1. /\ UNCHANGED <<delivered, job, cache, stored, boot, now, executed>>
      /\ channel' = Append(channel, id)
      /\ tainted' = [i \in Ordinals |-> tainted[i] \cup Spoiled(i, id..Len(executed))]
  BY DEF SpillSends, bridgeVars, recorderVars
<1>2. BridgeTypes' /\ JobKept' /\ RowsKept'
  BY <1>1, RestingKeepsRows
<1>3. RestartKept'
  BY <1>1, RestartStays DEF RowsInv
<1>4. QueueRight(executed', tainted', delivered, channel)
  BY QueueStaysKept
<1>5. /\ Len(executed) \in Nat /\ id \in 1..Len(executed)
      /\ Range(delivered) \subseteq 1..Len(executed) /\ Range(channel) \subseteq 1..Len(executed)
  <2>1. /\ spilled \subseteq (boot + 1)..Len(executed) /\ boot \in Nat /\ Len(executed) \in Nat
        /\ Range(delivered) \subseteq 1..Len(executed)
        /\ Range(channel) \subseteq (boot + 1)..Len(executed)
    BY NumbersAreRight DEF RowsInv
  <2>2. (boot + 1)..Len(executed) \subseteq 1..Len(executed)
    BY <2>1
  <2> QED  BY <2>1, <2>2
<1>6. ASSUME NEW y \in Range(delivered) \cup Range(channel), y > id
      PROVE  Excused(executed', tainted', y, id)
  <2> SUFFICES ASSUME NEW i \in Ordinals
               PROVE  \/ BucketAt(executed, i, y) = BucketAt(executed, i, id)
                      \/ BucketAt(executed, i, y) \in tainted'[i] /\ BucketAt(executed, i, id) \in tainted'[i]
    BY <1>1 DEF Excused
  <2>1. y \in 1..Len(executed) /\ id < y
    BY <1>5, <1>6
  <2>2. tainted'[i] = tainted[i] \cup Spoiled(i, id..Len(executed))
    BY <1>1
  <2>3. \/ BucketAt(executed, i, id) = BucketAt(executed, i, y)
        \/ /\ BucketAt(executed, i, id) \in Spoiled(i, id..Len(executed))
           /\ BucketAt(executed, i, y) \in Spoiled(i, id..Len(executed))
    BY <1>5, <2>1, SpoiledIs DEF RowsInv
  <2> QED  BY <2>2, <2>3
<1>7. QueueKept'
  <2>1. delivered \in Seq(Nat) /\ channel \in Seq(Nat) /\ id \in Nat
    BY <1>5 DEF RowsInv, Held, HandsInv, HandTypes, FeedTypes
  <2>2. QueueRight(executed', tainted', delivered, Append(channel, id))
    BY <1>4, <1>6, <2>1, QueueGrows
  <2> QED  BY <1>1, <2>2 DEF QueueKept
<1> QED  BY <1>2, <1>3, <1>7 DEF RowsInv

\* The bridge takes the first trade of the channel.
LEMMA TakeKeepsRows ==
    ASSUME FeedAssumption, RowsInv, Held', Grown, Take
    PROVE  RowsInv'
<1>1. PICK x : x = Head(channel)
  OBVIOUS
<1>2. /\ UNCHANGED <<cache, stored, boot, now, executed, tainted>>
      /\ channel # <<>> /\ channel' = Tail(channel) /\ delivered' = Append(delivered, x)
      /\ job.id = 0 /\ job' = [id |-> x, todo |-> 1]
  BY <1>1 DEF Take, recorderVars, Resting
<1>3. /\ channel \in Seq(Nat) /\ delivered \in Seq(Nat) /\ x \in Range(channel)
      /\ x \in Nat /\ x > boot
  <2>1. /\ channel \in Seq(Nat) /\ delivered \in Seq(Nat) /\ boot \in Nat
        /\ Range(channel) \subseteq (boot + 1)..Len(executed) /\ Len(executed) \in Nat
    BY NumbersAreRight DEF RowsInv, Held, HandsInv, HandTypes, FeedTypes
  <2>2. x \in Range(channel)
    <3>1. 1 \in DOMAIN channel /\ x = channel[1]
      BY <1>1, <1>2, <2>1, HeadTailProperties, LenProperties, EmptySeq
    <3> QED  BY <3>1 DEF Range
  <2> QED  BY <2>1, <2>2
<1>4. BridgeTypes'
  BY <1>2 DEF RowsInv, BridgeTypes, Ordinals, RowsOf, CandleRecords, None
<1>5. PICK d : d = delivered'
  OBVIOUS
<1>6. Front(d) = delivered /\ Last(d) = x /\ d # <<>>
  <2>1. Front(d) = delivered /\ Last(d) = x
    BY <1>2, <1>3, <1>5, FrontAppended
  <2>2. Append(delivered, x) # <<>>
    BY <1>3, AppendProperties
  <2> QED  BY <1>2, <1>5, <2>1, <2>2
<1>7. job'.id = x /\ job'.todo = 1 /\ x # 0
  <2>1. boot \in Nat
    BY NumbersAreRight DEF RowsInv
  <2> QED  BY <1>2, <1>3, <2>1
<1>8. JobKept'
  <2>1. 1 \in 1..(Len(Intervals) + 1)
    <3>1. Len(Intervals) \in Nat
      BY LenProperties DEF FeedAssumption
    <3> QED  BY <3>1
  <2> QED  BY <1>2, <1>3, <1>5, <1>6, <1>7, <2>1 DEF JobKept
<1>9. QueueKept'
  <2>1. QueueRight(executed, tainted, Append(delivered, x), Tail(channel))
    BY <1>1, <1>2, <1>3, QueueMoves DEF RowsInv, QueueKept
  <2> QED  BY <1>2, <2>1 DEF QueueKept
<1>10. RestartKept'
  BY <1>2, RestartStays DEF RowsInv
<1>11. RowsKept'
  <2> SUFFICES ASSUME NEW i \in Ordinals
               PROVE  RowsRight(stored'[i], cache'[i], executed', Recorded(i)', i, tainted'[i], boot')
    BY DEF RowsKept, Ordinals
  <2>1. Recorded(i) = delivered
    BY <1>2 DEF Recorded
  <2>2. Recorded(i)' = delivered
    <3>1. 1 <= i
      BY LenProperties DEF Ordinals, FeedAssumption
    <3> QED  BY <1>5, <1>6, <1>7, <3>1 DEF Recorded
  <2> QED  BY <1>2, <2>1, <2>2 DEF RowsInv, RowsKept
<1> QED  BY <1>4, <1>8, <1>9, <1>10, <1>11 DEF RowsInv

\* It has published its trade.
LEMMA PublishKeepsRows ==
    ASSUME FeedAssumption, RowsInv, Held', Grown, Publish
    PROVE  RowsInv'
<1>1. /\ UNCHANGED <<cache, stored, boot, now, executed, tainted, delivered, channel>>
      /\ job.todo = Len(Intervals) + 1 /\ job' = [id |-> 0, todo |-> 0]
  BY DEF Publish, recorderVars, Resting
<1>2. BridgeTypes'
  BY <1>1 DEF RowsInv, BridgeTypes, Ordinals, RowsOf, CandleRecords, None
<1>3. JobKept'
  BY <1>1 DEF JobKept
<1>4. QueueKept'
  BY <1>1 DEF RowsInv, QueueKept
<1>5. RestartKept'
  BY <1>1, RestartStays DEF RowsInv
<1>6. RowsKept'
  <2> SUFFICES ASSUME NEW i \in Ordinals
               PROVE  RowsRight(stored'[i], cache'[i], executed', Recorded(i)', i, tainted'[i], boot')
    BY DEF RowsKept, Ordinals
  <2>1. Recorded(i) = delivered
    <3>1. ~(job.todo <= i)
      BY <1>1, LenProperties DEF Ordinals, FeedAssumption
    <3> QED  BY <3>1 DEF Recorded
  <2>2. Recorded(i)' = delivered
    BY <1>1 DEF Recorded
  <2> QED  BY <1>1, <2>1, <2>2 DEF RowsInv, RowsKept
<1> QED  BY <1>2, <1>3, <1>4, <1>5, <1>6 DEF RowsInv

\* The trade whose candles the bridge is at.
LEMMA BusyWith ==
    ASSUME FeedAssumption, RowsInv, NEW t, t = job.todo, t \in Ordinals, NEW x, x = job.id
    PROVE  /\ x # 0 /\ x > boot /\ x \in 1..Len(executed) /\ x \in (boot + 1)..Len(executed)
           /\ delivered # <<>> /\ Last(delivered) = x
           /\ t \in Nat /\ 1 <= t /\ t <= Len(Intervals) /\ Len(Intervals) \in Nat
           /\ executed \in Seq(Trades) /\ executed[x] \in Trades
           /\ \A m : /\ [job EXCEPT !.todo = m].id = x
                     /\ [job EXCEPT !.todo = m].todo = m
<1>1. t \in Nat /\ 1 <= t /\ t <= Len(Intervals) /\ Len(Intervals) \in Nat
  BY LenProperties DEF Ordinals, FeedAssumption
<1>2. JobKept /\ Held
  BY DEF RowsInv
<1>3. job.id # 0
  <2>1. job.todo # 0
    BY <1>1
  <2> QED  BY <1>2, <2>1 DEF JobKept
<1>4. x # 0 /\ x > boot /\ delivered # <<>> /\ Last(delivered) = x
  BY <1>2, <1>3 DEF JobKept
<1>5. x \in 1..Len(executed)
  BY <1>2, <1>3, RecordedIs
<1>6. executed \in Seq(Trades) /\ boot \in Nat /\ Len(executed) \in Nat /\ job \in [id : Nat, todo : Nat]
  BY <1>2, NumbersAreRight
<1>7. executed[x] \in Trades
  BY <1>5, <1>6, ElementOfSeq
<1>8. x \in (boot + 1)..Len(executed)
  BY <1>4, <1>5, <1>6
<1>9. \A m : [job EXCEPT !.todo = m].id = x /\ [job EXCEPT !.todo = m].todo = m
  BY <1>6
<1> QED  BY <1>1, <1>4, <1>5, <1>6, <1>7, <1>8, <1>9

\* What is made of the candle in memory,
LEMMA CurrentIsOfBucket ==
    ASSUME FeedAssumption, RowsInv, NEW t, t = job.todo, t \in Ordinals, NEW x, x = job.id,
           NEW b, b = BucketAt(executed, t, x), NEW new, new = Current(t, executed[x])
    PROVE  /\ new \in RowsOf(t) /\ new.ts = b
           /\ new = MadeOf(t, cache[t], executed[x])
<1>1. PICK c, y : c = cache[t] /\ y = executed[x]
  OBVIOUS
<1>2. c \in RowsOf(t) \cup {None}
  BY <1>1 DEF RowsInv, BridgeTypes
<1>3. y \in Trades /\ b = Bucket(t, y.at)
  BY <1>1, BusyWith DEF BucketAt
<1>4. new = MadeOf(t, c, y)
  BY <1>1, <1>3 DEF Current, MadeOf
<1>5. MadeOf(t, c, y) \in RowsOf(t) /\ MadeOf(t, c, y).ts = Bucket(t, y.at)
  BY <1>2, <1>3, CurrentIs
<1>6. new \in RowsOf(t) /\ new.ts = b
  BY <1>3, <1>4, <1>5
<1> QED  BY <1>1, <1>4, <1>6

\* and of the rows.
LEMMA CandleStaysRight ==
    ASSUME FeedAssumption, RowsInv, NEW t, t = job.todo, t \in Ordinals, NEW x, x = job.id,
           NEW new, new = Current(t, executed[x])
    PROVE  /\ Upserted(stored[t], new) \in SUBSET RowsOf(t) /\ new \in RowsOf(t)
           /\ RowsRight(Upserted(stored[t], new), new, executed, delivered, t, tainted[t], boot)
<1>1. /\ x # 0 /\ x > boot /\ x \in 1..Len(executed) /\ x \in (boot + 1)..Len(executed)
      /\ executed \in Seq(Trades) /\ t \in Nat
  BY BusyWith
<1>2. PICK ids : ids = Recorded(t)
  OBVIOUS
<1>3. ids \in Seq(1..Len(executed)) /\ delivered = Append(ids, x)
  <2>1. t <= t
    BY <1>1
  <2> QED  BY <1>1, <1>2, <2>1, RecordedIs DEF RowsInv
<1>4. PICK rows, c, bad, b : /\ rows = stored[t] /\ c = cache[t] /\ bad = tainted[t]
                             /\ b = BucketAt(executed, t, x)
  OBVIOUS
<1>5. rows \in SUBSET RowsOf(t) /\ c \in RowsOf(t) \cup {None}
  BY <1>4 DEF RowsInv, BridgeTypes
<1>6. RowsRight(rows, c, executed, ids, t, bad, boot)
  BY <1>2, <1>4 DEF RowsInv, RowsKept
<1>7. new = MadeOf(t, c, executed[x])
  BY <1>4, CurrentIsOfBucket
<1>8. \A k \in DOMAIN ids : ids[k] \in 1..Len(executed)
  BY <1>3, ElementOfSeq, LenProperties
<1>9. ASSUME NEW k \in DOMAIN ids, ids[k] <= boot,
             BucketAt(executed, t, ids[k]) = BucketAt(executed, t, x)
      PROVE  BucketAt(executed, t, x) \in bad
  <2>1. boot \in Nat /\ Len(executed) \in Nat
    BY NumbersAreRight DEF RowsInv
  <2>2. PICK a : a = ids[k]
    OBVIOUS
  <2>3. a \in 1..boot
    BY <1>8, <1>9, <2>1, <2>2
  <2> QED  BY <1>1, <1>4, <1>9, <2>2, <2>3 DEF RowsInv, RestartKept, RestartRight
<1>10. ASSUME NEW k \in DOMAIN ids, BucketAt(executed, t, ids[k]) = BucketAt(executed, t, x)
       PROVE  \/ BucketAt(executed, t, x) \in bad
              \/ BucketAt(executed, t, Last(ids)) = BucketAt(executed, t, x)
  <2>1. Held /\ QueueKept
    BY DEF RowsInv
  <2> QED  BY <1>1, <1>3, <1>4, <1>10, <2>1, GoodBucketsAreTogether
<1>11. PICK all, old : all = executed /\ old = boot
  OBVIOUS
<1>12. old \in Nat
  BY <1>11, NumbersAreRight DEF RowsInv
<1>13. InTurn(all, ids, t, x, bad, old)
  <2>1. \A k \in DOMAIN ids : ids[k] \in Nat
    BY <1>8
  <2> QED  BY <1>9, <1>10, <1>11, <1>12, <2>1 DEF InTurn
<1>14. /\ Upserted(rows, new) \in SUBSET RowsOf(t) /\ new \in RowsOf(t)
       /\ RowsRight(Upserted(rows, new), new, executed, Append(ids, x), t, bad, boot)
  <2>1. all \in Seq(Trades) /\ ids \in Seq(1..Len(all)) /\ x \in 1..Len(all)
    BY <1>1, <1>3, <1>11
  <2>2. RowsRight(rows, c, all, ids, t, bad, old) /\ b = BucketAt(all, t, x)
    BY <1>4, <1>6, <1>11
  <2>3. PICK y : y = executed[x]
    OBVIOUS
  <2>4. y \in Trades /\ y = all[x] /\ new = MadeOf(t, c, y)
    BY <1>7, <1>11, <2>3, BusyWith
  <2>5. /\ Upserted(rows, new) \in SUBSET RowsOf(t)
        /\ RowsRight(Upserted(rows, new), new, all, Append(ids, x), t, bad, old)
    BY <1>5, <1>12, <1>13, <2>1, <2>2, <2>4, RecordedStaysRight
  <2>6. new \in RowsOf(t)
    BY CurrentIsOfBucket
  <2> QED  BY <1>11, <2>5, <2>6
<1> QED  BY <1>3, <1>4, <1>14

\* The candle of a trade is recorded,
LEMMA CandleKeepsRows ==
    ASSUME FeedAssumption, RowsInv, Grown,
           NEW t, t = job.todo, t \in Ordinals, NEW x, x = job.id,
           NEW new, new = Current(t, executed[x]),
           UNCHANGED <<boot, now, executed, tainted, delivered, channel>>,
           cache' = [cache EXCEPT ![t] = new],
           stored' = [stored EXCEPT ![t] = Upserted(@, new)],
           job' = [job EXCEPT !.todo = t + 1]
    PROVE  BridgeTypes' /\ JobKept' /\ RowsKept'
<1>1. /\ x # 0 /\ x > boot /\ t \in Nat /\ t <= Len(Intervals) /\ Len(Intervals) \in Nat
      /\ delivered # <<>> /\ Last(delivered) = x
  BY BusyWith
<1>2. job'.id = x /\ job'.todo = t + 1
  BY BusyWith
<1>3. PICK u : u = Upserted(stored[t], new)
  OBVIOUS
<1>4. u \in SUBSET RowsOf(t) /\ new \in RowsOf(t)
      /\ RowsRight(u, new, executed, delivered, t, tainted[t], boot)
  BY <1>3, CandleStaysRight
<1>5. /\ cache \in [Ordinals -> CandleRecords \cup {None}] /\ stored \in [Ordinals -> SUBSET CandleRecords]
      /\ cache'[t] = new /\ stored'[t] = u
      /\ \A i \in Ordinals \ {t} : cache'[i] = cache[i] /\ stored'[i] = stored[i]
  BY <1>3 DEF RowsInv, BridgeTypes
<1>6. BridgeTypes'
  <2>1. cache' \in [Ordinals -> CandleRecords \cup {None}] /\ stored' \in [Ordinals -> SUBSET CandleRecords]
    <3>1. new \in CandleRecords /\ u \in SUBSET CandleRecords
      BY <1>4 DEF RowsOf
    <3> QED  BY <1>3, <1>5, <3>1
  <2>2. ASSUME NEW i \in Ordinals PROVE cache'[i] \in RowsOf(i) \cup {None} /\ stored'[i] \in SUBSET RowsOf(i)
    <3>1. CASE i = t
      BY <1>4, <1>5, <3>1
    <3>2. CASE i # t
      BY <1>5, <3>2 DEF RowsInv, BridgeTypes
    <3> QED  BY <3>1, <3>2
  <2> QED  BY <2>1, <2>2 DEF RowsInv, BridgeTypes, Ordinals, RowsOf
<1>7. JobKept'
  <2>1. t + 1 \in 1..(Len(Intervals) + 1)
    BY <1>1
  <2> QED  BY <1>1, <1>2, <2>1 DEF JobKept
<1>8. RowsKept'
  <2> SUFFICES ASSUME NEW i \in Ordinals
               PROVE  RowsRight(stored'[i], cache'[i], executed', Recorded(i)', i, tainted'[i], boot')
    BY DEF RowsKept, Ordinals
  <2>0. i \in Nat
    BY LenProperties DEF Ordinals, FeedAssumption
  <2>1. CASE i = t
    <3>1. Recorded(i)' = delivered
      <4>1. ~(t + 1 <= i)
        BY <1>1, <2>1
      <4> QED  BY <1>2, <4>1 DEF Recorded
    <3> QED  BY <1>4, <1>5, <2>1, <3>1
  <2>2. CASE i # t
    <3>1. t + 1 <= i <=> t <= i
      <4>1. t \in Nat
        BY <1>1
      <4> QED  BY <4>1, <2>0, <2>2
    <3>2. Recorded(i)' = Recorded(i)
      BY <1>2, <3>1 DEF Recorded
    <3> QED  BY <1>5, <2>2, <3>2 DEF RowsInv, RowsKept
  <2> QED  BY <2>1, <2>2
<1> QED  BY <1>6, <1>7, <1>8

\* What is not recorded is in a bucket that is bad from now on.
LEMMA FailureStaysRight ==
    ASSUME FeedAssumption, RowsInv, NEW t, t = job.todo, t \in Ordinals, NEW x, x = job.id,
           NEW i \in Ordinals, NEW worse, tainted[i] \subseteq worse,
           t <= i => BucketAt(executed, i, x) \in worse
    PROVE  /\ RowsRight(stored[i], cache[i], executed, delivered, i, worse, boot)
           /\ t <= i => \A d : d.ts \in worse
                            => RowsRight(stored[i], d, executed, delivered, i, worse, boot)
<1>1. x # 0 /\ x \in 1..Len(executed) /\ executed \in Seq(Trades)
  BY BusyWith
<1>2. PICK ids, bad : ids = Recorded(i) /\ bad = tainted[i]
  OBVIOUS
<1>3. ids \in Seq(1..Len(executed))
  BY <1>2, RecordedIs DEF RowsInv
<1>4. RowsRight(stored[i], cache[i], executed, ids, i, bad, boot)
  BY <1>2 DEF RowsInv, RowsKept
<1>5. bad \subseteq worse /\ Extends(executed, executed)
  <2>1. Len(executed) \in Nat
    BY NumbersAreRight DEF RowsInv
  <2> QED  BY <1>2, <2>1 DEF Extends
<1>6. RowsRight(stored[i], cache[i], executed, ids, i, worse, boot)
  BY <1>1, <1>3, <1>4, <1>5, RowsStayRight
<1>7. CASE t <= i
  <2>1. delivered = Append(ids, x)
    BY <1>1, <1>2, <1>7, RecordedIs DEF RowsInv
  <2>2. BucketAt(executed, i, x) \in worse
    BY <1>7
  <2>3. /\ RowsRight(stored[i], cache[i], executed, Append(ids, x), i, worse, boot)
        /\ \A d : d.ts \in worse => RowsRight(stored[i], d, executed, Append(ids, x), i, worse, boot)
    BY <1>1, <1>3, <1>6, <2>2, SkippedStaysRight
  <2> QED  BY <2>1, <2>3
<1>8. CASE ~(t <= i)
  <2>1. ids = delivered
    BY <1>2, <1>8, RecordedIs DEF RowsInv
  <2> QED  BY <1>6, <1>8, <2>1
<1> QED  BY <1>7, <1>8

\* or is not, and those of the longer intervals are not even tried.
LEMMA FailureKeepsRows ==
    ASSUME FeedAssumption, RowsInv, Grown,
           NEW t, t = job.todo, t \in Ordinals, NEW x, x = job.id,
           NEW new, new = Current(t, executed[x]),
           UNCHANGED <<boot, now, executed, delivered, channel, stored>>,
           cache' = [cache EXCEPT ![t] = new],
           job' = [job EXCEPT !.todo = Len(Intervals) + 1],
           tainted' = [k \in Ordinals |-> tainted[k] \cup
               (IF k >= t THEN {Bucket(k, executed[x].at)} ELSE {})]
    PROVE  BridgeTypes' /\ JobKept' /\ RowsKept'
<1>1. /\ x # 0 /\ x > boot /\ t \in Nat /\ t <= Len(Intervals) /\ Len(Intervals) \in Nat
      /\ delivered # <<>> /\ Last(delivered) = x
  BY BusyWith
<1>2. job'.id = x /\ job'.todo = Len(Intervals) + 1
  BY BusyWith
<1>3. PICK b : b = BucketAt(executed, t, x)
  OBVIOUS
<1>4. new \in RowsOf(t) /\ new.ts = b
  BY <1>3, CurrentIsOfBucket
<1>5. /\ cache \in [Ordinals -> CandleRecords \cup {None}] /\ cache'[t] = new
      /\ \A i \in Ordinals \ {t} : cache'[i] = cache[i]
  BY DEF RowsInv, BridgeTypes
<1>6. BridgeTypes'
  <2>1. cache' \in [Ordinals -> CandleRecords \cup {None}]
    <3>1. new \in CandleRecords
      BY <1>4 DEF RowsOf
    <3> QED  BY <1>5, <3>1
  <2>2. ASSUME NEW i \in Ordinals PROVE cache'[i] \in RowsOf(i) \cup {None} /\ stored'[i] \in SUBSET RowsOf(i)
    <3>1. CASE i = t
      BY <1>4, <1>5, <3>1 DEF RowsInv, BridgeTypes
    <3>2. CASE i # t
      BY <1>5, <3>2 DEF RowsInv, BridgeTypes
    <3> QED  BY <3>1, <3>2
  <2>3. tainted' \in [Ordinals -> SUBSET Nat]
    BY DEF Grown
  <2> QED  BY <2>1, <2>2, <2>3 DEF RowsInv, BridgeTypes, Ordinals, RowsOf
<1>7. JobKept'
  <2>1. Len(Intervals) + 1 \in 1..(Len(Intervals) + 1)
    BY <1>1
  <2> QED  BY <1>1, <1>2, <2>1 DEF JobKept
<1>8. RowsKept'
  <2> SUFFICES ASSUME NEW i \in Ordinals
               PROVE  RowsRight(stored'[i], cache'[i], executed', Recorded(i)', i, tainted'[i], boot')
    BY DEF RowsKept, Ordinals
  <2>1. i \in Nat /\ i <= Len(Intervals)
    <3>1. i \in 1..Len(Intervals)
      BY LenProperties DEF Ordinals, FeedAssumption
    <3> QED  BY <1>1, <3>1
  <2>2. Recorded(i)' = delivered
    <3>1. ~(Len(Intervals) + 1 <= i)
      BY <1>1, <2>1
    <3> QED  BY <1>2, <3>1 DEF Recorded
  <2>3. PICK worse : worse = tainted'[i]
    OBVIOUS
  <2>4. tainted[i] \subseteq worse
    BY <2>3 DEF Grown
  <2>5. t <= i => BucketAt(executed, i, x) \in worse
    <3> SUFFICES ASSUME t <= i PROVE BucketAt(executed, i, x) \in worse
      OBVIOUS
    <3>1. i >= t
      BY <1>1, <2>1
    <3> QED  BY <2>3, <3>1 DEF BucketAt
  <2>6. /\ RowsRight(stored[i], cache[i], executed, delivered, i, worse, boot)
        /\ t <= i => \A d : d.ts \in worse
                         => RowsRight(stored[i], d, executed, delivered, i, worse, boot)
    BY <2>4, <2>5, FailureStaysRight
  <2>7. CASE i = t
    <3>1. t <= i
      BY <1>1, <2>7
    <3>2. new.ts \in worse
      BY <1>3, <1>4, <2>5, <2>7, <3>1
    <3> QED  BY <1>5, <2>2, <2>3, <2>6, <2>7, <3>1, <3>2
  <2>8. CASE i # t
    BY <1>5, <2>2, <2>3, <2>6, <2>8
  <2> QED  BY <2>7, <2>8
<1> QED  BY <1>6, <1>7, <1>8

\* A candle more, or less.
LEMMA RecordKeepsRows ==
    ASSUME FeedAssumption, RowsInv, Held', Grown, RecordCandle
    PROVE  RowsInv'
<1>1. PICK t : t = job.todo
  OBVIOUS
<1>2. PICK new : new = Current(t, executed[job.id])
  OBVIOUS
<1>3. /\ t \in Ordinals /\ cache' = [cache EXCEPT ![t] = new]
      /\ UNCHANGED <<boot, now, executed, delivered, channel>>
  BY <1>1, <1>2 DEF RecordCandle, recorderVars
<1>4. BridgeTypes' /\ JobKept' /\ RowsKept'
  <2>1. CASE /\ stored' = [stored EXCEPT ![t] = Upserted(@, new)]
             /\ job' = [job EXCEPT !.todo = t + 1] /\ tainted' = tainted
    BY <1>1, <1>2, <1>3, <2>1, CandleKeepsRows
  <2>2. CASE /\ job' = [job EXCEPT !.todo = Len(Intervals) + 1] /\ stored' = stored
             /\ tainted' = [k \in Ordinals |-> tainted[k] \cup
                    (IF k >= t THEN {Bucket(k, executed[job.id].at)} ELSE {})]
    BY <1>1, <1>2, <1>3, <2>2, FailureKeepsRows
  <2> QED  BY <1>1, <1>2, <2>1, <2>2 DEF RecordCandle
<1>5. RestartKept'
  BY <1>3, RestartStays DEF RowsInv
<1>6. QueueKept'
  BY <1>3, QueueStaysKept DEF QueueKept
<1> QED  BY <1>4, <1>5, <1>6 DEF RowsInv

\* A crash leaves no candle in memory, and two bad buckets.
LEMMA CrashKeepsRows ==
    ASSUME FeedAssumption, RowsInv, Held', Grown, Crash
    PROVE  RowsInv'
<1>1. /\ UNCHANGED <<delivered, stored, now>> /\ boot' = Len(executed) /\ job' = [id |-> 0, todo |-> 0]
      /\ cache' = [i \in Ordinals |-> None]
      /\ tainted' = [i \in Ordinals |-> tainted[i] \cup {Bucket(i, now)}
                        \cup (IF job.id = 0 THEN {} ELSE {Bucket(i, executed[job.id].at)})]
  BY DEF Crash, Resting
<1>2. PICK n \in Nat : n = Len(executed)
  BY NumbersAreRight DEF RowsInv
<1>3. /\ executed \in Seq(Trades) /\ delivered \in Seq(1..n) /\ Range(delivered) \subseteq 1..n /\ now \in Nat
      /\ \A k \in DOMAIN delivered : delivered[k] <= n
  <2>1. /\ executed \in Seq(Trades) /\ delivered \in Seq(1..n) /\ Range(delivered) \subseteq 1..n /\ now \in Nat
    BY <1>2, NumbersAreRight DEF RowsInv
  <2>2. \A k \in DOMAIN delivered : delivered[k] \in 1..n
    BY <2>1 DEF Range
  <2> QED  BY <1>2, <2>1, <2>2
<1>4. \/ executed' = executed /\ channel' = <<>>
      \/ \E x \in Trades : x.at = now /\ executed' = Append(executed, x) /\ channel' = <<n + 1>>
  <2>1. FeedTypes
    BY DEF RowsInv, Held, HandsInv
  <2>2. \A price \in Nat : LET x == [id |-> n + 1, price |-> price, at |-> now]
                           IN  x \in Trades /\ x.at = now
    BY <1>2, <1>3 DEF Trades
  <2> QED  BY <1>2, <2>1, <2>2, CrashReplays
<1>5. BridgeTypes'
  BY <1>1 DEF RowsInv, BridgeTypes, Grown, Ordinals, RowsOf, CandleRecords, None
<1>6. JobKept'
  BY <1>1 DEF JobKept
<1>7. QueueKept'
  <2>1. QueueRight(executed', tainted', delivered, channel)
    BY QueueStaysKept
  <2>2. Range(<<>>) = {} /\ DOMAIN <<>> = {} /\ <<>> \in Seq(Nat) /\ delivered \in Seq(Nat)
    BY DEF Range, RowsInv, Held, HandsInv, HandTypes
  <2>3. QueueRight(executed', tainted', delivered, <<>>)
    BY <2>1, <2>2 DEF QueueRight, OvertakingIsExcused
  <2>4. QueueRight(executed', tainted', delivered, <<n + 1>>)
    <3>1. \A y \in Range(delivered) \cup Range(<<>>) : ~(y > n + 1)
      BY <1>2, <1>3, <2>2
    <3>2. Append(<<>>, n + 1) = <<n + 1>> /\ n + 1 \in Nat
      BY <1>2
    <3> QED  BY <2>2, <2>3, <3>1, <3>2, QueueGrows
  <2> QED  BY <1>1, <1>4, <2>3, <2>4 DEF QueueKept
<1>8. RestartKept'
  <2>1. ASSUME NEW i \in Ordinals PROVE Bucket(i, now) \in tainted'[i]
    BY <1>1
  <2>2. ASSUME NEW i \in Ordinals, NEW b \in (n + 1)..Len(executed')
        PROVE  BucketAt(executed', i, b) = Bucket(i, now)
    <3>1. CASE executed' = executed
      BY <1>2, <2>2, <3>1
    <3>2. ASSUME NEW x \in Trades, x.at = now, executed' = Append(executed, x)
          PROVE  BucketAt(executed', i, b) = Bucket(i, now)
      <4>1. b = n + 1 /\ executed'[n + 1] = x
        BY <1>2, <1>3, <2>2, <3>2, AppendProperties
      <4> QED  BY <3>2, <4>1 DEF BucketAt
    <3> QED  BY <1>4, <3>1, <3>2
  <2> QED  BY <1>1, <1>2, <2>1, <2>2 DEF RestartKept, RestartRight, Ordinals, Bucket, BucketAt
<1>9. RowsKept'
  <2> SUFFICES ASSUME NEW i \in Ordinals
               PROVE  RowsRight(stored'[i], cache'[i], executed', Recorded(i)', i, tainted'[i], boot')
    BY DEF RowsKept, Ordinals
  <2>1. Recorded(i)' = delivered
    BY <1>1 DEF Recorded
  <2>2. PICK worse, c, rows : worse = tainted'[i] /\ c = cache[i] /\ rows = stored[i]
    OBVIOUS
  <2>3. RowsRight(rows, c, executed, Recorded(i), i, tainted[i], boot)
    BY <2>2 DEF RowsInv, RowsKept
  <2>4. Recorded(i) \in Seq(1..Len(executed)) /\ tainted[i] \subseteq worse /\ Extends(executed', executed)
    BY <2>2, RecordedIs DEF RowsInv, Grown
  <2>5. Extends(executed, executed)
    BY <1>2 DEF Extends
  <2>6. RowsRight(rows, c, executed, Recorded(i), i, worse, boot)
    BY <1>3, <2>3, <2>4, <2>5, RowsStayRight
  <2>7. RowsRight(rows, c, executed, delivered, i, worse, boot)
    <3>1. CASE job.id # 0 /\ job.todo <= i
      <4>1. delivered = Append(Recorded(i), job.id) /\ job.id \in 1..Len(executed)
        BY <3>1, RecordedIs DEF RowsInv
      <4>2. BucketAt(executed, i, job.id) \in worse
        BY <1>1, <2>2, <3>1 DEF BucketAt
      <4> QED  BY <1>3, <2>4, <2>6, <4>1, <4>2, SkippedStaysRight
    <3>2. CASE ~(job.id # 0 /\ job.todo <= i)
      <4>1. Recorded(i) = delivered
        BY <3>2, RecordedIs DEF RowsInv
      <4> QED  BY <2>6, <4>1
    <3> QED  BY <3>1, <3>2
  <2>8. RowsRight(rows, c, executed', delivered, i, worse, boot)
    BY <1>2, <1>3, <2>4, <2>7, RowsStayRight
  <2>9. RowsRight(rows, None, executed', delivered, i, worse, n)
    BY <1>3, <2>8 DEF RowsRight, IsOpenCandle, None
  <2> QED  BY <1>1, <1>2, <2>1, <2>2, <2>9
<1> QED  BY <1>5, <1>6, <1>7, <1>8, <1>9 DEF RowsInv

\* Every step keeps the rows those of the trades the bridge has recorded.
LEMMA FeedKeepsRows ==
    ASSUME FeedAssumption, RowsInv, [Next]_vars
    PROVE  RowsInv'
<1> DEFINE same == UNCHANGED <<executed, boot, now, channel, bridgeVars, tainted>>
<1>1. Held'
  BY FeedKeepsRecorder, FeedKeepsHands DEF RowsInv, Held
<1>2. Grown
  BY <1>1, FeedGrows
<1>3. ASSUME UNCHANGED <<executed, boot, bridgeVars, tainted>>, RestartKept', QueueKept' PROVE RowsInv'
  <2>1. BridgeTypes' /\ JobKept' /\ RowsKept'
    BY <1>1, <1>2, <1>3, RestingKeepsRows DEF bridgeVars
  <2> QED  BY <1>1, <1>3, <2>1 DEF RowsInv
<1>4. ASSUME UNCHANGED <<executed, boot, now, bridgeVars, tainted>>, QueueKept' PROVE RowsInv'
  <2>1. RestartKept'
    BY <1>2, <1>4, RestartStays DEF RowsInv
  <2> QED  BY <1>3, <1>4, <2>1
<1>5. ASSUME same PROVE RowsInv'
  <2>1. QueueKept'
    BY <1>5 DEF RowsInv, QueueKept, bridgeVars
  <2> QED  BY <1>4, <1>5, <2>1
<1>6. ASSUME NEW r \in Requests, Check(r) \/ Admit(r) PROVE RowsInv'
  <2>1. same
    BY <1>6 DEF Check, Admit, recorderVars
  <2> QED  BY <1>5, <2>1
<1>7. ASSUME NEW r \in Requests, Fill(r) PROVE RowsInv'
  BY <1>1, <1>2, <1>7, FillKeepsRows
<1>8. ASSUME NEW id \in spilled, SpillSends(id) PROVE RowsInv'
  BY <1>1, <1>2, <1>8, SpillKeepsRows
<1>9. ASSUME NEW id \in spilled, SpillGivesUp(id) PROVE RowsInv'
  <2>1. same
    BY <1>9 DEF SpillGivesUp, recorderVars
  <2> QED  BY <1>5, <2>1
<1>10. CASE Take
  BY <1>1, <1>2, <1>10, TakeKeepsRows
<1>11. CASE RecordCandle
  BY <1>1, <1>2, <1>11, RecordKeepsRows
<1>12. CASE Publish
  BY <1>1, <1>2, <1>12, PublishKeepsRows
<1>13. CASE StreamStep
  <2>1. /\ channel # <<>> /\ channel' = Tail(channel)
        /\ UNCHANGED <<executed, boot, now, bridgeVars, tainted>>
    BY <1>13 DEF StreamStep, StreamTrade, recorderVars
  <2>2. QueueKept'
    <3>1. delivered \in Seq(Nat) /\ channel \in Seq(Nat)
      BY DEF RowsInv, Held, HandsInv, HandTypes, FeedTypes
    <3>2. QueueRight(executed, tainted, delivered, Tail(channel))
      BY <2>1, <3>1, QueueShrinks DEF RowsInv, QueueKept
    <3> QED  BY <2>1, <3>2 DEF QueueKept, bridgeVars
  <2> QED  BY <1>4, <2>1, <2>2
<1>14. CASE AdminStep
  <2>1. same
    BY <1>14 DEF AdminStep, SetTradingEnabled, UpdatePairRisk, UpdateUserRisk, recorderVars
  <2> QED  BY <1>5, <2>1
<1>15. CASE Tick
  <2>1. UNCHANGED <<executed, boot, channel, bridgeVars, tainted>> /\ now' = now + 1
    BY <1>15 DEF Tick, recorderVars
  <2>2. now' \in Nat /\ now <= now'
    BY <2>1, NumbersAreRight DEF RowsInv
  <2>3. RestartKept'
    BY <2>1, <2>2, TimeKeepsRestart DEF RowsInv
  <2>4. QueueKept'
    BY <2>1 DEF RowsInv, QueueKept, bridgeVars
  <2> QED  BY <1>3, <2>1, <2>3, <2>4
<1>16. CASE Crash
  BY <1>1, <1>2, <1>16, CrashKeepsRows
<1>17. CASE ConnectedStep
  <2>1. same
    BY <1>17 DEF ConnectedStep, FeedUnchanged, recorderVars
  <2> QED  BY <1>5, <2>1
<1>18. CASE UNCHANGED vars
  <2>1. same
    BY <1>18 DEF vars, recorderVars
  <2> QED  BY <1>5, <2>1
<1> QED
  BY <1>6, <1>7, <1>8, <1>9, <1>10, <1>11, <1>12, <1>13, <1>14, <1>15, <1>16, <1>17, <1>18
  DEF Next, OrderStep, SpillStep, BridgeStep

\* The buckets of finitely many trades, and their candles.
LEMMA RowsAreFinite ==
    ASSUME FeedAssumption, NEW i \in Ordinals, NEW s \in Seq(Trades), NEW rows,
           AreRows(rows, s, i, {})
    PROVE  /\ IsFiniteSet(rows)
           /\ \A row \in rows : row.ts \in BucketsOf(s, i) /\ row = CandleOf(s, i, row.ts)
           /\ \A ts \in BucketsOf(s, i) : CandleOf(s, i, ts) \in rows /\ CandleOf(s, i, ts).ts = ts
<1>1. PICK n, B : n = Len(s) /\ B = BucketsOf(s, i)
  OBVIOUS
<1>2. n \in Nat /\ DOMAIN s = 1..n
  BY <1>1, LenProperties
<1>3. IsFiniteSet(B)
  <2>1. PICK f : f = [k \in 1..n |-> Bucket(i, s[k].at)]
    OBVIOUS
  <2>2. B = {Bucket(i, s[k].at) : k \in 1..n}
    BY <1>1, <1>2 DEF BucketsOf
  <2>3. f \in Surjection(1..n, B)
    BY <2>1, <2>2 DEF Surjection
  <2>4. IsFiniteSet(1..n)
    BY <1>2, FS_Interval
  <2> QED  BY <2>3, <2>4, FS_Surjection
<1>4. ASSUME NEW row \in rows PROVE row.ts \in B /\ row = CandleOf(s, i, row.ts)
  BY <1>1 DEF AreRows
<1>5. ASSUME NEW ts \in B PROVE CandleOf(s, i, ts) \in rows /\ CandleOf(s, i, ts).ts = ts
  BY <1>1 DEF AreRows
<1>6. IsFiniteSet(rows)
  <2>1. PICK g : g = [ts \in B |-> CandleOf(s, i, ts)]
    OBVIOUS
  <2>2. \A ts \in B : g[ts] \in rows
    BY <1>5, <2>1
  <2>3. \A row \in rows : \E ts \in B : g[ts] = row
    BY <1>4, <2>1
  <2>4. g \in Surjection(B, rows)
    BY <2>1, <2>2, <2>3 DEF Surjection
  <2> QED  BY <1>3, <2>4, FS_Surjection
<1> QED  BY <1>1, <1>4, <1>5, <1>6

\* What a reader gets of rows none of which went wrong.
LEMMA PageIs ==
    ASSUME FeedAssumption, NEW i \in Ordinals, NEW s \in Seq(Trades),
           NEW rows \in SUBSET RowsOf(i), AreRows(rows, s, i, {}), NEW n \in Nat
    PROVE  LET t == ByTime(rows)
               page == SubSeq(t, 1, Min({n, Len(t)}))
           IN  /\ AreCandles(page, s, i)
               /\ \A ts \in Missing(page, s, i) : Len(page) = n /\ \A c \in Range(page) : c.ts < ts
<1>1. /\ IsFiniteSet(rows)
      /\ \A row \in rows : row.ts \in BucketsOf(s, i) /\ row = CandleOf(s, i, row.ts)
      /\ \A ts \in BucketsOf(s, i) : CandleOf(s, i, ts) \in rows /\ CandleOf(s, i, ts).ts = ts
  BY RowsAreFinite
<1>2. rows \in SUBSET CandleRecords
  BY DEF RowsOf
<1>3. \A a, b \in rows : a.ts = b.ts => a = b
  BY <1>1
<1>4. PICK t : t = ByTime(rows)
  OBVIOUS
<1>5. t \in Seq(CandleRecords) /\ InOrder(t) /\ Range(t) = rows
  BY <1>1, <1>2, <1>3, <1>4, ByTimeIs
<1>6. PICK page : page = SubSeq(t, 1, Min({n, Len(t)}))
  OBVIOUS
<1>7. /\ InOrder(page) /\ Range(page) \subseteq rows
      /\ \A c \in rows \ Range(page) : Len(page) = n /\ \A d \in Range(page) : d.ts < c.ts
  BY <1>5, <1>6, OldestRows
<1>8. AreCandles(page, s, i)
  BY <1>1, <1>7 DEF AreCandles
<1>9. ASSUME NEW ts \in Missing(page, s, i)
      PROVE  Len(page) = n /\ \A c \in Range(page) : c.ts < ts
  <2>1. ts \in BucketsOf(s, i) /\ ts \notin {c.ts : c \in Range(page)}
    BY DEF Missing
  <2>2. PICK c \in rows : c.ts = ts
    BY <1>1, <2>1
  <2>3. c \notin Range(page)
    BY <2>1, <2>2
  <2> QED  BY <1>7, <2>2, <2>3
<1> QED  BY <1>4, <1>6, <1>8, <1>9

\* The rows answer as the property says.
LEMMA RowsAnswer ==
    ASSUME FeedAssumption, RowsInv
    PROVE  CandlesMatchTape
<1> SUFFICES ASSUME NEW i \in Ordinals
             PROVE  LET trades == TradesOf(Recorded(i))
                    IN  /\ \A ts \in BucketsOf(trades, i) \ tainted[i] :
                               {row \in stored[i] : row.ts = ts} = {CandleOf(trades, i, ts)}
                        /\ tainted[i] = {} => \A n \in 1..LargestPage :
                               LET page == ListCandles(i, n) IN
                               /\ AreCandles(page, trades, i)
                               /\ \A ts \in Missing(page, trades, i) :
                                      Len(page) = n /\ \A c \in Range(page) : c.ts < ts
  BY DEF CandlesMatchTape
<1>1. PICK s : s = TradesOf(Recorded(i))
  OBVIOUS
<1>2. s = Listed(executed, Recorded(i))
  BY <1>1 DEF TradesOf, Listed
<1>3. s \in Seq(Trades)
  BY <1>2, RecordedIs, NumbersAreRight, ListedIs DEF RowsInv
<1>4. PICK rows, bad : rows = stored[i] /\ bad = tainted[i]
  OBVIOUS
<1>5. rows \in SUBSET RowsOf(i) /\ AreRows(rows, s, i, bad)
  BY <1>2, <1>4 DEF RowsInv, BridgeTypes, RowsKept, RowsRight
<1>6. \A ts \in BucketsOf(s, i) \ bad : {row \in rows : row.ts = ts} = {CandleOf(s, i, ts)}
  BY <1>5 DEF AreRows
<1>7. ASSUME bad = {}, NEW n \in 1..LargestPage
      PROVE  LET page == ListCandles(i, n) IN
             /\ AreCandles(page, s, i)
             /\ \A ts \in Missing(page, s, i) : Len(page) = n /\ \A c \in Range(page) : c.ts < ts
  <2>1. {r \in rows : InWindow(r.ts, 0, 0)} = rows
    <3>1. \A r \in rows : r.ts >= 0
      BY <1>5 DEF RowsOf, CandleRecords
    <3> QED  BY <3>1 DEF InWindow
  <2>2. n \in Nat
    BY DEF FeedAssumption
  <2>3. PICK t : t = ByTime(rows)
    OBVIOUS
  <2>4. PICK page : page = SubSeq(t, 1, Min({n, Len(t)}))
    OBVIOUS
  <2>5. ListCandles(i, n) = page
    BY <1>4, <2>1, <2>3, <2>4 DEF ListCandles, CandleRows
  <2>6. /\ AreCandles(page, s, i)
        /\ \A ts \in Missing(page, s, i) : Len(page) = n /\ \A c \in Range(page) : c.ts < ts
    BY <1>3, <1>5, <1>7, <2>2, <2>3, <2>4, PageIs
  <2> QED  BY <2>5, <2>6
<1> QED  BY <1>1, <1>4, <1>6, <1>7

\* At first there are no rows.
LEMMA RowsBegin == ASSUME FeedAssumption, Init PROVE RowsInv
<1>1. /\ executed = <<>> /\ boot = 0 /\ channel = <<>> /\ delivered = <<>>
      /\ job = [id |-> 0, todo |-> 0]
      /\ cache = [i \in Ordinals |-> None] /\ stored = [i \in Ordinals |-> {}]
      /\ tainted = [i \in Ordinals |-> {}]
  BY DEF Init, Resting
<1>2. Held
  BY RecorderBegins, HandsBegin DEF Held
<1>3. BridgeTypes
  BY <1>1 DEF BridgeTypes
<1>4. JobKept
  BY <1>1 DEF JobKept
<1>5. DOMAIN <<>> = {} /\ Range(<<>>) = {} /\ 1..0 = {}
  BY DEF Range
<1>6. QueueKept
  BY <1>1, <1>5 DEF QueueKept, QueueRight, OvertakingIsExcused
<1>7. RestartKept
  BY <1>1, <1>5 DEF RestartKept, RestartRight
<1>8. ASSUME NEW i \in Ordinals
      PROVE  RowsRight(stored[i], cache[i], executed, Recorded(i), i, tainted[i], boot)
  <2>1. Recorded(i) = <<>>
    BY <1>1 DEF Recorded
  <2>2. PICK s : s = Listed(executed, <<>>)
    OBVIOUS
  <2>3. DOMAIN s = {}
    BY <1>5, <2>2 DEF Listed
  <2>4. BucketsOf(s, i) = {}
    BY <2>3 DEF BucketsOf
  <2>5. AreRows({}, s, i, {}) /\ IsOpenCandle(None, s, i, {})
    BY <2>4 DEF AreRows, IsOpenCandle, None
  <2>6. RowsRight({}, None, executed, <<>>, i, {}, boot)
    BY <2>2, <2>5 DEF RowsRight
  <2> QED  BY <1>1, <2>1, <2>6
<1> QED  BY <1>2, <1>3, <1>4, <1>6, <1>7, <1>8 DEF RowsInv, RowsKept

\* The rows of candles are those of the trades the bridge has taken, in every bucket that
\* no crash, no failed upsert and no trade that was overtaken has spoiled, and where none
\* is, a page of the gateway is the first of them (candle_service.go:153, bridge.go:94,
\* engine.go:346, order_handler.go:73).
THEOREM RowsAlwaysMatch == Spec => []CandlesMatchTape
<1>1. RowsInv => CandlesMatchTape
  BY RowsAnswer, FeedAssumption
<1>2. Init => RowsInv
  BY RowsBegin, FeedAssumption
<1>3. RowsInv /\ [Next]_vars => RowsInv'
  BY FeedKeepsRows, FeedAssumption
<1> QED  BY <1>1, <1>2, <1>3, PTL DEF Spec

\* The tape and the candles of the recorder are exact, and every trade is in one pair
\* of hands, all at once (marketdata.go:106, 132, engine.go:346, server.go:360).
THEOREM TradesAlwaysKept == Spec => []TradesAreKept
<1>1. TapeIsExact /\ SeriesAreExact /\ TradesInOneHand => TradesAreKept
  BY DEF TradesAreKept
<1> QED  BY <1>1, TapeAnswersExactly, CandlesAnswerExactly, NoTradeIsSharedOrRepeated, PTL

-------------------------------------------------------------------------------
(* The types, with the limits of the buffers.                                *)

\* What a sequence is of, it is of all the more.
LEMMA SeqOfMore ==
    ASSUME NEW S, NEW T, S \subseteq T, NEW s \in Seq(S)
    PROVE  s \in Seq(T)
<1>1. PICK n \in Nat : n = Len(s)
  BY LenProperties
<1>2. s \in [1..n -> S]
  BY <1>1, LenProperties
<1>3. s \in [1..n -> T]
  BY <1>2
<1> QED  BY <1>1, <1>3, SeqDef

\* What is pruned is of what it was.
LEMMA PrunedIs ==
    ASSUME NEW S \in SUBSET Int, NEW times \in Seq(S)
    PROVE  Kept(times) \in Seq(S) /\ Moved(times) \in Seq(S)
<1>1. PICK N \in Nat : N = Len(times)
  BY LenProperties
<1>2. times \in Seq(Int) /\ \A n \in 1..N : times[n] \in S
  BY <1>1, SeqOfMore, ElementOfSeq
<1>3. PICK g : /\ g[0] = <<>>
               /\ \A n \in 1..N :
                     g[n] = IF times[n] > now - Day THEN Append(g[n - 1], times[n]) ELSE g[n - 1]
               /\ Kept(times) = g[N]
  BY <1>1, <1>2, KeptRecursion
<1> DEFINE K == {n \in Nat : n <= N => g[n] \in Seq(S)}
<1>4. 0 \in K
  <2>1. <<>> \in Seq(S)
    OBVIOUS
  <2>2. g[0] \in Seq(S)
    BY <1>3, <2>1
  <2> QED  BY <2>2
<1>5. ASSUME NEW n \in K PROVE n + 1 \in K
  <2> SUFFICES ASSUME n + 1 <= N PROVE g[n + 1] \in Seq(S)
    OBVIOUS
  <2>1. n \in Nat /\ n <= N /\ n + 1 \in 1..N /\ (n + 1) - 1 = n
    BY <1>1
  <2>2. g[n] \in Seq(S)
    BY <1>5, <2>1
  <2>3. g[n + 1] = Append(g[n], times[n + 1]) \/ g[n + 1] = g[n]
    BY <1>3, <2>1
  <2>4. times[n + 1] \in S
    BY <1>2, <2>1
  <2>5. Append(g[n], times[n + 1]) \in Seq(S)
    BY <2>2, <2>4, AppendProperties
  <2> QED  BY <2>2, <2>3, <2>5
<1>6. K = Nat
  <2>1. K \in SUBSET Nat
    OBVIOUS
  <2> HIDE DEF K
  <2> QED  BY <1>4, <1>5, <2>1, NatSetInduction
<1>7. PICK k : k = Kept(times)
  OBVIOUS
<1>8. k \in Seq(S)
  BY <1>1, <1>3, <1>6, <1>7
<1>9. PICK rest : rest = SubSeq(times, Len(k) + 1, Len(times))
  OBVIOUS
<1>10. rest \in Seq(S)
  <2>1. Len(k) \in Nat
    BY <1>8, LenProperties
  <2>2. PICK m : m = Len(k) + 1
    OBVIOUS
  <2>3. m \in Int /\ N \in Int /\ \A i \in m..N : times[i] \in S
    BY <1>2, <2>1, <2>2
  <2> QED  BY <1>1, <1>9, <2>2, <2>3, SubSeqProperties
<1>11. k \o rest \in Seq(S)
  BY <1>8, <1>10, ConcatProperties
<1> QED  BY <1>7, <1>8, <1>9, <1>11 DEF Moved

\* The hub: the buffers, and what the messages are.
HubRest ==
    /\ \A c \in Clients : Len(send[c]) <= SendCap
    /\ Len(shouts) <= ShoutsCap /\ shouted \in 0..MaxShouts
    /\ sending.msg \in Nat
    /\ panicked \in Clients \cup {Nobody} /\ races \subseteq (Races \X Clients)

\* A message goes only into a buffer that has room.
LEMMA OfferedFits ==
    ASSUME HubAssumption, MessageTypes, HubRest, NEW to, NEW msg \in Int, Offered(to, msg)
    PROVE  \A c \in Clients : Len(send'[c]) <= SendCap
<1> SUFFICES ASSUME NEW c \in Clients PROVE Len(send'[c]) <= SendCap
  OBVIOUS
<1>1. PICK s : s = send[c]
  OBVIOUS
<1>2. s \in Seq(Int) /\ Len(s) <= SendCap /\ Len(s) \in Nat /\ SendCap \in Nat
  BY <1>1, LenProperties DEF MessageTypes, HubRest, HubAssumption
<1>3. send'[c] = IF c \in to /\ Len(s) # SendCap THEN Append(s, msg) ELSE s
  BY <1>1 DEF Offered, Full
<1>4. Len(Append(s, msg)) = Len(s) + 1
  BY <1>2, AppendProperties
<1> QED  BY <1>2, <1>3, <1>4

\* Every step of the hub keeps to the buffers.
LEMMA HubKeepsRest ==
    ASSUME HubAssumption, MessageTypes, HubRest, HubStep
    PROVE  HubRest'
<1>1. ASSUME NEW c \in Clients, Register(c) \/ Cut(c) \/ Unsubscribe(c) \/ ReadError(c) \/ Finish(c)
      PROVE  HubRest'
  BY <1>1 DEF HubRest, Register, Cut, Unsubscribe, ReadError, Finish
<1>2. ASSUME NEW c \in Clients, StartPumps(c) \/ Subscribe(c) PROVE HubRest'
  <2>1. races' = races \/ races' = races \cup {<<"rejoined", c>>}
    BY <1>2 DEF StartPumps, Subscribe, JoinRoom
  <2>2. UNCHANGED <<send, shouts, shouted, sending, panicked>>
    BY <1>2 DEF StartPumps, Subscribe
  <2> QED  BY <2>1, <2>2 DEF HubRest, Races
<1>3. ASSUME NEW c \in Clients, Shout(c) PROVE HubRest'
  <2>1. /\ Len(shouts) < ShoutsCap /\ shouted < MaxShouts /\ shouted' = shouted + 1
        /\ shouts' = Append(shouts, -shouted') /\ UNCHANGED <<send, sending, panicked, races>>
    BY <1>3 DEF Shout
  <2>2. shouts \in Seq(Int) /\ Len(shouts) \in Nat /\ shouted \in Nat /\ -shouted' \in Int
    BY <2>1, LenProperties DEF MessageTypes
  <2>3. Len(shouts') = Len(shouts) + 1
    BY <2>1, <2>2, AppendProperties
  <2> QED  BY <2>1, <2>2, <2>3 DEF HubRest, HubAssumption
<1>4. ASSUME NEW c \in Clients, Write(c) PROVE HubRest'
  <2>1. races' = races \/ races' = races \cup {<<"cut", c>>}
    BY <1>4 DEF Write
  <2>2. UNCHANGED <<shouts, shouted, sending, panicked>> /\ send' = [send EXCEPT ![c] = <<>>]
    BY <1>4 DEF Write
  <2>3. \A d \in Clients : Len(send'[d]) <= SendCap
    BY <2>2 DEF HubRest, MessageTypes, HubAssumption
  <2> QED  BY <2>1, <2>2, <2>3 DEF HubRest, Races
<1>5. ASSUME NEW c \in Clients, WriteAgain(c) PROVE HubRest'
  BY <1>5 DEF HubRest, WriteAgain
<1>6. ASSUME NEW c \in Clients, Unregister(c) PROVE HubRest'
  <2>1. races' = races \/ races' = races \cup {<<"held", c>>}
    BY <1>6 DEF Unregister
  <2>2. UNCHANGED <<send, shouts, shouted, sending, panicked>>
    BY <1>6 DEF Unregister
  <2> QED  BY <2>1, <2>2 DEF HubRest, Races
<1>7. CASE Broadcast
  <2>1. shouts # <<>> /\ Offered(clients, Head(shouts)) /\ shouts' = Tail(shouts)
        /\ UNCHANGED <<shouted, sending, panicked, races>>
    BY <1>7 DEF Broadcast
  <2>2. Head(shouts) \in Int /\ Len(shouts') = Len(shouts) - 1 /\ Len(shouts) \in Nat
    BY <2>1, HeadTailProperties, LenProperties DEF MessageTypes
  <2>3. \A c \in Clients : Len(send'[c]) <= SendCap
    BY <2>1, <2>2, OfferedFits
  <2> QED  BY <2>1, <2>2, <2>3 DEF HubRest, HubAssumption
<1>8. ASSUME NEW c \in Clients, SendTo(c) PROVE HubRest'
  <2>1. /\ sending' = [sending EXCEPT !.left = @ \ {c}] /\ UNCHANGED <<shouts, shouted, races>>
        /\ \/ panicked' = c /\ send' = send
           \/ Offered({c}, sending.msg) /\ panicked' = panicked
    BY <1>8 DEF SendTo
  <2>2. sending'.msg = sending.msg /\ sending.msg \in Int
    BY <2>1 DEF MessageTypes
  <2>3. \A d \in Clients : Len(send'[d]) <= SendCap
    <3>1. CASE send' = send
      BY <3>1 DEF HubRest
    <3>2. CASE Offered({c}, sending.msg)
      BY <2>2, <3>2, OfferedFits
    <3> QED  BY <2>1, <3>1, <3>2
  <2>4. panicked' \in Clients \cup {Nobody}
    BY <2>1 DEF HubRest
  <2> QED  BY <2>1, <2>2, <2>3, <2>4 DEF HubRest
<1> QED
  BY <1>1, <1>2, <1>3, <1>4, <1>5, <1>6, <1>7, <1>8
  DEF HubStep, ConnectionStep, ReaderStep, WriterStep, RunStep, SenderStep

\* So does the bridge, which gives the hub the numbers of trades.
LEMMA FeedKeepsHubRest ==
    ASSUME HolesInv, HubRest, FeedTypes, [Next]_vars
    PROVE  HubRest'
<1>1. CASE ConnectedStep
  BY <1>1, HubKeepsRest, HubAssumption DEF ConnectedStep, HolesInv
<1>2. CASE Publish
  <2>1. job.id \in Nat
    BY DEF FeedTypes
  <2>2. sending' = [msg |-> job.id, left |-> members]
        /\ UNCHANGED <<send, shouts, shouted, panicked, races>>
    BY <1>2 DEF Publish, CopyMembers
  <2> QED  BY <2>1, <2>2 DEF HubRest
<1>3. CASE UNCHANGED hubVars
  BY <1>3 DEF hubVars, HubRest
<1> QED  BY <1>1, <1>2, <1>3, OthersLeaveHub DEF vars

\* The trade the bridge is busy with is one of those there are.
LEMMA BusyIsTaken ==
    ASSUME Held, JobKept
    PROVE  /\ executed \in Seq(Trades) /\ job.id \in 0..Len(executed)
           /\ job.todo \in 0..(Len(Intervals) + 1)
           /\ job.id # 0 => job.id \in 1..Len(executed)
<1>1. /\ executed \in Seq(Trades) /\ Len(executed) \in Nat
      /\ delivered \in Seq(1..Len(executed)) /\ job \in [id : Nat, todo : Nat]
  BY NumbersAreRight
<1>2. CASE job.id = 0
  BY <1>1, <1>2, FeedAssumption, LenProperties DEF JobKept, FeedAssumption
<1>3. CASE job.id # 0
  <2>1. delivered # <<>> /\ Last(delivered) = job.id /\ job.todo \in 1..(Len(Intervals) + 1)
    BY <1>3 DEF JobKept
  <2>2. Last(delivered) \in 1..Len(executed)
    BY <1>1, <2>1, FrontAndLast
  <2>3. Len(Intervals) \in Nat
    BY FeedAssumption, LenProperties DEF FeedAssumption
  <2> QED  BY <1>1, <2>1, <2>2, <2>3
<1> QED  BY <1>2, <1>3

\* The engine: who holds what, and within which limits.
FeedRest ==
    /\ workload \in Workloads /\ trouble \in 0..workload.trouble
    /\ phase \in [Requests -> {"none", "new", "checked", "admitted", "done"}]
    /\ config \in [trading : BOOLEAN, reference : Nat]
    /\ stamps \in [Users -> Seq(0..now)] /\ Len(channel) <= TradesCap

\* A send goes only where there is room.
LEMMA EmittedFits ==
    ASSUME FeedAssumption, FeedTypes, NEW id \in Nat, Len(channel) <= TradesCap, Emit(id)
    PROVE  Len(channel') <= TradesCap
<1>1. channel \in Seq(Nat) /\ Len(channel) \in Nat /\ TradesCap \in Nat
  BY LenProperties DEF FeedTypes, FeedAssumption
<1>2. Len(Append(channel, id)) = Len(channel) + 1
  BY <1>1, AppendProperties
<1>3. \/ channel' = channel
      \/ Len(channel) < TradesCap /\ channel' = Append(channel, id)
  BY DEF Emit
<1> QED  BY <1>1, <1>2, <1>3

\* What is behind in the channel is no longer than it.
LEMMA TakenFits ==
    ASSUME FeedAssumption, FeedTypes, Len(channel) <= TradesCap, channel # <<>>,
           channel' = Tail(channel)
    PROVE  Len(channel') <= TradesCap
<1>1. channel \in Seq(Nat) /\ Len(channel) \in Nat /\ TradesCap \in Nat
  BY LenProperties DEF FeedTypes, FeedAssumption
<1>2. Len(Tail(channel)) = Len(channel) - 1
  BY <1>1, HeadTailProperties
<1> QED  BY <1>1, <1>2

\* An act of administrators, a failure or a crash uses up some of the trouble.
LEMMA TroubleIsBounded ==
    ASSUME FeedAssumption, workload \in Workloads, trouble \in 0..workload.trouble,
           UNCHANGED workload, Trouble \/ UNCHANGED trouble
    PROVE  workload' \in Workloads /\ trouble' \in 0..workload'.trouble
<1>1. workload.trouble \in Nat
  BY DEF FeedAssumption
<1> QED  BY <1>1 DEF Trouble

\* The risk engine keeps the times of orders.
LEMMA AdmitKeepsRest ==
    ASSUME FeedAssumption, FeedTypes, FeedRest, NEW r \in Requests, Admit(r)
    PROVE  FeedRest'
<1>1. /\ phase' = [phase EXCEPT ![r] = phase'[r]] /\ phase'[r] \in {"admitted", "done"}
      /\ UNCHANGED <<workload, trouble, config, channel, now>>
  BY DEF Admit, FeedRest
<1>2. PICK u \in Users : u = Request[r].user
  BY DEF FeedAssumption
<1>3. PICK times \in Seq(0..now) : times = stamps[u]
  BY DEF FeedRest
<1>4. stamps' = [stamps EXCEPT ![u] = times]
      \/ stamps' = [stamps EXCEPT ![u] = Append(Kept(times), now)]
      \/ stamps' = [stamps EXCEPT ![u] = Moved(times)]
  BY <1>2, <1>3 DEF Admit
<1>5. now \in 0..now /\ 0..now \in SUBSET Int
  BY DEF FeedTypes
<1>6. Kept(times) \in Seq(0..now) /\ Moved(times) \in Seq(0..now)
  BY <1>5, PrunedIs
<1>7. PICK k \in Seq(0..now) : k = Kept(times)
  BY <1>6
<1>8. Append(k, now) \in Seq(0..now)
  BY <1>5, AppendProperties
<1>9. PICK new \in Seq(0..now) : stamps' = [stamps EXCEPT ![u] = new]
  BY <1>3, <1>4, <1>6, <1>7, <1>8
<1>10. stamps' \in [Users -> Seq(0..now)]
  BY <1>9 DEF FeedRest
<1>11. phase' \in [Requests -> {"none", "new", "checked", "admitted", "done"}]
  BY <1>1 DEF FeedRest
<1> QED  BY <1>1, <1>10, <1>11 DEF FeedRest

\* The bridge sets the reference price to that of a trade.
LEMMA PublishKeepsRest ==
    ASSUME RowsInv, FeedRest, Publish
    PROVE  FeedRest'
<1>1. job.id # 0 /\ config' = [config EXCEPT !.reference = executed[job.id].price]
      /\ UNCHANGED <<workload, trouble, phase, stamps, channel, now>>
  BY DEF Publish, UpdateReferencePrice
<1>2. job.id \in 1..Len(executed) /\ executed \in Seq(Trades)
  BY <1>1, BusyIsTaken DEF RowsInv
<1>3. executed[job.id] \in Trades
  BY <1>2, ElementOfSeq
<1>4. executed[job.id].price \in Nat
  BY <1>3 DEF Trades
<1>5. config' \in [trading : BOOLEAN, reference : Nat]
  BY <1>1, <1>4 DEF FeedRest
<1> QED  BY <1>1, <1>5 DEF FeedRest

\* A crash empties what is in memory.
LEMMA CrashKeepsRest ==
    ASSUME FeedAssumption, FeedTypes, FeedRest, Crash
    PROVE  FeedRest'
<1>1. /\ workload' = workload /\ now' = now /\ Trouble
      /\ phase' = [r \in Requests |-> IF phase[r] = "checked" THEN "done" ELSE phase[r]]
      /\ config' = Configured /\ stamps' = [u \in Users |-> <<>>]
  BY DEF Crash
<1>2. workload' \in Workloads /\ trouble' \in 0..workload'.trouble
  BY <1>1, TroubleIsBounded DEF FeedRest
<1>3. phase' \in [Requests -> {"none", "new", "checked", "admitted", "done"}]
  BY <1>1 DEF FeedRest
<1>4. stamps' \in [Users -> Seq(0..now')] /\ config' \in [trading : BOOLEAN, reference : Nat]
  BY <1>1 DEF Configured
<1>5. PICK n \in Nat : n = Len(executed) + 1
  BY LenProperties DEF FeedTypes
<1>6. Len(channel') <= TradesCap
  <2>1. CASE channel' = <<>>
    BY <2>1 DEF FeedAssumption
  <2>2. CASE channel' = <<n>>
    BY <2>2 DEF FeedAssumption
  <2> QED  BY <1>5, <2>1, <2>2, CrashReplays
<1> QED  BY <1>2, <1>3, <1>4, <1>6 DEF FeedRest

\* Every step keeps the engine within its limits.
LEMMA FeedKeepsRest ==
    ASSUME FeedAssumption, RowsInv, FeedRest, [Next]_vars
    PROVE  FeedRest'
<1>1. FeedTypes
  BY DEF RowsInv, Held, HandsInv
<1>2. now \in Nat /\ Len(channel) <= TradesCap /\ workload \in Workloads
      /\ trouble \in 0..workload.trouble
  BY <1>1 DEF FeedTypes, FeedRest
<1>3. ASSUME NEW r \in Requests, Check(r) PROVE FeedRest'
  <2>1. /\ phase' = [phase EXCEPT ![r] = phase'[r]] /\ phase'[r] \in {"checked", "done"}
        /\ UNCHANGED <<workload, trouble, config, stamps, channel, now>>
    BY <1>3 DEF Check, FeedRest
  <2>2. phase' \in [Requests -> {"none", "new", "checked", "admitted", "done"}]
    BY <2>1 DEF FeedRest
  <2> QED  BY <2>1, <2>2 DEF FeedRest
<1>4. ASSUME NEW r \in Requests, Admit(r) PROVE FeedRest'
  BY <1>1, <1>4, AdmitKeepsRest
<1>5. ASSUME NEW r \in Requests, Fill(r) PROVE FeedRest'
  <2>1. /\ phase' = [phase EXCEPT ![r] = "done"] /\ Emit(Len(executed) + 1)
        /\ UNCHANGED <<workload, trouble, config, stamps, now>>
    BY <1>5 DEF Fill
  <2>2. Len(executed) + 1 \in Nat
    BY <1>1, LenProperties DEF FeedTypes
  <2>3. Len(channel') <= TradesCap
    BY <1>1, <1>2, <2>1, <2>2, EmittedFits
  <2> QED  BY <2>1, <2>3 DEF FeedRest
<1>6. ASSUME NEW id \in spilled, SpillSends(id) PROVE FeedRest'
  <2>1. Len(channel) < TradesCap /\ channel' = Append(channel, id)
        /\ UNCHANGED <<workload, trouble, phase, config, stamps, now>>
    BY <1>6 DEF SpillSends, requestVars
  <2>2. id \in Nat /\ channel \in Seq(Nat) /\ Len(channel) \in Nat
    BY <1>1, <1>6, LenProperties DEF FeedTypes
  <2>3. Len(channel') = Len(channel) + 1
    BY <2>1, <2>2, AppendProperties
  <2> QED  BY <2>1, <2>2, <2>3 DEF FeedRest, FeedAssumption
<1>7. ASSUME NEW id \in spilled, SpillGivesUp(id) PROVE FeedRest'
  <2>1. Trouble /\ UNCHANGED <<workload, phase, config, stamps, channel, now>>
    BY <1>7 DEF SpillGivesUp, requestVars
  <2>2. workload' \in Workloads /\ trouble' \in 0..workload'.trouble
    BY <1>2, <2>1, TroubleIsBounded
  <2> QED  BY <2>1, <2>2 DEF FeedRest
<1>8. CASE Take
  <2>1. channel # <<>> /\ channel' = Tail(channel)
        /\ UNCHANGED <<workload, trouble, phase, config, stamps, now>>
    BY <1>8 DEF Take, requestVars
  <2>2. Len(channel') <= TradesCap
    BY <1>1, <1>2, <2>1, TakenFits
  <2> QED  BY <2>1, <2>2 DEF FeedRest
<1>9. CASE RecordCandle
  <2>1. (Trouble \/ UNCHANGED trouble) /\ UNCHANGED <<workload, phase, config, stamps, channel, now>>
    BY <1>9 DEF RecordCandle, requestVars
  <2>2. workload' \in Workloads /\ trouble' \in 0..workload'.trouble
    BY <1>2, <2>1, TroubleIsBounded
  <2> QED  BY <2>1, <2>2 DEF FeedRest
<1>10. CASE Publish
  BY <1>10, PublishKeepsRest
<1>11. ASSUME NEW s \in Streams, StreamTrade(s) PROVE FeedRest'
  <2>1. channel # <<>> /\ channel' = Tail(channel) /\ (Trouble \/ UNCHANGED trouble)
        /\ UNCHANGED <<workload, phase, config, stamps, now>>
    BY <1>11 DEF StreamTrade, requestVars
  <2>2. Len(channel') <= TradesCap
    BY <1>1, <1>2, <2>1, TakenFits
  <2>3. workload' \in Workloads /\ trouble' \in 0..workload'.trouble
    BY <1>2, <2>1, TroubleIsBounded
  <2> QED  BY <2>1, <2>2, <2>3 DEF FeedRest
<1>12. CASE AdminStep
  <2>1. Trouble /\ UNCHANGED <<workload, phase, stamps, channel, now>>
    BY <1>12 DEF AdminStep, SetTradingEnabled, UpdatePairRisk, UpdateUserRisk
  <2>2. workload' \in Workloads /\ trouble' \in 0..workload'.trouble
    BY <1>2, <2>1, TroubleIsBounded
  <2>3. config' \in [trading : BOOLEAN, reference : Nat]
    <3>1. CASE SetTradingEnabled
      BY <3>1 DEF SetTradingEnabled, FeedRest
    <3>2. CASE UpdatePairRisk
      BY <3>2 DEF UpdatePairRisk, FeedRest, FeedAssumption
    <3>3. CASE UpdateUserRisk
      BY <3>3 DEF UpdateUserRisk, FeedRest
    <3> QED  BY <1>12, <3>1, <3>2, <3>3 DEF AdminStep
  <2> QED  BY <2>1, <2>2, <2>3 DEF FeedRest
<1>13. CASE Tick
  <2>1. now' = now + 1 /\ UNCHANGED <<workload, trouble, phase, config, stamps, channel>>
    BY <1>13 DEF Tick, requestVars
  <2>2. 0..now \subseteq 0..now'
    BY <1>2, <2>1
  <2>3. \A s \in Seq(0..now) : s \in Seq(0..now')
    BY <2>2, SeqOfMore
  <2>4. stamps' \in [Users -> Seq(0..now')]
    BY <2>1, <2>3 DEF FeedRest
  <2> QED  BY <2>1, <2>4 DEF FeedRest
<1>14. CASE Crash
  BY <1>1, <1>14, CrashKeepsRest
<1>15. CASE ConnectedStep
  BY <1>15 DEF ConnectedStep, FeedUnchanged, requestVars, FeedRest
<1>16. CASE UNCHANGED vars
  BY <1>16 DEF vars, requestVars, FeedRest
<1> QED
  BY <1>3, <1>4, <1>5, <1>6, <1>7, <1>8, <1>9, <1>10, <1>11, <1>12, <1>13, <1>14, <1>15, <1>16
  DEF Next, OrderStep, SpillStep, BridgeStep, StreamStep

TypeInv == HolesInv /\ RowsInv /\ HubRest /\ FeedRest

\* At first everything is empty.
LEMMA TypesBegin == ASSUME Init PROVE TypeInv
<1>1. HolesInv /\ RowsInv
  BY HolesBegin, RowsBegin, FeedAssumption
<1>2. HubRest
  <2>1. /\ send = [c \in Clients |-> <<>>] /\ shouts = <<>> /\ shouted = 0 /\ sending.msg \in Nat
        /\ panicked = Nobody /\ races = {}
    BY DEF Init, HubInit, Quiet
  <2>2. SendCap \in Nat /\ ShoutsCap \in Nat /\ MaxShouts \in Nat
    BY HubAssumption DEF HubAssumption
  <2> QED  BY <2>1, <2>2 DEF HubRest
<1>3. FeedRest
  <2>1. /\ workload \in Workloads /\ trouble = 0 /\ now = 0 /\ config = Configured
        /\ phase = [r \in Requests |-> IF r \in workload.requests THEN workload.from ELSE "none"]
        /\ stamps = [u \in Users |-> <<>>] /\ channel = <<>>
    BY DEF Init
  <2>2. workload.trouble \in Nat /\ workload.from \in {"new", "admitted"} /\ TradesCap \in Nat
    BY <2>1, FeedAssumption DEF FeedAssumption
  <2>3. phase \in [Requests -> {"none", "new", "checked", "admitted", "done"}]
    BY <2>1, <2>2
  <2>4. stamps \in [Users -> Seq(0..now)] /\ Len(channel) <= TradesCap
    BY <2>1, <2>2
  <2> QED  BY <2>1, <2>2, <2>3, <2>4 DEF FeedRest, Configured
<1> QED  BY <1>1, <1>2, <1>3 DEF TypeInv

\* The invariant has every variable of its type.
LEMMA TypesAreRight == ASSUME TypeInv PROVE TypeOK
<1>1. HolesInv /\ RowsInv /\ HubRest /\ FeedRest
  BY DEF TypeInv
<1>2. HubTypeOK
  <2>1. ConnectionTypes /\ Registered /\ MessageTypes /\ HubRest
    BY <1>1 DEF HolesInv, RacesInv
  <2>2. \A c \in Clients : send[c] \in Seq(Int) /\ Len(send[c]) <= SendCap
    BY <2>1 DEF MessageTypes, HubRest
  <2> QED
    BY <2>1, <2>2 DEF HubTypeOK, ConnectionTypes, Registered, MessageTypes, HubRest
<1>3. FeedTypes /\ ExecutedInTime /\ TapeKept /\ \A i \in Ordinals : SeriesKept(series[i], OfProcess, i)
  BY <1>1 DEF RowsInv, Held, RecorderInv
<1>4. now \in Nat /\ boot \in 0..Len(executed) /\ Len(tape) <= MaxTape
  BY <1>3 DEF FeedTypes, ExecutedInTime, TapeKept
<1>5. \A k \in DOMAIN executed : executed[k].id = k /\ executed[k].at <= now
  <2>1. DOMAIN executed = 1..Len(executed)
    BY <1>3, LenProperties DEF FeedTypes
  <2> QED  BY <1>3, <2>1 DEF ExecutedInTime
<1>6. ASSUME NEW i \in Ordinals
      PROVE  /\ Len(series[i]) <= MaxCandles
             /\ \A row \in stored[i] : row.ts % Intervals[i] = 0 /\ row.low <= row.high
  <2>1. Len(series[i]) <= MaxCandles
    BY <1>3 DEF SeriesKept
  <2>2. stored[i] \in SUBSET RowsOf(i)
    BY <1>1 DEF RowsInv, BridgeTypes
  <2> QED  BY <2>1, <2>2 DEF RowsOf
<1>7. job.id \in 0..Len(executed) /\ job.todo \in 0..(Len(Intervals) + 1)
  BY <1>1, BusyIsTaken DEF RowsInv
<1>8. \A u \in Users : \A k \in DOMAIN stamps[u] : stamps[u][k] \in 0..now
  <2> SUFFICES ASSUME NEW u \in Users, NEW k \in DOMAIN stamps[u] PROVE stamps[u][k] \in 0..now
    OBVIOUS
  <2>1. PICK times \in Seq(0..now) : times = stamps[u]
    BY <1>1 DEF FeedRest
  <2>2. k \in 1..Len(times)
    BY <2>1, LenProperties
  <2>3. times[k] \in 0..now
    BY <2>2, ElementOfSeq
  <2> QED  BY <2>1, <2>3
<1>9. /\ trouble \in 0..workload.trouble /\ Len(channel) <= TradesCap
      /\ phase \in [Requests -> {"none", "new", "checked", "admitted", "done"}]
      /\ config.trading \in BOOLEAN /\ config.reference \in Nat
  BY <1>1 DEF FeedRest
<1> QED  BY <1>2, <1>4, <1>5, <1>6, <1>7, <1>8, <1>9 DEF TypeOK

\* Every variable keeps its type, and every buffer, window and counter its limit: the
\* structs of risk.go, marketdata.go and hub.go.
THEOREM FeedIsTyped == Spec => []TypeOK
<1>1. Init => TypeInv
  BY TypesBegin
<1>2. TypeInv /\ [Next]_vars => TypeInv'
  <2> SUFFICES ASSUME TypeInv, [Next]_vars PROVE TypeInv'
    OBVIOUS
  <2>1. HolesInv /\ RowsInv /\ HubRest /\ FeedRest /\ FeedTypes
    BY DEF TypeInv, RowsInv, Held, HandsInv
  <2>2. HolesInv'
    BY <2>1, FeedKeepsOrder
  <2>3. RowsInv'
    BY <2>1, FeedKeepsRows, FeedAssumption
  <2>4. HubRest'
    BY <2>1, FeedKeepsHubRest
  <2>5. FeedRest'
    BY <2>1, FeedKeepsRest, FeedAssumption
  <2> QED  BY <2>2, <2>3, <2>4, <2>5 DEF TypeInv
<1>3. TypeInv => TypeOK
  BY TypesAreRight
<1> QED  BY <1>1, <1>2, <1>3, PTL DEF Spec

=============================================================================
