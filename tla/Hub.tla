---------------------------------- MODULE Hub ----------------------------------
(***************************************************************************)
(* The WebSocket hub of the gateway (pkg/websocket) and the handler that     *)
(* admits connections (internal/api/ws_handler.go), with one room.           *)
(*                                                                         *)
(* Each connection has a reader and a writer goroutine; Run alone registers,  *)
(* unregisters and closes a client's Send; whoever broadcasts copies the     *)
(* members of the room under the lock and sends to them after it has let go.  *)
(* A client whose buffer is full is unregistered by a goroutine of its own.   *)
(* A panic in any goroutine is the end of the process.                      *)
(***************************************************************************)
EXTENDS Integers, Sequences, FiniteSets

CONSTANTS
    Clients,
    SignedIn,   \* those that come with a token, and are put into the room at once
    SendCap,    \* the buffer of Send, 256 in the code
    ShoutsCap,  \* the buffer of hub.broadcast, 256 in the code
    MaxShouts   \* bound: what clients send to everybody

ASSUME HubAssumption ==
    /\ SignedIn \subseteq Clients
    /\ SendCap \in Nat \ {0} /\ ShoutsCap \in Nat \ {0} /\ MaxShouts \in Nat

VARIABLES
    conn,       \* the connection: "absent", "open", "cut" by the peer, "closed" here
    clients,    \* h.clients
    members,    \* h.rooms[room]
    send,       \* the buffer of each Send
    closed,     \* the clients whose Send is closed
    leaving,    \* how many calls of Unregister wait for Run, of each client
    reader,     \* "none", "joining", "reading", "done"
    writer,     \* "none", "writing", "failed" when a write has failed, "done"
    shouts,     \* h.broadcast
    sending,    \* the broadcast to the room: the message, and who is left of the copy
    panicked,   \* the client at which the process has died
    due, got,   \* history: what was meant for each client, and what it was written
    shouted,    \* history: how many messages clients have sent to everybody
    races       \* history: the clients something has gone wrong with

hubVars == <<conn, clients, members, send, closed, leaving, reader, writer, shouts,
             sending, panicked, due, got, shouted, races>>

Nobody == "nobody"
Alive == panicked = Nobody

Races == {"held", "rejoined", "cut"}
Quiet == [msg |-> 0, left |-> {}]

HubTypeOK ==
    /\ conn \in [Clients -> {"absent", "open", "cut", "closed"}]
    /\ clients \subseteq Clients /\ members \subseteq Clients /\ closed \subseteq Clients
    /\ clients \cap closed = {}
    /\ \A c \in Clients : send[c] \in Seq(Int) /\ Len(send[c]) <= SendCap
    /\ leaving \in [Clients -> Nat]
    /\ reader \in [Clients -> {"none", "joining", "reading", "done"}]
    /\ writer \in [Clients -> {"none", "writing", "failed", "done"}]
    /\ Len(shouts) <= ShoutsCap /\ shouted \in 0..MaxShouts
    /\ sending.msg \in Nat /\ sending.left \subseteq Clients
    /\ panicked \in Clients \cup {Nobody} /\ races \subseteq (Races \X Clients)

HubInit ==
    /\ conn = [c \in Clients |-> "absent"]
    /\ clients = {} /\ members = {} /\ closed = {} /\ shouts = <<>> /\ sending = Quiet
    /\ send = [c \in Clients |-> <<>>] /\ due = send /\ got = send
    /\ leaving = [c \in Clients |-> 0]
    /\ reader = [c \in Clients |-> "none"] /\ writer = reader
    /\ panicked = Nobody /\ shouted = 0 /\ races = {}

-------------------------------------------------------------------------------
(* A connection: HandleWebSocket registers it, puts a user that is known into  *)
(* its room, and starts the two pumps.                                      *)

Register(c) ==
    /\ conn[c] = "absent"
    /\ conn' = [conn EXCEPT ![c] = "open"]
    /\ clients' = clients \cup {c}
    /\ reader' = [reader EXCEPT ![c] = "joining"]
    /\ UNCHANGED <<members, send, closed, leaving, writer, shouts, sending, panicked,
                   due, got, shouted, races>>

\* Nothing asks whether the client is registered, or still is.
JoinRoom(c) ==
    /\ members' = members \cup {c}
    /\ races' = IF c \in closed THEN races \cup {<<"rejoined", c>>} ELSE races

StartPumps(c) ==
    /\ reader[c] = "joining"
    /\ IF c \in SignedIn THEN JoinRoom(c) ELSE UNCHANGED <<members, races>>
    /\ reader' = [reader EXCEPT ![c] = "reading"]
    /\ writer' = [writer EXCEPT ![c] = "writing"]
    /\ UNCHANGED <<conn, clients, send, closed, leaving, shouts, sending, panicked, due,
                   got, shouted>>

\* The peer is gone; what it had sent can still be read.
Cut(c) ==
    /\ conn[c] = "open"
    /\ conn' = [conn EXCEPT ![c] = "cut"]
    /\ UNCHANGED <<clients, members, send, closed, leaving, reader, writer, shouts,
                   sending, panicked, due, got, shouted, races>>

-------------------------------------------------------------------------------
(* ReadPump.                                                                *)

Subscribe(c) ==
    /\ reader[c] = "reading"
    /\ JoinRoom(c)
    /\ UNCHANGED <<conn, clients, send, closed, leaving, reader, writer, shouts, sending,
                   panicked, due, got, shouted>>

Unsubscribe(c) ==
    /\ reader[c] = "reading" /\ c \in members
    /\ members' = members \ {c}
    /\ UNCHANGED <<conn, clients, send, closed, leaving, reader, writer, shouts, sending,
                   panicked, due, got, shouted, races>>

\* Any other message goes to everybody as it came.
Shout(c) ==
    /\ reader[c] = "reading" /\ Len(shouts) < ShoutsCap /\ shouted < MaxShouts
    /\ shouted' = shouted + 1
    /\ shouts' = Append(shouts, -shouted')
    /\ UNCHANGED <<conn, clients, members, send, closed, leaving, reader, writer, sending,
                   panicked, due, got, races>>

ReadError(c) ==
    /\ reader[c] = "reading" /\ conn[c] # "open"
    /\ reader' = [reader EXCEPT ![c] = "done"]
    /\ leaving' = [leaving EXCEPT ![c] = @ + 1]
    /\ conn' = [conn EXCEPT ![c] = "closed"]
    /\ UNCHANGED <<clients, members, send, closed, writer, shouts, sending, panicked, due,
                   got, shouted, races>>

-------------------------------------------------------------------------------
(* WritePump: a message, and all that wait behind it.  It ignores the error    *)
(* of a write; the writer it asks for after that is nil.                     *)

Write(c) ==
    /\ writer[c] = "writing" /\ send[c] # <<>>
    /\ send' = [send EXCEPT ![c] = <<>>]
    /\ \/ /\ conn[c] = "open"
          /\ got' = [got EXCEPT ![c] = @ \o send[c]]
          /\ UNCHANGED <<writer, races>>
       \/ /\ conn[c] = "cut" /\ UNCHANGED <<writer, got, races>>
       \/ /\ conn[c] # "open"
          /\ writer' = [writer EXCEPT ![c] = "failed"]
          /\ races' = races \cup {<<"cut", c>>}
          /\ UNCHANGED got
    /\ UNCHANGED <<conn, clients, members, closed, leaving, reader, shouts, sending,
                   panicked, due, shouted>>

WriteAgain(c) ==
    /\ writer[c] = "failed" /\ send[c] # <<>>
    /\ panicked' = c
    /\ UNCHANGED <<conn, clients, members, send, closed, leaving, reader, writer, shouts,
                   sending, due, got, shouted, races>>

\* Send is closed and drained, or a ping has failed.
Finish(c) ==
    /\ writer[c] \in {"writing", "failed"}
    /\ (c \in closed /\ send[c] = <<>>) \/ conn[c] # "open"
    /\ writer' = [writer EXCEPT ![c] = "done"]
    /\ conn' = [conn EXCEPT ![c] = "closed"]
    /\ UNCHANGED <<clients, members, send, closed, leaving, reader, shouts, sending,
                   panicked, due, got, shouted, races>>

-------------------------------------------------------------------------------
(* Run.                                                                     *)

StillListed(c) == members

Forgotten(c) == members \ {c}

Unregister(c) ==
    /\ leaving[c] > 0
    /\ leaving' = [leaving EXCEPT ![c] = @ - 1]
    /\ IF c \in clients
       THEN /\ clients' = clients \ {c}
            /\ members' = Forgotten(c)
            /\ closed' = closed \cup {c}
            /\ races' = IF c \in sending.left THEN races \cup {<<"held", c>>} ELSE races
       ELSE UNCHANGED <<clients, members, closed, races>>
    /\ UNCHANGED <<conn, send, reader, writer, shouts, sending, panicked, due, got, shouted>>

\* A send that does not wait: who is full is unregistered.
Full(c) == Len(send[c]) = SendCap

\* BroadcastToUser, which nobody calls, does this instead.
OfferedOrDropped(to, msg) ==
    /\ send' = [c \in Clients |->
           IF c \in to /\ ~Full(c) THEN Append(send[c], msg) ELSE send[c]]
    /\ leaving' = leaving
    /\ due' = [c \in Clients |-> IF c \in to THEN Append(due[c], msg) ELSE due[c]]

Offered(to, msg) ==
    /\ send' = [c \in Clients |->
           IF c \in to /\ ~Full(c) THEN Append(send[c], msg) ELSE send[c]]
    /\ leaving' = [c \in Clients |->
           leaving[c] + (IF c \in to /\ Full(c) THEN 1 ELSE 0)]
    /\ due' = [c \in Clients |-> IF c \in to THEN Append(due[c], msg) ELSE due[c]]

Broadcast ==
    /\ shouts # <<>>
    /\ Offered(clients, Head(shouts))
    /\ shouts' = Tail(shouts)
    /\ UNCHANGED <<conn, clients, members, closed, reader, writer, sending, panicked, got,
                   shouted, races>>

-------------------------------------------------------------------------------
(* BroadcastToRoom: the copy of the members, and then one send after another.  *)

CopyMembers(msg) == sending' = [msg |-> msg, left |-> members]

SendTo(c) ==
    /\ c \in sending.left
    /\ sending' = [sending EXCEPT !.left = @ \ {c}]
    /\ IF c \in closed
       THEN panicked' = c /\ UNCHANGED <<send, leaving, due>>
       ELSE Offered({c}, sending.msg) /\ UNCHANGED panicked
    /\ UNCHANGED <<conn, clients, members, closed, reader, writer, shouts, got, shouted,
                   races>>

ConnectionStep == \E c \in Clients : Register(c) \/ StartPumps(c) \/ Cut(c)
ReaderStep == \E c \in Clients :
    Subscribe(c) \/ Unsubscribe(c) \/ Shout(c) \/ ReadError(c)
WriterStep == \E c \in Clients : Write(c) \/ WriteAgain(c) \/ Finish(c)
RunStep == (\E c \in Clients : Unregister(c)) \/ Broadcast
SenderStep == \E c \in Clients : SendTo(c)

HubStep == Alive /\ (ConnectionStep \/ ReaderStep \/ WriterStep \/ RunStep \/ SenderStep)

-------------------------------------------------------------------------------

\* A connection that is open and on which nobody has given up is written every
\* message that was meant for it, in order, with none left out: the buffer, the
\* two broadcasters and the goroutines that unregister (hub.go:37, hub.go:69)
\* never make a hole in the stream of a client that stays.
NothingSkipped == \A c \in Clients :
    conn[c] = "open" /\ c \notin closed /\ leaving[c] = 0 => got[c] \o send[c] = due[c]

\* The process dies at a client only when one of three races has happened to it:
\* it was unregistered while a broadcast held it, it joined the room after it was
\* unregistered, or a write to it had failed (hub.go:69, hub.go:50, client.go:82).
PanicsAreRaces ==
    ~Alive => \E race \in Races : <<race, panicked>> \in races

===============================================================================
