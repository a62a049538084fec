------------------------------ MODULE MCFutures ------------------------------
(***************************************************************************)
(* One pair whose price moves between 8, 10 and 12, or fails, and two users  *)
(* of whom one makes requests.                                               *)
(***************************************************************************)
EXTENDS Futures

User == "u"
Pair == "p"

Want(side, lev, qty, limit, stop, tp, sl) ==
    [user |-> User, pair |-> Pair, side |-> side, lev |-> lev, mode |-> "isolated", qty |-> qty,
     price |-> limit, stop |-> stop, tp |-> tp, sl |-> sl]

MCUsers == {User, "v"}
MCPairs == {Pair}
MCPositions == 1..3
MCOrders == {"limit", "stop", "market"}
MCTicket ==
    [limit  |-> [type |-> "limit", terms |-> Want("long", 2, 1, 10, 0, 12, 0)],
     stop   |-> [type |-> "limit", terms |-> Want("short", 2, 1, 0, 8, 0, 12)],
     market |-> [type |-> "market", terms |-> Want("short", 2, 1, 0, 0, 0, 0)]]
MCRequests == {"open", "bad", "limit", "stop", "market", "cancel", "close", "partial", "add", "reduce", "liquidate"}
MCAsk ==
    [open      |-> [kind |-> "open", terms |-> Want("long", 5, 2, 10, 0, 12, 0)],
     bad       |-> [kind |-> "open", terms |-> Want("long", 126, 1, 0, 0, 0, 0)],
     limit     |-> [kind |-> "order", order |-> "limit"],
     stop      |-> [kind |-> "order", order |-> "stop"],
     market    |-> [kind |-> "order", order |-> "market"],
     cancel    |-> [kind |-> "cancel", order |-> "limit"],
     close     |-> [kind |-> "close", user |-> User, amount |-> 0],
     partial   |-> [kind |-> "partial", user |-> User, amount |-> 1],
     add       |-> [kind |-> "add", user |-> User, amount |-> 2],
     reduce    |-> [kind |-> "reduce", user |-> User, amount |-> 2],
     liquidate |-> [kind |-> "liquidate", user |-> User, amount |-> 0]]
MCLoops == {"loop1", "loop2"}
MCHourly == {"hourly1"}
MCPrices == {0, 8, 10, 12}
MCOpening == [u \in MCUsers |-> 10]
MCFundingRate == [p \in MCPairs |-> 1]

NoRow == [status |-> "none", user |-> User, pair |-> Pair, side |-> "long", mode |-> "isolated",
          entry |-> 0, qty |-> 0, margin |-> 0, tp |-> 0, sl |-> 0]
Held(mode, qty, margin) ==
    [p \in MCPositions |->
        IF p = 1 THEN [NoRow EXCEPT !.status = "open", !.mode = mode, !.entry = 10, !.qty = qty, !.margin = margin]
        ELSE NoRow]

Beside(rows) == [rows EXCEPT ![2] = [rows[1] EXCEPT !.user = "v", !.side = "short", !.sl = 12]]
Empty == [p \in MCPositions |-> NoRow]

Workload(asks, rows, m, n) ==
    [asks |-> asks, loops |-> {"loop1"}, rows |-> rows, prices |-> {10}, moves |-> m, runs |-> n]
OnTwoGateways(w) == [w EXCEPT !.loops = MCLoops]

MCWorkloads ==
    {Workload({"limit", "cancel"}, Empty, 2, 0),
     Workload({"open", "stop"}, Empty, 1, 0),
     OnTwoGateways(Workload({"limit", "cancel"}, Empty, 0, 0)),
     Workload({"limit", "add"}, Held("isolated", 2, 6), 1, 0),
     Workload({"close", "partial", "bad"}, Held("isolated", 2, 4), 1, 0),
     Workload({"liquidate", "add"}, Held("isolated", 2, 4), 1, 0),
     Workload({"reduce", "market"}, Held("cross", 1, 5), 1, 0),
     Workload({"open"}, Beside(Held("isolated", 1, 2)), 1, 0),
     Workload({"close"}, Held("isolated", 1, 2), 1, 1)}

===============================================================================
