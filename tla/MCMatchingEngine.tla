--------------------------- MODULE MCMatchingEngine ---------------------------
(* Instances of MatchingEngine for TLC: the tickets of the runs.            *)
EXTENDS MatchingEngine, TLC

NewTicket(user, side, type, price, qty) ==
    [user |-> user, side |-> side, type |-> type, price |-> price, qty |-> qty,
     stopPrice |-> 0, iceberg |-> 0, tif |-> "GTC", stp |-> "Disabled", createdAt |-> 0]

\* Stamps follow the position in the list; the runs submit in any order.
Stamped(tickets) == [i \in DOMAIN tickets |-> [tickets[i] EXCEPT !.createdAt = i]]

MixedTickets == Stamped(<<
    [NewTicket("ann", "Sell", "Limit", 2, 2) EXCEPT !.stp = "CancelTaker"],
    NewTicket("ann", "Buy", "Limit", 2, 2),
    [NewTicket("bob", "Buy", "ImmediateOrCancel", 0, 2) EXCEPT !.stp = "CancelBoth"],
    [NewTicket("bob", "Buy", "Market", 0, 1) EXCEPT !.stp = "CancelMaker"],
    [NewTicket("bob", "Sell", "StopLoss", 0, 1) EXCEPT !.stopPrice = 2],
    [NewTicket("ann", "Buy", "StopLimit", 1, 1) EXCEPT !.stopPrice = 2],
    [NewTicket("ann", "Buy", "Iceberg", 2, 2) EXCEPT !.iceberg = 1],
    NewTicket("bob", "Sell", "PostOnly", 2, 1),
    NewTicket("ann", "Buy", "FillOrKill", 2, 2),
    NewTicket("ann", "Buy", "Limit", 2, 0) >>)

MixedOrders == DOMAIN MixedTickets

FokTickets == Stamped(<<
    NewTicket("bob", "Sell", "Limit", 1, 1),
    NewTicket("bob", "Sell", "Limit", 2, 1),
    [NewTicket("ann", "Buy", "FillOrKill", 2, 2) EXCEPT !.tif = "FOK"] >>)

FokOrders == DOMAIN FokTickets

===============================================================================
