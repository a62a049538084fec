----------------------------- MODULE MCGrpcServer -----------------------------
(* Instances of GrpcServer for TLC.                                         *)
EXTENDS GrpcServer

PlaceRequest(user, side, type, price, qty) ==
    [user |-> user, side |-> side, type |-> type, price |-> price, qty |-> qty,
     stopPrice |-> 0, iceberg |-> 0, tif |-> "Unspecified"]

\* An offer that can be taken in part, another behind it, an iceberg that may
\* starve, and a stop order whose request names no side.
Requests == <<
    PlaceRequest("bob", "Sell", "Limit", 2, 3),
    PlaceRequest("bob", "Sell", "PostOnly", 3, 1),
    [PlaceRequest("ann", "Buy", "Iceberg", 2, 2) EXCEPT !.iceberg = 1],
    [PlaceRequest("ann", "Unspecified", "StopLimit", 2, 1) EXCEPT !.stopPrice = 2, !.tif = "GTD"] >>

RequestOrders == DOMAIN Requests

PlacedTickets == [o \in RequestOrders |-> TicketOf(Requests[o], o)]

===============================================================================
