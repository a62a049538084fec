----------------------------- MODULE MCMarketFeed -----------------------------
(* Instances of MarketFeed for TLC.                                         *)
EXTENDS MarketFeed

Order(user, price, qty) == [user |-> user, price |-> price, qty |-> qty]

\* Four market orders, three limit orders of which one is out of the band after a
\* trade at 3, and four that the checks of quantity and position refuse.
Orders == <<
    Order("ann", 0, 1), Order("bob", 0, 1), Order("bob", 0, 1), Order("bob", 0, 1),
    Order("ann", 1, 1), Order("ann", 2, 1), Order("ann", 2, 1),
    Order("ann", 2, 2), Order("bob", 2, 3), Order("ann", 2, 2), Order("ann", 1, 2) >>

OrderRequests == DOMAIN Orders

Free  == [minute |-> 0, day |-> 0]
Tight == [minute |-> 1, day |-> 2]
FreeAndTight == {Free, Tight}

\* The tape: every order trades at a price that is left open, and candles close.
Tape == [requests |-> {1, 2, 3}, from |-> "admitted", clients |-> {}, bridge |-> TRUE, limits |-> Free,
         ticks |-> 3, trouble |-> 1]

\* The limits: three orders of one user, of which one is too large for a position.
Rate == [Tape EXCEPT !.requests = {5, 6, 8}, !.from = "new", !.ticks = 2, !.limits = Tight]

\* Four orders of one user within and beyond a day, of which one can trade.
Long == [Rate EXCEPT !.requests = {6, 8, 10, 11}, !.ticks = 3, !.trouble = 0]

\* The streams of the matching engine, in place of the bridge.
Streamed == [Tape EXCEPT !.requests = {2, 6, 9}, !.from = "new", !.bridge = FALSE, !.limits = NoLimit,
                       !.ticks = 1]

\* The hub: a connection that signs in and two trades, and two connections and one.
Connected == [Tape EXCEPT !.clients = {"c1"}, !.requests = {6, 7}, !.ticks = 0, !.trouble = 0]
Both == [Connected EXCEPT !.clients = Clients, !.requests = {6}]

Several == {Tape, Rate, Long, Streamed, Connected, Both}

OneAndTwo == <<1, 2>>

===============================================================================
