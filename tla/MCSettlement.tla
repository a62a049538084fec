----------------------------- MODULE MCSettlement -----------------------------
(* Instances of Settlement for TLC.                                         *)
EXTENDS Settlement

Order(user, pair, side, price, qty) ==
    [user |-> user, pair |-> pair, side |-> side, price |-> price, qty |-> qty]

BaseOf  == [p \in {"btc", "eth"} |-> IF p = "btc" THEN "BTC" ELSE "ETH"]
QuoteOf == [p \in {"btc", "eth"} |-> "USDT"]

\* The first has a limit that leaves a price improvement, the next two fill it in
\* parts, the fourth trades without a reservation, and the others are on another
\* pair that draws on the same account: a position is opened, and closed again at
\* another price.
Trades == <<
    Order("ann", "btc", "Buy", 2, 2),
    Order("bob", "btc", "Sell", 1, 1),
    Order("bob", "btc", "Sell", Market, 2),
    Order("ann", "btc", "Buy", Market, 1),
    Order("ann", "eth", "Buy", 1, 1),
    Order("bob", "eth", "Sell", 1, 2),
    Order("ann", "eth", "Sell", 2, 1),
    Order("bob", "eth", "Buy", Market, 1) >>

TradesOrders == DOMAIN Trades

\* Ann holds quote only, has no row for BTC, and cannot afford both of her limits.
Wallets == [x \in {"ann", "bob"} \X {"BTC", "ETH", "USDT"} |->
    IF x[1] = "ann" THEN (IF x[2] = "USDT" THEN 14 ELSE 0) ELSE (IF x[2] = "USDT" THEN 0 ELSE 3)]

WalletRows == DOMAIN Wallets \ {<<"ann", "BTC">>}

\* Two requests for one transaction, and two that both find no wallet row.
SomeDeposits == <<
    [user |-> "ann", asset |-> "USDT", amount |-> 1, hash |-> "h1"],
    [user |-> "ann", asset |-> "USDT", amount |-> 1, hash |-> "h1"],
    [user |-> "ann", asset |-> "BTC", amount |-> 1, hash |-> "h1"],
    [user |-> "ann", asset |-> "BTC", amount |-> 1, hash |-> "h2"] >>

DepositRequests == DOMAIN SomeDeposits

\* Two failures or crashes where few orders trade, one where many do.
Mixed == {
    [orders |-> {1, 2, 3, 4}, deposits |-> {}, trouble |-> 1],
    [orders |-> {1, 2, 5, 6}, deposits |-> {}, trouble |-> 1],
    [orders |-> {5, 6, 7, 8}, deposits |-> {}, trouble |-> 2],
    [orders |-> {1, 2, 3}, deposits |-> {}, trouble |-> 2],
    [orders |-> {1, 2}, deposits |-> {1, 2}, trouble |-> 1],
    [orders |-> {}, deposits |-> {3, 4}, trouble |-> 2] }

===============================================================================
