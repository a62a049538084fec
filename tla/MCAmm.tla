-------------------------------- MODULE MCAmm --------------------------------
(***************************************************************************)
(* Two users, two gateways, a pool with liquidity and one to be created.     *)
(***************************************************************************)
EXTENDS Amm

MCUsers == {"a", "b"}
MCPools == {"old", "fresh"}
MCTokens == {"eth", "usd", "btc"}
MCToken0 == [old |-> "eth", fresh |-> "btc"]
MCToken1 == [p \in MCPools |-> "usd"]
MCOpening == [x \in MCUsers \X MCTokens |-> IF x = <<"b", "btc">> THEN 0 ELSE 30]
MCFunded == (MCUsers \X MCTokens) \ {<<"b", "btc">>}
MCSeed == [old |-> [status |-> "active", r0 |-> 12, r1 |-> 24, lp |-> 18], fresh |-> Absent]
MCSeedShares == [x \in MCUsers \X MCPools |-> IF x = <<"a", "old">> THEN 12 ELSE IF x = <<"b", "old">> THEN 6 ELSE 0]
MCGateways == {"g1", "g2"}

On(p, kind, u, amt, more) == [pool |-> p, kind |-> kind, user |-> u, amount |-> amt, other |-> more]
MCRequests == {"create", "first", "fresh", "addA", "addShort", "removeA", "removeB", "sell", "buy"}
MCAsk ==
    [create   |-> [pool |-> "fresh", kind |-> "create"],
     first    |-> On("fresh", "add", "a", 4, 9),
     fresh    |-> On("fresh", "swap", "b", 3, 0),
     addA     |-> On("old", "add", "a", 4, 12),
     addShort |-> On("old", "add", "b", 6, 1),
     removeA  |-> On("old", "remove", "a", 12, 0),
     removeB  |-> On("old", "remove", "b", 7, 0),
     sell     |-> On("old", "swap", "a", 4, 0),
     buy      |-> On("old", "swap", "b", 8, 1)]
MCWorkloads == {{"create", "first", "fresh"}, {"addA", "removeA", "sell"}, {"addA", "buy", "removeB"},
                {"addShort", "removeB", "sell"}, {"sell", "buy", "removeA"}}

===============================================================================
