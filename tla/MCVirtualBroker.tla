--------------------------- MODULE MCVirtualBroker ---------------------------
(* A small instance: limit orders on both sides and a market order for one   *)
(* ticker, a limit order for another, amounts of one and two, quotes on both *)
(* sides of the limits, and the empty quote 0.                               *)
EXTENDS VirtualBroker

Limit(s, op, p, n) ==
  [security |-> s, operation |-> op, type |-> "limit", price |-> p, amount |-> n]
Market(s, op, n) ==
  [security |-> s, operation |-> op, type |-> "market", price |-> 0, amount |-> n]
Tick(s, d, v) == [security |-> s, datatype |-> d, value |-> v]

MCKinds ==
  {Limit("a", "buy", 2, 1), Limit("a", "buy", 2, 2), Limit("a", "sell", 2, 1),
   Market("a", "buy", 1), Market("a", "sell", 2), Limit("b", "buy", 2, 1)}

MCTicks ==
  {Tick("a", "offer", v) : v \in {0, 1, 3}} \cup {Tick("a", "bid", v) : v \in {1, 3}}
    \cup {Tick("a", "price", 2), Tick("b", "offer", 2)}
=============================================================================
