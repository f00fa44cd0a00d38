------------------------------ MODULE MCGateway ------------------------------
(* One ticker; purchases and a sale at 2 to 7 take a cash of 12, of which one *)
(* digit is saved, below and above 10.                                        *)
EXTENDS Gateway

Limit(op, p) ==
  [security |-> "a", operation |-> op, type |-> "limit", price |-> p, amount |-> 1]
Market(op, n) ==
  [security |-> "a", operation |-> op, type |-> "market", price |-> 0, amount |-> n]
Tick(d, v) == [security |-> "a", datatype |-> d, value |-> v]

MCKinds == {Limit("buy", 3), Market("buy", 1), Market("sell", 2)}
MCTicks == {Tick("offer", 2), Tick("bid", 7)}
=============================================================================
