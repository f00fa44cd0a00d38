------------------------- MODULE MCQuotesourceServer -------------------------
(* Two clients, two tickers, two datatypes, a counter of three bits: -4 to 3. *)
(* A grant of 5 overflows it at once, two of 2 do together, two of 5 end      *)
(* above 0 again.                                                             *)
EXTENDS QuotesourceServer

CONSTANTS p1, p2, a, b

Of(ticker, ids) == [period |-> "t", ticker |-> ticker, ids |-> ids]
Start(sel) == [type |-> "start", sel |-> sel]

MCMessages ==
  {Start({Of(a, {})}), Start({Of(a, {}), Of(b, {"best_bid"})}),
   Start({Of(a, {"price", None})}), Start({Of(a, {}), [Of(a, {}) EXCEPT !.period = "other"]}),
   Start({}), [type |-> "command"], [type |-> "junk"],
   [type |-> "credit", n |-> 1], [type |-> "credit", n |-> 2],
   [type |-> "credit", n |-> 5]}
=============================================================================
