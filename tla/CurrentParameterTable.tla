------------------------ MODULE CurrentParameterTable ------------------------
(***************************************************************************)
(* tables/currentparametertableparser.cpp: QUIK pokes its table of current *)
(* parameters, one row per contract, whenever something in it changes.  It *)
(* has no trades, only the day's volume: the parser keeps the volume it    *)
(* has seen last and streams the difference as a trade, with a direction   *)
(* guessed from the prices.                                                *)
(*                                                                         *)
(* The trading day outside src/ is modelled by the volume QUIK would show: *)
(* it grows, and starts from 0 when a session opens.  A cell that is empty *)
(* or not a number is None.  The first table has the header row, with the  *)
(* columns of the required schema.                                         *)
(***************************************************************************)
EXTENDS Integers, Sequences

CONSTANTS
  Codes,             \* contracts, class#code
  Prices,            \* prices in the last, bid and offer columns
  Books,             \* what the bid and offer columns of a row may hold
  ExtraColumns,      \* sets of the other columns that a row may have filled in
  StartVolumes,      \* the day's volume when the gateway starts
  MaxTraded,         \* bound: volume traded per contract after that
  MaxSessions,       \* bound: sessions opened after that
  None

Extras == {"OpenInterest", "TotalDemand", "TotalSupply"}

ASSUME CurrentParameterTableAssumption ==
  /\ Prices \subseteq Nat /\ StartVolumes \subseteq Nat
  /\ Books \subseteq (Prices \cup {None}) \X (Prices \cup {None})
  /\ ExtraColumns \subseteq SUBSET Extras
  /\ MaxTraded \in Nat /\ MaxSessions \in Nat
  /\ None \notin Nat

VARIABLES
  volumes, prices, bids, asks,   \* m_volumes, m_prices, m_bids, m_asks: 0 if not seen
  out,               \* the ticks the last row gave to DataSink::incomingTick
  market,            \* external: the day's volume
  sessions,          \* external: how many sessions have been opened (bound)
  traded,            \* history: volume traded since the gateway started
  seen,              \* history: what traded was at the last row that had a volume
  sameSession,       \* history: that row was in this session
  priced,            \* history: the last row parsed had a last price
  streamed           \* history: the sum of the trades streamed

parserVars == <<volumes, prices, bids, asks>>
vars == <<parserVars, out, market, sessions, traded, seen, sameSession, priced, streamed>>

Cells == Prices \cup {None}
Rows ==
  {r \in [volume : BOOLEAN, last : Cells, bid : Cells, ask : Cells,
          extras : ExtraColumns] : <<r.bid, r.ask>> \in Books}

Ticks == [datatype : {"BestBid", "BestOffer"}, value : Prices, volume : {0}]
           \cup [datatype : {"Price"}, value : Prices, volume : Int \ {0}]
           \cup [datatype : Extras]

TypeOK ==
  /\ volumes \in [Codes -> Nat]
  /\ prices \in [Codes -> Nat] /\ bids \in [Codes -> Nat] /\ asks \in [Codes -> Nat]
  /\ out \in Seq(Ticks)
  /\ market \in [Codes -> Nat] /\ sessions \in 0 .. MaxSessions
  /\ traded \in [Codes -> 0 .. MaxTraded]
  /\ seen \in [Codes -> 0 .. MaxTraded]
  /\ sameSession \in [Codes -> BOOLEAN] /\ priced \in BOOLEAN
  /\ streamed \in [Codes -> Nat]

Init ==
  /\ volumes = [c \in Codes |-> 0]
  /\ prices = [c \in Codes |-> 0]
  /\ bids = [c \in Codes |-> 0]
  /\ asks = [c \in Codes |-> 0]
  /\ out = <<>>
  /\ market \in [Codes -> StartVolumes]
  /\ sessions = 0
  /\ traded = [c \in Codes |-> 0]
  /\ seen = [c \in Codes |-> 0]
  /\ sameSession = [c \in Codes |-> FALSE]
  /\ priced = FALSE
  /\ streamed = [c \in Codes |-> 0]

----------------------------------------------------------------------------
(* The exchange, outside src/. *)

Trade(c) ==
  /\ traded[c] < MaxTraded
  /\ traded' = [traded EXCEPT ![c] = @ + 1]
  /\ market' = [market EXCEPT ![c] = @ + 1]
  /\ UNCHANGED <<parserVars, out, sessions, seen, sameSession, priced, streamed>>

OpenSession ==
  /\ sessions < MaxSessions
  /\ sessions' = sessions + 1
  /\ market' = [c \in Codes |-> 0]
  /\ sameSession' = [c \in Codes |-> FALSE]
  /\ UNCHANGED <<parserVars, out, traded, seen, priced, streamed>>

----------------------------------------------------------------------------
(* CurrentParameterTableParser::parseRow. *)

\* Variant: a volume below the last one is not taken for a new session.
Difference_NoReset(c) == IF volumes[c] = 0 THEN 0 ELSE market[c] - volumes[c]

\* What was traded since the last row: nothing is known of it after the first
\* row of a contract, when the last volume was 0, and when the volume fell.
Difference(c) ==
  IF volumes[c] = 0 \/ market[c] < volumes[c] THEN 0 ELSE market[c] - volumes[c]

\* Variant: the volume is kept by the class of the contract.
Remember_ByClass(c) == [d \in Codes |-> market[c]]

Remember(c) == [volumes EXCEPT ![c] = market[c]]

Quoted(r) == r.last # None /\ r.bid # None /\ r.ask # None

\* The direction of a trade, by the first rule that fits: at the bid, at the
\* offer, beyond the bid or offer of the row before, or else by the last price.
\* An unchanged price inside the spread is decided by rand().
Signs(c, r) ==
  CASE ~Quoted(r) -> {1}
    [] OTHER ->
  CASE r.last = r.bid -> {-1}
    [] r.last # r.bid /\ r.last = r.ask -> {1}
    [] r.last \notin {r.bid, r.ask} /\ r.last <= bids[c] -> {-1}
    [] r.last \notin {r.bid, r.ask} /\ r.last > bids[c] /\ r.last >= asks[c] -> {1}
    [] OTHER -> IF r.last = prices[c] THEN {-1, 1}
                ELSE IF r.last > prices[c] THEN {1} ELSE {-1}

Quotes(r) ==
  IF Quoted(r)
  THEN <<[datatype |-> "BestBid", value |-> r.bid, volume |-> 0],
         [datatype |-> "BestOffer", value |-> r.ask, volume |-> 0]>>
  ELSE <<>>

\* Variant: a row is a trade whether its volume has grown or not.
TradeTicks_Always(r, n) ==
  IF r.last # None THEN <<[datatype |-> "Price", value |-> r.last, volume |-> n]>> ELSE <<>>

TradeTicks(r, n) ==
  IF r.last # None /\ n # 0
  THEN <<[datatype |-> "Price", value |-> r.last, volume |-> n]>> ELSE <<>>

ExtraTicks(r) ==
  LET tick(x) == IF x \in r.extras THEN <<[datatype |-> x]>> ELSE <<>>
  IN tick("OpenInterest") \o tick("TotalDemand") \o tick("TotalSupply")

\* The size of the trade among the ticks.
Size(ticks) ==
  LET n == {i \in DOMAIN ticks : ticks[i].datatype = "Price"}
  IN IF n = {} THEN 0
     ELSE LET v == ticks[CHOOSE i \in n : TRUE].volume IN IF v < 0 THEN -v ELSE v

\* A row with a volume that is not a number streams no trade and forgets none.
ParseRow(c, r) ==
  /\ \E sign \in Signs(c, r) :
       LET n == IF r.volume THEN Difference(c) ELSE 0
       IN /\ out' = Quotes(r) \o TradeTicks(r, sign * n) \o ExtraTicks(r)
          /\ streamed' = [streamed EXCEPT ![c] = @ + Size(out')]
  /\ volumes' = IF r.volume THEN Remember(c) ELSE volumes
  /\ IF Quoted(r)
     THEN /\ prices' = [prices EXCEPT ![c] = r.last]
          /\ bids' = [bids EXCEPT ![c] = r.bid]
          /\ asks' = [asks EXCEPT ![c] = r.ask]
     ELSE UNCHANGED <<prices, bids, asks>>
  /\ IF r.volume
     THEN /\ seen' = [seen EXCEPT ![c] = traded[c]]
          /\ sameSession' = [sameSession EXCEPT ![c] = TRUE]
     ELSE UNCHANGED <<seen, sameSession>>
  /\ priced' = (r.last # None)
  /\ UNCHANGED <<market, sessions, traded>>

----------------------------------------------------------------------------

Next ==
  \/ \E c \in Codes : Trade(c)
  \/ OpenSession
  \/ \E c \in Codes, r \in Rows : ParseRow(c, r)

Spec == Init /\ [][Next]_vars

----------------------------------------------------------------------------
(* Properties. *)

\* The stream never has more volume than was traded while the gateway ran: not
\* what was traded before it started, not the volume of the session before, and
\* no trade twice.
NeverInvents == \A c \in Codes : streamed[c] <= traded[c]

\* A row with a price and a volume streams all that was traded in its contract
\* since the last one that had a volume, whatever rows of other contracts and
\* rows with empty cells came between, if that one was in the same session and
\* its volume was not 0.
EveryTradeStreamed ==
  [][\A c \in Codes :
       seen'[c] # seen[c] /\ priced' /\ sameSession[c]
         /\ market[c] # traded[c] - seen[c]
           => streamed'[c] - streamed[c] = traded[c] - seen[c]]_vars
=============================================================================
