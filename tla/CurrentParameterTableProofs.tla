--------------------- MODULE CurrentParameterTableProofs ---------------------
(***************************************************************************)
(* What the parser makes of the day's volume, for any contracts, prices and *)
(* sessions: the trades it streams are trades of the time since it started, *)
(* and it streams all of them that its rows let it see.                     *)
(***************************************************************************)
EXTENDS CurrentParameterTable, SequenceTheorems, TLAPS

\* What was streamed was traded before the last row with a volume, and the volume
\* kept from that row is what separates the day's volume from the trades since:
\* all of it in the same session, and after a new one opened the day has no more
\* than those trades.
Accounted ==
  \A c \in Codes :
    /\ streamed[c] <= seen[c] /\ seen[c] <= traded[c]
    /\ sameSession[c] => market[c] = volumes[c] + (traded[c] - seen[c])
    /\ ~sameSession[c] /\ volumes[c] # 0 => market[c] <= traded[c] - seen[c]

IInv == TypeOK /\ Accounted

----------------------------------------------------------------------------
(* The ticks of a row. *)

LEMMA RowFields ==
  \A r \in Rows : /\ r.volume \in BOOLEAN
                  /\ r.last \in Prices \cup {None} /\ r.bid \in Prices \cup {None}
                  /\ r.ask \in Prices \cup {None}
BY DEF Rows, Cells

\* A sequence of ticks, none of them a trade.
NoTrade(s) == s \in Seq(Ticks) /\ \A i \in DOMAIN s : s[i].datatype # "Price"

LEMMA NoTradeConcat ==
  ASSUME NEW s, NEW t, NoTrade(s), NoTrade(t)
  PROVE  NoTrade(s \o t)
BY ConcatProperties DEF NoTrade

LEMMA QuotesFacts ==
  ASSUME NEW r \in Rows
  PROVE  NoTrade(Quotes(r))
<1>1. CASE Quoted(r)
  <2> DEFINE x == [datatype |-> "BestBid", value |-> r.bid, volume |-> 0]
             y == [datatype |-> "BestOffer", value |-> r.ask, volume |-> 0]
  <2>1. r.bid \in Prices /\ r.ask \in Prices
    BY <1>1, RowFields DEF Quoted
  <2>2. x \in Ticks /\ y \in Ticks /\ x.datatype # "Price" /\ y.datatype # "Price"
    BY <2>1 DEF Ticks
  <2>3. Quotes(r) = <<x, y>>
    BY <1>1 DEF Quotes
  <2> HIDE DEF x, y
  <2>. QED
    BY <2>2, <2>3 DEF NoTrade
<1>2. CASE ~Quoted(r)
  BY <1>2 DEF Quotes, NoTrade
<1>. QED
  BY <1>1, <1>2

LEMMA ExtraTicksFacts ==
  ASSUME NEW r \in Rows
  PROVE  NoTrade(ExtraTicks(r))
<1> DEFINE tick(x) == IF x \in r.extras THEN <<[datatype |-> x]>> ELSE <<>>
<1>1. ASSUME NEW x \in Extras
      PROVE  NoTrade(tick(x))
  <2> DEFINE e == [datatype |-> x]
  <2>1. e \in Ticks /\ e.datatype # "Price"
    BY DEF Ticks, Extras
  <2> HIDE DEF e
  <2>2. NoTrade(<<e>>) /\ NoTrade(<<>>)
    BY <2>1 DEF NoTrade
  <2>. QED
    BY <2>2 DEF e
<1>2. ExtraTicks(r) = tick("OpenInterest") \o tick("TotalDemand") \o tick("TotalSupply")
  BY DEF ExtraTicks
<1>3. /\ NoTrade(tick("OpenInterest")) /\ NoTrade(tick("TotalDemand"))
      /\ NoTrade(tick("TotalSupply"))
  BY <1>1 DEF Extras
<1> HIDE DEF tick
<1>4. NoTrade(tick("OpenInterest") \o tick("TotalDemand"))
  BY <1>3, NoTradeConcat
<1>. QED
  BY <1>2, <1>3, <1>4, NoTradeConcat

\* The size of the trade is found among the other ticks, wherever it is.
LEMMA SizeOfNone ==
  ASSUME NEW s, NoTrade(s)
  PROVE  Size(s) = 0
BY DEF Size, NoTrade

LEMMA SizeOfOne ==
  ASSUME NEW q, NEW e, NoTrade(q), NoTrade(e),
         NEW t \in Ticks, t.datatype = "Price", t.volume \in Int
  PROVE  /\ (q \o <<t>>) \o e \in Seq(Ticks)
         /\ Size((q \o <<t>>) \o e) = IF t.volume < 0 THEN -t.volume ELSE t.volume
<1> DEFINE one == <<t>>
           s == (q \o one) \o e
           k == Len(q) + 1
<1>1. one \in Seq(Ticks) /\ Len(one) = 1 /\ one[1] = t
  OBVIOUS
<1> HIDE DEF one
<1>2. /\ q \o one \in Seq(Ticks) /\ Len(q \o one) = Len(q) + 1
      /\ \A i \in 1 .. Len(q) + 1 :
           (q \o one)[i] = IF i <= Len(q) THEN q[i] ELSE one[i - Len(q)]
  <2>1. /\ q \o one \in Seq(Ticks) /\ Len(q \o one) = Len(q) + Len(one)
        /\ \A i \in 1 .. Len(q) + Len(one) :
             (q \o one)[i] = IF i <= Len(q) THEN q[i] ELSE one[i - Len(q)]
    BY <1>1, ConcatProperties DEF NoTrade
  <2>. QED
    BY <1>1, <2>1
<1>3. q \in Seq(Ticks) /\ e \in Seq(Ticks) /\ Len(q) \in Nat /\ Len(e) \in Nat
      /\ DOMAIN q = 1 .. Len(q) /\ DOMAIN e = 1 .. Len(e)
  BY LenProperties DEF NoTrade
<1>4. /\ s \in Seq(Ticks) /\ Len(s) = Len(q) + 1 + Len(e) /\ DOMAIN s = 1 .. Len(s)
      /\ \A i \in 1 .. Len(q) + 1 + Len(e) :
           s[i] = IF i <= Len(q) + 1 THEN (q \o one)[i] ELSE e[i - (Len(q) + 1)]
  BY <1>2, <1>3, ConcatProperties, LenProperties
<1> HIDE DEF s
<1>5. k \in DOMAIN s /\ s[k] = t
  BY <1>1, <1>2, <1>3, <1>4
<1>6. ASSUME NEW i \in DOMAIN s, i # k
      PROVE  s[i].datatype # "Price"
  <2>1. CASE i < k
    <3>1. i \in DOMAIN q /\ s[i] = q[i]
      BY <1>2, <1>3, <1>4, <2>1
    <3>. QED
      BY <3>1 DEF NoTrade
  <2>2. CASE ~(i < k)
    <3>1. i - (Len(q) + 1) \in DOMAIN e /\ s[i] = e[i - (Len(q) + 1)]
      BY <1>3, <1>4, <1>6, <2>2
    <3>. QED
      BY <3>1 DEF NoTrade
  <2>. QED
    BY <2>1, <2>2
<1>7. {i \in DOMAIN s : s[i].datatype = "Price"} = {k}
  BY <1>5, <1>6
<1>8. Size(s) = IF t.volume < 0 THEN -t.volume ELSE t.volume
  BY <1>5, <1>7 DEF Size
<1>. QED
  BY <1>4, <1>8 DEF s, one

\* Each rule for the direction gives one, or either.
LEMMA SignsFacts ==
  ASSUME NEW c \in Codes, NEW r \in Rows, NEW sign \in Signs(c, r)
  PROVE  sign \in {-1, 1}
<1>1. CASE ~Quoted(r)
  BY <1>1 DEF Signs
<1>2. CASE Quoted(r) /\ r.last = r.bid
  BY <1>2 DEF Signs
<1>3. CASE Quoted(r) /\ r.last # r.bid
  BY <1>3 DEF Signs
<1>. QED
  BY <1>1, <1>2, <1>3

\* What a row streams: a trade of the difference if it has a price.
LEMMA RowTicks ==
  ASSUME NEW c \in Codes, NEW r \in Rows, NEW sign \in Signs(c, r), NEW n \in Nat
  PROVE  LET ticks == Quotes(r) \o TradeTicks(r, sign * n) \o ExtraTicks(r)
         IN /\ ticks \in Seq(Ticks)
            /\ Size(ticks) = IF r.last # None THEN n ELSE 0
<1> DEFINE q == Quotes(r)
           e == ExtraTicks(r)
           m == sign * n
           ticks == (q \o TradeTicks(r, m)) \o e
<1>1. NoTrade(q) /\ NoTrade(e) /\ q \in Seq(Ticks)
  BY QuotesFacts, ExtraTicksFacts DEF NoTrade
<1>2. m \in Int /\ (m = 0 <=> n = 0) /\ (IF m < 0 THEN -m ELSE m) = n
  <2>1. sign = -1 \/ sign = 1
    BY SignsFacts
  <2>. QED
    BY <2>1
<1>3. r.last # None => r.last \in Prices
  BY RowFields
<1> HIDE DEF q, e, m
<1>4. CASE r.last # None /\ m # 0
  <2> DEFINE t == [datatype |-> "Price", value |-> r.last, volume |-> m]
  <2>1. t \in Ticks /\ t.datatype = "Price" /\ t.volume = m
    BY <1>2, <1>3, <1>4 DEF Ticks
  <2>2. ticks = (q \o <<t>>) \o e
    BY <1>4 DEF TradeTicks
  <2> HIDE DEF t
  <2>3. ticks \in Seq(Ticks) /\ Size(ticks) = n
    BY <1>1, <1>2, <2>1, <2>2, SizeOfOne
  <2>. QED
    BY <1>4, <2>3 DEF q, e, m
<1>5. CASE ~(r.last # None /\ m # 0)
  <2>1. TradeTicks(r, m) = <<>>
    BY <1>5 DEF TradeTicks
  <2>2. ticks = q \o e
    BY <1>1, <2>1, ConcatEmptySeq
  <2>3. ticks \in Seq(Ticks) /\ Size(ticks) = 0
    BY <1>1, <2>2, NoTradeConcat, SizeOfNone DEF NoTrade
  <2>4. (IF r.last # None THEN n ELSE 0) = 0
    BY <1>2, <1>5
  <2>. QED
    BY <2>3, <2>4 DEF q, e, m
<1>. QED
  BY <1>4, <1>5

----------------------------------------------------------------------------
(* The steps. *)

\* The volumes of a contract are numbers.
LEMMA Volumes ==
  ASSUME TypeOK, NEW c \in Codes
  PROVE  /\ volumes[c] \in Nat /\ market[c] \in Nat /\ traded[c] \in Nat /\ seen[c] \in Nat
         /\ traded[c] \in 0 .. MaxTraded
         /\ streamed[c] \in Nat /\ sameSession[c] \in BOOLEAN
         /\ Difference(c) \in Nat
BY CurrentParameterTableAssumption DEF TypeOK, Difference

LEMMA ParseRowFacts ==
  ASSUME TypeOK, NEW c \in Codes, NEW r \in Rows, ParseRow(c, r)
  PROVE  LET n == IF r.volume /\ r.last # None THEN Difference(c) ELSE 0
         IN /\ n \in Nat
            /\ out' \in Seq(Ticks)
            /\ streamed' = [streamed EXCEPT ![c] = @ + n]
<1> DEFINE d == IF r.volume THEN Difference(c) ELSE 0
           n == IF r.volume /\ r.last # None THEN Difference(c) ELSE 0
<1>1. d \in Nat /\ n \in Nat /\ n = IF r.last # None THEN d ELSE 0
  BY Volumes
<1>2. PICK sign \in Signs(c, r) :
        /\ out' = Quotes(r) \o TradeTicks(r, sign * d) \o ExtraTicks(r)
        /\ streamed' = [streamed EXCEPT ![c] = @ + Size(out')]
  BY DEF ParseRow
<1> HIDE DEF d, n
<1>3. out' \in Seq(Ticks) /\ Size(out') = n
  BY <1>1, <1>2, RowTicks
<1>. QED
  BY <1>1, <1>2, <1>3 DEF n

LEMMA TradeStep ==
  ASSUME IInv, NEW c \in Codes, Trade(c)
  PROVE  IInv'
<1>1. /\ UNCHANGED <<volumes, prices, bids, asks, out, sessions, seen, sameSession, priced,
                     streamed>>
      /\ traded[c] < MaxTraded
      /\ traded' = [traded EXCEPT ![c] = @ + 1]
      /\ market' = [market EXCEPT ![c] = @ + 1]
  BY DEF Trade, parserVars
<1>2. /\ traded[c] + 1 \in 0 .. MaxTraded /\ market[c] + 1 \in Nat
  BY <1>1, Volumes, CurrentParameterTableAssumption DEF IInv
<1>3. TypeOK'
  BY <1>1, <1>2 DEF IInv, TypeOK
<1>4. \A d \in Codes : /\ traded'[d] = IF d = c THEN traded[d] + 1 ELSE traded[d]
                       /\ market'[d] = IF d = c THEN market[d] + 1 ELSE market[d]
  BY <1>1 DEF IInv, TypeOK
<1>5. Accounted'
  <2> SUFFICES ASSUME NEW d \in Codes
               PROVE  /\ streamed[d] <= seen[d] /\ seen[d] <= traded'[d]
                      /\ sameSession[d] => market'[d] = volumes[d] + (traded'[d] - seen[d])
                      /\ ~sameSession[d] /\ volumes[d] # 0 => market'[d] <= traded'[d] - seen[d]
    BY <1>1 DEF Accounted
  <2>1. /\ volumes[d] \in Nat /\ market[d] \in Nat /\ traded[d] \in Nat /\ seen[d] \in Nat
    BY Volumes DEF IInv
  <2>2. /\ streamed[d] <= seen[d] /\ seen[d] <= traded[d]
        /\ sameSession[d] => market[d] = volumes[d] + (traded[d] - seen[d])
        /\ ~sameSession[d] /\ volumes[d] # 0 => market[d] <= traded[d] - seen[d]
    BY DEF IInv, Accounted
  <2>. QED
    BY <1>4, <2>1, <2>2
<1>. QED
  BY <1>3, <1>5 DEF IInv

LEMMA OpenSessionStep ==
  ASSUME IInv, OpenSession
  PROVE  IInv'
<1>1. /\ UNCHANGED <<volumes, prices, bids, asks, out, traded, seen, priced, streamed>>
      /\ sessions' = sessions + 1 /\ sessions < MaxSessions
      /\ market' = [c \in Codes |-> 0]
      /\ sameSession' = [c \in Codes |-> FALSE]
  BY DEF OpenSession, parserVars
<1>2. TypeOK'
  BY <1>1, CurrentParameterTableAssumption DEF IInv, TypeOK
<1>3. \A c \in Codes : traded[c] \in Nat /\ seen[c] \in Nat
  BY Volumes DEF IInv
<1>4. Accounted'
  BY <1>1, <1>3 DEF IInv, Accounted
<1>. QED
  BY <1>2, <1>4 DEF IInv

\* What a row of the contract can stream was traded since the last one.
LEMMA DifferenceFacts ==
  ASSUME IInv, NEW c \in Codes
  PROVE  /\ Difference(c) <= traded[c] - seen[c]
         /\ sameSession[c] /\ volumes[c] # 0 => Difference(c) = traded[c] - seen[c]
<1>1. /\ volumes[c] \in Nat /\ market[c] \in Nat /\ traded[c] \in Nat /\ seen[c] \in Nat
  BY Volumes DEF IInv
<1>2. /\ seen[c] <= traded[c]
      /\ sameSession[c] => market[c] = volumes[c] + (traded[c] - seen[c])
      /\ ~sameSession[c] /\ volumes[c] # 0 => market[c] <= traded[c] - seen[c]
  BY DEF IInv, Accounted
<1>. QED
  BY <1>1, <1>2 DEF Difference

LEMMA ParseRowStep ==
  ASSUME IInv, NEW c \in Codes, NEW r \in Rows, ParseRow(c, r)
  PROVE  IInv'
<1> DEFINE n == IF r.volume /\ r.last # None THEN Difference(c) ELSE 0
<1>1. n \in Nat /\ out' \in Seq(Ticks) /\ streamed' = [streamed EXCEPT ![c] = @ + n]
  BY ParseRowFacts DEF IInv
<1>2. /\ UNCHANGED <<market, sessions, traded>>
      /\ volumes' = IF r.volume THEN [volumes EXCEPT ![c] = market[c]] ELSE volumes
      /\ seen' = IF r.volume THEN [seen EXCEPT ![c] = traded[c]] ELSE seen
      /\ sameSession' = IF r.volume THEN [sameSession EXCEPT ![c] = TRUE] ELSE sameSession
      /\ priced' \in BOOLEAN
  BY DEF ParseRow, Remember
<1>3. /\ prices' \in [Codes -> Nat] /\ bids' \in [Codes -> Nat] /\ asks' \in [Codes -> Nat]
  <2>1. CASE Quoted(r)
    <3>1. r.last \in Nat /\ r.bid \in Nat /\ r.ask \in Nat
      BY <2>1, RowFields, CurrentParameterTableAssumption DEF Quoted
    <3>. QED
      BY <2>1, <3>1 DEF ParseRow, IInv, TypeOK
  <2>2. CASE ~Quoted(r)
    BY <2>2 DEF ParseRow, IInv, TypeOK
  <2>. QED
    BY <2>1, <2>2
<1>4. /\ volumes[c] \in Nat /\ market[c] \in Nat /\ traded[c] \in 0 .. MaxTraded
      /\ seen[c] \in Nat /\ streamed[c] + n \in Nat /\ streamed[c] \in Nat
  BY <1>1, Volumes DEF IInv
<1>5. n <= IF r.volume THEN traded[c] - seen[c] ELSE 0
  <2>1. 0 <= traded[c] - seen[c]
    BY <1>4 DEF IInv, Accounted
  <2>. QED
    BY <2>1, DifferenceFacts
<1> HIDE DEF n
<1>6. TypeOK'
  <2>1. /\ volumes' \in [Codes -> Nat] /\ seen' \in [Codes -> 0 .. MaxTraded]
        /\ sameSession' \in [Codes -> BOOLEAN] /\ streamed' \in [Codes -> Nat]
    BY <1>1, <1>2, <1>4 DEF IInv, TypeOK
  <2>. QED
    BY <1>1, <1>2, <1>3, <2>1 DEF IInv, TypeOK
<1>7. Accounted'
  <2> SUFFICES ASSUME NEW d \in Codes
               PROVE  /\ streamed'[d] <= seen'[d] /\ seen'[d] <= traded[d]
                      /\ sameSession'[d] => market[d] = volumes'[d] + (traded[d] - seen'[d])
                      /\ ~sameSession'[d] /\ volumes'[d] # 0 => market[d] <= traded[d] - seen'[d]
    BY <1>2 DEF Accounted
  <2>1. /\ streamed[d] <= seen[d] /\ seen[d] <= traded[d]
        /\ sameSession[d] => market[d] = volumes[d] + (traded[d] - seen[d])
        /\ ~sameSession[d] /\ volumes[d] # 0 => market[d] <= traded[d] - seen[d]
    BY DEF IInv, Accounted
  <2>2. /\ streamed'[d] = IF d = c THEN streamed[c] + n ELSE streamed[d]
        /\ volumes'[d] = IF d = c /\ r.volume THEN market[c] ELSE volumes[d]
        /\ seen'[d] = IF d = c /\ r.volume THEN traded[c] ELSE seen[d]
        /\ sameSession'[d] = IF d = c /\ r.volume THEN TRUE ELSE sameSession[d]
    BY <1>1, <1>2 DEF IInv, TypeOK
  <2>3. CASE d = c /\ r.volume
    BY <1>1, <1>4, <1>5, <2>1, <2>2, <2>3
  <2>4. CASE d = c /\ ~r.volume
    <3>1. n = 0
      BY <1>1, <1>5, <2>4
    <3>. QED
      BY <1>4, <2>1, <2>2, <2>4, <3>1
  <2>5. CASE d # c
    BY <2>1, <2>2, <2>5
  <2>. QED
    BY <2>3, <2>4, <2>5
<1>. QED
  BY <1>6, <1>7 DEF IInv

----------------------------------------------------------------------------
(* The results. *)

LEMMA InitHolds == Init => IInv
<1> SUFFICES ASSUME Init PROVE IInv
  OBVIOUS
<1>1. market \in [Codes -> Nat]
  BY CurrentParameterTableAssumption DEF Init
<1>2. <<>> \in Seq(Ticks)
  OBVIOUS
<1>3. TypeOK
  <2>1. 0 \in Nat /\ 0 \in 0 .. MaxTraded /\ 0 \in 0 .. MaxSessions
    BY CurrentParameterTableAssumption
  <2>2. /\ volumes \in [Codes -> Nat] /\ prices \in [Codes -> Nat]
        /\ bids \in [Codes -> Nat] /\ asks \in [Codes -> Nat]
    BY <2>1 DEF Init
  <2>3. /\ traded \in [Codes -> 0 .. MaxTraded] /\ seen \in [Codes -> 0 .. MaxTraded]
        /\ sameSession \in [Codes -> BOOLEAN] /\ streamed \in [Codes -> Nat]
    BY <2>1 DEF Init
  <2>4. out = <<>> /\ sessions = 0 /\ priced = FALSE
    BY DEF Init
  <2>. QED
    BY <1>1, <1>2, <2>1, <2>2, <2>3, <2>4 DEF TypeOK
<1>4. \A c \in Codes : /\ streamed[c] = 0 /\ seen[c] = 0 /\ traded[c] = 0
                       /\ volumes[c] = 0 /\ sameSession[c] = FALSE
  BY DEF Init
<1>5. Accounted
  <2> SUFFICES ASSUME NEW c \in Codes
               PROVE  /\ streamed[c] <= seen[c] /\ seen[c] <= traded[c]
                      /\ sameSession[c] => market[c] = volumes[c] + (traded[c] - seen[c])
                      /\ ~sameSession[c] /\ volumes[c] # 0 => market[c] <= traded[c] - seen[c]
    BY DEF Accounted
  <2>. QED
    BY <1>4
<1>. QED
  BY <1>3, <1>5 DEF IInv

LEMMA Inductive == Spec => []IInv
<1>1. IInv /\ [Next]_vars => IInv'
  <2> SUFFICES ASSUME IInv, [Next]_vars PROVE IInv'
    OBVIOUS
  <2>1. CASE \E c \in Codes : Trade(c)
    BY <2>1, TradeStep
  <2>2. CASE OpenSession
    BY <2>2, OpenSessionStep
  <2>3. CASE \E c \in Codes, r \in Rows : ParseRow(c, r)
    BY <2>3, ParseRowStep
  <2>4. CASE UNCHANGED vars
    <3>1. UNCHANGED <<volumes, prices, bids, asks, out, market, sessions, traded, seen,
                      sameSession, priced, streamed>>
      BY <2>4 DEF vars, parserVars
    <3>. QED
      BY <3>1 DEF IInv, TypeOK, Accounted
  <2>. QED
    BY <2>1, <2>2, <2>3, <2>4 DEF Next
<1>. QED
  BY <1>1, InitHolds, PTL DEF Spec

\* What the parser keeps and streams is of its type: no trade without a size.
THEOREM TypeCorrect == Spec => []TypeOK
<1>1. IInv => TypeOK
  BY DEF IInv
<1>. QED
  BY <1>1, Inductive, PTL

\* The trades parseRow makes of the day's volume were made while the gateway ran,
\* and are streamed once, whatever sessions open and whatever cells are empty.
THEOREM NeverInventsHolds == Spec => []NeverInvents
<1>1. IInv => NeverInvents
  <2> SUFFICES ASSUME IInv, NEW c \in Codes PROVE streamed[c] <= traded[c]
    BY DEF NeverInvents
  <2>1. streamed[c] <= seen[c] /\ seen[c] <= traded[c]
    BY DEF IInv, Accounted
  <2>2. streamed[c] \in Nat /\ seen[c] \in Nat /\ traded[c] \in Nat
    BY Volumes DEF IInv
  <2>. QED
    BY <2>1, <2>2
<1>. QED
  BY <1>1, Inductive, PTL

\* A row of parseRow with a price and a volume streams all that was traded since
\* the last one with a volume, within a session.
THEOREM EveryTradeStreamedHolds == Spec => EveryTradeStreamed
<1> DEFINE Streams ==
             \A c \in Codes :
               seen'[c] # seen[c] /\ priced' /\ sameSession[c]
                 /\ market[c] # traded[c] - seen[c]
                   => streamed'[c] - streamed[c] = traded[c] - seen[c]
<1>1. IInv /\ [Next]_vars => [Streams]_vars
  <2> SUFFICES ASSUME IInv, [Next]_vars, NEW c \in Codes,
                      seen'[c] # seen[c], priced', sameSession[c],
                      market[c] # traded[c] - seen[c]
               PROVE  streamed'[c] - streamed[c] = traded[c] - seen[c]
    OBVIOUS
  <2>1. PICK d \in Codes, r \in Rows : ParseRow(d, r)
    BY DEF Next, Trade, OpenSession, vars
  <2>2. d = c /\ r.volume /\ r.last # None
    BY <2>1 DEF ParseRow, IInv, TypeOK
  <2>3. streamed' = [streamed EXCEPT ![c] = @ + Difference(c)]
    BY <2>1, <2>2, ParseRowFacts DEF IInv
  <2>4. /\ volumes[c] \in Nat /\ market[c] \in Nat /\ traded[c] \in Nat /\ seen[c] \in Nat
        /\ streamed[c] \in Nat /\ Difference(c) \in Nat
    BY Volumes DEF IInv
  <2>5. volumes[c] # 0
    BY <2>4 DEF IInv, Accounted
  <2>6. streamed'[c] = streamed[c] + Difference(c)
    BY <2>3 DEF IInv, TypeOK
  <2>. QED
    BY <2>4, <2>5, <2>6, DifferenceFacts
<1>. QED
  BY <1>1, Inductive, PTL DEF Spec, EveryTradeStreamed

=============================================================================
