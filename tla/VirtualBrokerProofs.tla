------------------------- MODULE VirtualBrokerProofs -------------------------
(***************************************************************************)
(* What the two threads of VirtualBroker keep between them for any number  *)
(* of orders, securities, prices and amounts, and that the broker          *)
(* implements BrokerContract.  The argument is the lock's: a thread that   *)
(* changes the book holds m_mutex until it has made the callback, so that  *)
(* what it has read of the account is still so when it writes; and the     *)
(* reads that do without the lock (lastQuote, the test of the enabled set) *)
(* decide only when a sweep happens, never what it may do.                 *)
(***************************************************************************)
EXTENDS VirtualBroker, TLAPS

Dealing == {"position", "cash"}
Sweeping == {"sweep", "position", "cash", "erase", "notify"}

\* Who holds m_mutex is told by where the threads are.
Locked ==
  /\ mutex = "server" <=> spc # "idle"
  /\ mutex = "main" <=> mpc \in Sweeping

\* Orders are submitted in the order of their ids; the one in submitOrder has
\* no state but "Unsubmitted" until it is decided, a sale until it is made.
Undecided == spc \in {"readBid", "readOffer", "decide"} \/ (spc \in Dealing /\ ~IsBuy(cur))
Numbered ==
  /\ spc # "idle" => cur < MaxOrders
  /\ \A o \in Orders :
       /\ terms[o] # None <=> o < cur \/ (o = cur /\ spc # "idle")
       /\ ostate[o] # "none" <=> terms[o] # None
       /\ ostate[o] = "Unsubmitted" <=> o = cur /\ Undecided

\* The server deals at a quote the order may have, and enters what is submitted.
Submitting ==
  /\ spc \in Dealing =>
       /\ Marketable(terms[cur])
       /\ ostate[cur] = IF IsBuy(cur) THEN "Executed" ELSE "Unsubmitted"
  /\ spc = "enable" => ostate[cur] = "Submitted"

\* Only a sweep under way has moved the cursor.  While it fills an order the
\* cursor is on that order, which is still in the list; a callback is for the
\* order before the cursor.
Carried ==
  /\ mpc # "idle" => tick # None
  /\ mpc \in {"idle", "check", "lock"} => cursor = 0
  /\ mpc \in {"position", "cash", "erase"} =>
       /\ cursor \in pending
       /\ ostate[cursor] = IF mpc = "erase" \/ IsBuy(cursor) THEN "Executed" ELSE "Submitted"
  /\ mpc = "notify" => cursor > 0 /\ ostate[cursor - 1] = "Executed"

\* What a thread has read is still so.
Registers ==
  /\ spc = "position" => seen["server"] = portfolio[terms[cur].security]
  /\ spc = "cash" => seen["server"] = cash
  /\ mpc = "position" => seen["main"] = portfolio[terms[cursor].security]
  /\ mpc = "cash" => seen["main"] = cash

CoreInv == TypeOK /\ Locked /\ Numbered /\ Submitting /\ Carried /\ Registers
BookInv == EnabledIffPending /\ OneTrade /\ LimitRespected

IInv == CoreInv /\ BookInv /\ SweptBehind

----------------------------------------------------------------------------
(* Types, the lock and the program counters. *)

LEMMA KindFields ==
  \A t \in Kinds : /\ t.security \in Securities
                   /\ t.operation \in {"buy", "sell"} /\ t.type \in {"market", "limit"}
                   /\ t.price \in Nat /\ t.amount \in Nat
BY VirtualBrokerAssumption DEF OrderKinds

LEMMA TickFields ==
  \A t \in Ticks : /\ t.security \in Securities
                   /\ t.datatype \in {"bid", "offer", "price"}
                   /\ t.value \in Nat
BY VirtualBrokerAssumption DEF TickKinds

LEMMA Product == \A a, b \in Int : a * b \in Int
OBVIOUS

\* What is bought or sold of an order.
LEMMA SignedType ==
  ASSUME NEW o, terms[o] \in Kinds
  PROVE  Signed(o) \in Int /\ terms[o].security \in Securities
BY KindFields DEF Signed

\* Inside submitOrder there is an order, and no sweep is under way.
LEMMA InSubmit ==
  ASSUME CoreInv, spc # "idle"
  PROVE  /\ cur \in Orders /\ terms[cur] \in Kinds
         /\ mpc \notin Sweeping /\ mutex = "server"
         /\ Opposite(terms[cur]) \in Nat
<1>1. cur \in Orders
  BY VirtualBrokerAssumption DEF CoreInv, Numbered, TypeOK, Orders
<1>2. terms[cur] \in Kinds
  BY <1>1 DEF CoreInv, Numbered, TypeOK
<1>3. mpc \notin Sweeping /\ mutex = "server"
  BY DEF CoreInv, Locked
<1>4. Opposite(terms[cur]) \in Nat
  BY DEF Opposite, CoreInv, TypeOK
<1>. QED
  BY <1>1, <1>2, <1>3, <1>4

\* While a sweep fills an order, it is one that was submitted, and nobody is in
\* submitOrder.
LEMMA InFill ==
  ASSUME CoreInv, mpc \in {"position", "cash", "erase"}
  PROVE  /\ cursor \in Orders /\ terms[cursor] \in Kinds /\ cursor \in pending
         /\ terms[cursor].price \in Nat
         /\ spc = "idle" /\ mutex = "main"
<1>1. cursor \in Orders /\ cursor \in pending /\ ostate[cursor] # "none"
  BY DEF CoreInv, Carried, TypeOK
<1>2. terms[cursor] \in Kinds
  BY <1>1 DEF CoreInv, Numbered, TypeOK
<1>3. spc = "idle" /\ mutex = "main"
  BY DEF CoreInv, Locked, Sweeping
<1>. QED
  BY <1>1, <1>2, <1>3, KindFields

\* A deal's first step.
LEMMA Started ==
  ASSUME TypeOK, NEW th \in Threads, NEW o \in Orders, terms[o] \in Kinds, StartDeal(th, o)
  PROVE  /\ ostate' = [ostate EXCEPT ![o] = IF IsBuy(o) THEN "Executed" ELSE @]
         /\ seen' = [seen EXCEPT ![th] = IF IsBuy(o) THEN portfolio[terms[o].security]
                                                     ELSE cash]
         /\ seen' \in [Threads -> Int]
         /\ UNCHANGED <<terms, cash, portfolio, trades>>
<1>1. portfolio[terms[o].security] \in Int /\ cash \in Int /\ seen \in [Threads -> Int]
  BY SignedType DEF TypeOK
<1>2. ostate' = [ostate EXCEPT ![o] = IF IsBuy(o) THEN "Executed" ELSE @]
  BY DEF StartDeal, SetExecuted, TypeOK
<1>3. seen' = [seen EXCEPT ![th] = IF IsBuy(o) THEN portfolio[terms[o].security] ELSE cash]
  BY DEF StartDeal, See
<1>4. seen' \in [Threads -> Int]
  BY <1>1, <1>3
<1>. QED
  BY <1>2, <1>3, <1>4 DEF StartDeal

\* Its write of the position, of a thread whose reading is still so: a purchase
\* has read the cash next, a sale is made with it.
LEMMA PositionWritten ==
  ASSUME TypeOK, NEW th \in Threads, NEW o \in Orders, NEW price \in Nat, terms[o] \in Kinds,
         seen[th] = portfolio[terms[o].security], WritePosition(th, o, price)
  PROVE  /\ portfolio' = [portfolio EXCEPT ![terms[o].security] = @ + Signed(o)]
         /\ portfolio' \in [Securities -> Int]
         /\ seen' \in [Threads -> Int] /\ \A x \in Threads : x # th => seen'[x] = seen[x]
         /\ UNCHANGED <<terms, pending, cash>>
         /\ trades' \in Seq(Trades)
         /\ IsBuy(o) => seen'[th] = cash /\ ostate' = ostate /\ trades' = trades
         /\ ~IsBuy(o) => /\ ostate' = [ostate EXCEPT ![o] = "Executed"]
                         /\ trades' = Append(trades, [order |-> o, price |-> price])
<1>1. terms[o].security \in Securities /\ Signed(o) \in Int
  BY SignedType
<1>2. /\ portfolio' = [portfolio EXCEPT ![terms[o].security] = @ + Signed(o)]
      /\ UNCHANGED <<terms, pending, cash>>
  BY DEF WritePosition
<1>3. portfolio' \in [Securities -> Int]
  BY <1>1, <1>2 DEF TypeOK
<1>4. seen' \in [Threads -> Int] /\ \A x \in Threads : x # th => seen'[x] = seen[x]
  BY DEF WritePosition, See, TypeOK
<1>5. IsBuy(o) => seen'[th] = cash /\ ostate' = ostate /\ trades' = trades
  BY DEF WritePosition, See, TypeOK
<1>6. ~IsBuy(o) => /\ ostate' = [ostate EXCEPT ![o] = "Executed"]
                   /\ trades' = Append(trades, [order |-> o, price |-> price])
  BY DEF WritePosition, SetExecuted
<1>7. [order |-> o, price |-> price] \in Trades /\ trades \in Seq(Trades)
  BY DEF Trades, TypeOK
<1>8. trades' \in Seq(Trades)
  BY <1>5, <1>6, <1>7
<1>. QED
  BY <1>2, <1>3, <1>4, <1>5, <1>6, <1>8

\* Its write of the cash: a sale has read the position next, a purchase is made.
LEMMA CashWritten ==
  ASSUME TypeOK, NEW th \in Threads, NEW o \in Orders, NEW price \in Nat, terms[o] \in Kinds,
         seen[th] = cash, WriteCash(th, o, price)
  PROVE  /\ cash' = cash - price * Signed(o) /\ cash' \in Int
         /\ seen' \in [Threads -> Int] /\ \A x \in Threads : x # th => seen'[x] = seen[x]
         /\ UNCHANGED <<terms, pending, ostate, portfolio>>
         /\ trades' \in Seq(Trades)
         /\ ~IsBuy(o) => seen'[th] = portfolio[terms[o].security] /\ trades' = trades
         /\ IsBuy(o) => trades' = Append(trades, [order |-> o, price |-> price])
<1>1. terms[o].security \in Securities /\ Signed(o) \in Int
  BY SignedType
<1>2. price * Signed(o) \in Int
  BY <1>1, Product
<1>3. cash' = cash - price * Signed(o) /\ UNCHANGED <<terms, pending, ostate, portfolio>>
  BY DEF WriteCash
<1>4. cash' \in Int
  BY <1>2, <1>3 DEF TypeOK
<1>5. seen' \in [Threads -> Int] /\ \A x \in Threads : x # th => seen'[x] = seen[x]
  BY <1>1 DEF WriteCash, See, TypeOK
<1>6. ~IsBuy(o) => seen'[th] = portfolio[terms[o].security] /\ trades' = trades
  BY DEF WriteCash, See, TypeOK
<1>7. IsBuy(o) => trades' = Append(trades, [order |-> o, price |-> price])
  BY DEF WriteCash
<1>8. [order |-> o, price |-> price] \in Trades /\ trades \in Seq(Trades)
  BY DEF Trades, TypeOK
<1>9. trades' \in Seq(Trades)
  BY <1>6, <1>7, <1>8
<1>. QED
  BY <1>3, <1>4, <1>5, <1>6, <1>7, <1>9


\* The decision fills the order in submitOrder, rejects it or enters it.
LEMMA Decision ==
  ASSUME CoreInv, Decide
  PROVE  /\ cur \in Orders /\ terms[cur] \in Kinds /\ ostate[cur] = "Unsubmitted"
         /\ mpc \notin Sweeping
         /\ \/ /\ Marketable(terms[cur]) /\ StartDeal("server", cur)
               /\ spc' = FirstWrite(cur) /\ UNCHANGED pending
            \/ /\ ostate' = [ostate EXCEPT ![cur] = "Rejected"] /\ spc' = "notify"
               /\ UNCHANGED <<terms, pending, cash, portfolio, trades, seen>>
            \/ /\ ostate' = [ostate EXCEPT ![cur] = "Submitted"] /\ spc' = "enable"
               /\ pending' = pending \cup {cur}
               /\ UNCHANGED <<terms, cash, portfolio, trades, seen>>
<1>1. spc = "decide"
  BY DEF Decide
<1>2. cur \in Orders /\ terms[cur] \in Kinds /\ mpc \notin Sweeping
  BY <1>1, InSubmit
<1>3. ostate[cur] = "Unsubmitted"
  BY <1>1, <1>2 DEF CoreInv, Numbered, Undecided
<1>4. CASE FillNow
  BY <1>2, <1>3, <1>4 DEF FillNow
<1>5. CASE Reject
  BY <1>2, <1>3, <1>5 DEF Reject
<1>6. CASE AddPending
  BY <1>2, <1>3, <1>6 DEF AddPending
<1>. QED
  BY <1>4, <1>5, <1>6 DEF Decide

\* The order a sweep begins to fill is a pending one, and nobody is in submitOrder.
LEMMA SweepFillFacts ==
  ASSUME CoreInv, OneTrade, NEW o \in Orders, SweepFill(o)
  PROVE  /\ o \in pending /\ ostate[o] = "Submitted"
         /\ terms[o] \in Kinds
         /\ mutex = "main" /\ spc = "idle"
         /\ StartDeal("main", o) /\ cursor' = o /\ mpc' = FirstWrite(o)
<1>1. o \in pending /\ mpc = "sweep"
  BY DEF SweepFill, IsNext, Rest
<1>2. ostate[o] = "Submitted"
  BY <1>1 DEF OneTrade
<1>3. terms[o] \in Kinds
  BY <1>2 DEF CoreInv, Numbered, TypeOK
<1>4. mutex = "main" /\ spc = "idle"
  BY <1>1 DEF CoreInv, Locked, Sweeping
<1>. QED
  BY <1>1, <1>2, <1>3, <1>4 DEF SweepFill

LEMMA SubmitCoreStep == CoreInv /\ SubmitStep => CoreInv'
<1>. SUFFICES ASSUME CoreInv, SubmitStep PROVE CoreInv'
  OBVIOUS
<1>. USE DEF CoreInv
<1>0. /\ spc # "idle" /\ UNCHANGED <<quote, mainVars>>
      /\ UNCHANGED <<mpc, tick, cursor>>
  BY DEF SubmitStep, ReadBid, ReadOffer, Decide, EnableTicker, SubmitPosition, SubmitCash,
    EndSubmit, mainVars
<1>1. /\ cur \in Orders /\ terms[cur] \in Kinds /\ mpc \notin Sweeping /\ mutex = "server"
      /\ Opposite(terms[cur]) \in Nat
  BY <1>0, InSubmit
<1>2. ASSUME ReadBid \/ ReadOffer
      PROVE  CoreInv'
  <2>1. terms[cur].security \in Securities
    BY <1>1, KindFields
  <2>2. bid' \in Nat /\ offer' \in Nat
    BY <1>2, <2>1 DEF ReadBid, ReadOffer, TypeOK
  <2>3. /\ spc \in {"readBid", "readOffer"} /\ spc' \in {"readOffer", "decide"}
        /\ UNCHANGED <<bookVars, enabled, mutex, cur, seen, notices>>
    BY <1>2 DEF ReadBid, ReadOffer
  <2>4. TypeOK'
    BY <1>0, <2>2, <2>3 DEF TypeOK, bookVars
  <2>. QED
    BY <1>0, <1>1, <2>3, <2>4
    DEF Locked, Numbered, Undecided, Submitting, Carried, Registers, Sweeping, Dealing, bookVars
<1>3. CASE Decide
  <2>1. /\ spc = "decide" /\ UNCHANGED <<terms, enabled, mutex, cur, bid, offer, notices>>
    BY <1>3, Decision DEF Decide, StartDeal
  <2>2. ostate[cur] = "Unsubmitted"
    BY <1>3, Decision
  <2>3. CASE /\ Marketable(terms[cur]) /\ StartDeal("server", cur)
             /\ spc' = FirstWrite(cur) /\ UNCHANGED pending
    <3>1. /\ ostate' = [ostate EXCEPT ![cur] = IF IsBuy(cur) THEN "Executed" ELSE @]
          /\ seen' = [seen EXCEPT !["server"] =
                        IF IsBuy(cur) THEN portfolio[terms[cur].security] ELSE cash]
          /\ seen' \in [Threads -> Int]
          /\ UNCHANGED <<terms, cash, portfolio, trades>>
      BY <1>1, <2>3, Started DEF Threads
    <3>2. /\ ostate' = [ostate EXCEPT ![cur] = ostate'[cur]]
          /\ IsBuy(cur) => ostate'[cur] = "Executed"
          /\ ~IsBuy(cur) => ostate'[cur] = "Unsubmitted"
          /\ spc' = IF IsBuy(cur) THEN "position" ELSE "cash"
      BY <1>1, <2>2, <2>3, <3>1 DEF TypeOK, FirstWrite
    <3>3. TypeOK'
      BY <1>0, <1>1, <2>1, <2>3, <3>1, <3>2 DEF TypeOK
    <3>4. Locked' /\ Carried'
      BY <1>0, <1>1, <2>1, <2>3, <3>2 DEF Locked, Carried, Sweeping
    <3>5. Numbered'
      BY <1>1, <2>1, <2>2, <3>2 DEF Numbered, Undecided, TypeOK, Dealing, IsBuy
    <3>6. Submitting'
      BY <2>1, <2>3, <3>2 DEF Submitting, Marketable, Opposite, IsBuy
    <3>7. Registers'
      BY <1>0, <1>1, <2>1, <3>1, <3>2 DEF Registers, Sweeping, TypeOK, Threads
    <3>. QED
      BY <3>3, <3>4, <3>5, <3>6, <3>7
  <2>4. CASE /\ ostate' = [ostate EXCEPT ![cur] = "Rejected"] /\ spc' = "notify"
             /\ UNCHANGED <<terms, pending, cash, portfolio, trades, seen>>
    <3>1. TypeOK'
      BY <1>0, <1>1, <2>1, <2>4 DEF TypeOK
    <3>2. Locked' /\ Carried' /\ Submitting' /\ Registers'
      BY <1>0, <1>1, <2>1, <2>4
      DEF Locked, Carried, Submitting, Registers, Sweeping, Dealing
    <3>3. Numbered'
      BY <1>1, <2>1, <2>2, <2>4 DEF Numbered, Undecided, TypeOK, Dealing
    <3>. QED
      BY <3>1, <3>2, <3>3
  <2>5. CASE /\ ostate' = [ostate EXCEPT ![cur] = "Submitted"] /\ spc' = "enable"
             /\ pending' = pending \cup {cur}
             /\ UNCHANGED <<terms, cash, portfolio, trades, seen>>
    <3>1. TypeOK'
      BY <1>0, <1>1, <2>1, <2>5 DEF TypeOK
    <3>2. Locked' /\ Carried' /\ Submitting' /\ Registers'
      BY <1>0, <1>1, <2>1, <2>5
      DEF TypeOK, Locked, Carried, Submitting, Registers, Sweeping, Dealing
    <3>3. Numbered'
      BY <1>1, <2>1, <2>2, <2>5 DEF Numbered, Undecided, TypeOK, Dealing
    <3>. QED
      BY <3>1, <3>2, <3>3
  <2>. QED
    BY <1>3, <2>3, <2>4, <2>5, Decision
<1>4. CASE EnableTicker
  <2>1. /\ spc = "enable" /\ spc' = "notify" /\ enabled' = enabled \cup {terms[cur].security}
        /\ UNCHANGED <<bookVars, mutex, cur, bid, offer, seen, notices>>
    BY <1>4 DEF EnableTicker
  <2>2. enabled' \in SUBSET Securities
    BY <1>1, <2>1, KindFields DEF TypeOK
  <2>3. TypeOK'
    BY <1>0, <2>1, <2>2 DEF TypeOK, bookVars
  <2>. QED
    BY <1>0, <1>1, <2>1, <2>3
    DEF Locked, Numbered, Undecided, Submitting, Carried, Registers, Sweeping, Dealing, bookVars
<1>5. CASE SubmitPosition
  <2>1. /\ spc = "position" /\ spc' = IF IsBuy(cur) THEN "cash" ELSE "notify"
        /\ UNCHANGED <<enabled, mutex, cur, bid, offer, notices>>
        /\ WritePosition("server", cur, Opposite(terms[cur]))
    BY <1>5 DEF SubmitPosition, LastWrite
  <2>2. seen["server"] = portfolio[terms[cur].security]
    BY <2>1 DEF Registers
  <2>3. /\ portfolio' \in [Securities -> Int] /\ seen' \in [Threads -> Int]
        /\ UNCHANGED <<terms, pending, cash>> /\ trades' \in Seq(Trades)
        /\ IsBuy(cur) => seen'["server"] = cash /\ ostate' = ostate
        /\ ~IsBuy(cur) => ostate' = [ostate EXCEPT ![cur] = "Executed"]
    BY <1>1, <2>1, <2>2, PositionWritten DEF Threads
  <2>4. TypeOK'
    BY <1>0, <1>1, <2>1, <2>3 DEF TypeOK
  <2>5. Locked' /\ Carried' /\ Registers'
    BY <1>0, <1>1, <2>1, <2>3 DEF Locked, Carried, Registers, Sweeping
  <2>6. Numbered'
    BY <1>1, <2>1, <2>3 DEF Numbered, Undecided, TypeOK, Dealing, IsBuy
  <2>7. Submitting'
    BY <2>1, <2>3 DEF Submitting, Marketable, Opposite, Dealing, IsBuy
  <2>. QED
    BY <2>4, <2>5, <2>6, <2>7
<1>6. CASE SubmitCash
  <2>1. /\ spc = "cash" /\ spc' = IF IsBuy(cur) THEN "notify" ELSE "position"
        /\ UNCHANGED <<enabled, mutex, cur, bid, offer, notices>>
        /\ WriteCash("server", cur, Opposite(terms[cur]))
    BY <1>6 DEF SubmitCash, LastWrite
  <2>2. seen["server"] = cash
    BY <2>1 DEF Registers
  <2>3. /\ cash' \in Int /\ seen' \in [Threads -> Int]
        /\ UNCHANGED <<terms, pending, ostate, portfolio>> /\ trades' \in Seq(Trades)
        /\ ~IsBuy(cur) => seen'["server"] = portfolio[terms[cur].security]
    BY <1>1, <2>1, <2>2, CashWritten DEF Threads
  <2>4. TypeOK'
    BY <1>0, <1>1, <2>1, <2>3 DEF TypeOK
  <2>5. Locked' /\ Carried' /\ Registers'
    BY <1>0, <1>1, <2>1, <2>3 DEF Locked, Carried, Registers, Sweeping
  <2>6. Numbered'
    BY <1>1, <2>1, <2>3 DEF Numbered, Undecided, TypeOK, Dealing, IsBuy
  <2>7. Submitting'
    BY <2>1, <2>3 DEF Submitting, Marketable, Opposite, Dealing, IsBuy
  <2>. QED
    BY <2>4, <2>5, <2>6, <2>7
<1>7. CASE EndSubmit
  <2>1. /\ spc = "notify" /\ spc' = "idle" /\ cur' = cur + 1 /\ mutex' = None
        /\ bid' = 0 /\ offer' = 0 /\ notices' = Append(notices, cur)
        /\ UNCHANGED <<bookVars, enabled, seen>>
    BY <1>7 DEF EndSubmit, Announce
  <2>2. TypeOK'
    <3>1. cur + 1 \in 0 .. MaxOrders /\ notices' \in Seq(Orders)
      BY <1>1, <2>1, VirtualBrokerAssumption DEF TypeOK, Orders
    <3>. QED
      BY <1>0, <2>1, <3>1 DEF TypeOK, bookVars
  <2>3. Locked' /\ Carried' /\ Submitting' /\ Registers'
    BY <1>0, <1>1, <2>1, VirtualBrokerAssumption
    DEF Locked, Carried, Submitting, Registers, Sweeping, Dealing, bookVars
  <2>4. Numbered'
    BY <1>1, <2>1 DEF Numbered, Undecided, TypeOK, Orders, bookVars, Dealing
  <2>. QED
    BY <2>2, <2>3, <2>4
<1>. QED
  BY <1>2, <1>3, <1>4, <1>5, <1>6, <1>7 DEF SubmitStep

LEMMA TickCoreStep == CoreInv /\ OneTrade /\ TickStep => CoreInv'
<1>. SUFFICES ASSUME CoreInv, OneTrade, TickStep PROVE CoreInv'
  OBVIOUS
<1>. USE DEF CoreInv
<1>0. UNCHANGED <<quote, spc, cur, bid, offer>>
  BY DEF TickStep, CheckEnabled, BeginSweep, SweepFill, SweepSkip, SweepPosition, SweepCash,
    SweepErase, SweepNotify, EndSweep, serverVars
<1>1. CASE CheckEnabled
  BY <1>0, <1>1 DEF CheckEnabled, TypeOK, Locked, Numbered, Undecided, Submitting, Marketable,
    Opposite, IsBuy, Carried, Registers, bookVars, Sweeping
<1>2. CASE BeginSweep
  <2>1. /\ mpc = "lock" /\ mutex = None /\ mutex' = "main" /\ mpc' = "sweep"
        /\ UNCHANGED <<bookVars, enabled, tick, cursor, seen, notices>>
    BY <1>2 DEF BeginSweep
  <2>2. spc = "idle"
    BY <2>1, VirtualBrokerAssumption DEF Locked
  <2>. QED
    BY <1>0, <2>1, <2>2 DEF TypeOK, Locked, Numbered, Undecided, Submitting, Carried, Registers,
      bookVars, Sweeping, Dealing
<1>3. ASSUME NEW o \in Orders, SweepFill(o)
      PROVE  CoreInv'
  <2>1. /\ o \in pending /\ ostate[o] = "Submitted" /\ terms[o] \in Kinds
        /\ mutex = "main" /\ spc = "idle"
        /\ StartDeal("main", o) /\ cursor' = o /\ mpc' = FirstWrite(o)
    BY <1>3, SweepFillFacts
  <2>2. /\ mpc = "sweep" /\ UNCHANGED <<pending, enabled, mutex, tick, notices>>
    BY <1>3 DEF SweepFill
  <2>3. /\ ostate' = [ostate EXCEPT ![o] = IF IsBuy(o) THEN "Executed" ELSE @]
        /\ seen' = [seen EXCEPT !["main"] = IF IsBuy(o) THEN portfolio[terms[o].security]
                                                        ELSE cash]
        /\ seen' \in [Threads -> Int]
        /\ UNCHANGED <<terms, cash, portfolio, trades>>
    BY <2>1, Started DEF Threads
  <2>4. /\ ostate' = [ostate EXCEPT ![o] = ostate'[o]]
        /\ ostate'[o] = IF IsBuy(o) THEN "Executed" ELSE "Submitted"
        /\ mpc' = IF IsBuy(o) THEN "position" ELSE "cash"
    BY <2>1, <2>3 DEF TypeOK, FirstWrite
  <2>5. o \in 0 .. MaxOrders
    BY VirtualBrokerAssumption DEF Orders
  <2>6. TypeOK'
    BY <1>0, <2>1, <2>2, <2>3, <2>4, <2>5 DEF TypeOK
  <2>7. Locked' /\ Submitting'
    BY <1>0, <2>1, <2>2, <2>4 DEF Locked, Submitting, Sweeping, Dealing
  <2>8. Carried' /\ Registers'
    BY <1>0, <2>1, <2>2, <2>3, <2>4 DEF Carried, Registers, IsBuy, TypeOK, Threads
  <2>9. Numbered'
    BY <1>0, <2>1, <2>3, <2>4 DEF Numbered, Undecided, TypeOK, Dealing
  <2>. QED
    BY <2>6, <2>7, <2>8, <2>9
<1>4. ASSUME NEW o \in Orders, SweepSkip(o)
      PROVE  CoreInv'
  <2>1. o + 1 \in 0 .. MaxOrders
    BY VirtualBrokerAssumption DEF Orders
  <2>2. /\ mpc = "sweep" /\ cursor' = o + 1
        /\ UNCHANGED <<bookVars, enabled, mutex, mpc, tick, seen, notices>>
    BY <1>4 DEF SweepSkip
  <2>. QED
    BY <1>0, <2>1, <2>2 DEF TypeOK, Locked, Numbered, Undecided, Submitting, Marketable,
      Opposite, IsBuy, Carried, Registers, bookVars
<1>5. ASSUME SweepPosition \/ SweepCash \/ SweepErase
      PROVE  CoreInv'
  <2>1. /\ cursor \in Orders /\ terms[cursor] \in Kinds /\ cursor \in pending
        /\ terms[cursor].price \in Nat /\ spc = "idle" /\ mutex = "main"
    BY <1>5, InFill DEF SweepPosition, SweepCash, SweepErase
  <2>2. CASE SweepPosition
    <3>1. /\ mpc = "position" /\ mpc' = IF IsBuy(cursor) THEN "cash" ELSE "erase"
          /\ UNCHANGED <<enabled, mutex, tick, cursor, notices>>
          /\ WritePosition("main", cursor, terms[cursor].price)
      BY <2>2 DEF SweepPosition, LastWrite
    <3>2. seen["main"] = portfolio[terms[cursor].security]
      BY <3>1 DEF Registers
    <3>3. /\ portfolio' \in [Securities -> Int] /\ seen' \in [Threads -> Int]
          /\ UNCHANGED <<terms, pending, cash>> /\ trades' \in Seq(Trades)
          /\ IsBuy(cursor) => seen'["main"] = cash /\ ostate' = ostate
          /\ ~IsBuy(cursor) => ostate' = [ostate EXCEPT ![cursor] = "Executed"]
      BY <2>1, <3>1, <3>2, PositionWritten DEF Threads
    <3>4. TypeOK'
      BY <1>0, <2>1, <3>1, <3>3 DEF TypeOK
    <3>5. Locked' /\ Submitting' /\ Registers'
      BY <1>0, <2>1, <3>1, <3>3 DEF Locked, Submitting, Registers, Sweeping, Dealing
    <3>6. Carried'
      BY <1>0, <2>1, <3>1, <3>3 DEF Carried, TypeOK, IsBuy
    <3>7. Numbered'
      BY <1>0, <2>1, <3>1, <3>3 DEF Numbered, Undecided, TypeOK, Dealing, Carried
    <3>. QED
      BY <3>4, <3>5, <3>6, <3>7
  <2>3. CASE SweepCash
    <3>1. /\ mpc = "cash" /\ mpc' = IF IsBuy(cursor) THEN "erase" ELSE "position"
          /\ UNCHANGED <<enabled, mutex, tick, cursor, notices>>
          /\ WriteCash("main", cursor, terms[cursor].price)
      BY <2>3 DEF SweepCash, LastWrite
    <3>2. seen["main"] = cash
      BY <3>1 DEF Registers
    <3>3. /\ cash' \in Int /\ seen' \in [Threads -> Int]
          /\ UNCHANGED <<terms, pending, ostate, portfolio>> /\ trades' \in Seq(Trades)
          /\ ~IsBuy(cursor) => seen'["main"] = portfolio[terms[cursor].security]
      BY <2>1, <3>1, <3>2, CashWritten DEF Threads
    <3>4. TypeOK'
      BY <1>0, <2>1, <3>1, <3>3 DEF TypeOK
    <3>5. Locked' /\ Submitting' /\ Registers'
      BY <1>0, <2>1, <3>1, <3>3 DEF Locked, Submitting, Registers, Sweeping, Dealing
    <3>6. Carried'
      BY <1>0, <2>1, <3>1, <3>3 DEF Carried, IsBuy
    <3>7. Numbered'
      BY <1>0, <2>1, <3>3 DEF Numbered, Undecided, Dealing
    <3>. QED
      BY <3>4, <3>5, <3>6, <3>7
  <2>4. CASE SweepErase
    <3>1. /\ mpc = "erase" /\ mpc' = "notify" /\ cursor' = cursor + 1
          /\ pending' = pending \ {cursor} /\ enabled' \subseteq enabled
          /\ UNCHANGED <<ostate, terms, cash, portfolio, trades, mutex, tick, seen, notices>>
      BY <2>4 DEF SweepErase, Erase, UnsubscribeIfNeeded
    <3>2. cursor + 1 \in 1 .. MaxOrders /\ cursor' - 1 = cursor
      BY <2>1, <3>1, VirtualBrokerAssumption DEF Orders
    <3>3. TypeOK'
      BY <1>0, <2>1, <3>1, <3>2 DEF TypeOK
    <3>4. Locked' /\ Submitting' /\ Registers' /\ Numbered'
      BY <1>0, <2>1, <3>1
      DEF Locked, Submitting, Registers, Numbered, Undecided, Sweeping, Dealing
    <3>5. Carried'
      BY <1>0, <3>1, <3>2 DEF Carried
    <3>. QED
      BY <3>3, <3>4, <3>5
  <2>. QED
    BY <1>5, <2>2, <2>3, <2>4
<1>6. CASE SweepNotify
  <2>1. cursor - 1 \in Orders
    BY <1>6, VirtualBrokerAssumption DEF SweepNotify, Carried, TypeOK, Orders
  <2>2. notices' \in Seq(Orders)
    BY <1>6, <2>1 DEF SweepNotify, Announce, TypeOK
  <2>3. /\ mpc = "notify" /\ mpc' = "sweep"
        /\ UNCHANGED <<bookVars, enabled, mutex, tick, cursor, seen>>
    BY <1>6 DEF SweepNotify
  <2>. QED
    BY <1>0, <2>2, <2>3 DEF TypeOK, Locked, Numbered, Undecided, Submitting, Marketable,
      Opposite, IsBuy, Carried, Registers, bookVars, Sweeping
<1>7. CASE EndSweep
  <2>1. /\ mpc = "sweep" /\ mpc' = "idle" /\ tick' = None /\ cursor' = 0 /\ mutex' = None
        /\ UNCHANGED <<bookVars, enabled, seen, notices>>
    BY <1>7 DEF EndSweep
  <2>2. spc = "idle" /\ 0 \in 0 .. MaxOrders
    BY <2>1, VirtualBrokerAssumption DEF Locked, Sweeping
  <2>. QED
    BY <1>0, <2>1, <2>2, VirtualBrokerAssumption DEF TypeOK, Locked, Numbered, Undecided,
      Submitting, Carried, Registers, bookVars, Sweeping, Dealing
<1>. QED
  BY <1>1, <1>2, <1>3, <1>4, <1>5, <1>6, <1>7 DEF TickStep

LEMMA CoreStep == CoreInv /\ OneTrade /\ [Next]_vars => CoreInv'
<1>. SUFFICES ASSUME CoreInv, OneTrade, [Next]_vars PROVE CoreInv'
  OBVIOUS
<1>. USE DEF CoreInv
<1>1. ASSUME NEW k \in Kinds, BeginSubmit(k)
      PROVE  CoreInv'
  <2>1. /\ spc = "idle" /\ mutex = None /\ mutex' = "server" /\ spc' = "readBid"
        /\ ostate' = [ostate EXCEPT ![cur] = "Unsubmitted"]
        /\ terms' = [terms EXCEPT ![cur] = k]
        /\ UNCHANGED <<pending, cash, portfolio, trades, quote, enabled, cur, bid, offer,
                       mpc, tick, cursor, seen, notices>>
    BY <1>1 DEF BeginSubmit, mainVars
  <2>2. cur \in Orders /\ cur < MaxOrders /\ mpc \notin Sweeping
    BY <1>1, <2>1, VirtualBrokerAssumption DEF BeginSubmit, TypeOK, Orders, Locked
  <2>3. TypeOK'
    BY <2>1, <2>2 DEF TypeOK
  <2>4. Locked' /\ Submitting' /\ Carried' /\ Registers'
    BY <2>1, <2>2 DEF Locked, Submitting, Carried, Registers, Sweeping, Dealing
  <2>5. Numbered'
    BY <2>1, <2>2, VirtualBrokerAssumption DEF Numbered, Undecided, TypeOK, Orders, Dealing
  <2>. QED
    BY <2>3, <2>4, <2>5
<1>2. ASSUME NEW t \in Ticks, WriteQuote(t)
      PROVE  CoreInv'
  <2>1. quote' \in [Securities \X {"bid", "offer"} -> Nat]
    BY <1>2, TickFields DEF WriteQuote, TypeOK
  <2>2. /\ mpc = "idle" /\ mpc' = "check" /\ tick' = t /\ t # None
        /\ UNCHANGED <<bookVars, enabled, mutex, spc, cur, bid, offer, cursor, seen, notices>>
    BY <1>2, VirtualBrokerAssumption DEF WriteQuote, serverVars
  <2>. QED
    BY <2>1, <2>2 DEF TypeOK, Locked, Numbered, Undecided, Submitting, Marketable, Opposite,
      IsBuy, Carried, Registers, bookVars, Sweeping
<1>3. CASE UNCHANGED vars
  BY <1>3 DEF vars, TypeOK, Locked, Numbered, Undecided, Submitting, Marketable, Opposite,
    IsBuy, Carried, Registers, bookVars, serverVars, mainVars
<1>. QED
  BY <1>1, <1>2, <1>3, SubmitCoreStep, TickCoreStep DEF Next

----------------------------------------------------------------------------
(* The book: subscriptions, trades and limits. *)

\* The order the sweep is filling and has not yet erased.
Filling(o) == mpc \in {"position", "cash", "erase"} /\ o = cursor

\* The steps that neither touch the book nor begin or end a deal.
Quiet ==
  /\ UNCHANGED <<bookVars, enabled>>
  /\ \/ UNCHANGED <<spc, cur, bid, offer>>
     \/ spc \notin {"position", "cash", "enable"} /\ spc' \notin {"position", "cash", "enable"}
  /\ \/ UNCHANGED <<mpc, cursor>>
     \/ mpc \notin {"position", "cash", "erase"} /\ mpc' \notin {"position", "cash", "erase"}

LEMMA BookSteps ==
  ASSUME [Next]_vars
  PROVE  \/ Quiet
         \/ \E k \in Kinds : BeginSubmit(k)
         \/ Decide \/ EnableTicker \/ SubmitPosition \/ SubmitCash
         \/ \E o \in Orders : SweepFill(o)
         \/ SweepPosition \/ SweepCash \/ SweepErase
<1>1. CASE ReadBid \/ ReadOffer \/ EndSubmit
  BY <1>1 DEF ReadBid, ReadOffer, EndSubmit, Quiet, mainVars
<1>2. CASE (\E t \in Ticks : WriteQuote(t)) \/ CheckEnabled \/ BeginSweep
  BY <1>2 DEF WriteQuote, CheckEnabled, BeginSweep, Quiet, serverVars
<1>3. CASE (\E o \in Orders : SweepSkip(o)) \/ SweepNotify \/ EndSweep
  BY <1>3 DEF SweepSkip, SweepNotify, EndSweep, Quiet, serverVars
<1>4. CASE UNCHANGED vars
  BY <1>4 DEF vars, Quiet, serverVars, mainVars
<1>. QED
  BY <1>1, <1>2, <1>3, <1>4 DEF Next, SubmitStep, TickStep

\* The trades are of orders that are executed or were before their deal was done.
LEMMA TradeOrders ==
  ASSUME TypeOK, OneTrade
  PROVE  \A i \in DOMAIN trades : /\ trades[i].order \in Orders
                                  /\ ostate[trades[i].order] = "Executed"
                                  /\ ~InDeal(trades[i].order)
<1>1. \A i \in DOMAIN trades : trades[i] \in Trades
  BY DEF TypeOK
<1>2. \A i \in DOMAIN trades : trades[i].order \in Orders
  BY <1>1 DEF Trades
<1>. QED
  BY <1>2 DEF OneTrade, Traded

LEMMA SameBook ==
  ASSUME OneTrade, LimitRespected, UNCHANGED <<ostate, terms, pending, trades>>,
         \A o \in Orders : (InDeal(o)' <=> InDeal(o)) /\ (Filling(o)' <=> Filling(o))
  PROVE  OneTrade' /\ LimitRespected'
<1>1. \A o \in Orders : Traded(o)' <=> Traded(o)
  BY DEF Traded
<1>2. OneTrade'
  BY <1>1 DEF OneTrade, Filling
<1>3. LimitRespected'
  BY DEF LimitRespected
<1>. QED
  BY <1>2, <1>3

\* One more trade, of the order that was in a deal, at its limit or better.
LEMMA Dealt ==
  ASSUME TypeOK, OneTrade, LimitRespected, UNCHANGED <<terms, pending>>,
         NEW o \in Orders, NEW price \in Nat, terms[o] \in Kinds,
         terms[o].type = "limit" /\ terms[o].operation = "buy" => price <= terms[o].price,
         terms[o].type = "limit" /\ terms[o].operation = "sell" => price >= terms[o].price,
         trades' = Append(trades, [order |-> o, price |-> price]),
         InDeal(o), ~InDeal(o)', ostate'[o] = "Executed",
         \A q \in Orders : q # o => ostate'[q] = ostate[q] /\ (InDeal(q)' <=> InDeal(q)),
         o \in pending <=> Filling(o)', \A q \in Orders : Filling(q)' <=> Filling(q)
  PROVE  OneTrade' /\ LimitRespected'
<1>1. trades \in Seq(Trades)
  BY DEF TypeOK
<1>2. /\ DOMAIN trades' = DOMAIN trades \cup {Len(trades) + 1}
      /\ Len(trades) + 1 \notin DOMAIN trades
      /\ \A i \in DOMAIN trades : trades'[i] = trades[i] /\ trades[i] \in Trades
      /\ trades'[Len(trades) + 1] = [order |-> o, price |-> price]
  BY <1>1
<1>3. \A i \in DOMAIN trades : trades[i].order # o /\ trades[i].order \in Orders
  BY TradeOrders
<1>4. ASSUME NEW i \in DOMAIN trades', NEW j \in DOMAIN trades',
             trades'[i].order = trades'[j].order
      PROVE  i = j
  BY <1>2, <1>3, <1>4 DEF OneTrade
<1>5. ASSUME NEW q \in Orders
      PROVE  Traded(q)' <=> ostate'[q] = "Executed" /\ ~InDeal(q)'
  <2>1. CASE q = o
    BY <1>2, <2>1 DEF Traded
  <2>2. CASE q # o
    <3>1. Traded(q)' <=> Traded(q)
      BY <1>2, <2>2 DEF Traded
    <3>. QED
      BY <2>2, <3>1 DEF OneTrade
  <2>. QED
    BY <2>1, <2>2
<1>6. \A q \in Orders : q \in pending' <=> (ostate'[q] = "Submitted" \/ Filling(q)')
  <2>1. \A q \in Orders : q \in pending <=> (ostate[q] = "Submitted" \/ Filling(q))
    BY DEF OneTrade, Filling
  <2>. QED
    BY <2>1
<1>7. LimitRespected'
  BY <1>2, VirtualBrokerAssumption DEF LimitRespected
<1>. QED
  BY <1>4, <1>5, <1>6, <1>7 DEF OneTrade, Filling

LEMMA SubmitBookStep ==
  ASSUME CoreInv, BookInv, Decide \/ EnableTicker \/ SubmitPosition \/ SubmitCash
  PROVE  BookInv'
<1>. USE DEF BookInv
<1>0. spc \in {"decide", "enable", "position", "cash"} /\ UNCHANGED <<terms, cur, mpc, cursor>>
  BY DEF Decide, FillNow, StartDeal, Reject, AddPending, EnableTicker, SubmitPosition,
    WritePosition, SubmitCash, WriteCash, mainVars, bookVars
<1>1. /\ cur \in Orders /\ terms[cur] \in Kinds /\ mpc \notin Sweeping
      /\ Opposite(terms[cur]) \in Nat
  BY <1>0, InSubmit
<1>2. \A q \in Orders : /\ InDeal(q) <=> spc \in Dealing /\ q = cur
                        /\ InDeal(q)' <=> spc' \in Dealing /\ q = cur
                        /\ ~Filling(q) /\ ~Filling(q)'
  BY <1>0, <1>1 DEF InDeal, Filling, Sweeping, Dealing
<1>3. cur \in pending <=> ostate[cur] = "Submitted"
  BY <1>1, <1>2 DEF OneTrade, Filling
<1>4. CASE Decide
  <2>1. /\ spc = "decide" /\ ostate[cur] = "Unsubmitted" /\ cur \notin pending
        /\ UNCHANGED enabled
    BY <1>3, <1>4, Decision DEF Decide
  <2>2. ASSUME NEW s \in {"Unsubmitted", "Executed", "Rejected"},
               ostate' = [ostate EXCEPT ![cur] = s],
               s \in {"Unsubmitted", "Executed"} <=> spc' \in Dealing, spc' # "enable",
               UNCHANGED <<pending, trades>>
        PROVE  BookInv'
    <3>1. EnabledIffPending'
      BY <1>0, <2>1, <2>2 DEF EnabledIffPending
    <3>2. \A q \in Orders : Traded(q)' <=> Traded(q)
      BY <2>2 DEF Traded
    <3>3. OneTrade'
      BY <1>1, <1>2, <2>1, <2>2, <3>2 DEF OneTrade, CoreInv, TypeOK, Filling, Dealing
    <3>4. LimitRespected'
      BY <1>0, <2>2 DEF LimitRespected
    <3>. QED
      BY <3>1, <3>3, <3>4
  <2>3. CASE /\ Marketable(terms[cur]) /\ StartDeal("server", cur)
             /\ spc' = FirstWrite(cur) /\ UNCHANGED pending
    <3>1. /\ ostate' = [ostate EXCEPT ![cur] = IF IsBuy(cur) THEN "Executed" ELSE @]
          /\ UNCHANGED trades
      BY <1>1, <2>3, Started DEF Threads, CoreInv
    <3>2. \E s \in {"Unsubmitted", "Executed"} : ostate' = [ostate EXCEPT ![cur] = s]
      BY <2>1, <3>1
    <3>3. spc' \in Dealing /\ spc' # "enable"
      BY <2>3 DEF FirstWrite, Dealing
    <3>. QED
      BY <2>2, <2>3, <3>1, <3>2, <3>3
  <2>4. CASE /\ ostate' = [ostate EXCEPT ![cur] = "Rejected"] /\ spc' = "notify"
             /\ UNCHANGED <<terms, pending, cash, portfolio, trades, seen>>
    BY <2>2, <2>4 DEF Dealing
  <2>5. CASE /\ ostate' = [ostate EXCEPT ![cur] = "Submitted"] /\ spc' = "enable"
             /\ pending' = pending \cup {cur}
             /\ UNCHANGED <<terms, cash, portfolio, trades, seen>>
    <3>1. EnabledIffPending'
      BY <1>0, <2>1, <2>5 DEF EnabledIffPending
    <3>2. \A q \in Orders : Traded(q)' <=> Traded(q)
      BY <2>5 DEF Traded
    <3>3. OneTrade'
      BY <1>1, <1>2, <2>1, <2>5, <3>2 DEF OneTrade, CoreInv, TypeOK, Filling, Dealing
    <3>4. LimitRespected'
      BY <2>5 DEF LimitRespected
    <3>. QED
      BY <3>1, <3>3, <3>4
  <2>. QED
    BY <1>4, <2>3, <2>4, <2>5, Decision DEF CoreInv
<1>5. CASE EnableTicker
  <2>1. /\ spc = "enable" /\ spc' = "notify" /\ enabled' = enabled \cup {terms[cur].security}
        /\ UNCHANGED bookVars
    BY <1>5 DEF EnableTicker
  <2>2. cur \in pending
    BY <1>3, <2>1 DEF CoreInv, Submitting
  <2>3. EnabledIffPending'
    BY <1>0, <2>1, <2>2 DEF EnabledIffPending, bookVars
  <2>4. OneTrade' /\ LimitRespected'
    BY <1>2, <2>1, SameBook DEF bookVars, Dealing
  <2>. QED
    BY <2>3, <2>4
<1>6. ASSUME SubmitPosition \/ SubmitCash
      PROVE  BookInv'
  <2> DEFINE price == Opposite(terms[cur])
  <2>1. /\ spc \in Dealing /\ spc' \in {"position", "cash", "notify"}
        /\ UNCHANGED <<pending, enabled>>
    BY <1>6 DEF SubmitPosition, SubmitCash, WritePosition, WriteCash, Dealing
  <2>2. EnabledIffPending'
    BY <1>0, <2>1 DEF EnabledIffPending, Dealing
  <2>3. \/ spc' \in Dealing /\ UNCHANGED <<ostate, trades>>
        \/ /\ spc' \notin Dealing /\ ostate' = [ostate EXCEPT ![cur] = "Executed"]
           /\ trades' = Append(trades, [order |-> cur, price |-> price])
    <3>1. CASE SubmitPosition
      <4>1. seen["server"] = portfolio[terms[cur].security]
        BY <3>1 DEF SubmitPosition, CoreInv, Registers
      <4>2. WritePosition("server", cur, price) /\ spc' = IF IsBuy(cur) THEN "cash" ELSE "notify"
        BY <3>1 DEF SubmitPosition, LastWrite
      <4>3. /\ IsBuy(cur) => ostate' = ostate /\ trades' = trades
            /\ ~IsBuy(cur) => /\ ostate' = [ostate EXCEPT ![cur] = "Executed"]
                              /\ trades' = Append(trades, [order |-> cur, price |-> price])
        BY <1>1, <4>1, <4>2, PositionWritten DEF Threads, CoreInv
      <4>. QED
        BY <4>2, <4>3 DEF Dealing
    <3>2. CASE SubmitCash
      <4>1. seen["server"] = cash
        BY <3>2 DEF SubmitCash, CoreInv, Registers
      <4>2. WriteCash("server", cur, price) /\ spc' = IF IsBuy(cur) THEN "notify" ELSE "position"
        BY <3>2 DEF SubmitCash, LastWrite
      <4>3. /\ ostate' = ostate /\ (~IsBuy(cur) => trades' = trades)
            /\ IsBuy(cur) => trades' = Append(trades, [order |-> cur, price |-> price])
        BY <1>1, <4>1, <4>2, CashWritten DEF Threads, CoreInv
      <4>4. IsBuy(cur) => ostate[cur] = "Executed"
        BY <2>1 DEF CoreInv, Submitting
      <4>5. IsBuy(cur) => ostate' = [ostate EXCEPT ![cur] = "Executed"]
        BY <4>3, <4>4 DEF CoreInv, TypeOK
      <4>. QED
        BY <4>2, <4>3, <4>5 DEF Dealing
    <3>. QED
      BY <1>6, <3>1, <3>2
  <2>4. CASE spc' \in Dealing /\ UNCHANGED <<ostate, trades>>
    <3>1. OneTrade' /\ LimitRespected'
      BY <1>0, <1>2, <2>1, <2>4, SameBook
    <3>. QED
      BY <2>2, <3>1
  <2>5. CASE /\ spc' \notin Dealing /\ ostate' = [ostate EXCEPT ![cur] = "Executed"]
             /\ trades' = Append(trades, [order |-> cur, price |-> price])
    <3>1. /\ terms[cur].type = "limit" /\ terms[cur].operation = "buy"
               => price <= terms[cur].price
          /\ terms[cur].type = "limit" /\ terms[cur].operation = "sell"
               => price >= terms[cur].price
      BY <2>1 DEF CoreInv, Submitting, Marketable, Opposite
    <3>2. /\ ostate'[cur] = "Executed" /\ \A q \in Orders : q # cur => ostate'[q] = ostate[q]
          /\ InDeal(cur) /\ ~InDeal(cur)'
          /\ \A q \in Orders : q # cur => (InDeal(q)' <=> InDeal(q))
          /\ \A q \in Orders : Filling(q)' <=> Filling(q)
      BY <1>0, <1>1, <1>2, <2>1, <2>5 DEF CoreInv, TypeOK
    <3>3. cur \in pending <=> Filling(cur)'
      BY <1>0, <1>1, <1>2, <1>3, <2>1 DEF CoreInv, Submitting
    <3>4. OneTrade' /\ LimitRespected'
      BY <1>0, <1>1, <2>1, <2>5, <3>1, <3>2, <3>3, Dealt DEF CoreInv
    <3>. QED
      BY <2>2, <3>4
  <2>. QED
    BY <2>3, <2>4, <2>5
<1>. QED
  BY <1>4, <1>5, <1>6

LEMMA TickBookStep ==
  ASSUME CoreInv, BookInv,
         \/ \E o \in Orders : SweepFill(o)
         \/ SweepPosition \/ SweepCash \/ SweepErase
  PROVE  BookInv'
<1>. USE DEF BookInv
<1>1. ASSUME NEW o \in Orders, SweepFill(o)
      PROVE  BookInv'
  <2>1. /\ o \in pending /\ ostate[o] = "Submitted" /\ terms[o] \in Kinds /\ spc = "idle"
        /\ StartDeal("main", o) /\ cursor' = o /\ mpc' = FirstWrite(o)
    BY <1>1, SweepFillFacts
  <2>2. mpc = "sweep" /\ UNCHANGED <<pending, enabled, spc, cur>>
    BY <1>1 DEF SweepFill, serverVars
  <2>3. /\ ostate' = [ostate EXCEPT ![o] = IF IsBuy(o) THEN "Executed" ELSE @]
        /\ UNCHANGED <<terms, trades>>
    BY <2>1, Started DEF Threads, CoreInv
  <2>4. /\ \A q \in Orders : q # o => ostate'[q] = ostate[q]
        /\ ostate'[o] \in {"Submitted", "Executed"}
    BY <2>1, <2>3 DEF CoreInv, TypeOK
  <2>5. \A q \in Orders : /\ ~InDeal(q) /\ ~Filling(q)
                          /\ InDeal(q)' <=> q = o
                          /\ Filling(q)' <=> q = o
    BY <2>1, <2>2 DEF InDeal, Filling, FirstWrite
  <2>6. \A q \in Orders : Traded(q)' <=> Traded(q)
    BY <2>3 DEF Traded
  <2>7. EnabledIffPending'
    BY <2>1, <2>2, <2>3 DEF EnabledIffPending
  <2>8. OneTrade'
    BY <2>1, <2>2, <2>3, <2>4, <2>5, <2>6 DEF OneTrade, Filling
  <2>9. LimitRespected'
    BY <2>3 DEF LimitRespected
  <2>. QED
    BY <2>7, <2>8, <2>9
<1>2. ASSUME SweepPosition \/ SweepCash
      PROVE  BookInv'
  <2> DEFINE price == terms[cursor].price
  <2>1. /\ mpc \in Dealing /\ mpc' \in {"position", "cash", "erase"}
        /\ UNCHANGED <<terms, cursor, pending, enabled, spc, cur>>
    BY <1>2 DEF SweepPosition, SweepCash, WritePosition, WriteCash, Dealing, serverVars
  <2>2. /\ cursor \in Orders /\ cursor \in pending /\ terms[cursor] \in Kinds
        /\ price \in Nat /\ spc = "idle"
    BY <2>1, InFill DEF Dealing
  <2>3. \A q \in Orders : /\ InDeal(q) <=> q = cursor
                          /\ InDeal(q)' <=> mpc' \in Dealing /\ q = cursor
                          /\ Filling(q) <=> q = cursor
                          /\ Filling(q)' <=> q = cursor
    BY <2>1, <2>2 DEF InDeal, Filling, Dealing
  <2>4. EnabledIffPending'
    BY <2>1, <2>2 DEF EnabledIffPending
  <2>5. \/ mpc' \in Dealing /\ UNCHANGED <<ostate, trades>>
        \/ /\ mpc' \notin Dealing /\ ostate' = [ostate EXCEPT ![cursor] = "Executed"]
           /\ trades' = Append(trades, [order |-> cursor, price |-> price])
    <3>1. CASE SweepPosition
      <4>1. seen["main"] = portfolio[terms[cursor].security]
        BY <3>1 DEF SweepPosition, CoreInv, Registers
      <4>2. /\ WritePosition("main", cursor, price)
            /\ mpc' = IF IsBuy(cursor) THEN "cash" ELSE "erase"
        BY <3>1 DEF SweepPosition, LastWrite
      <4>3. /\ IsBuy(cursor) => ostate' = ostate /\ trades' = trades
            /\ ~IsBuy(cursor) =>
                 /\ ostate' = [ostate EXCEPT ![cursor] = "Executed"]
                 /\ trades' = Append(trades, [order |-> cursor, price |-> price])
        BY <2>2, <4>1, <4>2, PositionWritten DEF Threads, CoreInv
      <4>. QED
        BY <4>2, <4>3 DEF Dealing
    <3>2. CASE SweepCash
      <4>1. seen["main"] = cash
        BY <3>2 DEF SweepCash, CoreInv, Registers
      <4>2. /\ WriteCash("main", cursor, price)
            /\ mpc' = IF IsBuy(cursor) THEN "erase" ELSE "position"
        BY <3>2 DEF SweepCash, LastWrite
      <4>3. /\ ostate' = ostate /\ (~IsBuy(cursor) => trades' = trades)
            /\ IsBuy(cursor) => trades' = Append(trades, [order |-> cursor, price |-> price])
        BY <2>2, <4>1, <4>2, CashWritten DEF Threads, CoreInv
      <4>4. IsBuy(cursor) => ostate[cursor] = "Executed"
        BY <3>2 DEF SweepCash, CoreInv, Carried
      <4>5. IsBuy(cursor) => ostate' = [ostate EXCEPT ![cursor] = "Executed"]
        BY <4>3, <4>4 DEF CoreInv, TypeOK
      <4>. QED
        BY <4>2, <4>3, <4>5 DEF Dealing
    <3>. QED
      BY <1>2, <3>1, <3>2
  <2>6. CASE mpc' \in Dealing /\ UNCHANGED <<ostate, trades>>
    <3>1. OneTrade' /\ LimitRespected'
      BY <2>1, <2>3, <2>6, SameBook
    <3>. QED
      BY <2>4, <3>1
  <2>7. CASE /\ mpc' \notin Dealing /\ ostate' = [ostate EXCEPT ![cursor] = "Executed"]
             /\ trades' = Append(trades, [order |-> cursor, price |-> price])
    <3>1. /\ terms[cursor].type = "limit" /\ terms[cursor].operation = "buy"
               => price <= terms[cursor].price
          /\ terms[cursor].type = "limit" /\ terms[cursor].operation = "sell"
               => price >= terms[cursor].price
      BY <2>2
    <3>2. /\ ostate'[cursor] = "Executed"
          /\ \A q \in Orders : q # cursor => ostate'[q] = ostate[q]
          /\ InDeal(cursor) /\ ~InDeal(cursor)'
          /\ \A q \in Orders : q # cursor => (InDeal(q)' <=> InDeal(q))
          /\ cursor \in pending <=> Filling(cursor)'
          /\ \A q \in Orders : Filling(q)' <=> Filling(q)
      BY <2>1, <2>2, <2>3, <2>7 DEF CoreInv, TypeOK
    <3>3. OneTrade' /\ LimitRespected'
      BY <2>1, <2>2, <2>7, <3>1, <3>2, Dealt DEF CoreInv
    <3>. QED
      BY <2>4, <3>3
  <2>. QED
    BY <2>5, <2>6, <2>7
<1>3. CASE SweepErase
  <2>1. /\ mpc = "erase" /\ mpc' = "notify" /\ pending' = pending \ {cursor}
        /\ UNCHANGED <<ostate, terms, trades, spc, cur>>
    BY <1>3 DEF SweepErase, Erase, serverVars
  <2>2. cursor \in Orders /\ spc = "idle" /\ ostate[cursor] = "Executed"
    BY <2>1, InFill DEF CoreInv, Carried
  <2>3. \A q \in Orders : ~InDeal(q) /\ ~InDeal(q)' /\ (Filling(q) <=> q = cursor) /\ ~Filling(q)'
    BY <2>1, <2>2 DEF InDeal, Filling
  <2>4. \A q \in Orders : Traded(q)' <=> Traded(q)
    BY <2>1 DEF Traded
  <2>5. EnabledIffPending'
    <3>1. UnsubscribeIfNeeded(terms[cursor].security) /\ spc' # "enable" /\ spc # "enable"
      BY <1>3, <2>1, <2>2 DEF SweepErase
    <3>. QED
      BY <2>1, <3>1 DEF EnabledIffPending, UnsubscribeIfNeeded
  <2>6. OneTrade'
    BY <2>1, <2>2, <2>3, <2>4 DEF OneTrade, Filling
  <2>7. LimitRespected'
    BY <2>1 DEF LimitRespected
  <2>. QED
    BY <2>5, <2>6, <2>7
<1>. QED
  BY <1>1, <1>2, <1>3

LEMMA BookStep == CoreInv /\ BookInv /\ [Next]_vars => BookInv'
<1>. SUFFICES ASSUME CoreInv, BookInv, [Next]_vars PROVE BookInv'
  OBVIOUS
<1>1. CASE Quiet
  <2>1. UNCHANGED <<ostate, terms, pending, trades, enabled>>
    BY <1>1 DEF Quiet, bookVars
  <2>2. \A o \in Orders : (InDeal(o)' <=> InDeal(o)) /\ (Filling(o)' <=> Filling(o))
    BY <1>1 DEF Quiet, InDeal, Filling
  <2>3. OneTrade' /\ LimitRespected'
    BY <2>1, <2>2, SameBook DEF BookInv
  <2>4. EnabledIffPending'
    BY <1>1, <2>1 DEF Quiet, EnabledIffPending, BookInv
  <2>. QED
    BY <2>3, <2>4 DEF BookInv
<1>2. ASSUME NEW k \in Kinds, BeginSubmit(k)
      PROVE  BookInv'
  <2>1. /\ spc = "idle" /\ spc' = "readBid" /\ UNCHANGED <<cur, mpc, cursor>>
        /\ ostate' = [ostate EXCEPT ![cur] = "Unsubmitted"]
        /\ terms' = [terms EXCEPT ![cur] = k]
        /\ UNCHANGED <<pending, trades, enabled>>
    BY <1>2 DEF BeginSubmit, mainVars
  <2>2. /\ cur \in Orders /\ ostate[cur] = "none" /\ mpc \notin Sweeping
    BY <1>2, <2>1, VirtualBrokerAssumption
    DEF BeginSubmit, CoreInv, Numbered, TypeOK, Orders, Locked
  <2>3. \A q \in Orders : ~InDeal(q) /\ ~InDeal(q)' /\ ~Filling(q) /\ ~Filling(q)'
    BY <2>1, <2>2 DEF InDeal, Filling, Sweeping
  <2>4. cur \notin pending
    BY <2>2, <2>3 DEF BookInv, OneTrade, Filling
  <2>5. \A i \in DOMAIN trades : trades[i].order \in Orders /\ trades[i].order # cur
    BY <2>2, TradeOrders DEF CoreInv, BookInv
  <2>6. \A q \in Orders : (Traded(q)' <=> Traded(q)) /\ ~Traded(cur)
    BY <2>1, <2>5 DEF Traded
  <2>7. EnabledIffPending'
    BY <2>1, <2>4 DEF EnabledIffPending, CoreInv, BookInv, TypeOK
  <2>8. OneTrade'
    BY <2>1, <2>2, <2>3, <2>4, <2>6 DEF OneTrade, Filling, CoreInv, BookInv, TypeOK
  <2>9. LimitRespected'
    BY <2>1, <2>5 DEF LimitRespected, CoreInv, BookInv, TypeOK
  <2>. QED
    BY <2>7, <2>8, <2>9 DEF BookInv
<1>. QED
  BY <1>1, <1>2, BookSteps, SubmitBookStep, TickBookStep

----------------------------------------------------------------------------
(* The sweep. *)

\* No order enters the list behind the cursor: while a sweep is under way the
\* server thread is not in submitOrder.
LEMMA SweepStep == CoreInv /\ BookInv /\ SweptBehind /\ [Next]_vars => SweptBehind'
<1>. SUFFICES ASSUME CoreInv, BookInv, SweptBehind, [Next]_vars, mpc' \in Sweeping,
                     NEW o \in Orders, o \in pending', o < cursor'
              PROVE  ~Fills(tick, o)'
  BY CoreStep DEF SweptBehind, CoreInv, BookInv, TypeOK, Sweeping
<1>. USE DEF CoreInv
<1>1. CASE BeginSweep
  BY <1>1 DEF BeginSweep, Carried, Orders
<1>2. ASSUME NEW q \in Orders, SweepFill(q)
      PROVE  ~Fills(tick, o)'
  <2>1. /\ o \in pending /\ o < q
        /\ UNCHANGED <<terms, tick>> /\ IsNext(q) /\ mpc = "sweep"
    BY <1>2 DEF SweepFill, StartDeal
  <2>2. o < cursor
    BY <2>1 DEF IsNext, Rest, TypeOK, Orders
  <2>. QED
    BY <2>1, <2>2 DEF SweptBehind, Fills
<1>3. ASSUME NEW q \in Orders, SweepSkip(q)
      PROVE  ~Fills(tick, o)'
  <2>1. /\ o \in pending /\ o < q + 1 /\ ~Fills(tick, q)
        /\ UNCHANGED <<terms, tick>> /\ IsNext(q) /\ mpc = "sweep"
    BY <1>3 DEF SweepSkip, bookVars
  <2>2. o < cursor \/ o = q
    BY <2>1 DEF IsNext, Rest, TypeOK, Orders
  <2>. QED
    BY <2>1, <2>2 DEF SweptBehind, Fills
<1>4. CASE UNCHANGED <<bookVars, mainVars>>
  BY <1>4 DEF SweptBehind, Fills, bookVars, mainVars, Sweeping
<1>5. ASSUME SweepPosition \/ SweepCash \/ SweepErase
      PROVE  ~Fills(tick, o)'
  <2>1. /\ mpc \in {"position", "cash", "erase"} /\ UNCHANGED <<terms, tick>> /\ o \in pending
        /\ cursor' = cursor \/ (cursor' = cursor + 1 /\ o # cursor)
    BY <1>5 DEF SweepPosition, SweepCash, SweepErase, WritePosition, WriteCash, Erase
  <2>2. o < cursor
    BY <2>1 DEF TypeOK, Orders
  <2>. QED
    BY <2>1, <2>2 DEF SweptBehind, Fills
<1>6. CASE SweepNotify
  BY <1>6 DEF SweepNotify, SweptBehind, Fills, bookVars
<1>7. ASSUME \/ \E k \in Kinds : BeginSubmit(k)
             \/ SubmitStep
             \/ \E t \in Ticks : WriteQuote(t)
             \/ CheckEnabled
             \/ EndSweep
      PROVE  FALSE
  <2>1. CASE (\E k \in Kinds : BeginSubmit(k)) \/ SubmitStep
    <3>1. UNCHANGED mpc /\ mutex # "main"
      BY <2>1, VirtualBrokerAssumption DEF SubmitStep, BeginSubmit, ReadBid, ReadOffer, Decide,
        EnableTicker, SubmitPosition, SubmitCash, EndSubmit, mainVars, Locked
    <3>. QED
      BY <3>1 DEF Locked
  <2>2. CASE (\E t \in Ticks : WriteQuote(t)) \/ CheckEnabled \/ EndSweep
    BY <2>2 DEF WriteQuote, CheckEnabled, EndSweep, Sweeping
  <2>. QED
    BY <1>7, <2>1, <2>2
<1>. QED
  BY <1>1, <1>2, <1>3, <1>4, <1>5, <1>6, <1>7 DEF Next, TickStep, vars

----------------------------------------------------------------------------
(* The account. *)

\* The order of a deal under way, its price, and what is being written.
DealOrder == IF spc \in Dealing THEN cur ELSE cursor
DealPrice == IF spc \in Dealing THEN Opposite(terms[cur]) ELSE terms[cursor].price
Writing == IF spc \in Dealing THEN spc ELSE mpc

\* The account without the half of a deal that is written while the other is not.
BookedCash ==
  IF Writing = "position" /\ ~IsBuy(DealOrder) THEN cash + DealPrice * Signed(DealOrder)
                                               ELSE cash
BookedPositions ==
  IF Writing = "cash" /\ IsBuy(DealOrder)
  THEN [portfolio EXCEPT ![terms[DealOrder].security] = @ - Signed(DealOrder)]
  ELSE portfolio

\* A thread writes the position or the cash of the deal it is in.
DealWrite(th, o, price) ==
  /\ terms[o] \in Kinds /\ DealOrder = o /\ DealPrice = price
  /\ Writing' \in Dealing => DealOrder' = o /\ DealPrice' = price
  /\ \/ /\ WritePosition(th, o, price) /\ seen[th] = portfolio[terms[o].security]
        /\ Writing = "position" /\ (Writing' = "cash" <=> IsBuy(o)) /\ Writing' # "position"
     \/ /\ WriteCash(th, o, price) /\ seen[th] = cash
        /\ Writing = "cash" /\ (Writing' = "position" <=> ~IsBuy(o)) /\ Writing' # "cash"

\* What the nth trade bought or sold.
SignedOf(n) == Signed(trades[n].order)

\* f and g are what a sum over the trades is defined by.
SumsCash(f) ==
  f = [n \in 0 .. Len(trades) |->
         IF n = 0 THEN StartCash ELSE f[n - 1] - trades[n].price * SignedOf(n)]
SumsPositions(g) ==
  g = [n \in 0 .. Len(trades) |->
         IF n = 0 THEN [s \in Securities |-> 0]
         ELSE [s \in Securities |-> g[n - 1][s] +
                 (IF terms[trades[n].order].security = s THEN SignedOf(n) ELSE 0)]]

\* The sums exist, and whatever is one ends with the account.
Summed ==
  /\ \E f : SumsCash(f)
  /\ \A f : SumsCash(f) => f[Len(trades)] = BookedCash
  /\ \E g : SumsPositions(g)
  /\ \A g : SumsPositions(g) => g[Len(trades)] = BookedPositions

LEMMA SummedBalances == IInv /\ Summed => BooksBalance
<1> SUFFICES ASSUME IInv, Summed, \A o \in Orders : ~InDeal(o)
             PROVE  cash = CashAfter[Len(trades)] /\ portfolio = PositionsAfter[Len(trades)]
  BY DEF BooksBalance
<1>1. spc \notin Dealing /\ mpc \notin Dealing
  <2>1. spc \in Dealing => cur \in Orders
    BY InSubmit DEF IInv, Dealing
  <2>2. mpc \in Dealing => cursor \in Orders
    BY InFill DEF IInv, Dealing
  <2>. QED
    BY <2>1, <2>2 DEF InDeal, Dealing
<1>2. BookedCash = cash /\ BookedPositions = portfolio
  BY <1>1 DEF BookedCash, BookedPositions, Writing, Dealing
<1>3. SumsCash(CashAfter)
  BY DEF Summed, SumsCash, CashAfter, SignedOf
<1>4. SumsPositions(PositionsAfter)
  BY DEF Summed, SumsPositions, PositionsAfter, SignedOf
<1>. QED
  BY <1>2, <1>3, <1>4 DEF Summed

\* Without a trade, and with the orders that have been filled as they were, the
\* sums stay what they are.
LEMMA NoTrade ==
  ASSUME TypeOK, Summed, UNCHANGED <<trades, BookedCash, BookedPositions>>,
         \A i \in DOMAIN trades : terms'[trades[i].order] = terms[trades[i].order]
  PROVE  Summed'
<1>1. \A n \in 0 .. Len(trades) :
        n # 0 => /\ SignedOf(n)' = SignedOf(n)
                 /\ terms'[trades'[n].order].security = terms[trades[n].order].security
  <2>1. \A n \in 0 .. Len(trades) : n # 0 => n \in DOMAIN trades
    BY DEF TypeOK
  <2>. QED
    BY <2>1 DEF SignedOf, Signed, IsBuy
<1>2. ASSUME NEW f PROVE SumsCash(f)' <=> SumsCash(f)
  BY <1>1 DEF SumsCash
<1>3. ASSUME NEW g PROVE SumsPositions(g)' <=> SumsPositions(g)
  BY <1>1 DEF SumsPositions
<1>. QED
  BY <1>2, <1>3 DEF Summed

\* One more trade is one more term of each sum.
LEMMA OneMoreTrade ==
  ASSUME TypeOK, Summed, UNCHANGED terms, NEW o \in Orders, NEW price \in Nat,
         terms[o] \in Kinds,
         BookedPositions \in [Securities -> Int],
         trades' = Append(trades, [order |-> o, price |-> price]),
         BookedCash' = BookedCash - price * Signed(o),
         BookedPositions' = [BookedPositions EXCEPT ![terms[o].security] = @ + Signed(o)]
  PROVE  Summed'
<1> SUFFICES ASSUME NEW L, L = Len(trades), NEW t, t = terms[o],
                    NEW k, k = Signed(o)
             PROVE  Summed'
  OBVIOUS
<1>1. /\ trades \in Seq(Trades) /\ L \in Nat
      /\ trades' = Append(trades, [order |-> o, price |-> price])
      /\ BookedCash' = BookedCash - price * k
      /\ BookedPositions' = [BookedPositions EXCEPT ![t.security] = @ + k]
  BY DEF TypeOK
<1>2. /\ Len(trades') = L + 1 /\ \A n \in 1 .. L : trades'[n] = trades[n]
      /\ trades'[L + 1].order = o /\ trades'[L + 1].price = price
  BY <1>1
<1>3. SignedOf(L + 1)' = k /\ \A n \in 1 .. L : SignedOf(n)' = SignedOf(n)
  BY <1>2 DEF SignedOf, Signed, IsBuy
<1>4. t.security \in Securities /\ k \in Int /\ BookedPositions \in [Securities -> Int]
  BY SignedType
<1>5. /\ \A n \in 0 .. L : n # 0 => n \in 1 .. L /\ n - 1 \in 0 .. L
      /\ \A n \in 0 .. L + 1 : n # 0 => n - 1 \in 0 .. L
      /\ 0 .. L \subseteq 0 .. L + 1 /\ L \in 0 .. L /\ L + 1 \in 0 .. L + 1
      /\ L + 1 # 0 /\ (L + 1) - 1 = L
      /\ \A n \in 0 .. L + 1 : n \in 0 .. L \/ n = L + 1
      /\ \A n \in 0 .. L : n # L + 1
  BY <1>1
<1>6. \E f : SumsCash(f)'
  <2>1. PICK f : SumsCash(f)
    BY DEF Summed
  <2> DEFINE h == [n \in 0 .. L + 1 |-> IF n = L + 1 THEN f[L] - price * k ELSE f[n]]
  <2>2. ASSUME NEW n \in 0 .. L + 1
        PROVE  h[n] = IF n = 0 THEN StartCash ELSE h[n - 1] - trades'[n].price * SignedOf(n)'
    BY <1>2, <1>3, <1>5, <2>1 DEF SumsCash
  <2>3. SumsCash(h)'
    BY <1>2, <2>2 DEF SumsCash
  <2>. QED
    BY <2>3
<1>7. ASSUME NEW f, SumsCash(f)'
      PROVE  f[L + 1] = BookedCash'
  <2> DEFINE g == [n \in 0 .. L |-> f[n]]
  <2>1. \A n \in 0 .. L + 1 :
          f[n] = IF n = 0 THEN StartCash ELSE f[n - 1] - trades'[n].price * SignedOf(n)'
    BY <1>2, <1>7 DEF SumsCash
  <2>2. ASSUME NEW n \in 0 .. L
        PROVE  g[n] = IF n = 0 THEN StartCash ELSE g[n - 1] - trades[n].price * SignedOf(n)
    BY <1>2, <1>3, <1>5, <2>1
  <2>3. SumsCash(g)
    BY <2>2 DEF SumsCash
  <2>4. g[L] = BookedCash
    BY <2>3 DEF Summed
  <2>5. f[L + 1] = f[L] - price * k
    BY <1>2, <1>3, <1>5, <2>1
  <2>. QED
    BY <1>1, <1>5, <2>4, <2>5
<1> DEFINE Change(n, s) == IF terms[trades[n].order].security = s THEN SignedOf(n) ELSE 0
           Changed(s) == IF t.security = s THEN k ELSE 0
<1>8. /\ \A n \in 1 .. L, s \in Securities : Change(n, s)' = Change(n, s)
      /\ \A s \in Securities : Change(L + 1, s)' = Changed(s)
  BY <1>2, <1>3
<1>9. BookedPositions' = [s \in Securities |-> BookedPositions[s] + Changed(s)]
  <2>1. DOMAIN BookedPositions' = Securities /\ BookedPositions' \in [Securities -> Int]
    BY <1>1, <1>4
  <2>2. \A s \in Securities : BookedPositions'[s] = BookedPositions[s] + Changed(s)
    BY <1>1, <1>4
  <2>. QED
    BY <2>1, <2>2
<1> HIDE DEF Changed
<1>10. \E g : SumsPositions(g)'
  <2>1. PICK g : SumsPositions(g)
    BY DEF Summed
  <2> DEFINE h == [n \in 0 .. L + 1 |->
                     IF n = L + 1 THEN [s \in Securities |-> g[L][s] + Changed(s)] ELSE g[n]]
  <2>2. ASSUME NEW n \in 0 .. L
        PROVE  g[n] = IF n = 0 THEN [s \in Securities |-> 0]
                      ELSE [s \in Securities |-> g[n - 1][s] + Change(n, s)]
    BY <2>1 DEF SumsPositions
  <2>3. ASSUME NEW n \in 0 .. L + 1
        PROVE  h[n] = IF n = 0 THEN [s \in Securities |-> 0]
                      ELSE [s \in Securities |-> h[n - 1][s] + Change(n, s)']
    <3> HIDE DEF Change
    <3>1. CASE n \in 0 .. L
      <4>1. h[n] = g[n] /\ (n # 0 => h[n - 1] = g[n - 1])
        BY <1>5, <3>1
      <4>2. n # 0 => \A s \in Securities : Change(n, s)' = Change(n, s)
        BY <1>5, <1>8, <3>1
      <4> HIDE DEF h
      <4>. QED
        BY <2>2, <3>1, <4>1, <4>2
    <3>2. CASE n = L + 1
      BY <1>5, <1>8, <3>2
    <3>. QED
      BY <1>5, <3>1, <3>2
  <2>4. h = [n \in 0 .. L + 1 |-> IF n = 0 THEN [s \in Securities |-> 0]
                                ELSE [s \in Securities |-> h[n - 1][s] + Change(n, s)']]
    <3> HIDE DEF Change
    <3>. QED
      BY <2>3
  <2> HIDE DEF h
  <2>5. SumsPositions(h)'
    BY <1>2, <2>4 DEF SumsPositions
  <2>. QED
    BY <2>5
<1>11. ASSUME NEW g, SumsPositions(g)'
       PROVE  g[L + 1] = BookedPositions'
  <2> DEFINE f == [n \in 0 .. L |-> g[n]]
  <2>1. \A n \in 0 .. L + 1 :
          g[n] = IF n = 0 THEN [s \in Securities |-> 0]
                 ELSE [s \in Securities |-> g[n - 1][s] + Change(n, s)']
    BY <1>2, <1>11 DEF SumsPositions
  <2>2. ASSUME NEW n \in 0 .. L
        PROVE  f[n] = IF n = 0 THEN [s \in Securities |-> 0]
                      ELSE [s \in Securities |-> f[n - 1][s] + Change(n, s)]
    <3>1. f[n] = g[n] /\ (n # 0 => f[n - 1] = g[n - 1]) /\ n \in 0 .. L + 1
      BY <1>5
    <3> HIDE DEF Change, f
    <3>2. n # 0 => \A s \in Securities : Change(n, s)' = Change(n, s)
      BY <1>5, <1>8
    <3>. QED
      BY <2>1, <3>1, <3>2
  <2>3. SumsPositions(f)
    BY <2>2 DEF SumsPositions
  <2>4. f[L] = BookedPositions
    BY <2>3 DEF Summed
  <2>5. g[L + 1] = [s \in Securities |-> g[L][s] + Changed(s)]
    <3>1. /\ L + 1 \in 0 .. L + 1 /\ L + 1 # 0 /\ (L + 1) - 1 = L
          /\ \A s \in Securities : Change(L + 1, s)' = Changed(s)
      BY <1>5, <1>8
    <3> HIDE DEF Change
    <3>2. g[L + 1] = [s \in Securities |-> g[L][s] + Change(L + 1, s)']
      BY <2>1, <3>1
    <3>. QED
      BY <3>1, <3>2
  <2>. QED
    BY <1>5, <1>9, <2>4, <2>5
<1>. QED
  BY <1>2, <1>6, <1>7, <1>10, <1>11 DEF Summed

\* So do the four steps between a deal's first and its callback.
LEMMA DealWrites ==
  ASSUME CoreInv, SubmitPosition \/ SubmitCash \/ SweepPosition \/ SweepCash
  PROVE  \E th \in Threads, o \in Orders, price \in Nat : DealWrite(th, o, price)
<1>1. CASE SubmitPosition \/ SubmitCash
  <2> SUFFICES ASSUME NEW o, o = cur, NEW price, price = Opposite(terms[cur])
               PROVE  o \in Orders /\ price \in Nat /\ DealWrite("server", o, price)
    BY DEF Threads
  <2>1. /\ spc \in Dealing /\ UNCHANGED <<terms, cur, bid, offer, mpc, cursor>>
    BY <1>1 DEF SubmitPosition, SubmitCash, WritePosition, WriteCash, mainVars, Dealing
  <2>2. o \in Orders /\ terms[o] \in Kinds /\ price \in Nat /\ mpc \notin Sweeping
    BY <2>1, InSubmit DEF Dealing
  <2>3. DealOrder = o /\ DealPrice = price /\ Writing = spc
    BY <2>1 DEF DealOrder, DealPrice, Writing
  <2>4. spc' \in Dealing => Writing' = spc' /\ DealOrder' = o /\ DealPrice' = price
    BY <2>1 DEF Writing, DealOrder, DealPrice, Opposite
  <2>5. spc' \notin Dealing => Writing' \notin Dealing
    BY <2>1, <2>2 DEF Writing, Dealing, Sweeping
  <2>6. \/ /\ WritePosition("server", o, price) /\ seen["server"] = portfolio[terms[o].security]
           /\ Writing = "position" /\ (Writing' = "cash" <=> IsBuy(o)) /\ Writing' # "position"
        \/ /\ WriteCash("server", o, price) /\ seen["server"] = cash
           /\ Writing = "cash" /\ (Writing' = "position" <=> ~IsBuy(o)) /\ Writing' # "cash"
    <3>1. CASE SubmitPosition
      <4>1. /\ spc = "position" /\ WritePosition("server", o, price)
            /\ seen["server"] = portfolio[terms[o].security]
            /\ spc' = IF IsBuy(o) THEN "cash" ELSE "notify"
        BY <3>1 DEF SubmitPosition, LastWrite, CoreInv, Registers
      <4>. QED
        BY <2>3, <2>4, <2>5, <4>1 DEF Dealing
    <3>2. CASE SubmitCash
      <4>1. /\ spc = "cash" /\ WriteCash("server", o, price) /\ seen["server"] = cash
            /\ spc' = IF IsBuy(o) THEN "notify" ELSE "position"
        BY <3>2 DEF SubmitCash, LastWrite, CoreInv, Registers
      <4>. QED
        BY <2>3, <2>4, <2>5, <4>1 DEF Dealing
    <3>. QED
      BY <1>1, <3>1, <3>2
  <2>7. Writing' \in Dealing => DealOrder' = o /\ DealPrice' = price
    BY <2>4, <2>5
  <2>. QED
    BY <2>2, <2>3, <2>6, <2>7 DEF DealWrite
<1>2. CASE SweepPosition \/ SweepCash
  <2> SUFFICES ASSUME NEW o, o = cursor, NEW price, price = terms[cursor].price
               PROVE  o \in Orders /\ price \in Nat /\ DealWrite("main", o, price)
    BY DEF Threads
  <2>1. mpc \in Dealing /\ UNCHANGED <<terms, cursor, spc>>
    BY <1>2 DEF SweepPosition, SweepCash, WritePosition, WriteCash, serverVars, Dealing
  <2>2. o \in Orders /\ terms[o] \in Kinds /\ price \in Nat /\ spc = "idle"
    BY <2>1, InFill DEF Dealing
  <2>3. DealOrder = o /\ DealPrice = price /\ Writing = mpc
    BY <2>1, <2>2 DEF DealOrder, DealPrice, Writing, Dealing
  <2>4. Writing' = mpc' /\ DealOrder' = o /\ DealPrice' = price
    BY <2>1, <2>2 DEF Writing, DealOrder, DealPrice, Dealing
  <2>5. \/ /\ WritePosition("main", o, price) /\ seen["main"] = portfolio[terms[o].security]
           /\ Writing = "position" /\ (Writing' = "cash" <=> IsBuy(o)) /\ Writing' # "position"
        \/ /\ WriteCash("main", o, price) /\ seen["main"] = cash
           /\ Writing = "cash" /\ (Writing' = "position" <=> ~IsBuy(o)) /\ Writing' # "cash"
    <3>1. CASE SweepPosition
      <4>1. /\ mpc = "position" /\ WritePosition("main", o, price)
            /\ seen["main"] = portfolio[terms[o].security]
            /\ mpc' = IF IsBuy(o) THEN "cash" ELSE "erase"
        BY <3>1 DEF SweepPosition, LastWrite, CoreInv, Registers
      <4>. QED
        BY <2>3, <2>4, <4>1
    <3>2. CASE SweepCash
      <4>1. /\ mpc = "cash" /\ WriteCash("main", o, price) /\ seen["main"] = cash
            /\ mpc' = IF IsBuy(o) THEN "erase" ELSE "position"
        BY <3>2 DEF SweepCash, LastWrite, CoreInv, Registers
      <4>. QED
        BY <2>3, <2>4, <4>1
    <3>. QED
      BY <1>2, <3>1, <3>2
  <2>. QED
    BY <2>2, <2>3, <2>4, <2>5 DEF DealWrite
<1>. QED
  BY <1>1, <1>2

\* The first half of a deal leaves the booked account alone, the second books it.
LEMMA DealSums ==
  ASSUME TypeOK, NEW th \in Threads, NEW o \in Orders, NEW price \in Nat,
         DealWrite(th, o, price)
  PROVE  /\ UNCHANGED terms /\ BookedPositions \in [Securities -> Int]
         /\ \/ UNCHANGED <<trades, BookedCash, BookedPositions>>
            \/ /\ trades' = Append(trades, [order |-> o, price |-> price])
               /\ BookedCash' = BookedCash - price * Signed(o)
               /\ BookedPositions' =
                    [BookedPositions EXCEPT ![terms[o].security] = @ + Signed(o)]
<1>0. /\ terms[o] \in Kinds /\ DealOrder = o /\ DealPrice = price
      /\ Writing' \in Dealing => DealOrder' = o /\ DealPrice' = price
  BY DEF DealWrite
<1>1. UNCHANGED terms
  BY DEF DealWrite, WritePosition, WriteCash
<1> SUFFICES ASSUME NEW n, n = Signed(o), NEW sec, sec = terms[o].security
             PROVE  /\ BookedPositions \in [Securities -> Int]
                    /\ \/ UNCHANGED <<trades, BookedCash, BookedPositions>>
                       \/ /\ trades' = Append(trades, [order |-> o, price |-> price])
                          /\ BookedCash' = BookedCash - price * n
                          /\ BookedPositions' = [BookedPositions EXCEPT ![sec] = @ + n]
  BY <1>1
<1>2. n \in Int /\ sec \in Securities /\ price * n \in Int
  BY <1>0, SignedType, Product
<1>3. Signed(o)' = n /\ terms'[o].security = sec /\ (IsBuy(o)' <=> IsBuy(o))
  BY <1>1 DEF Signed, IsBuy
<1>4. /\ cash \in Int /\ portfolio \in [Securities -> Int] /\ portfolio[sec] \in Int
      /\ (portfolio[sec] - n) + n = portfolio[sec] /\ (portfolio[sec] + n) - n = portfolio[sec]
  BY <1>2 DEF TypeOK
<1>5. CASE /\ WritePosition(th, o, price) /\ seen[th] = portfolio[terms[o].security]
           /\ Writing = "position" /\ (Writing' = "cash" <=> IsBuy(o))
           /\ Writing' # "position"
  <2>1. /\ portfolio' = [portfolio EXCEPT ![sec] = @ + n] /\ cash' = cash
        /\ IsBuy(o) => trades' = trades
        /\ ~IsBuy(o) => trades' = Append(trades, [order |-> o, price |-> price])
    BY <1>0, <1>5, PositionWritten
  <2>2. BookedPositions = portfolio /\ BookedCash' = cash'
    BY <1>5 DEF BookedPositions, BookedCash
  <2>3. CASE IsBuy(o)
    <3>1. BookedCash = cash
      BY <1>0, <1>5, <2>3 DEF BookedCash
    <3>2. BookedPositions' = [portfolio' EXCEPT ![sec] = portfolio'[sec] - n]
      BY <1>0, <1>3, <1>5, <2>3 DEF BookedPositions, Dealing, IsBuy, Signed
    <3>3. BookedPositions' = portfolio
      BY <1>2, <1>4, <2>1, <3>2
    <3>. QED
      BY <1>4, <2>1, <2>2, <2>3, <3>1, <3>3
  <2>4. CASE ~IsBuy(o)
    <3>1. BookedCash = cash + price * n
      BY <1>0, <1>5, <2>4 DEF BookedCash
    <3>2. BookedPositions' = portfolio'
      BY <1>5, <2>4 DEF BookedPositions
    <3>3. BookedCash' = BookedCash - price * n
      BY <1>2, <1>4, <2>1, <2>2, <3>1
    <3>. QED
      BY <1>4, <2>1, <2>2, <2>4, <3>2, <3>3
  <2>. QED
    BY <2>3, <2>4
<1>6. CASE /\ WriteCash(th, o, price) /\ seen[th] = cash
           /\ Writing = "cash" /\ (Writing' = "position" <=> ~IsBuy(o))
           /\ Writing' # "cash"
  <2>1. /\ cash' = cash - price * n /\ cash' \in Int /\ portfolio' = portfolio
        /\ ~IsBuy(o) => trades' = trades
        /\ IsBuy(o) => trades' = Append(trades, [order |-> o, price |-> price])
    BY <1>0, <1>6, CashWritten
  <2>2. BookedCash = cash /\ BookedPositions' = portfolio'
    BY <1>6 DEF BookedCash, BookedPositions
  <2>3. CASE IsBuy(o)
    <3>1. BookedCash' = cash'
      BY <1>6, <2>3 DEF BookedCash
    <3>2. BookedPositions = [portfolio EXCEPT ![sec] = portfolio[sec] - n]
      BY <1>0, <1>6, <2>3 DEF BookedPositions
    <3>3. BookedPositions \in [Securities -> Int] /\ BookedPositions[sec] = portfolio[sec] - n
      BY <1>2, <1>4, <3>2
    <3>4. portfolio = [BookedPositions EXCEPT ![sec] = BookedPositions[sec] + n]
      BY <1>2, <1>4, <3>2, <3>3
    <3>5. BookedPositions' = [BookedPositions EXCEPT ![sec] = @ + n]
      BY <2>1, <2>2, <3>4
    <3>. QED
      BY <2>1, <2>2, <2>3, <3>1, <3>3, <3>5
  <2>4. CASE ~IsBuy(o)
    <3>1. BookedPositions = portfolio
      BY <1>0, <1>6, <2>4 DEF BookedPositions
    <3>2. BookedCash' = cash' + price * n
      BY <1>0, <1>3, <1>6, <2>4 DEF BookedCash, Dealing
    <3>3. BookedCash' = cash
      BY <1>2, <1>4, <2>1, <3>2
    <3>. QED
      BY <1>4, <2>1, <2>2, <2>4, <3>1, <3>3
  <2>. QED
    BY <2>3, <2>4
<1>. QED
  BY <1>5, <1>6 DEF DealWrite

\* Outside the deals the booked account is the account.
LEMMA NoDeal ==
  ASSUME UNCHANGED <<cash, portfolio, trades>>,
         spc \notin Dealing, mpc \notin Dealing,
         (spc' \in Dealing /\ spc' = FirstWrite(cur) /\ UNCHANGED <<terms, cur>>)
           \/ (spc' \notin Dealing /\ mpc' \notin Dealing)
           \/ (spc' \notin Dealing /\ mpc' = FirstWrite(cursor') /\ UNCHANGED terms)
  PROVE  UNCHANGED <<trades, BookedCash, BookedPositions>>
<1>1. BookedCash = cash /\ BookedPositions = portfolio
  BY DEF BookedCash, BookedPositions, Writing, Dealing
<1>2. CASE spc' \in Dealing /\ spc' = FirstWrite(cur) /\ UNCHANGED <<terms, cur>>
  BY <1>1, <1>2 DEF BookedCash, BookedPositions, Writing, Dealing, DealOrder, FirstWrite, IsBuy
<1>3. CASE spc' \notin Dealing /\ mpc' \notin Dealing
  BY <1>1, <1>3 DEF BookedCash, BookedPositions, Writing, Dealing
<1>4. CASE spc' \notin Dealing /\ mpc' = FirstWrite(cursor') /\ UNCHANGED terms
  BY <1>1, <1>4 DEF BookedCash, BookedPositions, Writing, Dealing, DealOrder, FirstWrite, IsBuy
<1>. QED
  BY <1>2, <1>3, <1>4

LEMMA SumStep == CoreInv /\ BookInv /\ Summed /\ [Next]_vars => Summed'
<1> SUFFICES ASSUME CoreInv, BookInv, Summed, [Next]_vars PROVE Summed'
  OBVIOUS
<1>0. TypeOK /\ \A i \in DOMAIN trades : trades[i].order \in Orders
                                        /\ ostate[trades[i].order] = "Executed"
  BY TradeOrders DEF CoreInv, BookInv
<1>1. ASSUME UNCHANGED <<trades, BookedCash, BookedPositions>>, UNCHANGED terms
      PROVE  Summed'
  BY <1>0, <1>1, NoTrade
<1>2. CASE Quiet
  <2>1. UNCHANGED <<cash, portfolio, trades, terms>>
    BY <1>2 DEF Quiet, bookVars
  <2>2. CASE spc \notin Dealing /\ mpc \notin Dealing
    <3>1. spc' \notin Dealing /\ mpc' \notin Dealing
      BY <1>2, <2>2 DEF Quiet, Dealing
    <3>. QED
      BY <1>1, <2>1, <2>2, <3>1, NoDeal
  <2>3. CASE spc \in Dealing \/ mpc \in Dealing
    <3>1. CASE spc \in Dealing
      <4>1. UNCHANGED <<spc, cur, bid, offer>>
        BY <1>2, <3>1 DEF Quiet, Dealing
      <4>2. UNCHANGED <<BookedCash, BookedPositions>>
        BY <2>1, <3>1, <4>1 DEF BookedCash, BookedPositions, Writing, DealOrder, DealPrice,
          Opposite, IsBuy, Signed
      <4>. QED
        BY <1>1, <2>1, <4>2
    <3>2. CASE spc \notin Dealing /\ mpc \in Dealing
      <4>1. spc' \notin Dealing /\ UNCHANGED <<mpc, cursor>>
        <5>1. spc = "idle"
          BY <3>2, InFill DEF Dealing
        <5>. QED
          BY <1>2, <3>2, <5>1 DEF Quiet, Dealing
      <4>2. UNCHANGED <<BookedCash, BookedPositions>>
        BY <2>1, <3>2, <4>1 DEF BookedCash, BookedPositions, Writing, DealOrder, DealPrice,
          IsBuy, Signed
      <4>. QED
        BY <1>1, <2>1, <4>2
    <3>. QED
      BY <2>3, <3>1, <3>2
  <2>. QED
    BY <2>2, <2>3
<1>3. ASSUME NEW k \in Kinds, BeginSubmit(k)
      PROVE  Summed'
  <2>1. /\ spc = "idle" /\ spc' = "readBid" /\ UNCHANGED <<mpc, cursor>>
        /\ terms' = [terms EXCEPT ![cur] = k]
        /\ UNCHANGED <<trades, cash, portfolio>>
    BY <1>3 DEF BeginSubmit, mainVars
  <2>2. cur \in Orders /\ ostate[cur] = "none" /\ mpc \notin Sweeping
    BY <1>3, <2>1, VirtualBrokerAssumption
    DEF BeginSubmit, CoreInv, Numbered, TypeOK, Orders, Locked
  <2>3. UNCHANGED <<trades, BookedCash, BookedPositions>>
    BY <2>1, <2>2, NoDeal DEF Dealing, Sweeping
  <2>4. \A i \in DOMAIN trades : terms'[trades[i].order] = terms[trades[i].order]
    BY <1>0, <2>1, <2>2 DEF TypeOK
  <2>. QED
    BY <1>0, <2>3, <2>4, NoTrade
<1>4. CASE Decide \/ EnableTicker
  <2>1. /\ spc \notin Dealing /\ mpc \notin Dealing /\ UNCHANGED <<terms, cur, mpc, cursor>>
        /\ UNCHANGED <<cash, portfolio, trades>>
        /\ (spc' \in Dealing /\ spc' = FirstWrite(cur)) \/ spc' \notin Dealing
    <3>1. spc \in {"decide", "enable"} /\ mpc \notin Sweeping
      BY <1>4, InSubmit DEF Decide, EnableTicker
    <3>2. /\ UNCHANGED <<terms, cur, mpc, cursor, cash, portfolio, trades>>
          /\ spc' \in {"notify", "enable"} \/ spc' = FirstWrite(cur)
      BY <1>4 DEF Decide, FillNow, StartDeal, Reject, AddPending, EnableTicker, bookVars,
        mainVars
    <3>. QED
      BY <3>1, <3>2 DEF Dealing, Sweeping, FirstWrite
  <2>2. UNCHANGED <<trades, BookedCash, BookedPositions>>
    BY <2>1, NoDeal
  <2>. QED
    BY <1>1, <2>1, <2>2
<1>5. ASSUME NEW o \in Orders, SweepFill(o)
      PROVE  Summed'
  <2>1. /\ spc = "idle" /\ mpc = "sweep" /\ UNCHANGED <<spc, terms, cash, portfolio, trades>>
        /\ cursor' = o /\ mpc' = FirstWrite(o)
    BY <1>5, SweepFillFacts DEF SweepFill, StartDeal, BookInv, serverVars
  <2>2. UNCHANGED <<trades, BookedCash, BookedPositions>>
    BY <2>1, NoDeal DEF Dealing
  <2>. QED
    BY <1>1, <2>1, <2>2
<1>6. CASE SweepErase
  <2>1. /\ mpc = "erase" /\ mpc' = "notify" /\ spc' = spc
        /\ UNCHANGED <<terms, cash, portfolio, trades>>
    BY <1>6 DEF SweepErase, serverVars
  <2>2. spc = "idle"
    BY <2>1, InFill
  <2>3. UNCHANGED <<trades, BookedCash, BookedPositions>>
    BY <2>1, <2>2, NoDeal DEF Dealing
  <2>. QED
    BY <1>1, <2>1, <2>3
<1>7. ASSUME NEW o \in Orders, NEW price \in Nat, terms[o] \in Kinds, UNCHANGED terms,
             BookedPositions \in [Securities -> Int],
             \/ UNCHANGED <<trades, BookedCash, BookedPositions>>
             \/ /\ trades' = Append(trades, [order |-> o, price |-> price])
                /\ BookedCash' = BookedCash - price * Signed(o)
                /\ BookedPositions' =
                     [BookedPositions EXCEPT ![terms[o].security] = @ + Signed(o)]
      PROVE  Summed'
  BY <1>0, <1>1, <1>7, OneMoreTrade
<1>8. CASE SubmitPosition \/ SubmitCash \/ SweepPosition \/ SweepCash
  <2>1. PICK th \in Threads, o \in Orders, price \in Nat : DealWrite(th, o, price)
    BY <1>8, DealWrites
  <2>2. /\ UNCHANGED terms /\ BookedPositions \in [Securities -> Int]
        /\ \/ UNCHANGED <<trades, BookedCash, BookedPositions>>
           \/ /\ trades' = Append(trades, [order |-> o, price |-> price])
              /\ BookedCash' = BookedCash - price * Signed(o)
              /\ BookedPositions' =
                   [BookedPositions EXCEPT ![terms[o].security] = @ + Signed(o)]
    BY <1>0, <2>1, DealSums
  <2>3. terms[o] \in Kinds
    BY <2>1 DEF DealWrite
  <2>. QED
    BY <1>7, <2>2, <2>3
<1>. QED
  BY <1>2, <1>3, <1>4, <1>5, <1>6, <1>8, BookSteps

LEMMA NothingSummed == Init => Summed
<1> SUFFICES ASSUME Init PROVE Summed
  OBVIOUS
<1>1. Len(trades) = 0 /\ BookedCash = StartCash /\ BookedPositions = [s \in Securities |-> 0]
  BY DEF Init, BookedCash, BookedPositions, Writing, Dealing
<1>2. 0 .. 0 = {0}
  OBVIOUS
<1> DEFINE f == [n \in {0} |-> StartCash]
           g == [n \in {0} |-> [s \in Securities |-> 0]]
<1>3. SumsCash(f) /\ \A h : SumsCash(h) => h[0] = StartCash
  BY <1>1, <1>2 DEF SumsCash
<1>4. SumsPositions(g) /\ \A h : SumsPositions(h) => h[0] = [s \in Securities |-> 0]
  BY <1>1, <1>2 DEF SumsPositions
<1>. QED
  BY <1>1, <1>3, <1>4 DEF Summed

----------------------------------------------------------------------------
(* The theorems. *)

LEMMA InitHolds == Init => IInv
<1>. SUFFICES ASSUME Init PROVE IInv
  OBVIOUS
<1>1. TypeOK
  BY VirtualBrokerAssumption DEF Init, TypeOK
<1>2. Locked /\ Numbered /\ Submitting /\ Carried /\ Registers
  BY VirtualBrokerAssumption
  DEF Init, Locked, Numbered, Undecided, Submitting, Carried, Registers, Orders, Sweeping, Dealing
<1>3. EnabledIffPending /\ OneTrade /\ LimitRespected /\ SweptBehind
  BY DEF Init, EnabledIffPending, OneTrade, Traded, LimitRespected, SweptBehind
<1>. QED
  BY <1>1, <1>2, <1>3 DEF IInv, CoreInv, BookInv

LEMMA Inductive == Spec => []IInv
<1>1. IInv /\ [Next]_vars => IInv'
  BY CoreStep, BookStep, SweepStep DEF IInv, BookInv
<1>. QED
  BY <1>1, InitHolds, PTL DEF Spec

\* The variables keep their types.
THEOREM TypeCorrect == Spec => []TypeOK
<1>1. IInv => TypeOK
  BY DEF IInv, CoreInv
<1>. QED
  BY <1>1, Inductive, PTL

\* The enabled set that updateQuote reads without the lock has a ticker exactly
\* while an order waits for it, but for the order whose ticker submitOrder has
\* yet to enable.
THEOREM EnabledIffPendingHolds == Spec => []EnabledIffPending
<1>1. IInv => EnabledIffPending
  BY DEF IInv, BookInv
<1>. QED
  BY <1>1, Inductive, PTL

\* No order is filled twice, by one thread or by both.
THEOREM OneTradeHolds == Spec => []OneTrade
<1>1. IInv => OneTrade
  BY DEF IInv, BookInv
<1>. QED
  BY <1>1, Inductive, PTL

\* No fill is worse than the order's limit.
THEOREM LimitRespectedHolds == Spec => []LimitRespected
<1>1. IInv => LimitRespected
  BY DEF IInv, BookInv
<1>. QED
  BY <1>1, Inductive, PTL

\* The sweep passes no order over that its tick fills.
THEOREM SweptBehindHolds == Spec => []SweptBehind
<1>1. IInv => SweptBehind
  BY DEF IInv
<1>. QED
  BY <1>1, Inductive, PTL

\* Outside the deals the account is what its trades make of the one it started
\* with: although a thread reads the cash and the position in one step and writes
\* them in a later one, no update of the other thread is lost, or made twice.
THEOREM BooksBalanceHolds == Spec => []BooksBalance
<1>1. IInv /\ Summed /\ [Next]_vars => Summed'
  BY SumStep DEF IInv
<1>2. Spec => []Summed
  BY <1>1, NothingSummed, Inductive, PTL DEF Spec
<1>. QED
  BY <1>2, Inductive, SummedBalances, PTL

\* The broker implements the contract its server is proved against: every step
\* of either thread is a submission, a move that leaves a notice owed, the
\* callback that pays it, or nothing the server can see.
THEOREM Implements == Spec => ImplementsContract
<1>1. Init => Contract!ContractInit
  BY DEF Init, Owed, Contract!ContractInit
<1>2. ASSUME IInv, [Next]_vars
      PROVE  [Contract!ContractNext]_(Contract!contractVars)
  <2>. USE <1>2 DEF IInv
  <2>1. spc # "idle" =>
          /\ cur \in Orders /\ terms[cur] \in Kinds /\ mpc \notin Sweeping
          /\ Opposite(terms[cur]) \in Nat
    BY InSubmit
  <2>2. spc # "idle" =>
          Owed = IF /\ spc \in {"position", "cash", "enable", "notify"}
                    /\ ostate[cur] # "Unsubmitted"
                 THEN {cur} ELSE {}
    BY <2>1 DEF Owed, Sweeping
  <2>3. spc' # "idle" /\ mpc' \notin Sweeping =>
          Owed' = IF /\ spc' \in {"position", "cash", "enable", "notify"}
                     /\ ostate'[cur'] # "Unsubmitted"
                  THEN {cur'} ELSE {}
    BY DEF Owed, Sweeping
  <2>4. "Executed" \in Contract!States
    BY DEF Contract!States, Contract!Terminal
  <2>5. ASSUME NEW k \in Kinds, BeginSubmit(k)
        PROVE  \E o \in Orders : Contract!Submit(o)
    <3>1. /\ cur \in Orders /\ ostate[cur] = "none" /\ mpc \notin Sweeping
          /\ spc = "idle" /\ spc' = "readBid" /\ UNCHANGED <<mpc, cursor, notices>>
          /\ ostate' = [ostate EXCEPT ![cur] = "Unsubmitted"]
      BY <2>5, VirtualBrokerAssumption
      DEF BeginSubmit, CoreInv, Numbered, Locked, TypeOK, Orders, mainVars
    <3>2. Owed = {} /\ Owed' = {}
      BY <3>1 DEF Owed, Sweeping
    <3>. QED
      BY <3>1, <3>2 DEF Contract!Submit
  <2>6. CASE Decide
    <3>1. /\ cur \in Orders /\ ostate[cur] = "Unsubmitted" /\ mpc \notin Sweeping /\ mpc' = mpc
          /\ spc = "decide" /\ cur' = cur /\ notices' = notices
      BY <2>6, Decision DEF Decide, mainVars
    <3>2. ASSUME NEW s \in {"Executed", "Rejected", "Submitted"},
                 ostate' = [ostate EXCEPT ![cur] = s],
                 spc' \in {"position", "cash", "enable", "notify"}
          PROVE  Contract!ContractNext
      <4>1. ostate'[cur'] = s
        BY <3>1, <3>2 DEF CoreInv, TypeOK
      <4>2. Owed = {} /\ Owed' = {cur}
        BY <2>2, <2>3, <3>1, <3>2, <4>1
      <4>3. Contract!Move(cur, s)
        BY <3>1, <3>2, <4>2 DEF Contract!Move, Contract!CanMove
      <4>4. s \in Contract!States
        BY DEF Contract!States, Contract!Terminal
      <4>. QED
        BY <3>1, <4>3, <4>4 DEF Contract!ContractNext
    <3>3. CASE /\ Marketable(terms[cur]) /\ StartDeal("server", cur)
               /\ spc' = FirstWrite(cur) /\ UNCHANGED pending
      <4>1. CASE IsBuy(cur)
        BY <3>2, <3>3, <4>1 DEF StartDeal, SetExecuted, FirstWrite
      <4>2. CASE ~IsBuy(cur)
        <5>1. ostate' = ostate /\ spc' = "cash"
          BY <3>3, <4>2 DEF StartDeal, FirstWrite
        <5>2. Owed' = Owed
          BY <2>2, <2>3, <3>1, <5>1
        <5>. QED
          BY <3>1, <5>1, <5>2 DEF Contract!contractVars
      <4>. QED
        BY <4>1, <4>2
    <3>4. CASE \/ ostate' = [ostate EXCEPT ![cur] = "Rejected"] /\ spc' = "notify"
               \/ ostate' = [ostate EXCEPT ![cur] = "Submitted"] /\ spc' = "enable"
      BY <3>2, <3>4
    <3>. QED
      BY <2>6, <3>3, <3>4, Decision
  <2>7. ASSUME EnableTicker \/ SubmitPosition \/ SubmitCash
        PROVE  [Contract!ContractNext]_(Contract!contractVars)
    <3>1. /\ spc \in {"enable", "position", "cash"} /\ spc' \in {"position", "cash", "notify"}
          /\ UNCHANGED <<cur, mpc, cursor, notices>>
      BY <2>7 DEF EnableTicker, SubmitPosition, SubmitCash, mainVars
    <3>2. \/ ostate' = ostate
          \/ /\ ostate[cur] = "Unsubmitted" /\ ostate' = [ostate EXCEPT ![cur] = "Executed"]
      <4>1. CASE EnableTicker \/ SubmitCash
        BY <4>1 DEF EnableTicker, SubmitCash, WriteCash, bookVars
      <4>2. CASE SubmitPosition
        BY <4>2 DEF SubmitPosition, WritePosition, SetExecuted, CoreInv, Submitting, Dealing
      <4>. QED
        BY <2>7, <4>1, <4>2
    <3>3. CASE ostate' = ostate
      <4>1. Owed' = Owed
        BY <2>1, <2>2, <2>3, <3>1, <3>3
      <4>. QED
        BY <3>1, <3>3, <4>1 DEF Contract!contractVars
    <3>4. CASE /\ ostate[cur] = "Unsubmitted" /\ ostate' = [ostate EXCEPT ![cur] = "Executed"]
      <4>1. ostate'[cur'] = "Executed" /\ cur \in Orders
        BY <2>1, <3>1, <3>4 DEF CoreInv, TypeOK
      <4>2. Owed = {} /\ Owed' = {cur}
        BY <2>1, <2>2, <2>3, <3>1, <3>4, <4>1
      <4>3. Contract!Move(cur, "Executed")
        BY <3>1, <3>4, <4>2 DEF Contract!Move, Contract!CanMove
      <4>. QED
        BY <2>4, <4>1, <4>3 DEF Contract!ContractNext
    <3>. QED
      BY <3>2, <3>3, <3>4
  <2>8. CASE EndSubmit
    <3>1. /\ spc = "notify" /\ spc' = "idle" /\ UNCHANGED <<ostate, mpc, cursor>>
          /\ notices' = Append(notices, cur)
      BY <2>8 DEF EndSubmit, Announce, bookVars, mainVars
    <3>2. ostate[cur] # "Unsubmitted"
      BY <2>1, <3>1 DEF CoreInv, Numbered, Undecided, Dealing
    <3>3. Owed = {cur} /\ Owed' = {}
      BY <2>1, <2>2, <3>1, <3>2 DEF Owed, Sweeping
    <3>4. Contract!Notify(cur)
      BY <3>1, <3>3 DEF Contract!Notify
    <3>. QED
      BY <2>1, <3>1, <3>4 DEF Contract!ContractNext
  <2>9. ASSUME NEW o \in Orders, SweepFill(o)
        PROVE  [Contract!ContractNext]_(Contract!contractVars)
    <3>1. /\ ostate[o] = "Submitted" /\ spc = "idle" /\ spc' = "idle" /\ mpc = "sweep"
          /\ StartDeal("main", o) /\ cursor' = o /\ mpc' = FirstWrite(o) /\ notices' = notices
      BY <2>9, SweepFillFacts DEF SweepFill, serverVars, BookInv
    <3>2. Owed = {}
      BY <3>1 DEF Owed
    <3>3. CASE IsBuy(o)
      <4>1. ostate' = [ostate EXCEPT ![o] = "Executed"] /\ mpc' = "position"
        BY <3>1, <3>3 DEF StartDeal, SetExecuted, FirstWrite
      <4>2. ostate'[o] = "Executed"
        BY <4>1 DEF CoreInv, TypeOK
      <4>3. Owed' = {o}
        BY <3>1, <4>1, <4>2 DEF Owed
      <4>4. Contract!Move(o, "Executed")
        BY <3>1, <3>2, <4>1, <4>3 DEF Contract!Move, Contract!CanMove
      <4>. QED
        BY <2>4, <4>4 DEF Contract!ContractNext
    <3>4. CASE ~IsBuy(o)
      <4>1. ostate' = ostate /\ mpc' = "cash"
        BY <3>1, <3>4 DEF StartDeal, FirstWrite
      <4>2. Owed' = {}
        BY <3>1, <4>1 DEF Owed
      <4>. QED
        BY <3>1, <3>2, <4>1, <4>2 DEF Contract!contractVars
    <3>. QED
      BY <3>3, <3>4
  <2>10. ASSUME SweepPosition \/ SweepCash
         PROVE  [Contract!ContractNext]_(Contract!contractVars)
    <3>1. /\ mpc \in {"position", "cash"} /\ mpc' \in {"position", "cash", "erase"}
          /\ UNCHANGED <<cursor, spc, cur, notices>>
      BY <2>10 DEF SweepPosition, SweepCash, serverVars
    <3>2. cursor \in Orders /\ spc = "idle"
      BY <3>1, InFill
    <3>3. \/ ostate' = ostate
          \/ ostate[cursor] = "Submitted" /\ ostate' = [ostate EXCEPT ![cursor] = "Executed"]
      <4>1. CASE SweepCash
        BY <4>1 DEF SweepCash, WriteCash
      <4>2. CASE SweepPosition
        BY <4>2 DEF SweepPosition, WritePosition, SetExecuted, CoreInv, Carried
      <4>. QED
        BY <2>10, <4>1, <4>2
    <3>4. CASE ostate' = ostate
      <4>1. Owed' = Owed
        BY <3>1, <3>2, <3>4 DEF Owed
      <4>. QED
        BY <3>1, <3>4, <4>1 DEF Contract!contractVars
    <3>5. CASE ostate[cursor] = "Submitted" /\ ostate' = [ostate EXCEPT ![cursor] = "Executed"]
      <4>1. ostate'[cursor'] = "Executed"
        BY <3>1, <3>2, <3>5 DEF CoreInv, TypeOK
      <4>2. Owed = {} /\ Owed' = {cursor}
        BY <3>1, <3>2, <3>5, <4>1 DEF Owed
      <4>3. Contract!Move(cursor, "Executed")
        BY <3>1, <3>5, <4>2 DEF Contract!Move, Contract!CanMove
      <4>. QED
        BY <2>4, <3>2, <4>3 DEF Contract!ContractNext
    <3>. QED
      BY <3>3, <3>4, <3>5
  <2>11. CASE SweepErase
    <3>1. /\ mpc = "erase" /\ mpc' = "notify" /\ cursor' = cursor + 1
          /\ UNCHANGED <<ostate, notices, spc, cur>>
      BY <2>11 DEF SweepErase, Erase, serverVars
    <3>2. cursor \in Orders /\ spc = "idle" /\ ostate[cursor] = "Executed"
      BY <3>1, InFill DEF CoreInv, Carried
    <3>3. cursor' - 1 = cursor
      BY <3>1, <3>2, VirtualBrokerAssumption DEF Orders
    <3>4. Owed' = Owed
      BY <3>1, <3>2, <3>3 DEF Owed
    <3>. QED
      BY <3>1, <3>4 DEF Contract!contractVars
  <2>12. CASE SweepNotify
    <3>1. /\ mpc = "notify" /\ mpc' = "sweep" /\ notices' = Append(notices, cursor - 1)
          /\ UNCHANGED <<ostate, spc>>
      BY <2>12 DEF SweepNotify, Announce, bookVars, serverVars
    <3>2. cursor - 1 \in Orders /\ spc = "idle"
      BY <3>1, VirtualBrokerAssumption DEF CoreInv, Carried, TypeOK, Orders, Locked, Sweeping
    <3>3. Owed = {cursor - 1} /\ Owed' = {}
      BY <3>1, <3>2 DEF Owed
    <3>4. Contract!Notify(cursor - 1)
      BY <3>1, <3>3 DEF Contract!Notify
    <3>. QED
      BY <3>2, <3>4 DEF Contract!ContractNext
  <2>13. ASSUME \/ ReadBid \/ ReadOffer
                \/ \E t \in Ticks : WriteQuote(t)
                \/ CheckEnabled \/ BeginSweep
                \/ \E o \in Orders : SweepSkip(o)
                \/ EndSweep
                \/ UNCHANGED vars
         PROVE  UNCHANGED Contract!contractVars
    <3>1. UNCHANGED <<ostate, notices>>
      BY <2>13 DEF ReadBid, ReadOffer, WriteQuote, CheckEnabled, BeginSweep, SweepSkip,
        EndSweep, vars, bookVars
    <3>2. Owed' = Owed
      <4>1. CASE ReadBid \/ ReadOffer
        BY <4>1 DEF ReadBid, ReadOffer, Owed, mainVars, bookVars
      <4>2. CASE (\E t \in Ticks : WriteQuote(t)) \/ CheckEnabled \/ BeginSweep
        BY <4>2 DEF WriteQuote, CheckEnabled, BeginSweep, Owed, serverVars, bookVars
      <4>3. CASE (\E o \in Orders : SweepSkip(o)) \/ EndSweep
        BY <4>3 DEF SweepSkip, EndSweep, Owed, serverVars, bookVars
      <4>4. CASE UNCHANGED vars
        BY <4>4 DEF vars, Owed, serverVars, mainVars, bookVars
      <4>. QED
        BY <2>13, <4>1, <4>2, <4>3, <4>4
    <3>. QED
      BY <3>1, <3>2 DEF Contract!contractVars
  <2>. QED
    BY <1>2, <2>5, <2>6, <2>7, <2>8, <2>9, <2>10, <2>11, <2>12, <2>13
    DEF Next, SubmitStep, TickStep, Contract!ContractNext
<1>. QED
  BY <1>1, <1>2, Inductive, PTL DEF Spec, ImplementsContract, Contract!ContractSpec
=============================================================================
