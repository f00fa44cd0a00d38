---------------------------- MODULE VirtualBroker ----------------------------
(***************************************************************************)
(* core/brokers/virtualbroker.cpp and core/quotetable.cpp: a broker that   *)
(* fills orders against the quotes it sees.  Two threads meet in it.  The  *)
(* BrokerServer thread calls submitOrder, which holds m_mutex from its     *)
(* first line to its last.  The main thread calls QuoteTable::updateQuote, *)
(* which has no lock of its own: it writes the quote, then looks whether   *)
(* the ticker is enabled, and only then calls incomingTick, which takes    *)
(* m_mutex and sweeps the list of pending orders.                          *)
(*                                                                         *)
(* A thread that fills an order reads and writes the position and the cash *)
(* in separate steps, so that an update could be lost between two threads. *)
(* A step that reads does so at the end of the step before.                *)
(*                                                                         *)
(* Prices and cash are integers; 0 is "no quote", the value of the Tick    *)
(* lastQuote returns for a pair it does not have.  Order ids are handed    *)
(* out in the order of submission, so the pending list is always in the    *)
(* order of its ids and is modelled as a set.                              *)
(***************************************************************************)
EXTENDS Integers, Sequences

CONSTANTS
  MaxOrders,         \* bound: orders submitted
  Securities,        \* tickers
  Kinds,             \* what is ordered: see OrderKinds
  Ticks,             \* what the import parsers deliver: see TickKinds
  StartCash,         \* the cash of the new account
  None

Orders == 0 .. (MaxOrders - 1)

OrderKinds == [security : Securities, operation : {"buy", "sell"},
               type : {"market", "limit"}, price : Nat, amount : Nat]
TickKinds == [security : Securities, datatype : {"bid", "offer", "price"}, value : Nat]

ASSUME VirtualBrokerAssumption ==
  /\ MaxOrders \in Nat /\ StartCash \in Int
  /\ Kinds \subseteq OrderKinds
  /\ Ticks \subseteq TickKinds
  /\ None \notin Kinds /\ None \notin Ticks /\ None \notin {"server", "main"}

VARIABLES
  ostate,            \* Order::m_state, "none" before submitOrder
  terms,             \* what each order asks for, None before submitOrder
  pending,           \* m_pendingOrders
  cash,              \* m_cash
  portfolio,         \* m_portfolio, 0 for a security without an entry
  quote,             \* QuoteTable::m_table, the pairs submitOrder looks up
  enabled,           \* QuoteTable::m_enabledTickers
  mutex,             \* the thread that holds m_mutex: "server", "main" or None
  spc,               \* where the server thread is in submitOrder
  cur,               \* the order it is submitting
  bid, offer,        \* the quotes it has read
  mpc,               \* where the main thread is in updateQuote
  tick,              \* the tick it carries
  cursor,            \* the sweep has passed the orders below it
  seen,              \* per thread, the cash or position it read and will change
  trades,            \* history: the trades given to emitTrade
  notices            \* history: the order callbacks made

bookVars == <<ostate, terms, pending, cash, portfolio, trades>>
serverVars == <<spc, cur, bid, offer>>
mainVars == <<mpc, tick, cursor>>
vars == <<bookVars, quote, enabled, mutex, serverVars, mainVars, seen, notices>>

Threads == {"server", "main"}

Trades == [order : Orders, price : Nat]

TypeOK ==
  /\ ostate \in [Orders -> {"none", "Unsubmitted", "Submitted", "Executed", "Rejected"}]
  /\ terms \in [Orders -> Kinds \cup {None}]
  /\ pending \in SUBSET Orders
  /\ cash \in Int
  /\ portfolio \in [Securities -> Int]
  /\ quote \in [Securities \X {"bid", "offer"} -> Nat]
  /\ enabled \in SUBSET Securities
  /\ mutex \in {"server", "main", None}
  /\ spc \in {"idle", "readBid", "readOffer", "decide", "position", "cash", "enable",
             "notify"}
  /\ cur \in 0 .. MaxOrders
  /\ bid \in Nat /\ offer \in Nat
  /\ mpc \in {"idle", "check", "lock", "sweep", "position", "cash", "erase", "notify"}
  /\ tick \in Ticks \cup {None}
  /\ cursor \in 0 .. MaxOrders
  /\ seen \in [Threads -> Int]
  /\ trades \in Seq(Trades)
  /\ notices \in Seq(Orders)

Init ==
  /\ ostate = [o \in Orders |-> "none"]
  /\ terms = [o \in Orders |-> None]
  /\ pending = {}
  /\ cash = StartCash
  /\ portfolio = [s \in Securities |-> 0]
  /\ quote = [q \in Securities \X {"bid", "offer"} |-> 0]
  /\ enabled = {}
  /\ mutex = None
  /\ spc = "idle" /\ cur = 0 /\ bid = 0 /\ offer = 0
  /\ mpc = "idle" /\ tick = None /\ cursor = 0
  /\ seen = [th \in Threads |-> 0]
  /\ trades = <<>> /\ notices = <<>>

----------------------------------------------------------------------------
(* What both threads do: executeBuyAt and executeSellAt, orderStateUpdated. *)

\* Variant: an order is announced once and for all.
Announce_Once(o) ==
  notices' = IF \E i \in DOMAIN notices : notices[i] = o THEN notices ELSE Append(notices, o)

\* The order callback puts the id on the order-state queue.
Announce(o) == notices' = Append(notices, o)

IsBuy(o) == terms[o].operation = "buy"
Signed(o) == IF IsBuy(o) THEN terms[o].amount ELSE -terms[o].amount

SetExecuted(o) == ostate' = [ostate EXCEPT ![o] = "Executed"]
See(th, v) == seen' = [seen EXCEPT ![th] = v]

\* executeBuyAt sets the state, then changes the position, then the cash;
\* executeSellAt changes the cash, then the position, then sets the state.
FirstWrite(o) == IF IsBuy(o) THEN "position" ELSE "cash"
LastWrite(o) == IF IsBuy(o) THEN "cash" ELSE "position"

StartDeal(th, o) ==
  /\ \/ IsBuy(o) /\ SetExecuted(o) /\ See(th, portfolio[terms[o].security])
     \/ ~IsBuy(o) /\ UNCHANGED ostate /\ See(th, cash)
  /\ UNCHANGED <<terms, cash, portfolio, trades>>

\* The deal is done with its last write, and emitTrade follows.
WritePosition(th, o, price) ==
  /\ portfolio' = [portfolio EXCEPT ![terms[o].security] = seen[th] + Signed(o)]
  /\ \/ IsBuy(o) /\ See(th, cash) /\ UNCHANGED <<ostate, trades>>
     \/ /\ ~IsBuy(o) /\ See(th, 0) /\ SetExecuted(o)
        /\ trades' = Append(trades, [order |-> o, price |-> price])
  /\ UNCHANGED <<terms, pending, cash>>

WriteCash(th, o, price) ==
  /\ cash' = seen[th] - price * Signed(o)
  /\ \/ ~IsBuy(o) /\ See(th, portfolio[terms[o].security]) /\ UNCHANGED trades
     \/ IsBuy(o) /\ See(th, 0) /\ trades' = Append(trades, [order |-> o, price |-> price])
  /\ UNCHANGED <<terms, ostate, pending, portfolio>>

----------------------------------------------------------------------------
(* The server thread: VirtualBroker::submitOrder. *)

BeginSubmit(k) ==
  /\ spc = "idle" /\ cur < MaxOrders
  /\ mutex = None
  /\ mutex' = "server"
  /\ ostate' = [ostate EXCEPT ![cur] = "Unsubmitted"]
  /\ terms' = [terms EXCEPT ![cur] = k]
  /\ spc' = "readBid"
  /\ UNCHANGED <<pending, cash, portfolio, trades, quote, enabled, cur, bid, offer,
                 mainVars, seen, notices>>

\* QuoteTable::lastQuote, twice, while the main thread may be writing.
ReadBid ==
  /\ spc = "readBid"
  /\ bid' = quote[<<terms[cur].security, "bid">>]
  /\ spc' = "readOffer"
  /\ UNCHANGED <<bookVars, quote, enabled, mutex, cur, offer, mainVars, seen, notices>>

ReadOffer ==
  /\ spc = "readOffer"
  /\ offer' = quote[<<terms[cur].security, "offer">>]
  /\ spc' = "decide"
  /\ UNCHANGED <<bookVars, quote, enabled, mutex, cur, bid, mainVars, seen, notices>>

\* The quote on the other side of the order's.
Opposite(t) == IF t.operation = "buy" THEN offer ELSE bid

\* Variant: the limit is not looked at once there is a quote.
Marketable_AnyQuote(t) == Opposite(t) # 0

\* The order can be filled at the quotes read.
Marketable(t) ==
  /\ Opposite(t) # 0
  /\ \/ t.type = "market"
     \/ t.operation = "buy" /\ offer <= t.price
     \/ t.operation = "sell" /\ bid >= t.price

Affordable(t) == t.operation = "sell" \/ offer * t.amount <= cash

FillNow ==
  /\ Marketable(terms[cur]) /\ Affordable(terms[cur])
  /\ StartDeal("server", cur)
  /\ spc' = FirstWrite(cur)
  /\ UNCHANGED pending

Reject ==
  /\ \/ Marketable(terms[cur]) /\ ~Affordable(terms[cur])
     \/ terms[cur].type = "market" /\ ~Marketable(terms[cur])
  /\ ostate' = [ostate EXCEPT ![cur] = "Rejected"]
  /\ spc' = "notify"
  /\ UNCHANGED <<terms, pending, cash, portfolio, trades, seen>>

\* The order is in the list before its ticker is enabled.
AddPending ==
  /\ terms[cur].type = "limit" /\ ~Marketable(terms[cur])
  /\ ostate' = [ostate EXCEPT ![cur] = "Submitted"]
  /\ pending' = pending \cup {cur}
  /\ spc' = "enable"
  /\ UNCHANGED <<terms, cash, portfolio, trades, seen>>

Decide ==
  /\ spc = "decide"
  /\ FillNow \/ Reject \/ AddPending
  /\ UNCHANGED <<quote, enabled, mutex, cur, bid, offer, mainVars, notices>>

EnableTicker ==
  /\ spc = "enable"
  /\ enabled' = enabled \cup {terms[cur].security}
  /\ spc' = "notify"
  /\ UNCHANGED <<bookVars, quote, mutex, cur, bid, offer, mainVars, seen, notices>>

SubmitPosition ==
  /\ spc = "position"
  /\ WritePosition("server", cur, Opposite(terms[cur]))
  /\ spc' = IF LastWrite(cur) = "position" THEN "notify" ELSE "cash"
  /\ UNCHANGED <<quote, enabled, mutex, cur, bid, offer, mainVars, notices>>

SubmitCash ==
  /\ spc = "cash"
  /\ WriteCash("server", cur, Opposite(terms[cur]))
  /\ spc' = IF LastWrite(cur) = "cash" THEN "notify" ELSE "position"
  /\ UNCHANGED <<quote, enabled, mutex, cur, bid, offer, mainVars, notices>>

\* orderStateUpdated, then the lock goes with the function's scope.
EndSubmit ==
  /\ spc = "notify"
  /\ Announce(cur)
  /\ mutex' = None
  /\ spc' = "idle" /\ cur' = cur + 1
  /\ bid' = 0 /\ offer' = 0
  /\ UNCHANGED <<bookVars, quote, enabled, mainVars, seen>>

----------------------------------------------------------------------------
(* The main thread: QuoteTable::updateQuote and VirtualBroker::incomingTick. *)

\* The entries with datatype Price are written too, and read by nobody.
WriteQuote(t) ==
  /\ mpc = "idle"
  /\ tick' = t
  /\ quote' = IF t.datatype = "price" THEN quote
              ELSE [quote EXCEPT ![<<t.security, t.datatype>>] = t.value]
  /\ mpc' = "check"
  /\ UNCHANGED <<bookVars, enabled, mutex, serverVars, cursor, seen, notices>>

CheckEnabled ==
  /\ mpc = "check"
  /\ \/ tick.security \in enabled /\ mpc' = "lock" /\ UNCHANGED tick
     \/ tick.security \notin enabled /\ mpc' = "idle" /\ tick' = None
  /\ UNCHANGED <<bookVars, quote, enabled, mutex, serverVars, cursor, seen, notices>>

\* Variant: incomingTick without its lock.
BeginSweep_NoLock ==
  /\ mpc = "lock"
  /\ mutex' = "main"
  /\ mpc' = "sweep"
  /\ UNCHANGED <<bookVars, quote, enabled, serverVars, tick, cursor, seen, notices>>

BeginSweep ==
  /\ mpc = "lock" /\ mutex = None
  /\ mutex' = "main"
  /\ mpc' = "sweep"
  /\ UNCHANGED <<bookVars, quote, enabled, serverVars, tick, cursor, seen, notices>>

\* The tick fills a pending order: the right side of the book, or the last
\* price, at the order's price or better.  There is no test for 0 here.
Fills(t, o) ==
  /\ terms[o].security = t.security
  /\ \/ /\ terms[o].operation = "buy"
        /\ t.value <= terms[o].price
        /\ t.datatype \in {"offer", "price"}
     \/ /\ terms[o].operation = "sell"
        /\ t.value >= terms[o].price
        /\ t.datatype \in {"bid", "price"}

Rest == {o \in pending : o >= cursor}

\* The first order the sweep has not seen.
IsNext(o) == o \in Rest /\ \A p \in Rest : o <= p

\* Variants: a filled order stays in the list; the step after an erased
\* element is taken twice.
Erase_Not(o) == pending' = pending /\ cursor' = o + 1
Erase_SkipsNext(o) == pending' = pending \ {o} /\ cursor' = o + 2

Erase(o) == pending' = pending \ {o} /\ cursor' = o + 1

\* Variant: the ticker is disabled whoever else still waits on it.
UnsubscribeIfNeeded_Always(s) == enabled' = enabled \ {s}

\* Evaluated after the order has been erased.
UnsubscribeIfNeeded(s) ==
  enabled' = IF \E p \in pending' : terms[p].security = s THEN enabled ELSE enabled \ {s}

\* A resting order is filled at its own price, whatever the account holds.
\* The cursor stays on it until it is erased.
SweepFill(o) ==
  /\ mpc = "sweep" /\ IsNext(o) /\ Fills(tick, o)
  /\ StartDeal("main", o)
  /\ cursor' = o
  /\ mpc' = FirstWrite(o)
  /\ UNCHANGED <<pending, enabled, quote, mutex, serverVars, tick, notices>>

SweepPosition ==
  /\ mpc = "position"
  /\ WritePosition("main", cursor, terms[cursor].price)
  /\ mpc' = IF LastWrite(cursor) = "position" THEN "erase" ELSE "cash"
  /\ UNCHANGED <<quote, enabled, mutex, serverVars, tick, cursor, notices>>

SweepCash ==
  /\ mpc = "cash"
  /\ WriteCash("main", cursor, terms[cursor].price)
  /\ mpc' = IF LastWrite(cursor) = "cash" THEN "erase" ELSE "position"
  /\ UNCHANGED <<quote, enabled, mutex, serverVars, tick, cursor, notices>>

SweepErase ==
  /\ mpc = "erase"
  /\ Erase(cursor)
  /\ UnsubscribeIfNeeded(terms[cursor].security)
  /\ mpc' = "notify"
  /\ UNCHANGED <<ostate, terms, cash, portfolio, trades, quote, mutex, serverVars, tick,
                 seen, notices>>

SweepNotify ==
  /\ mpc = "notify"
  /\ Announce(cursor - 1)
  /\ mpc' = "sweep"
  /\ UNCHANGED <<bookVars, quote, enabled, mutex, serverVars, tick, cursor, seen>>

SweepSkip(o) ==
  /\ mpc = "sweep" /\ IsNext(o) /\ ~Fills(tick, o)
  /\ cursor' = o + 1
  /\ UNCHANGED <<bookVars, quote, enabled, mutex, serverVars, mpc, tick, seen, notices>>

EndSweep ==
  /\ mpc = "sweep" /\ Rest = {}
  /\ mutex' = None
  /\ mpc' = "idle" /\ tick' = None /\ cursor' = 0
  /\ UNCHANGED <<bookVars, quote, enabled, serverVars, seen, notices>>

----------------------------------------------------------------------------

SubmitStep ==
  ReadBid \/ ReadOffer \/ Decide \/ EnableTicker \/ SubmitPosition \/ SubmitCash
    \/ EndSubmit

TickStep ==
  CheckEnabled \/ BeginSweep \/ (\E o \in Orders : SweepFill(o) \/ SweepSkip(o))
    \/ SweepPosition \/ SweepCash \/ SweepErase \/ SweepNotify \/ EndSweep

Next ==
  \/ \E k \in Kinds : BeginSubmit(k)
  \/ SubmitStep
  \/ \E t \in Ticks : WriteQuote(t)
  \/ TickStep

Spec == Init /\ [][Next]_vars

\* A call that was made goes on to its end.  Whether another order or another
\* tick comes is up to the world.
FairSpec == Spec /\ WF_vars(SubmitStep) /\ WF_vars(TickStep)

----------------------------------------------------------------------------
(* Properties. *)

\* A ticker is enabled exactly while a pending order waits for it, but for the
\* order that is being entered: it is in the list before its ticker is enabled.
\* updateQuote looks without the lock, so a tick that falls between the two is
\* not taken to that order (NoStrandedOrder); no other order misses a tick, and
\* no sweep is asked for where nobody waits.
EnabledIffPending ==
  \A s \in Securities :
    s \in enabled <=>
      \E o \in pending : ~(spc = "enable" /\ o = cur) /\ terms[o].security = s

\* The two threads never fill the same order: an order has at most one trade,
\* and has one exactly if it is executed and its deal is done; and the list of
\* pending orders has the submitted ones and the one the sweep is filling.
InDeal(o) ==
  \/ spc \in {"position", "cash"} /\ o = cur
  \/ mpc \in {"position", "cash"} /\ o = cursor
Traded(o) == \E i \in DOMAIN trades : trades[i].order = o
OneTrade ==
  /\ \A i, j \in DOMAIN trades : trades[i].order = trades[j].order => i = j
  /\ \A o \in Orders : Traded(o) <=> ostate[o] = "Executed" /\ ~InDeal(o)
  /\ \A o \in Orders :
       o \in pending <=>
         (ostate[o] = "Submitted" \/ (mpc \in {"position", "cash", "erase"} /\ o = cursor))

\* No trade is worse than the order's limit, whichever thread made it.
LimitRespected ==
  \A i \in DOMAIN trades :
    LET t == terms[trades[i].order]
    IN /\ t # None
       /\ t.type = "limit" /\ t.operation = "buy" => trades[i].price <= t.price
       /\ t.type = "limit" /\ t.operation = "sell" => trades[i].price >= t.price

\* The account is the sum of its trades whenever neither thread is in the middle
\* of a deal: of the cash and the positions that both read and then write, no
\* update is lost.
CashAfter[n \in 0 .. Len(trades)] ==
  IF n = 0 THEN StartCash ELSE CashAfter[n - 1] - trades[n].price * Signed(trades[n].order)
PositionsAfter[n \in 0 .. Len(trades)] ==
  IF n = 0 THEN [s \in Securities |-> 0]
  ELSE [s \in Securities |-> PositionsAfter[n - 1][s] +
          (IF terms[trades[n].order].security = s THEN Signed(trades[n].order) ELSE 0)]
BooksBalance ==
  (\A o \in Orders : ~InDeal(o)) =>
    cash = CashAfter[Len(trades)] /\ portfolio = PositionsAfter[Len(trades)]

\* The sweep misses nobody: no order it has passed and left in the list could
\* have been filled by its tick, although elements are erased on the way.
SweptBehind ==
  mpc \in {"sweep", "position", "cash", "erase", "notify"} => \A o \in pending : o < cursor => ~Fills(tick, o)

\* A tick that has found its ticker enabled fills every order it matches.
TickFills ==
  \A o \in Orders :
    (mpc = "lock" /\ o \in pending /\ Fills(tick, o)) ~> ostate[o] = "Executed"

\* tests/virtualbroker_test.cpp has a limit order executed when the matching
\* quote was there before it, and when the matching quote comes after it.  At
\* rest, then, no order waits beside a quote that fills it.
NoStrandedOrder ==
  spc = "idle" /\ mpc = "idle" =>
    \A o \in pending :
      LET t == terms[o]
          q == quote[<<t.security, IF t.operation = "buy" THEN "offer" ELSE "bid">>]
      IN q # 0 => IF t.operation = "buy" THEN q > t.price ELSE q < t.price

\* The broker keeps the contract the server is written against: an order is
\* owed its notice between the step that moved it and the callback.
Owed ==
  (IF spc \in {"position", "cash", "enable", "notify"} /\ ostate[cur] # "Unsubmitted"
     THEN {cur} ELSE {})
    \cup (IF mpc \in {"position", "cash", "erase"} /\ ostate[cursor] = "Executed"
            THEN {cursor} ELSE {})
    \cup (IF mpc = "notify" THEN {cursor - 1} ELSE {})
Contract == INSTANCE BrokerContract WITH owed <- Owed
ImplementsContract == Contract!ContractSpec

=============================================================================
