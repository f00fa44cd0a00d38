---------------------------- MODULE GatewayProofs ----------------------------
(***************************************************************************)
(* What main.cpp keeps of the account for any number of restarts, orders,  *)
(* ticks and crashes, and any room in the order-state queue: the file that *)
(* is read at the start is explained by how the run ended that left it.    *)
(*                                                                         *)
(* The broker's invariant (VirtualBrokerProofs) holds in every run, since  *)
(* a thread does here what it does there, only later.  A deal under way    *)
(* when main saves shows in the account as some of its writes: each of the *)
(* cash and the positions is as it was before the deal, the account        *)
(* remembered last but one, or as the deal makes it, the last.             *)
(***************************************************************************)
EXTENDS Gateway, VirtualBrokerProofs, SequenceTheorems

Accounts == [cash : Int, portfolio : [Securities -> Int]]

\* Only a process that runs has something under way.
Resting ==
  /\ life # "running" => mpc = "idle"
  /\ life = "off" => spc = "idle" /\ taken = None /\ ~polled
  /\ life # "saving" => before = 0

\* What of a deal under way is still to be written, and the account it makes.
UnderWay == Writing \in Dealing
CashLeft == Writing = "cash" \/ (Writing = "position" /\ IsBuy(DealOrder))
PositionLeft == Writing = "position" \/ (Writing = "cash" /\ ~IsBuy(DealOrder))

Completed ==
  Account(IF CashLeft THEN cash - DealPrice * Signed(DealOrder) ELSE cash,
          IF PositionLeft
          THEN [portfolio EXCEPT ![terms[DealOrder].security] = @ + Signed(DealOrder)]
          ELSE portfolio)

\* The account remembered last is what the deal under way makes of the account,
\* and what it has not yet written is as in the one before.
BeforeDeal(a) == (CashLeft => a.cash = cash) /\ (PositionLeft => a.portfolio = portfolio)

Remembered ==
  /\ accounts \in Seq(Accounts)
  /\ life # "off" =>
       /\ Len(accounts) > 0
       /\ accounts[Len(accounts)] = Completed
       /\ UnderWay => Len(accounts) > 1 /\ BeforeDeal(accounts[Len(accounts) - 1])

\* What the file says of entry e was so after one of the deals, from the one that
\* made account b on.
Explains(h, b, e) ==
  \E i \in b .. Len(h) : IF e = "SUR" THEN Near(file[e], h[i].cash)
                                      ELSE file[e] = h[i].portfolio[e]
Explained(h, b) == \A e \in DOMAIN file : Explains(h, b, e)

Restored == Account(Loaded("SUR", StartCash), [s \in Securities |-> Loaded(s, 0)])

\* How the run ended that left the file tells what is in it.
Left ==
  /\ last.how = "saved" =>
       \/ last = NeverRun /\ file = NoFile
       \/ DOMAIN file = Entries /\ Explained(last.accounts, last.before)
  /\ last.how = "unsaved" => last.accounts[1] = Restored
  /\ last.how = "torn" => Explained(last.accounts, last.before)

\* The file has the account the run began with, or if the run could not read it
\* what it had before, until it has what save wrote.
OnDisk ==
  /\ life = "off" => Left
  /\ life \in {"running", "leaving"} => IF loaded THEN accounts[1] = Restored ELSE Left
  /\ life = "saving" => /\ 0 < before /\ (UnderWay => before < Len(accounts))
                        /\ Explained(accounts, before)

GatewayInv == IInv /\ GatewayTypeOK /\ Resting /\ Remembered /\ OnDisk

----------------------------------------------------------------------------
(* What save may write. *)

\* A number goes to the file as one that is near to it.
LEMMA RoundedFacts ==
  ASSUME NEW c \in Int, NEW x \in Rounded(c)
  PROVE  x \in Int /\ Near(x, c)
<1>1. PICK u \in UnitsOf(c) : x = u * (c \div u) \/ x = u * (c \div u) + u
  BY DEF Rounded
<1>2. u \in Nat \ {0}
  BY GatewayAssumption DEF UnitsOf
<1>3. c \div u \in Int
  BY <1>2
<1>4. u * (c \div u) \in Int
  BY <1>2, <1>3, Product
<1>5. 2 * (x - c) <= u /\ 2 * (c - x) <= u
  BY DEF Rounded
<1>. QED
  BY <1>1, <1>2, <1>4, <1>5 DEF Near

\* The main thread sees, of each entry, what it is before or after the deal that is
\* under way.
LEMMA LineFacts ==
  ASSUME IInv, Remembered, life # "off", NEW e \in Entries, NEW v \in Line(e),
         NEW b \in 0 .. Len(accounts), UnderWay => b < Len(accounts)
  PROVE  /\ v \in Int
         /\ \E i \in b .. Len(accounts) : IF e = "SUR" THEN Near(v, accounts[i].cash)
                                                       ELSE v = accounts[i].portfolio[e]
<1> DEFINE n == Len(accounts)
<1>1. /\ n \in Nat /\ n > 0 /\ accounts[n] = Completed
      /\ UnderWay => n > 1 /\ BeforeDeal(accounts[n - 1])
  BY DEF Remembered
<1>2. cash \in Int /\ portfolio \in [Securities -> Int]
  BY DEF IInv, CoreInv, TypeOK
<1>3. n \in b .. n /\ (UnderWay => n - 1 \in b .. n)
  BY <1>1
<1> HIDE DEF n
<1>4. \E i \in b .. n : accounts[i].cash = cash
  <2>1. CASE CashLeft
    <3>1. UnderWay
      BY <2>1 DEF CashLeft, UnderWay, Dealing
    <3>. QED
      BY <1>1, <1>3, <2>1, <3>1 DEF BeforeDeal
  <2>2. CASE ~CashLeft
    BY <1>1, <1>3, <2>2 DEF Completed, Account
  <2>. QED
    BY <2>1, <2>2
<1>5. \E i \in b .. n : accounts[i].portfolio = portfolio
  <2>1. CASE PositionLeft
    <3>1. UnderWay
      BY <2>1 DEF PositionLeft, UnderWay, Dealing
    <3>. QED
      BY <1>1, <1>3, <2>1, <3>1 DEF BeforeDeal
  <2>2. CASE ~PositionLeft
    BY <1>1, <1>3, <2>2 DEF Completed, Account
  <2>. QED
    BY <2>1, <2>2
<1>6. CASE e = "SUR"
  <2>1. v \in Int /\ Near(v, cash)
    BY <1>2, <1>6, RoundedFacts DEF Line
  <2>. QED
    BY <1>4, <1>6, <2>1 DEF n
<1>7. CASE e # "SUR"
  <2>1. e \in Securities /\ v = portfolio[e]
    BY <1>7 DEF Line, Entries
  <2>. QED
    BY <1>2, <1>5, <1>7, <2>1 DEF n
<1>. QED
  BY <1>6, <1>7

\* What explains an entry goes on explaining it when accounts are remembered.
LEMMA ExplainsMore ==
  ASSUME NEW h, NEW k, NEW b \in Nat, Len(h) \in Nat, Len(k) \in Nat, Len(h) <= Len(k),
         \A i \in b .. Len(h) : k[i] = h[i],
         Explained(h, b)
  PROVE  Explained(k, b)
<1> SUFFICES ASSUME NEW e \in DOMAIN file PROVE Explains(k, b, e)
  BY DEF Explained
<1>1. PICK i \in b .. Len(h) : IF e = "SUR" THEN Near(file[e], h[i].cash)
                                           ELSE file[e] = h[i].portfolio[e]
  BY DEF Explained, Explains
<1>2. i \in b .. Len(k) /\ k[i] = h[i]
  OBVIOUS
<1>. QED
  BY <1>1, <1>2 DEF Explains

----------------------------------------------------------------------------
(* The broker in the process: its invariant holds in every run. *)

Others == Kinds \cup {Other, None}

\* What a thread does here it does in VirtualBroker.
LEMMA InBroker ==
  ASSUME \/ BringTick \/ HandleTick \/ Quit \/ \E e \in Entries : SaveLine(e)
         \/ \E k \in Others : Poll(k)
         \/ HandleOther \/ EnterSubmit \/ HandleSubmit \/ HandleUpdate \/ UNCHANGED gatewayVars
  PROVE  [Next]_vars
<1>1. CASE EnterSubmit
  BY <1>1 DEF EnterSubmit, Next
<1>2. CASE BringTick \/ HandleTick \/ HandleSubmit
  BY <1>2 DEF BringTick, HandleTick, HandleSubmit, Next
<1>3. CASE \/ Quit \/ (\E e \in Entries : SaveLine(e)) \/ UNCHANGED gatewayVars
           \/ (\E k \in Others : Poll(k)) \/ HandleOther \/ HandleUpdate
  BY <1>3 DEF Quit, SaveLine, Poll, HandleOther, HandleUpdate, gatewayVars
<1>. QED
  BY <1>1, <1>2, <1>3

\* The ways a run may end.
LEMMA Ends ==
  ASSUME Exit \/ Crash
  PROVE  \/ life = "saving" /\ toSave = {} /\ End("saved")
         \/ life \in {"running", "leaving"} /\ End("unsaved")
         \/ life = "saving" /\ End("torn")
BY DEF Exit, Crash

\* The account a run starts with.
LEMMA Start_Types ==
  ASSUME GatewayTypeOK
  PROVE  /\ Loaded("SUR", StartCash) \in Int
         /\ [s \in Securities |-> Loaded(s, 0)] \in [Securities -> Int]
BY VirtualBrokerAssumption DEF GatewayTypeOK, Loaded

LEMMA BrokerStep == IInv /\ GatewayTypeOK /\ Resting /\ [GatewayNext]_gatewayVars => IInv'
<1> SUFFICES ASSUME IInv, GatewayTypeOK, Resting, [GatewayNext]_gatewayVars PROVE IInv'
  OBVIOUS
<1>1. CASE [Next]_vars
  BY <1>1, CoreStep, BookStep, SweepStep DEF IInv, BookInv
<1>2. CASE Start
  <2>1. cash' \in Int /\ portfolio' \in [Securities -> Int]
    BY <1>2, Start_Types, VirtualBrokerAssumption DEF Start
  <2>2. /\ UNCHANGED <<ostate, terms, pending, quote, enabled, mutex, seen, trades, notices>>
        /\ UNCHANGED <<spc, cur, bid, offer, mpc, tick, cursor>>
    BY <1>2 DEF Start, serverVars, mainVars
  <2>3. spc = "idle" /\ mpc = "idle"
    BY <1>2 DEF Start, Resting
  <2>4. TypeOK'
    BY <2>1, <2>2 DEF IInv, CoreInv, TypeOK
  <2>5. Locked' /\ Numbered' /\ Submitting' /\ Carried' /\ Registers'
    BY <2>2, <2>3
    DEF IInv, CoreInv, Locked, Numbered, Undecided, IsBuy, Submitting, Carried, Registers, Dealing
  <2>6. EnabledIffPending' /\ LimitRespected' /\ SweptBehind'
    BY <2>2 DEF IInv, BookInv, EnabledIffPending, LimitRespected, SweptBehind, Fills
  <2>7. OneTrade'
    BY <2>2 DEF IInv, BookInv, OneTrade, Traded, InDeal
  <2>. QED
    BY <2>4, <2>5, <2>6, <2>7 DEF IInv, CoreInv, BookInv
<1>3. CASE Exit \/ Crash
  <2>1. Forget
    BY <1>3, Ends DEF End
  <2>2. Init'
    BY <2>1 DEF Forget, Init
  <2>. QED
    BY <2>2, InitHolds, PTL
<1>. QED
  BY <1>1, <1>2, <1>3, InBroker DEF GatewayNext, Others

----------------------------------------------------------------------------
(* What is remembered. *)

\* Outside a deal the account is what is remembered.
LEMMA NoneLeft ==
  ASSUME spc \notin Dealing, mpc \notin Dealing
  PROVE  ~UnderWay /\ ~CashLeft /\ ~PositionLeft /\ Completed = Account(cash, portfolio)
<1>1. ~UnderWay /\ ~CashLeft /\ ~PositionLeft
  BY DEF UnderWay, CashLeft, PositionLeft, Writing, Dealing
<1>. QED
  BY <1>1 DEF Completed

\* A step that is not one of a deal leaves what is to be written.
SameLeft ==
  /\ UNCHANGED <<cash, portfolio, Completed>>
  /\ UnderWay' <=> UnderWay
  /\ CashLeft' <=> CashLeft
  /\ PositionLeft' <=> PositionLeft

LEMMA Same ==
  ASSUME UNCHANGED <<cash, portfolio>>,
         \/ UNCHANGED <<terms, spc, cur, bid, offer, mpc, cursor>>
         \/ /\ UNCHANGED <<terms, spc, cur, bid, offer>>
            /\ mpc \notin Dealing /\ mpc' \notin Dealing
         \/ /\ spc \notin Dealing /\ mpc \notin Dealing
            /\ spc' \notin Dealing /\ mpc' \notin Dealing
  PROVE  SameLeft
<1>1. CASE UNCHANGED <<terms, spc, cur, bid, offer, mpc, cursor>>
  BY <1>1 DEF SameLeft, UnderWay, CashLeft, PositionLeft, Completed, Account, Writing, DealOrder,
    DealPrice, Opposite, IsBuy, Signed
<1>2. CASE /\ spc \notin Dealing /\ mpc \notin Dealing
           /\ spc' \notin Dealing /\ mpc' \notin Dealing
  BY <1>2, NoneLeft DEF SameLeft, UnderWay, CashLeft, PositionLeft, Completed, Account, Writing,
    Dealing
<1>3. CASE spc \in Dealing /\ UNCHANGED <<terms, spc, cur, bid, offer>>
  BY <1>3 DEF SameLeft, UnderWay, CashLeft, PositionLeft, Completed, Account, Writing, DealOrder,
    DealPrice, Opposite, IsBuy, Signed
<1>. QED
  BY <1>1, <1>2, <1>3

\* A deal begins: the account it will make is remembered.
Begun ==
  /\ UNCHANGED <<cash, portfolio>> /\ ~UnderWay
  /\ Completed = Account(cash, portfolio)
  /\ accounts' = Append(accounts, Completed')

\* A deal is written: what was to be written has become less.
Written ==
  /\ Completed' = Completed /\ accounts' = accounts
  /\ UnderWay' => UnderWay
  /\ CashLeft' => CashLeft /\ cash' = cash
  /\ PositionLeft' => PositionLeft /\ portfolio' = portfolio

\* The four steps of a deal that write.
LEMMA DealWritten ==
  ASSUME IInv, SubmitPosition \/ SubmitCash \/ SweepPosition \/ SweepCash, Recorded
  PROVE  Written
<1>1. PICK th \in Threads, o \in Orders, price \in Nat : DealWrite(th, o, price)
  BY DealWrites DEF IInv
<1> SUFFICES ASSUME NEW n, n = Signed(o), NEW sec, sec = terms[o].security
             PROVE  Written
  OBVIOUS
<1>2. /\ terms[o] \in Kinds /\ DealOrder = o /\ DealPrice = price
      /\ Writing' \in Dealing => DealOrder' = o /\ DealPrice' = price
  BY <1>1 DEF DealWrite
<1>3. TypeOK
  BY DEF IInv, CoreInv
<1>4. accounts' = accounts
  <2>1. spc # "decide" /\ mpc # "sweep"
    <3>1. CASE SubmitPosition \/ SubmitCash
      <4>1. spc \in Dealing
        BY <3>1 DEF SubmitPosition, SubmitCash, Dealing
      <4>2. mpc \notin Sweeping
        BY <4>1, InSubmit DEF IInv, Dealing
      <4>. QED
        BY <4>1, <4>2 DEF Dealing, Sweeping
    <3>2. CASE SweepPosition \/ SweepCash
      <4>1. mpc \in Dealing
        BY <3>2 DEF SweepPosition, SweepCash, Dealing
      <4>2. spc = "idle"
        BY <4>1, InFill DEF IInv, Dealing
      <4>. QED
        BY <4>1, <4>2 DEF Dealing
    <3>. QED
      BY <3>1, <3>2
  <2>. QED
    BY <2>1 DEF Recorded
<1>5. UNCHANGED terms
  BY <1>1 DEF DealWrite, WritePosition, WriteCash
<1>6. Signed(o)' = n /\ terms'[o].security = sec /\ (IsBuy(o)' <=> IsBuy(o))
  BY <1>5 DEF Signed, IsBuy
<1>7. CASE /\ WritePosition(th, o, price) /\ seen[th] = portfolio[terms[o].security]
           /\ Writing = "position" /\ (Writing' = "cash" <=> IsBuy(o)) /\ Writing' # "position"
  <2>1. portfolio' = [portfolio EXCEPT ![sec] = @ + n] /\ cash' = cash
    BY <1>2, <1>3, <1>7, PositionWritten
  <2>2. UnderWay /\ (CashLeft <=> IsBuy(o)) /\ PositionLeft
    BY <1>2, <1>7 DEF UnderWay, CashLeft, PositionLeft, Dealing
  <2>3. (CashLeft' <=> IsBuy(o)) /\ ~PositionLeft'
    BY <1>2, <1>6, <1>7 DEF CashLeft, PositionLeft, Dealing, IsBuy
  <2>4. CashLeft' => DealOrder' = o /\ DealPrice' = price
    BY <1>2, <1>7, <2>3 DEF Dealing
  <2>5. Completed' = Account(IF IsBuy(o) THEN cash - price * n ELSE cash, portfolio')
    BY <1>6, <2>1, <2>3, <2>4 DEF Completed, Account, Signed
  <2>6. Completed = Account(IF IsBuy(o) THEN cash - price * n ELSE cash, portfolio')
    BY <1>2, <2>1, <2>2 DEF Completed
  <2>. QED
    BY <1>4, <2>1, <2>2, <2>3, <2>5, <2>6 DEF Written
<1>8. CASE /\ WriteCash(th, o, price) /\ seen[th] = cash
           /\ Writing = "cash" /\ (Writing' = "position" <=> ~IsBuy(o)) /\ Writing' # "cash"
  <2>1. cash' = cash - price * n /\ portfolio' = portfolio
    BY <1>2, <1>3, <1>8, CashWritten
  <2>2. UnderWay /\ CashLeft /\ (PositionLeft <=> ~IsBuy(o))
    BY <1>2, <1>8 DEF UnderWay, CashLeft, PositionLeft, Dealing
  <2>3. (PositionLeft' <=> ~IsBuy(o)) /\ ~CashLeft'
    BY <1>2, <1>6, <1>8 DEF CashLeft, PositionLeft, Dealing, IsBuy
  <2>4. PositionLeft' => DealOrder' = o
    BY <1>2, <1>8, <2>3 DEF Dealing
  <2>5. Completed' = Account(cash', IF IsBuy(o) THEN portfolio
                                    ELSE [portfolio EXCEPT ![sec] = @ + n])
    BY <1>6, <2>1, <2>3, <2>4 DEF Completed, Account, Signed
  <2>6. Completed = Account(cash', IF IsBuy(o) THEN portfolio
                                   ELSE [portfolio EXCEPT ![sec] = @ + n])
    BY <1>2, <2>1, <2>2 DEF Completed
  <2>. QED
    BY <1>4, <2>1, <2>2, <2>3, <2>5, <2>6 DEF Written
<1>. QED
  BY <1>1, <1>7, <1>8 DEF DealWrite

\* The first step of a deal, on either thread.
LEMMA DealBegun ==
  ASSUME IInv, Recorded,
         \/ Decide /\ spc' \in Dealing
         \/ \E o \in Orders : SweepFill(o)
  PROVE  Begun
<1>1. CASE Decide /\ spc' \in Dealing
  <2>1. /\ spc = "decide" /\ UNCHANGED <<bid, offer, cur, mpc, cursor>>
        /\ mpc \notin Sweeping /\ terms[cur] \in Kinds
    BY <1>1, Decision DEF Decide, mainVars, IInv
  <2>2. StartDeal("server", cur) /\ spc' = FirstWrite(cur)
    BY <1>1, Decision DEF IInv, Dealing
  <2>3. UNCHANGED <<terms, cash, portfolio>>
    BY <2>2 DEF StartDeal
  <2>4. ~UnderWay /\ Completed = Account(cash, portfolio)
    BY <2>1, NoneLeft DEF Dealing, Sweeping
  <2>5. accounts' = Append(accounts, AfterDeal(cur, Opposite(terms[cur])))
    BY <1>1, <2>1 DEF Recorded, InDeals, Dealing
  <2>6. Writing' = FirstWrite(cur) /\ DealOrder' = cur /\ DealPrice' = Opposite(terms[cur])
    BY <1>1, <2>1, <2>2, <2>3 DEF Writing, DealOrder, DealPrice, Opposite, Dealing
  <2>7. CashLeft' /\ PositionLeft'
    BY <2>3, <2>6 DEF CashLeft, PositionLeft, FirstWrite, IsBuy
  <2>8. Completed' = AfterDeal(cur, Opposite(terms[cur]))
    BY <2>3, <2>6, <2>7 DEF Completed, AfterDeal, Account, Signed, IsBuy
  <2>. QED
    BY <2>3, <2>4, <2>5, <2>8 DEF Begun
<1>2. ASSUME NEW o \in Orders, SweepFill(o)
      PROVE  Begun
  <2>1. /\ spc = "idle" /\ mpc = "sweep" /\ spc' = spc /\ terms[o] \in Kinds
        /\ StartDeal("main", o) /\ cursor' = o /\ mpc' = FirstWrite(o)
    BY <1>2, SweepFillFacts DEF SweepFill, serverVars, IInv, BookInv
  <2>2. UNCHANGED <<terms, cash, portfolio>>
    BY <2>1 DEF StartDeal
  <2>3. ~UnderWay /\ Completed = Account(cash, portfolio)
    BY <2>1, NoneLeft DEF Dealing
  <2>4. accounts' = Append(accounts, AfterDeal(o, terms[o].price))
    BY <2>1 DEF Recorded, InDeals, FirstWrite
  <2>5. Writing' = FirstWrite(o) /\ DealOrder' = o /\ DealPrice' = terms[o].price
    BY <2>1, <2>2 DEF Writing, DealOrder, DealPrice, Dealing
  <2>6. CashLeft' /\ PositionLeft'
    BY <2>2, <2>5 DEF CashLeft, PositionLeft, FirstWrite, IsBuy
  <2>7. Completed' = AfterDeal(o, terms[o].price)
    BY <2>2, <2>5, <2>6 DEF Completed, AfterDeal, Account, Signed, IsBuy
  <2>. QED
    BY <2>2, <2>3, <2>4, <2>7 DEF Begun
<1>. QED
  BY <1>1, <1>2

\* A step of a thread begins a deal, writes one, or does neither.
LEMMA Recording ==
  ASSUME IInv, SubmitStep \/ TickStep, Recorded
  PROVE  Begun \/ Written
<1> USE DEF Dealing
<1>1. ASSUME SameLeft, accounts' = accounts
      PROVE  Written
  BY <1>1 DEF SameLeft, Written
<1>2. CASE \/ ReadBid \/ ReadOffer \/ EnableTicker \/ EndSubmit
           \/ (Decide /\ spc' \notin Dealing)
  <2>1. /\ spc \in {"readBid", "readOffer", "enable", "notify", "decide"} /\ mpc' = mpc
        /\ spc' \in {"readOffer", "decide", "notify", "idle"} \/ spc' \notin Dealing
    BY <1>2 DEF ReadBid, ReadOffer, EnableTicker, EndSubmit, Decide, mainVars
  <2>2. spc = "decide" => spc' \notin Dealing
    BY <1>2 DEF ReadBid, ReadOffer, EnableTicker, EndSubmit
  <2>3. mpc \notin Sweeping
    BY <2>1, InSubmit DEF IInv
  <2>4. UNCHANGED <<cash, portfolio>>
    BY <1>2, Decision DEF ReadBid, ReadOffer, EnableTicker, EndSubmit, bookVars, IInv, FirstWrite
  <2>5. SameLeft
    BY <2>1, <2>3, <2>4, Same DEF Sweeping
  <2>6. accounts' = accounts
    BY <2>1, <2>2, <2>3 DEF Recorded, InDeals, Sweeping
  <2>. QED
    BY <1>1, <2>5, <2>6
<1>3. CASE \/ CheckEnabled \/ BeginSweep \/ (\E o \in Orders : SweepSkip(o))
           \/ SweepErase \/ SweepNotify \/ EndSweep
  <2>1. /\ UNCHANGED <<terms, cash, portfolio, spc, cur, bid, offer>>
        /\ mpc \notin Dealing /\ mpc' \notin Dealing
    BY <1>3 DEF CheckEnabled, BeginSweep, SweepSkip, SweepErase, SweepNotify, EndSweep,
      serverVars, bookVars
  <2>2. SameLeft
    BY <2>1, Same
  <2>3. accounts' = accounts
    BY <2>1 DEF Recorded, InDeals
  <2>. QED
    BY <1>1, <2>2, <2>3
<1>4. CASE SubmitPosition \/ SubmitCash \/ SweepPosition \/ SweepCash
  BY <1>4, DealWritten
<1>5. CASE (Decide /\ spc' \in Dealing) \/ \E o \in Orders : SweepFill(o)
  BY <1>5, DealBegun
<1>. QED
  BY <1>2, <1>3, <1>4, <1>5 DEF SubmitStep, TickStep

\* A step of a thread is one of a process.
LEMMA InProcess ==
  ASSUME Resting, HandleTick \/ HandleSubmit
  PROVE  life # "off" /\ (SubmitStep \/ TickStep) /\ Recorded
BY DEF HandleTick, HandleSubmit, SubmitStep, ReadBid, ReadOffer, Decide, EnableTicker,
  SubmitPosition, SubmitCash, EndSubmit, Resting

\* The account a deal makes is one.
LEMMA CompletedType == IInv => Completed \in Accounts
<1> SUFFICES ASSUME IInv PROVE Completed \in Accounts
  OBVIOUS
<1>1. cash \in Int /\ portfolio \in [Securities -> Int]
  BY DEF IInv, CoreInv, TypeOK
<1>2. CASE ~UnderWay
  <2>1. Completed = Account(cash, portfolio)
    BY <1>2 DEF UnderWay, CashLeft, PositionLeft, Dealing, Completed
  <2>. QED
    BY <1>1, <2>1 DEF Account, Accounts
<1>3. CASE UnderWay
  <2>1. terms[DealOrder] \in Kinds /\ DealPrice \in Int
    BY <1>3, InSubmit, InFill DEF UnderWay, Writing, DealOrder, DealPrice, Dealing, IInv
  <2>2. /\ DealPrice * Signed(DealOrder) \in Int /\ Signed(DealOrder) \in Int
        /\ terms[DealOrder].security \in Securities
    BY <2>1, SignedType, Product
  <2> SUFFICES ASSUME NEW n, n = Signed(DealOrder), NEW p, p = DealPrice * Signed(DealOrder),
                      NEW s, s = terms[DealOrder].security
               PROVE  Completed \in Accounts
    OBVIOUS
  <2>3. cash - p \in Int
    BY <1>1, <2>2
  <2>4. [portfolio EXCEPT ![s] = @ + n] \in [Securities -> Int]
    BY <1>1, <2>2
  <2>. QED
    BY <1>1, <2>3, <2>4 DEF Completed, Account, Accounts
<1>. QED
  BY <1>2, <1>3

LEMMA CompletedNext == IInv' => (Completed \in Accounts)'
BY CompletedType, PTL

\* The accounts a thread's step leaves.
LEMMA Appended ==
  ASSUME IInv, Remembered, life # "off", SubmitStep \/ TickStep, Recorded, IInv'
  PROVE  /\ accounts' \in Seq(Accounts)
         /\ Len(accounts) \in Nat /\ Len(accounts') \in Nat
         /\ Len(accounts) <= Len(accounts')
         /\ \A i \in 1 .. Len(accounts) : accounts'[i] = accounts[i]
         /\ Len(accounts') > 0
         /\ accounts'[Len(accounts')] = Completed'
         /\ UnderWay' => /\ Len(accounts') > 1
                         /\ \A a : a = accounts'[Len(accounts') - 1] => BeforeDeal(a)'
         /\ UnderWay' => (UnderWay /\ accounts' = accounts) \/ Len(accounts) < Len(accounts')
<1> DEFINE n == Len(accounts)
<1>1. /\ accounts \in Seq(Accounts) /\ n \in Nat /\ n > 0
      /\ accounts[n] = Completed
      /\ UnderWay => n > 1 /\ BeforeDeal(accounts[n - 1])
  BY DEF Remembered
<1>2. CASE Written
  <2>1. accounts' = accounts /\ Completed' = Completed /\ (UnderWay' => UnderWay)
    BY <1>2 DEF Written
  <2>2. UnderWay' => \A a : a = accounts'[n - 1] => BeforeDeal(a)'
    BY <1>1, <1>2, <2>1 DEF Written, BeforeDeal
  <2>. QED
    BY <1>1, <2>1, <2>2
<1>3. CASE Begun
  <2> SUFFICES ASSUME NEW r, r = Completed'
               PROVE  /\ accounts' \in Seq(Accounts)
                      /\ Len(accounts') = n + 1 /\ accounts'[n + 1] = r
                      /\ \A i \in 1 .. n : accounts'[i] = accounts[i]
                      /\ \A a : a = accounts'[n] => BeforeDeal(a)'
    BY <1>1
  <2>1. accounts' = Append(accounts, r)
    BY <1>3 DEF Begun
  <2>2. r \in Accounts
    <3>1. Completed' \in Accounts
      BY CompletedNext
    <3>. QED
      BY <3>1
  <2>3. /\ accounts' \in Seq(Accounts) /\ Len(accounts') = n + 1
        /\ accounts'[n + 1] = r /\ \A i \in 1 .. n : accounts'[i] = accounts[i]
    BY <1>1, <2>1, <2>2
  <2>4. accounts'[n].cash = cash' /\ accounts'[n].portfolio = portfolio'
    BY <1>1, <1>3, <2>3 DEF Begun, Account
  <2>. QED
    BY <2>3, <2>4 DEF BeforeDeal
<1>. QED
  BY <1>2, <1>3, Recording

LEMMA RestingStep ==
  IInv /\ GatewayTypeOK /\ Resting /\ [GatewayNext]_gatewayVars => Resting'
<1> SUFFICES ASSUME IInv, GatewayTypeOK, Resting, [GatewayNext]_gatewayVars PROVE Resting'
  OBVIOUS
<1> USE DEF Resting
<1>1. CASE Start
  BY <1>1 DEF Start, mainVars, serverVars, serverTurn
<1>2. CASE BringTick \/ HandleTick
  BY <1>2 DEF BringTick, HandleTick, processVars
<1>3. CASE Quit
  BY <1>3 DEF Quit, vars, mainVars
<1>4. ASSUME NEW e \in Entries, SaveLine(e)
      PROVE  Resting'
  BY <1>4 DEF SaveLine, vars, mainVars, serverVars, serverTurn, processVars
<1>5. CASE Exit \/ Crash
  BY <1>5, Ends DEF End, Forget
<1>6. ASSUME NEW k \in Others, Poll(k)
      PROVE  Resting'
  BY <1>6 DEF Poll, vars, mainVars, processVars
<1>7. CASE EnterSubmit
  <2>1. taken # None
    BY <1>7, VirtualBrokerAssumption DEF EnterSubmit
  <2>. QED
    BY <1>7, <2>1 DEF EnterSubmit, BeginSubmit, mainVars, processVars
<1>8. CASE HandleSubmit
  <2>1. mpc' = mpc
    BY <1>8 DEF HandleSubmit, SubmitStep, ReadBid, ReadOffer, Decide, EnableTicker,
      SubmitPosition, SubmitCash, EndSubmit, mainVars
  <2>2. spc # "idle"
    BY <1>8 DEF HandleSubmit, SubmitStep, ReadBid, ReadOffer, Decide, EnableTicker,
      SubmitPosition, SubmitCash, EndSubmit
  <2>. QED
    BY <1>8, <2>1, <2>2 DEF HandleSubmit, processVars
<1>9. CASE HandleUpdate
  BY <1>9 DEF HandleUpdate, vars, mainVars, serverVars, processVars
<1>10. CASE HandleOther
  <2>1. life # "off"
    BY <1>10, GatewayAssumption DEF HandleOther
  <2>. QED
    BY <1>10, <2>1 DEF HandleOther, vars, mainVars, serverVars, processVars
<1>11. CASE UNCHANGED gatewayVars
  BY <1>11 DEF gatewayVars, vars, mainVars, serverVars, serverTurn, processVars
<1>. QED
  BY <1>1, <1>2, <1>3, <1>4, <1>5, <1>6, <1>7, <1>8, <1>9, <1>10, <1>11 DEF GatewayNext, Others

\* The steps that leave the threads' deals and the history alone.
LEMMA Elsewhere ==
  ASSUME \/ BringTick \/ Quit \/ (\E e \in Entries : SaveLine(e)) \/ HandleOther \/ HandleUpdate
         \/ (\E k \in Others : Poll(k)) \/ UNCHANGED gatewayVars
  PROVE  SameLeft /\ accounts' = accounts /\ last' = last /\ (life' # "off" => life # "off")
<1>1. CASE BringTick
  <2>1. /\ UNCHANGED <<terms, cash, portfolio, spc, cur, bid, offer>>
        /\ mpc = "idle" /\ mpc' = "check"
    BY <1>1 DEF BringTick, WriteQuote, bookVars, serverVars
  <2>2. SameLeft
    BY <2>1, Same DEF Dealing
  <2>. QED
    BY <1>1, <2>2 DEF BringTick, processVars
<1>2. CASE \/ Quit \/ (\E e \in Entries : SaveLine(e)) \/ HandleOther \/ HandleUpdate
           \/ (\E k \in Others : Poll(k)) \/ UNCHANGED gatewayVars
  <2>1. /\ UNCHANGED <<vars, accounts, last>> /\ (life' # "off" => life # "off")
    BY <1>2 DEF Quit, SaveLine, HandleOther, HandleUpdate, Poll, gatewayVars, processVars
  <2>2. UNCHANGED <<terms, cash, portfolio, spc, cur, bid, offer, mpc, cursor>>
    BY <2>1 DEF vars, bookVars, serverVars, mainVars
  <2>3. SameLeft
    BY <2>2, Same
  <2>. QED
    BY <2>1, <2>3
<1>. QED
  BY <1>1, <1>2

\* The server thread enters submitOrder.
LEMMA Entered ==
  ASSUME IInv, EnterSubmit
  PROVE  SameLeft /\ ~UnderWay' /\ accounts' = accounts
<1>1. /\ spc = "idle" /\ spc' = "readBid" /\ mutex = None
      /\ UNCHANGED <<mpc, cash, portfolio, accounts>>
  BY DEF EnterSubmit, BeginSubmit, mainVars
<1>2. mpc \notin Dealing
  BY <1>1, VirtualBrokerAssumption DEF IInv, CoreInv, Locked, Dealing, Sweeping
<1>3. SameLeft
  BY <1>1, <1>2, Same DEF Dealing
<1>4. ~UnderWay'
  BY <1>1, <1>2 DEF UnderWay, Writing, Dealing
<1>. QED
  BY <1>1, <1>3, <1>4

LEMMA RememberedStep ==
  IInv /\ IInv' /\ GatewayTypeOK /\ Resting /\ Remembered /\ [GatewayNext]_gatewayVars
    => Remembered'
<1> SUFFICES ASSUME IInv, IInv', GatewayTypeOK, Resting, Remembered,
                    [GatewayNext]_gatewayVars
             PROVE  Remembered'
  OBVIOUS
<1>1. CASE Start
  <2>1. /\ accounts' = <<Account(cash', portfolio')>>
        /\ spc' = "idle" /\ mpc' = "idle"
    BY <1>1 DEF Start, Resting, serverVars, mainVars
  <2>2. Account(cash', portfolio') \in Accounts
    BY DEF IInv, CoreInv, TypeOK, Account, Accounts
  <2>3. /\ accounts' \in Seq(Accounts) /\ Len(accounts') = 1
        /\ accounts'[1] = Account(cash', portfolio')
    BY <2>1, <2>2
  <2>4. ~UnderWay' /\ Completed' = Account(cash', portfolio')
    <3>1. ~UnderWay' /\ ~CashLeft' /\ ~PositionLeft'
      BY <2>1 DEF UnderWay, CashLeft, PositionLeft, Writing, Dealing
    <3>. QED
      BY <3>1 DEF Completed, Account
  <2>. QED
    BY <2>3, <2>4 DEF Remembered
<1>2. CASE HandleTick \/ HandleSubmit
  <2>1. life # "off" /\ (SubmitStep \/ TickStep) /\ Recorded
    BY <1>2, InProcess
  <2>. QED
    BY <2>1, Appended DEF Remembered
<1>3. CASE Exit \/ Crash
  <2>1. accounts' = <<>> /\ life' = "off"
    BY <1>3, Ends DEF End
  <2>2. <<>> \in Seq(Accounts)
    OBVIOUS
  <2>. QED
    BY <2>1, <2>2 DEF Remembered
<1>4. ASSUME SameLeft, accounts' = accounts, life' # "off" => life # "off"
      PROVE  Remembered'
  BY <1>4 DEF Remembered, SameLeft, BeforeDeal
<1>5. CASE EnterSubmit
  <2>1. life' = life
    BY <1>5 DEF EnterSubmit, processVars
  <2>. QED
    BY <1>4, <1>5, <2>1, Entered
<1>6. CASE \/ BringTick \/ Quit \/ (\E e \in Entries : SaveLine(e)) \/ HandleOther
           \/ HandleUpdate \/ (\E k \in Others : Poll(k)) \/ UNCHANGED gatewayVars
  BY <1>4, <1>6, Elsewhere
<1>. QED
  BY <1>1, <1>2, <1>3, <1>5, <1>6 DEF GatewayNext, Others

----------------------------------------------------------------------------
(* The queue, and the types. *)

\* A callback puts one notice into a queue that has room for it.
LEMMA QueueStep ==
  ASSUME IInv, GatewayTypeOK, HandleTick \/ HandleSubmit
  PROVE  /\ Len(notices') \in Nat /\ Len(notices) \in Nat /\ Len(notices) <= Len(notices')
         /\ Len(notices') - read \in 0 .. Capacity
<1>1. notices \in Seq(Orders) /\ Len(notices) \in Nat
  BY DEF IInv, CoreInv, TypeOK
<1>2. read \in Nat /\ Len(notices) - read \in 0 .. Capacity
  BY DEF GatewayTypeOK
<1>3. CASE UNCHANGED notices
  BY <1>1, <1>2, <1>3
<1>4. ASSUME NEW o \in Orders, notices' = Append(notices, o), HasRoom
      PROVE  /\ Len(notices') = Len(notices) + 1
             /\ Len(notices) - read < Capacity
  BY <1>1, <1>4 DEF HasRoom
<1>5. CASE EndSubmit /\ HasRoom
  <2>1. cur \in Orders
    BY <1>5, InSubmit DEF EndSubmit, IInv
  <2>. QED
    BY <1>1, <1>2, <1>4, <1>5, <2>1, GatewayAssumption DEF EndSubmit, Announce
<1>6. CASE SweepNotify /\ HasRoom
  <2>1. cursor - 1 \in Orders
    BY <1>6, VirtualBrokerAssumption
    DEF SweepNotify, IInv, CoreInv, Carried, TypeOK, Orders
  <2>. QED
    BY <1>1, <1>2, <1>4, <1>6, <2>1, GatewayAssumption DEF SweepNotify, Announce
<1>7. CASE HandleTick
  <2>1. TickStep /\ (mpc = "notify" => HasRoom)
    BY <1>7 DEF HandleTick
  <2>2. CASE SweepNotify
    BY <1>6, <2>1, <2>2 DEF SweepNotify
  <2>3. CASE \/ CheckEnabled \/ BeginSweep \/ (\E o \in Orders : SweepFill(o) \/ SweepSkip(o))
             \/ SweepPosition \/ SweepCash \/ SweepErase \/ EndSweep
    BY <1>3, <2>3 DEF CheckEnabled, BeginSweep, SweepFill, SweepSkip, SweepPosition, SweepCash,
      SweepErase, EndSweep
  <2>. QED
    BY <2>1, <2>2, <2>3 DEF TickStep
<1>8. CASE HandleSubmit
  <2>1. SubmitStep /\ (spc = "notify" => HasRoom)
    BY <1>8 DEF HandleSubmit
  <2>2. CASE EndSubmit
    BY <1>5, <2>1, <2>2 DEF EndSubmit
  <2>3. CASE ReadBid \/ ReadOffer \/ Decide \/ EnableTicker \/ SubmitPosition \/ SubmitCash
    BY <1>3, <2>3 DEF ReadBid, ReadOffer, Decide, EnableTicker, SubmitPosition, SubmitCash
  <2>. QED
    BY <2>1, <2>2, <2>3 DEF SubmitStep
<1>. QED
  BY <1>7, <1>8

LEMMA TypeStep ==
  IInv /\ IInv' /\ GatewayTypeOK /\ Resting /\ Remembered /\ OnDisk
    /\ [GatewayNext]_gatewayVars => GatewayTypeOK'
<1> SUFFICES ASSUME IInv, IInv', GatewayTypeOK, Resting, Remembered, OnDisk,
                    [GatewayNext]_gatewayVars
             PROVE  GatewayTypeOK'
  OBVIOUS
<1> USE GatewayAssumption
<1>0. TypeOK' /\ notices \in Seq(Orders) /\ Len(notices) \in Nat
  BY DEF IInv, CoreInv, TypeOK
<1>1. CASE Start
  <2>1. /\ accounts' = <<Account(cash', portfolio')>> /\ life' = "running" /\ loaded' \in BOOLEAN
        /\ starts' = starts + 1 /\ starts < MaxStarts /\ before = 0
        /\ UNCHANGED <<notices, taken, polled, read, spc, file, toSave, before, commands>>
    BY <1>1 DEF Start, serverTurn, disk, serverVars, Resting
  <2>2. before' \in 0 .. Len(accounts')
    BY <2>1
  <2>3. starts' \in 0 .. MaxStarts
    BY <2>1 DEF GatewayTypeOK
  <2>4. last'.how \in {"saved", "unsaved", "torn"}
    BY <1>1 DEF Start, NeverRun, GatewayTypeOK
  <2>. QED
    BY <1>0, <2>1, <2>2, <2>3, <2>4 DEF GatewayTypeOK
<1>2. CASE HandleTick \/ HandleSubmit
  <2>1. /\ UNCHANGED <<life, loaded, taken, read, file, toSave, starts, before, last, commands>>
        /\ polled' \in {polled, FALSE}
    BY <1>2 DEF HandleTick, HandleSubmit, GoesOn, serverTurn, disk, processVars
  <2>2. life # "off" /\ Recorded /\ (SubmitStep \/ TickStep)
    BY <1>2, InProcess
  <2>3. taken # None => spc' = "idle"
    <3>1. CASE HandleTick
      BY <3>1 DEF HandleTick, TickStep, CheckEnabled, BeginSweep, SweepFill, SweepSkip,
        SweepPosition, SweepCash, SweepErase, SweepNotify, EndSweep, serverVars, GatewayTypeOK
    <3>2. CASE HandleSubmit
      BY <3>2 DEF HandleSubmit, SubmitStep, ReadBid, ReadOffer, Decide, EnableTicker,
        SubmitPosition, SubmitCash, EndSubmit, GatewayTypeOK
    <3>. QED
      BY <1>2, <3>1, <3>2
  <2>4. /\ Len(notices') \in Nat /\ Len(notices) <= Len(notices')
        /\ Len(notices') - read \in 0 .. Capacity
    BY <1>2, QueueStep
  <2>5. polled' \in BOOLEAN /\ (polled' => read < Len(notices'))
    <3>1. CASE polled' = polled
      BY <1>0, <2>4, <3>1 DEF GatewayTypeOK
    <3>2. CASE polled' = FALSE
      BY <3>2
    <3>. QED
      BY <2>1, <3>1, <3>2
  <2>6. before \in 0 .. Len(accounts')
    <3>1. Len(accounts) \in Nat /\ Len(accounts') \in Nat /\ Len(accounts) <= Len(accounts')
      BY <2>2, Appended
    <3>. QED
      BY <3>1 DEF GatewayTypeOK
  <2>. QED
    BY <1>0, <2>1, <2>3, <2>4, <2>5, <2>6 DEF GatewayTypeOK
<1>3. CASE Quit
  <2>1. before' \in 0 .. Len(accounts')
    <3>1. /\ accounts' = accounts /\ Len(accounts) \in Nat
          /\ before' = before \/ before' = Len(accounts) - (IF spc \in InDeals THEN 1 ELSE 0)
      BY <1>3 DEF Quit, Remembered
    <3>2. life # "off" /\ Len(accounts) > 0
      BY <1>3 DEF Quit, Remembered
    <3>. QED
      BY <3>1, <3>2 DEF GatewayTypeOK
  <2>2. /\ \/ life' = "saving" /\ file' = NoFile /\ toSave' = Entries
           \/ life' = "leaving" /\ file' = file /\ toSave' = toSave
        /\ UNCHANGED <<notices, loaded, taken, polled, read, spc, starts, last, commands>>
    BY <1>3 DEF Quit, vars, serverVars, serverTurn, disk
  <2>3. /\ life' \in {"off", "running", "saving", "leaving"}
        /\ DOMAIN file' \subseteq Entries /\ \A e \in DOMAIN file' : file'[e] \in Int
        /\ toSave' \subseteq Entries /\ (life' = "saving" => toSave' = Entries \ DOMAIN file')
    <3>1. DOMAIN NoFile = {}
      BY DEF NoFile
    <3>. QED
      BY <2>2, <3>1 DEF GatewayTypeOK
  <2>. QED
    BY <1>0, <2>1, <2>2, <2>3 DEF GatewayTypeOK
<1>4. ASSUME NEW e \in Entries, SaveLine(e)
      PROVE  GatewayTypeOK'
  <2>1. PICK v \in Line(e) :
          file' = [x \in DOMAIN file \cup {e} |-> IF x = e THEN v ELSE file[x]]
    BY <1>4 DEF SaveLine
  <2>2. v \in Int
    BY <1>4, LineFacts DEF SaveLine, OnDisk, GatewayTypeOK
  <2>3. /\ DOMAIN file' = DOMAIN file \cup {e}
        /\ \A x \in DOMAIN file' : file'[x] \in Int
    BY <2>1, <2>2 DEF GatewayTypeOK
  <2>4. /\ toSave' = toSave \ {e}
        /\ UNCHANGED <<life, loaded, notices, taken, polled, read, spc, starts, before, last,
                       commands, accounts>>
    BY <1>4 DEF SaveLine, vars, serverVars, serverTurn, processVars
  <2>. QED
    BY <1>0, <2>3, <2>4 DEF GatewayTypeOK
<1>5. CASE Exit \/ Crash
  <2>1. PICK how \in {"saved", "unsaved", "torn"} : End(how)
    BY <1>5, Ends
  <2>2. /\ notices' = <<>> /\ taken' = None /\ polled' = FALSE /\ read' = 0 /\ life' = "off"
        /\ loaded' = FALSE
        /\ toSave' = {} /\ accounts' = <<>> /\ before' = 0
        /\ UNCHANGED <<file, starts, commands>>
    BY <2>1 DEF End, Forget
  <2>3. last'.how \in {"saved", "unsaved", "torn"}
    BY <2>1 DEF End, GatewayTypeOK
  <2>4. Len(notices') = 0 /\ Len(accounts') = 0
    BY <2>2
  <2>5. /\ Len(notices') - read' \in 0 .. Capacity /\ read' \in Nat
        /\ before' \in 0 .. Len(accounts')
    BY <2>2, <2>4
  <2>6. /\ DOMAIN file' \subseteq Entries /\ \A e \in DOMAIN file' : file'[e] \in Int
        /\ starts' \in 0 .. MaxStarts /\ commands' \in 0 .. MaxCommands
    BY <2>2 DEF GatewayTypeOK
  <2>. QED
    BY <1>0, <2>2, <2>3, <2>5, <2>6 DEF GatewayTypeOK
<1>6. ASSUME NEW k \in Others, Poll(k)
      PROVE  GatewayTypeOK'
  <2>1. /\ spc = "idle" /\ taken' = k
        /\ polled' = (read < Len(notices))
        /\ UNCHANGED <<life, loaded, notices, read, spc, file, toSave, starts, before, last,
                       accounts>>
    BY <1>6 DEF Poll, Waiting, vars, serverVars, disk, processVars
  <2>2. commands' \in 0 .. MaxCommands
    BY <1>6 DEF Poll, GatewayTypeOK
  <2>. QED
    BY <1>0, <2>1, <2>2 DEF GatewayTypeOK, Others
<1>7. CASE EnterSubmit \/ HandleOther
  <2>1. /\ taken' = None /\ polled' \in {polled, FALSE}
        /\ UNCHANGED <<notices, life, loaded, read, file, toSave, starts, before, last, commands,
                       accounts>>
    BY <1>7 DEF EnterSubmit, BeginSubmit, HandleOther, GoesOn, vars, disk, processVars
  <2>2. /\ polled' \in BOOLEAN /\ (polled' => read' < Len(notices'))
        /\ taken' \in Kinds \cup {Other, None} /\ (taken' # None => spc' = "idle")
    <3>1. CASE polled' = polled
      BY <2>1, <3>1 DEF GatewayTypeOK
    <3>2. CASE polled' = FALSE
      BY <2>1, <3>2
    <3>. QED
      BY <2>1, <3>1, <3>2
  <2>. QED
    BY <1>0, <2>1, <2>2 DEF GatewayTypeOK
<1>8. CASE HandleUpdate
  <2>1. /\ polled /\ read' = read + 1 /\ polled' = FALSE
        /\ UNCHANGED <<notices, life, loaded, taken, spc, file, toSave, starts, before, last,
                       commands, accounts>>
    BY <1>8 DEF HandleUpdate, vars, serverVars, disk, processVars
  <2>2. read' \in Nat /\ Len(notices) - read' \in 0 .. Capacity
    BY <1>0, <2>1 DEF GatewayTypeOK
  <2>. QED
    BY <1>0, <2>1, <2>2 DEF GatewayTypeOK
<1>9. CASE BringTick \/ UNCHANGED gatewayVars
  <2>1. UNCHANGED <<notices, life, loaded, taken, polled, read, spc, file, toSave, starts, before,
                    last, commands, accounts>>
    BY <1>9 DEF BringTick, WriteQuote, gatewayVars, vars, serverVars, serverTurn, disk,
      processVars
  <2>. QED
    BY <1>0, <2>1 DEF GatewayTypeOK
<1>. QED
  BY <1>1, <1>2, <1>3, <1>4, <1>5, <1>6, <1>7, <1>8, <1>9 DEF GatewayNext, Others

----------------------------------------------------------------------------
(* The file. *)

\* What explains a file that is not touched goes on explaining it.
LEMMA Untouched ==
  ASSUME file' = file
  PROVE  /\ Restored' = Restored
         /\ \A h, b : Explained(h, b)' <=> Explained(h, b)
BY DEF Restored, Loaded, Explained, Explains

LEMMA LeftStep ==
  ASSUME file' = file, last' = last, Left
  PROVE  Left'
<1>1. /\ Restored' = Restored
      /\ \A h, b : Explained(h, b)' <=> Explained(h, b)
  BY Untouched
<1>2. Explained(last.accounts, last.before)' <=> Explained(last.accounts, last.before)
  BY <1>1 DEF Explained, Explains
<1>. QED
  BY <1>1, <1>2 DEF Left

LEMMA OnDiskStep ==
  IInv /\ IInv' /\ GatewayTypeOK /\ Resting /\ Remembered /\ Remembered' /\ OnDisk
    /\ [GatewayNext]_gatewayVars => OnDisk'
<1> SUFFICES ASSUME IInv, IInv', GatewayTypeOK, Resting, Remembered, Remembered', OnDisk,
                    [GatewayNext]_gatewayVars
             PROVE  OnDisk'
  OBVIOUS
<1>1. CASE Start
  <2>1. /\ life = "off" /\ life' = "running" /\ file' = file
        /\ accounts' = <<Account(cash', portfolio')>>
        /\ \/ /\ loaded' = TRUE /\ cash' = Loaded("SUR", StartCash)
              /\ portfolio' = [s \in Securities |-> Loaded(s, 0)]
           \/ loaded' = FALSE /\ last' = last
    BY <1>1 DEF Start, disk
  <2>2. CASE loaded'
    <3>1. accounts'[1] = Restored /\ Restored' = Restored
      BY <2>1, <2>2, Untouched DEF Restored
    <3>. QED
      BY <2>1, <2>2, <3>1 DEF OnDisk
  <2>3. CASE ~loaded'
    BY <2>1, <2>3, LeftStep DEF OnDisk
  <2>. QED
    BY <2>2, <2>3
<1>2. ASSUME UNCHANGED <<life, loaded, file, before, last>>, life # "off",
             Len(accounts) \in Nat, Len(accounts') \in Nat, 0 < Len(accounts),
             Len(accounts) <= Len(accounts'),
             \A i \in 1 .. Len(accounts) : accounts'[i] = accounts[i],
             UnderWay' => (UnderWay /\ accounts' = accounts) \/ Len(accounts) < Len(accounts')
      PROVE  OnDisk'
  <2>1. CASE life \in {"running", "leaving"} /\ loaded
    <3>1. accounts'[1] = accounts[1] /\ Restored' = Restored
      BY <1>2, Untouched
    <3>. QED
      BY <1>2, <2>1, <3>1 DEF OnDisk
  <2>2. CASE life \in {"running", "leaving"} /\ ~loaded
    BY <1>2, <2>2, LeftStep DEF OnDisk
  <2>3. CASE life = "saving"
    <3>1. /\ before \in 0 .. Len(accounts) /\ 0 < before /\ Explained(accounts, before)
          /\ UnderWay => before < Len(accounts)
      BY <2>3 DEF OnDisk, GatewayTypeOK
    <3>2. \A i \in before .. Len(accounts) : accounts'[i] = accounts[i]
      BY <1>2, <3>1
    <3>3. Explained(accounts', before)
      BY <1>2, <3>1, <3>2, ExplainsMore
    <3>4. Explained(accounts, before)'
      BY <1>2, <3>3 DEF Explained, Explains
    <3>5. UnderWay' => before' < Len(accounts')
      BY <1>2, <3>1
    <3>. QED
      BY <1>2, <2>3, <3>1, <3>4, <3>5 DEF OnDisk
  <2>. QED
    BY <1>2, <2>1, <2>2, <2>3 DEF GatewayTypeOK
<1>3. CASE HandleTick \/ HandleSubmit
  <2>1. UNCHANGED <<life, loaded, file, before, last>>
    BY <1>3 DEF HandleTick, HandleSubmit, disk, processVars
  <2>2. life # "off" /\ Recorded /\ (SubmitStep \/ TickStep)
    BY <1>3, InProcess
  <2>3. /\ Len(accounts) \in Nat /\ Len(accounts') \in Nat /\ 0 < Len(accounts)
        /\ Len(accounts) <= Len(accounts')
        /\ \A i \in 1 .. Len(accounts) : accounts'[i] = accounts[i]
        /\ UnderWay' => (UnderWay /\ accounts' = accounts) \/ Len(accounts) < Len(accounts')
    BY <2>2, Appended DEF Remembered
  <2>. QED
    BY <1>2, <2>1, <2>2, <2>3
<1>4. CASE Quit
  <2>1. /\ life = "running" /\ mpc = "idle" /\ loaded' = loaded /\ last' = last
        /\ accounts' = accounts
        /\ \/ /\ life' = "saving" /\ file' = NoFile
              /\ before' = Len(accounts) - (IF spc \in InDeals THEN 1 ELSE 0)
           \/ life' = "leaving" /\ file' = file
    BY <1>4 DEF Quit, disk
  <2>2. /\ Len(accounts) \in Nat /\ 0 < Len(accounts)
        /\ UnderWay => 1 < Len(accounts)
    BY <2>1 DEF Remembered
  <2>3. UnderWay' <=> UnderWay
    BY <1>4, Elsewhere DEF SameLeft
  <2>4. UnderWay <=> spc \in InDeals
    BY <2>1 DEF UnderWay, Writing, InDeals, Dealing
  <2>5. CASE life' = "saving"
    <3>1. 0 < before' /\ (UnderWay' => before' < Len(accounts'))
      BY <2>1, <2>2, <2>3, <2>4, <2>5
    <3>2. Explained(accounts, before)'
      BY <2>1, <2>5 DEF Explained, NoFile
    <3>. QED
      BY <2>5, <3>1, <3>2 DEF OnDisk
  <2>6. CASE life' = "leaving"
    <3>1. file' = file
      BY <2>1, <2>6
    <3>2. IF loaded THEN accounts[1] = Restored ELSE Left
      BY <2>1 DEF OnDisk
    <3>3. CASE loaded
      BY <2>1, <2>6, <3>1, <3>2, <3>3, Untouched DEF OnDisk
    <3>4. CASE ~loaded
      BY <2>1, <2>6, <3>1, <3>2, <3>4, LeftStep DEF OnDisk
    <3>. QED
      BY <3>3, <3>4
  <2>. QED
    BY <2>1, <2>5, <2>6
<1>5. ASSUME NEW e \in Entries, SaveLine(e)
      PROVE  OnDisk'
  <2>1. PICK v \in Line(e) :
          file' = [x \in DOMAIN file \cup {e} |-> IF x = e THEN v ELSE file[x]]
    BY <1>5 DEF SaveLine
  <2>2. /\ life = "saving" /\ UNCHANGED <<life, before, accounts>>
    BY <1>5 DEF SaveLine, processVars
  <2>3. /\ before \in 0 .. Len(accounts) /\ 0 < before /\ Explained(accounts, before)
        /\ UnderWay => before < Len(accounts)
    BY <2>2 DEF OnDisk, GatewayTypeOK
  <2>4. \E i \in before .. Len(accounts) : IF e = "SUR" THEN Near(v, accounts[i].cash)
                                                       ELSE v = accounts[i].portfolio[e]
    BY <2>2, <2>3, LineFacts
  <2>5. ASSUME NEW x \in DOMAIN file'
        PROVE  Explains(accounts, before, x)'
    <3>1. CASE x = e
      <4>1. file'[x] = v
        BY <2>1, <3>1
      <4>. QED
        BY <2>2, <2>4, <3>1, <4>1 DEF Explains
    <3>2. CASE x # e
      <4>1. x \in DOMAIN file /\ file'[x] = file[x]
        BY <2>1, <2>5, <3>2
      <4>. QED
        BY <2>2, <2>3, <4>1 DEF Explained, Explains
    <3>. QED
      BY <3>1, <3>2
  <2>6. UnderWay' <=> UnderWay
    BY <1>5, Elsewhere DEF SameLeft
  <2>. QED
    BY <2>2, <2>3, <2>5, <2>6 DEF OnDisk, Explained
<1>6. CASE Exit \/ Crash
  <2>1. ASSUME NEW how \in {"saved", "unsaved", "torn"}, End(how)
        PROVE  /\ file' = file /\ life' = "off" /\ Restored' = Restored
               /\ ~(how = "unsaved" /\ ~loaded) =>
                    /\ last'.how = how /\ last'.accounts = accounts /\ last'.before = before
                    /\ Explained(last.accounts, last.before)' <=> Explained(accounts, before)
    <3>1. /\ file' = file /\ life' = "off" /\ Restored' = Restored
          /\ ~(how = "unsaved" /\ ~loaded) =>
                    /\ last'.how = how /\ last'.accounts = accounts /\ last'.before = before
      BY <2>1, Untouched DEF End
    <3>. QED
      BY <3>1 DEF Explained, Explains
  <2>2. CASE life = "saving" /\ toSave = {} /\ End("saved")
    <3>1. DOMAIN file = Entries /\ Explained(accounts, before)
      BY <2>2 DEF GatewayTypeOK, OnDisk
    <3>. QED
      BY <2>1, <2>2, <3>1 DEF OnDisk, Left
  <2>3. CASE life \in {"running", "leaving"} /\ loaded /\ End("unsaved")
    <3>1. accounts[1] = Restored
      BY <2>3 DEF OnDisk
    <3>. QED
      BY <2>1, <2>3, <3>1 DEF OnDisk, Left
  <2>4. CASE life \in {"running", "leaving"} /\ ~loaded /\ End("unsaved")
    <3>1. Left /\ last' = last
      BY <2>4 DEF OnDisk, End
    <3>. QED
      BY <2>1, <2>4, <3>1, LeftStep DEF OnDisk
  <2>5. CASE life = "saving" /\ End("torn")
    <3>1. Explained(accounts, before)
      BY <2>5 DEF OnDisk
    <3>. QED
      BY <2>1, <2>5, <3>1 DEF OnDisk, Left
  <2>. QED
    BY <1>6, Ends, <2>2, <2>3, <2>4, <2>5
<1>7. ASSUME UNCHANGED <<life, loaded, file, before, last, accounts>>, UnderWay' => UnderWay
      PROVE  OnDisk'
  <2>1. CASE life = "off"
    BY <1>7, <2>1, LeftStep DEF OnDisk
  <2>2. CASE life # "off"
    BY <1>2, <1>7, <2>2 DEF Remembered
  <2>. QED
    BY <2>1, <2>2
<1>8. CASE EnterSubmit
  <2>1. UNCHANGED <<life, loaded, file, before, last, accounts>>
    BY <1>8 DEF EnterSubmit, disk, processVars
  <2>. QED
    BY <1>7, <1>8, <2>1, Entered
<1>9. CASE \/ BringTick \/ HandleOther \/ HandleUpdate \/ (\E k \in Others : Poll(k))
           \/ UNCHANGED gatewayVars
  <2>1. UNCHANGED <<life, loaded, file, before, last, accounts>>
    BY <1>9 DEF BringTick, HandleOther, HandleUpdate, Poll, gatewayVars, disk, processVars
  <2>2. UnderWay' <=> UnderWay
    BY <1>9, Elsewhere DEF SameLeft
  <2>. QED
    BY <1>7, <2>1, <2>2
<1>. QED
  BY <1>1, <1>3, <1>4, <1>5, <1>6, <1>8, <1>9 DEF GatewayNext, Others

----------------------------------------------------------------------------
(* The theorems. *)

LEMMA GatewayInitHolds == GatewayInit => GatewayInv
<1> SUFFICES ASSUME GatewayInit PROVE GatewayInv
  OBVIOUS
<1>1. IInv /\ Init /\ TypeOK
  BY InitHolds DEF GatewayInit, IInv, CoreInv
<1>2. /\ life = "off" /\ loaded = FALSE /\ starts = 0 /\ commands = 0 /\ taken = None
      /\ polled = FALSE
      /\ read = 0 /\ file = NoFile /\ toSave = {} /\ accounts = <<>> /\ before = 0
      /\ last = NeverRun
      /\ spc = "idle" /\ mpc = "idle" /\ notices = <<>>
  BY DEF GatewayInit, Init
<1>3. Len(notices) = 0 /\ Len(accounts) = 0 /\ DOMAIN file = {} /\ last.how = "saved"
  BY <1>2 DEF NoFile, NeverRun
<1>4. GatewayTypeOK
  <2>1. /\ Len(notices) - read \in 0 .. Capacity /\ read \in Nat
        /\ starts \in 0 .. MaxStarts /\ commands \in 0 .. MaxCommands
        /\ before \in 0 .. Len(accounts)
    BY <1>2, <1>3, GatewayAssumption
  <2>. QED
    BY <1>1, <1>2, <1>3, <2>1 DEF GatewayTypeOK
<1>5. accounts \in Seq(Accounts)
  BY <1>2
<1>6. Resting /\ Remembered /\ OnDisk
  BY <1>2, <1>3, <1>5 DEF Resting, Remembered, OnDisk, Left
<1>. QED
  BY <1>1, <1>4, <1>6 DEF GatewayInv

LEMMA GatewayInductive == GatewaySpec => []GatewayInv
<1>1. GatewayInv /\ [GatewayNext]_gatewayVars => GatewayInv'
  BY BrokerStep, TypeStep, RestingStep, RememberedStep, OnDiskStep DEF GatewayInv
<1>. QED
  BY <1>1, GatewayInitHolds, PTL DEF GatewaySpec

\* The variables of the process keep their types, and the order-state queue has
\* never more notices than it holds.
THEOREM GatewayTypeCorrect == GatewaySpec => []GatewayTypeOK
<1>1. GatewayInv => GatewayTypeOK
  BY DEF GatewayInv
<1>. QED
  BY <1>1, GatewayInductive, PTL

\* In every run of the program, after any number of crashes and with callbacks
\* that wait for room in the queue, the broker keeps what it promises of its book.
THEOREM BookHolds ==
  GatewaySpec => [](EnabledIffPending /\ OneTrade /\ LimitRespected /\ SweptBehind)
<1>1. GatewayInv => EnabledIffPending /\ OneTrade /\ LimitRespected /\ SweptBehind
  BY DEF GatewayInv, IInv, BookInv
<1>. QED
  BY <1>1, GatewayInductive, PTL

\* The account a run reads at its start is, at first, the new one, and later what
\* the end explains of the run that left the file.
LEMMA RestoredFacts ==
  ASSUME GatewayInv, life = "off"
  PROVE  /\ last.how = "saved" => /\ SavedCash(Restored.cash)
                                  /\ \A s \in Securities : SavedPosition(s, Restored.portfolio[s])
         /\ last.how = "unsaved" => Restored = last.accounts[1]
         /\ last.how = "torn" =>
              /\ Restored.cash = StartCash \/ SavedCash(Restored.cash)
              /\ \A s \in Securities :
                   Restored.portfolio[s] = 0 \/ SavedPosition(s, Restored.portfolio[s])
<1>0. Left
  BY DEF GatewayInv, OnDisk
<1>1. /\ Restored.cash = Loaded("SUR", StartCash)
      /\ \A s \in Securities : Restored.portfolio[s] = Loaded(s, 0)
  BY DEF Restored, Account
<1>2. ASSUME Explained(last.accounts, last.before)
      PROVE  /\ "SUR" \in DOMAIN file => SavedCash(Restored.cash)
             /\ \A s \in Securities :
                  s \in DOMAIN file => SavedPosition(s, Restored.portfolio[s])
  <2>1. \A e \in DOMAIN file : Explains(last.accounts, last.before, e)
    BY <1>2 DEF Explained
  <2>2. "SUR" \in DOMAIN file => SavedCash(Restored.cash)
    BY <1>1, <2>1 DEF Explains, SavedCash, Loaded
  <2>3. ASSUME NEW s \in Securities, s \in DOMAIN file
        PROVE  SavedPosition(s, Restored.portfolio[s])
    BY <1>1, <2>1, <2>3, GatewayAssumption DEF Explains, SavedPosition, Loaded
  <2>. QED
    BY <2>2, <2>3
<1>3. ASSUME last.how = "saved"
      PROVE  /\ SavedCash(Restored.cash)
             /\ \A s \in Securities : SavedPosition(s, Restored.portfolio[s])
  <2>1. CASE last = NeverRun /\ file = NoFile
    <3>1. /\ last.before = 1 /\ Len(last.accounts) = 1
          /\ last.accounts[1] = Account(StartCash, [s \in Securities |-> 0])
      BY <2>1 DEF NeverRun
    <3>2. /\ last.accounts[1].cash = StartCash
          /\ \A s \in Securities : last.accounts[1].portfolio[s] = 0
      BY <3>1 DEF Account
    <3>3. Restored.cash = StartCash /\ \A s \in Securities : Restored.portfolio[s] = 0
      BY <1>1, <2>1 DEF Loaded, NoFile
    <3>. QED
      BY <3>1, <3>2, <3>3 DEF SavedCash, SavedPosition, Near
  <2>2. CASE DOMAIN file = Entries /\ Explained(last.accounts, last.before)
    BY <1>2, <2>2 DEF Entries
  <2>. QED
    BY <1>0, <1>3, <2>1, <2>2 DEF Left
<1>4. last.how = "unsaved" => Restored = last.accounts[1]
  BY <1>0 DEF Left
<1>5. ASSUME last.how = "torn"
      PROVE  /\ Restored.cash = StartCash \/ SavedCash(Restored.cash)
             /\ \A s \in Securities :
                  Restored.portfolio[s] = 0 \/ SavedPosition(s, Restored.portfolio[s])
  <2>1. Explained(last.accounts, last.before)
    BY <1>0, <1>5 DEF Left
  <2>. QED
    BY <1>1, <1>2, <2>1 DEF Loaded
<1>. QED
  BY <1>3, <1>4, <1>5

\* The account a run reads at its start is explained by how the run ended that
\* left the file, with positions exact and the cash to half a unit of its last
\* digit; a run whose files could not be opened reads and leaves nothing.
THEOREM RestartRestoresHolds == GatewaySpec => RestartRestores
<1> DEFINE Restores ==
      CASE last.how = "saved" ->
             /\ SavedCash(cash')
             /\ \A s \in Securities : SavedPosition(s, portfolio'[s])
        [] last.how = "unsaved" ->
             Account(cash', portfolio') = last.accounts[1]
        [] last.how = "torn" ->
             /\ cash' = StartCash \/ SavedCash(cash')
             /\ \A s \in Securities : portfolio'[s] = 0 \/ SavedPosition(s, portfolio'[s])
<1>1. ASSUME GatewayInv, GatewayNext, life = "off", loaded'
      PROVE  Restores
  <2>1. Start
    <3>1. /\ spc = "idle" /\ taken = None /\ ~polled
      BY <1>1 DEF GatewayInv, Resting
    <3>2. ~HandleSubmit
      BY <3>1 DEF HandleSubmit, SubmitStep, ReadBid, ReadOffer, Decide, EnableTicker,
        SubmitPosition, SubmitCash, EndSubmit
    <3>3. ~EnterSubmit /\ ~HandleOther /\ ~HandleUpdate
      BY <3>1, VirtualBrokerAssumption, GatewayAssumption
      DEF EnterSubmit, HandleOther, HandleUpdate
    <3>. QED
      BY <1>1, <3>2, <3>3 DEF GatewayNext, BringTick, HandleTick, Quit, SaveLine, Exit, Crash, Poll
  <2>2. cash' = Restored.cash /\ portfolio' = Restored.portfolio
    BY <1>1, <2>1 DEF Start, Restored, Account
  <2>3. Account(cash', portfolio') = Restored
    BY <2>2 DEF Restored, Account
  <2>4. last.how \in {"saved", "unsaved", "torn"}
    BY <1>1 DEF GatewayInv, GatewayTypeOK
  <2>5. CASE last.how = "saved"
    BY <1>1, <2>2, <2>5, RestoredFacts
  <2>6. CASE last.how = "unsaved"
    BY <1>1, <2>3, <2>6, RestoredFacts
  <2>7. CASE last.how = "torn"
    BY <1>1, <2>2, <2>7, RestoredFacts
  <2>. QED
    BY <2>4, <2>5, <2>6, <2>7
<1>2. GatewayInv /\ [GatewayNext]_gatewayVars
        => [life = "off" /\ loaded' => Restores]_gatewayVars
  BY <1>1
<1>. QED
  BY <1>2, GatewayInductive, PTL DEF GatewaySpec, RestartRestores
=============================================================================
