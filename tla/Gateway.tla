------------------------------- MODULE Gateway -------------------------------
(***************************************************************************)
(* main.cpp around the virtual broker: the account is loaded from          *)
(* vbroker.state at start, the BrokerServer thread takes orders and reads  *)
(* the order-state queue, the main thread brings ticks until the window is *)
(* closed, and then saves the account.  save takes no lock, and nothing    *)
(* stops the BrokerServer thread before the process ends: save may run in  *)
(* the middle of a deal.                                                   *)
(*                                                                         *)
(* The queue is bounded: a callback, on either thread and with m_mutex     *)
(* held, waits for room in it.  Only the BrokerServer thread takes         *)
(* anything out, one notice after each command, and none if the command    *)
(* threw.                                                                  *)
(*                                                                         *)
(* The file is the function from the entries that have a line in it to     *)
(* what the line says.  A line is written whole (std::endl flushes it).    *)
(***************************************************************************)
EXTENDS VirtualBroker

CONSTANTS
  Capacity,          \* notices the order-state queue holds
  Scale,             \* 10 to the significant digits a number written to a stream
                     \* has: 10^6
  Units,             \* powers of 10 that the last of these digits may count
  MaxStarts,         \* bound: times the program is started
  MaxCommands,       \* bound: orders taken in all runs together
  Other              \* a command that submits nothing: it asks for something
                     \* else, or is refused

\* The entry of the cash is named like the currency.  No security with a quote
\* is: both import parsers name it class code, "#", code.  An order for "SUR" has
\* no quote then, is never filled, and makes no position.
Entries == Securities \cup {"SUR"}

ASSUME GatewayAssumption ==
  /\ Capacity \in Nat \ {0}
  /\ Scale \in Nat \ {0} /\ Units \subseteq Nat \ {0}
  /\ MaxStarts \in Nat /\ MaxCommands \in Nat
  /\ "SUR" \notin Securities
  /\ Other \notin Kinds /\ Other # None

VARIABLES
  life,              \* of the process: "off", "running", "saving", or "leaving" when
                     \* the file could not be opened for that
  loaded,            \* the file could be opened at the start
  taken,             \* the command the server thread has read and waits to carry
                     \* out, None otherwise
  polled,            \* zmq::poll has seen a notice in this turn of the server
  read,              \* how many of the notices the server has read
  file,              \* vbroker.state
  toSave,            \* entries save has yet to write
  starts, commands,  \* times started, orders taken (bounds)
  accounts,          \* history: the account at the start and what each deal makes
                     \* of it, from the deal's first step on
  before,            \* history: how many of them were complete when save began
  last               \* history: how the run ended that left the file as it is

serverTurn == <<taken, polled, read>>
disk == <<file, toSave>>
processVars == <<life, loaded, starts, before, last>>
gatewayVars == <<vars, serverTurn, disk, processVars, commands, accounts>>

Account(c, p) == [cash |-> c, portfolio |-> p]
NoFile == [e \in {} |-> 0]
NeverRun == [how |-> "saved", accounts |-> <<Account(StartCash, [s \in Securities |-> 0])>>,
             before |-> 1]

GatewayTypeOK ==
  /\ TypeOK
  /\ life \in {"off", "running", "saving", "leaving"} /\ loaded \in BOOLEAN
  /\ taken \in Kinds \cup {Other, None} /\ (taken # None => spc = "idle")
  /\ polled \in BOOLEAN /\ (polled => read < Len(notices))
  /\ Len(notices) - read \in 0 .. Capacity
  /\ read \in Nat
  /\ DOMAIN file \subseteq Entries /\ \A e \in DOMAIN file : file[e] \in Int
  /\ toSave \subseteq Entries /\ (life = "saving" => toSave = Entries \ DOMAIN file)
  /\ starts \in 0 .. MaxStarts /\ commands \in 0 .. MaxCommands
  /\ before \in 0 .. Len(accounts)
  /\ last.how \in {"saved", "unsaved", "torn"}

GatewayInit ==
  /\ Init
  /\ life = "off" /\ loaded = FALSE /\ starts = 0 /\ commands = 0
  /\ taken = None /\ polled = FALSE /\ read = 0
  /\ file = NoFile /\ toSave = {}
  /\ accounts = <<>> /\ before = 0 /\ last = NeverRun

----------------------------------------------------------------------------
(* The account on disk. *)

\* What the last of the significant digits of c counts: the least unit that fits.
Fits(u, c) == -u * Scale < c /\ c < u * Scale
UnitsOf(c) == {u \in Units : Fits(u, c) /\ \A v \in Units : Fits(v, c) => u <= v}

\* Variant: what does not fit is cut off.
Rounded_Down(c) == {u * (c \div u) : u \in UnitsOf(c)}

\* operator<< for m_cash, read back with atof.  Which way a tie goes depends on
\* the library.
Rounded(c) ==
  {x \in UNION {{u * (c \div u), u * (c \div u) + u} : u \in UnitsOf(c)} :
     \A u \in UnitsOf(c) : 2 * (x - c) <= u /\ 2 * (c - x) <= u}

\* VirtualBroker::save.  A position of 0 stands for no line.
\* Without m_mutex, and so in the middle of a deal too.
Line(e) == IF e = "SUR" THEN Rounded(cash) ELSE {portfolio[e]}

\* VirtualBroker::load
Loaded(e, default) == IF e \in DOMAIN file THEN file[e] ELSE default

----------------------------------------------------------------------------
(* The main thread. *)

\* A new account, what the file has if it can be opened, the servers' threads.
Start ==
  /\ life = "off" /\ starts < MaxStarts
  /\ \/ /\ loaded' = TRUE /\ last' = NeverRun
        /\ cash' = Loaded("SUR", StartCash)
        /\ portfolio' = [s \in Securities |-> Loaded(s, 0)]
     \/ /\ loaded' = FALSE /\ last' = last
        /\ cash' = StartCash
        /\ portfolio' = [s \in Securities |-> 0]
  /\ accounts' = <<Account(cash', portfolio')>>
  /\ life' = "running" /\ starts' = starts + 1
  /\ UNCHANGED <<ostate, terms, pending, quote, enabled, mutex, serverVars, mainVars, seen,
                 trades, notices, serverTurn, disk, before, commands>>

\* What a deal makes of the account.
AfterDeal(o, price) ==
  Account(cash - price * Signed(o), [portfolio EXCEPT ![terms[o].security] = @ + Signed(o)])

\* The history of what a thread of the virtual broker does.
InDeals == {"position", "cash"}
Recorded ==
  accounts' =
    CASE spc = "decide" /\ spc' \in InDeals -> Append(accounts, AfterDeal(cur, Opposite(terms[cur])))
      [] mpc = "sweep" /\ mpc' \in InDeals ->
           Append(accounts, AfterDeal(cursor', terms[cursor'].price))
      [] OTHER -> accounts

\* Variant: the queue is given one place less.
HasRoom_Less == Len(notices) - read < Capacity - 1

\* m_orderSocket->send goes on at once.
HasRoom == Len(notices) - read < Capacity

BringTick ==
  /\ life = "running"
  /\ \E t \in Ticks : WriteQuote(t)
  /\ UNCHANGED <<serverTurn, disk, processVars, commands, accounts>>

HandleTick ==
  /\ life = "running"
  /\ TickStep
  /\ mpc = "notify" => HasRoom
  /\ Recorded
  /\ UNCHANGED <<serverTurn, disk, processVars, commands>>

\* The window is closed and QuotesourceServer is stopped.  The file is opened,
\* which truncates it, or cannot be, and nothing is saved.
Quit ==
  /\ life = "running" /\ mpc = "idle"
  /\ \/ /\ life' = "saving" /\ file' = NoFile /\ toSave' = Entries
        /\ before' = Len(accounts) - (IF spc \in InDeals THEN 1 ELSE 0)
     \/ life' = "leaving" /\ UNCHANGED <<disk, before>>
  /\ UNCHANGED <<vars, serverTurn, loaded, starts, last, commands, accounts>>

\* The cash first, then the positions as they come.
SaveLine(e) ==
  /\ life = "saving" /\ e \in toSave
  /\ "SUR" \in toSave => e = "SUR"
  /\ \E v \in Line(e) : file' = [x \in DOMAIN file \cup {e} |-> IF x = e THEN v ELSE file[x]]
  /\ toSave' = toSave \ {e}
  /\ UNCHANGED <<vars, serverTurn, processVars, commands, accounts>>

\* The process is gone, and with it everything in memory.
Forget ==
  /\ ostate' = [o \in Orders |-> "none"] /\ terms' = [o \in Orders |-> None]
  /\ pending' = {} /\ trades' = <<>> /\ notices' = <<>>
  /\ cash' = StartCash /\ portfolio' = [s \in Securities |-> 0]
  /\ quote' = [q \in Securities \X {"bid", "offer"} |-> 0] /\ enabled' = {}
  /\ mutex' = None
  /\ spc' = "idle" /\ cur' = 0 /\ bid' = 0 /\ offer' = 0
  /\ mpc' = "idle" /\ tick' = None /\ cursor' = 0
  /\ seen' = [th \in Threads |-> 0]
  /\ taken' = None /\ polled' = FALSE /\ read' = 0

End(how) ==
  /\ Forget
  /\ life' = "off" /\ loaded' = FALSE
  /\ toSave' = {}
  /\ last' = IF how = "unsaved" /\ ~loaded THEN last
             ELSE [how |-> how, accounts |-> accounts, before |-> before]
  /\ accounts' = <<>> /\ before' = 0
  /\ UNCHANGED <<file, starts, commands>>

Exit ==
  \/ life = "saving" /\ toSave = {} /\ End("saved")
  \/ life = "leaving" /\ End("unsaved")

\* At any moment, and for one by what a command throws: Json::LogicError is not
\* caught where the BrokerServer thread runs.
Crash ==
  \/ life = "running" /\ End("unsaved")
  \/ life = "saving" /\ toSave # {} /\ End("torn")

----------------------------------------------------------------------------
(* The BrokerServer thread.  It runs until the process ends. *)

\* Variant: the queue is read whether or not there was something to poll.
Waiting_Always == TRUE

\* A notice is in the queue.
Waiting == read < Len(notices)

\* One turn: zmq::poll sees a command, a notice, or both.
Poll(k) ==
  /\ life # "off" /\ spc = "idle" /\ taken = None /\ ~polled
  /\ \/ k \in Kinds /\ cur < MaxOrders /\ commands < MaxCommands /\ commands' = commands + 1
     \/ k = Other /\ UNCHANGED commands
     \/ k = None /\ Waiting /\ UNCHANGED commands
  /\ taken' = k
  /\ polled' = Waiting
  /\ UNCHANGED <<vars, read, disk, processVars, accounts>>

\* The turn goes on to the notice, or was abandoned by an exception of the
\* command: the notice stays in the queue, to be polled again.
GoesOn == polled' \in {polled, FALSE}

HandleOther ==
  /\ taken = Other
  /\ taken' = None /\ GoesOn
  /\ UNCHANGED <<vars, read, disk, processVars, commands, accounts>>

\* submitOrder gets m_mutex.
EnterSubmit ==
  /\ taken \in Kinds
  /\ BeginSubmit(taken)
  /\ taken' = None
  /\ UNCHANGED <<polled, read, disk, processVars, commands, accounts>>

\* Behind the order the command may have had a part that throws.
HandleSubmit ==
  /\ SubmitStep
  /\ spc = "notify" => HasRoom
  /\ IF spc = "notify" THEN GoesOn ELSE UNCHANGED polled
  /\ Recorded
  /\ UNCHANGED <<taken, read, disk, processVars, commands>>

\* The command has been dealt with; the notice that was there is read.
HandleUpdate ==
  /\ spc = "idle" /\ taken = None /\ polled
  /\ read' = read + 1
  /\ polled' = FALSE
  /\ UNCHANGED <<vars, taken, disk, processVars, commands, accounts>>

----------------------------------------------------------------------------

GatewayNext ==
  \/ Start \/ BringTick \/ HandleTick
  \/ Quit \/ (\E e \in Entries : SaveLine(e)) \/ Exit \/ Crash
  \/ (\E k \in Kinds \cup {Other, None} : Poll(k))
  \/ HandleOther \/ EnterSubmit \/ HandleSubmit \/ HandleUpdate

GatewaySpec == GatewayInit /\ [][GatewayNext]_gatewayVars

\* Both threads run: a call goes on, and a notice is polled.  The server's wait
\* for m_mutex ends although the main thread may take it again and again.
FairGatewaySpec ==
  /\ GatewaySpec
  /\ WF_gatewayVars(HandleTick)
  /\ WF_gatewayVars(Poll(None))
  /\ WF_gatewayVars(HandleOther)
  /\ SF_gatewayVars(EnterSubmit)
  /\ WF_gatewayVars(HandleSubmit)
  /\ WF_gatewayVars(HandleUpdate)

----------------------------------------------------------------------------
(* Properties. *)

\* The account a run starts with, if the file could be opened, is explained by how
\* the run ended that left it.  After a save, each line is what the entry was
\* after some deal that is not older than the last one complete when save began:
\* without a deal meanwhile, the account at that moment.  The positions are exact,
\* the cash to half a unit of its last significant digit.  A run that did not save
\* takes back every deal it made.  A crash while saving may besides leave entries
\* as those of a new account.
Near(x, c) == x = c \/ \E u \in UnitsOf(c) : 2 * (x - c) <= u /\ 2 * (c - x) <= u

SavedCash(c) == \E i \in last.before .. Len(last.accounts) : Near(c, last.accounts[i].cash)
SavedPosition(s, n) ==
  \E i \in last.before .. Len(last.accounts) : n = last.accounts[i].portfolio[s]

RestartRestores ==
  [][life = "off" /\ loaded' =>
       CASE last.how = "saved" ->
              /\ SavedCash(cash')
              /\ \A s \in Securities : SavedPosition(s, portfolio'[s])
         [] last.how = "unsaved" ->
              Account(cash', portfolio') = last.accounts[1]
         [] last.how = "torn" ->
              /\ cash' = StartCash \/ SavedCash(cash')
              /\ \A s \in Securities : portfolio'[s] = 0 \/ SavedPosition(s, portfolio'[s])
    ]_gatewayVars

\* The deadlock the program has.  The queue is full, and the server thread, which
\* alone empties it, waits itself: for room, or for m_mutex, which the sweep holds
\* that waits for room.
Stuck ==
  /\ Len(notices) - read = Capacity
  /\ spc = "notify" \/ (mpc = "notify" /\ taken \in Kinds)

\* Short of that deadlock every call returns: an order that was taken is carried
\* out, and a tick's sweep ends, or the process does.  A sweep that waits for room
\* needs the server to go on reading: it need not while one command after another
\* throws.
Throws == taken = Other /\ polled /\ HandleOther /\ ~polled'
CallsReturn ==
  /\ taken \in Kinds ~> (taken \notin Kinds /\ spc = "idle") \/ Stuck
  /\ []<><<Throws>>_gatewayVars \/ (mpc # "idle" ~> mpc = "idle" \/ Stuck)
=============================================================================
