# goldmine-quik-gateway: specifications, model checks and proofs

The gateway connects trading programs to the QUIK terminal. It imports QUIK's
tables over DDE, streams the ticks in them to clients on a quote socket, and
takes orders from clients on a control socket, which it gives to a virtual
broker (fills against the imported quotes) or to QUIK (`TRANS2QUIK.dll`). Five
threads meet in it: the main thread (DDE callbacks and everything a tick sets
off), the QuotesourceServer thread, the BrokerServer thread, and the DLL's
callback threads.

This directory holds TLA+ modules of the parts whose correctness depends on
the order of steps, TLC configurations that check them on small instances, and
TLAPS proofs for every value of the constants. `PROJECT.json` is the index:
which definition models which lines, which run checks what, which change of the
code each property would catch.

## 1. Inventory

| Component | State it keeps | Operations | Talks to |
|---|---|---|---|
| Broker, Order (`core/broker.h`) | an order's state | submitOrder, cancelOrder, order(), order callback | BrokerServer |
| BrokerServer (`core/brokerserver.cpp`) | m_orderPeers, m_clientIdToLocalId, the order-state queue, m_running | order and cancel commands, orderCallback (on the broker's thread), state updates, start, stop | clients (ROUTER socket), brokers (calls, callbacks, inproc queue) |
| VirtualBroker (`core/brokers/virtualbroker.cpp`) | pending and retired orders, cash, portfolio, m_mutex | submitOrder, incomingTick, cancelOrder (empty), save, load | BrokerServer thread, main thread, QuoteTable |
| QuoteTable (`core/quotetable.cpp`) | last quotes, enabled tickers; no lock | updateQuote, lastQuote, enableTicker, disableTicker | DataSink (main thread), VirtualBroker |
| QuikBroker (`core/brokers/quikbroker/`) | unsubmitted, pending and retired orders, order numbers, m_mutex | submitOrder, cancelOrder, connection status, transaction reply, order status, trade | BrokerServer thread, DLL threads |
| QuotesourceServer (`core/quotesourceserver.cpp`, `client.cpp`) | vector of clients, their selectors and credits, m_run | start command, credits, tick stream, start, stop | clients (ROUTER socket), DataSink (inproc pipe) |
| DataSink (`core/datasink.cpp`) | the pipe's socket | incomingTick | table parsers, QuotesourceServer, QuoteTable |
| DataImportServer (`core/dataimportserver.cpp`) | parsers per topic | poked table | DDE, parsers |
| Table parsers (`tables/`) | schema, last volume per contract | one table at a time | DataSink |
| XL decoder (`core/xltable/`, `binary/`) | cursor over blocks | parse | DataImportServer |
| main (`main.cpp`) | `vbroker.state` | construction, load at start, save at shutdown; BrokerServer is never stopped | all |
| log, clock, window, registry, DLL loader, vendored libraries | none that matters here | | |

What is hard, and the property that would be lost:

* **Two threads, one book.** `updateQuote` writes and tests without a lock what
  `submitOrder` reads and changes under `m_mutex`; the sweep erases from the
  list it walks and calls back in between. No order may be filled twice or
  passed over, the subscriptions must match the waiting orders, and no thread's update of
  the account may be lost to the other's.
* **Notices without content.** A broker's callback pushes an id; the server
  reads it later and asks for the state the order has *then*. No news may be
  lost or go backwards, and it must reach the right client.
* **Ids chosen by clients.** A client may reuse an id, and two clients may use
  the same one. A cancellation must reach the sender's own order.
* **Callbacks in an order nobody promises.** Replies and status reports come on
  the DLL's threads, repeated, for orders of other programs, before anybody
  listens, or after a connection was lost. An order must be in the container its
  state calls for.
* **A save without a lock, and an end without a stop.** `vbroker.state` is written
  while the BrokerServer thread still trades. The account of the next run must be
  one that this run had.
* **A queue with an end.** A callback waits, with m_mutex held, for room in a queue
  that only the BrokerServer thread empties, and that thread waits for m_mutex.
* **Turns that are abandoned.** An exception in the control handler skips the
  state socket for that turn; one that nobody catches (`Json::LogicError`) ends the
  process.
* **Payment.** Packets are paid for with credits that are added in an `int`.
* **Start and stop.** Both servers loop on a flag; one sets it in the caller
  after creating the thread, the other in the thread.

Section 7 lists what the code does wrong; `PROJECT.json` has every hazard at
its line, and a note where no property covers it yet.

## 2. Modules

`BrokerContract` is the abstract specification of a broker: an order enters
the books (`Submit`), moves forward (`Move`), every move leaves a notice owed,
the callback pays it (`Notify`), and the server takes it off the queue
(`Consume`). `Repeat` is the callback QUIK causes for a partial fill.

The other modules hang together by it:

* `BrokerServer` is the server over *any* broker that keeps the contract: its
  broker steps are the contract's (`B == INSTANCE BrokerContract`).
* `VirtualBroker` and `QuikBroker` implement the contract
  (`Contract == INSTANCE BrokerContract WITH owed <- ...`): an order is owed a
  notice between the step that moved it and the callback.

`Gateway` extends `VirtualBroker`, unchanged, with the process around it: the turns of
the BrokerServer thread, the queue's limit, start, shutdown, crash, and the file.
Its steps of the two threads are `VirtualBroker`'s with more guards.

`QuotesourceServer`, `CurrentParameterTable`, `XlParser` and `ServerLifecycle`
stand alone. `MC...` modules give the
constants small values. The theorems about a module `M` are in `MProofs`; there are
seven of these: of `BrokerServer`, `VirtualBroker`, `QuikBroker`, `Gateway`,
`QuotesourceServer`, `CurrentParameterTable` and `XlParser`.

Where code and model meet:

* **BrokerServer.** `pc` is the place in one turn of `run()`: `poll`, the
  control handler (`control`, then `cancel` if the message has both parts),
  and the state handler (`update`). A step runs from one point where another
  thread can be seen to act to the next. `Proceed` is the handler's normal end
  and `EndTurn` an exception or the end of the turn. `HandleOrder` makes the
  Order, fills both maps and calls `submitOrder`, which may throw afterwards,
  as QuikBroker's does. A part of a command may have an unknown word, which `run`
  catches, or a value of the wrong JSON type: that exception is a `Json::LogicError`, no
  `runtime_error`, and `Terminate` ends the process (`pc = "dead"`). The ROUTER socket
  may drop any update, as it does for a peer that has left or whose pipe is full:
  `lost` remembers it. `told`, `sent`, `lost` and `kills` are history. Texts of replies
  are left out.
* **VirtualBroker.** `submitOrder` is a sequence of steps under `mutex = "server"`:
  entry, two reads of the quote table, the decision, then the deal, or the enabling
  of the ticker, then the callback. `AddPending` and `EnableTicker` are two
  steps, because `updateQuote` looks at the enabled tickers without the lock. `updateQuote`
  is a write, a test, and a sweep under `mutex = "main"`: each order looked at is a step, and so
  are the erasure and the callback. A deal (`executeBuyAt`, `executeSellAt`) is three steps
  on either thread, in the code's order, which differs between the two: each of the
  position and the cash is read into `seen` at the end of one step and written from it in the
  next, so that an update could be lost between two threads that deal at once.
* **QuikBroker.** A callback is two steps, the change of the containers and the
  order callbacks, both with `calling` set, which stands for m_mutex. The
  terminal and the exchange are external: they are what the callbacks are ready
  for. Sending may throw. `link` is the connection: until it is first reported
  (`Connected`), and while it is lost, no callback is called and replies may be
  lost. Reports that wait may come after it with a mode other than 0, which
  `orderStatusCallback` passes over. `listening` are the callbacks that `Connected` has
  managed to set: setting one or subscribing may fail, and the rest is then left out.
  `missed` is history: the numbers whose end was lost that way.
* **Gateway.** `Poll` is `zmq::poll` with what it saw (`taken`, `polled`); the command
  is then submitted, and one notice read, unless the command threw (`GoesOn`).
  `Other` stands for the commands that submit nothing: refused ones, and cancellations, since
  `VirtualBroker::cancelOrder` is empty. `Start` loads the file and `Quit` truncates
  it, if it can be opened: without it a run starts with a new account and
  ends without a save (`life = "leaving"`). `SaveLine` writes an entry; `Line(e)` is what the
  main thread sees of it without m_mutex, in the middle of a deal too, and for the cash what
  the significant digits of a stream keep of that (`Rounded`). A callback is guarded by `HasRoom`.
  The queue of trades, which nothing fills, is left out. The entry of the cash is named "SUR"
  (`virtualbroker.cpp:40`); no security is, since both import parsers name them class
  code, `#`, code (`currentparametertableparser.cpp:120`, `alldealstableparser.cpp:99`),
  and an order for "SUR" finds no quote and makes no position.
  `accounts`, `before` and `last` are history: what each deal made of the account, and how
  the run ended that left the file.
* **QuotesourceServer.** One turn is `Poll` and one handler. A selector is a record
  of its period, ticker and datatype ids; an entry keeps the streams its matchers
  accept. Credits are two's-complement integers from `-Half` to `Half - 1`. `granted`, `used`, `answers`,
  `delivered` and `subscription` are history.
* **CurrentParameterTable.** One step parses one row. The day's volume in
  QUIK's table is external: it grows with each trade and is 0 when a session
  opens. The parser may see it before, after or between, with any cell empty.
  `Signs` is the rule for a trade's direction, `rand()` a choice. `traded`,
  `seen`, `sameSession`, `priced` and `streamed` are history.
* **XlParser.** `data` is what RawByteArrayParser has left, byte by byte; `pc` the
  place in `parse` (the table's header, a block's header, a cell) and then in
  `parseIncomingData`. QUIK's encoding is external: `Divisions` are the ways to
  divide the cells into blocks, `Written` the bytes from each cell on (`Piece` is one cell's
  share of them), and a block of unknown type comes only at the end, with a body of less
  than four bytes. A poke may have more cells than its header says (`Surplus`): `XlTable::set`
  does not look at the place, and a write beneath the table is undefined (`Undefine`), after
  which nothing is modelled. A parser's work on a table is only whether it may
  throw. `poked` and `got` are history.
* **ServerLifecycle.** Both servers' flag, caller and thread; `SetByCaller`
  says which way each server sets its flag.

Definitions named `X_Word` with the comment "Variant" are plausible mistakes in
`X`. No specification uses them; putting one in the place of `X` shows that the
property it is listed with can fail.

## 3. Runs

| Run | Instance | Distinct states | Shows |
|---|---|---|---|
| `server` | 2 clients, 2 brokers, 3 accounts, 2 orders, 1 message waiting | 5 221 000 | types, `Routing`, `NoOrphanNotice`, `UpToDate`, `KillsOwn`, `CancelFindsLatest`, `NoRegress` |
| `server_live` | 1 client, 2 orders, 2 messages waiting | 878 000 | `TerminalTold` |
| `vbroker` | 2 orders of 6 kinds, 2 tickers, 7 ticks, cash 3 | 225 000 | types, `EnabledIffPending`, `OneTrade`, `LimitRespected`, `BooksBalance`, `SweptBehind`, `TickFills`, `ImplementsContract` |
| `vbroker_race` | the same | stops at the counterexample | `NoStrandedOrder` is violated |
| `gateway` | 2 orders of 3 kinds, 1 ticker, 3 ticks, 3 starts, a queue of 1, 1 digit | 548 000 | types, `RestartRestores`, `CallsReturn` |
| `quik` | 2 orders, 3 transactions, connection lost once | 2 000 000 | types, `OneContainer`, `AlreadyNotified`, `KillsOwn`, `Truthful`, `ImplementsContract` |
| `quik_live` | 1 order, 3 transactions, connection lost twice | 14 000 | `EndIsLearned` |
| `quotes` | 2 clients, 2 tickers, 2 datatypes, credits from -4 to 3, 3 messages, 2 ticks | 586 000 | types, `NoOverdraft`, `OneEntry`, `InOrder`, `StreamsWhatIsPaid`, `TicksLeavePipe` |
| `table` | 2 contracts, 3 prices, 4 books, 2 trades each, 1 change of session | 359 000 | types, `NeverInvents`, `EveryTradeStreamed` |
| `xl` | tables of up to 4 cells, with one too many or not, 3 texts, 2 topics, 4 parsers | 1 619 000 | types, `DeliversTable` |
| `lifecycle` | both servers | 960 | `BrokerAnswers`, `QuotesourceStopReturns`, `BrokerStopReturnsOnceServed` |
| `lifecycle_race` | both servers | stops at the counterexample | `QuotesourceAnswers` is violated |

Why these bounds are enough for the cases that matter:

* two clients and two ids make every collision of ids, between clients and of
  one client with itself; two brokers make a cancellation that names the other
  one; the account `nobody` makes every lookup fail once. The clients are
  interchangeable, hence the symmetry of the `server` run; the liveness run has
  none. Commands that are refused, and cancellations, come without end; `MaxOrders` bounds
  the acceptable orders, `MaxInbox` the messages that wait, and `MaxNotices` holds back
  repeats, never a callback that is owed. Mistyped commands are in the liveness run only.
* two orders for one ticker are what it takes for an erasure to happen beside
  another element, and for a subscription to be shared; the second ticker makes
  the one that must stay. The prices are one on each side of the limits, the
  limit itself, and the empty quote 0. Cash of 3 affords the small order at
  every price and the large one at none but the lowest.
* three transactions are two orders and a cancellation, so a cancellation can
  race a fill while another order is under way. `MaxNotices` holds back
  repeated reports only. One loss (`MaxDrops`) makes a stretch before any
  connection, two with one, and one between them; the liveness run has two losses, so
  that a report may wait through a whole connection.
* three starts are a run, one that begins with what it saved, and one that begins
  with what that one left, after a crash of it as well. A fill takes the cash of 12
  below 10, where one digit holds it exactly, and back above, where it does not;
  the code's six digits and 100 000 meet in the same way. `Capacity` is 1, so
  that every wait for room happens with two orders, and so does the deadlock (`Stuck`); ZeroMQ's
  default gives the code's queue 1000 places at each end, and nothing in the code bounds the
  orders on the book below that.
  `MaxCommands` bounds the orders of all runs together.
* with a counter from -4 to 3 a grant of 5 overflows at once, two of 2 together, two of 5
  twice, ending above 0; two grants of 1 pay for both ticks; two ticks fill a pipe
  of two.

* two trades per contract make one that is streamed before another, and a volume
  after the change of session that is below, at or above the last one; three prices
  and the four books of `MCBooks` put the last price at either quote, beyond both,
  and inside a spread that the row before had (above, at and below its last price).
  Crossed books are left out. The contracts are interchangeable. `ExtraColumns` has one set: the
  columns in it add ticks and no state.

* four cells in two rows are divided in every way, so that a block ends at, before
  and after the end of a row; a fifth makes a poke with more cells than it says; the
  texts are empty, a usual one, and one that looks like a block's header. One, or twelve, missing bytes end a poke within a
  cell, between cells, or between blocks. Parsers of both kinds come first
  for a topic.

`MaxTraded`, `MaxSessions`, `MaxOrders`, `MaxSends`, `MaxTicks`, `MaxTids`, `MaxDrops`,
`MaxStarts` and `MaxCommands` bound counters that have no bound
in the code, and are guards of the actions of the world outside.
In TLC's sense, deadlock is checked in the runs but for `quik`, `quik_live` (all transactions
used and everything delivered), `gateway` (the last start used, the process ended) and the
two of `lifecycle` (both servers stopped).

## 4. Fairness

* `server_live`: weak fairness of the server thread's steps, which are enabled
  at every moment (`zmq::poll` returns after a timeout with nothing), and of
  each order's callback: a broker that has moved an order holds its lock until it
  has called back. Of the clients, `TerminalTold` says what it needs: they do not for ever
  send commands that make the control handler throw in turns in which a notice is waiting.
  Clients that do would keep the news from everybody. A dropped message and the end
  of the process are its other exceptions.
* `vbroker`: weak fairness of a call that has been made, per thread. Nobody has
  to submit an order or bring a tick.
* `gateway`: weak fairness of the steps of a call that has been made, on either
  thread, and of the server's polling and reading of a notice; strong fairness of
  its wait for m_mutex, which the main thread takes again and again. Nobody has to
  start or end the program, bring a tick or send a command. `CallsReturn` excepts the
  deadlock the code has (`Stuck`, section 7), and asks that a sweep end only if commands do
  not throw for ever in turns that have seen a notice (`Throws`): such a turn leaves the notice in
  the queue.
* `quik_live`: weak fairness of the callback that holds the mutex; strong
  fairness of the DLL's threads, which compete with the server thread for the
  mutex and find it free again and again. Nothing is assumed of the exchange and
  the connection: `EndIsLearned` names what may come between instead.
* `quotes`: weak fairness of the server thread. The clients send finitely many
  messages (`MaxSends`): the loop prefers the control socket, so a client that
  never stops could keep ticks in the pipe for ever.
* `lifecycle`: the threads are scheduled, a call of `start` or `stop` that
  was made goes on, and so does a turn of the loop: a handler that blocks (section 7) or
  throws what nobody catches is not in this module.

## 5. Proofs

`BrokerServerProofs` (from `BrokerServerAssumption` only: any peers, ids,
brokers, commands and bounds). None of the server's properties is inductive
alone. `IInv` joins four groups, each with a step lemma of its own:

1. `TypeInv`: the types, and that the cancel step has a cancel part.
2. `RegInv`: ids handed out, requests, brokers' books and m_orderPeers are one set of
   orders; whatever is owed or queued is one of them; an entry of
   m_clientIdToLocalId leads to the latest order of that client under that id, which
   gives `CancelFindsLatest`. Only `HandleOrder` adds an order, to all of them at once,
   and nothing removes one.
3. `SentInv`: `Routing` and `KillsOwn`. `RequestStays` keeps the past true,
   `RegInv` makes the next one true.
4. `ToldInv`: `UpToDate` (or the socket dropped the last message), and `NothingAhead` (a
   client was told the order's state or an earlier one), which gives `NoRegress`.

`StepKinds` sorts the steps into those that matter to groups 2 to 4 and the
`Quiet` ones.

`VirtualBrokerProofs` (from `VirtualBrokerAssumption`: any orders, prices,
amounts, ticks). `CoreInv` ties the lock to the two program counters (`Locked`),
numbers the orders (`Numbered`), says what the server thread is about to do with its order
(`Submitting`), which order the main thread's cursor is on or has just left (`Carried`),
and that what a thread has read of the account is still so (`Registers`): this is where
m_mutex is needed. `BookInv` is three properties of the book; `Dealt` takes them over the
last write of a deal, on either thread. `SweptBehind` is inductive over those two,
because the server thread cannot enter an order while the main thread holds the lock.
`BooksBalance` is about sums over the trades, defined by recursion. `Summed` says of every
function that satisfies the recursion that it ends with the account less what the deal under
way has written of it, and that there is one; a step of the broker adds at most one
trade, so the induction is the behaviour's own (`OneMoreTrade`, `NoTrade`). `DealWrites` says
what a step of a deal does to the account, and `DealSums` that the sums follow. TLC checks
`BooksBalance`, which it implies; `Summed` itself quantifies over all functions.
`Implements` maps every step to a step of the contract or a stutter; that the
two threads are never both in a callback (`Locked`) makes the mapping work.

`GatewayProofs` (from `GatewayAssumption` too: any room in the queue, any units of
rounding, any number of starts). `BrokerStep` takes the broker's invariant over to the process:
a thread does there what it does in `VirtualBroker`, only later, and the end of
the process brings back the broker's initial state. `Remembered` says that the last
account in the history is the one the deal under way makes (`Completed`), and that what
the deal has not yet written is as in the last but one; that is what the saving
thread may see of it without m_mutex (`LineFacts`). `OnDisk` says what the file has: while
the program runs, the account it began with, or, if it could not open the file, what was
there before; and while it saves, entries that one of those accounts explains. `Left` says
what each kind of end leaves; `RestartRestores` is read off it at the next start that can open the file.
`QueueStep` keeps the queue within its capacity.

`QuikBrokerProofs` (from `QuikBrokerAssumption`: any transactions, numbers and losses
of the connection). The properties need four things that none of them says. `Numbered`: orders and
transaction ids are handed out in order, and no two orders share an id. `OnTheWay`: a
cancellation's id is no order's, and a reply with a number has the id that placed it at the
exchange. `Keyed`: each key of the three maps names the order it leads to.
`Reported`: a report of an order's end comes after that end. None of them is about the order in
which replies and reports arrive, so any may overtake any other. `Implements` is the refinement of `BrokerContract`, with
`Repeat` for a report of an order that is active already.

`QuotesourceServerProofs` (from `QuotesourceServerAssumption`: any peers, selectors, grants
and any width of the counter). `NoOverdraft` is not inductive: `Balance` says that an
entry's credits are what was granted less what was used, reduced to the counter's
width (`WrapFacts`, `WrapUnique`), so a positive counter means that something is left. `Ordered`
puts the serials in the pipe behind those delivered, which `InOrder` needs. `OneEntry` rests on
`FindFacts` and `RemoveAtFacts`, what `getClient` and `deleteClient` do to the vector.
`StreamsWhatIsPaid` is an action property over the same invariant.

`CurrentParameterTableProofs` (from `CurrentParameterTableAssumption`: any prices, volumes and
rows). `Accounted` says of each contract what the parser's last volume is worth: within the
session, the day's volume less it is what was traded since; before the first row of
a new session, the day's volume is no more than that. `NeverInvents` and `EveryTradeStreamed`
follow.

`XlParserProofs` (from `XlParserAssumption`: tables of any size whose sides are words and
whose cells an `int` can count, any texts and numbers, any number of cells too many, and any
division into blocks whose size fits in a word). `Remaining`
says at each place of the decoder that the bytes left are those QUIK wrote from the next cell
on, less what is missing at the end; `Filled` that the cells before the place are
those that were sent and the others are empty. That the place stays inside the table, if the poke
has no more cells than its header says, is
a consequence (`AtInTable`), and so is `DeliversTable`, with `Delivered` for the parsers' turns. `Written` is a
recursive function over the cells: that its equation has a solution (`WrittenExists`) and
that what it gives is bytes (`WrittenType`) goes by induction over the cells, as `UpTo`,
which takes a set instead of a predicate and follows from the library's `WFMin`.
`DataRead` is the lemma every read rests on: if enough bytes are there they are the ones
expected, and what is left is the rest, cut as before.

TLC has checked each inductive invariant, but for `Summed`, on the instance of the run of its
module.

Only model-checked: liveness (`TerminalTold`, `TickFills`, `EndIsLearned`,
`CallsReturn`, `TicksLeavePipe`, all of `ServerLifecycle`), which is out of the provers' reach.

## 6. Plan

Done: `BrokerContract`, `BrokerServer`, `VirtualBroker`, `Gateway`, `QuikBroker`,
`QuotesourceServer`, `CurrentParameterTable`, `XlParser`, `ServerLifecycle`;
proofs of every safety property that the passing runs check.

What the models could still take in, in this order:

1. The all-deals parser's rows and schema, over the tables `XlParser` delivers.
2. Operators against a reference over bounded inputs: `decimal_fixed`, and the time
   arithmetic of the all-deals parser.
3. A model of frames for the two ROUTER sockets, in which a malformed message
   leaves frames for the next call.

## 7. What the models show about the code

* `vbroker_race`: `submitOrder` reads the quotes, then enables the ticker; a
  quote written and tested in between is seen by neither side. The order rests
  beside a quote that fills it, until another tick comes. A second such gap is between
  `push_back` and `enableTicker` (lines 199 and 200): a tick that falls there is not taken
  to the order being entered, hence the exception in `EnabledIffPending`.
* `lifecycle_race`: `QuotesourceServer::start` sets `m_run` after creating the
  thread. A thread that is scheduled at once exits.
* `BrokerServer` has the opposite hazard: a `stop` before the thread has run is
  undone by it, and `join` does not return. Nothing in the repository calls
  `stop` that early, hence `BrokerStopReturnsOnceServed`.
* The end of an order at the exchange is not learned, and the order stays pending or
  unsubmitted for ever, if the reply to its transaction came before the callbacks
  were set or while the connection was lost, if a status report overtook the reply,
  or if it came with a mode other than 0. `EndIsLearned` says that these are all, while the
  connection lasts and both callbacks are set: if setting one or subscribing fails
  (`quikbroker.cpp:268-283`), nobody tries again before the next connection.
* The account of a run that could open the file is one that the run had which left it, but for the cash, of which a save
  keeps six digits. A save may mix entries from before and after a trade that the
  server thread makes meanwhile. A crash takes back all trades since the start, and
  one while saving may besides leave entries as those of a new account. Orders that wait are
  forgotten in each case.
* When the order-state queue is full, the main thread's sweep, which holds m_mutex and
  waits for room, and the server thread, which waits for m_mutex with a command, wait for
  each other for ever; or the server thread waits for itself, when it pushes the command's own
  notice. The queue is large by default, but nothing bounds the orders that one tick
  may fill. The `gateway` run reaches this deadlock; `CallsReturn` says that every call
  returns short of it. No doc or test says that it cannot happen, so it is not listed as a
  finding.
* If `vbroker.state` cannot be opened at the end, the program exits as usual, and the next run
  starts with what an older one left (`main.cpp:186-191`).
* A command with a value of the wrong JSON type, or JSON that is no object, throws
  `Json::LogicError`, which neither handler at `brokerserver.cpp:100-107` catches: the process
  ends, and with it the orders of all clients (`Terminate`; a `Crash` in `Gateway`).
* A cancellation finds the latest order its sender submitted under the id
  (`CancelFindsLatest`). It finds none for id 0, which stands for no id, and none that has
  been superseded; and for an order whose transaction QUIK refused to take the broker throws,
  as it has no number.
* A client whose `submitOrder` threw is told nothing: its order stays `Unsubmitted`.
* `XlTable::set` writes wherever it is told. A poke with more cells than its header says writes
  beneath the table; `TypeOK` of `XlParser` says that no other does.
* A trade is not streamed if the day's volume was 0 at the row before, if a new
  session starts with it, or if its row has no last price; these are the
  conditions of `EveryTradeStreamed`.
* `AllDealsTableParser::incomingTable` takes the schema from row 0 and then parses row
  0 too, where the column of milliseconds holds its header: reading it as a
  number throws, and the first table gives no ticks and goes to no later parser.
  `MayThrow` stands for this and for any other cell of the wrong type.
* A block of a type the decoder does not know is not skipped; at the end of a poke
  it makes the whole poke be dropped.
* `BrokerServer::addBroker` registers no trade callback, so the trade half of the
  server is never reached; `PartiallyExecuted` is never assigned; `cancelOrder`
  of the virtual broker is empty; an order with client id 0 cannot be cancelled.

## 8. Not modelled

The rows of the all-deals parser keep no state but a schema, and its times and the
rounding of `decimal_fixed` are functions of one value: they are at the end of the
plan (section 6). Of the current parameter table's parser, the reading of the header row
is left out; of `main`, the options, the configuration and the registration of
parsers, all before any thread runs. The text of a transaction is left out, but for
the order number in it. Logging, the window, the clock, the DLL's loading and the vendored
libraries have no state worth a model. Undefined behaviour of unsynchronised
hash tables, and of a zmq socket used by several threads (`m_orderSocket`), is
listed under the hazards: the models take each access as atomic.
Texts (JSON fields, transaction strings, log lines) are abstracted to what the
code tells apart; order numbers are taken to be distinct as `double` keys.
