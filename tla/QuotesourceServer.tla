-------------------------- MODULE QuotesourceServer --------------------------
(***************************************************************************)
(* core/quotesourceserver.cpp with core/client.cpp and core/datasink.cpp:  *)
(* the thread that streams ticks to the clients of the quote socket.  A    *)
(* client subscribes with a "start" command and pays for each packet with  *)
(* a credit.  Ticks come through a pipe that DataSink fills on the main    *)
(* thread.  A turn of run() handles the control socket, or, only if        *)
(* nothing is there, one tick.                                             *)
(*                                                                         *)
(* A stream is a ticker and a datatype.  A selector of a start command,    *)
(* period:ticker/id,id..., is a record of its parts; one without ids asks  *)
(* for prices.  m_credits is an int: its values are -Half .. Half - 1.     *)
(***************************************************************************)
EXTENDS Integers, Sequences, SequencesExt

CONSTANTS
  Peers,             \* identities the ROUTER socket gives its clients
  Tickers,
  Datatypes,         \* those that have an id
  Messages,          \* what clients send: see MessageKinds
  Half,              \* the values of m_credits from 0 up, 2^31 of an int's
  Price,             \* the datatype that is meant if no id is given
  MaxSends,          \* bound: messages sent by all clients together
  MaxTicks,          \* bound: ticks of the whole run
  PipeLimit,         \* high-water mark of the pipe: the sender blocks
  None

Streams == Tickers \X Datatypes

\* A period that is left out counts as "t", the one that is supported.  None
\* stands for an id that is no datatype's.
Selectors == [period : {"t", "other"}, ticker : Tickers, ids : SUBSET (Datatypes \cup {None})]

\* "start" with its selectors; another command; credits; and what throws:
\* an empty type frame, a body that is no JSON, a missing frame.
MessageKinds ==
  [type : {"start"}, sel : SUBSET Selectors]
    \cup [type : {"command"}] \cup [type : {"credit"}, n : Nat] \cup [type : {"junk"}]

ASSUME QuotesourceServerAssumption ==
  /\ Messages \subseteq MessageKinds
  /\ Half \in Nat \ {0}
  /\ MaxSends \in Nat /\ MaxTicks \in Nat /\ PipeLimit \in Nat
  /\ Price \in Datatypes /\ None \notin Datatypes
  /\ \A m \in Messages : m.type = "start" => m.sel # None

VARIABLES
  clients,           \* m_clients
  inbox,             \* per peer, messages waiting in the ROUTER socket
  pipe,              \* m_incomingPipe: [serial, stream]
  pc,                \* where the server thread is in one turn of run()
  sends,             \* messages sent (bound)
  serial,            \* ticks pushed so far
  subscription,      \* history: per peer, the selectors of the last start that
                     \* was handled, None if there is none or it threw
  granted, used,     \* history: per peer, credits and packets since that start
  answers,           \* history: per peer, control responses sent
  delivered          \* history: per peer, the serials of the packets sent

historyVars == <<subscription, granted, used, answers, delivered>>
vars == <<clients, inbox, pipe, pc, sends, serial, historyVars>>

Modulus == 2 * Half

\* Two's complement.
Wrap(x) ==
  LET m == x % Modulus IN IF m >= Half THEN m - Modulus ELSE m

Clients == [peer : Peers, streams : SUBSET Streams, credits : Int]
Ticks == [serial : Nat, stream : Streams]

TypeOK ==
  /\ clients \in Seq(Clients)
  /\ \A i \in DOMAIN clients : Wrap(clients[i].credits) = clients[i].credits
  /\ inbox \in [Peers -> Seq(Messages)]
  /\ pipe \in Seq(Ticks)
  /\ pc \in {"poll", "control", "pipe"}
  /\ pc = "control" => \E p \in Peers : inbox[p] # <<>>
  /\ pc = "pipe" => pipe # <<>>
  /\ sends \in 0 .. MaxSends
  /\ serial \in 0 .. MaxTicks
  /\ subscription \in [Peers -> (SUBSET Selectors) \cup {None}]
  /\ granted \in [Peers -> Nat]
  /\ used \in [Peers -> Nat]
  /\ answers \in [Peers -> Nat]
  /\ delivered \in [Peers -> Seq(Nat)]

Init ==
  /\ clients = <<>>
  /\ inbox = [p \in Peers |-> <<>>]
  /\ pipe = <<>>
  /\ pc = "poll"
  /\ sends = 0 /\ serial = 0
  /\ subscription = [p \in Peers |-> None]
  /\ granted = [p \in Peers |-> 0]
  /\ used = [p \in Peers |-> 0]
  /\ answers = [p \in Peers |-> 0]
  /\ delivered = [p \in Peers |-> <<>>]

----------------------------------------------------------------------------
(* The clients, outside src/, and DataSink::incomingTick on the main thread. *)

ClientSend(p, m) ==
  /\ sends < MaxSends
  /\ sends' = sends + 1
  /\ inbox' = [inbox EXCEPT ![p] = Append(@, m)]
  /\ UNCHANGED <<clients, pipe, pc, serial, historyVars>>

\* The send blocks while the pipe is full.
IncomingTick(s) ==
  /\ serial < MaxTicks
  /\ Len(pipe) < PipeLimit
  /\ serial' = serial + 1
  /\ pipe' = Append(pipe, [serial |-> serial', stream |-> s])
  /\ UNCHANGED <<clients, inbox, pc, sends, historyVars>>

----------------------------------------------------------------------------
(* The server thread. *)

\* Variant: ticks are not even looked at while there is no client.
Poll_NeedsClients ==
  /\ pc = "poll"
  /\ pc' = IF \E p \in Peers : inbox[p] # <<>> THEN "control"
           ELSE IF pipe # <<>> /\ clients # <<>> THEN "pipe" ELSE "poll"
  /\ UNCHANGED <<clients, inbox, pipe, sends, serial, historyVars>>

Poll ==
  /\ pc = "poll"
  /\ pc' = IF \E p \in Peers : inbox[p] # <<>> THEN "control"
           ELSE IF pipe # <<>> THEN "pipe" ELSE "poll"
  /\ UNCHANGED <<clients, inbox, pipe, sends, serial, historyVars>>

\* The ROUTER socket hands out the next message of any peer.
Receive(p, type) ==
  /\ pc = "control"
  /\ inbox[p] # <<>> /\ Head(inbox[p]).type = type
  /\ inbox' = [inbox EXCEPT ![p] = Tail(@)]
  /\ pc' = "poll"
  /\ UNCHANGED <<pipe, sends, serial>>

Respond(p) == answers' = [answers EXCEPT ![p] = @ + 1]

\* getClient: the first entry of the peer.
Find(p) == SelectInSeq(clients, LAMBDA c : c.peer = p)

\* Variant: the oldest entry goes instead.
Without_Oldest(p) == IF Find(p) = 0 THEN clients ELSE Tail(clients)

\* deleteClient
Without(p) == IF Find(p) = 0 THEN clients ELSE RemoveAt(clients, Find(p))

\* An unreadable message, or a start with no tickers: an exception, and no answer.
HandleJunk(p) ==
  /\ \/ Receive(p, "junk")
     \/ Receive(p, "start") /\ Head(inbox[p]).sel = {}
  /\ UNCHANGED <<clients, historyVars>>

\* Any command but "start" is answered with success and has no effect.
HandleCommand(p) ==
  /\ Receive(p, "command")
  /\ Respond(p)
  /\ UNCHANGED <<clients, subscription, granted, used, delivered>>

\* addStreamMatcher throws: only ticks are streamed, only known datatypes.
Throws(x) == x.period # "t" \/ None \in x.ids

\* The streams the matcher of a selector accepts.
Matched(x) == {x.ticker} \X (IF x.ids = {} THEN {Price} ELSE x.ids)

\* A peer's old entry goes, whatever becomes of the new one: the new one is
\* entered, without credits, only if no selector throws.
HandleStart(p) ==
  /\ Receive(p, "start")
  /\ LET sel == Head(inbox[p]).sel
     IN /\ sel # {}
        /\ \/ /\ \A x \in sel : ~Throws(x)
              /\ clients' = Append(Without(p),
                   [peer |-> p, streams |-> UNION {Matched(x) : x \in sel}, credits |-> 0])
              /\ subscription' = [subscription EXCEPT ![p] = sel]
              /\ Respond(p)
           \/ /\ \E x \in sel : Throws(x)
              /\ clients' = Without(p)
              /\ subscription' = [subscription EXCEPT ![p] = None]
              /\ UNCHANGED answers
  /\ granted' = [granted EXCEPT ![p] = 0]
  /\ used' = [used EXCEPT ![p] = 0]
  /\ UNCHANGED delivered

\* Variants: a grant replaces what is left of the last one; the sum is kept
\* in more bits than the int has.
Increment_Replaces(c, n) == [c EXCEPT !.credits = Wrap(n)]
Increment_Wide(c, n) == [c EXCEPT !.credits = @ + n]

\* Client::incrementCredits
Increment(c, n) == [c EXCEPT !.credits = Wrap(@ + n)]

\* Credits of a peer without an entry are refused with an exception.
HandleCredit(p) ==
  /\ Receive(p, "credit")
  /\ LET n == Head(inbox[p]).n
     IN \/ /\ Find(p) # 0
           /\ clients' = [clients EXCEPT ![Find(p)] = Increment(@, n)]
           /\ granted' = [granted EXCEPT ![p] = @ + n]
        \/ /\ Find(p) = 0
           /\ UNCHANGED <<clients, granted>>
  /\ UNCHANGED <<subscription, used, answers, delivered>>

\* Client::decrementCredits(1)
Pay(c) == [c EXCEPT !.credits = @ - (IF @ < 1 THEN @ ELSE 1)]

\* Variant: credits are there to be used up, and one more.
Eligible_Free(c, s) == s \in c.streams /\ c.credits >= 0

\* sendStreamPacket: every client that accepts the stream and has credit.  No
\* matcher made from a selector is disabled, so their order does not matter.
Eligible(c, s) == s \in c.streams /\ c.credits > 0

\* The entries under which a peer is sent a tick of the stream.
Copies(p, s) ==
  Cardinality({i \in DOMAIN clients : clients[i].peer = p /\ Eligible(clients[i], s)})

\* Variant: the tick waits in the pipe until every subscriber has been served.
Taken_WhenAllServed(t) ==
  pipe' = IF \A i \in DOMAIN clients :
               t.stream \in clients[i].streams => Eligible(clients[i], t.stream)
          THEN Tail(pipe) ELSE pipe

\* The three frames of the tick are received once.
Taken(t) == pipe' = Tail(pipe)

HandlePipe ==
  /\ pc = "pipe"
  /\ LET t == Head(pipe)
     IN /\ clients' = [i \in DOMAIN clients |->
             IF Eligible(clients[i], t.stream) THEN Pay(clients[i]) ELSE clients[i]]
        /\ used' = [p \in Peers |-> used[p] + Copies(p, t.stream)]
        /\ delivered' = [p \in Peers |->
             delivered[p] \o [i \in 1 .. Copies(p, t.stream) |-> t.serial]]
        /\ Taken(t)
  /\ pc' = "poll"
  /\ UNCHANGED <<inbox, sends, serial, subscription, granted, answers>>

----------------------------------------------------------------------------

ServerStep ==
  \/ Poll
  \/ \E p \in Peers :
       HandleJunk(p) \/ HandleCommand(p) \/ HandleStart(p) \/ HandleCredit(p)
  \/ HandlePipe

Next ==
  \/ \E p \in Peers, m \in Messages : ClientSend(p, m)
  \/ \E s \in Streams : IncomingTick(s)
  \/ ServerStep

Spec == Init /\ [][Next]_vars

\* The server thread runs.
FairSpec == Spec /\ WF_vars(ServerStep)

----------------------------------------------------------------------------
(* Properties. *)

\* A client is never sent more packets than it has paid for since it subscribed,
\* even if its grants overflow the counter.
NoOverdraft == \A p \in Peers : used[p] <= granted[p]

\* The last start of p was accepted, and one of its selectors names the stream's
\* datatype, or none at all and the stream is of prices.
AsksFor(p, s) ==
  /\ subscription[p] # None
  /\ \E x \in subscription[p] :
       x.ticker = s[1] /\ (s[2] \in x.ids \/ (x.ids = {} /\ s[2] = Price))

\* Whatever clients of other peers come and go before it in the vector, a peer
\* has one entry if its last start was accepted, for what that start asked, and
\* none if it was not.
OneEntry ==
  /\ \A i, j \in DOMAIN clients : clients[i].peer = clients[j].peer => i = j
  /\ \A i \in DOMAIN clients : \A s \in Streams :
       s \in clients[i].streams <=> AsksFor(clients[i].peer, s)
  /\ \A p \in Peers :
       subscription[p] # None => \E i \in DOMAIN clients : clients[i].peer = p

\* A client sees the ticks in the order they came, and none of them twice.
InOrder ==
  \A p \in Peers : \A i, j \in DOMAIN delivered[p] :
    i < j => delivered[p][i] < delivered[p][j]

\* A tick reaches every client that is subscribed to its stream and has credit
\* left, and nobody else.  The overflow of m_credits is the exception: it takes
\* away what was paid for once half of the counter's range is outstanding.
Outstanding(p) == granted[p] - used[p]
StreamsWhatIsPaid ==
  [][pc = "pipe" /\ pc' = "poll" =>
       \A p \in Peers :
         LET wanted == AsksFor(p, Head(pipe).stream)
         IN /\ wanted /\ Outstanding(p) \in 1 .. (Half - 1)
                 => delivered'[p] = Append(delivered[p], Head(pipe).serial)
            /\ ~wanted \/ Outstanding(p) = 0 => delivered'[p] = delivered[p]]_vars

\* The pipe does not stay full: every tick is taken out of it, whether or not
\* somebody wants it, so the main thread's send goes on.
TicksLeavePipe ==
  \A n \in 1 .. MaxTicks :
    (\E i \in DOMAIN pipe : pipe[i].serial = n) ~> ~(\E i \in DOMAIN pipe : pipe[i].serial = n)
=============================================================================
