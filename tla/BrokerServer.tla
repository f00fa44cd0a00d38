---------------------------- MODULE BrokerServer ----------------------------
(***************************************************************************)
(* core/brokerserver.cpp: the thread between the clients of the control    *)
(* socket and the brokers.  It turns commands into orders, remembers which *)
(* peer asked for which order, and turns each notice of the order-state    *)
(* queue into a message to that peer.  The brokers behind it are           *)
(* BrokerContract: they move at any time, on any thread, and a notice is   *)
(* read long after it was pushed.                                          *)
(*                                                                         *)
(* An incoming message is the peer it came from and a command: an order    *)
(* part, a cancel part, both (the handler treats them one after the other) *)
(* or none.  A part is "good"; or it has an "unknown" word for operation   *)
(* or type, which the handler refuses with an exception that run catches;  *)
(* or it is "mistyped", a value of a JSON type that asInt, asString,       *)
(* asDouble or operator[] does not take: that is a Json::LogicError, a     *)
(* std::exception and no runtime_error, which nobody catches, so that it   *)
(* ends the process.                                                       *)
(***************************************************************************)
EXTENDS Integers, Sequences

CONSTANTS
  Peers,             \* identities the ROUTER socket gives its clients
  ClientIds,         \* the ids clients choose for their orders
  Brokers,           \* the objects given to addBroker
  Accounts,          \* account names in messages
  BrokerOf,          \* the broker that lists an account in accounts(), or None
  Commands,          \* the commands clients send
  MaxOrders,         \* bound: messages with an acceptable order part
  MaxInbox,          \* bound: messages waiting in the control socket
  MaxNotices,        \* bound: a repeated callback waits for a shorter queue
  None

Orders == 0 .. (MaxOrders - 1)

OrderParts ==
  [id : ClientIds, account : Accounts, form : {"good", "unknown", "mistyped"}]
CancelParts == [id : ClientIds, account : Accounts, form : {"good", "mistyped"}]
Requests == [peer : Peers, id : ClientIds, broker : Brokers]

ASSUME BrokerServerAssumption ==
  /\ MaxOrders \in Nat /\ MaxInbox \in Nat /\ MaxNotices \in Nat
  /\ ClientIds \subseteq Int
  /\ None \notin Peers \cup Brokers \cup Orders \cup OrderParts \cup CancelParts
                   \cup Requests
  /\ BrokerOf \in [Accounts -> Brokers \cup {None}]
  /\ Commands \subseteq [order : OrderParts \cup {None},
                         cancel : CancelParts \cup {None}]

VARIABLES
  ostate, owed, notices,   \* the brokers, see BrokerContract
  inbox,             \* messages waiting in the ROUTER socket
  sends,             \* how many acceptable order parts were sent (bound)
  pc,                \* where the server thread is in one turn of run(), or "dead"
  updReady,          \* poll saw the order-state socket readable
  nextId,            \* gs_id, the next local id
  request,           \* per order, what its Order object was made from
  orderPeers,        \* m_orderPeers
  clientToLocal,     \* m_clientIdToLocalId
  told,              \* history: the last state sent for an order
  sent,              \* history: <<peer, order>> of every update sent
  lost,              \* history: orders whose last update the socket dropped
  kills              \* history: <<peer, client id, broker, order>> passed to cancelOrder

brokerVars == <<ostate, owed, notices>>
clientVars == <<inbox, sends>>
mapVars == <<nextId, request, orderPeers, clientToLocal>>
historyVars == <<told, sent, lost, kills>>
vars == <<brokerVars, clientVars, pc, updReady, mapVars, historyVars>>

B == INSTANCE BrokerContract

Messages == [peer : Peers, cmd : Commands]

TypeOK ==
  /\ ostate \in [Orders -> B!States]
  /\ owed \in SUBSET Orders
  /\ notices \in Seq(Orders)
  /\ inbox \in Seq(Messages)
  /\ sends \in 0 .. MaxOrders
  /\ pc \in {"poll", "control", "cancel", "update", "dead"}
  /\ pc \in {"control", "cancel"} => inbox # <<>>
  /\ pc = "update" => notices # <<>>
  /\ updReady \in BOOLEAN
  /\ updReady => notices # <<>>
  /\ nextId \in 0 .. MaxOrders
  /\ request \in [Orders -> Requests \cup {None}]
  /\ orderPeers \in [Orders -> Peers \cup {None}]
  /\ clientToLocal \in [Peers \X ClientIds -> Orders \cup {None}]
  /\ told \in [Orders -> B!States]
  /\ sent \in SUBSET (Peers \X Orders)
  /\ lost \in SUBSET Orders
  /\ kills \in SUBSET (Peers \X ClientIds \X Brokers \X Orders)

Init ==
  /\ B!ContractInit
  /\ inbox = <<>> /\ sends = 0
  /\ pc = "poll" /\ updReady = FALSE
  /\ nextId = 0
  /\ request = [o \in Orders |-> None]
  /\ orderPeers = [o \in Orders |-> None]
  /\ clientToLocal = [k \in Peers \X ClientIds |-> None]
  /\ told = [o \in Orders |-> "none"]
  /\ sent = {} /\ lost = {} /\ kills = {}

----------------------------------------------------------------------------
(* The clients, outside src/.  They may send commands that are refused, or *)
(* cancellations, without end; only the acceptable orders are bounded, so   *)
(* that none needs a local id outside Orders.  Once the process is gone     *)
(* nothing moves any more.                                                  *)

Alive == pc # "dead"

OrderAccepted(part) == part.form = "good" /\ BrokerOf[part.account] # None

Acceptable(c) == c.order # None /\ OrderAccepted(c.order)

ClientSend(p, c) ==
  /\ Alive
  /\ Len(inbox) < MaxInbox
  /\ \/ ~Acceptable(c) /\ UNCHANGED sends
     \/ Acceptable(c) /\ sends < MaxOrders /\ sends' = sends + 1
  /\ inbox' = Append(inbox, [peer |-> p, cmd |-> c])
  /\ UNCHANGED <<brokerVars, pc, updReady, mapVars, historyVars>>

----------------------------------------------------------------------------
(* One turn of BrokerServer::run.  zmq::poll reports which sockets are     *)
(* readable; the control socket is handled first, then the state socket if *)
(* the same poll saw it; an exception abandons the rest of the turn.       *)

Poll ==
  /\ pc = "poll"
  /\ updReady' = (notices # <<>>)
  /\ pc' = IF inbox # <<>> THEN "control"
           ELSE IF notices # <<>> THEN "update" ELSE "poll"
  /\ UNCHANGED <<brokerVars, clientVars, mapVars, historyVars>>

\* Variant: the state socket is read whether poll saw it readable or not.
Proceed_Always == pc' = "update" /\ UNCHANGED updReady

\* The control handler returned: the state socket is next if poll saw it.
Proceed ==
  /\ pc' = IF updReady THEN "update" ELSE "poll"
  /\ UNCHANGED updReady

\* A handler threw, or the state socket's was the last: on to the next poll.
EndTurn == pc' = "poll" /\ updReady' = FALSE

Msg == Head(inbox)

\* Neither part: nothing happens, or parsing throws.
HandleNothing ==
  /\ pc = "control"
  /\ Msg.cmd.order = None /\ Msg.cmd.cancel = None
  /\ inbox' = Tail(inbox)
  /\ Proceed \/ EndTurn
  /\ UNCHANGED <<brokerVars, sends, mapVars, historyVars>>

\* No broker lists the account, or operation or type is not a known word.
RefuseOrder ==
  /\ pc = "control"
  /\ Msg.cmd.order # None
  /\ BrokerOf[Msg.cmd.order.account] = None \/ Msg.cmd.order.form = "unknown"
  /\ inbox' = Tail(inbox)
  /\ EndTurn
  /\ UNCHANGED <<brokerVars, sends, mapVars, historyVars>>

\* Variants: the peer of the first, or of the last, order under a client id
\* stands for all of them; the second map's key lacks the peer; an entry of
\* the second map is never overwritten (std::map::insert).
LearnPeer_First(p) ==
  IF \E o \in Orders : request[o] # None /\ request[o].id = Msg.cmd.order.id
  THEN orderPeers ELSE [orderPeers EXCEPT ![nextId] = p]
LearnPeer_Last(p) ==
  [o \in Orders |->
    IF o = nextId \/ (request[o] # None /\ request[o].id = Msg.cmd.order.id)
    THEN p ELSE orderPeers[o]]
LearnClientId_NoPeer(p, id) ==
  [k \in Peers \X ClientIds |-> IF k[2] = id THEN nextId ELSE clientToLocal[k]]
LearnClientId_Insert(p, id) ==
  IF clientToLocal[<<p, id>>] # None THEN clientToLocal
  ELSE [clientToLocal EXCEPT ![<<p, id>>] = nextId]

LearnPeer(p) == [orderPeers EXCEPT ![nextId] = p]
LearnClientId(p, id) == [clientToLocal EXCEPT ![<<p, id>>] = nextId]

\* A new Order, entered in both maps, then given to the broker.  submitOrder
\* may throw after it has entered the order in its books (QuikBroker does when
\* QUIK refuses the transaction): the cancel part is then never looked at.
HandleOrder ==
  /\ pc = "control"
  /\ Msg.cmd.order # None
  /\ OrderAccepted(Msg.cmd.order)
  /\ nextId \in Orders
  /\ LET part == Msg.cmd.order
         p == Msg.peer
     IN /\ request' = [request EXCEPT ![nextId] =
             [peer |-> p, id |-> part.id, broker |-> BrokerOf[part.account]]]
        /\ orderPeers' = LearnPeer(p)
        /\ clientToLocal' = LearnClientId(p, part.id)
  /\ B!Submit(nextId)
  /\ nextId' = nextId + 1
  /\ \/ /\ Msg.cmd.cancel # None
        /\ pc' = "cancel"
        /\ UNCHANGED <<inbox, updReady>>
     \/ /\ Msg.cmd.cancel = None
        /\ Proceed
        /\ inbox' = Tail(inbox)
     \/ /\ EndTurn
        /\ inbox' = Tail(inbox)
  /\ UNCHANGED <<sends, historyVars>>

\* A message with a cancel part only goes straight to it.
SkipOrder ==
  /\ pc = "control"
  /\ Msg.cmd.order = None /\ Msg.cmd.cancel # None
  /\ pc' = "cancel"
  /\ UNCHANGED <<brokerVars, clientVars, updReady, mapVars, historyVars>>

\* The order the cancel part names, None if any of the lookups fails: id 0 is
\* "no id", the account must have a broker, the pair must be in the map and
\* that broker must have the order in its books.
CancelTarget(p, part) ==
  LET o == clientToLocal[<<p, part.id>>]
      b == BrokerOf[part.account]
  IN IF part.id # 0 /\ b # None /\ o # None /\ ostate[o] # "none" /\ request[o].broker = b
     THEN o ELSE None

\* A mistyped account is not looked at when the id is 0.
HandleCancel ==
  /\ pc = "cancel"
  /\ Msg.cmd.cancel.form = "good" \/ Msg.cmd.cancel.id = 0
  /\ LET part == Msg.cmd.cancel
         o == CancelTarget(Msg.peer, part)
     IN \/ /\ o = None
           /\ EndTurn
           /\ UNCHANGED kills
        \/ /\ o # None
           /\ kills' = kills \cup {<<Msg.peer, part.id, BrokerOf[part.account], o>>}
           /\ Proceed \/ EndTurn
  /\ inbox' = Tail(inbox)
  /\ UNCHANGED <<brokerVars, sends, mapVars, told, sent, lost>>

\* JSON that is no object, or a part with a value of the wrong type: nobody
\* catches a Json::LogicError, and the process ends with whatever it was doing.
Terminate ==
  /\ \/ /\ pc = "control"
        /\ Msg.cmd.order = None /\ Msg.cmd.cancel = None
     \/ /\ pc = "control"
        /\ Msg.cmd.order # None /\ Msg.cmd.order.form = "mistyped"
     \/ /\ pc = "cancel"
        /\ Msg.cmd.cancel.form = "mistyped"
  /\ pc' = "dead"
  /\ UNCHANGED <<brokerVars, clientVars, updReady, mapVars, historyVars>>

\* Variants: the order is looked up by the client's id, which may have been
\* used again since; and a notice that is believed to mean "submitted".
StateToTell_ByClientId(o) ==
  ostate[clientToLocal[<<request[o].peer, request[o].id>>]]
StateToTell_Guess(o) ==
  IF told[o] = "none" /\ ostate[o] # "Rejected" THEN "Submitted" ELSE ostate[o]

\* The state put in the message is the one the order has now.
StateToTell(o) == ostate[o]

\* Variant: a notice for an order already announced is taken for a repeat.
CanTell_Once(o) == orderPeers[o] # None /\ ostate[o] # "none" /\ told[o] = "none"

\* What handleSocketStateUpdate needs to answer a notice: without it the
\* handler throws LogicError and the notice is lost.
CanTell(o) == orderPeers[o] # None /\ ostate[o] # "none"

\* The ROUTER socket drops a message to a peer that has left, or one that has
\* let its pipe fill to the high-water mark.
HandleUpdate ==
  /\ pc = "update"
  /\ B!Consume
  /\ LET o == Head(notices)
         p == orderPeers[o]
     IN \/ /\ CanTell(o)
           /\ told' = [told EXCEPT ![o] = StateToTell(o)]
           /\ sent' = sent \cup {<<p, o>>}
           /\ lost' = lost \ {o}
        \/ /\ CanTell(o)
           /\ lost' = lost \cup {o}
           /\ UNCHANGED <<told, sent>>
        \/ /\ ~CanTell(o)
           /\ UNCHANGED <<told, sent, lost>>
  /\ EndTurn
  /\ UNCHANGED <<clientVars, mapVars, kills>>

----------------------------------------------------------------------------

ServerStep ==
  Poll \/ HandleNothing \/ RefuseOrder \/ HandleOrder \/ SkipOrder
    \/ HandleCancel \/ HandleUpdate \/ Terminate

BrokerUnchanged ==
  Alive /\ UNCHANGED <<clientVars, pc, updReady, mapVars, historyVars>>

BrokerMove == BrokerUnchanged /\ \E o \in Orders, s \in B!States : B!Move(o, s)
BrokerRepeat ==
  /\ BrokerUnchanged
  /\ Len(notices) < MaxNotices
  /\ \E o \in Orders : o \notin owed /\ B!Repeat(o)
BrokerNotify(o) == BrokerUnchanged /\ B!Notify(o)

Gone == ~Alive /\ UNCHANGED vars

Next ==
  \/ \E p \in Peers, c \in Commands : ClientSend(p, c)
  \/ ServerStep
  \/ BrokerMove \/ BrokerRepeat
  \/ \E o \in Orders : BrokerNotify(o)
  \/ Gone

Spec == Init /\ [][Next]_vars

\* The server thread runs, and a broker that has moved an order goes on to
\* its callback (it holds its mutex until then).
FairSpec ==
  Spec /\ WF_vars(ServerStep) /\ \A o \in Orders : WF_vars(BrokerNotify(o))

----------------------------------------------------------------------------
(* Properties. *)

\* An update goes to the peer whose command made the order, and to no other:
\* m_orderPeers still holds it when the notice is read, whatever was
\* registered, cancelled or repeated in between.
Routing ==
  \A m \in sent : request[m[2]] # None /\ request[m[2]].peer = m[1]

\* The two LogicErrors of handleSocketStateUpdate are unreachable: no broker
\* thread can get a notice onto the queue before the order is in m_orderPeers
\* and in a broker's books.
NoOrphanNotice == \A i \in DOMAIN notices : CanTell(notices[i])

\* A client is up to date, or news is on its way: what it was last told of an
\* order is the order's state, or a callback is owed, or a notice is queued, or
\* the socket dropped the last message about it.  One notice stands for all the
\* moves made before it is read, so this is what keeps a coalesced or abandoned
\* turn from losing the last of them.
Upcoming(o) == o \in owed \/ \E i \in DOMAIN notices : notices[i] = o
UpToDate ==
  \A o \in Orders :
    \/ ostate[o] \in {"none", "Unsubmitted"}
    \/ told[o] = ostate[o]
    \/ Upcoming(o)
    \/ o \in lost

\* A cancellation that reaches a broker is for an order its sender submitted
\* under that id, at the broker of the account it names.
KillsOwn ==
  \A k \in kills : request[k[4]] = [peer |-> k[1], id |-> k[2], broker |-> k[3]]

\* The lookups of a cancel part lead to the latest order its sender submitted
\* under the id, and that order's broker is asked, if the account named is one
\* of that broker's.  Nothing is said of id 0, which the handler takes for no
\* id, of an order whose id its client has used again, which no command can
\* name any more, or of what the broker does: QuikBroker refuses to cancel an
\* order that has no number at the exchange.
Later(o, q) == q > o /\ request[q] # None
                 /\ request[q].peer = request[o].peer /\ request[q].id = request[o].id
CancelFindsLatest ==
  \A o \in Orders, a \in Accounts :
    /\ request[o] # None
    /\ request[o].id # 0 /\ request[o].broker = BrokerOf[a]
    /\ \A q \in Orders : ~Later(o, q)
    => CancelTarget(request[o].peer,
                    [id |-> request[o].id, account |-> a, form |-> "good"]) = o

\* What a client is told of an order never goes back: not to an earlier state,
\* and not from one terminal state to another.
NoRegress == [][\A o \in Orders : B!Precedes(told[o], told'[o])]_vars

\* A client learns how its order ended, unless the socket drops what it is
\* told or a command ends the process; and unless the clients send, for ever,
\* commands that make the control handler throw in turns in which poll has
\* seen a notice: such a turn is abandoned before the notice is read.
Abandon == updReady /\ pc \in {"control", "cancel"} /\ pc' = "poll"
TerminalTold ==
  \/ []<><<Abandon>>_vars
  \/ \A o \in Orders :
       ostate[o] \in B!Terminal ~> (told[o] = ostate[o] \/ o \in lost \/ ~Alive)

=============================================================================
