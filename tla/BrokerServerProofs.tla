------------------------- MODULE BrokerServerProofs -------------------------
(***************************************************************************)
(* What BrokerServer guarantees for any number of clients, brokers, orders *)
(* and messages.  The invariants of the runs are not inductive: they speak *)
(* of the history of what was sent and of the queue, and a step keeps them *)
(* because of what the two maps, the brokers' books and the queue have to  *)
(* do with each other.  IInv says what that is.                            *)
(***************************************************************************)
EXTENDS BrokerServer, TLAPS

\* The handler is about to look at the cancel part of a message that has one.
CancelPending == pc = "cancel" => Msg.cmd.cancel # None

\* The ids handed out, the orders made, the brokers' books and m_orderPeers
\* are the same set of orders.
Registered ==
  \A o \in Orders :
    /\ request[o] # None <=> o < nextId
    /\ ostate[o] # "none" <=> request[o] # None
    /\ orderPeers[o] = IF request[o] = None THEN None ELSE request[o].peer

\* Only orders in a broker's books are owed a callback or have a notice queued.
NoticesKnown ==
  /\ \A o \in owed : ostate[o] # "none"
  /\ \A i \in DOMAIN notices : ostate[notices[i]] # "none"

\* The id of an order leads to it, or to a later order of the same client under
\* the same id.
LatestReached ==
  \A o \in Orders : request[o] # None =>
    LET t == clientToLocal[<<request[o].peer, request[o].id>>]
    IN /\ t # None /\ t >= o
       /\ request[t] # None
       /\ request[t].peer = request[o].peer /\ request[t].id = request[o].id

\* An entry of m_clientIdToLocalId leads to an order of that client under that
\* id, and the latest there is.
IdsLead ==
  /\ \A p \in Peers, c \in ClientIds :
       LET t == clientToLocal[<<p, c>>]
       IN t # None => /\ request[t] # None
                      /\ request[t].peer = p /\ request[t].id = c
  /\ LatestReached

\* What a client was told of an order is its state or an earlier one.
NothingAhead == \A o \in Orders : B!Precedes(told[o], ostate[o])

\* The types, with what the cancel step needs; the maps and the queue, which
\* stay the same set of orders because an order enters all of them in
\* HandleOrder and none of them ever lets go; what was sent; what was told.
TypeInv == TypeOK /\ CancelPending
RegInv == Registered /\ NoticesKnown /\ IdsLead
SentInv == Routing /\ KillsOwn
ToldInv == NothingAhead /\ UpToDate

IInv == TypeInv /\ RegInv /\ SentInv /\ ToldInv

----------------------------------------------------------------------------
(* Types. *)

\* The message being handled is a peer's, and its command one of the clients'.
LEMMA MsgType ==
  ASSUME TypeOK, inbox # <<>>
  PROVE  /\ Msg.peer \in Peers
         /\ Msg.cmd.order \in OrderParts \cup {None}
         /\ Msg.cmd.cancel \in CancelParts \cup {None}
         /\ Tail(inbox) \in Seq(Messages)
<1>1. inbox \in Seq(Messages)
  BY DEF TypeOK
<1>2. Head(inbox) \in Messages /\ Tail(inbox) \in Seq(Messages)
  BY <1>1
<1>3. Head(inbox).cmd \in Commands /\ Head(inbox).peer \in Peers
  BY <1>2 DEF Messages
<1>4. Head(inbox).cmd \in [order : OrderParts \cup {None}, cancel : CancelParts \cup {None}]
  BY <1>3, BrokerServerAssumption
<1>. QED
  BY <1>2, <1>3, <1>4 DEF Msg

\* The order a cancellation is passed on for is one of Orders, and the account
\* named has a broker.
LEMMA CancelTargetType ==
  TypeOK => \A p \in Peers, part \in CancelParts :
    LET o == CancelTarget(p, part)
    IN o # None => /\ o = clientToLocal[<<p, part.id>>]
                   /\ o \in Orders
                   /\ BrokerOf[part.account] \in Brokers
                   /\ request[o].broker = BrokerOf[part.account]
                   /\ part.id \in ClientIds
<1>. SUFFICES ASSUME TypeOK, NEW p \in Peers, NEW part \in CancelParts,
                     CancelTarget(p, part) # None
              PROVE  /\ CancelTarget(p, part) = clientToLocal[<<p, part.id>>]
                     /\ CancelTarget(p, part) \in Orders
                     /\ BrokerOf[part.account] \in Brokers
                     /\ request[CancelTarget(p, part)].broker = BrokerOf[part.account]
                     /\ part.id \in ClientIds
  OBVIOUS
<1>1. part.id \in ClientIds /\ part.account \in Accounts
  BY DEF CancelParts
<1>2. clientToLocal[<<p, part.id>>] \in Orders \cup {None}
  BY <1>1 DEF TypeOK
<1>3. BrokerOf[part.account] \in Brokers \cup {None}
  BY <1>1, BrokerServerAssumption
<1>. QED
  BY <1>1, <1>2, <1>3 DEF CancelTarget

LEMMA TypeInit == Init => TypeInv
<1>. SUFFICES ASSUME Init PROVE TypeInv
  OBVIOUS
<1>1. 0 \in 0 .. MaxOrders
  BY BrokerServerAssumption
<1>2. /\ ostate \in [Orders -> B!States] /\ told \in [Orders -> B!States]
      /\ owed \in SUBSET Orders
  BY DEF Init, B!ContractInit, B!States, B!Terminal
<1>3. notices \in Seq(Orders) /\ inbox \in Seq(Messages)
  BY DEF Init, B!ContractInit
<1>4. /\ request \in [Orders -> Requests \cup {None}]
      /\ orderPeers \in [Orders -> Peers \cup {None}]
      /\ clientToLocal \in [Peers \X ClientIds -> Orders \cup {None}]
  BY DEF Init
<1>5. sent \in SUBSET (Peers \X Orders)
      /\ lost \in SUBSET Orders
      /\ kills \in SUBSET (Peers \X ClientIds \X Brokers \X Orders)
  BY DEF Init
<1>. QED
  BY <1>1, <1>2, <1>3, <1>4, <1>5 DEF Init, TypeInv, TypeOK, CancelPending

\* The states have their types after a broker's move, and so has the queue
\* after a callback has pushed to it and after the server has read it.
LEMMA BrokerTypes ==
  ASSUME TypeOK
  PROVE  /\ \A o \in Orders : B!Submit(o) =>
              ostate' \in [Orders -> B!States] /\ UNCHANGED <<owed, notices>>
         /\ \A o \in Orders, s \in B!States : B!Move(o, s) =>
              /\ ostate' \in [Orders -> B!States]
              /\ owed' \in SUBSET Orders
              /\ UNCHANGED notices
         /\ \A o \in Orders : B!Repeat(o) =>
              owed' \in SUBSET Orders /\ UNCHANGED <<ostate, notices>>
         /\ \A o \in Orders : B!Notify(o) =>
              /\ owed' \in SUBSET Orders
              /\ notices' \in Seq(Orders) /\ notices' # <<>>
              /\ UNCHANGED ostate
         /\ B!Consume => notices' \in Seq(Orders) /\ UNCHANGED <<ostate, owed>>
<1>1. /\ ostate \in [Orders -> B!States]
      /\ owed \in SUBSET Orders
      /\ notices \in Seq(Orders)
  BY DEF TypeOK
<1>2. "Unsubmitted" \in B!States
  BY DEF B!States
<1>. QED
  BY <1>1, <1>2 DEF B!Submit, B!Move, B!Repeat, B!Notify, B!Consume

\* Wherever a handler leaves the thread, the state socket is next only if poll
\* saw it readable.
LEMMA TurnFlags ==
  ASSUME TypeOK, Proceed \/ EndTurn
  PROVE  /\ pc' \in {"poll", "update"}
         /\ pc' = "update" => updReady
         /\ updReady' \in BOOLEAN
         /\ updReady' => updReady
<1>1. updReady \in BOOLEAN
  BY DEF TypeOK
<1>2. CASE Proceed
  BY <1>1, <1>2, Zenon DEF Proceed
<1>3. CASE EndTurn
  BY <1>3, Zenon DEF EndTurn
<1>. QED
  BY <1>2, <1>3

LEMMA TypeStep == TypeInv /\ [Next]_vars => TypeInv'
<1>. SUFFICES ASSUME TypeInv, [Next]_vars PROVE TypeInv'
  OBVIOUS
<1>. USE DEF TypeInv
<1>1. ASSUME NEW p \in Peers, NEW c \in Commands, ClientSend(p, c)
      PROVE  TypeInv'
  <2>1. [peer |-> p, cmd |-> c] \in Messages
    BY DEF Messages
  <2>2. inbox' \in Seq(Messages) /\ inbox' # <<>>
    BY <1>1, <2>1 DEF ClientSend, TypeOK
  <2>3. sends' \in 0 .. MaxOrders
    BY <1>1, BrokerServerAssumption DEF ClientSend, TypeOK
  <2>4. pc = "cancel" => Head(inbox') = Head(inbox)
    BY <1>1, <2>1 DEF ClientSend, TypeOK
  <2>. QED
    BY <1>1, <2>2, <2>3, <2>4
    DEF ClientSend, TypeOK, CancelPending, Msg, brokerVars, mapVars, historyVars
<1>2. CASE Terminate
  BY <1>2 DEF Terminate, TypeOK, CancelPending, brokerVars, clientVars, mapVars, historyVars
<1>3. CASE Poll
  BY <1>3 DEF Poll, TypeOK, CancelPending, Msg, brokerVars, clientVars, mapVars, historyVars
<1>4. CASE HandleNothing
  <2>1. inbox # <<>> /\ Tail(inbox) \in Seq(Messages)
    BY <1>4, MsgType DEF HandleNothing, TypeOK
  <2>2. /\ pc' \in {"poll", "update"}
        /\ pc' = "update" => updReady
        /\ updReady' \in BOOLEAN /\ (updReady' => updReady)
    BY <1>4, TurnFlags, Zenon DEF HandleNothing
  <2>. QED
    BY <1>4, <2>1, <2>2
    DEF HandleNothing, TypeOK, CancelPending, brokerVars, mapVars, historyVars
<1>5. CASE RefuseOrder
  <2>1. inbox # <<>> /\ Tail(inbox) \in Seq(Messages)
    BY <1>5, MsgType DEF RefuseOrder, TypeOK
  <2>. QED
    BY <1>5, <2>1
    DEF RefuseOrder, EndTurn, TypeOK, CancelPending, brokerVars, mapVars, historyVars
<1>6. CASE HandleOrder
  <2>1. /\ inbox # <<>> /\ Tail(inbox) \in Seq(Messages)
        /\ Msg.peer \in Peers /\ Msg.cmd.order \in OrderParts
    BY <1>6, MsgType DEF HandleOrder, TypeOK
  <2>2. /\ Msg.cmd.order.id \in ClientIds
        /\ BrokerOf[Msg.cmd.order.account] \in Brokers
    BY <1>6, <2>1, BrokerServerAssumption DEF HandleOrder, OrderAccepted, OrderParts
  <2>3. nextId \in Orders /\ nextId' \in 0 .. MaxOrders
    BY <1>6, BrokerServerAssumption DEF HandleOrder, Orders, TypeOK
  <2>4. request' \in [Orders -> Requests \cup {None}]
    BY <1>6, <2>1, <2>2, <2>3 DEF HandleOrder, TypeOK, Requests
  <2>5. orderPeers' \in [Orders -> Peers \cup {None}]
    BY <1>6, <2>1, <2>3 DEF HandleOrder, LearnPeer, TypeOK
  <2>6. clientToLocal' \in [Peers \X ClientIds -> Orders \cup {None}]
    BY <1>6, <2>1, <2>2, <2>3 DEF HandleOrder, LearnClientId, TypeOK
  <2>7. ostate' \in [Orders -> B!States] /\ UNCHANGED <<owed, notices>>
    BY <1>6, <2>3, BrokerTypes DEF HandleOrder
  <2>8. inbox' = inbox \/ inbox' = Tail(inbox)
    BY <1>6 DEF HandleOrder
  <2>9. /\ pc' \in {"poll", "update", "cancel"}
        /\ pc' = "update" => updReady
        /\ pc' = "cancel" => UNCHANGED inbox /\ Msg.cmd.cancel # None
        /\ updReady' \in BOOLEAN /\ (updReady' => updReady)
    <3>1. CASE pc' = "cancel" /\ Msg.cmd.cancel # None /\ UNCHANGED <<inbox, updReady>>
      BY <3>1, Zenon DEF TypeOK
    <3>2. CASE Proceed \/ EndTurn
      BY <3>2, TurnFlags, Zenon
    <3>. QED
      BY <1>6, <3>1, <3>2, Zenon DEF HandleOrder
  <2>. QED
    BY <1>6, <2>1, <2>3, <2>4, <2>5, <2>6, <2>7, <2>8, <2>9
    DEF HandleOrder, TypeOK, CancelPending, Msg, historyVars
<1>7. CASE SkipOrder
  BY <1>7 DEF SkipOrder, TypeOK, CancelPending, Msg, brokerVars, clientVars, mapVars, historyVars
<1>8. CASE HandleCancel
  <2>1. /\ inbox # <<>> /\ Tail(inbox) \in Seq(Messages)
        /\ Msg.peer \in Peers /\ Msg.cmd.cancel \in CancelParts
    BY <1>8, MsgType DEF HandleCancel, TypeOK, CancelPending
  <2>2. CancelTarget(Msg.peer, Msg.cmd.cancel) # None =>
          <<Msg.peer, Msg.cmd.cancel.id, BrokerOf[Msg.cmd.cancel.account],
            CancelTarget(Msg.peer, Msg.cmd.cancel)>>
              \in Peers \X ClientIds \X Brokers \X Orders
    BY <2>1, CancelTargetType
  <2>4. kills' \in SUBSET (Peers \X ClientIds \X Brokers \X Orders)
    BY <1>8, <2>2 DEF HandleCancel, TypeOK
  <2>3. /\ pc' \in {"poll", "update"}
        /\ pc' = "update" => updReady
        /\ updReady' \in BOOLEAN /\ (updReady' => updReady)
    BY <1>8, TurnFlags, Zenon DEF HandleCancel
  <2>. QED
    BY <1>8, <2>1, <2>4, <2>3
    DEF HandleCancel, TypeOK, CancelPending, brokerVars, mapVars
<1>9. CASE HandleUpdate
  <2>1. notices' \in Seq(Orders) /\ UNCHANGED <<ostate, owed>>
    BY <1>9, BrokerTypes DEF HandleUpdate
  <2>2. Head(notices) \in Orders
    BY <1>9 DEF HandleUpdate, TypeOK
  <2>3. CanTell(Head(notices)) => orderPeers[Head(notices)] \in Peers
    BY <2>2 DEF CanTell, TypeOK
  <2>4. /\ told' \in [Orders -> B!States] /\ sent' \in SUBSET (Peers \X Orders)
        /\ lost' \in SUBSET Orders
    BY <1>9, <2>2, <2>3 DEF HandleUpdate, StateToTell, TypeOK
  <2>. QED
    BY <1>9, <2>1, <2>4
    DEF HandleUpdate, EndTurn, TypeOK, CancelPending, clientVars, mapVars
<1>10. CASE BrokerMove
  <2>1. ostate' \in [Orders -> B!States] /\ owed' \in SUBSET Orders /\ UNCHANGED notices
    BY <1>10, BrokerTypes DEF BrokerMove
  <2>. QED
    BY <1>10, <2>1 DEF BrokerMove, BrokerUnchanged, TypeOK, CancelPending, Msg,
      clientVars, mapVars, historyVars
<1>11. CASE BrokerRepeat
  <2>1. owed' \in SUBSET Orders /\ UNCHANGED <<ostate, notices>>
    BY <1>11, BrokerTypes DEF BrokerRepeat
  <2>. QED
    BY <1>11, <2>1 DEF BrokerRepeat, BrokerUnchanged, TypeOK, CancelPending, Msg,
      clientVars, mapVars, historyVars
<1>12. ASSUME NEW o \in Orders, BrokerNotify(o)
       PROVE  TypeInv'
  <2>1. /\ owed' \in SUBSET Orders /\ UNCHANGED ostate
        /\ notices' \in Seq(Orders) /\ notices' # <<>>
    BY <1>12, BrokerTypes DEF BrokerNotify
  <2>. QED
    BY <1>12, <2>1 DEF BrokerNotify, BrokerUnchanged, TypeOK, CancelPending, Msg,
      clientVars, mapVars, historyVars
<1>13. CASE UNCHANGED vars \/ Gone
  BY <1>13 DEF Gone, vars, brokerVars, clientVars, mapVars, historyVars, TypeOK, CancelPending, Msg
<1>. QED
  BY <1>1, <1>2, <1>3, <1>4, <1>5, <1>6, <1>7, <1>8, <1>9, <1>10, <1>11, <1>12, <1>13
  DEF Next, ServerStep

\* The variables keep their types, and the server thread is never in a handler
\* with nothing to handle.
THEOREM TypeCorrect == Spec => []TypeOK
<1>. QED
  BY TypeInit, TypeStep, PTL DEF Spec, TypeInv

----------------------------------------------------------------------------
(* Steps.  Most of them move messages or the server's program counter and   *)
(* leave everything the other conjuncts of IInv speak of alone.             *)

Quiet == UNCHANGED <<brokerVars, mapVars, historyVars>>

LEMMA StepKinds ==
  ASSUME [Next]_vars
  PROVE  \/ Quiet
         \/ HandleOrder
         \/ HandleCancel
         \/ HandleUpdate
         \/ BrokerMove \/ BrokerRepeat \/ \E o \in Orders : BrokerNotify(o)
<1>1. ASSUME NEW p \in Peers, NEW c \in Commands, ClientSend(p, c)
      PROVE  Quiet
  BY <1>1 DEF ClientSend, Quiet
<1>2. ASSUME Poll \/ HandleNothing \/ RefuseOrder \/ SkipOrder \/ Terminate
      PROVE  Quiet
  BY <1>2 DEF Terminate, Poll, HandleNothing, RefuseOrder, SkipOrder, Quiet, clientVars
<1>3. ASSUME UNCHANGED vars \/ Gone
      PROVE  Quiet
  BY <1>3 DEF Gone, vars, Quiet, clientVars
<1>. QED
  BY <1>1, <1>2, <1>3 DEF Next, ServerStep

LEMMA RegStep == TypeInv /\ RegInv /\ [Next]_vars => RegInv'
<1>. SUFFICES ASSUME TypeInv, RegInv, [Next]_vars PROVE RegInv'
  OBVIOUS
<1>. USE DEF TypeInv, RegInv
<1>1. CASE Quiet
  BY <1>1 DEF Quiet, Registered, NoticesKnown, IdsLead, LatestReached,
    brokerVars, mapVars
<1>2. CASE HandleCancel
  BY <1>2 DEF HandleCancel, Registered, NoticesKnown, IdsLead, LatestReached,
    brokerVars, mapVars
<1>3. CASE HandleOrder
  <2>1. /\ inbox # <<>>
        /\ Msg.peer \in Peers /\ Msg.cmd.order \in OrderParts
    BY <1>3, MsgType DEF HandleOrder, TypeOK
  <2> DEFINE p == Msg.peer
             c == Msg.cmd.order.id
             r == [peer |-> p, id |-> c, broker |-> BrokerOf[Msg.cmd.order.account]]
  <2>2. c \in ClientIds /\ r \in Requests
    BY <1>3, <2>1, BrokerServerAssumption DEF HandleOrder, OrderAccepted, OrderParts, Requests
  <2>3. nextId \in Orders /\ nextId' = nextId + 1 /\ nextId \in Nat
    BY <1>3 DEF HandleOrder, Orders, TypeOK
  <2>4. /\ request' = [request EXCEPT ![nextId] = r]
        /\ orderPeers' = [orderPeers EXCEPT ![nextId] = p]
        /\ clientToLocal' = [clientToLocal EXCEPT ![<<p, c>>] = nextId]
    BY <1>3 DEF HandleOrder, LearnPeer, LearnClientId
  <2>5. /\ ostate' = [ostate EXCEPT ![nextId] = "Unsubmitted"]
        /\ UNCHANGED <<owed, notices>>
    BY <1>3 DEF HandleOrder, B!Submit
  <2>6. r # None /\ r.peer = p /\ r.id = c
    BY <2>2, BrokerServerAssumption
  <2>7. Registered'
    BY <2>1, <2>2, <2>3, <2>4, <2>5, <2>6 DEF Registered, TypeOK, Orders
  <2>8. NoticesKnown'
    BY <2>3, <2>5 DEF NoticesKnown, TypeOK
  <2>9. request[nextId] = None
    BY <2>3 DEF Registered
  <2>10. \A k \in Peers \X ClientIds : clientToLocal'[k] =
           IF k = <<p, c>> THEN nextId ELSE clientToLocal[k]
    BY <2>1, <2>2, <2>4 DEF TypeOK
  <2>11. \A o \in Orders : request'[o] = IF o = nextId THEN r ELSE request[o]
    BY <2>3, <2>4 DEF TypeOK
  <2>12. IdsLead'
    <3>1. ASSUME NEW q \in Peers, NEW d \in ClientIds, clientToLocal'[<<q, d>>] # None
          PROVE  LET t == clientToLocal'[<<q, d>>]
                 IN request'[t] # None /\ request'[t].peer = q /\ request'[t].id = d
      <4>1. CASE <<q, d>> = <<p, c>>
        BY <2>3, <2>6, <2>10, <2>11, <4>1
      <4>2. CASE <<q, d>> # <<p, c>>
        <5>1. clientToLocal'[<<q, d>>] = clientToLocal[<<q, d>>]
          BY <2>10, <4>2
        <5>2. clientToLocal[<<q, d>>] \in Orders
          BY <3>1, <5>1 DEF TypeOK
        <5>. QED
          BY <3>1, <5>1, <5>2, <2>9, <2>11 DEF IdsLead
      <4>. QED
        BY <4>1, <4>2
    <3>2. ASSUME NEW o \in Orders, request'[o] # None
          PROVE  LET t == clientToLocal'[<<request'[o].peer, request'[o].id>>]
                 IN /\ t # None /\ t >= o
                    /\ request'[t] # None
                    /\ request'[t].peer = request'[o].peer /\ request'[t].id = request'[o].id
      <4>1. CASE request'[o].peer = p /\ request'[o].id = c
        <5>1. clientToLocal'[<<p, c>>] = nextId /\ request'[nextId] = r
          BY <2>1, <2>2, <2>3, <2>10, <2>11
        <5>2. nextId >= o
          BY <3>2, <2>3, <2>11 DEF Registered, Orders
        <5>3. nextId # None
          BY <2>3, BrokerServerAssumption
        <5>. QED
          BY <4>1, <5>1, <5>2, <5>3, <2>6
      <4>2. CASE ~(request'[o].peer = p /\ request'[o].id = c)
        <5>1. request'[o] = request[o] /\ request[o] \in Requests
          BY <3>2, <4>2, <2>6, <2>11 DEF TypeOK
        <5>2. request[o].peer \in Peers /\ request[o].id \in ClientIds
          BY <5>1 DEF Requests
        <5> DEFINE t == clientToLocal[<<request[o].peer, request[o].id>>]
        <5>3. clientToLocal'[<<request[o].peer, request[o].id>>] = t
          BY <4>2, <5>1, <5>2, <2>10
        <5>4. /\ t # None /\ t >= o /\ request[t] # None
              /\ request[t].peer = request[o].peer /\ request[t].id = request[o].id
          BY <3>2, <5>1 DEF IdsLead, LatestReached
        <5>5. t \in Orders
          BY <5>2, <5>4 DEF TypeOK
        <5>6. request'[t] = request[t]
          BY <5>4, <5>5, <2>9, <2>11
        <5>. QED
          BY <5>1, <5>3, <5>4, <5>6
      <4>. QED
        BY <4>1, <4>2
    <3>. QED
      BY <3>1, <3>2 DEF IdsLead, LatestReached
  <2>. QED
    BY <2>7, <2>8, <2>12
<1>4. CASE HandleUpdate
  <2>1. \A i \in DOMAIN notices' : \E j \in DOMAIN notices : notices'[i] = notices[j]
    BY <1>4 DEF HandleUpdate, B!Consume, TypeOK
  <2>2. UNCHANGED <<ostate, owed, mapVars>>
    BY <1>4 DEF HandleUpdate, B!Consume
  <2>. QED
    BY <2>1, <2>2 DEF Registered, NoticesKnown, IdsLead, LatestReached, mapVars
<1>5. CASE BrokerMove
  <2>1. UNCHANGED mapVars
    BY <1>5 DEF BrokerMove, BrokerUnchanged
  <2>2. PICK o \in Orders, s \in B!States : B!Move(o, s)
    BY <1>5 DEF BrokerMove
  <2>3. ostate[o] # "none" /\ s # "none"
    BY <2>2 DEF B!Move, B!CanMove
  <2>4. \A q \in Orders : ostate'[q] = "none" <=> ostate[q] = "none"
    BY <2>2, <2>3 DEF B!Move, TypeOK
  <2>5. UNCHANGED notices /\ owed' = owed \cup {o}
    BY <2>2 DEF B!Move
  <2>6. NoticesKnown'
    BY <2>3, <2>4, <2>5 DEF NoticesKnown, TypeOK
  <2>. QED
    BY <2>1, <2>4, <2>6 DEF Registered, IdsLead, LatestReached, mapVars
<1>6. CASE BrokerRepeat
  <2>1. PICK o \in Orders : B!Repeat(o)
    BY <1>6 DEF BrokerRepeat
  <2>2. UNCHANGED <<ostate, notices, mapVars>> /\ owed' = owed \cup {o}
    BY <1>6, <2>1 DEF BrokerRepeat, BrokerUnchanged, B!Repeat
  <2>3. ostate[o] # "none"
    BY <2>1 DEF B!Repeat
  <2>. QED
    BY <2>2, <2>3 DEF Registered, NoticesKnown, IdsLead, LatestReached, mapVars
<1>7. ASSUME NEW o \in Orders, BrokerNotify(o)
      PROVE  RegInv'
  <2>1. /\ UNCHANGED <<ostate, mapVars>> /\ o \in owed
        /\ owed' \subseteq owed /\ notices' = Append(notices, o)
    BY <1>7 DEF BrokerNotify, BrokerUnchanged, B!Notify
  <2>2. \A i \in DOMAIN notices' :
          notices'[i] = o \/ \E j \in DOMAIN notices : notices'[i] = notices[j]
    BY <2>1 DEF TypeOK
  <2>. QED
    BY <2>1, <2>2 DEF Registered, NoticesKnown, IdsLead, LatestReached, mapVars
<1>. QED
  BY <1>1, <1>2, <1>3, <1>4, <1>5, <1>6, <1>7, StepKinds

----------------------------------------------------------------------------
(* What was sent, and to whom. *)

\* The brokers' own steps leave the server's state alone.
LEMMA BrokerFrame ==
  BrokerMove \/ BrokerRepeat \/ (\E o \in Orders : BrokerNotify(o))
    => UNCHANGED <<clientVars, mapVars, historyVars>>
BY DEF BrokerMove, BrokerRepeat, BrokerNotify, BrokerUnchanged

\* Requests are made once: an entry that is there stays what it is.
LEMMA RequestStays ==
  ASSUME TypeInv, RegInv, [Next]_vars
  PROVE  \A o \in Orders : request[o] # None => request'[o] = request[o]
<1>1. CASE HandleOrder
  <2>1. request[nextId] = None
    BY <1>1 DEF HandleOrder, RegInv, Registered, Orders, TypeInv, TypeOK
  <2>. QED
    BY <1>1, <2>1 DEF HandleOrder, TypeInv, TypeOK
<1>2. CASE ~HandleOrder
  <2>1. UNCHANGED mapVars
    BY <1>2, StepKinds, BrokerFrame DEF Quiet, HandleCancel, HandleUpdate
  <2>. QED
    BY <2>1 DEF mapVars
<1>. QED
  BY <1>1, <1>2

LEMMA SentStep == TypeInv /\ RegInv /\ SentInv /\ [Next]_vars => SentInv'
<1>. SUFFICES ASSUME TypeInv, RegInv, SentInv, [Next]_vars PROVE SentInv'
  OBVIOUS
<1>1. \A m \in sent : m[2] \in Orders /\ request'[m[2]] = request[m[2]]
  BY RequestStays DEF SentInv, Routing, TypeInv, TypeOK
<1>2. \A k \in kills : request'[k[4]] = request[k[4]]
  <2>1. SUFFICES ASSUME NEW k \in kills PROVE request'[k[4]] = request[k[4]]
    OBVIOUS
  <2>2. k \in Peers \X ClientIds \X Brokers \X Orders
    BY DEF TypeInv, TypeOK
  <2>3. request[k[4]] = [peer |-> k[1], id |-> k[2], broker |-> k[3]]
    BY DEF SentInv, KillsOwn
  <2>4. request[k[4]] \in Requests
    BY <2>2, <2>3 DEF Requests
  <2>. QED
    BY <2>2, <2>4, RequestStays, BrokerServerAssumption
<1>3. CASE UNCHANGED <<sent, kills>>
  BY <1>1, <1>2, <1>3 DEF SentInv, Routing, KillsOwn
<1>4. CASE HandleCancel
  <2>1. /\ Msg.peer \in Peers /\ Msg.cmd.cancel \in CancelParts
        /\ UNCHANGED sent
    BY <1>4, MsgType DEF HandleCancel, TypeInv, TypeOK, CancelPending
  <2> DEFINE p == Msg.peer
             part == Msg.cmd.cancel
             o == CancelTarget(p, part)
             k == <<p, part.id, BrokerOf[part.account], o>>
  <2>2. CASE o = None
    BY <1>4, <2>2, <1>1, <1>2, <2>1 DEF HandleCancel, SentInv, Routing, KillsOwn
  <2>3. CASE o # None
    <3>1. /\ o = clientToLocal[<<p, part.id>>] /\ o \in Orders /\ part.id \in ClientIds
          /\ request[o].broker = BrokerOf[part.account]
      BY <2>1, <2>3, CancelTargetType DEF TypeInv
    <3>2. request[o] # None /\ request[o].peer = p /\ request[o].id = part.id
      BY <2>1, <2>3, <3>1 DEF RegInv, IdsLead
    <3>3. request[o] = [peer |-> p, id |-> part.id, broker |-> BrokerOf[part.account]]
      BY <3>1, <3>2 DEF TypeInv, TypeOK, Requests
    <3>4. request'[o] = request[o]
      BY <3>1, <3>2, RequestStays
    <3>5. kills' = kills \cup {k}
      BY <1>4, <2>3 DEF HandleCancel
    <3>. QED
      BY <1>1, <1>2, <2>1, <3>3, <3>4, <3>5 DEF SentInv, Routing, KillsOwn
  <2>. QED
    BY <2>2, <2>3
<1>5. CASE HandleUpdate
  <2>1. Head(notices) \in Orders /\ UNCHANGED <<mapVars, kills>>
    BY <1>5 DEF HandleUpdate, TypeInv, TypeOK
  <2>2. CanTell(Head(notices)) =>
          /\ request[Head(notices)] # None
          /\ request[Head(notices)].peer = orderPeers[Head(notices)]
    BY <2>1 DEF CanTell, RegInv, Registered
  <2>3. KillsOwn'
    BY <1>2, <2>1 DEF SentInv, KillsOwn
  <2>4. CASE UNCHANGED sent
    BY <1>1, <2>3, <2>4 DEF SentInv, Routing
  <2>5. CASE /\ CanTell(Head(notices))
             /\ sent' = sent \cup {<<orderPeers[Head(notices)], Head(notices)>>}
    BY <1>1, <2>1, <2>2, <2>3, <2>5 DEF SentInv, Routing, mapVars
  <2>. QED
    BY <1>5, <2>4, <2>5 DEF HandleUpdate
<1>. QED
  BY <1>3, <1>4, <1>5, StepKinds, BrokerFrame DEF Quiet, HandleOrder, historyVars

----------------------------------------------------------------------------
(* What was told, and what is on its way. *)

LEMMA RankType == \A s : B!Rank(s) \in 0 .. 3
BY DEF B!Rank

LEMMA MovesForward ==
  \A r, s, t : B!Precedes(r, s) /\ B!CanMove(s, t) => B!Precedes(r, t)
<1>1. \A s, t : B!CanMove(s, t) => B!Rank(s) < B!Rank(t)
  BY DEF B!CanMove, B!Rank
<1>. QED
  BY <1>1, RankType DEF B!Precedes

LEMMA ToldStep == TypeInv /\ RegInv /\ ToldInv /\ [Next]_vars => ToldInv'
<1>. SUFFICES ASSUME TypeInv, RegInv, ToldInv, [Next]_vars PROVE ToldInv'
  OBVIOUS
<1>1. CASE Quiet
  BY <1>1 DEF Quiet, ToldInv, NothingAhead, UpToDate, Upcoming, brokerVars, mapVars, historyVars
<1>2. CASE HandleCancel
  BY <1>2 DEF HandleCancel, ToldInv, NothingAhead, UpToDate, Upcoming, brokerVars, mapVars
<1>3. CASE HandleOrder
  <2>1. /\ nextId \in Orders /\ ostate[nextId] = "none"
        /\ ostate' = [ostate EXCEPT ![nextId] = "Unsubmitted"]
        /\ orderPeers' = [orderPeers EXCEPT ![nextId] = Msg.peer]
        /\ UNCHANGED <<owed, notices, told, lost>>
    BY <1>3 DEF HandleOrder, B!Submit, LearnPeer, historyVars
  <2>2. B!Precedes(told[nextId], "Unsubmitted")
    BY <2>1 DEF ToldInv, NothingAhead, B!Precedes, B!Rank
  <2>3. NothingAhead'
    BY <2>1, <2>2 DEF ToldInv, NothingAhead, TypeInv, TypeOK
  <2>4. UpToDate'
    BY <2>1 DEF ToldInv, UpToDate, Upcoming, TypeInv, TypeOK
  <2>. QED
    BY <2>3, <2>4 DEF ToldInv
<1>4. CASE HandleUpdate
  <2> DEFINE n == Head(notices)
  <2>1. /\ n \in Orders /\ notices # <<>> /\ notices \in Seq(Orders)
        /\ notices' = Tail(notices)
        /\ UNCHANGED <<ostate, owed>>
    BY <1>4 DEF HandleUpdate, B!Consume, TypeInv, TypeOK
  <2>2. CanTell(n)
    <3>1. 1 \in DOMAIN notices /\ notices[1] = n
      BY <2>1
    <3>. QED
      BY <2>1, <3>1, BrokerServerAssumption DEF CanTell, RegInv, Registered, NoticesKnown, TypeInv, TypeOK, Requests
  <2>3. \/ told' = [told EXCEPT ![n] = ostate[n]] /\ lost' = lost \ {n}
        \/ told' = told /\ lost' = lost \cup {n}
    BY <1>4, <2>2 DEF HandleUpdate, StateToTell
  <2>4. NothingAhead'
    BY <2>1, <2>3 DEF ToldInv, NothingAhead, B!Precedes, TypeInv, TypeOK
  <2>5. ASSUME NEW o \in Orders, o # n, NEW i \in DOMAIN notices, notices[i] = o
        PROVE  \E j \in DOMAIN notices' : notices'[j] = o
    <3>1. i - 1 \in DOMAIN notices' /\ notices'[i - 1] = notices[i]
      BY <2>1, <2>5
    <3>. QED
      BY <3>1, <2>5
  <2>6. ASSUME NEW o \in Orders, o # n, Upcoming(o)
        PROVE  Upcoming(o)'
    BY <2>1, <2>5, <2>6 DEF Upcoming
  <2>7. UpToDate'
    <3>1. SUFFICES ASSUME NEW o \in Orders, ostate[o] \notin {"none", "Unsubmitted"}
                   PROVE  told'[o] = ostate[o] \/ Upcoming(o)' \/ o \in lost'
      BY <2>1 DEF UpToDate
    <3>2. CASE o = n
      BY <2>1, <2>3, <3>2 DEF TypeInv, TypeOK
    <3>3. CASE o # n
      BY <2>3, <2>6, <3>1, <3>3 DEF ToldInv, UpToDate, TypeInv, TypeOK
    <3>. QED
      BY <3>2, <3>3
  <2>. QED
    BY <2>4, <2>7 DEF ToldInv
<1>5. CASE BrokerMove
  <2>1. PICK o \in Orders, s \in B!States : B!Move(o, s)
    BY <1>5 DEF BrokerMove
  <2>2. /\ B!CanMove(ostate[o], s)
        /\ ostate' = [ostate EXCEPT ![o] = s]
        /\ owed' = owed \cup {o}
        /\ UNCHANGED <<notices, told, lost>>
    BY <1>5, <2>1, BrokerFrame DEF B!Move, clientVars, mapVars, historyVars
  <2>3. B!Precedes(told[o], s)
    BY <2>2, MovesForward DEF ToldInv, NothingAhead
  <2>4. NothingAhead'
    BY <2>2, <2>3 DEF ToldInv, NothingAhead, TypeInv, TypeOK
  <2>5. UpToDate'
    BY <2>2 DEF ToldInv, UpToDate, Upcoming, TypeInv, TypeOK
  <2>. QED
    BY <2>4, <2>5 DEF ToldInv
<1>6. CASE BrokerRepeat
  <2>1. PICK o \in Orders : B!Repeat(o)
    BY <1>6 DEF BrokerRepeat
  <2>2. /\ owed' = owed \cup {o}
        /\ UNCHANGED <<ostate, notices, told, lost>>
    BY <1>6, <2>1, BrokerFrame DEF B!Repeat, clientVars, mapVars, historyVars
  <2>. QED
    BY <2>2 DEF ToldInv, NothingAhead, UpToDate, Upcoming
<1>7. ASSUME NEW o \in Orders, BrokerNotify(o)
      PROVE  ToldInv'
  <2>1. /\ owed' = owed \ {o}
        /\ notices' = Append(notices, o)
        /\ UNCHANGED <<ostate, told, lost>>
    BY <1>7, BrokerFrame DEF BrokerNotify, B!Notify, clientVars, mapVars, historyVars
  <2>2. /\ \E j \in DOMAIN notices' : notices'[j] = o
        /\ \A i \in DOMAIN notices : i \in DOMAIN notices' /\ notices'[i] = notices[i]
    <3>1. notices \in Seq(Orders)
      BY DEF TypeInv, TypeOK
    <3>. QED
      BY <2>1, <3>1
  <2>3. \A q \in Orders : Upcoming(q) => Upcoming(q)'
    BY <2>1, <2>2 DEF Upcoming
  <2>. QED
    BY <2>1, <2>3 DEF ToldInv, NothingAhead, UpToDate
<1>. QED
  BY <1>1, <1>2, <1>3, <1>4, <1>5, <1>6, <1>7, StepKinds

----------------------------------------------------------------------------
(* The theorems. *)

LEMMA Inductive == Spec => []IInv
<1>1. Init => IInv
  <2>. SUFFICES ASSUME Init PROVE RegInv /\ SentInv /\ ToldInv
    BY TypeInit DEF IInv
  <2>1. Registered /\ NoticesKnown
    BY DEF Init, B!ContractInit, Registered, NoticesKnown, Orders
  <2>2. IdsLead
    BY DEF Init, IdsLead, LatestReached
  <2>3. SentInv
    BY DEF Init, SentInv, Routing, KillsOwn
  <2>4. ToldInv
    BY DEF Init, B!ContractInit, ToldInv, NothingAhead, UpToDate, B!Precedes
  <2>. QED
    BY <2>1, <2>2, <2>3, <2>4 DEF RegInv
<1>2. IInv /\ [Next]_vars => IInv'
  BY TypeStep, RegStep, SentStep, ToldStep DEF IInv
<1>. QED
  BY <1>1, <1>2, PTL DEF Spec

\* Every update sent went to the peer whose command made the order, whatever
\* was registered between the command and the update.
THEOREM RoutingHolds == Spec => []Routing
<1>. QED
  BY Inductive, PTL DEF IInv, SentInv

\* Every cancellation passed on was its sender's own, under the id and at the
\* broker it named.
THEOREM KillsOwnHolds == Spec => []KillsOwn
<1>. QED
  BY Inductive, PTL DEF IInv, SentInv

\* The handler's lookups lead from a cancel part to the latest order of its
\* sender under the id, whatever was ordered in between by whom.
THEOREM CancelFindsLatestHolds == Spec => []CancelFindsLatest
<1>1. IInv => CancelFindsLatest
  <2>. SUFFICES ASSUME IInv, NEW o \in Orders, NEW a \in Accounts,
                       request[o] # None, request[o].id # 0,
                       request[o].broker = BrokerOf[a],
                       \A q \in Orders : ~Later(o, q)
                PROVE  CancelTarget(request[o].peer,
                         [id |-> request[o].id, account |-> a, form |-> "good"]) = o
    BY DEF CancelFindsLatest
  <2>1. request[o] \in Requests
    BY DEF IInv, TypeInv, TypeOK
  <2>2. request[o].peer \in Peers /\ request[o].id \in ClientIds /\ BrokerOf[a] # None
    BY <2>1, BrokerServerAssumption DEF Requests
  <2> DEFINE t == clientToLocal[<<request[o].peer, request[o].id>>]
  <2>3. /\ t # None /\ t >= o /\ request[t] # None
        /\ request[t].peer = request[o].peer /\ request[t].id = request[o].id
    BY DEF IInv, RegInv, IdsLead, LatestReached
  <2>4. t \in Orders
    BY <2>2, <2>3 DEF IInv, TypeInv, TypeOK
  <2>5. ~(t > o)
    BY <2>3, <2>4 DEF Later
  <2>6. t = o
    BY <2>3, <2>4, <2>5 DEF Orders
  <2>7. ostate[o] # "none" /\ o # None
    BY BrokerServerAssumption DEF IInv, RegInv, Registered
  <2>. QED
    BY <2>2, <2>6, <2>7 DEF CancelTarget
<1>. QED
  BY <1>1, Inductive, PTL

\* What a client was told is up to date, or a callback or a notice is on its way.
THEOREM UpToDateHolds == Spec => []UpToDate
<1>. QED
  BY Inductive, PTL DEF IInv, ToldInv

\* handleSocketStateUpdate never throws its LogicErrors.
THEOREM NoOrphanNoticeHolds == Spec => []NoOrphanNotice
<1>1. IInv => NoOrphanNotice
  <2>. SUFFICES ASSUME IInv, NEW i \in DOMAIN notices PROVE CanTell(notices[i])
    BY DEF NoOrphanNotice
  <2>1. notices[i] \in Orders
    BY DEF IInv, TypeInv, TypeOK
  <2>. QED
    BY <2>1, BrokerServerAssumption
    DEF IInv, TypeInv, RegInv, TypeOK, CanTell, NoticesKnown, Registered, Requests
<1>. QED
  BY <1>1, Inductive, PTL

\* No update takes back what an earlier one said: it is made from the state the
\* order has when it is sent, and that has only moved forward since.
THEOREM NoRegressHolds == Spec => NoRegress
<1>1. IInv /\ [Next]_vars => [\A o \in Orders : B!Precedes(told[o], told'[o])]_vars
  <2>. SUFFICES ASSUME IInv, [Next]_vars, NEW o \in Orders
                PROVE  B!Precedes(told[o], told'[o])
    OBVIOUS
  <2>1. CASE HandleUpdate
    BY <2>1 DEF HandleUpdate, StateToTell, B!Precedes, IInv, TypeInv, TypeOK, ToldInv, NothingAhead
  <2>2. CASE ~HandleUpdate
    BY <2>2, StepKinds, BrokerFrame DEF Quiet, HandleOrder, HandleCancel, historyVars, B!Precedes
  <2>. QED
    BY <2>1, <2>2
<1>. QED
  BY <1>1, Inductive, PTL DEF Spec, NoRegress
=============================================================================
