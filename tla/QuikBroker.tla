----------------------------- MODULE QuikBroker -----------------------------
(***************************************************************************)
(* core/brokers/quikbroker/quikbroker.cpp: the broker that trades through  *)
(* the QUIK terminal.  An order travels from m_unsubmittedOrders, keyed by *)
(* transaction id, to m_pendingOrders, keyed by the number the exchange    *)
(* gives it, to m_retiredOrders.  submitOrder and cancelOrder run on the   *)
(* BrokerServer thread; the DLL calls transactionReplyCallback and         *)
(* orderStatusCallback on threads of its own.  Every one of them runs      *)
(* under m_mutex to its end, order callbacks included.                     *)
(*                                                                         *)
(* The constructor connects; the callbacks for replies and orders are only *)
(* set when the DLL reports the connection, on a thread of its own, and    *)
(* set again whenever it does; each may fail, and the exception goes into  *)
(* the DLL.  Nothing keeps the server from submitting orders before.       *)
(*                                                                         *)
(* The terminal and the exchange are outside src/.  They are modelled from *)
(* what the callbacks are ready for: a reply to each transaction, status   *)
(* reports of each order in their order, some of them more than once or    *)
(* with a mode other than 0, and a connection that may be lost and found   *)
(* again.  A callback that was set stays set; the DLL is taken to live on  *)
(* after an exception from one.                                            *)
(***************************************************************************)
EXTENDS Integers, Sequences

CONSTANTS
  MaxOrders,         \* bound: orders submitted
  MaxTids,           \* bound: transactions, orders and cancellations together
  MaxNotices,        \* bound: a report is repeated only if fewer notices wait
  MaxDrops,          \* bound: times the connection is lost
  None

Orders == 0 .. (MaxOrders - 1)
Tids == 0 .. (MaxTids - 1)
Numbers == 1 .. MaxOrders

ASSUME QuikBrokerAssumption ==
  /\ MaxOrders \in Nat /\ MaxTids \in Nat /\ MaxTids >= MaxOrders
  /\ MaxNotices \in Nat /\ MaxDrops \in Nat
  /\ None \notin Orders /\ None \notin Tids /\ None \notin Numbers

VARIABLES
  ostate,            \* Order::m_state, "none" before submitOrder
  unsubmitted,       \* m_unsubmittedOrders
  pending,           \* m_pendingOrders
  retired,           \* m_retiredOrders
  orderIdMap,        \* m_orderIdMap
  nextTid,           \* gs_id, the next transaction id
  nextOrder,         \* the next order the server submits
  calling,           \* the order whose callbacks run under m_mutex, or None
  notices,           \* the order-state queue behind the callback
  transactions,      \* external: transactions sent and not yet processed
  xstate,            \* external: per number, how the order stands
  xtid,              \* external: per number, the transaction that placed it
  replies,           \* external: replies the DLL has yet to deliver
  reports,           \* external: per number, status reports yet to be delivered
  link,              \* external: "new" until the first connection is reported
  listening,         \* external: the callbacks set: for replies, for orders
  drops,             \* connections lost (bound)
  tidOf,             \* history: the transaction of each order
  announced,         \* history: the orders whose callbacks have run
  kills,             \* history: <<order, number>> of each cancellation sent
  missed             \* history: the numbers whose order's reply was lost, or the
                     \* report of whose end was passed over

brokerVars == <<ostate, unsubmitted, pending, retired, orderIdMap>>
exchangeVars == <<xstate, xtid, reports>>
linkVars == <<link, listening, drops>>
historyVars == <<tidOf, announced, kills, missed>>
vars == <<brokerVars, nextTid, nextOrder, calling, notices, transactions, exchangeVars,
          replies, linkVars, historyVars>>

Callbacks == {"replies", "orders"}

Statuses == {"active", "partial", "filled", "cancelled"}
Transactions == [kind : {"new"}, tid : Tids]
                  \cup [kind : {"kill"}, tid : Tids, number : Numbers]
Reports == [status : Statuses, mode : {0, 1}]
Replies == [tid : Tids, ok : BOOLEAN, number : Numbers \cup {None}]

TypeOK ==
  /\ ostate \in [Orders -> {"none", "Unsubmitted", "Submitted", "Executed",
                            "Cancelled", "Rejected"}]
  /\ unsubmitted \in [Tids -> Orders \cup {None}]
  /\ pending \in [Numbers -> Orders \cup {None}]
  /\ retired \in SUBSET Orders
  /\ orderIdMap \in [Orders -> Numbers \cup {None}]
  /\ nextTid \in 0 .. MaxTids /\ nextOrder \in 0 .. MaxOrders
  /\ calling \in Orders \cup {None}
  /\ notices \in Seq(Orders)
  /\ transactions \in SUBSET Transactions
  /\ xstate \in [Numbers -> {"free", "active", "filled", "cancelled"}]
  /\ xtid \in [Numbers -> Tids \cup {None}]
  /\ replies \in SUBSET Replies
  /\ reports \in [Numbers -> Seq(Reports)]
  /\ link \in {"new", "up", "down"} /\ drops \in 0 .. MaxDrops
  /\ listening \in SUBSET Callbacks
  /\ tidOf \in [Orders -> Tids \cup {None}]
  /\ announced \in SUBSET Orders
  /\ kills \in SUBSET (Orders \X Numbers)
  /\ missed \in SUBSET Numbers

Init ==
  /\ ostate = [o \in Orders |-> "none"]
  /\ unsubmitted = [t \in Tids |-> None]
  /\ pending = [n \in Numbers |-> None]
  /\ retired = {}
  /\ orderIdMap = [o \in Orders |-> None]
  /\ nextTid = 0 /\ nextOrder = 0
  /\ calling = None
  /\ notices = <<>>
  /\ transactions = {}
  /\ xstate = [n \in Numbers |-> "free"]
  /\ xtid = [n \in Numbers |-> None]
  /\ replies = {}
  /\ reports = [n \in Numbers |-> <<>>]
  /\ tidOf = [o \in Orders |-> None]
  /\ link = "new" /\ listening = {} /\ drops = 0
  /\ announced = {} /\ kills = {} /\ missed = {}

----------------------------------------------------------------------------
(* The BrokerServer thread. *)

\* The transactions' strings: what the terminal gets to see of an order.
NewOrder(tid) == [kind |-> "new", tid |-> tid]
KillOrder(tid, n) == [kind |-> "kill", tid |-> tid, number |-> n]

\* The order is entered before the transaction is put together and sent.  When
\* either throws (a security without '#', a lost connection) it stays in
\* m_unsubmittedOrders, and no reply will come for it.
\* Transaction ids are kept back for the orders still to come (bound).
SubmitOrder ==
  /\ calling = None
  /\ nextOrder \in Orders
  /\ unsubmitted' = [unsubmitted EXCEPT ![nextTid] = nextOrder]
  /\ ostate' = [ostate EXCEPT ![nextOrder] = "Unsubmitted"]
  /\ tidOf' = [tidOf EXCEPT ![nextOrder] = nextTid]
  /\ \/ link # "down" /\ transactions' = transactions \cup {NewOrder(nextTid)}
     \/ UNCHANGED transactions
  /\ nextTid' = nextTid + 1
  /\ nextOrder' = nextOrder + 1
  /\ UNCHANGED <<pending, retired, orderIdMap, calling, notices, exchangeVars, replies,
                 linkVars, announced, kills, missed>>

\* The server has found o through order(), so it is in some container.  An
\* order without a number throws before an id is used up; sending may throw
\* afterwards.  The string sent names the order by its number.
CancelOrder(o) ==
  /\ calling = None
  /\ ostate[o] # "none" /\ orderIdMap[o] # None
  /\ nextTid + (MaxOrders - nextOrder) < MaxTids
  /\ \/ /\ link # "down"
        /\ transactions' = transactions \cup {KillOrder(nextTid, orderIdMap[o])}
        /\ kills' = kills \cup {<<o, orderIdMap[o]>>}
     \/ UNCHANGED <<transactions, kills>>
  /\ nextTid' = nextTid + 1
  /\ UNCHANGED <<brokerVars, nextOrder, calling, notices, exchangeVars, replies,
                 linkVars, tidOf, announced, missed>>

----------------------------------------------------------------------------
(* The threads of the DLL. *)

\* connectionStatusCallback: the callbacks are set, and the DLL starts to call
\* them.  If one cannot be, the rest are not tried: none is, or the one for
\* replies without the one for orders, or both (the trades' is the last, and is
\* not modelled).  Reports that have been waiting come in the initial transfer,
\* with another mode, for some orders.
Connected ==
  /\ calling = None
  /\ link # "up"
  /\ link' = "up"
  /\ \E set \in {{}, {"replies"}, Callbacks} : listening' = listening \cup set
  /\ \E initial \in SUBSET {n \in Numbers : reports[n] # <<>>} :
       reports' = [n \in Numbers |-> IF n \notin initial THEN reports[n] ELSE
                     [i \in DOMAIN reports[n] |-> [reports[n][i] EXCEPT !.mode = 1]]]
  /\ UNCHANGED <<brokerVars, nextTid, nextOrder, calling, notices, transactions, xstate,
                 xtid, replies, drops, historyVars>>

\* Variant: a reply is taken to be about the order submitted last.
MapNumber_Latest(r) == [orderIdMap EXCEPT ![nextOrder - 1] = r.number]

MapNumber(r) == [orderIdMap EXCEPT ![unsubmitted[r.tid]] = r.number]

\* The second half of both callbacks: executeOrderStateCallbacks pushes the
\* order's id, and m_mutex is released.
FinishCallback ==
  /\ calling # None
  /\ notices' = Append(notices, calling)
  /\ announced' = announced \cup {calling}
  /\ calling' = None
  /\ UNCHANGED <<brokerVars, nextTid, nextOrder, transactions, exchangeVars, replies,
                 linkVars, tidOf, kills, missed>>

\* Variant: a rejected order is forgotten.
Rejection_Forgotten(r) ==
  LET o == unsubmitted[r.tid]
  IN /\ ostate' = [ostate EXCEPT ![o] = "Rejected"]
     /\ UNCHANGED <<pending, retired, orderIdMap>>

Rejection(r) ==
  LET o == unsubmitted[r.tid]
  IN /\ ostate' = [ostate EXCEPT ![o] = "Rejected"]
     /\ retired' = retired \cup {o}
     /\ UNCHANGED <<pending, orderIdMap>>

Acceptance(r) ==
  LET o == unsubmitted[r.tid]
  IN /\ ostate' = [ostate EXCEPT ![o] = "Submitted"]
     /\ pending' = [pending EXCEPT ![r.number] = o]
     /\ orderIdMap' = MapNumber(r)
     /\ UNCHANGED retired

\* Variants: the client is told by the status report and not by the reply; the
\* transaction's id is pushed for the order's.
CallAfterReply_Never(r) == None
CallAfterReply_Tid(r) == r.tid

CallAfterReply(r) == unsubmitted[r.tid]

\* A reply to a transaction that is not (or no longer) in m_unsubmittedOrders,
\* such as a cancellation's, is passed over.
TransactionReply(r) ==
  /\ calling = None /\ link = "up" /\ "replies" \in listening
  /\ r \in replies
  /\ replies' = replies \ {r}
  /\ IF unsubmitted[r.tid] = None
     THEN UNCHANGED <<brokerVars, calling>>
     ELSE /\ unsubmitted' = [unsubmitted EXCEPT ![r.tid] = None]
          /\ IF r.ok THEN Acceptance(r) ELSE Rejection(r)
          /\ calling' = CallAfterReply(r)
  /\ UNCHANGED <<nextTid, nextOrder, notices, transactions, exchangeVars, linkVars,
                 historyVars>>

Retire(n, s) ==
  /\ ostate' = [ostate EXCEPT ![pending[n]] = s]
  /\ pending' = [pending EXCEPT ![n] = None]
  /\ retired' = retired \cup {pending[n]}
  /\ calling' = pending[n]

\* Variant: any execution report means the order is done, whatever its balance.
Apply_AnyFill(n, s) ==
  CASE s \in {"filled", "partial"} -> Retire(n, "Executed")
    [] s = "cancelled" -> Retire(n, "Cancelled")
    [] s = "active" -> UNCHANGED <<ostate, pending, retired, calling>>

\* Variant: a cancellation only counts if this program asked for it.
Apply_OwnCancel(n, s) ==
  CASE s = "filled" -> Retire(n, "Executed")
    [] s = "cancelled" /\ \E k \in kills : k[2] = n -> Retire(n, "Cancelled")
    [] s = "cancelled" /\ ~\E k \in kills : k[2] = n ->
         UNCHANGED <<ostate, pending, retired, calling>>
    [] s = "partial" -> calling' = pending[n] /\ UNCHANGED <<ostate, pending, retired>>
    [] s = "active" -> UNCHANGED <<ostate, pending, retired, calling>>

\* Variant: a finished order stays among the pending ones.
Apply_KeepsPending(n, s) ==
  CASE s = "filled" ->
         /\ ostate' = [ostate EXCEPT ![pending[n]] = "Executed"]
         /\ retired' = retired \cup {pending[n]}
         /\ calling' = pending[n]
         /\ UNCHANGED pending
    [] s = "cancelled" -> Retire(n, "Cancelled")
    [] s = "partial" -> calling' = pending[n] /\ UNCHANGED <<ostate, pending, retired>>
    [] s = "active" -> UNCHANGED <<ostate, pending, retired, calling>>

\* What a report does to a pending order.  "partial" is a status other than 1
\* and 2 with a balance left: the callbacks run and nothing else is done.  A
\* status of 1 sets the state to Submitted and returns before the callbacks.
Apply(n, s) ==
  CASE s = "filled" -> Retire(n, "Executed")
    [] s = "cancelled" -> Retire(n, "Cancelled")
    [] s = "partial" -> calling' = pending[n] /\ UNCHANGED <<ostate, pending, retired>>
    [] s = "active" ->
         /\ ostate' = [ostate EXCEPT ![pending[n]] = "Submitted"]
         /\ UNCHANGED <<pending, retired, calling>>

\* A report is passed over if its mode is not 0 or its number is not pending:
\* the number is another program's or a finished order's, or the reply that
\* would make it known has yet to come.
PassedOver(n) == Head(reports[n]).mode # 0 \/ pending[n] = None

\* orderStatusCallback.  m_pendingOrders is a map from number to order.
OrderStatus(n) ==
  /\ calling = None /\ link = "up" /\ "orders" \in listening
  /\ reports[n] # <<>>
  /\ reports' = [reports EXCEPT ![n] = Tail(@)]
  /\ IF PassedOver(n)
     THEN UNCHANGED <<ostate, pending, retired, calling>>
     ELSE Apply(n, Head(reports[n]).status)
  /\ missed' = IF PassedOver(n) /\ Head(reports[n]).status \in {"filled", "cancelled"}
               THEN missed \cup {n} ELSE missed
  /\ UNCHANGED <<unsubmitted, orderIdMap, nextTid, nextOrder, notices, transactions,
                 xstate, xtid, replies, linkVars, tidOf, announced, kills>>

\* The same, for a report the DLL will deliver once more.
OrderStatusRepeated(n) ==
  /\ calling = None /\ link = "up" /\ "orders" \in listening
  /\ reports[n] # <<>>
  /\ Len(notices) < MaxNotices
  /\ ~PassedOver(n)
  /\ Apply(n, Head(reports[n]).status)
  /\ UNCHANGED <<unsubmitted, orderIdMap, nextTid, nextOrder, notices, transactions,
                 exchangeVars, replies, linkVars, historyVars>>

\* The server reads a notice (BrokerServer!HandleUpdate).
ServerReads ==
  /\ notices # <<>>
  /\ notices' = Tail(notices)
  /\ UNCHANGED <<brokerVars, nextTid, nextOrder, calling, transactions, exchangeVars,
                 replies, linkVars, historyVars>>

----------------------------------------------------------------------------
(* The terminal and the exchange, outside src/. *)

ExchangeUnchanged ==
  UNCHANGED <<brokerVars, nextTid, nextOrder, calling, notices, linkVars, historyVars>>

Report(s) == [status |-> s, mode |-> 0]

\* Numbers are fresh.
ExchangeAccept(x, n) ==
  /\ x \in transactions /\ x.kind = "new"
  /\ xstate[n] = "free" /\ \A m \in Numbers : m < n => xstate[m] # "free"
  /\ transactions' = transactions \ {x}
  /\ xstate' = [xstate EXCEPT ![n] = "active"]
  /\ xtid' = [xtid EXCEPT ![n] = x.tid]
  /\ reports' = [reports EXCEPT ![n] = <<Report("active")>>]
  /\ replies' = replies \cup {[tid |-> x.tid, ok |-> TRUE, number |-> n]}
  /\ ExchangeUnchanged

ExchangeRefuse(x) ==
  /\ x \in transactions
  /\ transactions' = transactions \ {x}
  /\ replies' = replies \cup {[tid |-> x.tid, ok |-> FALSE, number |-> None]}
  /\ UNCHANGED exchangeVars
  /\ ExchangeUnchanged

ExchangeKill(x) ==
  /\ x \in transactions /\ x.kind = "kill" /\ xstate[x.number] = "active"
  /\ transactions' = transactions \ {x}
  /\ replies' = replies \cup {[tid |-> x.tid, ok |-> TRUE, number |-> None]}
  /\ xstate' = [xstate EXCEPT ![x.number] = "cancelled"]
  /\ reports' = [reports EXCEPT ![x.number] = Append(@, Report("cancelled"))]
  /\ UNCHANGED xtid
  /\ ExchangeUnchanged

\* A trade, or the end of the order's validity.  One partial fill each (bound).
ExchangeReport(n, s) ==
  /\ xstate[n] = "active"
  /\ s = "partial" => Len(reports[n]) = 1 /\ Head(reports[n]).status = "active"
  /\ xstate' = IF s = "partial" THEN xstate ELSE [xstate EXCEPT ![n] = s]
  /\ reports' = [reports EXCEPT ![n] = Append(@, Report(s))]
  /\ UNCHANGED <<transactions, xtid, replies>>
  /\ ExchangeUnchanged

Disconnect ==
  /\ link = "up" /\ drops < MaxDrops
  /\ link' = "down" /\ drops' = drops + 1
  /\ UNCHANGED <<listening, brokerVars, nextTid, nextOrder, calling, notices, transactions,
                 exchangeVars, replies, historyVars>>

\* A reply that comes while no callback is set, or the connection is lost.
LoseReply(r) ==
  /\ link # "up" \/ "replies" \notin listening
  /\ r \in replies
  /\ replies' = replies \ {r}
  /\ missed' = missed \cup ({r.number} \ {None})
  /\ UNCHANGED <<brokerVars, nextTid, nextOrder, calling, notices, transactions,
                 exchangeVars, linkVars, tidOf, announced, kills>>

----------------------------------------------------------------------------

Reply == \E r \in replies : TransactionReply(r)

Exchange ==
  \/ \E x \in transactions, n \in Numbers : ExchangeAccept(x, n)
  \/ \E x \in transactions : ExchangeRefuse(x) \/ ExchangeKill(x)
  \/ \E n \in Numbers, s \in {"partial", "filled", "cancelled"} : ExchangeReport(n, s)
  \/ Disconnect
  \/ \E r \in replies : LoseReply(r)

Next ==
  \/ SubmitOrder
  \/ Connected
  \/ \E o \in Orders : CancelOrder(o)
  \/ Reply
  \/ \E n \in Numbers : OrderStatus(n)
  \/ FinishCallback
  \/ \E n \in Numbers : OrderStatusRepeated(n)
  \/ ServerReads
  \/ Exchange

Spec == Init /\ [][Next]_vars

\* Callbacks return; and a thread of the DLL that keeps trying for m_mutex
\* gets it, however often the others do (a report is not repeated for ever
\* before the next is delivered).
FairSpec ==
  /\ Spec
  /\ WF_vars(FinishCallback)
  /\ SF_vars(Reply)
  /\ \A n \in Numbers : SF_vars(OrderStatus(n))

----------------------------------------------------------------------------
(* Properties. *)

\* Every order is in exactly one container, the one its state calls for, and a
\* pending order is under the number cancelOrder would use for it.  So order()
\* always finds an order the server gave it, whatever the DLL called and when.
OneContainer ==
  \A o \in Orders :
    /\ ostate[o] = "Unsubmitted" <=> \E t \in Tids : unsubmitted[t] = o
    /\ ostate[o] = "Submitted" <=> \E n \in Numbers : pending[n] = o
    /\ ostate[o] \in {"Executed", "Cancelled", "Rejected"} <=> o \in retired
    /\ \A n \in Numbers : pending[n] = o => orderIdMap[o] = n

\* orderStatusCallback does not announce an active order because "TransactionReply
\* callback already notified client" (line 352): true of every order a report
\* can find, although the reports race the replies.
AlreadyNotified ==
  \A n \in Numbers : pending[n] # None => pending[n] \in announced \/ calling = pending[n]

\* A cancellation reaches the exchange under the number of the order it is for.
KillsOwn ==
  \A k \in kills : tidOf[k[1]] # None /\ xtid[k[2]] = tidOf[k[1]]

\* An order is Executed only if the exchange filled it all, Cancelled only if
\* the exchange cancelled it, and Submitted only if the exchange has it.
Truthful ==
  \A o \in Orders :
    /\ ostate[o] = "Executed" =>
         \E n \in Numbers : xtid[n] = tidOf[o] /\ xstate[n] = "filled"
    /\ ostate[o] = "Cancelled" =>
         \E n \in Numbers : xtid[n] = tidOf[o] /\ xstate[n] = "cancelled"
    /\ ostate[o] \in {"Submitted", "Executed", "Cancelled"} =>
         \E n \in Numbers : xtid[n] = tidOf[o]

\* The broker keeps the contract the server is written against.
Contract == INSTANCE BrokerContract WITH
  owed <- IF calling = None THEN {} ELSE {calling}
ImplementsContract == Contract!ContractSpec

\* While the connection lasts and both callbacks are set, the end of an order at
\* the exchange becomes known here, with three exceptions that nothing here asks
\* again for: the reply came before the callbacks were set, or the report of the
\* end overtook the reply, or came with another mode after a reconnection ("TODO
\* handle other modes", line 322).
EndIsLearned ==
  \A n \in Numbers :
    xstate[n] \in {"filled", "cancelled"} ~>
      \/ \E o \in retired : tidOf[o] = xtid[n] /\ ostate[o] \in {"Executed", "Cancelled"}
      \/ n \in missed
      \/ link # "up" \/ listening # Callbacks

=============================================================================
