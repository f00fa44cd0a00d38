--------------------------- MODULE QuikBrokerProofs ---------------------------
(***************************************************************************)
(* What QuikBroker keeps for any number of orders and transactions, however *)
(* the DLL's threads order, repeat, delay and lose replies and reports, and *)
(* that the broker implements BrokerContract.  The argument follows the id  *)
(* of a transaction: it is one order's or a cancellation's, the exchange    *)
(* gives it back with the number, and from then on the number stands for    *)
(* the order.                                                               *)
(***************************************************************************)
EXTENDS QuikBroker, SequenceTheorems, TLAPS

\* Orders and their transaction ids are handed out in order, and enough ids are
\* kept back for the orders still to come.
Numbered ==
  /\ nextTid + (MaxOrders - nextOrder) <= MaxTids
  /\ \A o \in Orders :
       /\ ostate[o] # "none" <=> o < nextOrder
       /\ tidOf[o] # None <=> o < nextOrder
       /\ tidOf[o] # None => tidOf[o] < nextTid
  /\ \A o, p \in Orders : tidOf[o] # None /\ tidOf[o] = tidOf[p] => o = p

\* What is on its way to or from the exchange under an id that was handed out:
\* a cancellation's id is no order's, and a number is reported to the
\* transaction that placed it.
OnTheWay ==
  /\ \A x \in transactions :
       /\ x.tid < nextTid
       /\ x.kind = "kill" => \A o \in Orders : tidOf[o] # x.tid
  /\ \A r \in replies :
       /\ r.tid < nextTid
       /\ r.ok /\ r.number = None => \A o \in Orders : tidOf[o] # r.tid
       /\ r.ok /\ r.number # None => xtid[r.number] = r.tid
  /\ \A n \in Numbers : xstate[n] = "free" <=> xtid[n] = None

\* The keys of the three maps name the order they lead to.
Keyed ==
  /\ \A t \in Tids : unsubmitted[t] # None => tidOf[unsubmitted[t]] = t
  /\ \A n \in Numbers : pending[n] # None => xtid[n] = tidOf[pending[n]]
  /\ \A o \in Orders :
       orderIdMap[o] # None => tidOf[o] # None /\ xtid[orderIdMap[o]] = tidOf[o]

\* A report of the end of an order comes after that end.
Reported ==
  \A n \in Numbers : \A i \in DOMAIN reports[n] :
    reports[n][i].status \in {"filled", "cancelled"} => xstate[n] = reports[n][i].status

CoreInv == TypeOK /\ Numbered /\ OnTheWay /\ Keyed /\ OneContainer

IInv == CoreInv /\ Reported /\ Truthful /\ AlreadyNotified /\ KillsOwn

----------------------------------------------------------------------------
(* What the messages hold. *)

LEMMA ReplyFields ==
  \A r \in Replies : /\ r.tid \in Tids /\ r.ok \in BOOLEAN
                     /\ r.number \in Numbers \cup {None}
BY DEF Replies

LEMMA TransactionFields ==
  \A x \in Transactions : /\ x.tid \in Tids /\ x.kind \in {"new", "kill"}
                          /\ x.kind = "kill" => x.number \in Numbers
BY DEF Transactions

LEMMA ReportFields ==
  \A s \in Statuses : Report(s) \in Reports
BY DEF Report, Reports

\* The order a reply is for is the one its id was handed out to; and if the
\* transaction was accepted, the number that comes with it is nobody else's.
LEMMA Replied ==
  ASSUME CoreInv, NEW r \in replies, unsubmitted[r.tid] # None
  PROVE  LET o == unsubmitted[r.tid]
         IN /\ r.tid \in Tids /\ o \in Orders /\ tidOf[o] = r.tid
            /\ ostate[o] = "Unsubmitted" /\ o \notin retired
            /\ \A t \in Tids : unsubmitted[t] = o => t = r.tid
            /\ \A n \in Numbers : pending[n] # o
            /\ r.ok => /\ r.number \in Numbers /\ xtid[r.number] = tidOf[o]
                       /\ pending[r.number] = None
<1> DEFINE o == unsubmitted[r.tid]
<1>1. /\ r.tid \in Tids /\ r.ok \in BOOLEAN /\ r.number \in Numbers \cup {None}
      /\ r \in Replies
  BY ReplyFields DEF CoreInv, TypeOK
<1>2. o \in Orders /\ tidOf[o] = r.tid
  BY <1>1 DEF CoreInv, TypeOK, Keyed
<1>3. \A t \in Tids : unsubmitted[t] = o => t = r.tid
  BY <1>1, <1>2, QuikBrokerAssumption DEF CoreInv, Keyed
<1>4. ostate[o] = "Unsubmitted"
  BY <1>1, <1>2 DEF CoreInv, OneContainer
<1>5. o \notin retired /\ \A n \in Numbers : pending[n] # o
  BY <1>2, <1>4 DEF CoreInv, OneContainer
<1>6. r.ok => r.number \in Numbers /\ xtid[r.number] = tidOf[o]
  BY <1>1, <1>2 DEF CoreInv, OnTheWay
<1>7. ASSUME r.ok, pending[r.number] # None
      PROVE  FALSE
  <2>1. r.number \in Numbers /\ pending[r.number] \in Orders
    BY <1>6, <1>7 DEF CoreInv, TypeOK
  <2>2. tidOf[pending[r.number]] = tidOf[o]
    BY <1>6, <1>7, <2>1 DEF CoreInv, Keyed
  <2>3. tidOf[o] # None
    BY <1>1, <1>2, QuikBrokerAssumption
  <2>4. pending[r.number] = o
    BY <1>2, <2>1, <2>2, <2>3 DEF CoreInv, Numbered
  <2>. QED
    BY <1>5, <2>1, <2>4
<1>. QED
  BY <1>1, <1>2, <1>3, <1>4, <1>5, <1>6, <1>7

\* The order a report finds is active here, and only under that number.
LEMMA Found ==
  ASSUME CoreInv, NEW n \in Numbers, pending[n] # None
  PROVE  /\ pending[n] \in Orders /\ ostate[pending[n]] = "Submitted"
         /\ \A m \in Numbers : pending[m] = pending[n] => m = n
         /\ pending[n] \notin retired
         /\ \A t \in Tids : unsubmitted[t] # pending[n]
         /\ xtid[n] = tidOf[pending[n]]
<1>1. pending[n] \in Orders
  BY DEF CoreInv, TypeOK
<1>2. ostate[pending[n]] = "Submitted"
  BY <1>1 DEF CoreInv, OneContainer
<1>3. \A m \in Numbers : pending[m] = pending[n] => m = n
  BY <1>1 DEF CoreInv, OneContainer
<1>4. pending[n] \notin retired /\ \A t \in Tids : unsubmitted[t] # pending[n]
  BY <1>1, <1>2 DEF CoreInv, OneContainer
<1>. QED
  BY <1>1, <1>2, <1>3, <1>4 DEF CoreInv, Keyed

\* A report retires the order, or leaves everything but the callbacks as it is.
LEMMA Applied ==
  ASSUME CoreInv, NEW n \in Numbers, pending[n] # None, NEW s \in Statuses, Apply(n, s)
  PROVE  \/ /\ UNCHANGED <<ostate, pending, retired>>
            /\ \/ calling' = calling
               \/ s = "partial" /\ calling' = pending[n]
         \/ s = "filled" /\ Retire(n, "Executed")
         \/ s = "cancelled" /\ Retire(n, "Cancelled")
<1>1. CASE s = "active"
  <2>1. ostate[pending[n]] = "Submitted" /\ pending[n] \in Orders
    BY Found
  <2>2. ostate' = [ostate EXCEPT ![pending[n]] = "Submitted"]
        /\ UNCHANGED <<pending, retired, calling>>
    BY <1>1 DEF Apply
  <2>3. ostate' = ostate
    BY <2>1, <2>2 DEF CoreInv, TypeOK
  <2>. QED
    BY <2>2, <2>3
<1>2. CASE s # "active"
  BY <1>2 DEF Apply, Statuses
<1>. QED
  BY <1>1, <1>2

\* An order that leaves the pending ones is in the retired ones only.
LEMMA Retired ==
  ASSUME CoreInv, NEW n \in Numbers, pending[n] # None,
         NEW e \in {"Executed", "Cancelled"}, Retire(n, e),
         UNCHANGED <<unsubmitted, orderIdMap>>
  PROVE  /\ OneContainer'
         /\ ostate' \in [Orders -> {"none", "Unsubmitted", "Submitted", "Executed",
                                    "Cancelled", "Rejected"}]
         /\ pending' \in [Numbers -> Orders \cup {None}]
         /\ retired' \in SUBSET Orders
         /\ calling' \in Orders
         /\ \A o \in Orders : ostate'[o] # "none" <=> ostate[o] # "none"
         /\ \A m \in Numbers : pending'[m] # None => pending'[m] = pending[m]
<1> DEFINE q == pending[n]
<1>1. /\ q \in Orders /\ ostate[q] = "Submitted"
      /\ \A m \in Numbers : pending[m] = q => m = n
      /\ q \notin retired /\ \A t \in Tids : unsubmitted[t] # q
  BY Found
<1>2. /\ ostate' = [ostate EXCEPT ![q] = e]
      /\ pending' = [pending EXCEPT ![n] = None]
      /\ retired' = retired \cup {q}
      /\ calling' = q
  BY DEF Retire
<1> HIDE DEF q
<1>3. /\ ostate' \in [Orders -> {"none", "Unsubmitted", "Submitted", "Executed",
                                 "Cancelled", "Rejected"}]
      /\ pending' \in [Numbers -> Orders \cup {None}]
      /\ retired' \in SUBSET Orders
      /\ calling' \in Orders
  BY <1>1, <1>2 DEF CoreInv, TypeOK
<1>4. \A o \in Orders : ostate'[o] # "none" <=> ostate[o] # "none"
  BY <1>1, <1>2 DEF CoreInv, TypeOK
<1>5. /\ pending'[n] = None
      /\ \A m \in Numbers : m # n => pending'[m] = pending[m]
  BY <1>2 DEF CoreInv, TypeOK
<1>6. ASSUME NEW o \in Orders
      PROVE  /\ ostate'[o] = "Unsubmitted" <=> \E t \in Tids : unsubmitted'[t] = o
             /\ ostate'[o] = "Submitted" <=> \E m \in Numbers : pending'[m] = o
             /\ ostate'[o] \in {"Executed", "Cancelled", "Rejected"} <=> o \in retired'
             /\ \A m \in Numbers : pending'[m] = o => orderIdMap'[o] = m
  <2>1. CASE o = q
    <3>1. ostate'[o] = e /\ o \in retired'
      BY <1>1, <1>2, <2>1 DEF CoreInv, TypeOK
    <3>2. \A m \in Numbers : pending'[m] # o
      BY <1>1, <1>5, <2>1, QuikBrokerAssumption
    <3>. QED
      BY <1>1, <2>1, <3>1, <3>2
  <2>2. CASE o # q
    <3>1. ostate'[o] = ostate[o] /\ (o \in retired' <=> o \in retired)
      BY <1>1, <1>2, <2>2 DEF CoreInv, TypeOK
    <3>2. pending[n] # o
      BY <2>2 DEF q
    <3>3. \A m \in Numbers : pending'[m] = o <=> pending[m] = o
      BY <1>5, <3>2, QuikBrokerAssumption
    <3>. QED
      BY <3>1, <3>3 DEF CoreInv, OneContainer
  <2>. QED
    BY <2>1, <2>2
<1>7. OneContainer'
  BY <1>6 DEF OneContainer
<1>. QED
  BY <1>3, <1>4, <1>5, <1>7

----------------------------------------------------------------------------
(* Types, ids and containers. *)

\* What a report does to the broker, delivered for good or not.
LEMMA ReportStep ==
  ASSUME CoreInv, NEW n \in Numbers, OrderStatus(n) \/ OrderStatusRepeated(n)
  PROVE  /\ UNCHANGED <<unsubmitted, orderIdMap, nextTid, nextOrder, notices, transactions,
                        xstate, xtid, replies, linkVars, tidOf, announced, kills>>
         /\ \A m \in Numbers : \A i \in DOMAIN reports'[m] :
              \E j \in DOMAIN reports[m] : reports'[m][i] = reports[m][j]
         /\ reports' \in [Numbers -> Seq(Reports)]
         /\ missed' \in SUBSET Numbers
         /\ calling = None
         /\ \/ /\ UNCHANGED <<ostate, pending, retired>>
               /\ \/ calling' = None
                  \/ /\ pending[n] # None /\ calling' = pending[n]
            \/ /\ pending[n] # None /\ reports[n] # <<>> /\ Head(reports[n]).status = "filled"
               /\ Retire(n, "Executed")
            \/ /\ pending[n] # None /\ reports[n] # <<>> /\ Head(reports[n]).status = "cancelled"
               /\ Retire(n, "Cancelled")
<1>1. /\ calling = None /\ reports[n] # <<>> /\ reports[n] \in Seq(Reports)
      /\ UNCHANGED <<unsubmitted, orderIdMap, nextTid, nextOrder, notices, transactions,
                     xstate, xtid, replies, linkVars, tidOf, announced, kills>>
  BY DEF OrderStatus, OrderStatusRepeated, CoreInv, TypeOK, exchangeVars, historyVars
<1>2. Head(reports[n]) \in Reports
  BY <1>1
<1>3. Head(reports[n]).status \in Statuses
  BY <1>2 DEF Reports
<1>4. \/ UNCHANGED <<ostate, pending, retired, calling>>
      \/ pending[n] # None /\ Apply(n, Head(reports[n]).status)
  BY DEF OrderStatus, OrderStatusRepeated, PassedOver
<1>5. reports' = reports \/ reports' = [reports EXCEPT ![n] = Tail(@)]
  BY DEF OrderStatus, OrderStatusRepeated, exchangeVars
<1>6. /\ Tail(reports[n]) \in Seq(Reports)
      /\ \A i \in DOMAIN Tail(reports[n]) :
           i + 1 \in DOMAIN reports[n] /\ Tail(reports[n])[i] = reports[n][i + 1]
  BY <1>1
<1>7. reports' \in [Numbers -> Seq(Reports)]
  BY <1>5, <1>6 DEF CoreInv, TypeOK
<1>8. ASSUME NEW m \in Numbers, NEW i \in DOMAIN reports'[m]
      PROVE  \E j \in DOMAIN reports[m] : reports'[m][i] = reports[m][j]
  BY <1>5, <1>6 DEF CoreInv, TypeOK
<1>9. missed' \in SUBSET Numbers
  BY DEF OrderStatus, OrderStatusRepeated, historyVars, CoreInv, TypeOK
<1>. QED
  BY <1>1, <1>3, <1>4, <1>7, <1>8, <1>9, Applied

\* A reply moves the order from the unsubmitted ones to the pending or the
\* retired ones.
LEMMA ReplyStep ==
  ASSUME CoreInv, NEW r \in replies, TransactionReply(r), unsubmitted[r.tid] # None
  PROVE  LET o == unsubmitted[r.tid]
         IN /\ o \in Orders /\ ostate[o] = "Unsubmitted"
            /\ unsubmitted' = [unsubmitted EXCEPT ![r.tid] = None]
            /\ calling = None /\ calling' = o
            /\ OneContainer' /\ Keyed'
            /\ pending' \in [Numbers -> Orders \cup {None}]
            /\ orderIdMap' \in [Orders -> Numbers \cup {None}]
            /\ retired' \in SUBSET Orders
            /\ \/ /\ r.ok /\ r.number \in Numbers /\ xtid[r.number] = tidOf[o]
                  /\ ostate' = [ostate EXCEPT ![o] = "Submitted"]
                  /\ pending' = [pending EXCEPT ![r.number] = o]
               \/ /\ ~r.ok
                  /\ ostate' = [ostate EXCEPT ![o] = "Rejected"]
                  /\ pending' = pending
<1> DEFINE o == unsubmitted[r.tid]
<1>1. /\ r.tid \in Tids /\ o \in Orders /\ tidOf[o] = r.tid
      /\ ostate[o] = "Unsubmitted" /\ o \notin retired
      /\ \A t \in Tids : unsubmitted[t] = o => t = r.tid
      /\ \A n \in Numbers : pending[n] # o
      /\ r.ok => /\ r.number \in Numbers /\ xtid[r.number] = tidOf[o]
                 /\ pending[r.number] = None
  BY Replied
<1>2. /\ unsubmitted' = [unsubmitted EXCEPT ![r.tid] = None]
      /\ calling = None /\ calling' = o
      /\ UNCHANGED <<xtid, tidOf>>
      /\ IF r.ok THEN Acceptance(r) ELSE Rejection(r)
  BY DEF TransactionReply, CallAfterReply, exchangeVars, historyVars
<1>3. \A t \in Tids : unsubmitted'[t] = IF t = r.tid THEN None ELSE unsubmitted[t]
  BY <1>2 DEF CoreInv, TypeOK
<1>4. tidOf[o] # None
  BY <1>1, QuikBrokerAssumption
<1>5. CASE r.ok
  <2>1. /\ ostate' = [ostate EXCEPT ![o] = "Submitted"]
        /\ pending' = [pending EXCEPT ![r.number] = o]
        /\ orderIdMap' = [orderIdMap EXCEPT ![o] = r.number]
        /\ retired' = retired
    BY <1>2, <1>5 DEF Acceptance, MapNumber
  <2>2. r.number \in Numbers /\ xtid[r.number] = tidOf[o] /\ pending[r.number] = None
    BY <1>1, <1>5
  <2> HIDE DEF o
  <2>3. /\ pending' \in [Numbers -> Orders \cup {None}]
        /\ orderIdMap' \in [Orders -> Numbers \cup {None}]
        /\ \A n \in Numbers : pending'[n] = IF n = r.number THEN o ELSE pending[n]
        /\ \A q \in Orders : /\ orderIdMap'[q] = IF q = o THEN r.number ELSE orderIdMap[q]
                             /\ ostate'[q] = IF q = o THEN "Submitted" ELSE ostate[q]
    BY <1>1, <2>1, <2>2 DEF CoreInv, TypeOK
  <2>4. Keyed'
    BY <1>1, <1>2, <1>3, <1>4, <2>2, <2>3 DEF CoreInv, Keyed
  <2>5. ASSUME NEW q \in Orders
        PROVE  /\ ostate'[q] = "Unsubmitted" <=> \E t \in Tids : unsubmitted'[t] = q
               /\ ostate'[q] = "Submitted" <=> \E n \in Numbers : pending'[n] = q
               /\ ostate'[q] \in {"Executed", "Cancelled", "Rejected"} <=> q \in retired'
               /\ \A n \in Numbers : pending'[n] = q => orderIdMap'[q] = n
    <3>1. CASE q = o
      <4>1. \A t \in Tids : unsubmitted'[t] # o
        BY <1>1, <1>3, QuikBrokerAssumption
      <4>2. pending'[r.number] = o /\ \A n \in Numbers : pending'[n] = o => n = r.number
        BY <1>1, <2>2, <2>3
      <4>. QED
        BY <1>1, <2>1, <2>2, <2>3, <3>1, <4>1, <4>2
    <3>2. CASE q # o
      <4>1. \A t \in Tids : unsubmitted'[t] = q <=> unsubmitted[t] = q
        BY <1>3, <3>2, QuikBrokerAssumption DEF o
      <4>2. \A n \in Numbers : pending'[n] = q <=> pending[n] = q
        BY <2>2, <2>3, <3>2, QuikBrokerAssumption
      <4>. QED
        BY <2>1, <2>3, <3>2, <4>1, <4>2 DEF CoreInv, OneContainer
    <3>. QED
      BY <3>1, <3>2
  <2>6. OneContainer'
    BY <2>5 DEF OneContainer
  <2>7. retired' \in SUBSET Orders
    BY <2>1 DEF CoreInv, TypeOK
  <2>. QED
    BY <1>1, <1>2, <1>5, <2>1, <2>2, <2>3, <2>4, <2>6, <2>7 DEF o
<1>6. CASE ~r.ok
  <2>1. /\ ostate' = [ostate EXCEPT ![o] = "Rejected"]
        /\ retired' = retired \cup {o}
        /\ UNCHANGED <<pending, orderIdMap>>
    BY <1>2, <1>6 DEF Rejection
  <2> HIDE DEF o
  <2>2. \A q \in Orders : ostate'[q] = IF q = o THEN "Rejected" ELSE ostate[q]
    BY <1>1, <2>1 DEF CoreInv, TypeOK
  <2>3. Keyed'
    BY <1>1, <1>2, <1>3, <2>1 DEF CoreInv, Keyed
  <2>4. ASSUME NEW q \in Orders
        PROVE  /\ ostate'[q] = "Unsubmitted" <=> \E t \in Tids : unsubmitted'[t] = q
               /\ ostate'[q] = "Submitted" <=> \E n \in Numbers : pending'[n] = q
               /\ ostate'[q] \in {"Executed", "Cancelled", "Rejected"} <=> q \in retired'
               /\ \A n \in Numbers : pending'[n] = q => orderIdMap'[q] = n
    <3>1. CASE q = o
      <4>1. \A t \in Tids : unsubmitted'[t] # o
        BY <1>1, <1>3, QuikBrokerAssumption
      <4>. QED
        BY <1>1, <2>1, <2>2, <3>1, <4>1
    <3>2. CASE q # o
      <4>1. \A t \in Tids : unsubmitted'[t] = q <=> unsubmitted[t] = q
        BY <1>3, <3>2, QuikBrokerAssumption DEF o
      <4>. QED
        BY <2>1, <2>2, <3>2, <4>1 DEF CoreInv, OneContainer
    <3>. QED
      BY <3>1, <3>2
  <2>5. OneContainer'
    BY <2>4 DEF OneContainer
  <2>6. /\ retired' \in SUBSET Orders
        /\ pending' \in [Numbers -> Orders \cup {None}]
        /\ orderIdMap' \in [Orders -> Numbers \cup {None}]
    BY <1>1, <2>1 DEF CoreInv, TypeOK
  <2>. QED
    BY <1>1, <1>2, <1>6, <2>1, <2>3, <2>5, <2>6 DEF o
<1>. QED
  BY <1>5, <1>6

\* Every action keeps the invariant.  SubmitOrder: the id and the order are new.
LEMMA SubmitStep ==
  ASSUME IInv, SubmitOrder
  PROVE  IInv'
<1> DEFINE p == nextOrder
           t0 == nextTid
<1>1. /\ p \in Orders /\ t0 \in Tids /\ t0 \in Nat /\ p \in Nat
      /\ p # None /\ t0 # None /\ nextOrder + 1 \in 0 .. MaxOrders
      /\ nextTid + 1 \in 0 .. MaxTids
  BY QuikBrokerAssumption DEF SubmitOrder, IInv, CoreInv, TypeOK, Numbered, Orders, Tids
<1>2. /\ ostate[p] = "none" /\ tidOf[p] = None
      /\ \A o \in Orders : tidOf[o] # None => tidOf[o] < t0
  BY <1>1 DEF IInv, CoreInv, Numbered
<1>3. unsubmitted[t0] = None
  <2>1. unsubmitted[t0] \in Orders \cup {None}
    BY <1>1 DEF IInv, CoreInv, TypeOK
  <2>2. unsubmitted[t0] # None => tidOf[unsubmitted[t0]] = t0
    BY <1>1 DEF IInv, CoreInv, Keyed
  <2> HIDE DEF t0
  <2>3. unsubmitted[t0] # None => t0 < t0
    BY <1>1, <1>2, <2>1, <2>2
  <2>. QED
    BY <1>1, <2>3
<1>4. /\ unsubmitted' = [unsubmitted EXCEPT ![t0] = p]
      /\ ostate' = [ostate EXCEPT ![p] = "Unsubmitted"]
      /\ tidOf' = [tidOf EXCEPT ![p] = t0]
      /\ transactions' = transactions \/ transactions' = transactions \cup {NewOrder(t0)}
      /\ nextTid' = t0 + 1 /\ nextOrder' = p + 1 /\ calling = None
      /\ UNCHANGED <<pending, retired, orderIdMap, calling, notices, xstate, xtid, reports,
                     replies, link, listening, drops, announced, kills, missed>>
  BY DEF SubmitOrder, exchangeVars, linkVars
<1>5. NewOrder(t0) \in Transactions
  BY <1>1 DEF NewOrder, Transactions
<1> HIDE DEF p, t0
<1>6. /\ \A o \in Orders : /\ ostate'[o] = IF o = p THEN "Unsubmitted" ELSE ostate[o]
                           /\ tidOf'[o] = IF o = p THEN t0 ELSE tidOf[o]
      /\ \A t \in Tids : unsubmitted'[t] = IF t = t0 THEN p ELSE unsubmitted[t]
  BY <1>1, <1>4 DEF IInv, CoreInv, TypeOK
<1>7. TypeOK'
  BY <1>1, <1>4, <1>5 DEF IInv, CoreInv, TypeOK, p, t0
<1>8. Numbered'
  <2>1. nextTid' + (MaxOrders - nextOrder') <= MaxTids
    BY <1>1, <1>4, QuikBrokerAssumption DEF IInv, CoreInv, Numbered, p, t0
  <2>2. ASSUME NEW o \in Orders
        PROVE  /\ ostate'[o] # "none" <=> o < nextOrder'
               /\ tidOf'[o] # None <=> o < nextOrder'
               /\ tidOf'[o] # None => tidOf'[o] < nextTid'
    <3>1. o \in Int /\ p \in Int /\ (o < p + 1 <=> o < p \/ o = p)
      BY <1>1, QuikBrokerAssumption DEF Orders
    <3>2. /\ ostate[o] # "none" <=> o < p
          /\ tidOf[o] # None <=> o < p
      BY DEF IInv, CoreInv, Numbered, p
    <3>3. tidOf[o] # None => tidOf[o] \in Nat
      BY QuikBrokerAssumption DEF IInv, CoreInv, TypeOK, Tids
    <3>. QED
      BY <1>1, <1>2, <1>4, <1>6, <3>1, <3>2, <3>3
  <2>3. ASSUME NEW o \in Orders, NEW q \in Orders, tidOf'[o] # None, tidOf'[o] = tidOf'[q]
        PROVE  o = q
    BY <1>1, <1>2, <1>6, <2>3 DEF IInv, CoreInv, Numbered
  <2>. QED
    BY <2>1, <2>2, <2>3 DEF Numbered
<1>9. OnTheWay'
  <2>1. ASSUME NEW x \in transactions'
        PROVE  /\ x.tid < nextTid'
               /\ x.kind = "kill" => \A o \in Orders : tidOf'[o] # x.tid
    <3>1. CASE x \in transactions
      <4>1. x.tid \in Nat /\ x.tid < t0
        BY <3>1, TransactionFields, QuikBrokerAssumption
        DEF IInv, CoreInv, TypeOK, OnTheWay, Tids, t0
      <4>2. x.kind = "kill" => \A o \in Orders : tidOf[o] # x.tid
        BY <3>1 DEF IInv, CoreInv, OnTheWay
      <4>. QED
        BY <1>1, <1>4, <1>6, <4>1, <4>2
    <3>2. CASE x = NewOrder(t0)
      BY <1>1, <1>4, <3>2 DEF NewOrder
    <3>. QED
      BY <1>4, <3>1, <3>2
  <2>2. ASSUME NEW r \in replies'
        PROVE  /\ r.tid < nextTid'
               /\ r.ok /\ r.number = None => \A o \in Orders : tidOf'[o] # r.tid
               /\ r.ok /\ r.number # None => xtid'[r.number] = r.tid
    <3>1. r.tid \in Nat /\ r.tid < t0 /\ r \in replies
      BY <1>4, ReplyFields, QuikBrokerAssumption
      DEF IInv, CoreInv, TypeOK, OnTheWay, Tids, t0
    <3>2. /\ r.ok /\ r.number = None => \A o \in Orders : tidOf[o] # r.tid
          /\ r.ok /\ r.number # None => xtid[r.number] = r.tid
      BY <3>1 DEF IInv, CoreInv, OnTheWay
    <3>. QED
      BY <1>1, <1>4, <1>6, <3>1, <3>2
  <2>. QED
    BY <1>4, <2>1, <2>2 DEF IInv, CoreInv, OnTheWay
<1>10. Keyed'
  <2>1. \A n \in Numbers : pending[n] # p
    BY <1>1, <1>2 DEF IInv, CoreInv, OneContainer
  <2>2. \A t \in Tids : t # t0 /\ unsubmitted[t] # None => unsubmitted[t] # p
    BY <1>1, <1>2, QuikBrokerAssumption DEF IInv, CoreInv, Keyed
  <2>3. orderIdMap[p] = None
    BY <1>1, <1>2 DEF IInv, CoreInv, Keyed
  <2>. QED
    BY <1>1, <1>4, <1>6, <2>1, <2>2, <2>3 DEF IInv, CoreInv, TypeOK, Keyed
<1>11. OneContainer'
  <2> SUFFICES ASSUME NEW o \in Orders
               PROVE  /\ ostate'[o] = "Unsubmitted" <=> \E t \in Tids : unsubmitted'[t] = o
                      /\ ostate'[o] = "Submitted" <=> \E n \in Numbers : pending[n] = o
                      /\ ostate'[o] \in {"Executed", "Cancelled", "Rejected"} <=> o \in retired
                      /\ \A n \in Numbers : pending[n] = o => orderIdMap[o] = n
    BY <1>4 DEF OneContainer
  <2>1. CASE o = p
    BY <1>1, <1>2, <1>6, <2>1 DEF IInv, CoreInv, OneContainer
  <2>2. CASE o # p
    <3>1. \A t \in Tids : unsubmitted'[t] = o <=> unsubmitted[t] = o
      BY <1>3, <1>6, <2>2, QuikBrokerAssumption
    <3>. QED
      BY <1>6, <2>2, <3>1 DEF IInv, CoreInv, OneContainer
  <2>. QED
    BY <2>1, <2>2
<1>12. Reported' /\ AlreadyNotified'
  BY <1>4 DEF IInv, Reported, AlreadyNotified
<1>13. Truthful'
  BY <1>4, <1>6 DEF IInv, Truthful
<1>14. KillsOwn'
  <2> SUFFICES ASSUME NEW k \in kills
               PROVE  tidOf'[k[1]] # None /\ xtid[k[2]] = tidOf'[k[1]]
    BY <1>4 DEF KillsOwn
  <2>1. k[1] \in Orders /\ tidOf[k[1]] # None /\ xtid[k[2]] = tidOf[k[1]]
    BY DEF IInv, CoreInv, TypeOK, KillsOwn
  <2>. QED
    BY <1>2, <1>6, <2>1
<1>. QED
  BY <1>7, <1>8, <1>9, <1>10, <1>11, <1>12, <1>13, <1>14 DEF IInv, CoreInv

\* CancelOrder: the id is no order's, and the number is the order's own.
LEMMA CancelStep ==
  ASSUME IInv, NEW o \in Orders, CancelOrder(o)
  PROVE  IInv'
<1>1. /\ nextTid \in Tids /\ nextTid \in Nat /\ nextTid # None
      /\ nextTid + 1 \in 0 .. MaxTids
  BY QuikBrokerAssumption DEF CancelOrder, IInv, CoreInv, TypeOK, Tids
<1>2. /\ orderIdMap[o] \in Numbers /\ tidOf[o] # None /\ xtid[orderIdMap[o]] = tidOf[o]
  BY DEF CancelOrder, IInv, CoreInv, TypeOK, Keyed
<1>3. /\ UNCHANGED <<ostate, unsubmitted, pending, retired, orderIdMap, nextOrder, calling,
                     notices, xstate, xtid, reports, replies, link, listening, drops, tidOf, announced,
                     missed>>
      /\ nextTid' = nextTid + 1
      /\ \/ /\ transactions' = transactions \cup {KillOrder(nextTid, orderIdMap[o])}
            /\ kills' = kills \cup {<<o, orderIdMap[o]>>}
         \/ UNCHANGED <<transactions, kills>>
  BY DEF CancelOrder, brokerVars, exchangeVars, linkVars
<1>4. KillOrder(nextTid, orderIdMap[o]) \in Transactions
  BY <1>1, <1>2 DEF KillOrder, Transactions
<1>5. TypeOK'
  BY <1>1, <1>2, <1>3, <1>4 DEF IInv, CoreInv, TypeOK
<1>6. Numbered'
  <2>1. nextTid' + (MaxOrders - nextOrder') <= MaxTids
    BY <1>1, <1>3, QuikBrokerAssumption DEF CancelOrder, IInv, CoreInv, TypeOK
  <2>2. \A q \in Orders : tidOf[q] # None => tidOf[q] < nextTid + 1
    BY <1>1, QuikBrokerAssumption DEF IInv, CoreInv, TypeOK, Numbered, Tids
  <2>. QED
    BY <1>3, <2>1, <2>2 DEF IInv, CoreInv, Numbered
<1>7. OnTheWay'
  <2>1. ASSUME NEW x \in transactions'
        PROVE  /\ x.tid < nextTid + 1
               /\ x.kind = "kill" => \A q \in Orders : tidOf[q] # x.tid
    <3>1. CASE x \in transactions
      <4>1. x.tid \in Nat /\ x.tid < nextTid
        BY <3>1, TransactionFields, QuikBrokerAssumption
        DEF IInv, CoreInv, TypeOK, OnTheWay, Tids
      <4>. QED
        BY <1>1, <3>1, <4>1 DEF IInv, CoreInv, OnTheWay
    <3>2. CASE x = KillOrder(nextTid, orderIdMap[o])
      <4>1. \A q \in Orders : tidOf[q] # nextTid
        BY <1>1 DEF IInv, CoreInv, Numbered
      <4>. QED
        BY <1>1, <3>2, <4>1 DEF KillOrder
    <3>. QED
      BY <1>3, <3>1, <3>2
  <2>2. ASSUME NEW r \in replies
        PROVE  r.tid < nextTid + 1
    BY <1>1, ReplyFields, QuikBrokerAssumption DEF IInv, CoreInv, TypeOK, OnTheWay, Tids
  <2>. QED
    BY <1>3, <2>1, <2>2 DEF IInv, CoreInv, OnTheWay
<1>8. Keyed' /\ OneContainer'
  BY <1>3 DEF IInv, CoreInv, Keyed, OneContainer
<1>9. Reported' /\ AlreadyNotified' /\ Truthful'
  BY <1>3 DEF IInv, Reported, AlreadyNotified, Truthful
<1>10. KillsOwn'
  BY <1>2, <1>3 DEF IInv, KillsOwn
<1>. QED
  BY <1>5, <1>6, <1>7, <1>8, <1>9, <1>10 DEF IInv, CoreInv

\* TransactionReply: the order becomes pending under the number the exchange gave
\* its transaction, and its callbacks are about to run.
LEMMA TransactionReplyStep ==
  ASSUME IInv, NEW r \in replies, TransactionReply(r)
  PROVE  IInv'
<1>1. /\ UNCHANGED <<nextTid, nextOrder, notices, transactions, xstate, xtid, reports,
                     link, listening, drops, tidOf, announced, kills, missed>>
      /\ replies' = replies \ {r} /\ calling = None
  BY DEF TransactionReply, exchangeVars, linkVars, historyVars
<1>2. Reported' /\ KillsOwn'
  BY <1>1 DEF IInv, Reported, KillsOwn
<1>3. OnTheWay'
  BY <1>1 DEF IInv, CoreInv, OnTheWay
<1>4. CASE unsubmitted[r.tid] = None
  <2>1. UNCHANGED <<ostate, unsubmitted, pending, retired, orderIdMap, calling>>
    BY <1>4 DEF TransactionReply, brokerVars
  <2>2. TypeOK'
    BY <1>1, <2>1 DEF IInv, CoreInv, TypeOK
  <2>3. Numbered' /\ Keyed' /\ OneContainer'
    BY <1>1, <2>1 DEF IInv, CoreInv, Numbered, Keyed, OneContainer
  <2>4. Truthful' /\ AlreadyNotified'
    BY <1>1, <2>1 DEF IInv, Truthful, AlreadyNotified
  <2>. QED
    BY <1>2, <1>3, <2>2, <2>3, <2>4 DEF IInv, CoreInv
<1>5. CASE unsubmitted[r.tid] # None
  <2> DEFINE o == unsubmitted[r.tid]
  <2>1. /\ o \in Orders /\ ostate[o] = "Unsubmitted" /\ calling' = o
        /\ unsubmitted' = [unsubmitted EXCEPT ![r.tid] = None]
        /\ OneContainer' /\ Keyed'
        /\ pending' \in [Numbers -> Orders \cup {None}]
        /\ orderIdMap' \in [Orders -> Numbers \cup {None}]
        /\ retired' \in SUBSET Orders
        /\ \/ /\ r.ok /\ r.number \in Numbers /\ xtid[r.number] = tidOf[o]
              /\ ostate' = [ostate EXCEPT ![o] = "Submitted"]
              /\ pending' = [pending EXCEPT ![r.number] = o]
           \/ /\ ~r.ok
              /\ ostate' = [ostate EXCEPT ![o] = "Rejected"]
              /\ pending' = pending
    BY <1>5, ReplyStep DEF IInv
  <2> HIDE DEF o
  <2>2. TypeOK'
    BY <1>1, <2>1 DEF IInv, CoreInv, TypeOK
  <2>3. Numbered'
    BY <1>1, <2>1 DEF IInv, CoreInv, TypeOK, Numbered
  <2>4. Truthful'
    <3>1. ASSUME NEW q \in Orders, q # o
          PROVE  ostate'[q] = ostate[q]
      BY <2>1, <3>1 DEF IInv, CoreInv, TypeOK
    <3>2. \/ ostate'[o] = "Submitted" /\ \E n \in Numbers : xtid[n] = tidOf[o]
          \/ ostate'[o] = "Rejected"
      BY <2>1 DEF IInv, CoreInv, TypeOK
    <3>. QED
      BY <1>1, <3>1, <3>2 DEF IInv, Truthful
  <2>5. AlreadyNotified'
    BY <1>1, <2>1 DEF IInv, CoreInv, TypeOK, AlreadyNotified
  <2>. QED
    BY <1>2, <1>3, <2>1, <2>2, <2>3, <2>4, <2>5 DEF IInv, CoreInv
<1>. QED
  BY <1>4, <1>5

\* orderStatusCallback: what it finds at an end is at its end at the exchange.
LEMMA OrderStatusStep ==
  ASSUME IInv, NEW n \in Numbers, OrderStatus(n) \/ OrderStatusRepeated(n)
  PROVE  IInv'
<1>1. /\ UNCHANGED <<unsubmitted, orderIdMap, nextTid, nextOrder, notices, transactions,
                     xstate, xtid, replies, link, listening, drops, tidOf, announced, kills>>
      /\ \A m \in Numbers : \A i \in DOMAIN reports'[m] :
           \E j \in DOMAIN reports[m] : reports'[m][i] = reports[m][j]
      /\ reports' \in [Numbers -> Seq(Reports)]
      /\ missed' \in SUBSET Numbers
      /\ calling = None
      /\ \/ /\ UNCHANGED <<ostate, pending, retired>>
            /\ \/ calling' = None
               \/ /\ pending[n] # None /\ calling' = pending[n]
         \/ /\ pending[n] # None /\ reports[n] # <<>> /\ Head(reports[n]).status = "filled"
            /\ Retire(n, "Executed")
         \/ /\ pending[n] # None /\ reports[n] # <<>> /\ Head(reports[n]).status = "cancelled"
            /\ Retire(n, "Cancelled")
  BY ReportStep DEF IInv, linkVars
<1>2. OnTheWay' /\ KillsOwn'
  BY <1>1 DEF IInv, CoreInv, OnTheWay, KillsOwn
<1>3. Reported'
  <2> SUFFICES ASSUME NEW m \in Numbers, NEW i \in DOMAIN reports'[m],
                      reports'[m][i].status \in {"filled", "cancelled"}
               PROVE  xstate[m] = reports'[m][i].status
    BY <1>1 DEF Reported
  <2>1. PICK j \in DOMAIN reports[m] : reports'[m][i] = reports[m][j]
    BY <1>1
  <2>. QED
    BY <2>1 DEF IInv, Reported
<1>4. CASE UNCHANGED <<ostate, pending, retired>> /\ calling' \in Orders \cup {None}
  <2>1. TypeOK'
    BY <1>1, <1>4 DEF IInv, CoreInv, TypeOK
  <2>2. Numbered' /\ Keyed' /\ OneContainer'
    BY <1>1, <1>4 DEF IInv, CoreInv, Numbered, Keyed, OneContainer
  <2>3. Truthful'
    BY <1>1, <1>4 DEF IInv, Truthful
  <2>4. AlreadyNotified'
    BY <1>1, <1>4 DEF IInv, AlreadyNotified
  <2>. QED
    BY <1>2, <1>3, <2>1, <2>2, <2>3, <2>4 DEF IInv, CoreInv
<1>5. ASSUME NEW e \in {"Executed", "Cancelled"}, pending[n] # None, Retire(n, e),
             reports[n] # <<>>,
             Head(reports[n]).status = IF e = "Executed" THEN "filled" ELSE "cancelled"
      PROVE  IInv'
  <2>1. /\ OneContainer'
        /\ ostate' \in [Orders -> {"none", "Unsubmitted", "Submitted", "Executed",
                                   "Cancelled", "Rejected"}]
        /\ pending' \in [Numbers -> Orders \cup {None}]
        /\ retired' \in SUBSET Orders
        /\ calling' \in Orders
        /\ \A o \in Orders : ostate'[o] # "none" <=> ostate[o] # "none"
        /\ \A m \in Numbers : pending'[m] # None => pending'[m] = pending[m]
    BY <1>1, <1>5, Retired DEF IInv
  <2>2. TypeOK'
    BY <1>1, <2>1 DEF IInv, CoreInv, TypeOK
  <2>3. Numbered'
    BY <1>1, <2>1 DEF IInv, CoreInv, Numbered
  <2>4. Keyed'
    BY <1>1, <2>1 DEF IInv, CoreInv, Keyed
  <2>5. AlreadyNotified'
    BY <1>1, <2>1 DEF IInv, AlreadyNotified
  <2>6. Truthful'
    <3>1. /\ pending[n] \in Orders /\ xtid[n] = tidOf[pending[n]]
          /\ ostate' = [ostate EXCEPT ![pending[n]] = e]
      BY <1>5, Found DEF IInv, Retire
    <3>2. xstate[n] = IF e = "Executed" THEN "filled" ELSE "cancelled"
      <4>1. 1 \in DOMAIN reports[n] /\ reports[n][1] = Head(reports[n])
        BY <1>5 DEF IInv, CoreInv, TypeOK
      <4>. QED
        BY <1>5, <4>1 DEF IInv, Reported
    <3>3. \A o \in Orders : ostate'[o] = IF o = pending[n] THEN e ELSE ostate[o]
      BY <3>1 DEF IInv, CoreInv, TypeOK
    <3>4. ASSUME NEW o \in Orders
          PROVE  /\ ostate'[o] = "Executed" =>
                      \E m \in Numbers : xtid[m] = tidOf[o] /\ xstate[m] = "filled"
                 /\ ostate'[o] = "Cancelled" =>
                      \E m \in Numbers : xtid[m] = tidOf[o] /\ xstate[m] = "cancelled"
                 /\ ostate'[o] \in {"Submitted", "Executed", "Cancelled"} =>
                      \E m \in Numbers : xtid[m] = tidOf[o]
      <4>1. CASE o = pending[n]
        BY <3>1, <3>2, <3>3, <4>1
      <4>2. CASE o # pending[n]
        BY <3>3, <4>2 DEF IInv, Truthful
      <4>. QED
        BY <4>1, <4>2
    <3>. QED
      BY <1>1, <3>4 DEF Truthful
  <2>. QED
    BY <1>2, <1>3, <2>1, <2>2, <2>3, <2>4, <2>5, <2>6 DEF IInv, CoreInv
<1>6. pending[n] \in Orders \cup {None}
  BY DEF IInv, CoreInv, TypeOK
<1>. QED
  BY <1>1, <1>4, <1>5, <1>6

\* What only the exchange and the terminal do leaves the broker as it is.
LEMMA Unmoved ==
  ASSUME IInv, UNCHANGED <<ostate, unsubmitted, pending, retired, orderIdMap, nextTid,
                           nextOrder, calling, tidOf, announced>>
  PROVE  Numbered' /\ OneContainer' /\ AlreadyNotified'
BY DEF IInv, CoreInv, Numbered, OneContainer, AlreadyNotified

\* FinishCallback and ServerReads.
LEMMA NoticeStep ==
  ASSUME IInv, FinishCallback \/ ServerReads
  PROVE  IInv'
<1>1. /\ UNCHANGED <<ostate, unsubmitted, pending, retired, orderIdMap, nextTid, nextOrder,
                     transactions, xstate, xtid, reports, replies, link, listening, drops, tidOf, kills,
                     missed>>
      /\ \/ /\ calling # None /\ notices' = Append(notices, calling)
            /\ announced' = announced \cup {calling} /\ calling' = None
         \/ /\ notices # <<>> /\ notices' = Tail(notices)
            /\ UNCHANGED <<calling, announced>>
  BY DEF FinishCallback, ServerReads, brokerVars, exchangeVars, linkVars, historyVars
<1>2. TypeOK'
  <2>1. /\ calling \in Orders \cup {None} /\ notices \in Seq(Orders)
        /\ announced \in SUBSET Orders
    BY DEF IInv, CoreInv, TypeOK
  <2>2. notices' \in Seq(Orders)
    <3>1. ASSUME calling # None, notices' = Append(notices, calling)
          PROVE  notices' \in Seq(Orders)
      BY <2>1, <3>1
    <3>2. ASSUME notices # <<>>, notices' = Tail(notices)
          PROVE  notices' \in Seq(Orders)
      BY <2>1, <3>2
    <3>. QED
      BY <1>1, <3>1, <3>2
  <2>3. calling' \in Orders \cup {None} /\ announced' \in SUBSET Orders
    BY <1>1, <2>1
  <2>. QED
    BY <1>1, <2>2, <2>3 DEF IInv, CoreInv, TypeOK
<1>3. Numbered' /\ OnTheWay' /\ Keyed' /\ OneContainer'
  BY <1>1 DEF IInv, CoreInv, Numbered, OnTheWay, Keyed, OneContainer
<1>4. Reported' /\ Truthful' /\ KillsOwn'
  BY <1>1 DEF IInv, Reported, Truthful, KillsOwn
<1>5. AlreadyNotified'
  BY <1>1 DEF IInv, AlreadyNotified
<1>. QED
  BY <1>2, <1>3, <1>4, <1>5 DEF IInv, CoreInv

\* The connection: reports may change their mode, a reply may be lost.
LEMMA LinkStep ==
  ASSUME IInv, Connected \/ Disconnect \/ \E r \in replies : LoseReply(r)
  PROVE  IInv'
<1>1. /\ UNCHANGED <<ostate, unsubmitted, pending, retired, orderIdMap, nextTid, nextOrder,
                     calling, notices, transactions, xstate, xtid, tidOf, announced, kills>>
      /\ link' \in {"new", "up", "down"} /\ drops' \in 0 .. MaxDrops
      /\ listening' \in SUBSET Callbacks
      /\ replies' \in SUBSET replies
      /\ missed' \in SUBSET Numbers
  <2>1. CASE Connected \/ Disconnect
    BY <2>1, QuikBrokerAssumption
    DEF Connected, Disconnect, Callbacks, brokerVars, exchangeVars, historyVars, IInv, CoreInv, TypeOK
  <2>2. ASSUME NEW r \in replies, LoseReply(r)
        PROVE  /\ UNCHANGED <<ostate, unsubmitted, pending, retired, orderIdMap, nextTid,
                               nextOrder, calling, notices, transactions, xstate, xtid, tidOf,
                               announced, kills>>
               /\ link' \in {"new", "up", "down"} /\ drops' \in 0 .. MaxDrops
               /\ listening' \in SUBSET Callbacks
               /\ replies' \in SUBSET replies
               /\ missed' \in SUBSET Numbers
    <3>1. r.number \in Numbers \cup {None}
      BY ReplyFields DEF IInv, CoreInv, TypeOK
    <3>. QED
      BY <2>2, <3>1 DEF LoseReply, brokerVars, exchangeVars, linkVars, IInv, CoreInv, TypeOK
  <2>. QED
    BY <2>1, <2>2
<1>2. /\ reports' \in [Numbers -> Seq(Reports)]
      /\ \A n \in Numbers : /\ DOMAIN reports'[n] = DOMAIN reports[n]
                            /\ \A i \in DOMAIN reports[n] :
                                 reports'[n][i].status = reports[n][i].status
  <2>1. CASE UNCHANGED reports
    BY <2>1 DEF IInv, CoreInv, TypeOK
  <2>2. CASE Connected
    <3>1. PICK initial \in SUBSET Numbers :
            reports' = [n \in Numbers |-> IF n \notin initial THEN reports[n] ELSE
                         [i \in DOMAIN reports[n] |-> [reports[n][i] EXCEPT !.mode = 1]]]
      BY <2>2 DEF Connected
    <3>2. ASSUME NEW n \in Numbers
          PROVE  /\ reports'[n] \in Seq(Reports)
                 /\ DOMAIN reports'[n] = DOMAIN reports[n]
                 /\ \A i \in DOMAIN reports[n] :
                      reports'[n][i].status = reports[n][i].status
      <4> DEFINE f == [i \in DOMAIN reports[n] |-> [reports[n][i] EXCEPT !.mode = 1]]
      <4>1. reports[n] \in Seq(Reports)
        BY DEF IInv, CoreInv, TypeOK
      <4>2. ASSUME NEW i \in DOMAIN reports[n]
            PROVE  f[i] \in Reports /\ f[i].status = reports[n][i].status
        <5>1. reports[n][i] \in Reports
          BY <4>1
        <5>. QED
          BY <5>1 DEF Reports
      <4>3. f \in Seq(Reports) /\ DOMAIN f = DOMAIN reports[n]
        <5>1. PICK k \in Nat : DOMAIN reports[n] = 1 .. k
          BY <4>1
        <5>2. f \in [1 .. k -> Reports]
          BY <4>2, <5>1
        <5>. QED
          BY <5>1, <5>2, SeqDef
      <4>. QED
        BY <3>1, <4>1, <4>2, <4>3
    <3>. QED
      BY <3>1, <3>2
  <2>. QED
    BY <2>1, <2>2 DEF Disconnect, LoseReply, exchangeVars
<1>3. TypeOK'
  BY <1>1, <1>2 DEF IInv, CoreInv, TypeOK
<1>4. Numbered' /\ OneContainer' /\ AlreadyNotified'
  BY <1>1, Unmoved
<1>5. OnTheWay' /\ Keyed'
  BY <1>1 DEF IInv, CoreInv, OnTheWay, Keyed
<1>6. Reported'
  BY <1>1, <1>2 DEF IInv, Reported
<1>7. Truthful' /\ KillsOwn'
  BY <1>1 DEF IInv, Truthful, KillsOwn
<1>. QED
  BY <1>3, <1>4, <1>5, <1>6, <1>7 DEF IInv, CoreInv

\* An order the server has submitted has its transaction's id.
LEMMA HasId ==
  ASSUME CoreInv, NEW o \in Orders, ostate[o] # "none"
  PROVE  tidOf[o] # None
BY DEF CoreInv, Numbered

\* The exchange accepts an order under a number nothing here knows.
LEMMA ExchangeAcceptStep ==
  ASSUME IInv, NEW x \in transactions, NEW n \in Numbers, ExchangeAccept(x, n)
  PROVE  IInv'
<1> DEFINE reply == [tid |-> x.tid, ok |-> TRUE, number |-> n]
<1>1. /\ UNCHANGED <<ostate, unsubmitted, pending, retired, orderIdMap, nextTid, nextOrder,
                     calling, notices, link, listening, drops, tidOf, announced, kills, missed>>
      /\ transactions' = transactions \ {x}
      /\ xstate' = [xstate EXCEPT ![n] = "active"]
      /\ xtid' = [xtid EXCEPT ![n] = x.tid]
      /\ reports' = [reports EXCEPT ![n] = <<Report("active")>>]
      /\ replies' = replies \cup {reply}
  BY DEF ExchangeAccept, ExchangeUnchanged, brokerVars, linkVars, historyVars
<1>2. x.tid \in Tids /\ x.tid # None /\ x.tid < nextTid /\ n # None
  BY TransactionFields, QuikBrokerAssumption DEF IInv, CoreInv, TypeOK, OnTheWay
<1>3. xstate[n] = "free" /\ xtid[n] = None
  BY DEF ExchangeAccept, IInv, CoreInv, OnTheWay
<1>4. \A m \in Numbers : /\ xtid'[m] = IF m = n THEN x.tid ELSE xtid[m]
                         /\ xstate'[m] = IF m = n THEN "active" ELSE xstate[m]
                         /\ reports'[m] = IF m = n THEN <<Report("active")>> ELSE reports[m]
  BY <1>1 DEF IInv, CoreInv, TypeOK
<1>5. reply \in Replies /\ Report("active") \in Reports
  BY <1>2 DEF Replies, Report, Reports, Statuses
<1>6. TypeOK'
  <2>1. reports' \in [Numbers -> Seq(Reports)]
    BY <1>1, <1>5 DEF IInv, CoreInv, TypeOK
  <2>2. /\ xstate' \in [Numbers -> {"free", "active", "filled", "cancelled"}]
        /\ xtid' \in [Numbers -> Tids \cup {None}]
    BY <1>1, <1>2 DEF IInv, CoreInv, TypeOK
  <2>3. replies' \in SUBSET Replies /\ transactions' \in SUBSET Transactions
    BY <1>1, <1>5 DEF IInv, CoreInv, TypeOK
  <2>. QED
    BY <1>1, <2>1, <2>2, <2>3 DEF IInv, CoreInv, TypeOK
<1>7. Numbered' /\ OneContainer' /\ AlreadyNotified'
  BY <1>1, Unmoved
<1>8. OnTheWay'
  <2>1. ASSUME NEW r \in replies'
        PROVE  /\ r.tid < nextTid
               /\ r.ok /\ r.number = None => \A o \in Orders : tidOf[o] # r.tid
               /\ r.ok /\ r.number # None => xtid'[r.number] = r.tid
    <3>1. CASE r \in replies
      <4>1. r.tid \in Tids /\ r.tid # None /\ r.number \in Numbers \cup {None}
        BY <3>1, ReplyFields, QuikBrokerAssumption DEF IInv, CoreInv, TypeOK
      <4>2. r.ok /\ r.number # None => r.number # n
        BY <1>3, <3>1, <4>1 DEF IInv, CoreInv, OnTheWay
      <4>. QED
        BY <1>4, <3>1, <4>1, <4>2 DEF IInv, CoreInv, OnTheWay
    <3>2. CASE r = reply
      BY <1>2, <1>4, <3>2
    <3>. QED
      BY <1>1, <3>1, <3>2
  <2>. QED
    BY <1>1, <1>2, <1>4, <2>1 DEF IInv, CoreInv, OnTheWay
<1>9. Keyed'
  <2>1. pending[n] = None
    BY <1>3, Found, HasId DEF IInv
  <2>. QED
    BY <1>1, <1>3, <1>4, <2>1 DEF IInv, CoreInv, TypeOK, Keyed
<1>10. Reported'
  <2> SUFFICES ASSUME NEW m \in Numbers, NEW i \in DOMAIN reports'[m],
                      reports'[m][i].status \in {"filled", "cancelled"}
               PROVE  xstate'[m] = reports'[m][i].status
    BY DEF Reported
  <2>1. m # n
    BY <1>4 DEF Report
  <2>. QED
    BY <1>4, <2>1 DEF IInv, Reported
<1>11. Truthful'
  <2>1. \A o \in Orders, m \in Numbers :
          ostate[o] # "none" /\ xtid[m] = tidOf[o] => m # n
    BY <1>3, HasId DEF IInv
  <2>2. \A o \in Orders, m \in Numbers :
          ostate[o] # "none" /\ xtid[m] = tidOf[o] =>
            xtid'[m] = tidOf[o] /\ xstate'[m] = xstate[m]
    BY <1>4, <2>1
  <2>. QED
    BY <1>1, <2>2 DEF IInv, Truthful
<1>12. KillsOwn'
  BY <1>1, <1>3, <1>4 DEF IInv, CoreInv, TypeOK, KillsOwn
<1>. QED
  BY <1>6, <1>7, <1>8, <1>9, <1>10, <1>11, <1>12 DEF IInv, CoreInv

\* The exchange refuses a transaction: the reply has no number.
LEMMA ExchangeRefuseStep ==
  ASSUME IInv, NEW x \in transactions, ExchangeRefuse(x)
  PROVE  IInv'
<1> DEFINE reply == [tid |-> x.tid, ok |-> FALSE, number |-> None]
<1>1. /\ UNCHANGED <<ostate, unsubmitted, pending, retired, orderIdMap, nextTid, nextOrder,
                     calling, notices, xstate, xtid, reports, link, listening, drops, tidOf, announced,
                     kills, missed>>
      /\ transactions' = transactions \ {x}
      /\ replies' = replies \cup {reply}
  BY DEF ExchangeRefuse, ExchangeUnchanged, brokerVars, exchangeVars, linkVars, historyVars
<1>2. x.tid \in Tids /\ x.tid < nextTid
  BY TransactionFields DEF IInv, CoreInv, TypeOK, OnTheWay
<1>3. reply \in Replies
  BY <1>2 DEF Replies
<1>4. TypeOK'
  BY <1>1, <1>3 DEF IInv, CoreInv, TypeOK
<1>5. Numbered' /\ OneContainer' /\ AlreadyNotified'
  BY <1>1, Unmoved
<1>6. OnTheWay'
  BY <1>1, <1>2 DEF IInv, CoreInv, OnTheWay
<1>7. Keyed' /\ Reported' /\ Truthful' /\ KillsOwn'
  BY <1>1 DEF IInv, CoreInv, Keyed, Reported, Truthful, KillsOwn
<1>. QED
  BY <1>4, <1>5, <1>6, <1>7 DEF IInv, CoreInv

\* An active order comes to its end, or not yet: n is reported to have the status s.
LEMMA EndStep ==
  ASSUME IInv, NEW n \in Numbers, NEW s \in {"partial", "filled", "cancelled"},
         xstate[n] = "active",
         xstate' = IF s = "partial" THEN xstate ELSE [xstate EXCEPT ![n] = s],
         reports' = [reports EXCEPT ![n] = Append(@, Report(s))],
         UNCHANGED <<ostate, xtid, tidOf>>
  PROVE  /\ xstate' \in [Numbers -> {"free", "active", "filled", "cancelled"}]
         /\ reports' \in [Numbers -> Seq(Reports)]
         /\ \A m \in Numbers : xstate'[m] = "free" <=> xtid'[m] = None
         /\ Reported' /\ Truthful'
<1>1. Report(s) \in Reports /\ Report(s).status = s
  BY DEF Report, Reports, Statuses
<1>2. reports[n] \in Seq(Reports)
  BY DEF IInv, CoreInv, TypeOK
<1>3. Append(reports[n], Report(s)) \in Seq(Reports)
  BY <1>1, <1>2
<1>4. /\ reports' \in [Numbers -> Seq(Reports)]
      /\ \A m \in Numbers :
           reports'[m] = IF m = n THEN Append(reports[n], Report(s)) ELSE reports[m]
  BY <1>3 DEF IInv, CoreInv, TypeOK
<1>5. /\ xstate' \in [Numbers -> {"free", "active", "filled", "cancelled"}]
      /\ \A m \in Numbers : m # n => xstate'[m] = xstate[m]
      /\ s # "partial" => xstate'[n] = s
      /\ xstate'[n] # "free"
  BY DEF IInv, CoreInv, TypeOK
<1>6. \A m \in Numbers : xstate'[m] = "free" <=> xtid'[m] = None
  BY <1>5 DEF IInv, CoreInv, OnTheWay
<1>7. Reported'
  <2> SUFFICES ASSUME NEW m \in Numbers, NEW i \in DOMAIN reports'[m],
                      reports'[m][i].status \in {"filled", "cancelled"}
               PROVE  xstate'[m] = reports'[m][i].status
    BY DEF Reported
  <2>1. CASE m # n
    BY <1>4, <1>5, <2>1 DEF IInv, Reported
  <2>2. CASE m = n
    <3>1. \/ i \in DOMAIN reports[n] /\ reports'[m][i] = reports[n][i]
          \/ reports'[m][i] = Report(s)
      BY <1>1, <1>2, <1>4, <2>2
    <3>2. i \notin DOMAIN reports[n] \/ reports'[m][i] # reports[n][i]
      BY <2>2 DEF IInv, Reported
    <3>. QED
      BY <1>1, <1>5, <2>2, <3>1, <3>2
  <2>. QED
    BY <2>1, <2>2
<1>8. Truthful'
  <2>1. \A m \in Numbers : xstate[m] \in {"filled", "cancelled"} => xstate'[m] = xstate[m]
    BY <1>5
  <2>. QED
    BY <2>1 DEF IInv, Truthful
<1>. QED
  BY <1>4, <1>5, <1>6, <1>7, <1>8

\* A trade, or the end of the order's validity.
LEMMA ExchangeReportStep ==
  ASSUME IInv, NEW n \in Numbers, NEW s \in {"partial", "filled", "cancelled"},
         ExchangeReport(n, s)
  PROVE  IInv'
<1>1. /\ UNCHANGED <<ostate, unsubmitted, pending, retired, orderIdMap, nextTid, nextOrder,
                     calling, notices, transactions, xtid, replies, link, listening, drops, tidOf,
                     announced, kills, missed>>
      /\ xstate[n] = "active"
      /\ xstate' = IF s = "partial" THEN xstate ELSE [xstate EXCEPT ![n] = s]
      /\ reports' = [reports EXCEPT ![n] = Append(@, Report(s))]
  BY DEF ExchangeReport, ExchangeUnchanged, brokerVars, linkVars, historyVars
<1>2. /\ xstate' \in [Numbers -> {"free", "active", "filled", "cancelled"}]
      /\ reports' \in [Numbers -> Seq(Reports)]
      /\ \A m \in Numbers : xstate'[m] = "free" <=> xtid'[m] = None
      /\ Reported' /\ Truthful'
  BY <1>1, EndStep
<1>3. TypeOK'
  BY <1>1, <1>2 DEF IInv, CoreInv, TypeOK
<1>4. Numbered' /\ OneContainer' /\ AlreadyNotified'
  BY <1>1, Unmoved
<1>5. OnTheWay' /\ Keyed' /\ KillsOwn'
  BY <1>1, <1>2 DEF IInv, CoreInv, OnTheWay, Keyed, KillsOwn
<1>. QED
  BY <1>2, <1>3, <1>4, <1>5 DEF IInv, CoreInv

\* A cancellation that comes in time: its reply has no number, and its id is no
\* order's.
LEMMA ExchangeKillStep ==
  ASSUME IInv, NEW x \in transactions, ExchangeKill(x)
  PROVE  IInv'
<1> DEFINE reply == [tid |-> x.tid, ok |-> TRUE, number |-> None]
           n == x.number
<1>1. /\ UNCHANGED <<ostate, unsubmitted, pending, retired, orderIdMap, nextTid, nextOrder,
                     calling, notices, xtid, link, listening, drops, tidOf, announced, kills, missed>>
      /\ transactions' = transactions \ {x}
      /\ replies' = replies \cup {reply}
      /\ x.kind = "kill" /\ xstate[n] = "active"
      /\ xstate' = [xstate EXCEPT ![n] = "cancelled"]
      /\ reports' = [reports EXCEPT ![n] = Append(@, Report("cancelled"))]
  BY DEF ExchangeKill, ExchangeUnchanged, brokerVars, linkVars, historyVars
<1>2. /\ x.tid \in Tids /\ x.tid < nextTid /\ n \in Numbers
      /\ \A o \in Orders : tidOf[o] # x.tid
  BY <1>1, TransactionFields DEF IInv, CoreInv, TypeOK, OnTheWay
<1>3. reply \in Replies
  BY <1>2 DEF Replies
<1>4. /\ xstate' \in [Numbers -> {"free", "active", "filled", "cancelled"}]
      /\ reports' \in [Numbers -> Seq(Reports)]
      /\ \A m \in Numbers : xstate'[m] = "free" <=> xtid'[m] = None
      /\ Reported' /\ Truthful'
  <2> HIDE DEF n
  <2>. QED
    BY <1>1, <1>2, EndStep
<1>5. TypeOK'
  <2>1. transactions' \in SUBSET Transactions /\ replies' \in SUBSET Replies
    BY <1>1, <1>3 DEF IInv, CoreInv, TypeOK
  <2> HIDE DEF reply, n
  <2>. QED
    BY <1>1, <1>4, <2>1 DEF IInv, CoreInv, TypeOK
<1>6. Numbered' /\ OneContainer' /\ AlreadyNotified'
  BY <1>1, Unmoved
<1>7. OnTheWay'
  BY <1>1, <1>2, <1>4 DEF IInv, CoreInv, OnTheWay
<1>8. Keyed' /\ KillsOwn'
  BY <1>1 DEF IInv, CoreInv, Keyed, KillsOwn
<1>. QED
  BY <1>4, <1>5, <1>6, <1>7, <1>8 DEF IInv, CoreInv

----------------------------------------------------------------------------
(* The results. *)

LEMMA InitHolds == Init => IInv
<1> SUFFICES ASSUME Init PROVE IInv
  OBVIOUS
<1>1. TypeOK
  BY QuikBrokerAssumption, EmptySeq DEF Init, TypeOK
<1>2. Numbered /\ OnTheWay /\ Keyed
  BY QuikBrokerAssumption DEF Init, Numbered, OnTheWay, Keyed, Orders
<1>3. OneContainer
  BY QuikBrokerAssumption DEF Init, OneContainer
<1>4. Reported /\ Truthful /\ AlreadyNotified /\ KillsOwn
  BY DEF Init, Reported, Truthful, AlreadyNotified, KillsOwn
<1>. QED
  BY <1>1, <1>2, <1>3, <1>4 DEF IInv, CoreInv

LEMMA Stutter ==
  ASSUME IInv, UNCHANGED vars
  PROVE  IInv'
<1>1. UNCHANGED <<ostate, unsubmitted, pending, retired, orderIdMap, nextTid, nextOrder,
                  calling, notices, transactions, xstate, xtid, reports, replies, link, listening,
                  drops, tidOf, announced, kills, missed>>
  BY DEF vars, brokerVars, exchangeVars, linkVars, historyVars
<1>2. TypeOK'
  BY <1>1 DEF IInv, CoreInv, TypeOK
<1>3. Numbered' /\ OnTheWay' /\ Keyed' /\ OneContainer'
  BY <1>1 DEF IInv, CoreInv, Numbered, OnTheWay, Keyed, OneContainer
<1>4. Reported' /\ Truthful' /\ AlreadyNotified' /\ KillsOwn'
  BY <1>1 DEF IInv, Reported, Truthful, AlreadyNotified, KillsOwn
<1>. QED
  BY <1>2, <1>3, <1>4 DEF IInv, CoreInv

\* Whatever the two sides do and in whatever order, the invariant holds.
LEMMA Inductive == Spec => []IInv
<1>1. IInv /\ [Next]_vars => IInv'
  <2> SUFFICES ASSUME IInv, [Next]_vars PROVE IInv'
    OBVIOUS
  <2>1. CASE SubmitOrder
    BY <2>1, SubmitStep
  <2>2. CASE \E o \in Orders : CancelOrder(o)
    BY <2>2, CancelStep
  <2>3. CASE Reply
    BY <2>3, TransactionReplyStep DEF Reply
  <2>4. CASE \E n \in Numbers : OrderStatus(n) \/ OrderStatusRepeated(n)
    BY <2>4, OrderStatusStep
  <2>5. CASE FinishCallback \/ ServerReads
    BY <2>5, NoticeStep
  <2>6. CASE Connected \/ Disconnect \/ \E r \in replies : LoseReply(r)
    BY <2>6, LinkStep
  <2>7. CASE \E x \in transactions, n \in Numbers : ExchangeAccept(x, n)
    BY <2>7, ExchangeAcceptStep
  <2>8. CASE \E x \in transactions : ExchangeRefuse(x)
    BY <2>8, ExchangeRefuseStep
  <2>9. CASE \E x \in transactions : ExchangeKill(x)
    BY <2>9, ExchangeKillStep
  <2>10. CASE \E n \in Numbers, s \in {"partial", "filled", "cancelled"} :
                ExchangeReport(n, s)
    BY <2>10, ExchangeReportStep
  <2>11. CASE UNCHANGED vars
    BY <2>11, Stutter
  <2>. QED
    BY <2>1, <2>2, <2>3, <2>4, <2>5, <2>6, <2>7, <2>8, <2>9, <2>10, <2>11
    DEF Next, Exchange
<1>. QED
  BY <1>1, InitHolds, PTL DEF Spec

\* The broker's maps, queues and messages stay of their types.
THEOREM TypeCorrect == Spec => []TypeOK
<1>1. IInv => TypeOK
  BY DEF IInv, CoreInv
<1>. QED
  BY <1>1, Inductive, PTL

\* m_unsubmittedOrders, m_pendingOrders and m_retiredOrders divide the orders
\* among them as the orders' states say, however the replies and reports of the
\* DLL's threads interleave with submissions and cancellations.
THEOREM OneContainerHolds == Spec => []OneContainer
<1>1. IInv => OneContainer
  BY DEF IInv, CoreInv
<1>. QED
  BY <1>1, Inductive, PTL

\* An order that a status report finds has been announced by its reply, so that
\* orderStatusCallback need not announce it (line 352).
THEOREM AlreadyNotifiedHolds == Spec => []AlreadyNotified
<1>1. IInv => AlreadyNotified
  BY DEF IInv
<1>. QED
  BY <1>1, Inductive, PTL

\* A cancellation never names the number of another order.
THEOREM KillsOwnHolds == Spec => []KillsOwn
<1>1. IInv => KillsOwn
  BY DEF IInv
<1>. QED
  BY <1>1, Inductive, PTL

\* What the broker says of an order was so at the exchange.
THEOREM TruthfulHolds == Spec => []Truthful
<1>1. IInv => Truthful
  BY DEF IInv
<1>. QED
  BY <1>1, Inductive, PTL

\* The broker implements the contract its server is proved against: replies and
\* reports are moves or repetitions that leave a notice owed, and the end of the
\* callback pays it.
THEOREM Implements == Spec => ImplementsContract
<1>1. Init => Contract!ContractInit
  BY DEF Init, Contract!ContractInit
<1>2. ASSUME IInv, [Next]_vars
      PROVE  [Contract!ContractNext]_(Contract!contractVars)
  <2>1. CASE SubmitOrder
    <3>1. nextOrder \in Orders /\ ostate[nextOrder] = "none"
      BY <1>2, <2>1 DEF SubmitOrder, IInv, CoreInv, TypeOK, Numbered, Orders
    <3>2. Contract!Submit(nextOrder)
      BY <2>1, <3>1 DEF SubmitOrder, Contract!Submit
    <3>. QED
      BY <3>1, <3>2 DEF Contract!ContractNext
  <2>2. ASSUME NEW r \in replies, TransactionReply(r)
        PROVE  [Contract!ContractNext]_(Contract!contractVars)
    <3>1. CASE unsubmitted[r.tid] = None
      BY <2>2, <3>1 DEF TransactionReply, brokerVars, Contract!contractVars
    <3>2. CASE unsubmitted[r.tid] # None
      <4> DEFINE o == unsubmitted[r.tid]
      <4>1. /\ o \in Orders /\ ostate[o] = "Unsubmitted" /\ o # None
            /\ calling = None /\ calling' = o
            /\ \/ ostate' = [ostate EXCEPT ![o] = "Submitted"]
               \/ ostate' = [ostate EXCEPT ![o] = "Rejected"]
        BY <1>2, <2>2, <3>2, ReplyStep DEF IInv
      <4>2. notices' = notices
        BY <2>2 DEF TransactionReply
      <4> HIDE DEF o
      <4>3. PICK s \in {"Submitted", "Rejected"} : ostate' = [ostate EXCEPT ![o] = s]
        BY <4>1
      <4>4. Contract!Move(o, s)
        BY <4>1, <4>2, <4>3 DEF Contract!Move, Contract!CanMove
      <4>5. s \in Contract!States
        BY DEF Contract!States, Contract!Terminal
      <4>. QED
        BY <4>1, <4>4, <4>5 DEF Contract!ContractNext
    <3>. QED
      BY <3>1, <3>2
  <2>3. ASSUME NEW n \in Numbers, OrderStatus(n) \/ OrderStatusRepeated(n)
        PROVE  [Contract!ContractNext]_(Contract!contractVars)
    <3>1. /\ notices' = notices /\ calling = None
          /\ \/ /\ ostate' = ostate
                /\ \/ calling' = None
                   \/ pending[n] # None /\ calling' = pending[n]
             \/ /\ pending[n] # None
                /\ Retire(n, "Executed") \/ Retire(n, "Cancelled")
      BY <1>2, <2>3, ReportStep DEF IInv
    <3>2. CASE ostate' = ostate /\ calling' = None
      BY <3>1, <3>2 DEF Contract!contractVars
    <3>3. CASE pending[n] # None
      <4> DEFINE q == pending[n]
      <4>1. q \in Orders /\ ostate[q] = "Submitted" /\ q # None
        BY <1>2, <3>3, Found DEF IInv
      <4>2. CASE ostate' = ostate /\ calling' = q
        <5>1. Contract!Repeat(q)
          BY <3>1, <4>1, <4>2 DEF Contract!Repeat
        <5>. QED
          BY <4>1, <5>1 DEF Contract!ContractNext
      <4>3. ASSUME NEW e \in {"Executed", "Cancelled"}, Retire(n, e)
            PROVE  Contract!ContractNext
        <5>1. ostate' = [ostate EXCEPT ![q] = e] /\ calling' = q
          BY <4>3 DEF Retire
        <5>2. Contract!Move(q, e)
          BY <3>1, <4>1, <5>1 DEF Contract!Move, Contract!CanMove
        <5>3. e \in Contract!States
          BY DEF Contract!States, Contract!Terminal
        <5>. QED
          BY <4>1, <5>2, <5>3 DEF Contract!ContractNext
      <4>. QED
        BY <3>1, <3>2, <4>2, <4>3
    <3>. QED
      BY <3>1, <3>2, <3>3
  <2>4. CASE FinishCallback
    <3>1. calling \in Orders
      BY <1>2, <2>4 DEF FinishCallback, IInv, CoreInv, TypeOK
    <3>2. Contract!Notify(calling)
      BY <2>4 DEF FinishCallback, brokerVars, Contract!Notify
    <3>. QED
      BY <3>1, <3>2 DEF Contract!ContractNext
  <2>5. CASE ServerReads
    <3>1. Contract!Consume
      BY <2>5 DEF ServerReads, brokerVars, Contract!Consume
    <3>. QED
      BY <3>1 DEF Contract!ContractNext
  <2>6. ASSUME Connected \/ (\E o \in Orders : CancelOrder(o)) \/ Exchange \/ UNCHANGED vars
        PROVE  UNCHANGED Contract!contractVars
    BY <2>6 DEF Connected, CancelOrder, Exchange, ExchangeAccept, ExchangeRefuse, ExchangeKill,
      ExchangeReport, ExchangeUnchanged, Disconnect, LoseReply, vars, brokerVars,
      Contract!contractVars
  <2>. QED
    BY <1>2, <2>1, <2>2, <2>3, <2>4, <2>5, <2>6 DEF Next, Reply
<1>. QED
  BY <1>1, <1>2, Inductive, PTL DEF Spec, ImplementsContract, Contract!ContractSpec

=============================================================================
