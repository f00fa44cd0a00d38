--------------------------- MODULE BrokerContract ---------------------------
(***************************************************************************)
(* What a Broker (core/broker.h) promises to the BrokerServer that drives  *)
(* it, whatever stands behind it: the virtual broker, QUIK, or several of  *)
(* them.  An order given to submitOrder is in the broker's books from then *)
(* on; its state only moves forward; and every move is followed by an      *)
(* order callback, which puts the order's local id on the inproc           *)
(* order-state queue.  Between a move and its callback the order is owed a *)
(* notice.  A notice says that an order changed and not what it became.    *)
(***************************************************************************)
EXTENDS Naturals, Sequences

CONSTANT Orders      \* the local ids of the orders the system will ever see

VARIABLES
  ostate,            \* Order::m_state, "none" while the broker has no such order
  owed,              \* the orders that moved and whose callback has not run yet
  notices            \* the ids pushed to inproc://order-state-socket, oldest first

contractVars == <<ostate, owed, notices>>

Terminal == {"Executed", "Cancelled", "Rejected"}
States == {"none", "Unsubmitted", "Submitted"} \cup Terminal

\* The moves the brokers make.  PartiallyExecuted is declared by Order::State
\* and assigned by no broker.
CanMove(s, t) ==
  \/ s = "Unsubmitted" /\ t \in {"Submitted", "Executed", "Rejected"}
  \/ s = "Submitted" /\ t \in {"Executed", "Cancelled"}

Rank(s) ==
  CASE s = "none" -> 0
    [] s = "Unsubmitted" -> 1
    [] s = "Submitted" -> 2
    [] OTHER -> 3

\* s may have become t: the same state, or a later one of one order's life.
Precedes(s, t) == s = t \/ Rank(s) < Rank(t)

----------------------------------------------------------------------------

ContractInit ==
  /\ ostate = [o \in Orders |-> "none"]
  /\ owed = {}
  /\ notices = <<>>

\* Broker::submitOrder puts the order in the broker's books.
Submit(o) ==
  /\ ostate[o] = "none"
  /\ ostate' = [ostate EXCEPT ![o] = "Unsubmitted"]
  /\ UNCHANGED <<owed, notices>>

\* Order::updateState: the broker owes a callback for it.
Move(o, s) ==
  /\ CanMove(ostate[o], s)
  /\ ostate' = [ostate EXCEPT ![o] = s]
  /\ owed' = owed \cup {o}
  /\ UNCHANGED notices

\* A callback about to run although the state stayed what it was: QUIK reports
\* a partial fill this way.
Repeat(o) ==
  /\ ostate[o] = "Submitted"
  /\ owed' = owed \cup {o}
  /\ UNCHANGED <<ostate, notices>>

\* BrokerServer::orderCallback, run by the broker's thread.
Notify(o) ==
  /\ o \in owed
  /\ owed' = owed \ {o}
  /\ notices' = Append(notices, o)
  /\ UNCHANGED ostate

\* The server takes the oldest notice off the queue.
Consume ==
  /\ notices # <<>>
  /\ notices' = Tail(notices)
  /\ UNCHANGED <<ostate, owed>>

ContractNext ==
  \/ \E o \in Orders : Submit(o)
  \/ \E o \in Orders, s \in States : Move(o, s)
  \/ \E o \in Orders : Repeat(o)
  \/ \E o \in Orders : Notify(o)
  \/ Consume

ContractSpec == ContractInit /\ [][ContractNext]_contractVars
=============================================================================
