--------------------------- MODULE ServerLifecycle ---------------------------
(***************************************************************************)
(* start() and stop() of core/quotesourceserver.cpp and                    *)
(* core/brokerserver.cpp.  Both create a thread that loops while a flag is *)
(* true, and both stop it by clearing the flag and joining the thread.     *)
(* They differ in who sets the flag: QuotesourceServer's caller does, after *)
(* it has created the thread; BrokerServer's thread does, when it gets to  *)
(* run.  The caller and the thread take their steps in any order.          *)
(*                                                                         *)
(* A client's request waits in the socket until a turn of the loop takes   *)
(* it.  A server is started once and stopped at most once.                 *)
(***************************************************************************)

Servers == {"quotesource", "broker"}

VARIABLES
  flag,              \* m_run, m_running
  caller,            \* per server, where the thread that owns it is
  thread,            \* per server, where its own thread is
  request            \* per server, a client's request

vars == <<flag, caller, thread, request>>

TypeOK ==
  /\ flag \in [Servers -> BOOLEAN]
  /\ caller \in [Servers -> {"idle", "starting", "started", "joining", "stopped"}]
  /\ thread \in [Servers -> {"none", "created", "test", "turn", "exited"}]
  /\ request \in [Servers -> {"none", "waiting", "answered"}]

Init ==
  /\ flag = [s \in Servers |-> FALSE]
  /\ caller = [s \in Servers |-> "idle"]
  /\ thread = [s \in Servers |-> "none"]
  /\ request = [s \in Servers |-> "none"]

\* Variants: both servers one way, both the other.
SetByCaller_Both(s) == TRUE
SetByCaller_Neither(s) == FALSE

\* Who sets the flag.
SetByCaller(s) == s = "quotesource"

----------------------------------------------------------------------------
(* The calling thread. *)

\* start(): boost::thread is constructed, and may be scheduled from now on.
CreateThread(s) ==
  /\ caller[s] = "idle"
  /\ thread' = [thread EXCEPT ![s] = "created"]
  /\ caller' = [caller EXCEPT ![s] = IF SetByCaller(s) THEN "starting" ELSE "started"]
  /\ UNCHANGED <<flag, request>>

FinishStart(s) ==
  /\ caller[s] = "starting"
  /\ flag' = [flag EXCEPT ![s] = TRUE]
  /\ caller' = [caller EXCEPT ![s] = "started"]
  /\ UNCHANGED <<thread, request>>

\* stop()
Stop(s) ==
  /\ caller[s] = "started"
  /\ flag' = [flag EXCEPT ![s] = FALSE]
  /\ caller' = [caller EXCEPT ![s] = "joining"]
  /\ UNCHANGED <<thread, request>>

Join(s) ==
  /\ caller[s] = "joining" /\ thread[s] = "exited"
  /\ caller' = [caller EXCEPT ![s] = "stopped"]
  /\ UNCHANGED <<flag, thread, request>>

----------------------------------------------------------------------------
(* The server's thread: run(). *)

Enter(s) ==
  /\ thread[s] = "created"
  /\ flag' = IF SetByCaller(s) THEN flag ELSE [flag EXCEPT ![s] = TRUE]
  /\ thread' = [thread EXCEPT ![s] = "test"]
  /\ UNCHANGED <<caller, request>>

TestFlag(s) ==
  /\ thread[s] = "test"
  /\ thread' = [thread EXCEPT ![s] = IF flag[s] THEN "turn" ELSE "exited"]
  /\ UNCHANGED <<flag, caller, request>>

\* Variant: the thread sets its flag in every turn.
Turn_Rearms(s) ==
  /\ thread[s] = "turn"
  /\ request' = [request EXCEPT ![s] = IF @ = "waiting" THEN "answered" ELSE @]
  /\ thread' = [thread EXCEPT ![s] = "test"]
  /\ flag' = [flag EXCEPT ![s] = TRUE]
  /\ UNCHANGED caller

\* zmq::poll returns with the request, or after 100 ms with nothing.
Turn(s) ==
  /\ thread[s] = "turn"
  /\ request' = [request EXCEPT ![s] = IF @ = "waiting" THEN "answered" ELSE @]
  /\ thread' = [thread EXCEPT ![s] = "test"]
  /\ UNCHANGED <<flag, caller>>

\* A client, outside src/.
Ask(s) ==
  /\ request[s] = "none"
  /\ request' = [request EXCEPT ![s] = "waiting"]
  /\ UNCHANGED <<flag, caller, thread>>

----------------------------------------------------------------------------

ThreadStep(s) == Enter(s) \/ TestFlag(s) \/ Turn(s)

Next ==
  \E s \in Servers :
    \/ CreateThread(s) \/ FinishStart(s) \/ Stop(s) \/ Join(s)
    \/ ThreadStep(s)
    \/ Ask(s)

\* The threads are scheduled, and a call of start() or stop() that was made goes
\* on.  Nobody has to make one.
FairSpec ==
  /\ Init /\ [][Next]_vars
  /\ \A s \in Servers :
       WF_vars(ThreadStep(s)) /\ WF_vars(FinishStart(s)) /\ WF_vars(Join(s))

----------------------------------------------------------------------------
(* Properties. *)

Answers(s) ==
  (request[s] = "waiting" /\ caller[s] = "started")
    ~> (request[s] = "answered" \/ caller[s] \in {"joining", "stopped"})

StopReturns(s) == caller[s] = "joining" ~> caller[s] = "stopped"

\* Once BrokerServer::start has returned, a request is answered, until stop.
BrokerAnswers == Answers("broker")

\* QuotesourceServer::stop returns: nobody sets the flag after it is cleared.
QuotesourceStopReturns == StopReturns("quotesource")

\* tests/brokerserver_test.cpp has an order handled and then calls stop: it
\* returns.  (A stop that comes before the thread has run does not: the thread
\* sets the flag after stop has cleared it, and join waits for ever.)
BrokerStopReturnsOnceServed ==
  [](caller["broker"] = "started" /\ request["broker"] = "answered"
       => [](caller["broker"] = "joining" => <>(caller["broker"] = "stopped")))

\* tests/quotesourceserver_test.cpp starts the server and waits for the answer
\* to its first command: once start has returned, a request is answered.
QuotesourceAnswers == Answers("quotesource")

=============================================================================
