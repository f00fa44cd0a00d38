--------------------------- MODULE MCBrokerServer ---------------------------
(* A small instance: two clients, two brokers with one account each, an     *)
(* account nobody lists, client ids 0 and 1.                                *)
EXTENDS BrokerServer, TLC

CONSTANTS p1, p2, virtual, quik, demo, real, nobody

MCBrokerOf == (demo :> virtual) @@ (real :> quik) @@ (nobody :> None)

Part(i, a, f) == [id |-> i, account |-> a, form |-> f]
Ord(i, a, f) == [order |-> Part(i, a, f), cancel |-> None]
Kill(i, a, f) == [order |-> None, cancel |-> Part(i, a, f)]
Both(i, a, j, b) == [order |-> Part(i, a, "good"), cancel |-> Part(j, b, "good")]

Symmetry == Permutations(Peers)

\* Orders under either id, one that is refused, cancellations right and wrong,
\* commands with both parts.
MCCommands ==
  {Ord(0, demo, "good"), Both(1, demo, 1, demo), Both(1, real, 1, demo),
   Ord(1, demo, "unknown"), Kill(1, demo, "good"), Kill(1, nobody, "good")}

\* For the liveness run: an order, one that is refused and one that is mistyped,
\* a refused cancellation and a mistyped one, and a message with neither part.
MCLiveCommands ==
  {Ord(1, demo, "good"), Ord(1, demo, "unknown"), Ord(1, demo, "mistyped"),
   Kill(1, nobody, "good"), Kill(1, demo, "mistyped"),
   [order |-> None, cancel |-> None]}
=============================================================================
