--------------------------- MODULE MCWorkerAccess ---------------------------
(***************************************************************************)
(* WorkerAccess for TLC: three laptops, of which one signs requests next   *)
(* to the live ingestor; two calls in flight, a signature tolerance and a  *)
(* step delay of one tick, and a clock that runs past the nonce retention. *)
(***************************************************************************)
EXTENDS WorkerAccess, TLC

CONSTANTS d1, d2, d3, k1, k2, service, n1, n2, c1, c2

McDevices == {d1, d2, d3}
McTokens == {k1, k2}
McHolds == [d \in McDevices |-> k1]
McEnrolls == {<<d1, k1>>, <<d1, k2>>, <<d2, k1>>, <<d3, k1>>}
McSigners == {d1, service}
McNonces == {n1, n2}
McCalls == {c1, c2}

Symmetric == Permutations(McNonces) \cup Permutations(McCalls) \cup Permutations({d2, d3})
=============================================================================
