--------------------------- MODULE SearchPromise ---------------------------
(***************************************************************************)
(* What a caller of vec.Search may rely on, with no cache in sight.        *)
(*                                                                         *)
(* Writers change the shadow rows of a dataset and invalidate it           *)
(* afterwards; a write whose invalidation has returned is acknowledged.    *)
(* A search answers with an index of a version of the rows that is         *)
(*   - no older than the last write acknowledged when the search began,    *)
(*   - no older than any answer given, before the search began, to another *)
(*     search through the same cache key, and                              *)
(*   - a version that has been committed.                                  *)
(* A search may also fail: cancellation, an error of the database.         *)
(***************************************************************************)
EXTENDS Naturals

CONSTANTS Goroutines, Keys, Datasets, DatasetOf, NoIndex

VARIABLES
  version,  \* version[d]: committed version of the shadow rows of d
  acked,    \* acked[d]: newest version whose writer has been acknowledged
  served,   \* served[k]: newest version a search through key k answered with
  request,  \* request[g]: the search g is running, or NoRequest
  answer    \* answer[g]: what the last search of g answered with

vars == <<version, acked, served, request, answer>>

NoRequest == [key |-> NoIndex, floor |-> NoIndex]

Newest(a, b) == IF a >= b THEN a ELSE b

Init ==
  /\ version = [d \in Datasets |-> 0]
  /\ acked = [d \in Datasets |-> 0]
  /\ served = [k \in Keys |-> 0]
  /\ request = [g \in Goroutines |-> NoRequest]
  /\ answer = [g \in Goroutines |-> NoIndex]

Commit(d) ==
  /\ version' = [version EXCEPT ![d] = @ + 1]
  /\ UNCHANGED <<acked, served, request, answer>>

Acknowledge(d, v) ==
  /\ acked[d] <= v
  /\ v <= version[d]
  /\ acked' = [acked EXCEPT ![d] = v]
  /\ UNCHANGED <<version, served, request, answer>>

Call(g, k) ==
  /\ request[g] = NoRequest
  /\ request' = [request EXCEPT ![g] =
       [key |-> k, floor |-> Newest(acked[DatasetOf[k]], served[k])]]
  /\ answer' = [answer EXCEPT ![g] = NoIndex]
  /\ UNCHANGED <<version, acked, served>>

Answer(g, v) ==
  /\ answer' = [answer EXCEPT ![g] = v]
  /\ served' = [served EXCEPT ![request[g].key] = Newest(@, v)]
  /\ request' = [request EXCEPT ![g] = NoRequest]
  /\ UNCHANGED <<version, acked>>

Fail(g) ==
  /\ request[g] # NoRequest
  /\ answer' = [answer EXCEPT ![g] = NoIndex]
  /\ request' = [request EXCEPT ![g] = NoRequest]
  /\ UNCHANGED <<version, acked, served>>

Next ==
  \/ \E d \in Datasets : Commit(d)
  \/ \E d \in Datasets : \E v \in 0 .. version[d] : Acknowledge(d, v)
  \/ \E g \in Goroutines, k \in Keys : Call(g, k)
  \/ \E g \in Goroutines :
       /\ request[g] # NoRequest
       /\ \E v \in request[g].floor .. version[DatasetOf[request[g].key]] :
            Answer(g, v)
  \/ \E g \in Goroutines : Fail(g)

Spec == Init /\ [][Next]_vars

=============================================================================
