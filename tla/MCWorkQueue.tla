----------------------------- MODULE MCWorkQueue -----------------------------
(* TLC instances of WorkQueue. *)
EXTENDS WorkQueue, TLC

NodeSymmetry == Permutations(Node)

\* The two-item runs look at the outbox only: no lease runs out, nothing is
\* cancelled, no heartbeat is sent and no policy retry is made.
OutboxOnly ==
  /\ lapsed = {}
  /\ \A i \in Item : row[i].st # "cancelled"
  /\ \A n \in Node, i \in Item : run[n][i].hb = "none" /\ run[n][i].pc # "reserving"
=============================================================================
