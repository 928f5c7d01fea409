----------------------------- MODULE MCKvRaft ------------------------------
(* The example cluster on a short script. *)
EXTENDS KvRaft, TLC

CONSTANTS put1, read1

\* As in main: a put, then the leader is killed, then a read.
ShortScript == <<put1, read1>>

Symmetry == Permutations(Node)

\* No node of the example is started again, so nothing reads what is saved, and
\* no action or property of the run reads votes, counted or the leader a follower
\* names.
View == <<[i \in Node |-> [node[i] EXCEPT !.current_leader_id = Nil]],
          msgs, client, decided, cluster_vars>>
=============================================================================
