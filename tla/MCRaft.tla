------------------------------ MODULE MCRaft -------------------------------
(* Raft on small clusters. *)
EXTENDS Raft, TLC

Symmetry == Permutations(Node) \cup Permutations(Command)

\* No action and no property of these runs reads votes and counted or the
\* leader a follower names, and a refused client can do what an idle one can.
View == <<[i \in Node |-> [node[i] EXCEPT !.current_leader_id = Nil]],
          disk, msgs,
          [c \in Command |-> IF client[c] = Status("rejected")
                             THEN Status("idle") ELSE client[c]],
          restarts, decided>>
=============================================================================
