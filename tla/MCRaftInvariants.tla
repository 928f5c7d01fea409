------------------------- MODULE MCRaftInvariants --------------------------
(* Elections and crashes on a small cluster. *)
EXTENDS RaftInvariants, TLC

Symmetry == Permutations(Node)

\* A vote matters as long as its candidate is in that term, or a node is in it
\* that names the candidate, or a message of the candidate is on its way.  Of
\* any other vote, the voter's own term and voted_for say all ElectionInv says.
Matters(v) ==
    \/ node[v.candidate].current_term = v.term
    \/ \E i \in Node : /\ node[i].current_leader_id = v.candidate
                       /\ node[i].current_term = v.term
    \/ \E m \in msgs : v.candidate \in {m.from, m.to} /\ m.term = v.term

View == <<node, disk, msgs, restarts, decided, {v \in votes : Matters(v)}, counted>>
=============================================================================
