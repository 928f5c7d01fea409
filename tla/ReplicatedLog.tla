--------------------------- MODULE ReplicatedLog ---------------------------
(***************************************************************************)
(* What raft-rs promises to the state machines it drives: there is one     *)
(* sequence of chosen entries that only grows, and the state machine of    *)
(* every node is given its entries in order, from the first one on.  A     *)
(* node that restarts begins again with nothing.                           *)
(***************************************************************************)
EXTENDS Sequences, SequencesExt

CONSTANTS Node, Entry

VARIABLES chosen,    \* the entries chosen so far
          learned    \* what each node's state machine was given

vars == <<chosen, learned>>

Init == chosen = <<>> /\ learned = [i \in Node |-> <<>>]

\* A node chooses further entries; its state machine has then seen them all.
Choose(i) ==
    /\ chosen' \in Seq(Entry)
    /\ IsStrictPrefix(chosen, chosen')
    /\ learned' = [learned EXCEPT ![i] = chosen']

\* A node learns more of what has been chosen.
Learn(i) ==
    /\ \E n \in Len(learned[i])..Len(chosen) :
          learned' = [learned EXCEPT ![i] = SubSeq(chosen, 1, n)]
    /\ UNCHANGED chosen

\* A node restarts.
Forget(i) == learned' = [learned EXCEPT ![i] = <<>>] /\ UNCHANGED chosen

Next == \E i \in Node : Choose(i) \/ Learn(i) \/ Forget(i)

Spec == Init /\ [][Next]_vars
=============================================================================
