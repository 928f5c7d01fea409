-------------------------- MODULE RaftInvariants ---------------------------
(***************************************************************************)
(* The inductive invariants behind the safety of elections and of the      *)
(* leader's bookkeeping, when storage does not fail.  They are checked by  *)
(* TLC as invariants of a run and proved in RaftBoundsProofs and           *)
(* RaftElectionProofs.                                                     *)
(***************************************************************************)
EXTENDS Raft

\* Between two handlers, storage holds the node's current persistent state.
Persisted == disk = [i \in Node |-> PersistentState(node[i])]

\* No node sends to itself.
NoSelfMessage == \A m \in msgs : m.from # m.to

\* A node in state n has left term t, or is in it past its candidacy and, if it
\* still leads, holds at least k entries.
Holds(n, t, k) ==
    \/ n.current_term > t
    \/ /\ n.current_term = t
       /\ n.role # "Candidate"
       /\ n.role = "Leader" => k <= Len(n.log)

\* Append traffic of a leader never speaks of more entries than it has.
AppendsInBounds ==
    \A m \in msgs :
        /\ m.type = "AppendRequest"
             => Holds(node[m.from], m.term, m.prev_log_index + Len(m.entries))
        /\ m.type = "AppendResponse"
             => m.match_index = 0 \/ Holds(node[m.to], m.term, m.match_index)

\* A leader's next_index and match_index stay within its log.
IndexesInBounds ==
    \A i \in Node : Leader(i) =>
        \A j \in Node : /\ node[i].next_index[j] \in 1..(Len(node[i].log) + 1)
                        /\ node[i].match_index[j] <= Len(node[i].log)

\* The voter still stands by this vote, or has left its term.
VoteInForce(v) ==
    \/ node[v.voter].current_term > v.term
    \/ /\ node[v.voter].current_term = v.term
       /\ node[v.voter].voted_for = v.candidate

OneVotePerTerm ==
    /\ \A v \in votes : VoteInForce(v)
    /\ \A v, w \in votes : v.voter = w.voter /\ v.term = w.term => v = w

CandidateIn(i, t) == node[i].role = "Candidate" /\ node[i].current_term = t

\* votes_received counts distinct voters, although the code does not remember
\* whose votes it counted.
CountIsExact ==
    \A i \in Node : node[i].role = "Candidate" =>
        /\ node[i].votes_received = Cardinality(counted[i])
        /\ \A j \in counted[i] : Vote(j, node[i].current_term, i) \in votes

IsGrant(m) == m.type = "VoteResponse" /\ m.vote_granted

\* A granted vote on its way was cast and has not been counted yet.
GrantsAreFresh ==
    \A m \in msgs : IsGrant(m) =>
        /\ Vote(m.from, m.term, m.to) \in votes
        /\ node[m.to].current_term >= m.term
        /\ CandidateIn(m.to, m.term) => m.from \notin counted[m.to]

\* A vote request on its way has not been answered with a granted vote, and is
\* the only one of its candidacy to that node.
RequestsAreFresh ==
    \A m \in msgs : m.type = "VoteRequest" =>
        /\ node[m.from].current_term >= m.term
        /\ CandidateIn(m.from, m.term) => m.to \notin counted[m.from]
        /\ \A q \in msgs :
              /\ IsGrant(q) /\ q.from = m.to /\ q.to = m.from => q.term # m.term
              /\ q.type = "VoteRequest" /\ q.from = m.from /\ q.to = m.to
                   /\ q.term = m.term => q = m

\* A majority of the votes cast in term t is for i.
Elected(cast, i, t) ==
    \E Q \in SUBSET Node : /\ has_majority(Cardinality(Q), ClusterSize)
                           /\ \A j \in Q : Vote(j, t, i) \in cast

\* Whoever leads, sends append requests or is named as leader was elected.
OnlyTheElectedLead ==
    /\ \A i \in Node : Leader(i) => Elected(votes, i, node[i].current_term)
    /\ \A m \in msgs : m.type = "AppendRequest" => Elected(votes, m.from, m.term)
    /\ \A i \in Node : node[i].current_leader_id # Nil
          => Elected(votes, node[i].current_leader_id, node[i].current_term)

\* The leader's bookkeeping is sound: storage mirrors every node between two
\* handlers (persist_state), and neither next_index and match_index of a leader
\* nor any append traffic of the term it leads, however old, speaks of entries
\* beyond its log.  TypeOK and HeartbeatInBounds rest on it.
BoundsInv ==
    TypeOK /\ Persisted /\ NoSelfMessage /\ AppendsInBounds /\ IndexesInBounds

\* Every vote cast in vote_request or become_candidate stays in force, the
\* number votes_received is the number of distinct voters although vote_response
\* does not look at the sender, and whoever leads, sends append requests or is
\* named as leader was elected by a majority.  ElectionSafety rests on it.
ElectionInv ==
    /\ OneVotePerTerm /\ CountIsExact /\ GrantsAreFresh /\ RequestsAreFresh
    /\ OnlyTheElectedLead
=============================================================================
