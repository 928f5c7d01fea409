------------------------ MODULE RaftElectionProofs -------------------------
(***************************************************************************)
(* Elections of a cluster of any size: a node votes once per term, a       *)
(* candidate counts every voter once, and a term has one leader.  Storage  *)
(* does not fail.                                                          *)
(***************************************************************************)
EXTENDS RaftBoundsProofs, FiniteSetTheorems

-----------------------------------------------------------------------------
(* How a step may change an election. *)

\* The term never goes back, and a vote is kept as long as its term lasts.
Stands(n, r) ==
    /\ r.current_term >= n.current_term
    /\ r.current_term = n.current_term /\ n.voted_for # Nil
         => r.voted_for = n.voted_for

VotesStand == \A i \in Node : Stands(node[i], node'[i])

\* Node i leads, or names a leader, only when that node was elected.
LeadsLawfully(i, n, cast) ==
    /\ n.role = "Leader" => Elected(cast, i, n.current_term)
    /\ n.current_leader_id # Nil
         => Elected(cast, n.current_leader_id, n.current_term)

\* A message that belongs to the candidacy of i and names the voter j.
About(m, i, j) ==
    \/ IsGrant(m) /\ m.to = i /\ m.from = j
    \/ m.type = "VoteRequest" /\ m.from = i /\ m.to = j

\* A candidate has just started a new term, or is the candidate it was and
\* counted nobody of whom a message of this candidacy is still on its way.
Recounts(i) ==
    node'[i].role = "Candidate" =>
        \/ node'[i].current_term > node[i].current_term
        \/ /\ node[i].role = "Candidate"
           /\ node'[i].current_term = node[i].current_term
           /\ \A m \in msgs', j \in Node :
                 About(m, i, j) /\ m.term = node[i].current_term
                   => (j \in counted'[i] => j \in counted[i])

\* No message of m's candidacy, other than m, to or from the same voter.
Alone(m, i, j) ==
    \A q \in msgs' : About(q, i, j) /\ q.term = m.term => q = m

\* A message of a candidacy of i that was sent to or by the voter j is fresh.
FreshlySent(m, i, j) ==
    /\ node'[i].current_term >= m.term
    /\ node'[i].role = "Candidate" /\ node'[i].current_term = m.term
         => j \notin counted'[i]
    /\ Alone(m, i, j)

\* A message a handler sends.
SentLawfully(m) ==
    /\ m.type = "AppendRequest" => Elected(votes', m.from, m.term)
    /\ m.type = "VoteRequest" => FreshlySent(m, m.from, m.to)
    /\ IsGrant(m) => /\ Vote(m.from, m.term, m.to) \in votes'
                     /\ FreshlySent(m, m.to, m.from)

\* A message that is neither a vote nor a request for one.
NoVoting(m) == m.type # "VoteRequest" /\ ~IsGrant(m)

\* More votes elect no fewer candidates.
LEMMA ElectedGrows ==
    ASSUME NEW cast, NEW more, cast \subseteq more, NEW i, NEW t,
           Elected(cast, i, t)
    PROVE  Elected(more, i, t)
BY DEF Elected

\* Two granted votes of one voter to one candidate in one term are one message.
LEMMA GrantIsOneMessage ==
    ASSUME NEW m \in Message, NEW q \in Message, IsGrant(m), IsGrant(q),
           m.from = q.from, m.to = q.to, m.term = q.term
    PROVE  m = q
<1> DEFINE R == [type : {"VoteResponse"}, from : Node, to : Node, term : Nat,
                 vote_granted : BOOLEAN]
<1>1. m \in R /\ q \in R BY DEF IsGrant, Message
<1>2. m.vote_granted = TRUE /\ q.vote_granted = TRUE BY <1>1 DEF IsGrant
<1>3. m.type = q.type BY DEF IsGrant
<1> QED BY <1>1, <1>2, <1>3

\* What a step must do to keep ElectionInv.
LEMMA ElectionStep ==
    ASSUME BoundsInv, BoundsInv', ElectionInv, votes \subseteq votes',
           OneVotePerTerm', CountIsExact',
           \A i \in Node : /\ node'[i].current_term >= node[i].current_term
                           /\ Recounts(i) /\ LeadsLawfully(i, node'[i], votes'),
           \A m \in msgs' : m \in msgs \/ SentLawfully(m)
    PROVE  ElectionInv'
<1>1. GrantsAreFresh /\ RequestsAreFresh /\ OnlyTheElectedLead
  BY DEF ElectionInv
<1>2. /\ \A m \in msgs : m.from \in Node /\ m.to \in Node /\ m.term \in Nat
      /\ \A m \in msgs' : m.from \in Node /\ m.to \in Node /\ m.term \in Nat
      /\ \A i \in Node : node[i].current_term \in Nat /\ node'[i].current_term \in Nat
  BY DEF BoundsInv, TypeOK, Message, NodeState
<1>3. ASSUME NEW m \in msgs, NEW i \in Node, NEW j \in Node, m \in msgs',
             About(m, i, j), node[i].current_term >= m.term,
             CandidateIn(i, m.term) => j \notin counted[i]
      PROVE  /\ node'[i].current_term >= m.term
             /\ node'[i].role = "Candidate" /\ node'[i].current_term = m.term
                  => j \notin counted'[i]
  BY <1>2, <1>3 DEF Recounts, CandidateIn
<1>4. GrantsAreFresh'
  <2> SUFFICES ASSUME NEW m \in msgs', IsGrant(m)
               PROVE  /\ Vote(m.from, m.term, m.to) \in votes'
                      /\ node'[m.to].current_term >= m.term
                      /\ node'[m.to].role = "Candidate"
                           /\ node'[m.to].current_term = m.term
                           => m.from \notin counted'[m.to]
    BY DEF GrantsAreFresh, CandidateIn, IsGrant
  <2>1. CASE m \in msgs
    <3>1. /\ Vote(m.from, m.term, m.to) \in votes
          /\ node[m.to].current_term >= m.term
          /\ CandidateIn(m.to, m.term) => m.from \notin counted[m.to]
      BY <1>1, <2>1 DEF GrantsAreFresh
    <3>2. About(m, m.to, m.from) BY DEF About
    <3> QED BY <1>2, <1>3, <2>1, <3>1, <3>2
  <2>2. CASE SentLawfully(m)
    BY <2>2 DEF SentLawfully, FreshlySent
  <2> QED BY <2>1, <2>2
<1>5. RequestsAreFresh'
  <2> SUFFICES ASSUME NEW m \in msgs', m.type = "VoteRequest"
               PROVE  /\ node'[m.from].current_term >= m.term
                      /\ node'[m.from].role = "Candidate"
                           /\ node'[m.from].current_term = m.term
                           => m.to \notin counted'[m.from]
                      /\ \A q \in msgs' :
                           /\ IsGrant(q) /\ q.from = m.to /\ q.to = m.from
                                => q.term # m.term
                           /\ q.type = "VoteRequest" /\ q.from = m.from
                                /\ q.to = m.to /\ q.term = m.term => q = m
    BY DEF RequestsAreFresh, CandidateIn, IsGrant
  <2>0. About(m, m.from, m.to) /\ ~IsGrant(m) BY DEF About, IsGrant
  <2>1. CASE SentLawfully(m)
    <3>1. FreshlySent(m, m.from, m.to) BY <2>1 DEF SentLawfully
    <3> QED BY <3>1, <2>0 DEF FreshlySent, Alone, About
  <2>2. CASE m \in msgs
    <3>1. /\ node[m.from].current_term >= m.term
          /\ CandidateIn(m.from, m.term) => m.to \notin counted[m.from]
      BY <1>1, <2>2 DEF RequestsAreFresh
    <3>2. /\ node'[m.from].current_term >= m.term
          /\ node'[m.from].role = "Candidate"
                /\ node'[m.from].current_term = m.term
                => m.to \notin counted'[m.from]
      BY <1>2, <1>3, <2>0, <2>2, <3>1
    <3>3. ASSUME NEW q \in msgs', IsGrant(q), q.from = m.to, q.to = m.from
          PROVE  q.term # m.term
      <4>1. CASE q \in msgs BY <1>1, <2>2, <3>3, <4>1 DEF RequestsAreFresh
      <4>2. CASE SentLawfully(q)
        <5>1. Alone(q, m.from, m.to) BY <3>3, <4>2 DEF SentLawfully, FreshlySent
        <5> QED BY <5>1, <2>0, <3>3 DEF Alone
      <4> QED BY <4>1, <4>2
    <3>4. ASSUME NEW q \in msgs', q.type = "VoteRequest", q.from = m.from,
                 q.to = m.to, q.term = m.term
          PROVE  q = m
      <4>1. CASE q \in msgs BY <1>1, <2>2, <3>4, <4>1 DEF RequestsAreFresh
      <4>2. CASE SentLawfully(q)
        <5>1. Alone(q, m.from, m.to) BY <3>4, <4>2 DEF SentLawfully, FreshlySent
        <5> QED BY <5>1, <2>0, <3>4 DEF Alone
      <4> QED BY <4>1, <4>2
    <3> QED BY <3>2, <3>3, <3>4
  <2> QED BY <2>1, <2>2
<1>6. OnlyTheElectedLead'
  <2>1. \A i \in Node : node'[i].role = "Leader"
                          => Elected(votes', i, node'[i].current_term)
    BY DEF LeadsLawfully
  <2>2. ASSUME NEW m \in msgs', m.type = "AppendRequest"
        PROVE  Elected(votes', m.from, m.term)
    <3>1. CASE m \in msgs
      <4>1. Elected(votes, m.from, m.term)
        BY <1>1, <2>2, <3>1 DEF OnlyTheElectedLead
      <4> QED BY <4>1, ElectedGrows
    <3>2. CASE SentLawfully(m) BY <2>2, <3>2 DEF SentLawfully
    <3> QED BY <3>1, <3>2
  <2>3. \A i \in Node : node'[i].current_leader_id # Nil
          => Elected(votes', node'[i].current_leader_id, node'[i].current_term)
    BY DEF LeadsLawfully
  <2> QED BY <2>1, <2>2, <2>3 DEF OnlyTheElectedLead, Leader
<1> QED BY <1>4, <1>5, <1>6 DEF ElectionInv

\* When no vote is cast, the votes that were cast stay in force.
LEMMA NoVoteCast ==
    ASSUME BoundsInv, BoundsInv', OneVotePerTerm, votes' = votes, VotesStand
    PROVE  OneVotePerTerm'
<1>1. /\ \A v \in votes : v.voter \in Node /\ v.term \in Nat /\ v.candidate \in Node
      /\ \A i \in Node : node[i].current_term \in Nat /\ node'[i].current_term \in Nat
  BY DEF BoundsInv, TypeOK, NodeState
<1>2. ASSUME NEW v \in votes
      PROVE  \/ node'[v.voter].current_term > v.term
             \/ /\ node'[v.voter].current_term = v.term
                /\ node'[v.voter].voted_for = v.candidate
  <2>1. Stands(node[v.voter], node'[v.voter]) BY <1>1 DEF VotesStand
  <2>2. \/ node[v.voter].current_term > v.term
        \/ /\ node[v.voter].current_term = v.term
           /\ node[v.voter].voted_for = v.candidate
    BY DEF OneVotePerTerm, VoteInForce
  <2>3. v.candidate # Nil BY <1>1, NodeAssumption
  <2> QED BY <1>1, <2>1, <2>2, <2>3 DEF Stands
<1> QED BY <1>2 DEF OneVotePerTerm, VoteInForce

\* What a node and the voters it counted are after a handler.
LEMMA FinishNode ==
    ASSUME BoundsInv, NEW i \in Node, NEW r, NEW cl, NEW voters,
           Finish(i, r, cl, voters)
    PROVE  /\ node'[i] = r /\ counted'[i] = voters
           /\ \A j \in Node \ {i} : node'[j] = node[j] /\ counted'[j] = counted[j]
<1>1. /\ node' = [node EXCEPT ![i] = r]
      /\ counted' = [counted EXCEPT ![i] = voters]
  BY DEF Finish
<1> QED BY <1>1, StateContext

\* A node that does not move stands, recounts nothing and leads as before.
LEMMA StillNode ==
    ASSUME BoundsInv, ElectionInv, NEW i \in Node, node'[i] = node[i],
           counted'[i] = counted[i], votes \subseteq votes'
    PROVE  /\ Stands(node[i], node'[i]) /\ Recounts(i)
           /\ LeadsLawfully(i, node'[i], votes')
<1>1. node[i].current_term \in Nat
  BY StateContext DEF NodeState
<1>2. Stands(node[i], node'[i]) BY <1>1 DEF Stands
<1>3. Recounts(i) BY DEF Recounts
<1>4. LeadsLawfully(i, node[i], votes)
  BY DEF ElectionInv, OnlyTheElectedLead, Leader, LeadsLawfully
<1>5. LeadsLawfully(i, node'[i], votes')
  BY <1>4, ElectedGrows DEF LeadsLawfully
<1> QED BY <1>2, <1>3, <1>5

\* A step of one node that casts no vote, starts no candidacy, counts no vote
\* and sends neither votes nor requests for them.
LEMMA CalmStep ==
    ASSUME BoundsInv, BoundsInv', ElectionInv, NEW i \in Node, NEW r, NEW cl,
           NEW voters, Finish(i, r, cl, voters), votes' = votes,
           Stands(node[i], r), LeadsLawfully(i, r, votes),
           r.role = "Candidate" => /\ node[i].role = "Candidate"
                                   /\ r.current_term = node[i].current_term
                                   /\ r.votes_received = node[i].votes_received
                                   /\ voters = counted[i],
           \A m \in msgs' : m \in msgs \/ (SentLawfully(m) /\ NoVoting(m))
    PROVE  ElectionInv' /\ VotesStand
<1>1. /\ node'[i] = r /\ counted'[i] = voters
      /\ \A j \in Node \ {i} : node'[j] = node[j] /\ counted'[j] = counted[j]
  BY FinishNode
<1>2. \A j \in Node : /\ Stands(node[j], node'[j])
                      /\ Recounts(j) /\ LeadsLawfully(j, node'[j], votes')
  <2> TAKE j \in Node
  <2>1. CASE j = i
    <3>1. Recounts(i) BY <1>1 DEF Recounts
    <3> QED BY <1>1, <2>1, <3>1
  <2>2. CASE j # i BY <1>1, <2>2, StillNode
  <2> QED BY <2>1, <2>2
<1>3. VotesStand BY <1>2 DEF VotesStand
<1>4. OneVotePerTerm' BY <1>3, NoVoteCast DEF ElectionInv
<1>5. CountIsExact'
  <2> SUFFICES ASSUME NEW j \in Node, node'[j].role = "Candidate"
               PROVE  /\ node'[j].votes_received = Cardinality(counted'[j])
                      /\ \A k \in counted'[j] :
                            Vote(k, node'[j].current_term, j) \in votes
    BY DEF CountIsExact, Vote
  <2>1. /\ node[j].role = "Candidate" /\ counted'[j] = counted[j]
        /\ node'[j].votes_received = node[j].votes_received
        /\ node'[j].current_term = node[j].current_term
    <3>1. CASE j = i BY <1>1, <3>1
    <3>2. CASE j # i BY <1>1, <3>2
    <3> QED BY <3>1, <3>2
  <2> QED BY <2>1 DEF ElectionInv, CountIsExact
<1>6. ElectionInv'
  <2>1. \A j \in Node : /\ node'[j].current_term >= node[j].current_term
                        /\ Recounts(j) /\ LeadsLawfully(j, node'[j], votes')
    BY <1>2 DEF Stands
  <2>2. votes \subseteq votes' OBVIOUS
  <2> QED BY <1>4, <1>5, <2>1, <2>2, ElectionStep
<1> QED BY <1>3, <1>6

\* A step that changes no node, no count and no vote.
LEMMA StillStep ==
    ASSUME BoundsInv, BoundsInv', ElectionInv, UNCHANGED <<node, counted, votes>>,
           \A m \in msgs' : m \in msgs \/ (SentLawfully(m) /\ NoVoting(m))
    PROVE  ElectionInv' /\ VotesStand
<1>1. votes \subseteq votes' OBVIOUS
<1>2. \A j \in Node : /\ Stands(node[j], node'[j])
                      /\ Recounts(j) /\ LeadsLawfully(j, node'[j], votes')
  <2> TAKE j \in Node
  <2>1. node'[j] = node[j] /\ counted'[j] = counted[j] OBVIOUS
  <2> QED BY <1>1, <2>1, StillNode
<1>3. VotesStand BY <1>2 DEF VotesStand
<1>4. OneVotePerTerm' BY <1>3, NoVoteCast DEF ElectionInv
<1>5. CountIsExact' BY DEF ElectionInv, CountIsExact, Vote
<1>6. \A j \in Node : /\ node'[j].current_term >= node[j].current_term
                      /\ Recounts(j) /\ LeadsLawfully(j, node'[j], votes')
  BY <1>2 DEF Stands
<1>7. ElectionInv' BY <1>1, <1>4, <1>5, <1>6, ElectionStep
<1> QED BY <1>3, <1>7

-----------------------------------------------------------------------------
(* What handlers send. *)

\* The append requests of an elected node claim nothing that was not elected.
LEMMA HeartbeatsLawful ==
    ASSUME NEW i, NEW r, Elected(votes', i, r.current_term)
    PROVE  \A m \in on_heartbeat(i, r) : SentLawfully(m) /\ NoVoting(m)
<1> SUFFICES ASSUME NEW m \in on_heartbeat(i, r)
             PROVE  SentLawfully(m) /\ NoVoting(m)
  OBVIOUS
<1>1. PICK j \in Peers(i) : m = AppendRequest(i, j, r) BY DEF on_heartbeat
<1>2. m.type = "AppendRequest" /\ m.from = i /\ m.term = r.current_term
  BY <1>1 DEF AppendRequest
<1>3. NoVoting(m) BY <1>2 DEF NoVoting, IsGrant
<1> QED BY <1>2, <1>3 DEF SentLawfully, NoVoting, IsGrant

\* A refused vote is neither a grant nor a request.
LEMMA RefusalLawful ==
    ASSUME NEW i, NEW j, NEW t
    PROVE  /\ SentLawfully(VoteResponse(i, j, t, FALSE))
           /\ NoVoting(VoteResponse(i, j, t, FALSE))
BY DEF SentLawfully, NoVoting, IsGrant, VoteResponse

\* An answer to an append request says nothing about elections.
LEMMA AppendResponseLawful ==
    ASSUME NEW i, NEW j, NEW t, NEW k, NEW ok
    PROVE  /\ SentLawfully(AppendResponse(i, j, t, k, ok))
           /\ NoVoting(AppendResponse(i, j, t, k, ok))
BY DEF SentLawfully, NoVoting, IsGrant, AppendResponse

\* Votes and their requests are handled once.
LEMMA ReceiveOnce ==
    ASSUME NEW m, NEW out, Receive(m, out),
           m.type \in {"VoteRequest", "VoteResponse"}
    PROVE  msgs' \subseteq (msgs \ {m}) \cup out
<1>1. send_message(msgs \ {m}, out) BY DEF Receive
<1> QED BY <1>1, SendAdds

\* What a node knows of its election before a step.
LEMMA LawfulNode ==
    ASSUME ElectionInv, NEW i \in Node
    PROVE  LeadsLawfully(i, node[i], votes)
BY DEF ElectionInv, OnlyTheElectedLead, Leader, LeadsLawfully

\* A follower that knows no leader claims nothing.
LEMMA FollowerIsLawful ==
    ASSUME NEW i, NEW r, NEW cast, r.role = "Follower",
           r.current_leader_id = Nil
    PROVE  LeadsLawfully(i, r, cast)
BY DEF LeadsLawfully

-----------------------------------------------------------------------------
(* The actions, one lemma each. *)

\* on_heartbeat: only an elected node sends append requests.
LEMMA HeartbeatElection ==
    ASSUME BoundsInv, BoundsInv', ElectionInv, NEW i \in Node, heartbeat(i)
    PROVE  ElectionInv' /\ VotesStand
<1>1. /\ node[i].role = "Leader" /\ send_message(msgs, on_heartbeat(i, node[i]))
      /\ UNCHANGED <<node, counted, votes>>
  BY DEF heartbeat
<1>2. Elected(votes', i, node[i].current_term)
  BY <1>1, LawfulNode DEF LeadsLawfully
<1>3. \A m \in on_heartbeat(i, node[i]) : SentLawfully(m) /\ NoVoting(m)
  BY <1>2, HeartbeatsLawful
<1>4. msgs' \subseteq msgs \cup on_heartbeat(i, node[i]) BY <1>1, SendAdds
<1>5. \A m \in msgs' : m \in msgs \/ (SentLawfully(m) /\ NoVoting(m))
  BY <1>3, <1>4
<1> QED BY <1>1, <1>5, StillStep

\* vote_request of an older term: the refusal changes nothing.
LEMMA VoteRequestStaleElection ==
    ASSUME BoundsInv, BoundsInv', ElectionInv, NEW m \in msgs,
           vote_request_stale(m)
    PROVE  ElectionInv' /\ VotesStand
<1> DEFINE q == VoteResponse(m.to, m.from, node[m.to].current_term, FALSE)
<1>1. Receive(m, {q}) /\ UNCHANGED <<node, counted, votes>>
  BY DEF vote_request_stale
<1>2. SentLawfully(q) /\ NoVoting(q) BY RefusalLawful
<1> HIDE DEF q
<1>3. msgs' \subseteq msgs \cup {q} BY <1>1, ReceiveAdds
<1>4. \A x \in msgs' : x \in msgs \/ (SentLawfully(x) /\ NoVoting(x))
  BY <1>2, <1>3
<1> QED BY <1>1, <1>4, StillStep

\* A node that refuses its vote, possibly in a term it has just learned of.
LEMMA VoteRequestRejectElection ==
    ASSUME BoundsInv, BoundsInv', ElectionInv, NEW m \in msgs,
           vote_request_reject(m)
    PROVE  ElectionInv' /\ VotesStand
<1> DEFINE i == m.to
           r == Observed(node[i], m.term)
           q == VoteResponse(i, m.from, r.current_term, FALSE)
<1>1. /\ i \in Node /\ m.term \in Nat
      /\ node[i] \in NodeState /\ node[i].current_term \in Nat
  BY HandlerContext
<1>2. /\ m.term >= node[i].current_term /\ Receive(m, {q})
      /\ Finish(i, r, client, VotersKept(m)) /\ votes' = votes
  BY DEF vote_request_reject
<1>3. /\ r.current_term = m.term
      /\ m.term > node[i].current_term => r.role = "Follower" /\ r.current_leader_id = Nil
      /\ m.term = node[i].current_term => r = node[i]
  <2> HIDE DEF i
  <2> QED BY <1>1, <1>2, ObservedEvolves
<1>4. SentLawfully(q) /\ NoVoting(q) BY RefusalLawful
<1>5. m.term = node[i].current_term => VotersKept(m) = counted[i]
  BY <1>1 DEF VotersKept
<1> HIDE DEF i, r, q
<1>6. Stands(node[i], r) BY <1>1, <1>2, <1>3 DEF Stands
<1>7. LeadsLawfully(i, r, votes)
  <2>1. CASE m.term > node[i].current_term BY <1>3, <2>1, FollowerIsLawful
  <2>2. CASE m.term = node[i].current_term BY <1>1, <1>3, <2>2, LawfulNode
  <2> QED BY <1>1, <1>2, <2>1, <2>2
<1>8. r.role = "Candidate" => /\ node[i].role = "Candidate"
                              /\ r.current_term = node[i].current_term
                              /\ r.votes_received = node[i].votes_received
                              /\ VotersKept(m) = counted[i]
  BY <1>1, <1>2, <1>3, <1>5
<1>9. \A x \in msgs' : x \in msgs \/ (SentLawfully(x) /\ NoVoting(x))
  <2>1. msgs' \subseteq msgs \cup {q} BY <1>2, ReceiveAdds
  <2> QED BY <1>4, <2>1
<1> QED BY <1>1, <1>2, <1>6, <1>7, <1>8, <1>9, CalmStep

\* A response of a later term: the votes of the term left behind stand.
LEMMA StepDownElection ==
    ASSUME BoundsInv, BoundsInv', ElectionInv, NEW m \in msgs, step_down(m)
    PROVE  ElectionInv' /\ VotesStand
<1> DEFINE i == m.to
           r == become_follower(node[i], m.term)
<1>1. /\ i \in Node /\ m.term \in Nat
      /\ node[i] \in NodeState /\ node[i].current_term \in Nat
  BY HandlerContext
<1>2. /\ m.term > node[i].current_term /\ Receive(m, {})
      /\ Finish(i, r, client, {}) /\ votes' = votes
  BY DEF step_down
<1>3. /\ r.current_term = m.term /\ r.role = "Follower"
      /\ r.current_leader_id = Nil
  <2> HIDE DEF i
  <2> QED BY <1>1, <1>2, BecomeFollower
<1> HIDE DEF i, r
<1>4. Stands(node[i], r) BY <1>1, <1>2, <1>3 DEF Stands
<1>5. LeadsLawfully(i, r, votes) BY <1>3, FollowerIsLawful
<1>6. \A x \in msgs' : x \in msgs
  <2>1. msgs' \subseteq msgs \cup {} BY <1>2, ReceiveAdds
  <2> QED BY <2>1
<1> QED BY <1>1, <1>2, <1>3, <1>4, <1>5, <1>6, CalmStep

\* A response nothing is done with.
LEMMA IgnoreElection ==
    ASSUME BoundsInv, BoundsInv', ElectionInv, NEW m, ignore(m)
    PROVE  ElectionInv' /\ VotesStand
<1>1. Receive(m, {}) /\ UNCHANGED <<node, counted, votes>> BY DEF ignore
<1>2. \A x \in msgs' : x \in msgs
  <2>1. msgs' \subseteq msgs \cup {} BY <1>1, ReceiveAdds
  <2> QED BY <2>1
<1> QED BY <1>1, <1>2, StillStep

\* append_request of an older term: the refusal changes nothing.
LEMMA AppendRequestStaleElection ==
    ASSUME BoundsInv, BoundsInv', ElectionInv, NEW m \in msgs,
           append_request_stale(m)
    PROVE  ElectionInv' /\ VotesStand
<1> DEFINE q == AppendResponse(m.to, m.from, node[m.to].current_term, 0, FALSE)
<1>1. Receive(m, {q}) /\ UNCHANGED <<node, counted, votes>>
  BY DEF append_request_stale
<1>2. SentLawfully(q) /\ NoVoting(q) BY AppendResponseLawful
<1> HIDE DEF q
<1>3. msgs' \subseteq msgs \cup {q} BY <1>1, ReceiveAdds
<1>4. \A x \in msgs' : x \in msgs \/ (SentLawfully(x) /\ NoVoting(x))
  BY <1>2, <1>3
<1> QED BY <1>1, <1>4, StillStep

\* A node that looks at an append request names its sender as the leader only
\* when it names nobody else in that term.
LEMMA FollowingElection ==
    ASSUME BoundsInv, ElectionInv, NEW m \in msgs, m.type = "AppendRequest",
           Current(m), NEW r, NEW f, f = Following(node[m.to], m),
           r.current_term = f.current_term, r.voted_for = f.voted_for,
           r.role = f.role, r.current_leader_id = f.current_leader_id
    PROVE  /\ Stands(node[m.to], r) /\ LeadsLawfully(m.to, r, votes)
           /\ r.role = "Follower"
<1> DEFINE n == node[m.to]
<1>1. /\ m.to \in Node /\ m.term \in Nat /\ n.current_term \in Nat
      /\ m.term >= n.current_term
  BY HandlerContext DEF Current
<1>2. /\ r.current_term = m.term /\ r.role = "Follower"
      /\ r.voted_for = IF m.term > n.current_term THEN Nil ELSE n.voted_for
      /\ r.current_leader_id = IF StepsDown(n, m) \/ n.current_leader_id = Nil
                               THEN m.from ELSE n.current_leader_id
  BY FollowingEvolves
<1>3. Elected(votes, m.from, m.term)
  BY DEF ElectionInv, OnlyTheElectedLead
<1>4. n.current_leader_id # Nil => Elected(votes, n.current_leader_id, n.current_term)
  BY <1>1 DEF ElectionInv, OnlyTheElectedLead
<1> HIDE DEF n
<1>5. Stands(n, r) BY <1>1, <1>2 DEF Stands
<1>6. ~StepsDown(n, m) => n.current_term = m.term
  BY <1>1 DEF StepsDown
<1>7. LeadsLawfully(m.to, r, votes)
  <2>1. CASE StepsDown(n, m) \/ n.current_leader_id = Nil
    BY <1>2, <1>3, <2>1 DEF LeadsLawfully
  <2>2. CASE ~(StepsDown(n, m) \/ n.current_leader_id = Nil)
    BY <1>2, <1>4, <1>6, <2>2 DEF LeadsLawfully
  <2> QED BY <2>1, <2>2
<1> QED BY <1>2, <1>5, <1>7 DEF n

\* append_request without the previous entry: the sender becomes the hint.
LEMMA AppendRequestMismatchElection ==
    ASSUME BoundsInv, BoundsInv', ElectionInv, NEW m \in msgs,
           m.type = "AppendRequest", Current(m), append_request_mismatch(m),
           UNCHANGED votes
    PROVE  ElectionInv' /\ VotesStand
<1> DEFINE i == m.to
           r == Following(node[i], m)
           hint == IF m.prev_log_index > Len(r.log) THEN Len(r.log)
                   ELSE m.prev_log_index
           q == AppendResponse(i, m.from, r.current_term, hint, FALSE)
<1>1. i \in Node BY HandlerContext
<1>2. Receive(m, {q}) /\ Finish(i, r, client, {})
  BY DEF append_request_mismatch
<1>3. SentLawfully(q) /\ NoVoting(q) BY AppendResponseLawful
<1>4. Stands(node[i], r) /\ LeadsLawfully(i, r, votes) /\ r.role = "Follower"
  BY FollowingElection
<1> HIDE DEF i, r, hint, q
<1>5. \A x \in msgs' : x \in msgs \/ (SentLawfully(x) /\ NoVoting(x))
  <2>1. msgs' \subseteq msgs \cup {q} BY <1>2, ReceiveAdds
  <2> QED BY <1>3, <2>1
<1> QED BY <1>1, <1>2, <1>4, <1>5, CalmStep

\* append_request with the previous entry: the sender becomes the hint.
LEMMA AppendRequestAcceptElection ==
    ASSUME BoundsInv, BoundsInv', ElectionInv, NEW m \in msgs,
           m.type = "AppendRequest", Current(m), append_request_accept(m),
           UNCHANGED votes
    PROVE  ElectionInv' /\ VotesStand
<1> DEFINE i == m.to
           f == Following(node[i], m)
           log == AppendEntries(f.log, m.prev_log_index, m.entries)
           commit == IF m.leader_commit > f.commit_index
                     THEN Min({m.leader_commit, Len(log)}) ELSE f.commit_index
           n == [f EXCEPT !.log = log, !.commit_index = commit]
           r == apply_committed(n)
           q == AppendResponse(i, m.from, n.current_term, last_match_index(m, log), TRUE)
<1>1. i \in Node BY HandlerContext
<1>2. Receive(m, {q}) /\ Finish(i, r, Answer(client, replies(n)), {})
  BY DEF append_request_accept
<1>3. f \in NodeState BY FollowingEvolves
<1>4. SentLawfully(q) /\ NoVoting(q) BY AppendResponseLawful
<1>5. /\ r.current_term = f.current_term /\ r.voted_for = f.voted_for
      /\ r.role = f.role /\ r.current_leader_id = f.current_leader_id
  <2> HIDE DEF f, log, commit
  <2>1. /\ n.current_term = f.current_term /\ n.voted_for = f.voted_for
        /\ n.role = f.role /\ n.current_leader_id = f.current_leader_id
    BY <1>3 DEF NodeState
  <2>2. DOMAIN n = DOMAIN f BY <1>3 DEF NodeState
  <2>3. DOMAIN f = {"current_term", "voted_for", "log", "role",
                    "current_leader_id", "votes_received", "next_index",
                    "match_index", "commit_index", "applied", "pending_applies"}
    BY <1>3 DEF NodeState
  <2> HIDE DEF n
  <2> QED BY <2>1, <2>2, <2>3 DEF apply_committed
<1> HIDE DEF n, r, q, log, commit
<1>6. Stands(node[i], r) /\ LeadsLawfully(i, r, votes) /\ r.role = "Follower"
  BY <1>5, FollowingElection
<1> HIDE DEF i, f
<1>7. \A x \in msgs' : x \in msgs \/ (SentLawfully(x) /\ NoVoting(x))
  <2>1. msgs' \subseteq msgs \cup {q} BY <1>2, ReceiveAdds
  <2> QED BY <1>4, <2>1
<1> QED BY <1>1, <1>2, <1>6, <1>7, CalmStep

\* A leader whose step leaves its term, vote, role and hint alone.
LEMMA SameLeaderElection ==
    ASSUME BoundsInv, BoundsInv', ElectionInv, NEW i \in Node, NEW r, NEW cl,
           Finish(i, r, cl, {}), votes' = votes, node[i].role = "Leader",
           r.current_term = node[i].current_term,
           r.voted_for = node[i].voted_for, r.role = node[i].role,
           r.current_leader_id = node[i].current_leader_id,
           \A m \in msgs' : m \in msgs \/ m \in on_heartbeat(i, r)
    PROVE  ElectionInv' /\ VotesStand
<1>1. node[i].current_term \in Nat BY StateContext DEF NodeState
<1>2. Stands(node[i], r) BY <1>1 DEF Stands
<1>3. LeadsLawfully(i, r, votes) BY LawfulNode DEF LeadsLawfully
<1>4. Elected(votes', i, r.current_term) BY <1>3 DEF LeadsLawfully
<1>5. \A m \in msgs' : m \in msgs \/ (SentLawfully(m) /\ NoVoting(m))
  BY <1>4, HeartbeatsLawful
<1> QED BY <1>2, <1>3, <1>5, CalmStep

\* append_response: the leader's indexes are no part of the election.
LEMMA AppendResponseElection ==
    ASSUME BoundsInv, BoundsInv', ElectionInv, NEW m \in msgs,
           append_response_handled(m), m.type = "AppendResponse"
    PROVE  ElectionInv' /\ VotesStand
<1> DEFINE i == m.to
           j == m.from
           o == node[i]
           n == IF m.success
                THEN [o EXCEPT !.match_index[j] = m.match_index,
                               !.next_index[j] = m.match_index + 1]
                ELSE [o EXCEPT !.next_index[j] = backoff(m.match_index)]
           r == Commit(n)
<1>1. i \in Node /\ j \in Node /\ o \in NodeState BY HandlerContext
<1>2. /\ o.role = "Leader" /\ Receive(m, {}) /\ votes' = votes
      /\ Finish(i, r, Answer(client, CommitReplies(n)), {})
  BY DEF append_response_handled
<1>3. m.match_index \in Nat /\ m.match_index + 1 \in Nat
      /\ backoff(m.match_index) \in Nat /\ m.success \in BOOLEAN
  <2>1. m.match_index \in Nat /\ m.success \in BOOLEAN
    BY HandlerContext DEF Message
  <2> QED BY <2>1, BackoffType
<1> HIDE DEF i, j, o
<1>4. /\ n \in NodeState /\ n.role = o.role
      /\ n.current_term = o.current_term /\ n.voted_for = o.voted_for
      /\ n.current_leader_id = o.current_leader_id
  BY <1>1, <1>3 DEF NodeState
<1> HIDE DEF n
<1>5. SameCore(n, r) BY <1>4, CommitKeeps
<1> HIDE DEF r
<1>6. /\ r.current_term = o.current_term /\ r.voted_for = o.voted_for
      /\ r.role = o.role /\ r.current_leader_id = o.current_leader_id
  BY <1>4, <1>5 DEF SameCore
<1>7. \A x \in msgs' : x \in msgs
  <2>1. msgs' \subseteq msgs \cup {} BY <1>2, ReceiveAdds
  <2> QED BY <2>1
<1> QED BY <1>1, <1>2, <1>6, <1>7, SameLeaderElection DEF o

\* client_command at a leader: it goes on leading the term it was elected in.
LEMMA ClientCommandAcceptElection ==
    ASSUME BoundsInv, BoundsInv', ElectionInv, NEW i \in Node, NEW c \in Command,
           client_command_accept(i, c)
    PROVE  ElectionInv' /\ VotesStand
<1> DEFINE o == node[i]
           index == apply_index(o.log)
           stale == {p \in o.pending_applies : p.index = index}
           log == Append(o.log, [term |-> o.current_term, command |-> c])
           pending == (o.pending_applies \ stale) \cup {[index |-> index, request |-> c]}
           n == [o EXCEPT !.log = log, !.pending_applies = pending]
           waiting == [Drop(client, stale) EXCEPT ![c] = Status("waiting")]
           r == Commit(n)
<1>1. o \in NodeState /\ o.current_term \in Nat
  BY StateContext DEF NodeState
<1>2. /\ o.role = "Leader" /\ votes' = votes
      /\ Finish(i, r, Answer(waiting, CommitReplies(n)), {})
      /\ send_message(msgs, on_heartbeat(i, r))
  <2>1. n = [node[i] EXCEPT
               !.log = Append(@, [term |-> node[i].current_term, command |-> c]),
               !.pending_applies = (@ \ stale) \cup {[index |-> index, request |-> c]}]
    BY <1>1 DEF NodeState
  <2> QED BY <2>1 DEF client_command_accept
<1> HIDE DEF o
<1>3. log \in Seq(Entry)
  <2>1. o.log \in Seq(Entry) BY <1>1 DEF NodeState
  <2>2. [term |-> o.current_term, command |-> c] \in Entry BY <1>1 DEF Entry
  <2> QED BY <2>1, <2>2, AppendProperties
<1>4. pending \in SUBSET Pending
  <2>1. o.pending_applies \in SUBSET Pending /\ Len(o.log) \in Nat
    BY <1>1, LenProperties DEF NodeState
  <2>2. index \in Nat BY <2>1 DEF apply_index
  <2>3. [index |-> index, request |-> c] \in Pending BY <2>2 DEF Pending
  <2> HIDE DEF index
  <2> QED BY <2>1, <2>3
<1> HIDE DEF log, pending, waiting
<1>5. /\ n \in NodeState /\ n.role = o.role
      /\ n.current_term = o.current_term /\ n.voted_for = o.voted_for
      /\ n.current_leader_id = o.current_leader_id
  BY <1>1, <1>3, <1>4 DEF NodeState
<1> HIDE DEF n
<1>6. SameCore(n, r) BY <1>5, CommitKeeps
<1> HIDE DEF r
<1>7. /\ r.current_term = o.current_term /\ r.voted_for = o.voted_for
      /\ r.role = o.role /\ r.current_leader_id = o.current_leader_id
  BY <1>5, <1>6 DEF SameCore
<1>8. \A x \in msgs' : x \in msgs \/ x \in on_heartbeat(i, r)
  <2>1. msgs' \subseteq msgs \cup on_heartbeat(i, r) BY <1>2, SendAdds
  <2> QED BY <2>1
<1> QED BY <1>2, <1>7, <1>8, SameLeaderElection DEF o

\* client_command elsewhere.
LEMMA ClientCommandRefuseElection ==
    ASSUME BoundsInv, BoundsInv', ElectionInv, NEW i \in Node, NEW c \in Command,
           client_command_refuse(i, c)
    PROVE  ElectionInv' /\ VotesStand
BY StillStep DEF client_command_refuse

\* A restart finds the saved term and vote, and leads nothing.
LEMMA RestartElection ==
    ASSUME BoundsInv, BoundsInv', ElectionInv, NEW i \in Node, restart(i)
    PROVE  ElectionInv' /\ VotesStand
<1> DEFINE r == restore_state(disk[i])
<1>1. /\ Finish(i, r, Drop(client, node[i].pending_applies), {})
      /\ UNCHANGED <<msgs, votes>>
  BY DEF restart
<1>2. disk[i] \in Saved /\ disk[i] = PersistentState(node[i]) /\ node[i] \in NodeState
  BY DEF BoundsInv, TypeOK, Persisted
<1>3. /\ disk[i].current_term = node[i].current_term
      /\ disk[i].voted_for = node[i].voted_for
  BY <1>2 DEF PersistentState
<1>4. node[i].current_term \in Nat BY <1>2 DEF NodeState
<1>5. /\ r.role = "Follower" /\ r.current_term = disk[i].current_term
      /\ r.voted_for = disk[i].voted_for /\ r.current_leader_id = Nil
  <2>1. disk[i].current_term >= node[i].current_term BY <1>3, <1>4
  <2> QED BY <2>1, <1>2, RestoredNode
<1> HIDE DEF r
<1>6. Stands(node[i], r) BY <1>3, <1>4, <1>5 DEF Stands
<1>7. LeadsLawfully(i, r, votes) BY <1>5, FollowerIsLawful
<1> QED BY <1>1, <1>5, <1>6, <1>7, CalmStep

\* A stop between the two saves of a handler: the later term is saved and
\* the vote in it is still free.
LEMMA CrashAfterStepDownElection ==
    ASSUME BoundsInv, BoundsInv', ElectionInv, NEW m \in msgs,
           crash_after_step_down(m)
    PROVE  ElectionInv' /\ VotesStand
<1> DEFINE i == m.to
           n == become_follower(node[i], m.term)
           r == restore_state(PersistentState(n))
<1>1. /\ i \in Node /\ m.term \in Nat
      /\ node[i] \in NodeState /\ node[i].current_term \in Nat
  BY HandlerContext
<1>2. /\ m.term > node[i].current_term /\ Receive(m, {}) /\ votes' = votes
      /\ Finish(i, r, Drop(client, node[i].pending_applies), {})
  BY DEF crash_after_step_down
<1> HIDE DEF i
<1>3. n \in NodeState /\ n.current_term = m.term
  BY <1>1, <1>2, BecomeFollower
<1> HIDE DEF n
<1>4. /\ PersistentState(n) \in Saved
      /\ PersistentState(n).current_term = m.term
  BY <1>3, PersistentType DEF PersistentState
<1>5. /\ r.role = "Follower" /\ r.current_term = m.term
      /\ r.current_leader_id = Nil
  <2>1. PersistentState(n).current_term >= node[i].current_term
    BY <1>1, <1>2, <1>4
  <2> QED BY <2>1, <1>1, <1>4, RestoredNode
<1> HIDE DEF r
<1>6. Stands(node[i], r) BY <1>1, <1>2, <1>5 DEF Stands
<1>7. LeadsLawfully(i, r, votes) BY <1>5, FollowerIsLawful
<1>8. \A x \in msgs' : x \in msgs
  <2>1. msgs' \subseteq msgs \cup {} BY <1>2, ReceiveAdds
  <2> QED BY <2>1
<1> QED BY <1>1, <1>2, <1>5, <1>6, <1>7, <1>8, CalmStep

-----------------------------------------------------------------------------
(* The actions in which votes are cast or counted. *)

\* A vote that a node casts for the candidate it then holds as voted_for.
LEMMA VoteCast ==
    ASSUME BoundsInv, BoundsInv', OneVotePerTerm, VotesStand, NEW i \in Node,
           NEW c \in Node, node'[i].voted_for = c,
           votes' = votes \cup {Vote(i, node'[i].current_term, c)}
    PROVE  OneVotePerTerm'
<1> DEFINE new == Vote(i, node'[i].current_term, c)
<1>1. /\ \A v \in votes : v \in [voter : Node, term : Nat, candidate : Node]
      /\ \A j \in Node : node[j].current_term \in Nat /\ node'[j].current_term \in Nat
  BY DEF BoundsInv, TypeOK, NodeState
<1>2. ASSUME NEW v \in votes
      PROVE  \/ node'[v.voter].current_term > v.term
             \/ /\ node'[v.voter].current_term = v.term
                /\ node'[v.voter].voted_for = v.candidate
  <2>1. Stands(node[v.voter], node'[v.voter]) BY <1>1 DEF VotesStand
  <2>2. \/ node[v.voter].current_term > v.term
        \/ /\ node[v.voter].current_term = v.term
           /\ node[v.voter].voted_for = v.candidate
    BY DEF OneVotePerTerm, VoteInForce
  <2>3. /\ v.candidate # Nil /\ v.term \in Nat
        /\ node[v.voter].current_term \in Nat /\ node'[v.voter].current_term \in Nat
    BY <1>1, NodeAssumption
  <2> QED BY <2>1, <2>2, <2>3 DEF Stands
<1>3. /\ new.voter = i /\ new.term = node'[i].current_term /\ new.candidate = c
  BY DEF Vote
<1>4. ASSUME NEW v \in votes, v.voter = i, v.term = node'[i].current_term
      PROVE  v = new
  <2>1. node'[i].current_term \in Nat BY <1>1
  <2>2. v.candidate = c BY <1>2, <1>4, <2>1
  <2>3. v = [voter |-> v.voter, term |-> v.term, candidate |-> v.candidate]
    BY <1>1
  <2> QED BY <2>2, <2>3, <1>4 DEF Vote
<1> HIDE DEF new
<1>5. votes' = votes \cup {new} BY DEF new
<1>6. \A v \in votes' : \/ node'[v.voter].current_term > v.term
                        \/ /\ node'[v.voter].current_term = v.term
                           /\ node'[v.voter].voted_for = v.candidate
  BY <1>2, <1>3, <1>5
<1>7. \A v, w \in votes' : v.voter = w.voter /\ v.term = w.term => v = w
  <2>1. \A v, w \in votes : v.voter = w.voter /\ v.term = w.term => v = w
    BY DEF OneVotePerTerm
  <2> QED BY <1>3, <1>4, <1>5, <2>1
<1> QED BY <1>6, <1>7 DEF OneVotePerTerm, VoteInForce

\* Counts stay exact when only node i changes and its own count is exact.
LEMMA CountStep ==
    ASSUME ElectionInv, votes \subseteq votes', NEW i \in Node,
           \A j \in Node \ {i} : node'[j] = node[j] /\ counted'[j] = counted[j],
           node'[i].role = "Candidate" =>
               /\ node'[i].votes_received = Cardinality(counted'[i])
               /\ \A k \in counted'[i] : Vote(k, node'[i].current_term, i) \in votes'
    PROVE  CountIsExact'
<1> SUFFICES ASSUME NEW j \in Node, node'[j].role = "Candidate"
             PROVE  /\ node'[j].votes_received = Cardinality(counted'[j])
                    /\ \A k \in counted'[j] :
                          Vote(k, node'[j].current_term, j) \in votes'
  BY DEF CountIsExact, Vote
<1>1. CASE j = i BY <1>1
<1>2. CASE j # i
  <2>1. /\ node[j].votes_received = Cardinality(counted[j])
        /\ \A k \in counted[j] : Vote(k, node[j].current_term, j) \in votes
    BY <1>2 DEF ElectionInv, CountIsExact
  <2> QED BY <1>2, <2>1
<1> QED BY <1>1, <1>2

\* A step of node i that may cast votes, and what it must establish.
LEMMA VotingStep ==
    ASSUME BoundsInv, BoundsInv', ElectionInv, NEW i \in Node, NEW r, NEW cl,
           NEW voters, Finish(i, r, cl, voters), votes \subseteq votes',
           Stands(node[i], r), LeadsLawfully(i, r, votes'), Recounts(i),
           VotesStand => OneVotePerTerm',
           r.role = "Candidate" =>
               /\ r.votes_received = Cardinality(voters)
               /\ \A k \in voters : Vote(k, r.current_term, i) \in votes',
           \A m \in msgs' : m \in msgs \/ SentLawfully(m)
    PROVE  ElectionInv' /\ VotesStand
<1>1. /\ node'[i] = r /\ counted'[i] = voters
      /\ \A j \in Node \ {i} : node'[j] = node[j] /\ counted'[j] = counted[j]
  BY FinishNode
<1>2. \A j \in Node : /\ Stands(node[j], node'[j])
                      /\ Recounts(j) /\ LeadsLawfully(j, node'[j], votes')
  <2> TAKE j \in Node
  <2>1. CASE j = i BY <1>1, <2>1
  <2>2. CASE j # i BY <1>1, <2>2, StillNode
  <2> QED BY <2>1, <2>2
<1>3. VotesStand BY <1>2 DEF VotesStand
<1>4. CountIsExact' BY <1>1, CountStep
<1>5. \A j \in Node : /\ node'[j].current_term >= node[j].current_term
                      /\ Recounts(j) /\ LeadsLawfully(j, node'[j], votes')
  BY <1>2 DEF Stands
<1>6. ElectionInv' BY <1>3, <1>4, <1>5, ElectionStep
<1> QED BY <1>3, <1>6

\* A new candidacy: no message of an earlier one has its term.
LEMMA NewCandidacy ==
    ASSUME BoundsInv, ElectionInv, NEW i \in Node, NEW j \in Node, i # j,
           NEW n \in NodeState, n.current_term > node[i].current_term,
           node'[i] = n, counted'[i] = {i},
           msgs' \subseteq msgs \cup {VoteRequest(i, k, n) : k \in Peers(i)}
    PROVE  SentLawfully(VoteRequest(i, j, n))
<1> DEFINE q == VoteRequest(i, j, n)
<1>1. q.type = "VoteRequest" /\ q.from = i /\ q.to = j /\ q.term = n.current_term
  BY DEF VoteRequest
<1>2. n.current_term \in Nat /\ node[i].current_term \in Nat
  BY StateContext DEF NodeState
<1>3. ASSUME NEW x \in msgs', About(x, i, j), x.term = n.current_term
      PROVE  x = q
  <2>1. CASE x \in msgs
    <3>1. node[i].current_term >= x.term
      BY <1>3, <2>1 DEF About, ElectionInv, GrantsAreFresh, RequestsAreFresh
    <3> QED BY <3>1, <1>2, <1>3
  <2>2. CASE x \notin msgs
    <3>1. PICK k \in Peers(i) : x = VoteRequest(i, k, n) BY <2>2
    <3>2. x.type = "VoteRequest" /\ x.to = k BY <3>1 DEF VoteRequest
    <3>3. k = j BY <1>3, <3>2 DEF About, IsGrant
    <3> QED BY <3>1, <3>3
  <2> QED BY <2>1, <2>2
<1> HIDE DEF q
<1>4. FreshlySent(q, i, j)
  BY <1>1, <1>2, <1>3 DEF FreshlySent, Alone
<1>5. SentLawfully(q) BY <1>1, <1>4 DEF SentLawfully, IsGrant
<1> QED BY <1>5 DEF q

\* become_candidate: a vote in a term the node has never voted in, and the
\* first requests of that candidacy.
LEMMA BecomeCandidateElection ==
    ASSUME BoundsInv, BoundsInv', ElectionInv, NEW i \in Node, become_candidate(i)
    PROVE  ElectionInv' /\ VotesStand
<1> DEFINE n == start_election(i, node[i])
           l == become_leader(n)
           r == Commit(l)
<1>1. node[i] \in NodeState /\ node[i].current_term \in Nat
  BY StateContext DEF NodeState
<1>2. /\ n \in NodeState /\ n.current_term = node[i].current_term + 1
      /\ n.role = "Candidate" /\ n.voted_for = i /\ n.current_leader_id = Nil
      /\ n.votes_received = 1
  BY <1>1, StartElection
<1>3. /\ r.role = "Leader" /\ r.current_term = n.current_term
      /\ r.voted_for = n.voted_for /\ r.current_leader_id = n.current_leader_id
  BY <1>2, NewLeader
<1>4. /\ votes' = votes \cup {Vote(i, n.current_term, i)}
      /\ \/ /\ has_majority(1, ClusterSize)
            /\ Finish(i, r, Answer(client, CommitReplies(l)), {})
            /\ send_message(msgs, on_heartbeat(i, r))
         \/ /\ Finish(i, n, client, {i})
            /\ send_message(msgs, {VoteRequest(i, j, n) : j \in Peers(i)})
  BY DEF become_candidate
<1> HIDE DEF n, l, r
<1>5. votes \subseteq votes' /\ Vote(i, n.current_term, i) \in votes' BY <1>4
<1>6. Cardinality({i}) = 1 BY FS_Singleton
<1>7. CASE /\ has_majority(1, ClusterSize)
           /\ Finish(i, r, Answer(client, CommitReplies(l)), {})
           /\ send_message(msgs, on_heartbeat(i, r))
  <2>1. node'[i] = r BY <1>7, FinishNode
  <2>2. Stands(node[i], r) BY <1>1, <1>2, <1>3 DEF Stands
  <2>3. Elected(votes', i, r.current_term)
    <3>1. {i} \in SUBSET Node /\ has_majority(Cardinality({i}), ClusterSize)
      BY <1>6, <1>7
    <3>2. \A j \in {i} : Vote(j, r.current_term, i) \in votes' BY <1>3, <1>5
    <3> QED BY <3>1, <3>2 DEF Elected
  <2>4. LeadsLawfully(i, r, votes') BY <1>2, <1>3, <2>3 DEF LeadsLawfully
  <2>5. Recounts(i) BY <1>3, <2>1 DEF Recounts
  <2>6. VotesStand => OneVotePerTerm'
    <3> SUFFICES ASSUME VotesStand PROVE OneVotePerTerm' OBVIOUS
    <3>1. /\ node'[i].voted_for = i
          /\ votes' = votes \cup {Vote(i, node'[i].current_term, i)}
      BY <1>2, <1>3, <1>4, <2>1
    <3>2. OneVotePerTerm BY DEF ElectionInv
    <3> QED BY <3>1, <3>2, VoteCast
  <2>7. \A m \in msgs' : m \in msgs \/ SentLawfully(m)
    <3>1. msgs' \subseteq msgs \cup on_heartbeat(i, r) BY <1>7, SendAdds
    <3> QED BY <2>3, <3>1, HeartbeatsLawful
  <2> QED BY <1>3, <1>5, <1>7, <2>2, <2>4, <2>5, <2>6, <2>7, VotingStep
<1>8. CASE /\ Finish(i, n, client, {i})
           /\ send_message(msgs, {VoteRequest(i, j, n) : j \in Peers(i)})
  <2>1. node'[i] = n /\ counted'[i] = {i} BY <1>8, FinishNode
  <2>2. Stands(node[i], n) BY <1>1, <1>2 DEF Stands
  <2>3. LeadsLawfully(i, n, votes') BY <1>2 DEF LeadsLawfully
  <2>4. Recounts(i) BY <1>1, <1>2, <2>1 DEF Recounts
  <2>5. VotesStand => OneVotePerTerm'
    <3> SUFFICES ASSUME VotesStand PROVE OneVotePerTerm' OBVIOUS
    <3>1. /\ node'[i].voted_for = i
          /\ votes' = votes \cup {Vote(i, node'[i].current_term, i)}
      BY <1>2, <1>4, <2>1
    <3>2. OneVotePerTerm BY DEF ElectionInv
    <3> QED BY <3>1, <3>2, VoteCast
  <2>6. \A m \in msgs' : m \in msgs \/ SentLawfully(m)
    <3>1. msgs' \subseteq msgs \cup {VoteRequest(i, j, n) : j \in Peers(i)}
      BY <1>8, SendAdds
    <3>2. n.current_term > node[i].current_term BY <1>1, <1>2
    <3>3. ASSUME NEW j \in Peers(i) PROVE SentLawfully(VoteRequest(i, j, n))
      <4>1. j \in Node /\ i # j BY DEF Peers
      <4> QED BY <4>1, <1>2, <2>1, <3>1, <3>2, NewCandidacy
    <3> QED BY <3>1, <3>3
  <2>7. /\ n.votes_received = Cardinality({i})
        /\ \A k \in {i} : Vote(k, n.current_term, i) \in votes'
    BY <1>2, <1>5, <1>6
  <2> QED BY <1>5, <1>8, <2>2, <2>3, <2>4, <2>5, <2>6, <2>7, VotingStep
<1> QED BY <1>4, <1>7, <1>8

\* The granted vote is the only message of its candidacy between the two nodes.
LEMMA GrantLawful ==
    ASSUME BoundsInv, ElectionInv, NEW m \in msgs, m.type = "VoteRequest",
           node'[m.from] = node[m.from], counted'[m.from] = counted[m.from],
           Vote(m.to, m.term, m.from) \in votes',
           msgs' \subseteq (msgs \ {m}) \cup {VoteResponse(m.to, m.from, m.term, TRUE)}
    PROVE  SentLawfully(VoteResponse(m.to, m.from, m.term, TRUE))
<1> DEFINE g == VoteResponse(m.to, m.from, m.term, TRUE)
<1>1. /\ g.type = "VoteResponse" /\ g.from = m.to /\ g.to = m.from
      /\ g.term = m.term
  BY DEF VoteResponse
<1>2. /\ node[m.from].current_term >= m.term
      /\ CandidateIn(m.from, m.term) => m.to \notin counted[m.from]
      /\ \A q \in msgs :
           /\ IsGrant(q) /\ q.from = m.to /\ q.to = m.from => q.term # m.term
           /\ q.type = "VoteRequest" /\ q.from = m.from /\ q.to = m.to
                /\ q.term = m.term => q = m
  BY DEF ElectionInv, RequestsAreFresh
<1>3. Alone(g, m.from, m.to)
  <2> SUFFICES ASSUME NEW x \in msgs', About(x, m.from, m.to), x.term = m.term
               PROVE  x = g
    BY <1>1 DEF Alone
  <2> HIDE DEF g
  <2>1. x \in msgs \ {m} \/ x = g BY DEF g
  <2>2. x \notin msgs \ {m} BY <1>2 DEF About
  <2> QED BY <2>1, <2>2
<1> HIDE DEF g
<1>4. FreshlySent(g, m.from, m.to) BY <1>1, <1>2, <1>3 DEF FreshlySent, CandidateIn
<1>5. SentLawfully(g) BY <1>1, <1>4 DEF SentLawfully
<1> QED BY <1>5 DEF g

\* vote_request is granted: the voter had no vote in this term, or had given
\* it to the same candidate, whose request is handled only once.
LEMMA VoteRequestGrantElection ==
    ASSUME BoundsInv, BoundsInv', ElectionInv, NEW m \in msgs,
           m.type = "VoteRequest", vote_request_grant(m)
    PROVE  ElectionInv' /\ VotesStand
<1> DEFINE i == m.to
           o == Observed(node[i], m.term)
           r == [o EXCEPT !.voted_for = m.from]
<1>1. /\ i \in Node /\ m.from \in Node /\ m.from # i /\ m.term \in Nat
      /\ node[i] \in NodeState /\ node[i].current_term \in Nat
  BY HandlerContext
<1>2. /\ m.term >= node[i].current_term /\ GrantsVote(o, m)
      /\ Receive(m, {VoteResponse(i, m.from, r.current_term, TRUE)})
      /\ Finish(i, r, client, VotersKept(m))
      /\ votes' = votes \cup {Vote(i, r.current_term, m.from)}
  BY DEF vote_request_grant
<1>3. /\ o \in NodeState /\ o.current_term = m.term
      /\ m.term > node[i].current_term
           => o.role = "Follower" /\ o.current_leader_id = Nil
      /\ m.term = node[i].current_term => o = node[i]
  <2> HIDE DEF i
  <2> QED BY <1>1, <1>2, ObservedEvolves
<1>4. m.term = node[i].current_term => VotersKept(m) = counted[i]
  BY <1>1 DEF VotersKept
<1> HIDE DEF o
<1>5. /\ r.current_term = o.current_term /\ r.role = o.role
      /\ r.voted_for = m.from /\ r.current_leader_id = o.current_leader_id
      /\ r.votes_received = o.votes_received
  BY <1>3 DEF NodeState
<1> HIDE DEF r
<1>6. /\ node'[i] = r /\ counted'[i] = VotersKept(m)
      /\ node'[m.from] = node[m.from] /\ counted'[m.from] = counted[m.from]
  BY <1>1, <1>2, FinishNode
<1>7. /\ votes \subseteq votes' /\ Vote(i, m.term, m.from) \in votes'
      /\ votes' = votes \cup {Vote(i, node'[i].current_term, m.from)}
  BY <1>2, <1>3, <1>5, <1>6
<1>8. Stands(node[i], r)
  <2>1. o.voted_for \in {Nil, m.from} BY <1>2 DEF GrantsVote
  <2> QED BY <1>1, <1>2, <1>3, <1>5, <2>1 DEF Stands
<1>9. LeadsLawfully(i, r, votes')
  <2>1. CASE m.term > node[i].current_term
    BY <1>3, <1>5, <2>1, FollowerIsLawful
  <2>2. CASE m.term = node[i].current_term
    <3>1. LeadsLawfully(i, o, votes) BY <1>1, <1>3, <2>2, LawfulNode
    <3> QED BY <1>5, <1>7, <3>1, ElectedGrows DEF LeadsLawfully
  <2> QED BY <1>1, <1>2, <2>1, <2>2
<1>10. r.role = "Candidate" => /\ node[i].role = "Candidate"
                               /\ r.current_term = node[i].current_term
                               /\ r.votes_received = node[i].votes_received
                               /\ VotersKept(m) = counted[i]
  <2>1. CASE m.term > node[i].current_term BY <1>3, <1>5, <2>1
  <2>2. CASE m.term = node[i].current_term
    <3>1. o = node[i] BY <1>3, <2>2
    <3> QED BY <1>4, <1>5, <2>2, <3>1
  <2> QED BY <1>1, <1>2, <2>1, <2>2
<1>11. Recounts(i) BY <1>6, <1>10 DEF Recounts
<1>12. r.role = "Candidate" =>
         /\ r.votes_received = Cardinality(VotersKept(m))
         /\ \A k \in VotersKept(m) : Vote(k, r.current_term, i) \in votes'
  BY <1>1, <1>7, <1>10 DEF ElectionInv, CountIsExact
<1>13. VotesStand => OneVotePerTerm'
  <2> SUFFICES ASSUME VotesStand PROVE OneVotePerTerm' OBVIOUS
  <2>1. node'[i].voted_for = m.from BY <1>5, <1>6
  <2>2. OneVotePerTerm BY DEF ElectionInv
  <2> QED BY <1>1, <1>7, <2>1, <2>2, VoteCast
<1>14. \A x \in msgs' : x \in msgs \/ SentLawfully(x)
  <2> DEFINE g == VoteResponse(i, m.from, m.term, TRUE)
  <2>1. msgs' \subseteq (msgs \ {m}) \cup {g}
    <3>1. r.current_term = m.term BY <1>3, <1>5
    <3>2. Receive(m, {g}) BY <1>2, <3>1
    <3> QED BY <3>2, ReceiveOnce
  <2>2. SentLawfully(g) BY <1>6, <1>7, <2>1, GrantLawful DEF i
  <2> HIDE DEF g
  <2> QED BY <2>1, <2>2
<1> QED BY <1>1, <1>2, <1>7, <1>8, <1>9, <1>11, <1>12, <1>13, <1>14, VotingStep

\* A vote is counted: the voter was not counted before.
LEMMA CountedOnce ==
    ASSUME BoundsInv, ElectionInv, NEW m \in msgs, IsGrant(m),
           node[m.to].role = "Candidate", m.term = node[m.to].current_term
    PROVE  LET i == m.to
               voters == counted[i] \cup {m.from}
           IN  /\ voters \in SUBSET Node
               /\ Cardinality(voters) = node[i].votes_received + 1
               /\ \A k \in voters : Vote(k, node[i].current_term, i) \in votes
<1>1. /\ m.to \in Node /\ m.from \in Node /\ counted[m.to] \in SUBSET Node
  BY HandlerContext
<1>2. /\ Vote(m.from, m.term, m.to) \in votes /\ m.from \notin counted[m.to]
  BY DEF ElectionInv, GrantsAreFresh, CandidateIn
<1>3. /\ node[m.to].votes_received = Cardinality(counted[m.to])
      /\ \A k \in counted[m.to] : Vote(k, node[m.to].current_term, m.to) \in votes
  BY <1>1 DEF ElectionInv, CountIsExact
<1>4. IsFiniteSet(counted[m.to])
  BY <1>1, NodeAssumption, FS_Subset
<1>5. Cardinality(counted[m.to] \cup {m.from}) = Cardinality(counted[m.to]) + 1
  BY <1>2, <1>4, FS_AddElement
<1> QED BY <1>1, <1>2, <1>3, <1>5

\* vote_response with a granted vote: the count stays the number of distinct
\* voters, so that a majority of counts is a majority of votes.
LEMMA CountVoteElection ==
    ASSUME BoundsInv, BoundsInv', ElectionInv, NEW m \in msgs,
           m.type = "VoteResponse", m.term = node[m.to].current_term,
           count_vote(m)
    PROVE  ElectionInv' /\ VotesStand
<1> DEFINE i == m.to
           o == node[i]
           n == [o EXCEPT !.votes_received = o.votes_received + 1]
           l == become_leader(n)
           r == Commit(l)
           voters == counted[i] \cup {m.from}
<1>1. /\ i \in Node /\ m.from \in Node /\ o \in NodeState
      /\ o.votes_received + 1 \in Nat /\ o.current_term \in Nat
  BY HandlerContext DEF NodeState
<1>2. /\ o.role = "Candidate" /\ m.vote_granted /\ votes' = votes
      /\ \/ /\ has_majority(n.votes_received, ClusterSize)
            /\ Finish(i, r, Answer(client, CommitReplies(l)), {})
            /\ Receive(m, on_heartbeat(i, r))
         \/ /\ Finish(i, n, client, voters)
            /\ Receive(m, {})
  BY DEF count_vote
<1>3. IsGrant(m) BY <1>2 DEF IsGrant
<1>4. /\ voters \in SUBSET Node
      /\ Cardinality(voters) = o.votes_received + 1
      /\ \A k \in voters : Vote(k, o.current_term, i) \in votes
  BY <1>2, <1>3, CountedOnce
<1>5. LeadsLawfully(i, o, votes) BY <1>1, LawfulNode
<1> HIDE DEF o
<1>6. /\ n \in NodeState /\ n.current_term = o.current_term
      /\ n.role = "Candidate" /\ n.voted_for = o.voted_for
      /\ n.current_leader_id = o.current_leader_id
      /\ n.votes_received = o.votes_received + 1
  BY <1>1, <1>2 DEF NodeState
<1> HIDE DEF n
<1>7. /\ r.role = "Leader" /\ r.current_term = n.current_term
      /\ r.voted_for = n.voted_for /\ r.current_leader_id = n.current_leader_id
  BY <1>6, NewLeader
<1> HIDE DEF l, r, voters
<1>8. CASE /\ has_majority(n.votes_received, ClusterSize)
           /\ Finish(i, r, Answer(client, CommitReplies(l)), {})
           /\ Receive(m, on_heartbeat(i, r))
  <2>1. Elected(votes, i, r.current_term)
    <3>1. has_majority(Cardinality(voters), ClusterSize) BY <1>4, <1>6, <1>8
    <3>2. \A k \in voters : Vote(k, r.current_term, i) \in votes
      BY <1>4, <1>6, <1>7
    <3> QED BY <1>4, <3>1, <3>2 DEF Elected
  <2>2. LeadsLawfully(i, r, votes)
    BY <1>5, <1>6, <1>7, <2>1 DEF LeadsLawfully
  <2>3. Stands(node[i], r)
    <3>1. Stands(o, r) BY <1>1, <1>6, <1>7 DEF Stands
    <3> QED BY <3>1 DEF o
  <2>4. \A x \in msgs' : x \in msgs \/ (SentLawfully(x) /\ NoVoting(x))
    <3>1. msgs' \subseteq msgs \cup on_heartbeat(i, r) BY <1>8, ReceiveAdds
    <3>2. Elected(votes', i, r.current_term) BY <1>2, <2>1
    <3> QED BY <3>1, <3>2, HeartbeatsLawful
  <2> QED BY <1>1, <1>2, <1>7, <1>8, <2>2, <2>3, <2>4, CalmStep
<1>9. CASE Finish(i, n, client, voters) /\ Receive(m, {})
  <2>1. /\ node'[i] = n /\ counted'[i] = voters BY <1>1, <1>9, FinishNode
  <2>2. Stands(node[i], n)
    <3>1. Stands(o, n) BY <1>1, <1>6 DEF Stands
    <3> QED BY <3>1 DEF o
  <2>3. LeadsLawfully(i, n, votes') BY <1>2, <1>5, <1>6 DEF LeadsLawfully
  <2>4. msgs' \subseteq msgs \ {m}
    <3>1. msgs' \subseteq (msgs \ {m}) \cup {} BY <1>9, ReceiveOnce
    <3> QED BY <3>1
  <2>5. ASSUME NEW x \in msgs', NEW j \in Node, About(x, i, j),
               x.term = o.current_term, j \in voters
        PROVE  j \in counted[i]
    <3> SUFFICES ASSUME j = m.from PROVE FALSE BY <2>5 DEF voters
    <3>1. x \in msgs /\ x # m /\ x.term = m.term BY <2>4, <2>5 DEF o, i
    <3>2. CASE IsGrant(x) /\ x.to = i /\ x.from = j
      <4>1. x \in Message /\ m \in Message BY <3>1, HandlerContext
      <4> QED BY <1>3, <3>1, <3>2, <4>1, GrantIsOneMessage DEF i
    <3>3. CASE x.type = "VoteRequest" /\ x.from = i /\ x.to = j
      BY <1>3, <3>1, <3>3 DEF ElectionInv, RequestsAreFresh, i
    <3> QED BY <2>5, <3>2, <3>3 DEF About
  <2>6. Recounts(i)
    <3>1. /\ o.role = "Candidate" /\ n.current_term = o.current_term
          /\ \A x \in msgs', j \in Node :
               About(x, i, j) /\ x.term = o.current_term
                 => (j \in voters => j \in counted[i])
      BY <1>2, <1>6, <2>5
    <3> QED BY <2>1, <3>1 DEF Recounts, o
  <2>7. VotesStand => OneVotePerTerm'
    <3>1. OneVotePerTerm BY DEF ElectionInv
    <3> QED BY <1>2, <3>1, NoVoteCast
  <2>8. /\ n.votes_received = Cardinality(voters)
        /\ \A k \in voters : Vote(k, n.current_term, i) \in votes'
    BY <1>2, <1>4, <1>6
  <2>9. votes \subseteq votes' /\ \A x \in msgs' : x \in msgs
    BY <1>2, <2>4
  <2> QED BY <1>1, <1>9, <2>2, <2>3, <2>6, <2>7, <2>8, <2>9, VotingStep
<1> QED BY <1>2, <1>8, <1>9

-----------------------------------------------------------------------------
(* The invariant is inductive. *)

\* In a cluster of new nodes nobody has voted.
LEMMA ElectionInit == Init => ElectionInv
<1> SUFFICES ASSUME Init PROVE ElectionInv
  OBVIOUS
<1>1. /\ msgs = {} /\ votes = {}
      /\ \A i \in Node : /\ node[i].role = "Follower"
                         /\ node[i].current_leader_id = Nil
  BY DEF Init, restore_state
<1>2. OneVotePerTerm BY <1>1 DEF OneVotePerTerm
<1>3. CountIsExact BY <1>1 DEF CountIsExact
<1>4. GrantsAreFresh /\ RequestsAreFresh
  BY <1>1 DEF GrantsAreFresh, RequestsAreFresh
<1>5. OnlyTheElectedLead BY <1>1 DEF OnlyTheElectedLead, Leader
<1> QED BY <1>2, <1>3, <1>4, <1>5 DEF ElectionInv

\* Every step keeps the invariant: one case per action.
LEMMA ElectionNext ==
    ASSUME BoundsInv, BoundsInv', ElectionInv, [Next]_vars
    PROVE  ElectionInv' /\ VotesStand
<1>1. CASE UNCHANGED vars
  BY <1>1, StillStep DEF vars
<1>2. ASSUME NEW i \in Node, become_candidate(i) PROVE ElectionInv' /\ VotesStand
  BY <1>2, BecomeCandidateElection
<1>3. ASSUME NEW i \in Node, heartbeat(i) PROVE ElectionInv' /\ VotesStand
  BY <1>3, HeartbeatElection
<1>4. ASSUME NEW i \in Node, restart(i) PROVE ElectionInv' /\ VotesStand
  BY <1>4, RestartElection
<1>5. ASSUME NEW m \in msgs, vote_request(m) PROVE ElectionInv' /\ VotesStand
  BY <1>5, VoteRequestStaleElection, VoteRequestGrantElection,
     VoteRequestRejectElection DEF vote_request
<1>6. ASSUME NEW m \in msgs, vote_response(m) PROVE ElectionInv' /\ VotesStand
  BY <1>6, IgnoreElection, StepDownElection, CountVoteElection
     DEF vote_response
<1>7. ASSUME NEW m \in msgs, append_request(m) PROVE ElectionInv' /\ VotesStand
  BY <1>7, AppendRequestStaleElection, AppendRequestMismatchElection,
     AppendRequestAcceptElection DEF append_request, Current
<1>8. ASSUME NEW m \in msgs, append_response(m) PROVE ElectionInv' /\ VotesStand
  BY <1>8, IgnoreElection, StepDownElection, AppendResponseElection
     DEF append_response
<1>9. ASSUME NEW m \in msgs, crash_after_step_down(m)
      PROVE  ElectionInv' /\ VotesStand
  BY <1>9, CrashAfterStepDownElection
<1>10. ASSUME NEW i \in Node, NEW c \in Command, client_command(i, c)
       PROVE  ElectionInv' /\ VotesStand
  BY <1>10, ClientCommandAcceptElection, ClientCommandRefuseElection
     DEF client_command
<1> QED BY <1>1, <1>2, <1>3, <1>4, <1>5, <1>6, <1>7, <1>8, <1>9, <1>10
        DEF Next, handle_message

\* Two majorities share a voter, and a voter votes once: one node per term.
LEMMA OneElected ==
    ASSUME OneVotePerTerm, NEW i, NEW j, NEW t,
           Elected(votes, i, t), Elected(votes, j, t)
    PROVE  i = j
<1>1. PICK P \in SUBSET Node : /\ has_majority(Cardinality(P), ClusterSize)
                               /\ \A k \in P : Vote(k, t, i) \in votes
  BY DEF Elected
<1>2. PICK Q \in SUBSET Node : /\ has_majority(Cardinality(Q), ClusterSize)
                               /\ \A k \in Q : Vote(k, t, j) \in votes
  BY DEF Elected
<1>3. /\ Cardinality(Node) \in Nat /\ Cardinality(P) \in Nat
      /\ Cardinality(Q) \in Nat
  BY NodeAssumption, FS_Subset, FS_CardinalityType
<1>4. Cardinality(P) + Cardinality(Q) > Cardinality(Node)
  <2> DEFINE c == Cardinality(Node)
             p == Cardinality(P)
             q == Cardinality(Q)
  <2>1. p > c \div 2 /\ q > c \div 2
    BY <1>1, <1>2 DEF has_majority, ClusterSize
  <2>2. c \in Nat /\ p \in Nat /\ q \in Nat BY <1>3
  <2> HIDE DEF c, p, q
  <2>3. p + q > c BY <2>1, <2>2
  <2> QED BY <2>3 DEF c, p, q
<1>5. P \cap Q # {} BY <1>4, NodeAssumption, FS_MajoritiesIntersect
<1>6. PICK k \in P \cap Q : TRUE BY <1>5
<1>7. Vote(k, t, i) \in votes /\ Vote(k, t, j) \in votes BY <1>1, <1>2, <1>6
<1>8. Vote(k, t, i) = Vote(k, t, j) BY <1>7 DEF OneVotePerTerm, Vote
<1> QED BY <1>8 DEF Vote

\* Both invariants hold in every reachable state of a cluster whose storage does
\* not fail, and every step leaves the votes standing.
THEOREM ElectionAlways ==
    ASSUME StorageFaults = FALSE
    PROVE  Spec => [](BoundsInv /\ ElectionInv) /\ [][VotesStand]_vars
<1>1. Init => ElectionInv BY ElectionInit
<1>2. BoundsInv /\ BoundsInv' /\ ElectionInv /\ [Next]_vars
        => ElectionInv' /\ VotesStand
  BY ElectionNext
<1>3. Spec => []BoundsInv BY BoundsAlways
<1> QED BY <1>1, <1>2, <1>3, PTL DEF Spec

\* A term has one leader, and no leader meets an append request of its own term:
\* the unreachable! of append_request is unreachable in a cluster of any size,
\* whatever is lost, reordered or repeated and whoever restarts.
THEOREM OneLeaderPerTerm ==
    ASSUME StorageFaults = FALSE PROVE Spec => []ElectionSafety
<1>1. ASSUME BoundsInv, ElectionInv PROVE ElectionSafety
  <2>1. OneVotePerTerm /\ OnlyTheElectedLead BY <1>1 DEF ElectionInv
  <2>2. ASSUME NEW i \in Node, NEW j \in Node, Leader(i), Leader(j),
               node[i].current_term = node[j].current_term
        PROVE  i = j
    <3>1. /\ Elected(votes, i, node[i].current_term)
          /\ Elected(votes, j, node[i].current_term)
      BY <2>1, <2>2 DEF OnlyTheElectedLead
    <3> QED BY <2>1, <3>1, OneElected
  <2>3. ASSUME NEW m \in msgs, m.type = "AppendRequest", Leader(m.to),
               m.term = node[m.to].current_term
        PROVE  FALSE
    <3>1. m.to \in Node /\ m.from # m.to BY <1>1, HandlerContext
    <3>2. /\ Elected(votes, m.from, m.term) /\ Elected(votes, m.to, m.term)
      BY <2>1, <2>3, <3>1 DEF OnlyTheElectedLead
    <3> QED BY <2>1, <3>1, <3>2, OneElected
  <2> QED BY <2>2, <2>3 DEF ElectionSafety
<1>2. BoundsInv /\ ElectionInv => ElectionSafety BY <1>1
<1> QED BY <1>2, ElectionAlways, PTL

\* The leader a node names to its clients leads its term or has led it.
THEOREM HintsAreRight ==
    ASSUME StorageFaults = FALSE PROVE Spec => []LeaderHintIsRight
<1>1. ASSUME ElectionInv PROVE LeaderHintIsRight
  <2>1. OneVotePerTerm /\ OnlyTheElectedLead BY <1>1 DEF ElectionInv
  <2> SUFFICES ASSUME NEW i \in Node, NEW j \in Node, Leader(j),
                      node[i].current_term = node[j].current_term,
                      node[i].current_leader_id # Nil
               PROVE  node[i].current_leader_id = j
    BY DEF LeaderHintIsRight
  <2>2. /\ Elected(votes, j, node[j].current_term)
        /\ Elected(votes, node[i].current_leader_id, node[j].current_term)
    BY <2>1 DEF OnlyTheElectedLead
  <2> QED BY <2>1, <2>2, OneElected
<1>2. ElectionInv => LeaderHintIsRight BY <1>1
<1> QED BY <1>2, ElectionAlways, PTL

\* A saved term never goes back and a saved vote never changes within its term.
THEOREM SavedVotesAreFinal ==
    ASSUME StorageFaults = FALSE PROVE Spec => SavedVoteIsFinal
<1> DEFINE Final == \A i \in Node :
             /\ disk'[i].current_term >= disk[i].current_term
             /\ disk'[i].current_term = disk[i].current_term /\ disk[i].voted_for # Nil
                  => disk'[i].voted_for = disk[i].voted_for
<1>1. ASSUME BoundsInv, BoundsInv', VotesStand PROVE Final
  <2> SUFFICES ASSUME NEW i \in Node
               PROVE  /\ disk'[i].current_term >= disk[i].current_term
                      /\ disk'[i].current_term = disk[i].current_term
                           /\ disk[i].voted_for # Nil
                           => disk'[i].voted_for = disk[i].voted_for
    OBVIOUS
  <2>1. /\ disk[i] = PersistentState(node[i]) /\ disk'[i] = PersistentState(node'[i])
    BY <1>1 DEF BoundsInv, Persisted, PersistentState
  <2>2. Stands(node[i], node'[i]) BY <1>1 DEF VotesStand
  <2> QED BY <2>1, <2>2 DEF Stands, PersistentState
<1>2. BoundsInv /\ BoundsInv' /\ [VotesStand]_vars => [Final]_vars BY <1>1
<1>3. Spec => []BoundsInv /\ [][VotesStand]_vars BY ElectionAlways, PTL
<1>4. Spec => [][Final]_vars BY <1>2, <1>3, PTL
<1> QED BY <1>4 DEF SavedVoteIsFinal

\* A voter has saved the vote that is on its way, or a later term.
THEOREM GrantedVotesAreSaved ==
    ASSUME StorageFaults = FALSE PROVE Spec => []GrantedVoteIsSaved
<1>1. ASSUME BoundsInv, ElectionInv PROVE GrantedVoteIsSaved
  <2> SUFFICES ASSUME NEW m \in msgs, IsGrant(m)
               PROVE  \/ disk[m.from].current_term > m.term
                      \/ /\ disk[m.from].current_term = m.term
                         /\ disk[m.from].voted_for = m.to
    BY DEF GrantedVoteIsSaved, IsGrant
  <2>1. Vote(m.from, m.term, m.to) \in votes
    BY <1>1 DEF ElectionInv, GrantsAreFresh
  <2>2. VoteInForce(Vote(m.from, m.term, m.to))
    BY <1>1, <2>1 DEF ElectionInv, OneVotePerTerm
  <2>3. m.from \in Node BY <1>1, HandlerContext
  <2>4. disk[m.from] = PersistentState(node[m.from])
    BY <1>1, <2>3 DEF BoundsInv, Persisted
  <2> QED BY <2>2, <2>4 DEF VoteInForce, Vote, PersistentState
<1>2. BoundsInv /\ ElectionInv => GrantedVoteIsSaved BY <1>1
<1> QED BY <1>2, ElectionAlways, PTL
=============================================================================
