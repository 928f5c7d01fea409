-------------------------- MODULE RaftSafetyProofs --------------------------
(***************************************************************************)
(* What a Raft cluster of any size promises, from the invariant over its   *)
(* history: what is committed stays, log matching, leader completeness,    *)
(* one sequence for all state machines, and the refinement of              *)
(* ReplicatedLog.  And what it does with the commands of its clients: a    *)
(* command is in the logs at one index at most, and whoever is told Ok is  *)
(* given the output of what was decided there.  Storage does not fail.     *)
(***************************************************************************)
EXTENDS RaftLogSafetyProofs

-----------------------------------------------------------------------------
(* What a history says of committed entries. *)

\* The part of LogInv that commitment rests on, as a property of the history alone:
\* a later leader has every entry that was ever chosen.
Known(led, acks) ==
    /\ \A t \in Nat : Backed(led[t], led)
    /\ \A t, u \in Nat : t < u /\ led[u] # <<>> =>
          \A k \in 1..Len(led[t]) :
              led[t][k].term = t /\ Chosen(t, k, acks) => Carries(led[u], t, k)

\* The history of a state knows.
LEMMA KnownNow ==
    ASSUME NEW led \in Led, NEW acks \in SUBSET Acks, LogInv(led, acks)
    PROVE  Known(led, acks)
<1>1. \A t \in Nat : Backed(led[t], led) BY DEF LogInv, LeadersLogs, LeaderLog, Led
<1>2. ASSUME NEW t \in Nat, NEW u \in Nat, t < u, led[u] # <<>>,
             NEW k \in 1..Len(led[t]), led[t][k].term = t, Chosen(t, k, acks)
      PROVE  Carries(led[u], t, k)
  <2>1. Carries(led[u], t, k) \/ Blocked(t, k, acks)
    BY <1>2 DEF LogInv, LaterLeadersKnow, Led
  <2>2. k \in Nat
    <3>1. Len(led[t]) \in Nat BY LenProperties DEF Led
    <3> QED BY <3>1
  <2> QED BY <1>2, <2>1, <2>2, ChosenIsNotBlocked
<1> QED BY <1>1, <1>2 DEF Known

\* So does the history of the next state.
LEMMA KnownNext ==
    ASSUME NEW led \in Led, NEW acks \in SUBSET Acks, LogInv(led, acks)'
    PROVE  Known(led, acks)
<1>1. \A t \in Nat : Backed(led[t], led) BY DEF LogInv, LeadersLogs, LeaderLog, Led
<1>2. ASSUME NEW t \in Nat, NEW u \in Nat, t < u, led[u] # <<>>,
             NEW k \in 1..Len(led[t]), led[t][k].term = t, Chosen(t, k, acks)
      PROVE  Carries(led[u], t, k)
  <2> SUFFICES ASSUME Blocked(t, k, acks)' PROVE FALSE
    BY <1>2 DEF LogInv, LaterLeadersKnow, Led
  <2>1. PICK P \in SUBSET Node :
           /\ Majority(P)
           /\ \A j \in P : \E a \in acks : a.node = j /\ a.term = t /\ a.index >= k
    BY <1>2 DEF Chosen
  <2>2. PICK Q \in SUBSET Node :
           /\ Majority(Q)
           /\ \A j \in Q : \A a \in acks : a.node = j /\ a.term = t => a.index < k
    BY DEF Blocked, Majority
  <2>3. PICK j \in P : j \in Q BY <2>1, <2>2, TwoMajorities
  <2>4. PICK a \in acks : a.node = j /\ a.term = t /\ a.index >= k BY <2>1, <2>3
  <2>5. a.index < k /\ a.index \in Nat /\ Len(led[t]) \in Nat
    BY <2>2, <2>3, <2>4, LenProperties DEF Acks, Led
  <2> QED BY <2>4, <2>5
<1> QED BY <1>1, <1>2 DEF Known

\* A leader of the term of a chosen entry, or of a later one, has the entry and all
\* before it.
LEMMA LeaderKnows ==
    ASSUME NEW led \in Led, NEW acks, Known(led, acks),
           NEW log \in Seq(Entry), Backed(log, led), NEW c \in 1..Len(log),
           Chosen(log[c].term, c, acks), NEW u \in Nat, log[c].term <= u,
           led[u] # <<>>
    PROVE  Agree(log, led[u], c)
<1> DEFINE t == log[c].term
<1>1. /\ t \in Nat /\ led[t] \in Seq(Entry) /\ Agree(log, led[t], c)
      /\ c <= Len(led[t]) /\ led[t][c] = log[c] /\ Len(led[t]) \in Nat
  BY BackedAt, LenProperties
<1>2. c \in Nat \ {0} /\ c <= Len(log) /\ c \in 1..Len(led[t]) /\ led[u] \in Seq(Entry)
  <2>1. Len(log) \in Nat /\ led[u] \in Seq(Entry) BY LenProperties DEF Led
  <2> QED BY <1>1, <2>1
<1>3. led[t][c].term = t BY <1>1
<1>4. log[c].term = t /\ Chosen(t, c, acks) /\ t <= u OBVIOUS
<1> HIDE DEF t
<1>5. CASE t = u BY <1>1, <1>5
<1>6. CASE t # u
  <2>1. t < u BY <1>1, <1>4, <1>6
  <2>2. Carries(led[u], t, c) BY <1>1, <1>2, <1>3, <1>4, <2>1 DEF Known
  <2>3. Backed(led[u], led) BY DEF Known
  <2> QED BY <1>2, <1>4, <2>2, <2>3, BackedAgree DEF Carries
<1> QED BY <1>5, <1>6

\* Two logs agree on what both have committed.
LEMMA CommittedAgree ==
    ASSUME NEW led \in Led, NEW acks, Known(led, acks),
           NEW a \in Seq(Entry), NEW b \in Seq(Entry), Backed(a, led), Backed(b, led),
           NEW c \in Nat, NEW d \in Nat, c <= d,
           Committed(a, c, acks), Committed(b, d, acks)
    PROVE  Agree(a, b, c)
<1>0. Len(a) \in Nat /\ Len(b) \in Nat BY LenProperties
<1>1. CASE c = 0 BY <1>0, <1>1 DEF Agree
<1>2. CASE c # 0
  <2>1. /\ c \in 1..Len(a) /\ Chosen(a[c].term, c, acks)
        /\ d \in 1..Len(b) /\ Chosen(b[d].term, d, acks)
    BY <1>2 DEF Committed
  <2> DEFINE t == a[c].term
             u == b[d].term
  <2>2. /\ t \in Nat /\ led[t] \in Seq(Entry) /\ Agree(a, led[t], c)
        /\ led[t] # <<>>
    <3>1. t \in Nat /\ led[t] \in Seq(Entry) /\ Agree(a, led[t], c) /\ c <= Len(led[t])
      BY <2>1, BackedAt
    <3> QED BY <1>2, <3>1, LogFacts
  <2>3. /\ u \in Nat /\ led[u] \in Seq(Entry) /\ Agree(b, led[u], d)
        /\ led[u] # <<>>
    <3>1. u \in Nat /\ led[u] \in Seq(Entry) /\ Agree(b, led[u], d) /\ d <= Len(led[u])
      BY <2>1, BackedAt
    <3> QED BY <1>2, <3>1, LogFacts
  <2>4. CASE t <= u
    <3>1. Agree(a, led[u], c) BY <2>1, <2>3, <2>4, LeaderKnows
    <3> HIDE DEF u
    <3>2. Agree(led[u], b, d) BY <2>3, AgreeSym
    <3> QED BY <2>3, <3>1, <3>2, AgreeTrans
  <2>5. CASE u <= t
    <3>1. Agree(b, led[t], d) BY <2>1, <2>2, <2>5, LeaderKnows
    <3> HIDE DEF t
    <3>2. Agree(led[t], b, d) BY <2>2, <3>1, AgreeSym
    <3> QED BY <2>2, <3>2, AgreeTrans
  <2> HIDE DEF t, u
  <2> QED BY <2>2, <2>3, <2>4, <2>5
<1> QED BY <1>1, <1>2

\* What is committed stays so in every log that agrees with it.
LEMMA CommittedGrows ==
    ASSUME NEW acks, NEW also, acks \subseteq also,
           NEW a \in Seq(Entry), NEW b \in Seq(Entry), NEW c \in Nat,
           Agree(a, b, c), Committed(a, c, acks)
    PROVE  Committed(b, c, also)
<1>1. CASE c = 0 BY <1>1 DEF Committed
<1>2. CASE c # 0
  <2>1. c \in 1..Len(a) /\ Chosen(a[c].term, c, acks) BY <1>2 DEF Committed
  <2>2. Chosen(a[c].term, c, also) BY <2>1 DEF Chosen
  <2>3. c \in 1..Len(b) /\ a[c] = b[c]
    <3>1. Len(a) \in Nat /\ Len(b) \in Nat BY LenProperties
    <3> QED BY <1>2, <3>1 DEF Agree
  <2> QED BY <2>2, <2>3 DEF Committed
<1> QED BY <1>1, <1>2

-----------------------------------------------------------------------------
(* What advance_commit and apply_committed do. *)

\* A committed index lies within the log.
LEMMA CommittedBound ==
    ASSUME NEW log \in Seq(Entry), NEW c \in Nat, NEW acks, Committed(log, c, acks)
    PROVE  c <= Len(log)
<1>1. Len(log) \in Nat BY LenProperties
<1> QED BY <1>1 DEF Committed

\* Logs that agree have the same first entries.
LEMMA SamePrefix ==
    ASSUME NEW a \in Seq(Entry), NEW b \in Seq(Entry), NEW c \in Nat, Agree(a, b, c)
    PROVE  SubSeq(a, 1, c) = SubSeq(b, 1, c)
<1>1. /\ SubSeq(a, 1, c) \in Seq(Entry) /\ Len(SubSeq(a, 1, c)) = c
      /\ SubSeq(b, 1, c) \in Seq(Entry) /\ Len(SubSeq(b, 1, c)) = c
      /\ \A x \in 1..c : SubSeq(a, 1, c)[x] = a[x] /\ SubSeq(b, 1, c)[x] = b[x]
  BY PrefixAgrees DEF Agree
<1>2. \A x \in 1..c : a[x] = b[x] BY DEF Agree
<1> QED BY <1>1, <1>2, SeqEqual

\* The committed entries, and the state machine exactly as far.
Delivered(n, acks) ==
    /\ Committed(n.log, n.commit_index, acks)
    /\ n.applied = SubSeq(n.log, 1, n.commit_index)

\* apply_committed brings the state machine to commit_index and replies with the
\* commands of entries it has given to the state machine.
LEMMA ApplyDone ==
    ASSUME NEW n \in NodeState, NEW acks, Committed(n.log, n.commit_index, acks),
           NEW x \in Nat, x <= n.commit_index, n.applied = SubSeq(n.log, 1, x)
    PROVE  LET r == apply_committed(n)
           IN  /\ Delivered(r, acks) /\ r.commit_index = n.commit_index
               /\ \A a \in replies(n) :
                     \E k \in 1..r.commit_index : r.log[k].command = a.output
<1> DEFINE log == n.log
           c == n.commit_index
           more == SubSeq(log, Len(n.applied) + 1, ApplyUpTo(n))
           r == apply_committed(n)
<1>1. /\ log \in Seq(Entry) /\ c \in Nat /\ Len(log) \in Nat /\ c <= Len(log)
  BY LenProperties, CommittedBound DEF NodeState
<1>2. /\ n.applied \in Seq(Entry) /\ Len(n.applied) = x /\ x <= Len(log)
      /\ \A y \in 1..x : n.applied[y] = log[y]
  <2>1. x <= Len(log) BY <1>1
  <2> HIDE DEF log
  <2>2. n.applied = SubSeq(log, 1, x) BY DEF log
  <2> QED BY <1>1, <2>1, <2>2, PrefixAgrees
<1>3. ApplyUpTo(n) = c
  <2> DEFINE e == Len(log)
  <2>1. ApplyUpTo(n) = Min({c, e}) BY DEF ApplyUpTo
  <2>2. c \in Int /\ e \in Int /\ c <= e BY <1>1
  <2> HIDE DEF c, e
  <2>3. Min({c, e}) \in {c, e} /\ Min({c, e}) <= c BY <2>2, MinOfTwo
  <2> QED BY <2>1, <2>2, <2>3
<1>4. /\ r.applied = n.applied \o more /\ r.log = log /\ r.commit_index = c
  BY DEF apply_committed, NodeState
<1>5. /\ more \in Seq(Entry) /\ Len(more) = c - x
      /\ \A y \in 1..(c - x) : more[y] = log[x + y]
  <2>1. \A k \in (x + 1)..c : log[k] \in Entry BY <1>1, LogFacts
  <2>2. more = SubSeq(log, x + 1, c) BY <1>2, <1>3
  <2>3. x + 1 \in Int /\ c \in Int BY <1>1
  <2> HIDE DEF log, c, more
  <2>4. /\ more \in Seq(Entry) /\ Len(more) = IF x + 1 <= c THEN c - (x + 1) + 1 ELSE 0
        /\ \A y \in 1..(c - (x + 1) + 1) : more[y] = log[(x + 1) + y - 1]
    BY <2>1, <2>2, <2>3, SubSeqProperties
  <2>5. c \in Nat /\ x <= c BY <1>1 DEF c
  <2> QED BY <2>4, <2>5
<1>6. r.applied = SubSeq(log, 1, c)
  <2> DEFINE s == SubSeq(log, 1, c)
             a == n.applied
  <2>1. /\ s \in Seq(Entry) /\ Len(s) = c /\ \A y \in 1..c : s[y] = log[y]
    <3> HIDE DEF log, c
    <3> QED BY <1>1, PrefixAgrees
  <2>2. /\ a \in Seq(Entry) /\ Len(a) = x /\ \A y \in 1..x : a[y] = log[y]
    BY <1>2
  <2>3. x <= c /\ c \in Nat BY <1>1
  <2> HIDE DEF s, a, more, c, log
  <2>4. /\ a \o more \in Seq(Entry) /\ Len(a \o more) = Len(a) + Len(more)
        /\ \A y \in 1..(Len(a) + Len(more)) :
              (a \o more)[y] = IF y <= Len(a) THEN a[y] ELSE more[y - Len(a)]
    BY <1>5, <2>2, ConcatProperties
  <2>5. Len(a \o more) = c BY <1>5, <2>2, <2>3, <2>4
  <2>6. ASSUME NEW y \in 1..c PROVE (a \o more)[y] = s[y]
    <3>0. y \in Nat /\ y \in 1..c BY <2>3
    <3>1. y \in 1..(Len(a) + Len(more)) BY <1>5, <2>2, <2>3
    <3>2. CASE y <= x
      <4>1. y \in 1..x BY <3>0, <3>2
      <4>2. (a \o more)[y] = a[y] BY <2>2, <2>4, <3>1, <3>2
      <4> QED BY <2>1, <2>2, <3>0, <4>1, <4>2
    <3>3. CASE y > x
      <4>1. y - x \in 1..(c - x) /\ x + (y - x) = y BY <2>3, <3>3
      <4>2. (a \o more)[y] = more[y - x] BY <2>2, <2>3, <2>4, <3>1, <3>3
      <4>3. more[y - x] = log[x + (y - x)] BY <1>5, <4>1
      <4> QED BY <2>1, <4>1, <4>2, <4>3
    <3>4. y <= x \/ y > x BY <3>0
    <3> QED BY <3>2, <3>3, <3>4, Zenon
  <2>7. a \o more = s BY <2>1, <2>4, <2>5, <2>6, SeqEqual
  <2> QED BY <1>4, <2>7 DEF a, s
<1>7. \A a \in replies(n) : \E k \in 1..c : log[k].command = a.output
  <2> SUFFICES ASSUME NEW p \in Answered(n) PROVE p.index \in 1..c
    BY DEF replies
  <2>1. p.index \in (x + 1)..c BY <1>2, <1>3 DEF Answered
  <2> QED BY <1>1, <2>1
<1> QED BY <1>4, <1>6, <1>7 DEF Delivered

\* advance_commit stops at an index that a majority of the cluster holds in the
\* leader's own term: the leader counts itself and every match_index.
LEMMA AdvanceFacts ==
    ASSUME NEW i \in Node, NEW n \in NodeState, NEW acks \in SUBSET Acks,
           Acknowledged(i, n, acks)
    PROVE  LET a == advance_commit(n)
           IN  /\ a.applied = n.applied /\ a.commit_index >= n.commit_index
               /\ \/ a.commit_index = n.commit_index
                  \/ Committed(n.log, a.commit_index, acks)
<1> DEFINE replicated(index) ==
               Cardinality({j \in Node : n.match_index[j] >= index}) + 1
           S == {index \in (n.commit_index + 1)..Len(n.log) :
                    /\ n.log[index].term = n.current_term
                    /\ has_majority(replicated(index), ClusterSize)}
<1>0. /\ n.commit_index \in Nat /\ n.log \in Seq(Entry) /\ Len(n.log) \in Nat
      /\ n.match_index \in [Node -> Nat]
  BY LenProperties DEF NodeState
<1>1. CASE n.role = "Leader" /\ S # {}
  <2> DEFINE k == Max(S)
  <2>1. advance_commit(n) = [n EXCEPT !.commit_index = k]
    BY <1>1 DEF advance_commit
  <2>2. S \in SUBSET ((n.commit_index + 1)..Len(n.log)) OBVIOUS
  <2>3. k \in S
    <3>1. n.commit_index + 1 \in Nat BY <1>0
    <3> HIDE DEF S
    <3> QED BY <1>0, <1>1, <2>2, <3>1, MaxOfInterval
  <2>4. /\ k \in (n.commit_index + 1)..Len(n.log) /\ n.log[k].term = n.current_term
        /\ has_majority(replicated(k), ClusterSize)
    BY <2>3
  <2> HIDE DEF k
  <2>5. k \in 1..Len(n.log) /\ k > n.commit_index /\ k \in Nat \ {0} BY <1>0, <2>4
  <2> DEFINE P == {j \in Node : n.match_index[j] >= k}
             Q == P \cup {i}
  <2>6. has_majority(Cardinality(P) + 1, ClusterSize) BY <2>4
  <2>7. /\ Ack(i, n.current_term, Len(n.log)) \in acks /\ n.match_index[i] = 0
        /\ \A j \in Node : \/ n.match_index[j] = 0
                           \/ Ack(j, n.current_term, n.match_index[j]) \in acks
    BY <1>1 DEF Acknowledged
  <2>8. Majority(Q) /\ Q \in SUBSET Node
    <3>1. i \notin P BY <1>0, <2>5, <2>7
    <3>2. IsFiniteSet(P) BY NodeAssumption, FS_Subset
    <3>3. Cardinality(P \cup {i}) = Cardinality(P) + 1
      <4> HIDE DEF P
      <4> QED BY <3>1, <3>2, FS_AddElement
    <3> HIDE DEF P
    <3>4. P \in SUBSET Node BY DEF P
    <3> QED BY <2>6, <3>3, <3>4 DEF Majority
  <2>9. \A j \in Q : \E a \in acks :
           a.node = j /\ a.term = n.current_term /\ a.index >= k
    <3> TAKE j \in Q
    <3>1. CASE j = i
      <4> DEFINE a == Ack(i, n.current_term, Len(n.log))
      <4>1. a.node = j /\ a.term = n.current_term /\ a.index = Len(n.log)
        BY <3>1 DEF Ack
      <4>2. Len(n.log) >= k BY <1>0, <2>5
      <4> HIDE DEF a
      <4> QED BY <2>7, <4>1, <4>2 DEF a
    <3>2. CASE j # i
      <4> DEFINE a == Ack(j, n.current_term, n.match_index[j])
      <4>1. j \in Node /\ n.match_index[j] >= k /\ n.match_index[j] # 0
        BY <1>0, <2>5, <3>2
      <4>2. a \in acks BY <2>7, <4>1
      <4>3. a.node = j /\ a.term = n.current_term /\ a.index = n.match_index[j]
        BY DEF Ack
      <4> HIDE DEF a
      <4> QED BY <4>1, <4>2, <4>3
    <3> QED BY <3>1, <3>2
  <2> HIDE DEF Q
  <2>10. Chosen(n.log[k].term, k, acks) BY <2>4, <2>8, <2>9 DEF Chosen
  <2>11. Committed(n.log, k, acks) BY <2>5, <2>10 DEF Committed
  <2>12. /\ advance_commit(n).applied = n.applied /\ advance_commit(n).commit_index = k
    BY <2>1 DEF NodeState
  <2> QED BY <1>0, <2>5, <2>11, <2>12
<1>2. CASE ~(n.role = "Leader" /\ S # {})
  <2>1. advance_commit(n) = n BY <1>2 DEF advance_commit
  <2> QED BY <1>0, <2>1
<1> QED BY <1>1, <1>2

\* advance_commit and apply_committed together.
LEMMA CommitDone ==
    ASSUME NEW i \in Node, NEW n \in NodeState, NEW acks \in SUBSET Acks,
           Acknowledged(i, n, acks), Delivered(n, acks)
    PROVE  LET r == Commit(n)
           IN  /\ Delivered(r, acks) /\ r.commit_index >= n.commit_index
               /\ \A a \in CommitReplies(n) :
                     \E k \in 1..r.commit_index : r.log[k].command = a.output
<1> DEFINE a == advance_commit(n)
<1>1. a \in NodeState /\ SameCore(n, a) BY AdvanceCommit
<1>2. /\ a.applied = n.applied /\ a.commit_index >= n.commit_index
      /\ Committed(a.log, a.commit_index, acks)
  BY <1>1, AdvanceFacts DEF Delivered, SameCore
<1>3. n.commit_index \in Nat BY DEF NodeState
<1>4. a.applied = SubSeq(a.log, 1, n.commit_index) BY <1>1, <1>2 DEF Delivered, SameCore
<1> HIDE DEF a
<1>5. /\ Delivered(apply_committed(a), acks)
      /\ apply_committed(a).commit_index = a.commit_index
      /\ \A q \in replies(a) : \E k \in 1..apply_committed(a).commit_index :
            apply_committed(a).log[k].command = q.output
  BY <1>1, <1>2, <1>3, <1>4, ApplyDone
<1> QED BY <1>2, <1>5 DEF Commit, CommitReplies, a

-----------------------------------------------------------------------------
(* What a step must show. *)

\* What is committed of a log is still in it, and the state machine goes on or,
\* in a crash, begins again.
Advances(n, r) ==
    /\ Agree(n.log, r.log, n.commit_index)
    /\ r.commit_index >= n.commit_index \/ (r.applied = <<>> /\ restarts' # restarts)

NodesAdvance == \A i \in Node : Advances(node[i], node'[i])

\* Every command answered with Ok is one of the first `commit_index' of the log.
RepliesHold(cl, r) ==
    \A c \in Command : cl[c].status = "ok" =>
        \/ cl[c] = client[c]
        \/ \E k \in 1..r.commit_index : r.log[k].command = cl[c].output

\* A message a handler sends speaks of committed entries that it covers.
SentCommitted(m, led, acks) ==
    m.type = "AppendRequest" =>
        m.leader_commit <= Covers(m) /\ Committed(led[m.term], m.leader_commit, acks)

\* Dropping a client's channel answers nothing.
LEMMA DropHolds ==
    ASSUME NEW lost, NEW c \in Command, Drop(client, lost)[c].status = "ok"
    PROVE  Drop(client, lost)[c] = client[c]
BY DEF Drop, Status

\* Replies of committed entries.
LEMMA AnswersHold ==
    ASSUME NEW cl, NEW answers, NEW r,
           \A c \in Command : cl[c].status = "ok" => cl[c] = client[c],
           \A a \in answers : \E k \in 1..r.commit_index : r.log[k].command = a.output
    PROVE  RepliesHold(Answer(cl, answers), r)
<1> SUFFICES ASSUME NEW c \in Command, Answer(cl, answers)[c].status = "ok"
             PROVE  \/ Answer(cl, answers)[c] = client[c]
                    \/ \E k \in 1..r.commit_index :
                          r.log[k].command = Answer(cl, answers)[c].output
  BY DEF RepliesHold
<1>1. CASE \E a \in answers : a.request = c
  <2> DEFINE a == CHOOSE x \in answers : x.request = c
  <2>1. a \in answers BY <1>1
  <2>2. Answer(cl, answers)[c] = [status |-> "ok", output |-> a.output]
    BY <1>1 DEF Answer
  <2> HIDE DEF a
  <2> QED BY <2>1, <2>2
<1>2. CASE ~\E a \in answers : a.request = c BY <1>2 DEF Answer
<1> QED BY <1>1, <1>2

\* Leaving the clients alone, or dropping them, answers nothing.
LEMMA NoReplies ==
    ASSUME NEW r, NEW lost
    PROVE  RepliesHold(client, r) /\ RepliesHold(Drop(client, lost), r)
BY DropHolds DEF RepliesHold

\* What a node has committed before the step it has committed after it.
LEMMA StillDone ==
    ASSUME BoundsInv, NEW led, NEW acks \in SUBSET Acks, NEW also \in SUBSET Acks,
           acks \subseteq also, CommitInv(led, acks), NEW i \in Node
    PROVE  /\ Delivered(node[i], also) /\ Advances(node[i], node[i])
           /\ node[i].commit_index <= Len(decided)
           /\ node[i].commit_index \in Nat /\ node[i].commit_index <= Len(node[i].log)
<1> DEFINE n == node[i]
<1>1. /\ n.log \in Seq(Entry) /\ n.commit_index \in Nat /\ Len(n.log) \in Nat
  BY NodeFacts
<1>2. /\ Committed(n.log, n.commit_index, acks)
      /\ n.applied = SubSeq(n.log, 1, n.commit_index)
      /\ n.commit_index <= Len(decided)
  BY DEF CommitInv, CommitsAreChosen
<1> HIDE DEF n
<1>3. n.commit_index <= Len(n.log) BY <1>1, <1>2, CommittedBound
<1>4. Agree(n.log, n.log, n.commit_index) BY <1>3 DEF Agree
<1>5. Committed(n.log, n.commit_index, also) BY <1>1, <1>2, <1>4, CommittedGrows
<1> QED BY <1>1, <1>2, <1>3, <1>4, <1>5 DEF Delivered, Advances, n

\* decided goes on with what the stepping node has given to its state machine.
LEMMA DecidedGrows ==
    ASSUME BoundsInv, BoundsInv', NEW led \in Led, NEW more \in Led,
           NEW acks \in SUBSET Acks, NEW also \in SUBSET Acks, Grows(led, more),
           acks \subseteq also, CommitInv(led, acks), LogInv(more, also)',
           NEW i \in Node, NEW r, NEW cl, NEW voters, Finish(i, r, cl, voters),
           Delivered(r, also)
    PROVE  /\ Backed(decided', more) /\ Committed(decided', Len(decided'), also)
           /\ decided \in Seq(Entry) /\ decided' \in Seq(Entry)
           /\ Len(decided) <= Len(decided') /\ Agree(decided, decided', Len(decided))
           /\ r.commit_index <= Len(decided') /\ Agree(r.log, decided', r.commit_index)
           /\ \/ decided' = decided
              \/ decided' = r.applied /\ Len(decided) < r.commit_index
<1> DEFINE c == r.commit_index
           d == Len(decided)
<1>1. /\ decided \in Seq(Entry) /\ decided' \in Seq(Entry) /\ d \in Nat
      /\ r \in NodeState /\ r.log \in Seq(Entry) /\ c \in Nat /\ Len(r.log) \in Nat
  <2>1. decided \in Seq(Entry) /\ decided' \in Seq(Entry) BY DEF BoundsInv, TypeOK
  <2>2. r \in NodeState
    <3>1. node'[i] = r BY FinishNode
    <3> QED BY <3>1 DEF BoundsInv, TypeOK
  <2> QED BY <2>1, <2>2, LenProperties DEF NodeState
<1>2. Known(more, also) BY KnownNext
<1>3. Backed(r.log, more)
  <2>1. node'[i] = r BY FinishNode
  <2> QED BY <2>1 DEF LogInv, NodesLogs, NodeLog
<1>4. Backed(decided, more) /\ Committed(decided, d, also) /\ Agree(decided, decided, d)
  <2>1. Backed(decided, led) /\ Committed(decided, d, acks)
    BY DEF CommitInv, CommitsAreChosen
  <2>2. Agree(decided, decided, d) BY <1>1 DEF Agree
  <2> QED BY <1>1, <2>1, <2>2, BackedGrows, CommittedGrows
<1>5. Committed(r.log, c, also) /\ r.applied = SubSeq(r.log, 1, c) BY DEF Delivered
<1>6. c <= Len(r.log) BY <1>1, <1>5, CommittedBound
<1>7. /\ Len(r.applied) = c /\ Agree(r.applied, r.log, c) /\ r.applied \in Seq(Entry)
  BY <1>1, <1>5, <1>6, PrefixAgrees
<1>8. CASE c > d
  <2>1. decided' = r.applied BY <1>7, <1>8 DEF Finish
  <2>2. Agree(decided, r.log, d)
    BY <1>1, <1>2, <1>3, <1>4, <1>5, <1>8, CommittedAgree
  <2>3. Agree(r.log, r.applied, c) BY <1>1, <1>7, AgreeSym
  <2>4. Agree(decided, r.applied, d) BY <1>1, <1>7, <1>8, <2>2, <2>3, AgreeTrans
  <2>5. Backed(r.applied, more) BY <1>1, <1>3, <1>7, PrefixBacked
  <2>6. Committed(r.applied, c, also) BY <1>1, <1>5, <1>7, <2>3, CommittedGrows
  <2> QED BY <1>1, <1>7, <1>8, <2>1, <2>3, <2>4, <2>5, <2>6
<1>9. CASE c <= d
  <2>1. decided' = decided BY <1>1, <1>7, <1>9 DEF Finish
  <2>2. Agree(r.log, decided, c)
    BY <1>1, <1>2, <1>3, <1>4, <1>5, <1>9, CommittedAgree
  <2> QED BY <1>1, <1>4, <1>9, <2>1, <2>2
<1> QED BY <1>1, <1>8, <1>9

\* A handler ends: what its node has committed is chosen, and what it answers and
\* sends is committed.
LEMMA FinishCommits ==
    ASSUME BoundsInv, BoundsInv', NEW led \in Led, NEW more \in Led,
           NEW acks \in SUBSET Acks, NEW also \in SUBSET Acks, Grows(led, more),
           acks \subseteq also, CommitInv(led, acks), LogInv(more, also)',
           NEW i \in Node, NEW r, NEW cl, NEW voters, Finish(i, r, cl, voters),
           Delivered(r, also), RepliesHold(cl, r), Advances(node[i], r),
           \A m \in msgs' : m \in msgs \/ SentCommitted(m, more, also)
    PROVE  CommitInv(more, also)' /\ NodesAdvance
<1>1. node'[i] = r /\ \A j \in Node \ {i} : node'[j] = node[j] BY FinishNode
<1>2. /\ Backed(decided', more) /\ Committed(decided', Len(decided'), also)
      /\ decided \in Seq(Entry) /\ decided' \in Seq(Entry)
      /\ Len(decided) <= Len(decided') /\ Agree(decided, decided', Len(decided))
      /\ r.commit_index <= Len(decided') /\ Agree(r.log, decided', r.commit_index)
  BY DecidedGrows
<1>3. Len(decided) \in Nat /\ Len(decided') \in Nat BY <1>2, LenProperties
<1>4. ASSUME NEW j \in Node
      PROVE  /\ Committed(node'[j].log, node'[j].commit_index, also)
             /\ node'[j].applied = SubSeq(node'[j].log, 1, node'[j].commit_index)
             /\ node'[j].commit_index <= Len(decided')
             /\ Advances(node[j], node'[j])
  <2>1. CASE j = i BY <1>1, <1>2, <2>1 DEF Delivered
  <2>2. CASE j # i
    <3>1. /\ Delivered(node[j], also) /\ Advances(node[j], node[j])
          /\ node[j].commit_index <= Len(decided) /\ node[j].commit_index \in Nat
      BY StillDone
    <3> QED BY <1>1, <1>2, <1>3, <2>2, <3>1 DEF Delivered
  <2> QED BY <2>1, <2>2
<1>5. ASSUME NEW m \in msgs', m.type = "AppendRequest"
      PROVE  m.leader_commit <= Covers(m) /\ Committed(more[m.term], m.leader_commit, also)
  <2>1. CASE m \in msgs
    <3>1. m.term \in Nat /\ m.leader_commit \in Nat
      BY <1>5, <2>1 DEF BoundsInv, TypeOK, Message
    <3>2. m.leader_commit <= Covers(m) /\ Committed(led[m.term], m.leader_commit, acks)
      BY <1>5, <2>1 DEF CommitInv, CommitsAreChosen
    <3>3. /\ led[m.term] \in Seq(Entry) /\ more[m.term] \in Seq(Entry)
          /\ Agree(led[m.term], more[m.term], Len(led[m.term]))
          /\ Len(led[m.term]) \in Nat
      BY <3>1, LenProperties DEF Led, Grows
    <3>4. m.leader_commit <= Len(led[m.term]) BY <3>1, <3>2, <3>3, CommittedBound
    <3>5. Agree(led[m.term], more[m.term], m.leader_commit)
      BY <3>1, <3>3, <3>4, LenProperties DEF Agree
    <3> QED BY <3>1, <3>2, <3>3, <3>5, CommittedGrows
  <2>2. CASE SentCommitted(m, more, also) BY <1>5, <2>2 DEF SentCommitted
  <2> QED BY <2>1, <2>2
<1>6. CommitsAreChosen(more, also)' BY <1>2, <1>4, <1>5 DEF CommitsAreChosen
<1>7. ReplyIsDecided'
  <2> SUFFICES ASSUME NEW c \in Command, client'[c].status = "ok"
               PROVE  \E k \in DOMAIN decided' : decided'[k].command = client'[c].output
    BY DEF ReplyIsDecided
  <2>1. DOMAIN decided' = 1..Len(decided') /\ DOMAIN decided = 1..Len(decided)
    BY <1>2, LenProperties
  <2>2. client' = cl BY DEF Finish
  <2>3. CASE cl[c] = client[c]
    <3>1. PICK k \in DOMAIN decided : decided[k].command = client[c].output
      BY <2>2, <2>3 DEF CommitInv, ReplyIsDecided
    <3>2. k \in 1..Len(decided) /\ k \in 1..Len(decided') BY <1>2, <1>3, <2>1
    <3>3. decided'[k] = decided[k] BY <1>2, <3>2 DEF Agree
    <3> QED BY <2>1, <2>2, <2>3, <3>1, <3>2, <3>3
  <2>4. CASE \E k \in 1..r.commit_index : r.log[k].command = cl[c].output
    <3>1. PICK k \in 1..r.commit_index : r.log[k].command = cl[c].output BY <2>4
    <3>2. r.commit_index \in Nat BY <1>1 DEF BoundsInv, TypeOK, NodeState
    <3>3. k \in 1..Len(decided') /\ r.log[k] = decided'[k]
      BY <1>2, <1>3, <3>2 DEF Agree
    <3> QED BY <2>1, <2>2, <3>1, <3>3
  <2> QED BY <2>2, <2>3, <2>4 DEF RepliesHold
<1> QED BY <1>4, <1>6, <1>7 DEF CommitInv, NodesAdvance

\* A step that changes no node and answers no client.
LEMMA IdleCommits ==
    ASSUME BoundsInv, BoundsInv', NEW led \in Led, NEW more \in Led,
           NEW acks \in SUBSET Acks, NEW also \in SUBSET Acks, Grows(led, more),
           acks \subseteq also, CommitInv(led, acks), LogInv(more, also)',
           UNCHANGED <<node, counted, decided>>,
           \A c \in Command : client'[c].status = "ok" => client'[c] = client[c],
           \A m \in msgs' : m \in msgs \/ SentCommitted(m, more, also)
    PROVE  CommitInv(more, also)' /\ NodesAdvance
<1>1. PICK i \in Node : TRUE BY NodeAssumption
<1>2. /\ Delivered(node[i], also) /\ Advances(node[i], node[i])
      /\ node[i].commit_index <= Len(decided) /\ node[i].commit_index \in Nat
      /\ node[i].commit_index <= Len(node[i].log)
  BY StillDone
<1>3. Len(node[i].applied) = node[i].commit_index
  BY <1>2, NodeFacts, PrefixAgrees DEF Delivered
<1>4. Finish(i, node[i], client', counted[i])
  <2>1. node \in [Node -> NodeState] /\ counted \in [Node -> SUBSET Node]
        /\ Len(decided) \in Nat
    BY LenProperties DEF BoundsInv, TypeOK
  <2>2. node' = [node EXCEPT ![i] = node[i]] /\ counted' = [counted EXCEPT ![i] = counted[i]]
    BY <2>1
  <2>3. decided' = IF Len(node[i].applied) > Len(decided) THEN node[i].applied ELSE decided
    BY <1>2, <1>3, <2>1
  <2> QED BY <2>2, <2>3 DEF Finish
<1>5. RepliesHold(client', node[i]) BY DEF RepliesHold
<1> QED BY <1>2, <1>4, <1>5, FinishCommits

-----------------------------------------------------------------------------
(* The kinds of steps there are. *)

\* A step from a state with history led, acks to one with history more, also.
Continued(led, acks, more, also) ==
    /\ LogInv(led, acks) /\ CommitInv(led, acks)
    /\ Grows(led, more) /\ acks \subseteq also /\ LogInv(more, also)'

CommitsKept(more, also) == CommitInv(more, also)' /\ NodesAdvance

\* What a leader sends speaks of what it has committed, and covers it.
LEMMA HeartbeatsCommitted ==
    ASSUME BoundsInv', NEW more \in Led, NEW also \in SUBSET Acks, LogInv(more, also)',
           NEW i \in Node, NEW r, node'[i] = r, r.role = "Leader", Delivered(r, also)
    PROVE  \A m \in on_heartbeat(i, r) : SentCommitted(m, more, also)
<1> SUFFICES ASSUME NEW j \in Peers(i)
             PROVE  SentCommitted(AppendRequest(i, j, r), more, also)
  BY DEF on_heartbeat
<1> DEFINE m == AppendRequest(i, j, r)
<1>1. r \in NodeState /\ r.log \in Seq(Entry) /\ r.commit_index \in Nat
  BY DEF BoundsInv, TypeOK, NodeState
<1>2. r.next_index[j] \in 1..(Len(r.log) + 1)
  BY DEF BoundsInv, IndexesInBounds, Leader, Peers
<1>3. j \in Node BY DEF Peers
<1>4. Covers(m) = Len(r.log) BY <1>1, <1>2, <1>3, AppendRequestType DEF Covers
<1>5. m.leader_commit = r.commit_index /\ m.term = r.current_term BY DEF AppendRequest
<1>6. r.log = more[r.current_term] BY DEF LogInv, NodesLogs, NodeLog
<1> HIDE DEF m
<1>7. Committed(r.log, r.commit_index, also) BY DEF Delivered
<1>8. r.commit_index <= Len(r.log) BY <1>1, <1>7, CommittedBound
<1>9. SentCommitted(m, more, also) BY <1>4, <1>5, <1>6, <1>7, <1>8 DEF SentCommitted
<1> QED BY <1>9 DEF m

\* A node that keeps its log, its commit_index and its state machine.
LEMMA KeptCommits ==
    ASSUME BoundsInv, BoundsInv', NEW led \in Led, NEW more \in Led,
           NEW acks \in SUBSET Acks, NEW also \in SUBSET Acks,
           Continued(led, acks, more, also),
           NEW i \in Node, NEW r, NEW voters, Finish(i, r, client, voters),
           r.log = node[i].log, r.commit_index = node[i].commit_index,
           r.applied = node[i].applied,
           \A m \in msgs' : m \in msgs \/ m.type # "AppendRequest"
    PROVE  CommitsKept(more, also)
<1>1. Delivered(node[i], also) /\ Advances(node[i], node[i]) BY StillDone DEF Continued
<1>2. Delivered(r, also) /\ Advances(node[i], r) BY <1>1 DEF Delivered, Advances
<1>3. RepliesHold(client, r) BY NoReplies
<1>4. \A m \in msgs' : m \in msgs \/ SentCommitted(m, more, also) BY DEF SentCommitted
<1> QED BY <1>2, <1>3, <1>4, FinishCommits DEF Continued, CommitsKept

\* A node that starts again with the log it had.
LEMMA RestartedCommits ==
    ASSUME BoundsInv, BoundsInv', NEW led \in Led, NEW more \in Led,
           NEW acks \in SUBSET Acks, NEW also \in SUBSET Acks,
           Continued(led, acks, more, also),
           NEW i \in Node, NEW r, NEW lost, NEW voters,
           Finish(i, r, Drop(client, lost), voters),
           r.log = node[i].log, r.commit_index = 0, r.applied = <<>>,
           msgs' \subseteq msgs, restarts' = restarts + 1
    PROVE  CommitsKept(more, also)
<1>1. Advances(node[i], node[i]) BY StillDone DEF Continued
<1>2. Advances(node[i], r)
  <2>1. restarts' # restarts BY DEF BoundsInv, TypeOK
  <2> QED BY <1>1, <2>1 DEF Advances
<1>3. Delivered(r, also)
  <2> DEFINE log == node[i].log
  <2>1. log \in Seq(Entry) /\ 0 \in Nat /\ 0 <= Len(log) BY NodeFacts
  <2> HIDE DEF log
  <2>2. SubSeq(log, 1, 0) \in Seq(Entry) /\ Len(SubSeq(log, 1, 0)) = 0
    BY <2>1, PrefixAgrees
  <2>3. SubSeq(log, 1, 0) = <<>> BY <2>2, EmptySeq
  <2> QED BY <2>3 DEF Delivered, Committed, log
<1>4. RepliesHold(Drop(client, lost), r) BY NoReplies
<1>5. \A m \in msgs' : m \in msgs \/ SentCommitted(m, more, also) OBVIOUS
<1> QED BY <1>2, <1>3, <1>4, <1>5, FinishCommits DEF Continued, CommitsKept

\* A node that has added to its log, or knows more of its peers' logs, looks for
\* more to commit.
LEMMA CommitCommits ==
    ASSUME BoundsInv, BoundsInv', NEW led \in Led, NEW more \in Led,
           NEW acks \in SUBSET Acks, NEW also \in SUBSET Acks,
           Continued(led, acks, more, also),
           NEW i \in Node, NEW n \in NodeState, NEW cl, NEW voters,
           Finish(i, Commit(n), Answer(cl, CommitReplies(n)), voters),
           \A c \in Command : cl[c].status = "ok" => cl[c] = client[c],
           n.role = "Leader", n.commit_index = node[i].commit_index,
           n.applied = node[i].applied,
           Agree(node[i].log, n.log, Len(node[i].log)),
           msgs' \subseteq msgs \cup on_heartbeat(i, Commit(n))
    PROVE  CommitsKept(more, also)
<1> DEFINE r == Commit(n)
           c == node[i].commit_index
<1>1. node'[i] = r /\ r \in NodeState /\ SameCore(n, r) BY FinishNode, CommitKeeps
<1>2. Delivered(node[i], also) /\ c \in Nat /\ c <= Len(node[i].log)
  BY StillDone DEF Continued
<1>3. /\ node[i].log \in Seq(Entry) /\ n.log \in Seq(Entry)
      /\ Len(node[i].log) \in Nat /\ Len(n.log) \in Nat
  BY NodeFacts, LenProperties DEF NodeState
<1>4. Agree(node[i].log, n.log, c) BY <1>2, <1>3 DEF Agree
<1>5. Delivered(n, also)
  <2>1. Committed(n.log, c, also) BY <1>2, <1>3, <1>4, CommittedGrows DEF Delivered
  <2>2. SubSeq(node[i].log, 1, c) = SubSeq(n.log, 1, c) BY <1>2, <1>3, <1>4, SamePrefix
  <2> QED BY <1>2, <2>1, <2>2 DEF Delivered
<1>6. Acknowledged(i, n, also)
  <2>1. Acknowledged(i, r, also)
    BY <1>1 DEF Continued, LogInv, MatchIsAcknowledged
  <2> HIDE DEF r
  <2> QED BY <1>1, <2>1 DEF Acknowledged, SameCore
<1>7. /\ Delivered(r, also) /\ r.commit_index >= c
      /\ \A a \in CommitReplies(n) :
            \E k \in 1..r.commit_index : r.log[k].command = a.output
  BY <1>5, <1>6, CommitDone
<1> HIDE DEF r
<1>8. Advances(node[i], r) BY <1>1, <1>4, <1>7 DEF Advances, SameCore
<1>9. RepliesHold(Answer(cl, CommitReplies(n)), r) BY <1>7, AnswersHold
<1>10. \A m \in on_heartbeat(i, r) : SentCommitted(m, more, also)
  <2>1. r.role = "Leader" BY <1>1 DEF SameCore
  <2> QED BY <1>1, <1>7, <2>1, HeartbeatsCommitted DEF Continued
<1>11. \A m \in msgs' : m \in msgs \/ SentCommitted(m, more, also) BY <1>10 DEF r
<1>12. Finish(i, r, Answer(cl, CommitReplies(n)), voters) BY DEF r
<1> QED BY <1>7, <1>8, <1>9, <1>11, <1>12, FinishCommits DEF Continued, CommitsKept

-----------------------------------------------------------------------------
(* One lemma per action. *)

\* Following a request, observing a term and stepping down concern no commits.
LEMMA FollowerKeeps ==
    ASSUME NEW n \in NodeState, NEW term, NEW m
    PROVE  /\ become_follower(n, term).commit_index = n.commit_index
           /\ become_follower(n, term).applied = n.applied
           /\ become_follower(n, term).pending_applies = n.pending_applies
           /\ Observed(n, term).commit_index = n.commit_index
           /\ Observed(n, term).applied = n.applied
           /\ Observed(n, term).pending_applies = n.pending_applies
           /\ Following(n, m).commit_index = n.commit_index
           /\ Following(n, m).applied = n.applied
           /\ Following(n, m).pending_applies = n.pending_applies
<1> DEFINE b == IF StepsDown(n, m) THEN become_follower(n, m.term) ELSE n
<1>1. \A t : /\ become_follower(n, t).commit_index = n.commit_index
             /\ become_follower(n, t).applied = n.applied
             /\ become_follower(n, t).pending_applies = n.pending_applies
  BY DEF become_follower, NodeState
<1>2. /\ b.commit_index = n.commit_index /\ b.applied = n.applied
      /\ b.pending_applies = n.pending_applies
  BY <1>1
<1>3. Following(n, m) =
         [b EXCEPT !.current_leader_id =
                      IF b.current_leader_id = Nil THEN m.from ELSE b.current_leader_id]
  BY DEF Following
<1>4. /\ Following(n, m).commit_index = b.commit_index
      /\ Following(n, m).applied = b.applied
      /\ Following(n, m).pending_applies = b.pending_applies
  <2> HIDE DEF b
  <2> QED BY <1>3
<1> QED BY <1>1, <1>2, <1>4 DEF Observed

\* heartbeat.
LEMMA HeartbeatCommits ==
    ASSUME BoundsInv, BoundsInv', NEW led \in Led, NEW more \in Led,
           NEW acks \in SUBSET Acks, NEW also \in SUBSET Acks,
           Continued(led, acks, more, also), NEW i \in Node, heartbeat(i)
    PROVE  CommitsKept(more, also)
<1>1. /\ node[i].role = "Leader" /\ send_message(msgs, on_heartbeat(i, node[i]))
      /\ UNCHANGED <<node, client, counted, decided>>
  BY DEF heartbeat
<1>2. Delivered(node[i], also) BY StillDone DEF Continued
<1>3. \A m \in on_heartbeat(i, node[i]) : SentCommitted(m, more, also)
  <2>1. PICK r : r = node[i] OBVIOUS
  <2>2. node'[i] = r /\ r.role = "Leader" /\ Delivered(r, also) BY <1>1, <1>2, <2>1
  <2>3. \A m \in on_heartbeat(i, r) : SentCommitted(m, more, also)
    BY <2>2, HeartbeatsCommitted DEF Continued
  <2> QED BY <2>1, <2>3
<1>4. msgs' \subseteq msgs \cup on_heartbeat(i, node[i]) BY <1>1, SendAdds
<1>5. \A m \in msgs' : m \in msgs \/ SentCommitted(m, more, also) BY <1>3, <1>4
<1>6. \A c \in Command : client'[c].status = "ok" => client'[c] = client[c] BY <1>1
<1> QED BY <1>1, <1>5, <1>6, IdleCommits DEF Continued, CommitsKept

\* The steps that change no node and send nothing but a refusal.
LEMMA RefusalCommits ==
    ASSUME BoundsInv, BoundsInv', NEW led \in Led, NEW more \in Led,
           NEW acks \in SUBSET Acks, NEW also \in SUBSET Acks,
           Continued(led, acks, more, also),
           NEW m, vote_request_stale(m) \/ append_request_stale(m) \/ ignore(m)
    PROVE  CommitsKept(more, also)
<1> DEFINE vote == VoteResponse(m.to, m.from, node[m.to].current_term, FALSE)
           append == AppendResponse(m.to, m.from, node[m.to].current_term, 0, FALSE)
<1>1. /\ UNCHANGED <<node, client, counted, decided>>
      /\ Receive(m, {vote}) \/ Receive(m, {append}) \/ Receive(m, {})
  BY DEF vote_request_stale, append_request_stale, ignore
<1>2. vote.type # "AppendRequest" /\ append.type # "AppendRequest"
  BY DEF VoteResponse, AppendResponse
<1> HIDE DEF vote, append
<1>3. msgs' \subseteq msgs \cup {vote, append}
  <2>1. CASE Receive(m, {vote}) BY <2>1, ReceiveAdds
  <2>2. CASE Receive(m, {append}) BY <2>2, ReceiveAdds
  <2>3. CASE Receive(m, {})
    <3>1. msgs' \subseteq msgs \cup {} BY <2>3, ReceiveAdds
    <3> QED BY <3>1
  <2> QED BY <1>1, <2>1, <2>2, <2>3
<1>4. \A x \in msgs' : x \in msgs \/ SentCommitted(x, more, also)
  BY <1>2, <1>3 DEF SentCommitted
<1>5. \A c \in Command : client'[c].status = "ok" => client'[c] = client[c] BY <1>1
<1> QED BY <1>1, <1>4, <1>5, IdleCommits DEF Continued, CommitsKept

\* A command is refused.
LEMMA ClientCommandRefuseCommits ==
    ASSUME BoundsInv, BoundsInv', NEW led \in Led, NEW more \in Led,
           NEW acks \in SUBSET Acks, NEW also \in SUBSET Acks,
           Continued(led, acks, more, also),
           NEW i \in Node, NEW c \in Command, client_command_refuse(i, c)
    PROVE  CommitsKept(more, also)
<1>1. /\ UNCHANGED <<node, msgs, counted, decided>>
      /\ client' = [client EXCEPT ![c] = Status("rejected")]
  BY DEF client_command_refuse
<1>2. ASSUME NEW d \in Command, client'[d].status = "ok" PROVE client'[d] = client[d]
  <2>1. client \in [Command -> Outcome] BY StateContext
  <2>2. Status("rejected").status # "ok" BY DEF Status
  <2> QED BY <1>1, <1>2, <2>1, <2>2
<1>3. \A m \in msgs' : m \in msgs \/ SentCommitted(m, more, also) BY <1>1
<1> QED BY <1>1, <1>2, <1>3, IdleCommits DEF Continued, CommitsKept

\* vote_request, granted or refused.
LEMMA VoteRequestCommits ==
    ASSUME BoundsInv, BoundsInv', NEW led \in Led, NEW more \in Led,
           NEW acks \in SUBSET Acks, NEW also \in SUBSET Acks,
           Continued(led, acks, more, also),
           NEW m \in msgs, vote_request_grant(m) \/ vote_request_reject(m)
    PROVE  CommitsKept(more, also)
<1> DEFINE i == m.to
           o == Observed(node[i], m.term)
           g == [o EXCEPT !.voted_for = m.from]
           yes == VoteResponse(i, m.from, g.current_term, TRUE)
           no == VoteResponse(i, m.from, o.current_term, FALSE)
<1>1. /\ i \in Node /\ node[i] \in NodeState /\ m.term \in Nat
  BY HandlerContext
<1>2. /\ m.term >= node[i].current_term
      /\ \/ Receive(m, {yes}) /\ Finish(i, g, client, VotersKept(m))
         \/ Receive(m, {no}) /\ Finish(i, o, client, VotersKept(m))
  BY DEF vote_request_grant, vote_request_reject
<1>3. /\ o.log = node[i].log /\ o.commit_index = node[i].commit_index
      /\ o.applied = node[i].applied
  BY <1>1, <1>2, ObservedEvolves, FollowerKeeps
<1>4. yes.type # "AppendRequest" /\ no.type # "AppendRequest" BY DEF VoteResponse
<1> HIDE DEF o, yes, no
<1>5. g.log = o.log /\ g.commit_index = o.commit_index /\ g.applied = o.applied OBVIOUS
<1> HIDE DEF i, g
<1>6. CASE Receive(m, {yes}) /\ Finish(i, g, client, VotersKept(m))
  <2>1. msgs' \subseteq msgs \cup {yes} BY <1>6, ReceiveAdds
  <2>2. \A x \in msgs' : x \in msgs \/ x.type # "AppendRequest" BY <1>4, <2>1
  <2> QED BY <1>1, <1>3, <1>5, <1>6, <2>2, KeptCommits
<1>7. CASE Receive(m, {no}) /\ Finish(i, o, client, VotersKept(m))
  <2>1. msgs' \subseteq msgs \cup {no} BY <1>7, ReceiveAdds
  <2>2. \A x \in msgs' : x \in msgs \/ x.type # "AppendRequest" BY <1>4, <2>1
  <2> QED BY <1>1, <1>3, <1>7, <2>2, KeptCommits
<1> QED BY <1>2, <1>6, <1>7

\* step_down.
LEMMA StepDownCommits ==
    ASSUME BoundsInv, BoundsInv', NEW led \in Led, NEW more \in Led,
           NEW acks \in SUBSET Acks, NEW also \in SUBSET Acks,
           Continued(led, acks, more, also), NEW m \in msgs, step_down(m)
    PROVE  CommitsKept(more, also)
<1> DEFINE i == m.to
           r == become_follower(node[i], m.term)
<1>1. i \in Node /\ node[i] \in NodeState /\ m.term \in Nat BY HandlerContext
<1>2. Receive(m, {}) /\ Finish(i, r, client, {}) BY DEF step_down
<1>3. /\ r.log = node[i].log /\ r.commit_index = node[i].commit_index
      /\ r.applied = node[i].applied
  BY <1>1, BecomeFollower, FollowerKeeps
<1> HIDE DEF i, r
<1>4. msgs' \subseteq msgs \cup {} BY <1>2, ReceiveAdds
<1> QED BY <1>1, <1>2, <1>3, <1>4, KeptCommits

\* append_request without the previous entry.
LEMMA AppendRequestMismatchCommits ==
    ASSUME BoundsInv, BoundsInv', NEW led \in Led, NEW more \in Led,
           NEW acks \in SUBSET Acks, NEW also \in SUBSET Acks,
           Continued(led, acks, more, also),
           NEW m \in msgs, Current(m), append_request_mismatch(m)
    PROVE  CommitsKept(more, also)
<1> DEFINE i == m.to
           r == Following(node[i], m)
           hint == IF m.prev_log_index > Len(r.log) THEN Len(r.log)
                   ELSE m.prev_log_index
           q == AppendResponse(i, m.from, r.current_term, hint, FALSE)
<1>1. i \in Node /\ node[i] \in NodeState BY HandlerContext
<1>2. Receive(m, {q}) /\ Finish(i, r, client, {}) BY DEF append_request_mismatch
<1>3. /\ r.log = node[i].log /\ r.commit_index = node[i].commit_index
      /\ r.applied = node[i].applied
  BY <1>1, FollowingEvolves, FollowerKeeps
<1>4. q.type # "AppendRequest" BY DEF AppendResponse
<1> HIDE DEF i, r, hint, q
<1>5. msgs' \subseteq msgs \cup {q} BY <1>2, ReceiveAdds
<1>6. \A x \in msgs' : x \in msgs \/ x.type # "AppendRequest" BY <1>4, <1>5
<1> QED BY <1>1, <1>2, <1>3, <1>6, KeptCommits

\* restart.
LEMMA RestartCommits ==
    ASSUME BoundsInv, BoundsInv', NEW led \in Led, NEW more \in Led,
           NEW acks \in SUBSET Acks, NEW also \in SUBSET Acks,
           Continued(led, acks, more, also), NEW i \in Node, restart(i)
    PROVE  CommitsKept(more, also)
<1> DEFINE r == restore_state(disk[i])
<1>1. /\ Finish(i, r, Drop(client, node[i].pending_applies), {})
      /\ msgs' \subseteq msgs /\ restarts' = restarts + 1
  BY DEF restart
<1>2. disk[i] = PersistentState(node[i])
  BY DEF BoundsInv, TypeOK, Persisted
<1>3. disk[i].log = node[i].log BY <1>2 DEF PersistentState
<1>4. r.log = node[i].log /\ r.commit_index = 0 /\ r.applied = <<>>
  BY <1>3 DEF restore_state
<1> HIDE DEF r
<1> QED BY <1>1, <1>4, RestartedCommits

\* A stop between the two saves of a handler.
LEMMA CrashAfterStepDownCommits ==
    ASSUME BoundsInv, BoundsInv', NEW led \in Led, NEW more \in Led,
           NEW acks \in SUBSET Acks, NEW also \in SUBSET Acks,
           Continued(led, acks, more, also), NEW m \in msgs, crash_after_step_down(m)
    PROVE  CommitsKept(more, also)
<1> DEFINE i == m.to
           n == become_follower(node[i], m.term)
           r == restore_state(PersistentState(n))
<1>1. i \in Node /\ node[i] \in NodeState /\ m.term \in Nat BY HandlerContext
<1>2. /\ Receive(m, {}) /\ restarts' = restarts + 1
      /\ Finish(i, r, Drop(client, node[i].pending_applies), {})
  BY DEF crash_after_step_down
<1>3. n.log = node[i].log BY <1>1, BecomeFollower
<1> HIDE DEF n, i
<1>4. r.log = node[i].log /\ r.commit_index = 0 /\ r.applied = <<>>
  BY <1>3 DEF restore_state, PersistentState
<1> HIDE DEF r
<1>5. msgs' \subseteq msgs \cup {} BY <1>2, ReceiveAdds
<1>6. msgs' \subseteq msgs BY <1>5
<1> QED BY <1>1, <1>2, <1>4, <1>6, RestartedCommits

\* A candidate becomes leader by adding one entry to its log.
LEMMA NewLeaderKeeps ==
    ASSUME NEW i \in Node, NEW n \in NodeState
    PROVE  /\ LET s == start_election(i, n)
              IN  /\ s.commit_index = n.commit_index /\ s.applied = n.applied
                  /\ s.pending_applies = n.pending_applies
           /\ LET l == become_leader(n)
              IN  /\ l \in NodeState /\ l.role = "Leader"
                  /\ l.commit_index = n.commit_index /\ l.applied = n.applied
                  /\ l.pending_applies = n.pending_applies
                  /\ Agree(n.log, l.log, Len(n.log))
<1>1. LET s == start_election(i, n)
      IN  /\ s.commit_index = n.commit_index /\ s.applied = n.applied
          /\ s.pending_applies = n.pending_applies
  BY DEF start_election, NodeState
<1> DEFINE l == become_leader(n)
           e == [term |-> n.current_term, command |-> NoOp]
<1>2. l \in NodeState /\ e \in Entry /\ l.log = Append(n.log, e)
  BY BecomeLeader, NewLeaderLog
<1>3. /\ l.role = "Leader" /\ l.commit_index = n.commit_index
      /\ l.applied = n.applied /\ l.pending_applies = n.pending_applies
  BY DEF become_leader, NodeState
<1>4. Agree(n.log, l.log, Len(n.log))
  <2>1. n.current_term \in Nat /\ n.log \in Seq(Entry) BY DEF NodeState
  <2>2. e.term = n.current_term OBVIOUS
  <2> HIDE DEF e, l
  <2> QED BY <1>2, <2>1, <2>2, AppendFacts
<1> QED BY <1>1, <1>2, <1>3, <1>4

\* An election begins.
LEMMA BecomeCandidateCommits ==
    ASSUME BoundsInv, BoundsInv', NEW led \in Led, NEW more \in Led,
           NEW acks \in SUBSET Acks, NEW also \in SUBSET Acks,
           Continued(led, acks, more, also), NEW i \in Node, become_candidate(i)
    PROVE  CommitsKept(more, also)
<1> DEFINE o == node[i]
           n == start_election(i, o)
           l == become_leader(n)
<1>1. o \in NodeState BY NodeFacts
<1>2. /\ n \in NodeState /\ n.log = o.log /\ n.commit_index = o.commit_index
      /\ n.applied = o.applied
  BY <1>1, StartElection, NewLeaderKeeps
<1>3. \/ /\ Finish(i, Commit(l), Answer(client, CommitReplies(l)), {})
         /\ send_message(msgs, on_heartbeat(i, Commit(l)))
      \/ /\ Finish(i, n, client, {i})
         /\ send_message(msgs, {VoteRequest(i, j, n) : j \in Peers(i)})
  BY DEF become_candidate
<1> HIDE DEF n, o
<1>4. /\ l \in NodeState /\ l.role = "Leader" /\ l.commit_index = o.commit_index
      /\ l.applied = o.applied /\ Agree(o.log, l.log, Len(o.log))
  BY <1>2, NewLeaderKeeps
<1> HIDE DEF l
<1>5. CASE /\ Finish(i, Commit(l), Answer(client, CommitReplies(l)), {})
           /\ send_message(msgs, on_heartbeat(i, Commit(l)))
  <2>1. msgs' \subseteq msgs \cup on_heartbeat(i, Commit(l)) BY <1>5, SendAdds
  <2> QED BY <1>4, <1>5, <2>1, CommitCommits DEF o
<1>6. CASE /\ Finish(i, n, client, {i})
           /\ send_message(msgs, {VoteRequest(i, j, n) : j \in Peers(i)})
  <2>1. msgs' \subseteq msgs \cup {VoteRequest(i, j, n) : j \in Peers(i)}
    BY <1>6, SendAdds
  <2>2. \A m \in msgs' : m \in msgs \/ m.type # "AppendRequest"
    BY <2>1 DEF VoteRequest
  <2> QED BY <1>2, <1>6, <2>2, KeptCommits DEF o
<1> QED BY <1>3, <1>5, <1>6

\* A vote is counted.
LEMMA CountVoteCommits ==
    ASSUME BoundsInv, BoundsInv', NEW led \in Led, NEW more \in Led,
           NEW acks \in SUBSET Acks, NEW also \in SUBSET Acks,
           Continued(led, acks, more, also), NEW m \in msgs, count_vote(m)
    PROVE  CommitsKept(more, also)
<1> DEFINE i == m.to
           o == node[i]
           n == [o EXCEPT !.votes_received = o.votes_received + 1]
           l == become_leader(n)
           voters == counted[i] \cup {m.from}
<1>1. i \in Node /\ o \in NodeState /\ o.votes_received + 1 \in Nat
  <2>1. i \in Node /\ o \in NodeState BY HandlerContext
  <2> HIDE DEF o
  <2> QED BY <2>1 DEF NodeState
<1>2. \/ /\ Finish(i, Commit(l), Answer(client, CommitReplies(l)), {})
         /\ Receive(m, on_heartbeat(i, Commit(l)))
      \/ Finish(i, n, client, voters) /\ Receive(m, {})
  BY DEF count_vote
<1> HIDE DEF i, o, voters
<1>3. /\ n \in NodeState /\ n.log = o.log /\ n.commit_index = o.commit_index
      /\ n.applied = o.applied
  BY <1>1 DEF NodeState
<1> HIDE DEF n
<1>4. /\ l \in NodeState /\ l.role = "Leader" /\ l.commit_index = o.commit_index
      /\ l.applied = o.applied /\ Agree(o.log, l.log, Len(o.log))
  BY <1>1, <1>3, NewLeaderKeeps
<1> HIDE DEF l
<1>5. CASE /\ Finish(i, Commit(l), Answer(client, CommitReplies(l)), {})
           /\ Receive(m, on_heartbeat(i, Commit(l)))
  <2>1. msgs' \subseteq msgs \cup on_heartbeat(i, Commit(l)) BY <1>5, ReceiveAdds
  <2> QED BY <1>1, <1>4, <1>5, <2>1, CommitCommits DEF o
<1>6. CASE Finish(i, n, client, voters) /\ Receive(m, {})
  <2>1. msgs' \subseteq msgs \cup {} BY <1>6, ReceiveAdds
  <2> QED BY <1>1, <1>3, <1>6, <2>1, KeptCommits DEF o
<1> QED BY <1>2, <1>5, <1>6

\* append_response.
LEMMA AppendResponseCommits ==
    ASSUME BoundsInv, BoundsInv', NEW led \in Led, NEW more \in Led,
           NEW acks \in SUBSET Acks, NEW also \in SUBSET Acks,
           Continued(led, acks, more, also),
           NEW m \in msgs, m.type = "AppendResponse", append_response_handled(m)
    PROVE  CommitsKept(more, also)
<1> DEFINE i == m.to
           o == node[i]
           k == backoff(m.match_index)
           won == [o EXCEPT !.match_index[m.from] = m.match_index,
                            !.next_index[m.from] = m.match_index + 1]
           lost == [o EXCEPT !.next_index[m.from] = k]
           n == IF m.success THEN won ELSE lost
<1>1. i \in Node /\ m.from \in Node /\ o \in NodeState BY HandlerContext
<1>2. m.match_index \in Nat /\ k \in Nat /\ m.match_index + 1 \in Nat
  <2>1. m.match_index \in Nat /\ m.success \in BOOLEAN
    BY DEF BoundsInv, TypeOK, Message
  <2> QED BY <2>1, BackoffType
<1>3. /\ o.role = "Leader" /\ Receive(m, {})
      /\ Finish(i, Commit(n), Answer(client, CommitReplies(n)), {})
  BY DEF append_response_handled
<1> HIDE DEF i, o, k
<1>4. /\ won \in NodeState /\ won.log = o.log /\ won.role = o.role
      /\ won.commit_index = o.commit_index /\ won.applied = o.applied
  BY <1>1, <1>2 DEF NodeState
<1>5. /\ lost \in NodeState /\ lost.log = o.log /\ lost.role = o.role
      /\ lost.commit_index = o.commit_index /\ lost.applied = o.applied
  BY <1>1, <1>2 DEF NodeState
<1> HIDE DEF won, lost
<1>6. /\ n \in NodeState /\ n.log = o.log /\ n.role = "Leader"
      /\ n.commit_index = o.commit_index /\ n.applied = o.applied
  BY <1>3, <1>4, <1>5
<1> HIDE DEF n
<1>7. Agree(o.log, n.log, Len(o.log))
  <2>1. Len(o.log) \in Nat BY <1>1, NodeFacts DEF o
  <2> QED BY <1>6, <2>1 DEF Agree
<1>8. msgs' \subseteq msgs \cup on_heartbeat(i, Commit(n))
  <2>1. msgs' \subseteq msgs \cup {} BY <1>3, ReceiveAdds
  <2> QED BY <2>1
<1> QED BY <1>1, <1>3, <1>6, <1>7, <1>8, CommitCommits DEF o

\* The leader takes a command.
LEMMA ClientCommandAcceptCommits ==
    ASSUME BoundsInv, BoundsInv', NEW led \in Led, NEW more \in Led,
           NEW acks \in SUBSET Acks, NEW also \in SUBSET Acks,
           Continued(led, acks, more, also),
           NEW i \in Node, NEW c \in Command, client_command_accept(i, c)
    PROVE  CommitsKept(more, also)
<1> DEFINE o == node[i]
           index == apply_index(o.log)
           stale == {p \in o.pending_applies : p.index = index}
           e == [term |-> o.current_term, command |-> c]
           log == Append(o.log, e)
           pending == (o.pending_applies \ stale) \cup {[index |-> index, request |-> c]}
           n == [o EXCEPT !.log = log, !.pending_applies = pending]
           waiting == [Drop(client, stale) EXCEPT ![c] = Status("waiting")]
<1>1. /\ o \in NodeState /\ o.current_term \in Nat /\ o.log \in Seq(Entry)
      /\ Len(o.log) \in Nat /\ o.pending_applies \in SUBSET Pending
  BY NodeFacts DEF NodeState
<1>2. /\ o.role = "Leader"
      /\ Finish(i, Commit(n), Answer(waiting, CommitReplies(n)), {})
      /\ send_message(msgs, on_heartbeat(i, Commit(n)))
  <2>1. n = [node[i] EXCEPT
               !.log = Append(@, [term |-> node[i].current_term, command |-> c]),
               !.pending_applies = (@ \ stale) \cup {[index |-> index, request |-> c]}]
    BY <1>1 DEF NodeState
  <2> QED BY <2>1 DEF client_command_accept
<1>3. e \in Entry /\ e.term = o.current_term BY <1>1 DEF Entry
<1>4. ASSUME NEW d \in Command, waiting[d].status = "ok" PROVE waiting[d] = client[d]
  <2>1. Status("waiting").status # "ok" BY DEF Status
  <2>2. DOMAIN Drop(client, stale) = Command BY DEF Drop
  <2> HIDE DEF stale
  <2>3. d # c BY <1>4, <2>1, <2>2
  <2>4. waiting[d] = Drop(client, stale)[d] BY <2>2, <2>3
  <2> HIDE DEF waiting
  <2> QED BY <1>4, <2>4, DropHolds
<1> HIDE DEF waiting, o, e
<1>5. log \in Seq(Entry) /\ Agree(o.log, log, Len(o.log))
  BY <1>1, <1>3, AppendFacts
<1>6. pending \in SUBSET Pending
  <2>1. index \in Nat BY <1>1 DEF apply_index
  <2>2. [index |-> index, request |-> c] \in Pending BY <2>1 DEF Pending
  <2> HIDE DEF index
  <2> QED BY <2>2, <1>1
<1> HIDE DEF log, pending
<1>7. /\ n \in NodeState /\ n.log = log /\ n.role = o.role
      /\ n.commit_index = o.commit_index /\ n.applied = o.applied
  BY <1>1, <1>5, <1>6 DEF NodeState
<1> HIDE DEF n
<1>8. msgs' \subseteq msgs \cup on_heartbeat(i, Commit(n)) BY <1>2, SendAdds
<1> QED BY <1>2, <1>4, <1>5, <1>7, <1>8, CommitCommits DEF o

\* append_request with the previous entry: the cut at the first conflict stays above
\* what is committed, for the leader of the request's term has all of it; and what
\* leader_commit speaks of is in the log now.
LEMMA AppendRequestAcceptCommits ==
    ASSUME BoundsInv, BoundsInv', NEW led \in Led, NEW more \in Led,
           NEW acks \in SUBSET Acks, NEW also \in SUBSET Acks,
           Continued(led, acks, more, also),
           NEW m \in msgs, m.type = "AppendRequest", Current(m),
           append_request_accept(m)
    PROVE  CommitsKept(more, also)
<1> DEFINE i == m.to
           o == node[i]
           f == Following(o, m)
           log == AppendEntries(f.log, m.prev_log_index, m.entries)
           commit == IF m.leader_commit > f.commit_index
                     THEN Min({m.leader_commit, Len(log)}) ELSE f.commit_index
           n == [f EXCEPT !.log = log, !.commit_index = commit]
           r == apply_committed(n)
           q == AppendResponse(i, m.from, n.current_term, last_match_index(m, log), TRUE)
           lead == led[m.term]
           c == o.commit_index
<1>1. /\ i \in Node /\ m.term \in Nat /\ o \in NodeState /\ o.log \in Seq(Entry)
      /\ c \in Nat /\ m.leader_commit \in Nat
  <2>1. i \in Node /\ m.term \in Nat BY HandlerContext
  <2> QED BY <2>1, NodeFacts, AppendRequestContext
<1>2. Receive(m, {q}) /\ Finish(i, r, Answer(client, replies(n)), {})
  BY DEF append_request_accept
<1>3. /\ n \in NodeState /\ n.log = log /\ n.applied = f.applied
      /\ SameCore(n, r)
      /\ lead \in Seq(Entry) /\ Covers(m) \in Nat \ {0}
      /\ Carries(lead, m.term, Covers(m)) /\ Agree(log, lead, Covers(m))
      /\ \/ log = o.log
         \/ /\ Len(log) = Covers(m)
            /\ \A k \in Nat : Agree(o.log, lead, k)
                                => k < Covers(m) /\ Agree(log, o.log, k)
  BY AcceptFacts DEF Continued
<1>4. f.commit_index = c /\ f.applied = o.applied BY <1>1, FollowerKeeps
<1>5. n.commit_index = commit
  <2>1. f \in NodeState BY FollowingEvolves
  <2> HIDE DEF f, log, commit
  <2> QED BY <2>1 DEF NodeState
<1>6. q.type # "AppendRequest" BY DEF AppendResponse
<1>7. /\ Delivered(o, also) /\ Committed(o.log, c, acks) /\ c <= Len(o.log)
  BY <1>1, StillDone DEF Continued, CommitInv, CommitsAreChosen
<1>8. m.leader_commit <= Covers(m) /\ Committed(lead, m.leader_commit, acks)
  BY DEF Continued, CommitInv, CommitsAreChosen
<1>9. Backed(o.log, led) /\ WrittenBy(o.log, o.current_term)
  BY <1>1 DEF Continued, LogInv, NodesLogs, NodeLog
<1>10. m.term >= o.current_term /\ o.current_term \in Nat
  BY <1>1, NodeFacts DEF Current
<1>11. Known(led, acks) BY KnownNow DEF Continued
<1>12. node[i] = o OBVIOUS
<1> HIDE DEF i, o, f, log, n, r, q, c
<1>13. log \in Seq(Entry) /\ Len(log) \in Nat /\ Len(o.log) \in Nat /\ Len(lead) \in Nat
  BY <1>1, <1>3, LenProperties DEF NodeState
<1>14. Agree(o.log, lead, c)
  <2>1. CASE c = 0 BY <1>13, <2>1 DEF Agree
  <2>2. CASE c # 0
    <3>1. c \in 1..Len(o.log) /\ Chosen(o.log[c].term, c, acks)
      BY <1>7, <2>2 DEF Committed
    <3>2. o.log[c].term <= m.term
      <4>1. o.log[c].term <= o.current_term BY <1>9, <3>1 DEF WrittenBy
      <4>2. o.log[c].term \in Nat BY <1>1, <3>1, LogFacts
      <4> QED BY <1>1, <1>10, <4>1, <4>2
    <3>3. led[m.term] # <<>> BY <1>3, LogFacts DEF Carries
    <3> QED BY <1>1, <1>9, <1>11, <3>1, <3>2, <3>3, LeaderKnows
  <2> QED BY <2>1, <2>2
<1> HIDE DEF lead
<1>15. Agree(o.log, log, c)
  <2>1. CASE log = o.log BY <1>7, <2>1 DEF Agree
  <2>2. CASE log # o.log
    <3>1. Agree(log, o.log, c) BY <1>1, <1>3, <1>14, <2>2
    <3> QED BY <1>1, <1>13, <3>1, AgreeSym
  <2> QED BY <2>1, <2>2
<1>16. Committed(log, c, also)
  BY <1>1, <1>7, <1>13, <1>15, CommittedGrows DEF Delivered, c
<1>17. Committed(n.log, n.commit_index, also) /\ c <= n.commit_index
  <2>1. CASE m.leader_commit > c
    <3>1. m.leader_commit <= Len(log) BY <1>1, <1>3, <1>8, <1>13 DEF Agree
    <3>2. commit = m.leader_commit
      <4> DEFINE a == m.leader_commit
                 b == Len(log)
      <4>1. a \in Int /\ b \in Int /\ a <= b BY <1>1, <1>13, <3>1
      <4>2. commit = Min({a, b}) BY <1>4, <2>1
      <4> HIDE DEF a, b
      <4>3. Min({a, b}) \in {a, b} /\ Min({a, b}) <= a /\ Min({a, b}) <= b
        BY <4>1, MinOfTwo
      <4>4. Min({a, b}) = a BY <4>1, <4>3
      <4> QED BY <4>2, <4>4 DEF a
    <3>3. Agree(lead, log, m.leader_commit)
      <4>1. Agree(log, lead, m.leader_commit)
        BY <1>1, <1>3, <1>8, <1>13, <3>1 DEF Agree
      <4> QED BY <1>1, <1>3, <1>13, <4>1, AgreeSym
    <3>4. Committed(log, m.leader_commit, also)
      BY <1>1, <1>3, <1>8, <1>13, <3>3, CommittedGrows DEF Continued
    <3> QED BY <1>1, <1>3, <1>5, <2>1, <3>2, <3>4
  <2>2. CASE ~(m.leader_commit > c)
    <3>1. commit = c BY <1>4, <2>2
    <3> QED BY <1>1, <1>3, <1>5, <1>16, <3>1
  <2> QED BY <2>1, <2>2
<1>18. n.applied = SubSeq(n.log, 1, c)
  <2>1. o.applied = SubSeq(o.log, 1, c) BY <1>7 DEF Delivered, c
  <2>2. SubSeq(o.log, 1, c) = SubSeq(log, 1, c) BY <1>1, <1>13, <1>15, SamePrefix
  <2> QED BY <1>3, <1>4, <2>1, <2>2
<1>19. /\ Delivered(r, also) /\ r.commit_index = n.commit_index
       /\ \A a \in replies(n) : \E k \in 1..r.commit_index : r.log[k].command = a.output
  BY <1>1, <1>3, <1>17, <1>18, ApplyDone DEF r
<1>20. Advances(node[i], r)
  <2>1. r.log = log BY <1>3 DEF SameCore
  <2> QED BY <1>12, <1>15, <1>17, <1>19, <2>1 DEF Advances, c
<1>21. RepliesHold(Answer(client, replies(n)), r) BY <1>19, AnswersHold
<1>22. \A x \in msgs' : x \in msgs \/ SentCommitted(x, more, also)
  <2>1. msgs' \subseteq msgs \cup {q} BY <1>2, ReceiveAdds
  <2> QED BY <1>6, <2>1 DEF SentCommitted
<1> QED BY <1>1, <1>2, <1>19, <1>20, <1>21, <1>22, FinishCommits
        DEF Continued, CommitsKept

-----------------------------------------------------------------------------
(* The invariant is inductive. *)

\* New nodes have committed nothing.
LEMMA CommitInit ==
    ASSUME Init, NEW led, NEW acks
    PROVE  CommitInv(led, acks)
<1>1. /\ msgs = {} /\ decided = <<>> /\ Len(<<>>) = 0
      /\ \A c \in Command : client[c] = Status("idle")
      /\ \A i \in Node : /\ node[i].commit_index = 0 /\ node[i].applied = <<>>
                         /\ node[i].log = <<>>
  BY EmptySeq DEF Init, restore_state, Fresh
<1>2. SubSeq(<<>>, 1, 0) = <<>>
  <2>1. <<>> \in Seq(Entry) /\ 0 \in Nat /\ 0 <= Len(<<>>) BY <1>1, EmptySeq
  <2>2. SubSeq(<<>>, 1, 0) \in Seq(Entry) /\ Len(SubSeq(<<>>, 1, 0)) = 0
    BY <2>1, PrefixAgrees
  <2> QED BY <2>2, EmptySeq
<1>3. CommitsAreChosen(led, acks)
  <2>1. \A log : Committed(log, 0, acks) BY DEF Committed
  <2>2. ASSUME NEW i \in Node
        PROVE  /\ Committed(node[i].log, node[i].commit_index, acks)
               /\ node[i].applied = SubSeq(node[i].log, 1, node[i].commit_index)
               /\ node[i].commit_index <= Len(decided)
    <3>1. /\ node[i].commit_index = 0 /\ node[i].applied = <<>> /\ node[i].log = <<>>
          /\ Len(decided) = 0
      BY <1>1
    <3>2. Committed(node[i].log, node[i].commit_index, acks) BY <2>1, <3>1
    <3>3. node[i].applied = SubSeq(node[i].log, 1, node[i].commit_index)
      BY <1>2, <3>1, Zenon
    <3> QED BY <3>1, <3>2, <3>3
  <2>3. Backed(decided, led) /\ Committed(decided, Len(decided), acks)
    BY <1>1, <2>1 DEF Backed
  <2> QED BY <1>1, <2>2, <2>3 DEF CommitsAreChosen
<1>4. ReplyIsDecided BY <1>1 DEF ReplyIsDecided, Status
<1> QED BY <1>3, <1>4 DEF CommitInv

\* Every step keeps what is committed: one case per action.
LEMMA CommitNext ==
    ASSUME BoundsInv, BoundsInv', NEW led \in Led, NEW more \in Led,
           NEW acks \in SUBSET Acks, NEW also \in SUBSET Acks,
           Continued(led, acks, more, also), [Next]_vars
    PROVE  CommitsKept(more, also)
<1>1. CASE UNCHANGED vars
  <2>1. UNCHANGED <<node, counted, decided, client, msgs>> BY <1>1 DEF vars
  <2> QED BY <2>1, IdleCommits DEF Continued, CommitsKept
<1>2. ASSUME NEW i \in Node, become_candidate(i) PROVE CommitsKept(more, also)
  BY <1>2, BecomeCandidateCommits
<1>3. ASSUME NEW i \in Node, heartbeat(i) PROVE CommitsKept(more, also)
  BY <1>3, HeartbeatCommits
<1>4. ASSUME NEW i \in Node, restart(i) PROVE CommitsKept(more, also)
  BY <1>4, RestartCommits
<1>5. ASSUME NEW m \in msgs, vote_request(m) PROVE CommitsKept(more, also)
  BY <1>5, RefusalCommits, VoteRequestCommits DEF vote_request
<1>6. ASSUME NEW m \in msgs, vote_response(m) PROVE CommitsKept(more, also)
  BY <1>6, RefusalCommits, StepDownCommits, CountVoteCommits DEF vote_response
<1>7. ASSUME NEW m \in msgs, append_request(m) PROVE CommitsKept(more, also)
  BY <1>7, RefusalCommits, AppendRequestMismatchCommits, AppendRequestAcceptCommits
     DEF append_request, Current
<1>8. ASSUME NEW m \in msgs, append_response(m) PROVE CommitsKept(more, also)
  BY <1>8, RefusalCommits, StepDownCommits, AppendResponseCommits DEF append_response
<1>9. ASSUME NEW m \in msgs, crash_after_step_down(m) PROVE CommitsKept(more, also)
  BY <1>9, CrashAfterStepDownCommits
<1>10. ASSUME NEW i \in Node, NEW c \in Command, client_command(i, c)
       PROVE  CommitsKept(more, also)
  BY <1>10, ClientCommandAcceptCommits, ClientCommandRefuseCommits DEF client_command
<1> QED BY <1>1, <1>2, <1>3, <1>4, <1>5, <1>6, <1>7, <1>8, <1>9, <1>10
        DEF Next, handle_message

-----------------------------------------------------------------------------
(* How a step changes what the state machines were given. *)

\* At most one node moves in a step, and decided follows its state machine.
Moves(i) ==
    /\ node' = [node EXCEPT ![i] = node'[i]]
    /\ decided' = IF Len(node'[i].applied) > Len(decided)
                  THEN node'[i].applied ELSE decided

OneMoves == UNCHANGED <<node, decided>> \/ \E i \in Node : Moves(i)

DecidedStays == Len(decided) <= Len(decided') /\ Agree(decided, decided', Len(decided))

\* What every step does, whatever the history.
Progresses == NodesAdvance /\ OneMoves /\ DecidedStays

\* A handler that ends in Finish moves its own node and no other.
LEMMA FinishMoves ==
    ASSUME BoundsInv, NEW i \in Node, NEW r, NEW cl, NEW voters, Finish(i, r, cl, voters)
    PROVE  OneMoves
<1>1. node'[i] = r BY FinishNode
<1>2. Moves(i) BY <1>1 DEF Finish, Moves
<1> QED BY <1>2 DEF OneMoves

\* Every action ends in Finish or leaves all nodes alone.
LEMMA StepMoves ==
    ASSUME BoundsInv, [Next]_vars
    PROVE  OneMoves
<1>1. CASE UNCHANGED vars BY <1>1 DEF vars, OneMoves
<1>2. ASSUME NEW i \in Node, become_candidate(i) PROVE OneMoves
  <2>1. \E r, cl, voters : Finish(i, r, cl, voters) BY <1>2 DEF become_candidate
  <2> QED BY <2>1, FinishMoves
<1>3. ASSUME NEW i \in Node, heartbeat(i) PROVE OneMoves
  BY <1>3 DEF heartbeat, OneMoves
<1>4. ASSUME NEW i \in Node, restart(i) PROVE OneMoves
  <2>1. \E r, cl, voters : Finish(i, r, cl, voters) BY <1>4 DEF restart
  <2> QED BY <2>1, FinishMoves
<1>5. ASSUME NEW m \in msgs, handle_message(m) \/ crash_after_step_down(m)
      PROVE  OneMoves
  <2>1. m.to \in Node BY HandlerContext
  <2>2. \/ UNCHANGED <<node, decided>>
        \/ \E r, cl, voters : Finish(m.to, r, cl, voters)
    <3>1. CASE vote_request(m)
      BY <3>1 DEF vote_request, vote_request_stale, vote_request_grant, vote_request_reject
    <3>2. CASE vote_response(m)
      BY <3>2 DEF vote_response, ignore, step_down, count_vote
    <3>3. CASE append_request(m)
      BY <3>3 DEF append_request, append_request_stale, append_request_mismatch,
                  append_request_accept
    <3>4. CASE append_response(m)
      BY <3>4 DEF append_response, ignore, step_down, append_response_handled
    <3>5. CASE crash_after_step_down(m) BY <3>5 DEF crash_after_step_down
    <3> QED BY <1>5, <3>1, <3>2, <3>3, <3>4, <3>5 DEF handle_message
  <2> QED BY <2>1, <2>2, FinishMoves DEF OneMoves
<1>6. ASSUME NEW i \in Node, NEW c \in Command, client_command(i, c) PROVE OneMoves
  <2>1. CASE client_command_accept(i, c)
    <3>1. \E r, cl, voters : Finish(i, r, cl, voters) BY <2>1 DEF client_command_accept
    <3> QED BY <3>1, FinishMoves
  <2>2. CASE client_command_refuse(i, c) BY <2>2 DEF client_command_refuse, OneMoves
  <2> QED BY <1>6, <2>1, <2>2 DEF client_command
<1> QED BY <1>1, <1>2, <1>3, <1>4, <1>5, <1>6 DEF Next

\* decided is never contradicted by what comes later.
LEMMA DecidedIsKept ==
    ASSUME BoundsInv, BoundsInv', NEW led \in Led, NEW more \in Led,
           NEW acks \in SUBSET Acks, NEW also \in SUBSET Acks,
           Continued(led, acks, more, also), CommitInv(more, also)', OneMoves
    PROVE  DecidedStays
<1> DEFINE d == Len(decided)
<1>1. /\ decided \in Seq(Entry) /\ decided' \in Seq(Entry)
      /\ d \in Nat /\ Len(decided') \in Nat
  <2>1. decided \in Seq(Entry) /\ decided' \in Seq(Entry) BY DEF BoundsInv, TypeOK
  <2> QED BY <2>1, LenProperties
<1>2. Len(decided) <= Len(decided')
  <2>1. CASE UNCHANGED <<node, decided>> BY <1>1, <2>1
  <2>2. CASE \E i \in Node : Moves(i)
    <3>1. PICK i \in Node : Moves(i) BY <2>2
    <3>2. CASE Len(node'[i].applied) > Len(decided) BY <1>1, <3>1, <3>2 DEF Moves
    <3>3. CASE ~(Len(node'[i].applied) > Len(decided)) BY <1>1, <3>1, <3>3 DEF Moves
    <3> QED BY <3>2, <3>3
  <2> QED BY <2>1, <2>2 DEF OneMoves
<1>3. Known(more, also) BY KnownNext DEF Continued
<1>4. Backed(decided', more) /\ Committed(decided', Len(decided'), also)
  BY DEF CommitInv, CommitsAreChosen
<1>5. Backed(decided, more) /\ Committed(decided, d, also)
  <2>1. Backed(decided, led) /\ Committed(decided, d, acks)
    BY DEF Continued, CommitInv, CommitsAreChosen
  <2>2. Agree(decided, decided, d) BY <1>1 DEF Agree
  <2> QED BY <1>1, <2>1, <2>2, BackedGrows, CommittedGrows DEF Continued
<1>6. PICK a, b : a = decided /\ b = decided' OBVIOUS
<1>7. Agree(a, b, d) BY <1>1, <1>2, <1>3, <1>4, <1>5, <1>6, CommittedAgree
<1> QED BY <1>2, <1>6, <1>7 DEF DecidedStays

-----------------------------------------------------------------------------
(* The invariant holds in every reachable state. *)

\* A cluster of new nodes has nothing to explain.
LEMMA SafeInit == Init => LogSafe
<1> SUFFICES ASSUME Init PROVE LogSafe OBVIOUS
<1> DEFINE led == [t \in Nat |-> <<>>]
<1>1. LogInv(led, {}) /\ led \in Led BY LogInit
<1> HIDE DEF led
<1>2. CommitInv(led, {}) BY CommitInit
<1>3. {} \in SUBSET Acks OBVIOUS
<1> QED BY <1>1, <1>2, <1>3 DEF LogSafe

\* Whatever history explains a state, one that goes on from it explains the next.
LEMMA SafeNext ==
    ASSUME BoundsInv, BoundsInv', ElectionInv, ElectionInv', LogSafe, [Next]_vars
    PROVE  LogSafe' /\ Progresses
<1>1. PICK led \in Led, acks \in SUBSET Acks : LogInv(led, acks) /\ CommitInv(led, acks)
  BY DEF LogSafe
<1>2. LogExtended(led, acks) BY <1>1, LogNext
<1>3. PICK more \in Led, also \in SUBSET Acks :
         Grows(led, more) /\ acks \subseteq also /\ LogInv(more, also)'
  BY <1>2 DEF LogExtended
<1>4. Continued(led, acks, more, also) BY <1>1, <1>3 DEF Continued
<1>5. CommitInv(more, also)' /\ NodesAdvance BY <1>4, CommitNext DEF CommitsKept
<1>6. LogSafe' BY <1>3, <1>5 DEF LogSafe
<1>7. OneMoves BY StepMoves
<1>8. DecidedStays BY <1>4, <1>5, <1>7, DecidedIsKept
<1> QED BY <1>5, <1>6, <1>7, <1>8 DEF Progresses

\* At every state of a cluster of any size there is a history of leaders' logs and
\* acknowledgements that explains the logs and the commits, and no step takes
\* anything back that was committed.
THEOREM LogSafeAlways ==
    ASSUME StorageFaults = FALSE
    PROVE  Spec => [](BoundsInv /\ ElectionInv /\ LogSafe) /\ [][Progresses]_vars
<1>1. Init => LogSafe BY SafeInit
<1>2. /\ BoundsInv /\ BoundsInv' /\ ElectionInv /\ ElectionInv' /\ LogSafe /\ [Next]_vars
      => LogSafe' /\ Progresses
  BY SafeNext
<1>3. Spec => [](BoundsInv /\ ElectionInv) BY ElectionAlways, PTL
<1> QED BY <1>1, <1>2, <1>3, PTL DEF Spec

-----------------------------------------------------------------------------
(* What follows for the logs. *)

\* Logs that agree up to their common length are one the prefix of the other.
LEMMA AgreePrefix ==
    ASSUME NEW a \in Seq(Entry), NEW b \in Seq(Entry), Agree(a, b, Len(a))
    PROVE  IsPrefix(a, b)
<1>1. Len(a) \in Nat /\ Len(b) \in Nat BY LenProperties
<1>2. SubSeq(a, 1, Len(a)) = SubSeq(b, 1, Len(a)) BY <1>1, SamePrefix
<1> QED BY <1>1, <1>2 DEF IsPrefix, Agree

\* Two logs with an entry of the same term at an index are the same up to it: the
\* check of prev_log_term and the cut at the first conflict in append_request,
\* whatever is lost, reordered or repeated.
THEOREM LogsMatch ==
    ASSUME StorageFaults = FALSE PROVE Spec => []LogMatching
<1>1. ASSUME BoundsInv, LogSafe PROVE LogMatching
  <2> SUFFICES ASSUME NEW i \in Node, NEW j \in Node,
                      NEW k \in DOMAIN node[i].log \cap DOMAIN node[j].log,
                      node[i].log[k].term = node[j].log[k].term
               PROVE  SubSeq(node[i].log, 1, k) = SubSeq(node[j].log, 1, k)
    BY DEF LogMatching
  <2>1. PICK led \in Led, acks \in SUBSET Acks : LogInv(led, acks) BY <1>1 DEF LogSafe
  <2>2. Backed(node[i].log, led) /\ Backed(node[j].log, led)
    BY <2>1 DEF LogInv, NodesLogs, NodeLog
  <2>3. node[i].log \in Seq(Entry) /\ node[j].log \in Seq(Entry) BY <1>1, NodeFacts
  <2>4. k \in Nat \ {0} /\ k <= Len(node[i].log) /\ k <= Len(node[j].log)
    BY <2>3, LenProperties
  <2>5. Agree(node[i].log, node[j].log, k) BY <2>2, <2>3, <2>4, BackedAgree
  <2> QED BY <2>3, <2>4, <2>5, SamePrefix
<1>2. BoundsInv /\ LogSafe => LogMatching BY <1>1
<1> QED BY <1>2, LogSafeAlways, PTL

\* Whoever leads in the term of the last decided entry, or in a later one, has
\* every decided entry: the election restriction of vote_request, read against
\* what the voters have acknowledged.
THEOREM LeadersAreComplete ==
    ASSUME StorageFaults = FALSE PROVE Spec => []LeaderCompleteness
<1>1. ASSUME BoundsInv, LogSafe PROVE LeaderCompleteness
  <2> SUFFICES ASSUME NEW i \in Node, Leader(i),
                      node[i].current_term >= LastTerm(decided)
               PROVE  IsPrefix(decided, node[i].log)
    BY DEF LeaderCompleteness
  <2>1. PICK led \in Led, acks \in SUBSET Acks : LogInv(led, acks) /\ CommitInv(led, acks)
    BY <1>1 DEF LogSafe
  <2>2. PICK c : c = Len(decided) OBVIOUS
  <2>3. /\ decided \in Seq(Entry) /\ c \in Nat /\ LastTerm(decided) \in Nat
        /\ node[i].current_term \in Nat /\ node[i].log \in Seq(Entry)
        /\ Len(node[i].log) \in Nat
    <3>1. decided \in Seq(Entry) BY <1>1 DEF BoundsInv, TypeOK
    <3> QED BY <1>1, <2>2, <3>1, NodeFacts, LogFacts
  <2>4. Agree(decided, node[i].log, c)
    <3>1. CASE c = 0 BY <2>2, <2>3, <3>1 DEF Agree
    <3>2. CASE c # 0
      <4>1. Backed(decided, led) /\ Committed(decided, c, acks)
        BY <2>1, <2>2 DEF CommitInv, CommitsAreChosen
      <4>2. c \in 1..Len(decided) /\ Chosen(decided[c].term, c, acks)
        BY <3>2, <4>1 DEF Committed
      <4>3. decided[c].term <= node[i].current_term
        BY <2>2, <2>3, <3>2, LogFacts
      <4>4. node[i].log = led[node[i].current_term] /\ node[i].log # <<>>
        BY <2>1 DEF Leader, LogInv, NodesLogs, NodeLog
      <4>5. Known(led, acks) BY <2>1, KnownNow
      <4>6. PICK T : T = node[i].current_term OBVIOUS
      <4>7. Agree(decided, led[T], c)
        BY <2>3, <4>1, <4>2, <4>3, <4>4, <4>5, <4>6, LeaderKnows
      <4> QED BY <4>4, <4>6, <4>7
    <3> QED BY <3>1, <3>2
  <2> QED BY <2>2, <2>3, <2>4, AgreePrefix
<1>2. BoundsInv /\ LogSafe => LeaderCompleteness BY <1>1
<1> QED BY <1>2, LogSafeAlways, PTL

\* Whatever a leader counts as replicated is in the peer's storage, as long as the
\* peer has not seen a later term: append_request saves before it answers, and an
\* old request can only add to what a newer one has left.
THEOREM MatchesAreSaved ==
    ASSUME StorageFaults = FALSE PROVE Spec => []MatchIsSaved
<1>1. ASSUME BoundsInv, LogSafe PROVE MatchIsSaved
  <2> SUFFICES ASSUME NEW i \in Node, Leader(i), NEW j \in Peers(i),
                      ~(disk[j].current_term > node[i].current_term),
                      NEW x \in 1..node[i].match_index[j]
               PROVE  x \in DOMAIN disk[j].log /\ disk[j].log[x] = node[i].log[x]
    BY DEF MatchIsSaved
  <2>1. PICK led \in Led, acks \in SUBSET Acks : LogInv(led, acks) BY <1>1 DEF LogSafe
  <2>2. PICK T, k, a, b : /\ T = node[i].current_term /\ k = node[i].match_index[j]
                          /\ a = node[i].log /\ b = node[j].log
    OBVIOUS
  <2>3. j \in Node BY DEF Peers
  <2>4. /\ T \in Nat /\ k \in Nat /\ a \in Seq(Entry) /\ b \in Seq(Entry)
        /\ Len(a) \in Nat /\ Len(b) \in Nat /\ node[j].current_term \in Nat
    BY <1>1, <2>2, <2>3, NodeFacts
  <2>5. disk[j].current_term = node[j].current_term /\ disk[j].log = b
    BY <1>1, <2>2, <2>3 DEF BoundsInv, Persisted, PersistentState
  <2>6. k # 0 /\ k \in Nat \ {0} BY <2>2, <2>4
  <2>7. Ack(j, T, k) \in acks
    BY <2>1, <2>2, <2>3, <2>6 DEF Leader, LogInv, MatchIsAcknowledged, Acknowledged
  <2>8. node[j].current_term >= T /\ AtLeast(b, T, k)
    BY <2>1, <2>2, <2>7 DEF LogInv, AcksAreKept, AckIsKept, Ack
  <2>9. node[j].current_term = T BY <2>2, <2>4, <2>5, <2>8
  <2>10. Backed(b, led) /\ WrittenBy(b, T)
    BY <2>1, <2>2, <2>3, <2>9 DEF LogInv, NodesLogs, NodeLog
  <2>11. a = led[T] BY <2>1, <2>2 DEF Leader, LogInv, NodesLogs, NodeLog
  <2>12. b # <<>> /\ LastTerm(b) = T /\ Len(b) >= k
    <3>1. LastTerm(b) \in Nat /\ (b = <<>> <=> Len(b) = 0) BY <2>4, LogFacts
    <3>2. b # <<>>
      <4> SUFFICES ASSUME b = <<>> PROVE FALSE OBVIOUS
      <4>1. LastTerm(b) = 0 /\ Len(b) = 0 BY <3>1 DEF LastTerm, TermAt
      <4> QED BY <2>4, <2>6, <2>8, <4>1 DEF AtLeast
    <3>3. LastTerm(b) <= T
      <4>1. LastTerm(b) = b[Len(b)].term BY <2>4, <3>2, LogFacts
      <4>2. Len(b) \in 1..Len(b) BY <2>4, <3>1, <3>2
      <4> QED BY <2>10, <4>1, <4>2 DEF WrittenBy
    <3> QED BY <2>4, <2>8, <3>1, <3>2, <3>3 DEF AtLeast
  <2>13. Agree(b, a, Len(b))
    <3>1. Len(b) \in 1..Len(b) /\ b[Len(b)].term = T
      BY <2>4, <2>12, LogFacts
    <3> QED BY <2>4, <2>10, <2>11, <3>1, BackedAt
  <2>14. x \in 1..Len(b) BY <2>2, <2>4, <2>12
  <2>15. b[x] = a[x] BY <2>13, <2>14 DEF Agree
  <2>16. DOMAIN b = 1..Len(b) BY <2>4, LenProperties
  <2> QED BY <2>2, <2>5, <2>14, <2>15, <2>16
<1>2. BoundsInv /\ LogSafe => MatchIsSaved BY <1>1
<1> QED BY <1>2, LogSafeAlways, PTL

\* A client that is told Ok is given the output of a decided entry.
THEOREM RepliesAreDecided ==
    ASSUME StorageFaults = FALSE PROVE Spec => []ReplyIsDecided
<1>1. LogSafe => ReplyIsDecided BY DEF LogSafe, CommitInv
<1> QED BY <1>1, LogSafeAlways, PTL

\* No handler cuts or rewrites what its node has committed, append_request included.
THEOREM CommitsAreKept ==
    ASSUME StorageFaults = FALSE PROVE Spec => CommittedIsKept
<1> DEFINE Kept == \A i \in Node :
             /\ node[i].commit_index <= Len(node'[i].log)
             /\ \A k \in 1..node[i].commit_index :
                   node'[i].log[k] = node[i].log[k]
<1>1. Progresses => Kept BY DEF Progresses, NodesAdvance, Advances, Agree
<1>2. [Progresses]_vars => [Kept]_vars BY <1>1
<1>3. Spec => [][Progresses]_vars BY LogSafeAlways, PTL
<1>4. Spec => [][Kept]_vars BY <1>2, <1>3, PTL
<1> QED BY <1>4 DEF CommittedIsKept

-----------------------------------------------------------------------------
(* What follows for the state machines. *)

\* Every state machine was given the first commit_index of the decided entries.
Learned ==
    \A i \in Node :
        /\ node[i].commit_index <= Len(decided)
        /\ node[i].applied = SubSeq(decided, 1, node[i].commit_index)
        /\ Len(node[i].applied) = node[i].commit_index

\* A node's commit_index counts decided entries, and its state machine was given
\* them all: its log agrees with decided up to there.
LEMMA AllLearned ==
    ASSUME BoundsInv, LogSafe
    PROVE  Learned
<1> SUFFICES ASSUME NEW i \in Node
             PROVE  /\ node[i].commit_index <= Len(decided)
                    /\ node[i].applied = SubSeq(decided, 1, node[i].commit_index)
                    /\ Len(node[i].applied) = node[i].commit_index
  BY DEF Learned
<1>1. PICK led \in Led, acks \in SUBSET Acks : LogInv(led, acks) /\ CommitInv(led, acks)
  BY DEF LogSafe
<1>2. PICK a, c, d : a = node[i].log /\ c = node[i].commit_index /\ d = Len(decided)
  OBVIOUS
<1>3. /\ a \in Seq(Entry) /\ c \in Nat /\ decided \in Seq(Entry) /\ d \in Nat
  <2>1. decided \in Seq(Entry) BY DEF BoundsInv, TypeOK
  <2> QED BY <1>2, <2>1, NodeFacts, LenProperties
<1>4. /\ Committed(a, c, acks) /\ node[i].applied = SubSeq(a, 1, c) /\ c <= d
      /\ Backed(decided, led) /\ Committed(decided, d, acks)
  BY <1>1, <1>2 DEF CommitInv, CommitsAreChosen
<1>5. Backed(a, led) BY <1>1, <1>2 DEF LogInv, NodesLogs, NodeLog
<1>6. Agree(a, decided, c) BY <1>1, <1>3, <1>4, <1>5, KnownNow, CommittedAgree
<1>7. SubSeq(a, 1, c) = SubSeq(decided, 1, c) BY <1>3, <1>6, SamePrefix
<1>8. c <= Len(a) BY <1>6 DEF Agree
<1>9. Len(SubSeq(a, 1, c)) = c BY <1>3, <1>8, PrefixAgrees
<1> QED BY <1>2, <1>4, <1>7, <1>9

\* What any state machine was given is a prefix of one sequence.
THEOREM StateMachinesAgree ==
    ASSUME StorageFaults = FALSE PROVE Spec => []StateMachineSafety
<1>1. ASSUME BoundsInv, LogSafe PROVE StateMachineSafety
  <2> SUFFICES ASSUME NEW i \in Node PROVE IsPrefix(node[i].applied, decided)
    BY DEF StateMachineSafety
  <2>1. PICK a, c : a = node[i].applied /\ c = node[i].commit_index OBVIOUS
  <2>2. c <= Len(decided) /\ a = SubSeq(decided, 1, c) /\ Len(a) = c
    BY <1>1, <2>1, AllLearned DEF Learned
  <2>3. decided \in Seq(Entry) /\ c \in Nat
    <3>1. decided \in Seq(Entry) BY <1>1 DEF BoundsInv, TypeOK
    <3> QED BY <1>1, <2>1, <3>1, NodeFacts
  <2>4. a \in Seq(Entry) /\ Agree(a, decided, c) BY <2>2, <2>3, PrefixAgrees
  <2>5. IsPrefix(a, decided) BY <2>2, <2>3, <2>4, AgreePrefix
  <2> QED BY <2>1, <2>5
<1>2. BoundsInv /\ LogSafe => StateMachineSafety BY <1>1
<1> QED BY <1>2, LogSafeAlways, PTL

-----------------------------------------------------------------------------
(* The refinement of ReplicatedLog. *)

\* New nodes have learned nothing, and nothing is chosen.
LEMMA RefineInit == Init => Log!Init
<1> SUFFICES ASSUME Init PROVE Log!Init OBVIOUS
<1>1. decided = <<>> /\ \A i \in Node : node[i].applied = <<>>
  BY DEF Init, restore_state
<1> QED BY <1>1 DEF Log!Init

\* A step in which node i's state machine moves chooses entries, learns some or
\* forgets them all.
LEMMA MoveRefines ==
    ASSUME BoundsInv, BoundsInv', Learned, Learned', NodesAdvance, DecidedStays,
           NEW i \in Node, Moves(i)
    PROVE  Log!Next
<1> DEFINE a == node'[i].applied
           c == node'[i].commit_index
<1>1. /\ node \in [Node -> NodeState] /\ node' \in [Node -> NodeState]
      /\ decided \in Seq(Entry) /\ decided' \in Seq(Entry)
      /\ Len(decided) \in Nat /\ Len(decided') \in Nat
  <2>1. decided \in Seq(Entry) /\ decided' \in Seq(Entry) BY DEF BoundsInv, TypeOK
  <2> QED BY <2>1, LenProperties DEF BoundsInv, TypeOK
<1>2. [j \in Node |-> node'[j].applied] = [[j \in Node |-> node[j].applied] EXCEPT ![i] = a]
  <2>1. \A j \in Node : j # i => node'[j] = node[j] BY <1>1 DEF Moves
  <2> QED BY <2>1
<1>3. /\ c <= Len(decided') /\ a = SubSeq(decided', 1, c) /\ Len(a) = c
      /\ Len(node[i].applied) = node[i].commit_index
  BY DEF Learned
<1>4. c \in Nat /\ node[i].commit_index \in Nat BY <1>1 DEF NodeState
<1>5. CASE Len(a) > Len(decided)
  <2>1. decided' = a BY <1>5 DEF Moves
  <2>2. IsPrefix(decided, decided')
    <3>1. PICK x, y : x = decided /\ y = decided' OBVIOUS
    <3>2. Agree(x, y, Len(x)) BY <3>1 DEF DecidedStays
    <3>3. IsPrefix(x, y) BY <1>1, <3>1, <3>2, AgreePrefix
    <3> QED BY <3>1, <3>3
  <2>3. decided # decided' BY <1>1, <1>5, <2>1
  <2>4. Log!IsStrictPrefix(decided, decided')
    BY <2>2, <2>3 DEF IsPrefix, Log!IsStrictPrefix, Log!IsPrefix
  <2>5. Log!Choose(i) BY <1>1, <1>2, <2>1, <2>4 DEF Log!Choose
  <2> QED BY <2>5 DEF Log!Next
<1>6. CASE ~(Len(a) > Len(decided)) /\ a = <<>>
  <2>1. decided' = decided BY <1>6 DEF Moves
  <2>2. Log!Forget(i) BY <1>2, <1>6, <2>1 DEF Log!Forget
  <2> QED BY <2>2 DEF Log!Next
<1>7. CASE ~(Len(a) > Len(decided)) /\ a # <<>>
  <2>1. decided' = decided BY <1>7 DEF Moves
  <2>2. c >= node[i].commit_index BY <1>7 DEF NodesAdvance, Advances
  <2>3. c \in Len(node[i].applied)..Len(decided)
    BY <1>1, <1>3, <1>4, <2>1, <2>2
  <2>4. a = SubSeq(decided, 1, c) BY <1>3, <2>1
  <2> HIDE DEF a, c
  <2>5. Log!Learn(i) BY <1>2, <2>1, <2>3, <2>4 DEF Log!Learn
  <2> QED BY <2>5 DEF Log!Next
<1> QED BY <1>5, <1>6, <1>7

\* One node moves in a step, or none does.
LEMMA StepRefines ==
    ASSUME BoundsInv, BoundsInv', Learned, Learned', Progresses
    PROVE  [Log!Next]_(Log!vars)
<1>1. CASE UNCHANGED <<node, decided>> BY <1>1 DEF Log!vars
<1>2. CASE \E i \in Node : Moves(i) BY <1>2, MoveRefines DEF Progresses
<1> QED BY <1>1, <1>2 DEF Progresses, OneMoves

\* The cluster implements one growing log of which every state machine is given a
\* prefix and from which a restart begins again.
THEOREM ClusterIsOneLog ==
    ASSUME StorageFaults = FALSE PROVE Spec => ImplementsReplicatedLog
<1>1. Init => Log!Init BY RefineInit
<1>2. BoundsInv /\ BoundsInv' /\ Learned /\ Learned' /\ Progresses => [Log!Next]_(Log!vars)
  BY StepRefines
<1>3. UNCHANGED vars => UNCHANGED Log!vars BY DEF vars, Log!vars
<1>4. BoundsInv /\ BoundsInv' /\ Learned /\ Learned' /\ [Progresses]_vars
        => [Log!Next]_(Log!vars)
  BY <1>2, <1>3
<1>5. BoundsInv /\ LogSafe => Learned BY AllLearned
<1>6. Spec => [](BoundsInv /\ LogSafe) /\ [][Progresses]_vars BY LogSafeAlways, PTL
<1> QED BY <1>1, <1>4, <1>5, <1>6, PTL DEF Spec, ImplementsReplicatedLog, Log!Spec

-----------------------------------------------------------------------------
(* Logs whose commands are at their places. *)

\* What was taken stays so, at its place.
KeepsPlaces(cl, after, place, more) ==
    \A c \in Command : Taken(cl, c) => Taken(after, c) /\ more[c] = place[c]

\* Entries stay in place.
LEMMA PlacesStay ==
    ASSUME NEW entries \in Seq(Entry), NEW prev, NEW cl, NEW after, NEW place,
           NEW more, InPlace(entries, prev, cl, place), KeepsPlaces(cl, after, place, more)
    PROVE  InPlace(entries, prev, after, more)
<1>1. \A x \in 1..Len(entries) : entries[x].command \in Command \cup {NoOp}
  BY LogFacts DEF Entry
<1> QED BY <1>1 DEF InPlace, KeepsPlaces

\* So do the first of them.
LEMMA PrefixInPlace ==
    ASSUME NEW log \in Seq(Entry), NEW c \in Nat, c <= Len(log), NEW cl, NEW place,
           InPlace(log, 0, cl, place)
    PROVE  InPlace(SubSeq(log, 1, c), 0, cl, place)
<1>1. /\ Len(SubSeq(log, 1, c)) = c /\ \A x \in 1..c : SubSeq(log, 1, c)[x] = log[x]
      /\ Len(log) \in Nat
  BY PrefixAgrees, LenProperties
<1>2. \A x \in 1..c : x \in 1..Len(log) BY <1>1
<1> QED BY <1>1, <1>2 DEF InPlace

\* And the last of them, as on_heartbeat sends them.
LEMMA SuffixInPlace ==
    ASSUME NEW log \in Seq(Entry), NEW prev \in 0..Len(log), NEW cl, NEW place,
           InPlace(log, 0, cl, place)
    PROVE  InPlace(SubSeq(log, prev + 1, Len(log)), prev, cl, place)
<1> DEFINE e == SubSeq(log, prev + 1, Len(log))
           d == Len(log) - prev
<1>1. Len(log) \in Nat /\ prev \in Nat /\ d \in Nat BY LenProperties
<1>2. \A k \in (prev + 1)..Len(log) : log[k] \in Entry BY <1>1, LogFacts
<1>3. /\ Len(e) = d
      /\ \A x \in 1..d : e[x] = log[prev + x] /\ prev + x \in 1..Len(log)
  <2>1. /\ Len(e) = IF prev + 1 <= Len(log) THEN Len(log) - (prev + 1) + 1 ELSE 0
        /\ \A x \in 1..(Len(log) - (prev + 1) + 1) : e[x] = log[(prev + 1) + x - 1]
    BY <1>1, <1>2, SubSeqProperties
  <2> HIDE DEF e
  <2>2. Len(e) = d BY <1>1, <2>1
  <2>3. ASSUME NEW x \in 1..d PROVE e[x] = log[prev + x] /\ prev + x \in 1..Len(log)
    <3>1. x \in 1..(Len(log) - (prev + 1) + 1) /\ (prev + 1) + x - 1 = prev + x
          /\ prev + x \in 1..Len(log)
      BY <1>1, <2>3
    <3> QED BY <2>1, <3>1
  <2> QED BY <2>2, <2>3
<1> HIDE DEF e
<1>4. ASSUME NEW x \in 1..Len(e)
      PROVE  LET c == e[x].command IN c # NoOp => Taken(cl, c) /\ place[c] = prev + x
  <2>1. e[x] = log[prev + x] /\ prev + x \in 1..Len(log) /\ 0 + (prev + x) = prev + x
    BY <1>1, <1>3
  <2> QED BY <2>1 DEF InPlace
<1>5. InPlace(e, prev, cl, place) BY <1>4 DEF InPlace
<1> QED BY <1>5 DEF e

\* An entry appended at its place.
LEMMA AppendInPlace ==
    ASSUME NEW log \in Seq(Entry), NEW e \in Entry, NEW cl, NEW place,
           InPlace(log, 0, cl, place),
           e.command # NoOp => Taken(cl, e.command) /\ place[e.command] = Len(log) + 1
    PROVE  InPlace(Append(log, e), 0, cl, place)
<1> DEFINE a == Append(log, e)
<1>1. /\ Len(a) = Len(log) + 1 /\ \A x \in 1..Len(log) : a[x] = log[x]
      /\ a[Len(log) + 1] = e /\ Len(log) \in Nat
  BY AppendProperties, LenProperties
<1> HIDE DEF a
<1>2. ASSUME NEW x \in 1..Len(a)
      PROVE  LET c == a[x].command IN c # NoOp => Taken(cl, c) /\ place[c] = 0 + x
  <2>1. CASE x \in 1..Len(log) BY <1>1, <2>1 DEF InPlace
  <2>2. CASE x = Len(log) + 1 BY <1>1, <2>2
  <2> QED BY <1>1, <2>1, <2>2
<1>3. InPlace(a, 0, cl, place) BY <1>2 DEF InPlace
<1> QED BY <1>3 DEF a

\* The append loop leaves every entry, the log's or the request's, where it was.
LEMMA MergeInPlace ==
    ASSUME NEW log \in Seq(Entry), NEW entries \in Seq(Entry), NEW prev \in 0..Len(log),
           NEW cl, NEW place, InPlace(log, 0, cl, place),
           InPlace(entries, prev, cl, place)
    PROVE  InPlace(AppendEntries(log, prev, entries), 0, cl, place)
<1> DEFINE C == Conflicts(log, prev, entries)
           r == AppendEntries(log, prev, entries)
<1>1. Len(log) \in Nat /\ Len(entries) \in Nat /\ prev \in Nat BY LenProperties
<1>2. CASE C = {} BY <1>2 DEF AppendEntries
<1>3. CASE C # {}
  <2> DEFINE f == Min(C)
             p == prev + f - 1
             a == SubSeq(log, 1, p)
             b == SubSeq(entries, f, Len(entries))
  <2>1. r = a \o b BY <1>3 DEF AppendEntries
  <2>2. f \in 1..Len(entries) /\ \A y \in C : f <= y
    <3>1. C \in SUBSET Nat /\ C \subseteq 1..Len(entries) BY <1>1 DEF Conflicts
    <3>2. f \in C /\ \A y \in C : f <= y BY <1>3, <3>1, MinOfNaturals
    <3> QED BY <3>1, <3>2
  <2>3. p \in Nat /\ p <= Len(log)
    <3>1. CASE f = 1 BY <1>1, <3>1
    <3>2. CASE f # 1
      <4>1. f - 1 \in 1..Len(entries) /\ f - 1 \notin C BY <1>1, <2>2, <3>2
      <4>2. ~(prev + (f - 1) > Len(log)) BY <4>1 DEF Conflicts
      <4> HIDE DEF f, C
      <4> QED BY <1>1, <2>2, <4>2
    <3> QED BY <3>1, <3>2
  <2> HIDE DEF f, C, r
  <2>4. /\ a \in Seq(Entry) /\ Len(a) = p /\ \A x \in 1..p : a[x] = log[x]
    <3> HIDE DEF p
    <3> QED BY <2>3, PrefixAgrees
  <2>5. /\ b \in Seq(Entry) /\ Len(b) = Len(entries) - f + 1
        /\ \A y \in 1..(Len(entries) - f + 1) : b[y] = entries[f + y - 1]
    <3>1. \A y \in f..Len(entries) : entries[y] \in Entry BY <1>1, <2>2, LogFacts
    <3> QED BY <1>1, <2>2, <3>1, SubSeqProperties
  <2> HIDE DEF a, b
  <2>6. /\ Len(r) = Len(a) + Len(b)
        /\ \A x \in 1..(Len(a) + Len(b)) :
              r[x] = IF x <= Len(a) THEN a[x] ELSE b[x - Len(a)]
    BY <2>1, <2>4, <2>5, ConcatProperties
  <2>7. ASSUME NEW x \in 1..Len(r)
        PROVE  LET c == r[x].command IN c # NoOp => Taken(cl, c) /\ place[c] = 0 + x
    <3> DEFINE y == x - p
               z == f + y - 1
    <3>1. CASE x <= p
      <4>1. x \in 1..p /\ x \in 1..Len(log) BY <1>1, <2>3, <3>1
      <4>2. r[x] = log[x]
        <5> HIDE DEF p
        <5> QED BY <2>4, <2>6, <2>7, <3>1, <4>1
      <4> QED BY <4>1, <4>2 DEF InPlace
    <3>2. CASE x > p
      <4>1. /\ y \in 1..(Len(entries) - f + 1) /\ z \in 1..Len(entries)
            /\ prev + z = 0 + x
        BY <1>1, <2>2, <2>3, <2>4, <2>5, <2>6, <3>2
      <4>2. r[x] = b[y]
        <5> HIDE DEF p
        <5>1. Len(a) = p BY <2>4
        <5>2. r[x] = b[x - Len(a)] BY <2>3, <2>6, <2>7, <3>2, <5>1
        <5> QED BY <5>1, <5>2
      <4>3. r[x] = entries[z] BY <2>5, <4>1, <4>2
      <4> HIDE DEF y, z
      <4> QED BY <4>1, <4>3 DEF InPlace
    <3> QED BY <2>3, <3>1, <3>2
  <2>8. InPlace(r, 0, cl, place) BY <2>7 DEF InPlace
  <2> QED BY <2>8 DEF r
<1> QED BY <1>2, <1>3

-----------------------------------------------------------------------------
(* What a step must show. *)

\* Every state machine was given what its node has committed of its log.
Applies ==
    \A i \in Node :
        /\ node[i].commit_index \in 0..Len(node[i].log)
        /\ node[i].applied = SubSeq(node[i].log, 1, node[i].commit_index)

\* What is known of a step besides.
Stepping(place) ==
    BoundsInv /\ BoundsInv' /\ Applies' /\ Learned' /\ DecidedStays /\ PlaceInv(place)

\* Who was told Ok is told nothing else; who is told so now is told of an entry that
\* a state machine is given now.
AnswersGrow ==
    \A c \in Command :
        /\ client[c].status = "ok" => client'[c] = client[c]
        /\ client'[c].status = "ok" =>
              \/ client'[c] = client[c]
              \/ \E i \in Node :
                    \E x \in (Len(node[i].applied) + 1)..Len(node'[i].applied) :
                       node'[i].applied[x].command = client'[c].output

PlacesNext(place, more) ==
    PlaceInv(more)' /\ KeepsPlaces(client, client', place, more) /\ AnswersGrow

\* The request waits at the place of its command.
Waits(p, cl, place) == cl[p.request].status = "waiting" /\ p.index = place[p.request]

\* No node but i has a request of the same command.
OnlyRequest(i, p) ==
    \A j \in Node \ {i} : \A q \in node[j].pending_applies : q.request # p.request

SentInPlace(m, cl, place) ==
    m.type = "AppendRequest" => InPlace(m.entries, m.prev_log_index, cl, place)

\* An Ok that is new speaks of an entry the state machine of node i is given now.
TellsWhatIsApplied(i, r, cl, place) ==
    \A c \in Command :
        /\ client[c].status = "ok" => cl[c] = client[c]
        /\ cl[c].status = "ok" =>
              \/ cl[c] = client[c]
              \/ /\ place[c] \in (Len(node[i].applied) + 1)..Len(r.applied)
                 /\ r.applied[place[c]].command = cl[c].output

\* The requests that wait are at nodes, for commands.
LEMMA PendingFacts ==
    ASSUME BoundsInv, NEW i \in Node, NEW p \in node[i].pending_applies
    PROVE  p \in Pending /\ p.request \in Command /\ p.index \in Nat
<1>1. node[i].pending_applies \in SUBSET Pending BY NodeFacts DEF NodeState
<1> QED BY <1>1 DEF Pending

\* A handler ends: the log it leaves, the requests it keeps, what it sends and what
\* it answers are in place.
LEMMA FinishPlaces ==
    ASSUME NEW place \in [Command -> Nat], NEW more \in [Command -> Nat],
           Stepping(place), NEW i \in Node, NEW r, NEW cl, NEW voters,
           Finish(i, r, cl, voters), KeepsPlaces(client, cl, place, more),
           InPlace(r.log, 0, cl, more),
           \A p \in r.pending_applies : Waits(p, cl, more) /\ OnlyRequest(i, p),
           \A j \in Node \ {i} : \A q \in node[j].pending_applies :
              cl[q.request] = client[q.request],
           \A m \in msgs' : m \in msgs \/ SentInPlace(m, cl, more),
           TellsWhatIsApplied(i, r, cl, more)
    PROVE  PlacesNext(place, more)
<1>1. /\ BoundsInv /\ BoundsInv' /\ Applies' /\ Learned' /\ DecidedStays
      /\ PlaceInv(place)
  BY DEF Stepping
<1>2. node'[i] = r /\ \A j \in Node \ {i} : node'[j] = node[j] BY <1>1, FinishNode
<1>3. client' = cl /\ KeepsPlaces(client, client', place, more) BY DEF Finish
<1>4. /\ decided \in Seq(Entry) /\ decided' \in Seq(Entry)
      /\ Len(decided) \in Nat /\ Len(decided') \in Nat
      /\ Len(decided) <= Len(decided')
      /\ \A x \in 1..Len(decided) : decided'[x] = decided[x]
  <2>1. decided \in Seq(Entry) /\ decided' \in Seq(Entry) BY <1>1 DEF BoundsInv, TypeOK
  <2> QED BY <1>1, <2>1, LenProperties DEF DecidedStays, Agree
<1>5. /\ r \in NodeState /\ r.log \in Seq(Entry) /\ Len(r.log) \in Nat
      /\ r.commit_index \in 0..Len(r.log) /\ r.applied = SubSeq(r.log, 1, r.commit_index)
  <2>1. r \in NodeState BY <1>1, <1>2 DEF BoundsInv, TypeOK
  <2>2. r.log \in Seq(Entry) BY <2>1 DEF NodeState
  <2> QED BY <1>1, <1>2, <2>1, <2>2, LenProperties DEF Applies
<1>6. \A j \in Node : InPlace(node'[j].log, 0, client', more)
  <2> SUFFICES ASSUME NEW j \in Node PROVE InPlace(node'[j].log, 0, client', more)
    OBVIOUS
  <2>1. CASE j = i BY <1>2, <1>3, <2>1
  <2>2. CASE j # i
    <3>1. node[j].log \in Seq(Entry) /\ InPlace(node[j].log, 0, client, place)
      BY <1>1, NodeFacts DEF PlaceInv
    <3>2. InPlace(node[j].log, 0, client', more) BY <1>3, <3>1, PlacesStay
    <3> QED BY <1>2, <2>2, <3>2
  <2> QED BY <2>1, <2>2
<1>7. ASSUME NEW m \in msgs', m.type = "AppendRequest"
      PROVE  InPlace(m.entries, m.prev_log_index, client', more)
  <2>1. CASE m \in msgs
    <3>1. m.entries \in Seq(Entry) BY <1>1, <1>7, <2>1, AppendRequestContext
    <3>2. InPlace(m.entries, m.prev_log_index, client, place)
      BY <1>1, <1>7, <2>1 DEF PlaceInv
    <3> QED BY <1>3, <3>1, <3>2, PlacesStay
  <2>2. CASE SentInPlace(m, cl, more) BY <1>3, <1>7, <2>2 DEF SentInPlace
  <2> QED BY <2>1, <2>2
<1>8. InPlace(decided', 0, client', more)
  <2>1. CASE decided' = decided
    <3>1. InPlace(decided, 0, client, place) BY <1>1 DEF PlaceInv
    <3>2. InPlace(decided, 0, client', more) BY <1>3, <1>4, <3>1, PlacesStay
    <3> QED BY <2>1, <3>2
  <2>2. CASE decided' = r.applied
    <3>1. r.commit_index \in Nat /\ r.commit_index <= Len(r.log) BY <1>5
    <3>2. InPlace(r.applied, 0, client', more) BY <1>3, <1>5, <3>1, PrefixInPlace
    <3> QED BY <2>2, <3>2
  <2> QED BY <2>1, <2>2 DEF Finish
<1>9. PendingInPlace(more)'
  <2> SUFFICES ASSUME NEW j \in Node, NEW p \in node'[j].pending_applies
               PROVE  /\ client'[p.request].status = "waiting"
                      /\ p.index = more[p.request]
                      /\ \A k \in Node \ {j} :
                            \A q \in node'[k].pending_applies : q.request # p.request
    BY DEF PendingInPlace
  <2>1. CASE j = i
    BY <1>2, <1>3, <2>1 DEF Waits, OnlyRequest
  <2>2. CASE j # i
    <3>1. p \in node[j].pending_applies BY <1>2, <2>2
    <3>2. /\ client[p.request].status = "waiting" /\ p.index = place[p.request]
          /\ \A k \in Node \ {j} :
                \A q \in node[k].pending_applies : q.request # p.request
      BY <1>1, <3>1 DEF PlaceInv, PendingInPlace
    <3>3. p.request \in Command BY <1>1, <3>1, PendingFacts
    <3>4. more[p.request] = place[p.request]
      BY <3>2, <3>3 DEF KeepsPlaces, Taken
    <3>5. client'[p.request] = client[p.request] BY <1>3, <2>2, <3>1
    <3>6. ASSUME NEW k \in Node \ {j}, NEW q \in node'[k].pending_applies
          PROVE  q.request # p.request
      <4>1. CASE k = i
        <5>1. OnlyRequest(i, q) BY <1>2, <4>1
        <5> QED BY <2>2, <3>1, <5>1 DEF OnlyRequest
      <4>2. CASE k # i BY <1>2, <3>2, <4>2
      <4> QED BY <4>1, <4>2
    <3> QED BY <3>2, <3>4, <3>5, <3>6
  <2> QED BY <2>1, <2>2
<1>10. AnswersInPlace(more)'
  <2> SUFFICES ASSUME NEW c \in Command, client'[c].status = "ok"
               PROVE  /\ more[c] \in 1..Len(decided')
                      /\ client'[c].output = decided'[more[c]].command
    BY DEF AnswersInPlace
  <2>1. CASE cl[c] = client[c]
    <3>1. client[c].status = "ok" BY <1>3, <2>1
    <3>2. place[c] \in 1..Len(decided) /\ client[c].output = decided[place[c]].command
      BY <1>1, <3>1 DEF PlaceInv, AnswersInPlace
    <3>3. more[c] = place[c] BY <3>1 DEF KeepsPlaces, Taken
    <3>4. place[c] \in 1..Len(decided') BY <1>4, <3>2
    <3> QED BY <1>3, <1>4, <2>1, <3>2, <3>3, <3>4
  <2>2. CASE /\ more[c] \in (Len(node[i].applied) + 1)..Len(r.applied)
             /\ r.applied[more[c]].command = cl[c].output
    <3> DEFINE d == r.commit_index
               k == more[c]
    <3>1. d <= Len(decided') /\ r.applied = SubSeq(decided', 1, d) /\ Len(r.applied) = d
      BY <1>1, <1>2 DEF Learned
    <3>2. Len(node[i].applied) \in Nat BY <1>1, NodeFacts, LenProperties
    <3>3. d \in Nat BY <1>5
    <3>4. k \in 1..d
      <4> HIDE DEF d
      <4> QED BY <2>2, <3>1, <3>2, <3>3
    <3> HIDE DEF d, k
    <3>5. SubSeq(decided', 1, d)[k] = decided'[k] BY <1>4, <3>1, <3>3, <3>4, PrefixAgrees
    <3>6. k \in 1..Len(decided') BY <1>4, <3>1, <3>3, <3>4
    <3> QED BY <1>3, <2>2, <3>1, <3>5, <3>6 DEF k
  <2> QED BY <1>3, <2>1, <2>2 DEF TellsWhatIsApplied
<1>11. AnswersGrow
  <2> SUFFICES ASSUME NEW c \in Command, client'[c].status = "ok", client'[c] # client[c]
               PROVE  \E j \in Node :
                        \E x \in (Len(node[j].applied) + 1)..Len(node'[j].applied) :
                           node'[j].applied[x].command = client'[c].output
    BY <1>3 DEF AnswersGrow, TellsWhatIsApplied
  <2>1. /\ more[c] \in (Len(node[i].applied) + 1)..Len(r.applied)
        /\ r.applied[more[c]].command = cl[c].output
    BY <1>3 DEF TellsWhatIsApplied
  <2> QED BY <1>2, <1>3, <2>1
<1>12. PlaceInv(more)' BY <1>6, <1>7, <1>8, <1>9, <1>10 DEF PlaceInv
<1> QED BY <1>3, <1>11, <1>12 DEF PlacesNext

\* What a heartbeat carries of a log in place is in place.
LEMMA HeartbeatInPlace ==
    ASSUME BoundsInv', NEW i \in Node, NEW r, node'[i] = r, r.role = "Leader",
           NEW cl, NEW place, InPlace(r.log, 0, cl, place)
    PROVE  \A m \in on_heartbeat(i, r) : SentInPlace(m, cl, place)
<1> SUFFICES ASSUME NEW j \in Peers(i)
             PROVE  SentInPlace(AppendRequest(i, j, r), cl, place)
  BY DEF on_heartbeat
<1> DEFINE m == AppendRequest(i, j, r)
           prev == r.next_index[j] - 1
<1>1. r \in NodeState /\ r.log \in Seq(Entry) BY DEF BoundsInv, TypeOK, NodeState
<1>2. r.next_index[j] \in 1..(Len(r.log) + 1)
  BY DEF BoundsInv, IndexesInBounds, Leader, Peers
<1>3. prev \in 0..Len(r.log) BY <1>1, <1>2, LenProperties
<1>4. m.prev_log_index = prev /\ m.entries = SubSeq(r.log, prev + 1, Len(r.log))
  BY DEF AppendRequest
<1> HIDE DEF m, prev
<1>5. InPlace(SubSeq(r.log, prev + 1, Len(r.log)), prev, cl, place)
  BY <1>1, <1>3, SuffixInPlace
<1>6. SentInPlace(m, cl, place) BY <1>4, <1>5 DEF SentInPlace
<1> QED BY <1>6 DEF m

\* apply_committed answers requests at the indexes it gives to the state machine,
\* with the commands of their entries.
LEMMA ApplyAnswers ==
    ASSUME NEW a \in NodeState, NEW p \in Answered(a)
    PROVE  LET r == apply_committed(a)
           IN  /\ p \in a.pending_applies /\ p \notin r.pending_applies
               /\ p.index \in (Len(a.applied) + 1)..Len(r.applied)
               /\ r.applied[p.index] = a.log[p.index]
<1> DEFINE x == Len(a.applied)
           u == ApplyUpTo(a)
           more == SubSeq(a.log, x + 1, u)
           r == apply_committed(a)
           k == p.index
<1>1. /\ a.log \in Seq(Entry) /\ a.applied \in Seq(Entry) /\ x \in Nat
      /\ Len(a.log) \in Nat /\ u \in Nat /\ u <= Len(a.log)
  BY LenProperties, ApplyUpToType DEF NodeState
<1>2. p \in a.pending_applies /\ k \in (x + 1)..u BY DEF Answered
<1>3. r.applied = a.applied \o more /\ r.pending_applies = a.pending_applies \ Answered(a)
  BY DEF apply_committed, NodeState
<1>4. k - x \in 1..(u - x) /\ k \in Nat /\ k > x /\ u > x BY <1>1, <1>2
<1>5. /\ more \in Seq(Entry) /\ Len(more) = u - x
      /\ \A y \in 1..(u - x) : more[y] = a.log[x + y]
  <2>1. \A y \in (x + 1)..u : a.log[y] \in Entry BY <1>1, LogFacts
  <2> HIDE DEF x, u
  <2>2. /\ more \in Seq(Entry) /\ Len(more) = IF x + 1 <= u THEN u - (x + 1) + 1 ELSE 0
        /\ \A y \in 1..(u - (x + 1) + 1) : more[y] = a.log[(x + 1) + y - 1]
    BY <1>1, <2>1, SubSeqProperties
  <2> HIDE DEF more
  <2>3. Len(more) = u - x BY <1>1, <1>4, <2>2
  <2>4. ASSUME NEW y \in 1..(u - x) PROVE more[y] = a.log[x + y]
    <3>1. y \in 1..(u - (x + 1) + 1) /\ (x + 1) + y - 1 = x + y BY <1>1
    <3>2. more[y] = a.log[(x + 1) + y - 1] BY <2>2, <3>1
    <3> QED BY <3>1, <3>2
  <2> QED BY <2>2, <2>3, <2>4
<1>6. /\ Len(a.applied \o more) = x + Len(more)
      /\ \A y \in 1..(x + Len(more)) :
            (a.applied \o more)[y] = IF y <= x THEN a.applied[y] ELSE more[y - x]
  <2> HIDE DEF more
  <2> QED BY <1>1, <1>5, ConcatProperties
<1> HIDE DEF more, r, u, x, k
<1>7. Len(r.applied) = u BY <1>1, <1>3, <1>4, <1>5, <1>6
<1>8. r.applied[k] = a.log[k]
  <2>1. k \in 1..(x + Len(more)) /\ ~(k <= x) /\ x + (k - x) = k BY <1>1, <1>4, <1>5
  <2>2. r.applied[k] = more[k - x] BY <1>3, <1>6, <2>1
  <2>3. more[k - x] = a.log[x + (k - x)] BY <1>4, <1>5
  <2> QED BY <2>1, <2>2, <2>3
<1> QED BY <1>2, <1>3, <1>7, <1>8 DEF r, x, k

\* A handler that ends in apply_committed answers the requests that waited for what
\* the state machine is given, and no others.
LEMMA AnswerPlaces ==
    ASSUME NEW place \in [Command -> Nat], NEW more \in [Command -> Nat],
           Stepping(place), NEW i \in Node, NEW a \in NodeState, NEW cl, NEW voters,
           Finish(i, apply_committed(a), Answer(cl, replies(a)), voters),
           a.applied = node[i].applied, KeepsPlaces(client, cl, place, more),
           InPlace(a.log, 0, cl, more),
           \A p \in a.pending_applies : Waits(p, cl, more) /\ OnlyRequest(i, p),
           \A j \in Node \ {i} : \A q \in node[j].pending_applies :
              cl[q.request] = client[q.request],
           \A c \in Command :
              client[c].status = "ok" \/ cl[c].status = "ok" => cl[c] = client[c],
           \A m \in msgs' : m \in msgs \/ SentInPlace(m, cl, more)
    PROVE  PlacesNext(place, more)
<1> DEFINE r == apply_committed(a)
           after == Answer(cl, replies(a))
<1>1. /\ BoundsInv /\ BoundsInv' BY DEF Stepping
<1>2. r \in NodeState /\ r.log = a.log /\ a.log \in Seq(Entry)
  BY ApplyCommitted DEF SameCore, NodeState
<1>3. a.pending_applies \in SUBSET Pending
      /\ r.pending_applies = a.pending_applies \ Answered(a)
  BY DEF NodeState, apply_committed
<1>4. ASSUME NEW c \in Command
      PROVE  \/ after[c] = cl[c] /\ \A p \in Answered(a) : p.request # c
             \/ \E p \in Answered(a) :
                   /\ p.request = c
                   /\ after[c] = [status |-> "ok", output |-> a.log[p.index].command]
  <2>1. CASE \E s \in replies(a) : s.request = c
    <3> DEFINE s == CHOOSE s \in replies(a) : s.request = c
    <3>1. s \in replies(a) /\ s.request = c BY <2>1
    <3>2. after[c] = [status |-> "ok", output |-> s.output] BY <2>1 DEF Answer
    <3> HIDE DEF s
    <3>3. PICK p \in Answered(a) :
             s = [request |-> p.request, output |-> a.log[p.index].command]
      BY <3>1 DEF replies
    <3>4. p.request = c /\ s.output = a.log[p.index].command BY <3>1, <3>3
    <3> QED BY <3>2, <3>4
  <2>2. CASE ~\E s \in replies(a) : s.request = c
    <3>1. after[c] = cl[c] BY <2>2 DEF Answer
    <3>2. ASSUME NEW p \in Answered(a) PROVE p.request # c
      <4> DEFINE s == [request |-> p.request, output |-> a.log[p.index].command]
      <4>1. s \in replies(a) BY DEF replies
      <4>2. s.request # c BY <2>2, <4>1
      <4> QED BY <4>2
    <3> QED BY <3>1, <3>2
  <2> QED BY <2>1, <2>2
<1>5. \A p \in Answered(a) : p \in a.pending_applies BY DEF Answered
<1> HIDE DEF after
<1>6. \A c \in Command : Taken(cl, c) => Taken(after, c)
  <2> SUFFICES ASSUME NEW c \in Command, Taken(cl, c) PROVE Taken(after, c)
    OBVIOUS
  <2>1. CASE after[c] = cl[c] BY <2>1 DEF Taken
  <2>2. CASE \E p \in Answered(a) :
                after[c] = [status |-> "ok", output |-> a.log[p.index].command]
    <3>1. after[c].status = "ok" BY <2>2
    <3> QED BY <3>1 DEF Taken
  <2> QED BY <1>4, <2>1, <2>2
<1>7. KeepsPlaces(client, after, place, more) BY <1>6 DEF KeepsPlaces
<1>8. InPlace(r.log, 0, after, more)
  <2>1. KeepsPlaces(cl, after, more, more) BY <1>6 DEF KeepsPlaces
  <2> QED BY <1>2, <2>1, PlacesStay
<1>9. \A p \in r.pending_applies : Waits(p, after, more) /\ OnlyRequest(i, p)
  <2> SUFFICES ASSUME NEW p \in r.pending_applies
               PROVE  Waits(p, after, more) /\ OnlyRequest(i, p)
    OBVIOUS
  <2>1. p \in a.pending_applies /\ p \notin Answered(a) BY <1>3
  <2>2. p \in Pending /\ p.request \in Command BY <1>3, <2>1 DEF Pending
  <2>3. ASSUME NEW q \in Answered(a) PROVE q.request # p.request
    <3>1. q \in Pending BY <1>3, <1>5
    <3>2. q.request = p.request => q.index = p.index BY <1>5, <2>1 DEF Waits
    <3>3. q.request = p.request /\ q.index = p.index => q = p
      BY <2>2, <3>1 DEF Pending
    <3> QED BY <2>1, <3>2, <3>3
  <2>4. after[p.request] = cl[p.request] BY <1>4, <2>2, <2>3
  <2> QED BY <2>1, <2>4 DEF Waits
<1>10. \A j \in Node \ {i} : \A q \in node[j].pending_applies :
          after[q.request] = client[q.request]
  <2> SUFFICES ASSUME NEW j \in Node \ {i}, NEW q \in node[j].pending_applies
               PROVE  after[q.request] = client[q.request]
    OBVIOUS
  <2>1. \A p \in Answered(a) : p.request # q.request BY <1>5 DEF OnlyRequest
  <2>2. q.request \in Command BY <1>1, PendingFacts
  <2> QED BY <1>4, <2>1, <2>2
<1>11. \A m \in msgs' : m \in msgs \/ SentInPlace(m, after, more)
  <2> SUFFICES ASSUME NEW m \in msgs', SentInPlace(m, cl, more), m.type = "AppendRequest"
               PROVE  InPlace(m.entries, m.prev_log_index, after, more)
    BY DEF SentInPlace
  <2>1. m.entries \in Seq(Entry) BY <1>1 DEF BoundsInv, TypeOK, Message
  <2>2. KeepsPlaces(cl, after, more, more) BY <1>6 DEF KeepsPlaces
  <2>3. InPlace(m.entries, m.prev_log_index, cl, more) BY DEF SentInPlace
  <2> QED BY <2>1, <2>2, <2>3, PlacesStay
<1>12. TellsWhatIsApplied(i, r, after, more)
  <2> SUFFICES ASSUME NEW c \in Command
               PROVE  /\ client[c].status = "ok" => after[c] = client[c]
                      /\ after[c].status = "ok" =>
                            \/ after[c] = client[c]
                            \/ /\ more[c] \in (Len(node[i].applied) + 1)..Len(r.applied)
                               /\ r.applied[more[c]].command = after[c].output
    BY DEF TellsWhatIsApplied
  <2>1. CASE after[c] = cl[c] BY <2>1
  <2>2. CASE \E p \in Answered(a) :
                /\ p.request = c
                /\ after[c] = [status |-> "ok", output |-> a.log[p.index].command]
    <3>1. PICK p \in Answered(a) :
             /\ p.request = c
             /\ after[c] = [status |-> "ok", output |-> a.log[p.index].command]
      BY <2>2
    <3>2. Waits(p, cl, more) BY <1>5
    <3>3. cl[c].status = "waiting" /\ p.index = more[c] BY <3>1, <3>2 DEF Waits
    <3>4. client[c].status # "ok" BY <3>3
    <3>5. p.index \in (Len(a.applied) + 1)..Len(r.applied)
          /\ r.applied[p.index] = a.log[p.index]
      BY ApplyAnswers
    <3> QED BY <3>1, <3>3, <3>4, <3>5
  <2> QED BY <1>4, <2>1, <2>2
<1> QED BY <1>7, <1>8, <1>9, <1>10, <1>11, <1>12, FinishPlaces DEF after

-----------------------------------------------------------------------------
(* The ways a handler ends. *)

\* Node i, in state n, its clients in cl, may look for requests to answer.
Ready(i, n, cl, place, more) ==
    /\ KeepsPlaces(client, cl, place, more) /\ InPlace(n.log, 0, cl, more)
    /\ \A p \in n.pending_applies : Waits(p, cl, more) /\ OnlyRequest(i, p)
    /\ \A j \in Node \ {i} : \A q \in node[j].pending_applies :
          cl[q.request] = client[q.request]
    /\ \A c \in Command :
          client[c].status = "ok" \/ cl[c].status = "ok" => cl[c] = client[c]

\* Before a handler has touched the clients, what waits at a node waits there alone.
LEMMA ReadyNow ==
    ASSUME NEW place \in [Command -> Nat], PlaceInv(place), NEW i \in Node, NEW n,
           n.pending_applies = node[i].pending_applies, InPlace(n.log, 0, client, place)
    PROVE  Ready(i, n, client, place, place)
<1>1. KeepsPlaces(client, client, place, place) BY DEF KeepsPlaces
<1>2. \A p \in n.pending_applies : Waits(p, client, place) /\ OnlyRequest(i, p)
  BY DEF PlaceInv, PendingInPlace, Waits, OnlyRequest
<1> QED BY <1>1, <1>2 DEF Ready

\* advance_commit leaves the state machine and the requests to apply_committed.
LEMMA AdvanceWaits ==
    ASSUME NEW n \in NodeState
    PROVE  /\ advance_commit(n).applied = n.applied
           /\ advance_commit(n).pending_applies = n.pending_applies
<1>1. PICK k : advance_commit(n) = [n EXCEPT !.commit_index = k] \/ advance_commit(n) = n
  BY DEF advance_commit
<1> QED BY <1>1 DEF NodeState

\* A leader commits what it can and may send heartbeats.
LEMMA CommitPlaces ==
    ASSUME NEW place \in [Command -> Nat], NEW more \in [Command -> Nat],
           Stepping(place), NEW i \in Node, NEW n \in NodeState, NEW cl, NEW voters,
           Finish(i, Commit(n), Answer(cl, CommitReplies(n)), voters),
           n.role = "Leader", n.applied = node[i].applied, Ready(i, n, cl, place, more),
           msgs' \subseteq msgs \cup on_heartbeat(i, Commit(n))
    PROVE  PlacesNext(place, more)
<1> DEFINE a == advance_commit(n)
           r == Commit(n)
<1>1. BoundsInv /\ BoundsInv' BY DEF Stepping
<1>2. /\ a \in NodeState /\ a.log = n.log /\ a.applied = n.applied
      /\ a.pending_applies = n.pending_applies
  BY AdvanceCommit, AdvanceWaits DEF SameCore
<1>3. r.log = n.log /\ r.role = "Leader" BY CommitKeeps DEF SameCore
<1>4. Finish(i, apply_committed(a), Answer(cl, replies(a)), voters)
  BY DEF Commit, CommitReplies
<1>5. node'[i] = r BY <1>1, FinishNode
<1> HIDE DEF a, r
<1>6. \A m \in on_heartbeat(i, r) : SentInPlace(m, cl, more)
  <2>1. InPlace(r.log, 0, cl, more) BY <1>3 DEF Ready
  <2> QED BY <1>1, <1>3, <1>5, <2>1, HeartbeatInPlace
<1>7. \A m \in msgs' : m \in msgs \/ SentInPlace(m, cl, more) BY <1>6 DEF r
<1>8. /\ KeepsPlaces(client, cl, place, more) /\ InPlace(a.log, 0, cl, more)
      /\ \A p \in a.pending_applies : Waits(p, cl, more) /\ OnlyRequest(i, p)
      /\ \A j \in Node \ {i} : \A q \in node[j].pending_applies :
            cl[q.request] = client[q.request]
      /\ \A c \in Command :
            client[c].status = "ok" \/ cl[c].status = "ok" => cl[c] = client[c]
  BY <1>2 DEF Ready
<1>9. a \in NodeState /\ a.applied = node[i].applied BY <1>2
<1> QED BY <1>4, <1>7, <1>8, <1>9, AnswerPlaces

\* A node that answers nobody and sends no entries.
LEMMA KeptPlaces ==
    ASSUME NEW place \in [Command -> Nat], Stepping(place), NEW i \in Node, NEW r,
           NEW voters, Finish(i, r, client, voters), r.log = node[i].log,
           r.pending_applies = node[i].pending_applies,
           \A m \in msgs' : m \in msgs \/ m.type # "AppendRequest"
    PROVE  PlacesNext(place, place)
<1>1. PlaceInv(place) /\ InPlace(r.log, 0, client, place) BY DEF Stepping, PlaceInv
<1>2. Ready(i, r, client, place, place) BY <1>1, ReadyNow
<1>3. \A m \in msgs' : m \in msgs \/ SentInPlace(m, client, place) BY DEF SentInPlace
<1>4. TellsWhatIsApplied(i, r, client, place) BY DEF TellsWhatIsApplied
<1>5. /\ KeepsPlaces(client, client, place, place)
      /\ \A p \in r.pending_applies : Waits(p, client, place) /\ OnlyRequest(i, p)
  BY <1>2 DEF Ready
<1> QED BY <1>1, <1>3, <1>4, <1>5, FinishPlaces

\* A node that starts again: its clients lose their reply channels.
LEMMA RestartedPlaces ==
    ASSUME NEW place \in [Command -> Nat], Stepping(place), NEW i \in Node, NEW r,
           NEW voters, Finish(i, r, Drop(client, node[i].pending_applies), voters),
           r.log = node[i].log, r.pending_applies = {}, msgs' \subseteq msgs
    PROVE  PlacesNext(place, place)
<1> DEFINE lost == node[i].pending_applies
           cl == Drop(client, lost)
<1>1. BoundsInv /\ PlaceInv(place) BY DEF Stepping
<1>2. \A p \in lost : Waits(p, client, place) /\ OnlyRequest(i, p)
  BY <1>1 DEF PlaceInv, PendingInPlace, Waits, OnlyRequest
<1>3. ASSUME NEW c \in Command
      PROVE  \/ cl[c] = client[c] /\ \A p \in lost : p.request # c
             \/ /\ cl[c].status = "dropped" /\ client[c].status = "waiting"
                /\ \E p \in lost : p.request = c
  <2>1. CASE \E p \in lost : p.request = c
    <3>1. cl[c] = Status("dropped") BY <2>1 DEF Drop
    <3>2. client[c].status = "waiting" BY <1>2, <2>1 DEF Waits
    <3> QED BY <2>1, <3>1, <3>2 DEF Status
  <2>2. CASE ~\E p \in lost : p.request = c BY <2>2 DEF Drop
  <2> QED BY <2>1, <2>2
<1> HIDE DEF cl
<1>4. KeepsPlaces(client, cl, place, place)
  <2> SUFFICES ASSUME NEW c \in Command, Taken(client, c) PROVE Taken(cl, c)
    BY DEF KeepsPlaces
  <2>1. CASE cl[c] = client[c] BY <2>1 DEF Taken
  <2>2. CASE cl[c].status = "dropped" BY <2>2 DEF Taken
  <2> QED BY <1>3, <2>1, <2>2
<1>5. InPlace(r.log, 0, cl, place)
  <2>1. node[i].log \in Seq(Entry) /\ InPlace(node[i].log, 0, client, place)
    BY <1>1, NodeFacts DEF PlaceInv
  <2> QED BY <1>4, <2>1, PlacesStay
<1>6. \A j \in Node \ {i} : \A q \in node[j].pending_applies :
         cl[q.request] = client[q.request]
  <2> SUFFICES ASSUME NEW j \in Node \ {i}, NEW q \in node[j].pending_applies
               PROVE  cl[q.request] = client[q.request]
    OBVIOUS
  <2>1. \A p \in lost : p.request # q.request BY <1>2 DEF OnlyRequest
  <2>2. q.request \in Command BY <1>1, PendingFacts
  <2> QED BY <1>3, <2>1, <2>2
<1>7. TellsWhatIsApplied(i, r, cl, place)
  <2> SUFFICES ASSUME NEW c \in Command, client[c].status = "ok" \/ cl[c].status = "ok"
               PROVE  cl[c] = client[c]
    BY DEF TellsWhatIsApplied
  <2> QED BY <1>3
<1>8. \A m \in msgs' : m \in msgs \/ SentInPlace(m, cl, place) OBVIOUS
<1>9. \A p \in r.pending_applies : Waits(p, cl, place) /\ OnlyRequest(i, p) OBVIOUS
<1>10. Finish(i, r, cl, voters) BY DEF cl
<1> QED BY <1>4, <1>5, <1>6, <1>7, <1>8, <1>9, <1>10, FinishPlaces

\* A step that leaves every node alone and answers nobody.
LEMMA IdlePlaces ==
    ASSUME NEW place \in [Command -> Nat], Stepping(place), UNCHANGED <<node, decided>>,
           \A c \in Command :
              \/ client'[c] = client[c]
              \/ /\ client[c].status \in {"idle", "rejected"}
                 /\ client'[c].status = "rejected",
           \A m \in msgs' : m \in msgs \/ SentInPlace(m, client', place)
    PROVE  PlacesNext(place, place)
<1>1. BoundsInv /\ PlaceInv(place) BY DEF Stepping
<1>2. KeepsPlaces(client, client', place, place)
  <2> SUFFICES ASSUME NEW c \in Command, Taken(client, c) PROVE Taken(client', c)
    BY DEF KeepsPlaces
  <2>1. client'[c] = client[c] BY DEF Taken
  <2> QED BY <2>1 DEF Taken
<1>3. ASSUME NEW c \in Command, client[c].status = "ok" \/ client'[c].status = "ok"
      PROVE  client'[c] = client[c]
  <2>1. ~(client[c].status \in {"idle", "rejected"} /\ client'[c].status = "rejected")
    BY <1>3
  <2> QED BY <2>1
<1>4. \A i \in Node : InPlace(node'[i].log, 0, client', place)
  <2> SUFFICES ASSUME NEW i \in Node PROVE InPlace(node[i].log, 0, client', place)
    OBVIOUS
  <2>1. node[i].log \in Seq(Entry) /\ InPlace(node[i].log, 0, client, place)
    BY <1>1, NodeFacts DEF PlaceInv
  <2> QED BY <1>2, <2>1, PlacesStay
<1>5. ASSUME NEW m \in msgs', m.type = "AppendRequest"
      PROVE  InPlace(m.entries, m.prev_log_index, client', place)
  <2>1. CASE m \in msgs
    <3>1. m.entries \in Seq(Entry) BY <1>1, <1>5, <2>1, AppendRequestContext
    <3>2. InPlace(m.entries, m.prev_log_index, client, place)
      BY <1>1, <1>5, <2>1 DEF PlaceInv
    <3> QED BY <1>2, <3>1, <3>2, PlacesStay
  <2>2. CASE SentInPlace(m, client', place) BY <1>5, <2>2 DEF SentInPlace
  <2> QED BY <2>1, <2>2
<1>6. InPlace(decided', 0, client', place)
  <2>1. decided \in Seq(Entry) /\ InPlace(decided, 0, client, place)
    BY <1>1 DEF PlaceInv, BoundsInv, TypeOK
  <2>2. InPlace(decided, 0, client', place) BY <1>2, <2>1, PlacesStay
  <2> QED BY <2>2
<1>7. PendingInPlace(place)'
  <2> SUFFICES ASSUME NEW i \in Node, NEW p \in node[i].pending_applies
               PROVE  client'[p.request].status = "waiting"
    BY <1>1 DEF PlaceInv, PendingInPlace
  <2>1. client[p.request].status = "waiting" /\ p.request \in Command
    BY <1>1, PendingFacts DEF PlaceInv, PendingInPlace
  <2>2. client'[p.request] = client[p.request] BY <2>1
  <2> QED BY <2>1, <2>2
<1>8. AnswersInPlace(place)'
  <2> SUFFICES ASSUME NEW c \in Command, client'[c].status = "ok"
               PROVE  /\ place[c] \in 1..Len(decided)
                      /\ client'[c].output = decided[place[c]].command
    BY DEF AnswersInPlace
  <2> QED BY <1>1, <1>3 DEF PlaceInv, AnswersInPlace
<1>9. AnswersGrow BY <1>3 DEF AnswersGrow
<1>10. PlaceInv(place)' BY <1>4, <1>5, <1>6, <1>7, <1>8 DEF PlaceInv
<1> QED BY <1>2, <1>9, <1>10 DEF PlacesNext

-----------------------------------------------------------------------------
(* One lemma per action. *)

\* heartbeat.
LEMMA HeartbeatPlaces ==
    ASSUME NEW place \in [Command -> Nat], Stepping(place), NEW i \in Node, heartbeat(i)
    PROVE  PlacesNext(place, place)
<1>1. /\ node[i].role = "Leader" /\ send_message(msgs, on_heartbeat(i, node[i]))
      /\ UNCHANGED <<node, client, decided>>
  BY DEF heartbeat
<1>2. \A m \in on_heartbeat(i, node[i]) : SentInPlace(m, client, place)
  <2>1. PICK r : r = node[i] OBVIOUS
  <2>2. node'[i] = r /\ r.role = "Leader" BY <1>1, <2>1
  <2>3. BoundsInv' /\ InPlace(r.log, 0, client, place) BY <2>1 DEF Stepping, PlaceInv
  <2>4. \A m \in on_heartbeat(i, r) : SentInPlace(m, client, place)
    BY <2>2, <2>3, HeartbeatInPlace
  <2> QED BY <2>1, <2>4
<1>3. msgs' \subseteq msgs \cup on_heartbeat(i, node[i]) BY <1>1, SendAdds
<1>4. \A m \in msgs' : m \in msgs \/ SentInPlace(m, client', place) BY <1>1, <1>2, <1>3
<1>5. \A c \in Command : client'[c] = client[c] BY <1>1
<1>6. UNCHANGED <<node, decided>> BY <1>1
<1> QED BY <1>4, <1>5, <1>6, IdlePlaces

\* The steps that change no node and send nothing but a refusal.
LEMMA RefusalPlaces ==
    ASSUME NEW place \in [Command -> Nat], Stepping(place),
           NEW m, vote_request_stale(m) \/ append_request_stale(m) \/ ignore(m)
    PROVE  PlacesNext(place, place)
<1> DEFINE vote == VoteResponse(m.to, m.from, node[m.to].current_term, FALSE)
           append == AppendResponse(m.to, m.from, node[m.to].current_term, 0, FALSE)
<1>1. /\ UNCHANGED <<node, client, decided>>
      /\ Receive(m, {vote}) \/ Receive(m, {append}) \/ Receive(m, {})
  BY DEF vote_request_stale, append_request_stale, ignore
<1>2. vote.type # "AppendRequest" /\ append.type # "AppendRequest"
  BY DEF VoteResponse, AppendResponse
<1> HIDE DEF vote, append
<1>3. msgs' \subseteq msgs \cup {vote, append}
  <2>1. CASE Receive(m, {vote}) BY <2>1, ReceiveAdds
  <2>2. CASE Receive(m, {append}) BY <2>2, ReceiveAdds
  <2>3. CASE Receive(m, {})
    <3>1. msgs' \subseteq msgs \cup {} BY <2>3, ReceiveAdds
    <3> QED BY <3>1
  <2> QED BY <1>1, <2>1, <2>2, <2>3
<1>4. \A x \in msgs' : x \in msgs \/ SentInPlace(x, client', place)
  BY <1>2, <1>3 DEF SentInPlace
<1>5. \A c \in Command : client'[c] = client[c] BY <1>1
<1>6. UNCHANGED <<node, decided>> BY <1>1
<1> QED BY <1>4, <1>5, <1>6, IdlePlaces

\* A command is refused, which it may be again and again.
LEMMA ClientCommandRefusePlaces ==
    ASSUME NEW place \in [Command -> Nat], Stepping(place),
           NEW i \in Node, NEW c \in Command,
           client[c].status \in {"idle", "rejected"}, client_command_refuse(i, c)
    PROVE  PlacesNext(place, place)
<1>1. /\ UNCHANGED <<node, msgs, decided>>
      /\ client' = [client EXCEPT ![c] = Status("rejected")]
  BY DEF client_command_refuse
<1>2. ASSUME NEW d \in Command
      PROVE  \/ client'[d] = client[d]
             \/ /\ client[d].status \in {"idle", "rejected"}
                /\ client'[d].status = "rejected"
  <2>1. client \in [Command -> Outcome] BY StateContext DEF Stepping
  <2>2. Status("rejected").status = "rejected" BY DEF Status
  <2> QED BY <1>1, <2>1, <2>2
<1>3. \A m \in msgs' : m \in msgs BY <1>1
<1>4. UNCHANGED <<node, decided>> BY <1>1
<1> QED BY <1>2, <1>3, <1>4, IdlePlaces

\* vote_request, granted or refused.
LEMMA VoteRequestPlaces ==
    ASSUME NEW place \in [Command -> Nat], Stepping(place),
           NEW m \in msgs, vote_request_grant(m) \/ vote_request_reject(m)
    PROVE  PlacesNext(place, place)
<1> DEFINE i == m.to
           o == Observed(node[i], m.term)
           g == [o EXCEPT !.voted_for = m.from]
           yes == VoteResponse(i, m.from, g.current_term, TRUE)
           no == VoteResponse(i, m.from, o.current_term, FALSE)
<1>1. /\ i \in Node /\ node[i] \in NodeState /\ m.term \in Nat
  BY HandlerContext DEF Stepping
<1>2. /\ m.term >= node[i].current_term
      /\ \/ Receive(m, {yes}) /\ Finish(i, g, client, VotersKept(m))
         \/ Receive(m, {no}) /\ Finish(i, o, client, VotersKept(m))
  BY DEF vote_request_grant, vote_request_reject
<1>3. o.log = node[i].log /\ o.pending_applies = node[i].pending_applies
  BY <1>1, <1>2, ObservedEvolves, FollowerKeeps
<1>4. yes.type # "AppendRequest" /\ no.type # "AppendRequest" BY DEF VoteResponse
<1> HIDE DEF o, yes, no
<1>5. g.log = o.log /\ g.pending_applies = o.pending_applies OBVIOUS
<1> HIDE DEF i, g
<1>6. CASE Receive(m, {yes}) /\ Finish(i, g, client, VotersKept(m))
  <2>1. msgs' \subseteq msgs \cup {yes} BY <1>6, ReceiveAdds
  <2>2. \A x \in msgs' : x \in msgs \/ x.type # "AppendRequest" BY <1>4, <2>1
  <2> QED BY <1>1, <1>3, <1>5, <1>6, <2>2, KeptPlaces
<1>7. CASE Receive(m, {no}) /\ Finish(i, o, client, VotersKept(m))
  <2>1. msgs' \subseteq msgs \cup {no} BY <1>7, ReceiveAdds
  <2>2. \A x \in msgs' : x \in msgs \/ x.type # "AppendRequest" BY <1>4, <2>1
  <2> QED BY <1>1, <1>3, <1>7, <2>2, KeptPlaces
<1> QED BY <1>2, <1>6, <1>7

\* step_down.
LEMMA StepDownPlaces ==
    ASSUME NEW place \in [Command -> Nat], Stepping(place), NEW m \in msgs, step_down(m)
    PROVE  PlacesNext(place, place)
<1> DEFINE i == m.to
           r == become_follower(node[i], m.term)
<1>1. i \in Node /\ node[i] \in NodeState /\ m.term \in Nat
  BY HandlerContext DEF Stepping
<1>2. Receive(m, {}) /\ Finish(i, r, client, {}) BY DEF step_down
<1>3. r.log = node[i].log /\ r.pending_applies = node[i].pending_applies
  BY <1>1, BecomeFollower, FollowerKeeps
<1> HIDE DEF i, r
<1>4. msgs' \subseteq msgs \cup {} BY <1>2, ReceiveAdds
<1> QED BY <1>1, <1>2, <1>3, <1>4, KeptPlaces

\* append_request without the previous entry.
LEMMA AppendRequestMismatchPlaces ==
    ASSUME NEW place \in [Command -> Nat], Stepping(place),
           NEW m \in msgs, Current(m), append_request_mismatch(m)
    PROVE  PlacesNext(place, place)
<1> DEFINE i == m.to
           r == Following(node[i], m)
           hint == IF m.prev_log_index > Len(r.log) THEN Len(r.log)
                   ELSE m.prev_log_index
           q == AppendResponse(i, m.from, r.current_term, hint, FALSE)
<1>1. BoundsInv /\ i \in Node /\ node[i] \in NodeState BY HandlerContext DEF Stepping
<1>2. Receive(m, {q}) /\ Finish(i, r, client, {}) BY DEF append_request_mismatch
<1>3. r.log = node[i].log /\ r.pending_applies = node[i].pending_applies
  BY <1>1, FollowingEvolves, FollowerKeeps
<1>4. q.type # "AppendRequest" BY DEF AppendResponse
<1> HIDE DEF i, r, hint, q
<1>5. msgs' \subseteq msgs \cup {q} BY <1>2, ReceiveAdds
<1>6. \A x \in msgs' : x \in msgs \/ x.type # "AppendRequest" BY <1>4, <1>5
<1> QED BY <1>1, <1>2, <1>3, <1>6, KeptPlaces

\* restart.
LEMMA RestartPlaces ==
    ASSUME NEW place \in [Command -> Nat], Stepping(place), NEW i \in Node, restart(i)
    PROVE  PlacesNext(place, place)
<1> DEFINE r == restore_state(disk[i])
<1>1. Finish(i, r, Drop(client, node[i].pending_applies), {}) /\ msgs' \subseteq msgs
  BY DEF restart
<1>2. disk[i] = PersistentState(node[i]) BY DEF Stepping, BoundsInv, TypeOK, Persisted
<1>3. r.log = node[i].log /\ r.pending_applies = {}
  BY <1>2 DEF restore_state, PersistentState
<1> HIDE DEF r
<1> QED BY <1>1, <1>3, RestartedPlaces

\* A stop between the two saves of a handler.
LEMMA CrashAfterStepDownPlaces ==
    ASSUME NEW place \in [Command -> Nat], Stepping(place),
           NEW m \in msgs, crash_after_step_down(m)
    PROVE  PlacesNext(place, place)
<1> DEFINE i == m.to
           n == become_follower(node[i], m.term)
           r == restore_state(PersistentState(n))
<1>1. i \in Node /\ node[i] \in NodeState /\ m.term \in Nat
  BY HandlerContext DEF Stepping
<1>2. /\ Receive(m, {})
      /\ Finish(i, r, Drop(client, node[i].pending_applies), {})
  BY DEF crash_after_step_down
<1>3. n.log = node[i].log BY <1>1, BecomeFollower
<1> HIDE DEF n, i
<1>4. r.log = node[i].log /\ r.pending_applies = {}
  BY <1>3 DEF restore_state, PersistentState
<1> HIDE DEF r
<1>5. msgs' \subseteq msgs \cup {} BY <1>2, ReceiveAdds
<1>6. msgs' \subseteq msgs BY <1>5
<1> QED BY <1>1, <1>2, <1>4, <1>6, RestartedPlaces

\* A candidate that wins is ready to commit: its NoOp is no command.
LEMMA NewLeaderReady ==
    ASSUME NEW place \in [Command -> Nat], PlaceInv(place), NEW i \in Node,
           NEW n \in NodeState, n.log = node[i].log,
           n.pending_applies = node[i].pending_applies
    PROVE  Ready(i, become_leader(n), client, place, place)
<1> DEFINE l == become_leader(n)
           e == [term |-> n.current_term, command |-> NoOp]
<1>1. l.pending_applies = n.pending_applies /\ e \in Entry /\ l.log = Append(n.log, e)
  BY NewLeaderKeeps, NewLeaderLog
<1>2. n.log \in Seq(Entry) /\ InPlace(n.log, 0, client, place)
  BY DEF PlaceInv, NodeState
<1>3. e.command = NoOp OBVIOUS
<1> HIDE DEF l, e
<1>4. InPlace(l.log, 0, client, place) BY <1>1, <1>2, <1>3, AppendInPlace
<1>5. Ready(i, l, client, place, place) BY <1>1, <1>4, ReadyNow
<1> QED BY <1>5 DEF l

\* An election begins.
LEMMA BecomeCandidatePlaces ==
    ASSUME NEW place \in [Command -> Nat], Stepping(place),
           NEW i \in Node, become_candidate(i)
    PROVE  PlacesNext(place, place)
<1> DEFINE o == node[i]
           n == start_election(i, o)
           l == become_leader(n)
<1>1. o \in NodeState /\ PlaceInv(place) BY NodeFacts DEF Stepping
<1>2. /\ n \in NodeState /\ n.log = o.log /\ n.applied = o.applied
      /\ n.pending_applies = o.pending_applies
  BY <1>1, StartElection, NewLeaderKeeps
<1>3. \/ /\ Finish(i, Commit(l), Answer(client, CommitReplies(l)), {})
         /\ send_message(msgs, on_heartbeat(i, Commit(l)))
      \/ /\ Finish(i, n, client, {i})
         /\ send_message(msgs, {VoteRequest(i, j, n) : j \in Peers(i)})
  BY DEF become_candidate
<1> HIDE DEF n, o
<1>4. l \in NodeState /\ l.role = "Leader" /\ l.applied = o.applied
  BY <1>2, NewLeaderKeeps
<1>5. Ready(i, l, client, place, place) BY <1>1, <1>2, NewLeaderReady DEF o
<1> HIDE DEF l
<1>6. CASE /\ Finish(i, Commit(l), Answer(client, CommitReplies(l)), {})
           /\ send_message(msgs, on_heartbeat(i, Commit(l)))
  <2>1. msgs' \subseteq msgs \cup on_heartbeat(i, Commit(l)) BY <1>6, SendAdds
  <2> QED BY <1>4, <1>5, <1>6, <2>1, CommitPlaces DEF o
<1>7. CASE /\ Finish(i, n, client, {i})
           /\ send_message(msgs, {VoteRequest(i, j, n) : j \in Peers(i)})
  <2>1. msgs' \subseteq msgs \cup {VoteRequest(i, j, n) : j \in Peers(i)}
    BY <1>7, SendAdds
  <2>2. \A m \in msgs' : m \in msgs \/ m.type # "AppendRequest"
    BY <2>1 DEF VoteRequest
  <2> QED BY <1>2, <1>7, <2>2, KeptPlaces DEF o
<1> QED BY <1>3, <1>6, <1>7

\* A vote is counted.
LEMMA CountVotePlaces ==
    ASSUME NEW place \in [Command -> Nat], Stepping(place), NEW m \in msgs, count_vote(m)
    PROVE  PlacesNext(place, place)
<1> DEFINE i == m.to
           o == node[i]
           n == [o EXCEPT !.votes_received = o.votes_received + 1]
           l == become_leader(n)
           voters == counted[i] \cup {m.from}
<1>1. /\ i \in Node /\ o \in NodeState /\ o.votes_received + 1 \in Nat /\ PlaceInv(place)
  <2>1. BoundsInv /\ PlaceInv(place) BY DEF Stepping
  <2>2. i \in Node /\ o \in NodeState BY <2>1, HandlerContext
  <2>3. o.votes_received \in Nat BY <2>2 DEF NodeState
  <2> QED BY <2>1, <2>2, <2>3
<1>2. \/ /\ Finish(i, Commit(l), Answer(client, CommitReplies(l)), {})
         /\ Receive(m, on_heartbeat(i, Commit(l)))
      \/ Finish(i, n, client, voters) /\ Receive(m, {})
  BY DEF count_vote
<1> HIDE DEF i, o, voters
<1>3. /\ n \in NodeState /\ n.log = o.log /\ n.applied = o.applied
      /\ n.pending_applies = o.pending_applies
  BY <1>1 DEF NodeState
<1> HIDE DEF n
<1>4. l \in NodeState /\ l.role = "Leader" /\ l.applied = o.applied
  BY <1>1, <1>3, NewLeaderKeeps
<1>5. Ready(i, l, client, place, place) BY <1>1, <1>3, NewLeaderReady DEF o
<1> HIDE DEF l
<1>6. CASE /\ Finish(i, Commit(l), Answer(client, CommitReplies(l)), {})
           /\ Receive(m, on_heartbeat(i, Commit(l)))
  <2>1. msgs' \subseteq msgs \cup on_heartbeat(i, Commit(l)) BY <1>6, ReceiveAdds
  <2> QED BY <1>1, <1>4, <1>5, <1>6, <2>1, CommitPlaces DEF o
<1>7. CASE Finish(i, n, client, voters) /\ Receive(m, {})
  <2>1. msgs' \subseteq msgs \cup {} BY <1>7, ReceiveAdds
  <2> QED BY <1>1, <1>3, <1>7, <2>1, KeptPlaces DEF o
<1> QED BY <1>2, <1>6, <1>7

\* append_response.
LEMMA AppendResponsePlaces ==
    ASSUME NEW place \in [Command -> Nat], Stepping(place),
           NEW m \in msgs, m.type = "AppendResponse", append_response_handled(m)
    PROVE  PlacesNext(place, place)
<1> DEFINE i == m.to
           o == node[i]
           k == backoff(m.match_index)
           won == [o EXCEPT !.match_index[m.from] = m.match_index,
                            !.next_index[m.from] = m.match_index + 1]
           lost == [o EXCEPT !.next_index[m.from] = k]
           n == IF m.success THEN won ELSE lost
<1>1. /\ i \in Node /\ m.from \in Node /\ o \in NodeState /\ PlaceInv(place)
  BY HandlerContext DEF Stepping
<1>2. m.match_index \in Nat /\ k \in Nat /\ m.match_index + 1 \in Nat
  <2>1. m.match_index \in Nat /\ m.success \in BOOLEAN
    BY DEF Stepping, BoundsInv, TypeOK, Message
  <2> QED BY <2>1, BackoffType
<1>3. /\ o.role = "Leader" /\ Receive(m, {})
      /\ Finish(i, Commit(n), Answer(client, CommitReplies(n)), {})
  BY DEF append_response_handled
<1> HIDE DEF i, o, k
<1>4. /\ won \in NodeState /\ won.log = o.log /\ won.role = o.role
      /\ won.pending_applies = o.pending_applies /\ won.applied = o.applied
  BY <1>1, <1>2 DEF NodeState
<1>5. /\ lost \in NodeState /\ lost.log = o.log /\ lost.role = o.role
      /\ lost.pending_applies = o.pending_applies /\ lost.applied = o.applied
  BY <1>1, <1>2 DEF NodeState
<1> HIDE DEF won, lost
<1>6. /\ n \in NodeState /\ n.log = o.log /\ n.role = "Leader"
      /\ n.pending_applies = o.pending_applies /\ n.applied = o.applied
  BY <1>3, <1>4, <1>5
<1> HIDE DEF n
<1>7. InPlace(n.log, 0, client, place) BY <1>1, <1>6 DEF PlaceInv, o
<1>8. Ready(i, n, client, place, place) BY <1>1, <1>6, <1>7, ReadyNow DEF o
<1>9. msgs' \subseteq msgs \cup on_heartbeat(i, Commit(n))
  <2>1. msgs' \subseteq msgs \cup {} BY <1>3, ReceiveAdds
  <2> QED BY <2>1
<1> QED BY <1>1, <1>3, <1>6, <1>8, <1>9, CommitPlaces DEF o

\* The leader takes a command that no log holds yet, at the end of its log; a request
\* that waited at that index is dropped.
LEMMA ClientCommandAcceptPlaces ==
    ASSUME NEW place \in [Command -> Nat], Stepping(place),
           NEW i \in Node, NEW c \in Command,
           client[c].status \in {"idle", "rejected"}, client_command_accept(i, c)
    PROVE  \E more \in [Command -> Nat] : PlacesNext(place, more)
<1> DEFINE o == node[i]
           index == apply_index(o.log)
           stale == {p \in o.pending_applies : p.index = index}
           e == [term |-> o.current_term, command |-> c]
           log == Append(o.log, e)
           new == [index |-> index, request |-> c]
           pending == (o.pending_applies \ stale) \cup {new}
           n == [o EXCEPT !.log = log, !.pending_applies = pending]
           dropped == Drop(client, stale)
           waiting == [dropped EXCEPT ![c] = Status("waiting")]
           more == [place EXCEPT ![c] = index]
<1>1. /\ o \in NodeState /\ o.current_term \in Nat /\ o.log \in Seq(Entry)
      /\ Len(o.log) \in Nat /\ o.pending_applies \in SUBSET Pending
      /\ PlaceInv(place)
  BY NodeFacts DEF NodeState, Stepping
<1>2. /\ o.role = "Leader"
      /\ Finish(i, Commit(n), Answer(waiting, CommitReplies(n)), {})
      /\ send_message(msgs, on_heartbeat(i, Commit(n)))
  <2>1. n = [node[i] EXCEPT
               !.log = Append(@, [term |-> node[i].current_term, command |-> c]),
               !.pending_applies = (@ \ stale) \cup {[index |-> index, request |-> c]}]
    BY <1>1 DEF NodeState
  <2> QED BY <2>1 DEF client_command_accept
<1>3. e \in Entry /\ e.command = c BY <1>1 DEF Entry
<1>4. index = Len(o.log) + 1 /\ index \in Nat BY <1>1 DEF apply_index
<1>5. \A p \in o.pending_applies : Waits(p, client, place) /\ OnlyRequest(i, p)
  BY <1>1 DEF PlaceInv, PendingInPlace, Waits, OnlyRequest
<1>6. /\ waiting[c].status = "waiting"
      /\ \A d \in Command \ {c} :
            \/ waiting[d] = client[d] /\ \A p \in stale : p.request # d
            \/ /\ waiting[d].status = "dropped" /\ client[d].status = "waiting"
               /\ \E p \in stale : p.request = d
  <2>1. DOMAIN dropped = Command BY DEF Drop
  <2>2. waiting[c].status = "waiting" BY <2>1 DEF Status
  <2>3. ASSUME NEW d \in Command \ {c}
        PROVE  \/ waiting[d] = client[d] /\ \A p \in stale : p.request # d
               \/ /\ waiting[d].status = "dropped" /\ client[d].status = "waiting"
                  /\ \E p \in stale : p.request = d
    <3>1. waiting[d] = dropped[d] BY <2>1
    <3>2. CASE \E p \in stale : p.request = d
      <4>1. dropped[d] = Status("dropped") BY <3>2 DEF Drop
      <4>2. client[d].status = "waiting" BY <1>5, <3>2 DEF Waits
      <4> QED BY <3>1, <3>2, <4>1, <4>2 DEF Status
    <3>3. CASE ~\E p \in stale : p.request = d
      <4>1. dropped[d] = client[d] BY <3>3 DEF Drop
      <4> QED BY <3>1, <3>3, <4>1
    <3> QED BY <3>2, <3>3
  <2> QED BY <2>2, <2>3
<1>7. /\ more \in [Command -> Nat] /\ more[c] = index
      /\ \A d \in Command \ {c} : more[d] = place[d]
  <2> HIDE DEF index
  <2> QED BY <1>4
<1> HIDE DEF waiting, dropped, more, index, e
<1>8. KeepsPlaces(client, waiting, place, more)
  <2> SUFFICES ASSUME NEW d \in Command, Taken(client, d)
               PROVE  Taken(waiting, d) /\ more[d] = place[d]
    BY DEF KeepsPlaces
  <2>1. d \in Command \ {c} BY DEF Taken
  <2>2. more[d] = place[d] BY <1>7, <2>1
  <2>3. CASE waiting[d] = client[d] BY <2>2, <2>3 DEF Taken
  <2>4. CASE waiting[d].status = "dropped" BY <2>2, <2>4 DEF Taken
  <2> QED BY <1>6, <2>1, <2>3, <2>4
<1>9. /\ log \in Seq(Entry) /\ InPlace(log, 0, waiting, more)
  <2>1. InPlace(o.log, 0, client, place) BY <1>1 DEF PlaceInv
  <2> HIDE DEF o
  <2>2. InPlace(o.log, 0, waiting, more) BY <1>1, <1>8, <2>1, PlacesStay
  <2>3. Taken(waiting, c) BY <1>6 DEF Taken
  <2>4. log \in Seq(Entry) BY <1>1, <1>3, AppendProperties
  <2> QED BY <1>1, <1>3, <1>4, <1>7, <2>2, <2>3, <2>4, AppendInPlace
<1>10. new \in Pending /\ new.request = c /\ new.index = index BY <1>4 DEF Pending
<1>11. pending \in SUBSET Pending BY <1>1, <1>10
<1>12. /\ n \in NodeState /\ n.log = log /\ n.role = o.role
       /\ n.applied = o.applied /\ n.pending_applies = pending
  <2> HIDE DEF o, log, pending
  <2> QED BY <1>1, <1>9, <1>11 DEF NodeState
<1> HIDE DEF n, new
<1>13. \A j \in Node : \A q \in node[j].pending_applies :
          q.request \in Command /\ client[q.request].status = "waiting" /\ q.request # c
  <2> SUFFICES ASSUME NEW j \in Node, NEW q \in node[j].pending_applies
               PROVE  /\ q.request \in Command /\ q.request # c
                      /\ client[q.request].status = "waiting"
    OBVIOUS
  <2>1. client[q.request].status = "waiting" BY <1>1 DEF PlaceInv, PendingInPlace
  <2>2. q.request \in Command BY PendingFacts DEF Stepping
  <2> QED BY <2>1, <2>2
<1>14. \A p \in pending : Waits(p, waiting, more) /\ OnlyRequest(i, p)
  <2>1. Waits(new, waiting, more) /\ OnlyRequest(i, new)
    BY <1>6, <1>7, <1>10, <1>13 DEF Waits, OnlyRequest
  <2>2. ASSUME NEW p \in o.pending_applies, p \notin stale
        PROVE  Waits(p, waiting, more) /\ OnlyRequest(i, p)
    <3>1. p.request \in Command \ {c} BY <1>13
    <3>2. p.index = place[p.request] /\ more[p.request] = place[p.request]
      BY <1>5, <1>7, <3>1 DEF Waits
    <3>3. \A q \in stale : q.request # p.request
      <4> SUFFICES ASSUME NEW q \in stale, q.request = p.request PROVE FALSE OBVIOUS
      <4>1. q.index = place[q.request] BY <1>5 DEF Waits
      <4>2. p.index = index BY <3>2, <4>1
      <4> QED BY <2>2, <4>2
    <3>4. waiting[p.request] = client[p.request] BY <1>6, <3>1, <3>3
    <3> QED BY <1>5, <2>2, <3>2, <3>4 DEF Waits
  <2> QED BY <2>1, <2>2
<1>15. \A j \in Node \ {i} : \A q \in node[j].pending_applies :
          waiting[q.request] = client[q.request]
  <2> SUFFICES ASSUME NEW j \in Node \ {i}, NEW q \in node[j].pending_applies
               PROVE  waiting[q.request] = client[q.request]
    OBVIOUS
  <2>1. q.request \in Command \ {c} BY <1>13
  <2>2. \A p \in stale : p.request # q.request BY <1>5 DEF OnlyRequest
  <2> QED BY <1>6, <2>1, <2>2
<1>16. \A d \in Command :
          client[d].status = "ok" \/ waiting[d].status = "ok" => waiting[d] = client[d]
  <2> SUFFICES ASSUME NEW d \in Command, client[d].status = "ok" \/ waiting[d].status = "ok"
               PROVE  waiting[d] = client[d]
    OBVIOUS
  <2>1. d # c BY <1>6
  <2> QED BY <1>6, <2>1
<1>17. Ready(i, n, waiting, place, more)
  BY <1>8, <1>9, <1>12, <1>14, <1>15, <1>16 DEF Ready
<1>18. msgs' \subseteq msgs \cup on_heartbeat(i, Commit(n)) BY <1>2, SendAdds
<1>19. PlacesNext(place, more)
  <2>1. n.role = "Leader" /\ n.applied = node[i].applied BY <1>2, <1>12
  <2> QED BY <1>2, <1>7, <1>12, <1>17, <1>18, <2>1, CommitPlaces
<1> QED BY <1>7, <1>19

\* append_request with the previous entry: entries of the request come into the log
\* where they are in the leader's.
LEMMA AppendRequestAcceptPlaces ==
    ASSUME NEW place \in [Command -> Nat], Stepping(place),
           NEW m \in msgs, m.type = "AppendRequest", Current(m),
           append_request_accept(m)
    PROVE  PlacesNext(place, place)
<1> DEFINE i == m.to
           o == node[i]
           f == Following(o, m)
           log == AppendEntries(f.log, m.prev_log_index, m.entries)
           commit == IF m.leader_commit > f.commit_index
                     THEN Min({m.leader_commit, Len(log)}) ELSE f.commit_index
           n == [f EXCEPT !.log = log, !.commit_index = commit]
           q == AppendResponse(i, m.from, n.current_term, last_match_index(m, log), TRUE)
<1>1. /\ BoundsInv /\ PlaceInv(place) /\ i \in Node /\ o \in NodeState
      /\ m.entries \in Seq(Entry) /\ m.leader_commit \in Nat /\ m.prev_log_index \in Nat
  <2>1. BoundsInv /\ PlaceInv(place) BY DEF Stepping
  <2> QED BY <2>1, HandlerContext, AppendRequestContext
<1>2. /\ HoldsPrevious(f.log, m) /\ Receive(m, {q})
      /\ Finish(i, apply_committed(n), Answer(client, replies(n)), {})
  BY DEF append_request_accept
<1>3. /\ f \in NodeState /\ f.log = o.log /\ f.applied = o.applied
      /\ f.pending_applies = o.pending_applies
  BY <1>1, FollowingEvolves, FollowerKeeps
<1>4. q.type # "AppendRequest" BY DEF AppendResponse
<1> HIDE DEF f, q
<1>5. log \in Seq(Entry) /\ InPlace(log, 0, client, place)
  <2> DEFINE l == f.log
  <2>1. l \in Seq(Entry) /\ m.prev_log_index \in 0..Len(l)
    <3>1. l \in Seq(Entry) /\ Len(l) \in Nat BY <1>3, LenProperties DEF NodeState
    <3> QED BY <1>1, <1>2, <3>1 DEF HoldsPrevious
  <2>2. InPlace(l, 0, client, place) BY <1>1, <1>3 DEF PlaceInv
  <2>3. InPlace(m.entries, m.prev_log_index, client, place) BY <1>1 DEF PlaceInv
  <2> HIDE DEF l
  <2>4. /\ AppendEntries(l, m.prev_log_index, m.entries) \in Seq(Entry)
        /\ InPlace(AppendEntries(l, m.prev_log_index, m.entries), 0, client, place)
    BY <1>1, <2>1, <2>2, <2>3, AppendEntriesType, MergeInPlace
  <2> QED BY <2>4 DEF l
<1>6. commit \in Nat
  <2> DEFINE a == m.leader_commit
             b == Len(log)
  <2>1. a \in Nat /\ b \in Nat /\ f.commit_index \in Nat
    BY <1>1, <1>3, <1>5, LenProperties DEF NodeState
  <2>2. commit = IF a > f.commit_index THEN Min({a, b}) ELSE f.commit_index OBVIOUS
  <2> HIDE DEF a, b
  <2>3. Min({a, b}) \in {a, b} BY <2>1, MinOfTwo
  <2> QED BY <2>1, <2>2, <2>3
<1> HIDE DEF log, commit
<1>7. /\ n \in NodeState /\ n.log = log /\ n.applied = f.applied
      /\ n.pending_applies = f.pending_applies
  BY <1>3, <1>5, <1>6 DEF NodeState
<1>8. \A x \in msgs' : x \in msgs \/ SentInPlace(x, client, place)
  <2>1. msgs' \subseteq msgs \cup {q} BY <1>2, ReceiveAdds
  <2> QED BY <1>4, <2>1 DEF SentInPlace
<1> HIDE DEF n, i
<1>9. Ready(i, n, client, place, place) BY <1>1, <1>3, <1>5, <1>7, ReadyNow
<1>10. n.applied = node[i].applied BY <1>3, <1>7
<1> QED BY <1>1, <1>2, <1>7, <1>8, <1>9, <1>10, AnswerPlaces DEF Ready

-----------------------------------------------------------------------------
(* The invariant is inductive. *)

\* New nodes hold no command, and no client has been told anything.
LEMMA PlaceInit == Init => CommandsInPlace
<1> SUFFICES ASSUME Init PROVE CommandsInPlace OBVIOUS
<1> DEFINE place == [c \in Command |-> 0]
<1>1. /\ msgs = {} /\ decided = <<>> /\ Len(<<>>) = 0
      /\ \A c \in Command : client[c].status = "idle"
      /\ \A i \in Node : node[i].pending_applies = {} /\ node[i].log = <<>>
  BY EmptySeq DEF Init, restore_state, Fresh, Status
<1>2. place \in [Command -> Nat] OBVIOUS
<1> HIDE DEF place
<1>3. InPlace(<<>>, 0, client, place) BY <1>1 DEF InPlace
<1>4. PlaceInv(place) BY <1>1, <1>3 DEF PlaceInv, PendingInPlace, AnswersInPlace
<1> QED BY <1>2, <1>4 DEF CommandsInPlace

\* Every step keeps commands at their places and gives a place to a new one: one
\* case per action.
LEMMA PlaceNext ==
    ASSUME NEW place \in [Command -> Nat], Stepping(place), [Next]_vars
    PROVE  \E more \in [Command -> Nat] : PlacesNext(place, more)
<1>1. CASE UNCHANGED vars
  <2>1. UNCHANGED <<node, decided>> /\ UNCHANGED <<client, msgs>> BY <1>1 DEF vars
  <2>2. PlacesNext(place, place) BY <2>1, IdlePlaces
  <2> QED BY <2>2
<1>2. ASSUME NEW i \in Node, become_candidate(i) PROVE PlacesNext(place, place)
  BY <1>2, BecomeCandidatePlaces
<1>3. ASSUME NEW i \in Node, heartbeat(i) PROVE PlacesNext(place, place)
  BY <1>3, HeartbeatPlaces
<1>4. ASSUME NEW i \in Node, restart(i) PROVE PlacesNext(place, place)
  BY <1>4, RestartPlaces
<1>5. ASSUME NEW m \in msgs, vote_request(m) PROVE PlacesNext(place, place)
  BY <1>5, RefusalPlaces, VoteRequestPlaces DEF vote_request
<1>6. ASSUME NEW m \in msgs, vote_response(m) PROVE PlacesNext(place, place)
  BY <1>6, RefusalPlaces, StepDownPlaces, CountVotePlaces DEF vote_response
<1>7. ASSUME NEW m \in msgs, append_request(m) PROVE PlacesNext(place, place)
  BY <1>7, RefusalPlaces, AppendRequestMismatchPlaces, AppendRequestAcceptPlaces
     DEF append_request, Current
<1>8. ASSUME NEW m \in msgs, append_response(m) PROVE PlacesNext(place, place)
  BY <1>8, RefusalPlaces, StepDownPlaces, AppendResponsePlaces DEF append_response
<1>9. ASSUME NEW m \in msgs, crash_after_step_down(m) PROVE PlacesNext(place, place)
  BY <1>9, CrashAfterStepDownPlaces
<1>10. ASSUME NEW i \in Node, NEW c \in Command, client_command(i, c)
       PROVE  \E more \in [Command -> Nat] : PlacesNext(place, more)
  <2>1. client[c].status \in {"idle", "rejected"} BY <1>10 DEF client_command
  <2>2. CASE client_command_accept(i, c) BY <2>1, <2>2, ClientCommandAcceptPlaces
  <2>3. CASE client_command_refuse(i, c)
    <3>1. PlacesNext(place, place) BY <2>1, <2>3, ClientCommandRefusePlaces
    <3> QED BY <3>1
  <2> QED BY <1>10, <2>2, <2>3 DEF client_command
<1>11. PlacesNext(place, place) => \E more \in [Command -> Nat] : PlacesNext(place, more)
  OBVIOUS
<1> QED BY <1>1, <1>2, <1>3, <1>4, <1>5, <1>6, <1>7, <1>8, <1>9, <1>10, <1>11
        DEF Next, handle_message

\* A state machine was given exactly the committed entries of its node's log.
LEMMA AllApplied ==
    ASSUME BoundsInv, LogSafe
    PROVE  Applies
<1> SUFFICES ASSUME NEW i \in Node
             PROVE  /\ node[i].commit_index \in 0..Len(node[i].log)
                    /\ node[i].applied = SubSeq(node[i].log, 1, node[i].commit_index)
  BY DEF Applies
<1>1. PICK led \in Led, acks \in SUBSET Acks : LogInv(led, acks) /\ CommitInv(led, acks)
  BY DEF LogSafe
<1>2. /\ node[i].log \in Seq(Entry) /\ node[i].commit_index \in Nat
      /\ Len(node[i].log) \in Nat
  BY NodeFacts
<1>3. /\ Committed(node[i].log, node[i].commit_index, acks)
      /\ node[i].applied = SubSeq(node[i].log, 1, node[i].commit_index)
  BY <1>1 DEF CommitInv, CommitsAreChosen
<1>4. node[i].commit_index <= Len(node[i].log) BY <1>2, <1>3, CommittedBound
<1> QED BY <1>2, <1>3, <1>4

\* Who was told Ok keeps the answer, and a new Ok names an entry given to a state
\* machine in the same step.
LEMMA CommandsNext ==
    ASSUME BoundsInv, BoundsInv', Applies', Learned', Progresses, CommandsInPlace,
           [Next]_vars
    PROVE  CommandsInPlace' /\ AnswersGrow
<1>1. PICK place \in [Command -> Nat] : PlaceInv(place) BY DEF CommandsInPlace
<1>2. Stepping(place) BY <1>1 DEF Stepping, Progresses
<1>3. PICK more \in [Command -> Nat] : PlacesNext(place, more) BY <1>2, PlaceNext
<1> QED BY <1>3 DEF PlacesNext, CommandsInPlace

\* In a cluster of any size every command has one index in all logs, all requests and
\* all that was decided, and an Ok speaks of what was decided there.
THEOREM CommandsInPlaceAlways ==
    ASSUME StorageFaults = FALSE
    PROVE  Spec => []CommandsInPlace /\ [][AnswersGrow]_vars
<1>1. Init => CommandsInPlace BY PlaceInit
<1>2. /\ BoundsInv /\ BoundsInv' /\ Applies' /\ Learned' /\ Progresses
      /\ CommandsInPlace /\ [Next]_vars
      => CommandsInPlace' /\ AnswersGrow
  BY CommandsNext
<1>3. CommandsInPlace /\ UNCHANGED vars => CommandsInPlace' /\ AnswersGrow
  BY DEF vars, CommandsInPlace, PlaceInv, PendingInPlace, AnswersInPlace, AnswersGrow
<1>4. BoundsInv /\ LogSafe => Applies /\ Learned BY AllApplied, AllLearned
<1>5. Spec => [](BoundsInv /\ LogSafe) /\ [][Progresses]_vars BY LogSafeAlways, PTL
<1> QED BY <1>1, <1>2, <1>3, <1>4, <1>5, PTL DEF Spec

-----------------------------------------------------------------------------
(* A cluster of one node. *)

\* No message is in flight, and what is pending names the command of its entry.
AloneInv ==
    /\ msgs = {}
    /\ \A i \in Node : \A p \in node[i].pending_applies :
          p.index \in 1..Len(node[i].log) /\ node[i].log[p.index].command = p.request
    /\ ReplyIsOwnOutput

\* The requests that are pending at n name the commands of their entries.
Named(n) ==
    \A p \in n.pending_applies :
        p.index \in 1..Len(n.log) /\ n.log[p.index].command = p.request

\* An entry more changes none of those before it.
LEMMA AppendNames ==
    ASSUME NEW n, n.log \in Seq(Entry), Named(n), NEW e \in Entry,
           NEW r, r.log = Append(n.log, e), r.pending_applies \subseteq n.pending_applies
    PROVE  Named(r)
<1>1. PICK log \in Seq(Entry) : log = n.log OBVIOUS
<1>2. Len(log) \in Nat BY LenProperties
<1>3. /\ Len(Append(log, e)) = Len(log) + 1
      /\ \A x \in 1..Len(log) : Append(log, e)[x] = log[x]
  BY AppendProperties
<1> QED BY <1>1, <1>2, <1>3 DEF Named

\* Who is answered is given the output of its own command.
LEMMA AnswersName ==
    ASSUME NEW n \in NodeState, Named(n), NEW cl,
           \A c \in Command : cl[c].status = "ok" => cl[c].output = c
    PROVE  /\ Named(Commit(n))
           /\ LET after == Answer(cl, CommitReplies(n))
              IN  \A c \in Command : after[c].status = "ok" => after[c].output = c
<1> DEFINE a == advance_commit(n)
<1>1. a \in NodeState /\ a.log = n.log /\ a.pending_applies = n.pending_applies
  BY AdvanceCommit, AdvanceWaits DEF SameCore
<1>2. Commit(n) = apply_committed(a) BY DEF Commit
<1>3. CommitReplies(n) = replies(a) BY DEF CommitReplies
<1> HIDE DEF a
<1>4. Named(a) BY <1>1 DEF Named
<1>5. /\ apply_committed(a).log = a.log
      /\ apply_committed(a).pending_applies \subseteq a.pending_applies
  BY <1>1 DEF apply_committed, NodeState
<1>6. \A r \in replies(a) : r.output = r.request
  <2> TAKE r \in replies(a)
  <2>1. PICK p \in Answered(a) :
           r = [request |-> p.request, output |-> a.log[p.index].command]
    BY DEF replies
  <2>2. p \in a.pending_applies BY DEF Answered
  <2> QED BY <1>4, <2>1, <2>2 DEF Named
<1>7. \A c \in Command : Answer(cl, replies(a))[c].status = "ok"
                           => Answer(cl, replies(a))[c].output = c
  <2> SUFFICES ASSUME NEW c \in Command, \E r \in replies(a) : r.request = c
               PROVE  Answer(cl, replies(a))[c].output = c
    BY DEF Answer
  <2>1. Answer(cl, replies(a))[c].output = (CHOOSE r \in replies(a) : r.request = c).output
    BY DEF Answer
  <2> QED BY <1>6, <2>1
<1> QED BY <1>2, <1>3, <1>4, <1>5, <1>7 DEF Named

\* An invariant step.
LEMMA AloneNext ==
    ASSUME ClusterSize = 1, BoundsInv, AloneInv, [Next]_vars
    PROVE  AloneInv'
<1>1. \A i \in Node : Peers(i) = {} /\ Node = {i}
  <2>1. PICK x : Node = {x} BY FS_Singleton, NodeAssumption DEF ClusterSize
  <2> QED BY <2>1 DEF Peers
<1>2. msgs = {} /\ ReplyIsOwnOutput /\ \A i \in Node : Named(node[i])
  BY DEF AloneInv, Named
<1>3. \A c \in Command : client[c].status = "ok" => client[c].output = c
  BY <1>2 DEF ReplyIsOwnOutput
<1>4. ASSUME NEW i \in Node, NEW n, node' = [node EXCEPT ![i] = n], Named(n),
             NEW cl, client' = cl, \A c \in Command : cl[c].status = "ok" => cl[c].output = c,
             msgs' = {}
      PROVE  AloneInv'
  <2>1. node'[i] = n BY <1>4, StateContext
  <2>2. \A j \in Node : j = i BY <1>1
  <2> QED BY <1>4, <2>1, <2>2 DEF AloneInv, Named, ReplyIsOwnOutput
<1>5. ASSUME NEW i \in Node, NEW n, send_message(msgs, on_heartbeat(i, n)) PROVE msgs' = {}
  <2>1. on_heartbeat(i, n) = {} BY <1>1 DEF on_heartbeat
  <2>2. msgs' \subseteq msgs \cup on_heartbeat(i, n) BY <1>5, SendAdds
  <2> QED BY <1>2, <2>1, <2>2
<1>6. CASE UNCHANGED vars BY <1>6 DEF vars, AloneInv, ReplyIsOwnOutput
<1>7. ASSUME NEW i \in Node, become_candidate(i) PROVE AloneInv'
  <2> DEFINE n == start_election(i, node[i])
             l == become_leader(n)
  <2>1. node[i] \in NodeState BY NodeFacts
  <2>2. /\ n \in NodeState /\ n.pending_applies = node[i].pending_applies
        /\ n.log = node[i].log /\ n.log \in Seq(Entry) /\ n.current_term \in Nat
    <3>1. n \in NodeState /\ n.log = node[i].log BY <2>1, StartElection
    <3>2. n.pending_applies = node[i].pending_applies BY <2>1, NewLeaderKeeps
    <3> HIDE DEF n
    <3> QED BY <3>1, <3>2 DEF NodeState
  <2>3. Named(n) BY <1>2, <2>2 DEF Named
  <2>4. \/ /\ Finish(i, Commit(l), Answer(client, CommitReplies(l)), {})
           /\ send_message(msgs, on_heartbeat(i, Commit(l)))
        \/ /\ Finish(i, n, client, {i})
           /\ send_message(msgs, {VoteRequest(i, j, n) : j \in Peers(i)})
    BY <1>7 DEF become_candidate
  <2> HIDE DEF n
  <2>5. CASE /\ Finish(i, Commit(l), Answer(client, CommitReplies(l)), {})
             /\ send_message(msgs, on_heartbeat(i, Commit(l)))
    <3> DEFINE e == [term |-> n.current_term, command |-> NoOp]
    <3>1. e \in Entry BY <2>2 DEF Entry
    <3>2. l.log = Append(n.log, e) BY <2>2 DEF become_leader, NodeState
    <3>3. l \in NodeState /\ l.pending_applies = n.pending_applies
      BY <2>2, NewLeaderKeeps
    <3> HIDE DEF l, e
    <3>4. Named(l) BY <2>2, <2>3, <3>1, <3>2, <3>3, AppendNames
    <3>5. /\ Named(Commit(l))
          /\ \A c \in Command : Answer(client, CommitReplies(l))[c].status = "ok"
                => Answer(client, CommitReplies(l))[c].output = c
      BY <1>3, <3>3, <3>4, AnswersName
    <3>6. msgs' = {} BY <1>5, <2>5
    <3>7. node' = [node EXCEPT ![i] = Commit(l)] /\ client' = Answer(client, CommitReplies(l))
      BY <2>5 DEF Finish
    <3> QED BY <1>4, <3>5, <3>6, <3>7
  <2>6. CASE /\ Finish(i, n, client, {i})
             /\ send_message(msgs, {VoteRequest(i, j, n) : j \in Peers(i)})
    <3>1. {VoteRequest(i, j, n) : j \in Peers(i)} = {} BY <1>1
    <3>2. msgs' \subseteq msgs \cup {VoteRequest(i, j, n) : j \in Peers(i)}
      BY <2>6, SendAdds
    <3>3. msgs' = {} BY <1>2, <3>1, <3>2
    <3>4. node' = [node EXCEPT ![i] = n] /\ client' = client BY <2>6 DEF Finish
    <3> QED BY <1>3, <1>4, <2>3, <3>3, <3>4
  <2> QED BY <2>4, <2>5, <2>6
<1>8. ASSUME NEW i \in Node, heartbeat(i) PROVE AloneInv'
  <2>1. send_message(msgs, on_heartbeat(i, node[i])) BY <1>8 DEF heartbeat
  <2>2. UNCHANGED <<node, client>> BY <1>8 DEF heartbeat
  <2>3. msgs' = {} BY <1>5, <2>1
  <2> QED BY <1>2, <2>2, <2>3 DEF AloneInv, ReplyIsOwnOutput
<1>9. ASSUME NEW i \in Node, restart(i) PROVE AloneInv'
  <2> DEFINE n == restore_state(disk[i])
             cl == Drop(client, node[i].pending_applies)
  <2>1. Named(n) BY DEF restore_state, Named
  <2>2. \A c \in Command : cl[c].status = "ok" => cl[c].output = c
    BY <1>3 DEF Drop, Status
  <2>3. node' = [node EXCEPT ![i] = n] /\ client' = cl /\ msgs' = {}
    BY <1>2, <1>9 DEF restart, Finish
  <2> HIDE DEF n, cl
  <2> QED BY <1>4, <2>1, <2>2, <2>3
<1>10. ASSUME NEW i \in Node, NEW c \in Command, client_command_refuse(i, c)
       PROVE  AloneInv'
  <2>1. /\ client' = [client EXCEPT ![c] = Status("rejected")]
        /\ UNCHANGED <<node, msgs>>
    BY <1>10 DEF client_command_refuse
  <2>2. \A d \in Command : client'[d].status = "ok" => client'[d].output = d
    BY <1>3, <2>1, StateContext DEF Status
  <2> QED BY <2>1, <2>2 DEF AloneInv, ReplyIsOwnOutput
<1>11. ASSUME NEW i \in Node, NEW c \in Command, client_command_accept(i, c)
       PROVE  AloneInv'
  <2> DEFINE o == node[i]
             index == apply_index(o.log)
             stale == {p \in o.pending_applies : p.index = index}
             e == [term |-> o.current_term, command |-> c]
             log == Append(o.log, e)
             pending == (o.pending_applies \ stale) \cup
                        {[index |-> index, request |-> c]}
             n == [o EXCEPT !.log = log, !.pending_applies = pending]
             waiting == [Drop(client, stale) EXCEPT ![c] = Status("waiting")]
  <2>1. /\ o \in NodeState /\ o.log \in Seq(Entry) /\ Len(o.log) \in Nat
        /\ e \in Entry
    BY NodeFacts DEF Entry
  <2>2. /\ Finish(i, Commit(n), Answer(waiting, CommitReplies(n)), {})
        /\ send_message(msgs, on_heartbeat(i, Commit(n)))
    <3>1. n = [node[i] EXCEPT
                 !.log = Append(@, [term |-> node[i].current_term, command |-> c]),
                 !.pending_applies = (@ \ stale) \cup {[index |-> index, request |-> c]}]
      BY <2>1 DEF NodeState
    <3> QED BY <1>11, <3>1 DEF client_command_accept
  <2>3. /\ log \in Seq(Entry) /\ Len(log) = Len(o.log) + 1 /\ log[Len(o.log) + 1] = e
        /\ \A x \in 1..Len(o.log) : log[x] = o.log[x]
    <3> HIDE DEF o, e
    <3> QED BY <2>1, AppendProperties
  <2>4. index \in Nat /\ index = Len(o.log) + 1 /\ index \in 1..Len(log)
    BY <2>1, <2>3 DEF apply_index
  <2>5. \A d \in Command : waiting[d].status = "ok" => waiting[d].output = d
    BY <1>3 DEF Drop, Status
  <2>6. pending \in SUBSET Pending BY <2>1, <2>4 DEF NodeState, Pending
  <2>7. \A p \in pending : p.index \in 1..Len(log) /\ log[p.index].command = p.request
    <3> SUFFICES ASSUME NEW p \in pending
                 PROVE  p.index \in 1..Len(log) /\ log[p.index].command = p.request
      OBVIOUS
    <3>1. CASE p \in o.pending_applies
      <4>1. p.index \in 1..Len(o.log) /\ o.log[p.index].command = p.request
        BY <1>2, <3>1 DEF Named
      <4> HIDE DEF log, o
      <4> QED BY <2>1, <2>3, <4>1
    <3>2. CASE p = [index |-> index, request |-> c]
      BY <2>3, <2>4, <3>2
    <3> QED BY <3>1, <3>2
  <2> HIDE DEF o, log, pending, waiting
  <2>8. n \in NodeState /\ n.log = log /\ n.pending_applies = pending
    BY <2>1, <2>3, <2>6 DEF NodeState
  <2> HIDE DEF n
  <2>9. Named(n) BY <2>7, <2>8 DEF Named
  <2>10. /\ Named(Commit(n))
         /\ \A d \in Command : Answer(waiting, CommitReplies(n))[d].status = "ok"
               => Answer(waiting, CommitReplies(n))[d].output = d
    BY <2>5, <2>8, <2>9, AnswersName
  <2>11. msgs' = {} BY <1>5, <2>2
  <2>12. node' = [node EXCEPT ![i] = Commit(n)] /\ client' = Answer(waiting, CommitReplies(n))
    BY <2>2 DEF Finish
  <2> QED BY <1>4, <2>10, <2>11, <2>12
<1> QED BY <1>2, <1>6, <1>7, <1>8, <1>9, <1>10, <1>11 DEF Next, client_command

\* A client of a cluster of one node that is told Ok is given the output of its own
\* command, whatever restarts: its entry is never overwritten.
THEOREM AloneRepliesAreOwn ==
    ASSUME StorageFaults = FALSE, ClusterSize = 1
    PROVE  Spec => []ReplyIsOwnOutput
<1>1. Init => AloneInv
  BY DEF Init, AloneInv, ReplyIsOwnOutput, restore_state, Status
<1>2. BoundsInv /\ AloneInv /\ [Next]_vars => AloneInv' BY AloneNext
<1>3. AloneInv => ReplyIsOwnOutput BY DEF AloneInv
<1>4. Spec => []BoundsInv BY BoundsAlways
<1> QED BY <1>1, <1>2, <1>3, <1>4, PTL DEF Spec
=============================================================================
