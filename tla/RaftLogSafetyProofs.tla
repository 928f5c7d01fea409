------------------------ MODULE RaftLogSafetyProofs ------------------------
(***************************************************************************)
(* The replicated log of a cluster of any size: every log is backed by the *)
(* leaders' logs, and a leader knows whatever a majority has acknowledged. *)
(* Storage does not fail.                                                  *)
(***************************************************************************)
EXTENDS RaftLogInvariants, RaftElectionProofs

-----------------------------------------------------------------------------
(* Facts about logs, leaders' logs and acknowledgements, apart from any    *)
(* handler.                                                                *)

\* The length and the terms of a log are numbers.
LEMMA LogFacts ==
    ASSUME NEW log \in Seq(Entry)
    PROVE  /\ Len(log) \in Nat
           /\ \A k \in 1..Len(log) : log[k] \in Entry /\ log[k].term \in Nat
           /\ log = <<>> <=> Len(log) = 0
           /\ LastTerm(log) \in Nat
           /\ log # <<>> => LastTerm(log) = log[Len(log)].term
<1>1. Len(log) \in Nat /\ \A k \in 1..Len(log) : log[k] \in Entry
  BY LenProperties
<1>2. \A k \in 1..Len(log) : log[k].term \in Nat BY <1>1 DEF Entry
<1>3. log = <<>> <=> Len(log) = 0 BY EmptySeq
<1>4. LastTerm(log) \in Nat
  <2>1. Len(log) \in 0..Len(log) BY <1>1
  <2> QED BY <2>1, TermAtType DEF LastTerm
<1>5. log # <<>> => LastTerm(log) = log[Len(log)].term
  BY <1>1, <1>3 DEF LastTerm, TermAt
<1> QED BY <1>1, <1>2, <1>3, <1>4, <1>5

\* Agreement is transitive and downward closed.
LEMMA AgreeTrans ==
    ASSUME NEW a \in Seq(Entry), NEW b \in Seq(Entry), NEW c \in Seq(Entry),
           NEW j \in Nat, NEW k \in Nat, NEW x \in Nat,
           x <= j, x <= k, Agree(a, b, j), Agree(b, c, k)
    PROVE  Agree(a, c, x) /\ Agree(c, a, x)
<1>1. Len(a) \in Nat /\ Len(b) \in Nat /\ Len(c) \in Nat BY LenProperties
<1> QED BY <1>1 DEF Agree

\* Agreement is symmetric.
LEMMA AgreeSym ==
    ASSUME NEW a \in Seq(Entry), NEW b \in Seq(Entry), NEW k \in Nat, Agree(a, b, k)
    PROVE  Agree(b, a, k)
BY DEF Agree

\* A backed log agrees with the leader's log of the term of any of its entries.
LEMMA BackedAt ==
    ASSUME NEW led \in Led, NEW log \in Seq(Entry), Backed(log, led),
           NEW k \in 1..Len(log)
    PROVE  /\ log[k].term \in Nat /\ led[log[k].term] \in Seq(Entry)
           /\ Agree(log, led[log[k].term], k)
           /\ k <= Len(led[log[k].term]) /\ led[log[k].term][k] = log[k]
<1>1. Len(log) \in Nat /\ log[k].term \in Nat BY LogFacts
<1>2. led[log[k].term] \in Seq(Entry) BY <1>1 DEF Led
<1>3. Agree(log, led[log[k].term], k) BY DEF Backed
<1> QED BY <1>1, <1>2, <1>3, LogFacts DEF Agree

\* Two backed logs with an entry of the same term at k agree up to it.
LEMMA BackedAgree ==
    ASSUME NEW led \in Led, NEW a \in Seq(Entry), NEW b \in Seq(Entry),
           Backed(a, led), Backed(b, led),
           NEW k \in Nat \ {0}, k <= Len(a), k <= Len(b), a[k].term = b[k].term
    PROVE  Agree(a, b, k)
<1>1. Len(a) \in Nat /\ Len(b) \in Nat BY LenProperties
<1>2. k \in 1..Len(a) /\ k \in 1..Len(b) BY <1>1
<1>3. /\ led[a[k].term] \in Seq(Entry) /\ Agree(a, led[a[k].term], k)
      /\ Agree(b, led[b[k].term], k)
  BY <1>2, BackedAt
<1>4. Agree(led[a[k].term], b, k) BY <1>3, AgreeSym
<1> QED BY <1>3, <1>4, AgreeTrans

\* Two majorities have a node in common.
LEMMA TwoMajorities ==
    ASSUME NEW P \in SUBSET Node, NEW Q \in SUBSET Node, Majority(P), Majority(Q)
    PROVE  \E j \in P : j \in Q
<1>1. /\ Cardinality(Node) \in Nat /\ Cardinality(P) \in Nat
      /\ Cardinality(Q) \in Nat
  BY NodeAssumption, FS_Subset, FS_CardinalityType
<1>2. Cardinality(P) + Cardinality(Q) > Cardinality(Node)
  <2> DEFINE c == Cardinality(Node)
             p == Cardinality(P)
             q == Cardinality(Q)
  <2>1. p > c \div 2 /\ q > c \div 2 BY DEF Majority, has_majority, ClusterSize
  <2>2. c \in Nat /\ p \in Nat /\ q \in Nat BY <1>1
  <2> HIDE DEF c, p, q
  <2>3. p + q > c BY <2>1, <2>2
  <2> QED BY <2>3 DEF c, p, q
<1>3. P \cap Q # {} BY <1>2, NodeAssumption, FS_MajoritiesIntersect
<1> QED BY <1>3

\* What a majority has acknowledged is never blocked.
LEMMA ChosenIsNotBlocked ==
    ASSUME NEW acks \in SUBSET Acks, NEW t \in Nat, NEW k \in Nat,
           Chosen(t, k, acks), Blocked(t, k, acks)
    PROVE  FALSE
<1>1. PICK P \in SUBSET Node :
         /\ Majority(P)
         /\ \A j \in P : \E a \in acks : a.node = j /\ a.term = t /\ a.index >= k
  BY DEF Chosen
<1>2. PICK Q \in SUBSET Node :
         /\ Majority(Q)
         /\ \A j \in Q : /\ node[j].current_term > t
                         /\ \A a \in acks : a.node = j /\ a.term = t => a.index < k
  BY DEF Blocked
<1>3. PICK j \in P : j \in Q BY <1>1, <1>2, TwoMajorities
<1>4. PICK a \in acks : a.node = j /\ a.term = t /\ a.index >= k BY <1>1, <1>3
<1>5. a.index < k /\ a.index \in Nat BY <1>2, <1>3, <1>4 DEF Acks
<1> QED BY <1>4, <1>5

\* What the election restriction compares is transitive.
LEMMA AtLeastTrans ==
    ASSUME NEW a \in Seq(Entry), NEW b \in Seq(Entry), NEW t \in Nat, NEW k \in Nat,
           AtLeast(a, t, k), UpToDate(LastTerm(b), Len(b), a)
    PROVE  AtLeast(b, t, k)
<1>1. /\ Len(a) \in Nat /\ Len(b) \in Nat /\ LastTerm(a) \in Nat
      /\ LastTerm(b) \in Nat
  BY LogFacts
<1> QED BY <1>1 DEF AtLeast, UpToDate

-----------------------------------------------------------------------------
(* How the leaders' logs grow. *)

\* Every leader's log is extended, or stays as it is.
Grows(led, more) == \A t \in Nat : Agree(led[t], more[t], Len(led[t]))

\* Whatever was backed stays backed.
LEMMA BackedGrows ==
    ASSUME NEW led \in Led, NEW more \in Led, Grows(led, more),
           NEW log \in Seq(Entry), Backed(log, led)
    PROVE  Backed(log, more)
<1> SUFFICES ASSUME NEW k \in 1..Len(log) PROVE Agree(log, more[log[k].term], k)
  BY DEF Backed
<1> DEFINE t == log[k].term
<1>1. /\ t \in Nat /\ led[t] \in Seq(Entry) /\ Agree(log, led[t], k)
      /\ k <= Len(led[t])
  BY BackedAt
<1>2. more[t] \in Seq(Entry) /\ Len(led[t]) \in Nat /\ k \in Nat
  <2>1. more[t] \in Seq(Entry) BY <1>1 DEF Led
  <2>2. Len(led[t]) \in Nat /\ Len(log) \in Nat BY <1>1, LenProperties
  <2> QED BY <2>1, <2>2
<1>3. Agree(led[t], more[t], Len(led[t])) BY <1>1 DEF Grows
<1> HIDE DEF t
<1>4. Agree(log, more[t], k) BY <1>1, <1>2, <1>3, AgreeTrans
<1> QED BY <1>4 DEF t

\* The slice of the first entries of a log agrees with it.
LEMMA PrefixAgrees ==
    ASSUME NEW log \in Seq(Entry), NEW c \in Nat, c <= Len(log)
    PROVE  /\ SubSeq(log, 1, c) \in Seq(Entry) /\ Len(SubSeq(log, 1, c)) = c
           /\ \A x \in 1..c : SubSeq(log, 1, c)[x] = log[x]
           /\ Agree(SubSeq(log, 1, c), log, c)
<1>1. \A k \in 1..c : log[k] \in Entry BY LogFacts
<1>2. /\ SubSeq(log, 1, c) \in Seq(Entry) /\ Len(SubSeq(log, 1, c)) = c
      /\ \A x \in 1..c : SubSeq(log, 1, c)[x] = log[x]
  BY <1>1, SubSeqProperties
<1> QED BY <1>2 DEF Agree

\* Two logs are the same when they agree all the way.
LEMMA AgreeAll ==
    ASSUME NEW a \in Seq(Entry), NEW b \in Seq(Entry), Len(a) = Len(b),
           Agree(a, b, Len(a))
    PROVE  a = b
BY SeqEqual DEF Agree

\* A log that agrees with a backed log on all of its own entries is backed.
LEMMA PrefixBacked ==
    ASSUME NEW led \in Led, NEW a \in Seq(Entry), NEW b \in Seq(Entry),
           Backed(b, led), Agree(a, b, Len(a))
    PROVE  Backed(a, led)
<1> SUFFICES ASSUME NEW k \in 1..Len(a) PROVE Agree(a, led[a[k].term], k)
  BY DEF Backed
<1>1. Len(a) \in Nat /\ Len(b) \in Nat BY LenProperties
<1>2. k \in 1..Len(b) /\ a[k] = b[k] BY <1>1 DEF Agree
<1>3. led[b[k].term] \in Seq(Entry) /\ Agree(b, led[b[k].term], k) BY <1>2, BackedAt
<1> QED BY <1>1, <1>2, <1>3, AgreeTrans

-----------------------------------------------------------------------------
(* The append loop on a request that quotes the leader's log. *)

\* The check of prev_log_term tells that the follower's log is the leader's up to
\* prev_log_index.
LEMMA PreviousAgrees ==
    ASSUME NEW led \in Led, NEW log \in Seq(Entry), NEW lead \in Seq(Entry),
           Backed(log, led), Backed(lead, led), NEW prev \in Nat,
           prev <= Len(log), prev <= Len(lead), TermAt(log, prev) = TermAt(lead, prev)
    PROVE  Agree(log, lead, prev)
<1>1. CASE prev = 0 BY <1>1, LenProperties DEF Agree
<1>2. CASE prev # 0
  <2>1. log[prev].term = lead[prev].term BY <1>2 DEF TermAt
  <2> QED BY <1>2, <2>1, BackedAgree
<1> QED BY <1>1, <1>2

\* A request without a conflict: the follower already has all of it.
LEMMA NoConflictAgrees ==
    ASSUME NEW led \in Led, NEW log \in Seq(Entry), NEW lead \in Seq(Entry),
           Backed(log, led), Backed(lead, led), NEW prev \in Nat,
           NEW entries \in Seq(Entry), Agree(log, lead, prev),
           prev + Len(entries) <= Len(lead),
           \A x \in 1..Len(entries) : entries[x] = lead[prev + x],
           Conflicts(log, prev, entries) = {}
    PROVE  Agree(log, lead, prev + Len(entries))
<1>1. Len(log) \in Nat /\ Len(lead) \in Nat /\ Len(entries) \in Nat BY LenProperties
<1>2. CASE Len(entries) = 0 BY <1>1, <1>2
<1>3. CASE Len(entries) # 0
  <2> DEFINE x == Len(entries)
  <2>1. x \in 1..Len(entries) /\ x \notin Conflicts(log, prev, entries) BY <1>1, <1>3
  <2>2. ~(prev + x > Len(log)) /\ log[prev + x].term = entries[x].term
    BY <2>1 DEF Conflicts
  <2>3. log[prev + x].term = lead[prev + x].term BY <2>1, <2>2
  <2>4. prev + x \in Nat \ {0} /\ prev + x <= Len(log) BY <1>1, <1>3, <2>2
  <2> HIDE DEF x
  <2>5. prev + x <= Len(lead) BY DEF x
  <2> QED BY <2>3, <2>4, <2>5, BackedAgree DEF x
<1> QED BY <1>2, <1>3

\* Up to the first conflict the follower's log is the leader's.
LEMMA FirstConflict ==
    ASSUME NEW led \in Led, NEW log \in Seq(Entry), NEW lead \in Seq(Entry),
           Backed(log, led), Backed(lead, led), NEW prev \in Nat,
           NEW entries \in Seq(Entry), Agree(log, lead, prev),
           prev + Len(entries) <= Len(lead),
           \A x \in 1..Len(entries) : entries[x] = lead[prev + x],
           Conflicts(log, prev, entries) # {}
    PROVE  LET f == Min(Conflicts(log, prev, entries))
           IN  /\ f \in 1..Len(entries)
               /\ Agree(log, lead, prev + f - 1)
               /\ ~Agree(log, lead, prev + f)
<1> DEFINE C == Conflicts(log, prev, entries)
           f == Min(C)
<1>1. Len(log) \in Nat /\ Len(lead) \in Nat /\ Len(entries) \in Nat BY LenProperties
<1>2. C \in SUBSET Nat /\ C \subseteq 1..Len(entries) BY <1>1 DEF Conflicts
<1>3. f \in C /\ \A y \in C : f <= y BY <1>2, MinOfNaturals
<1>4. /\ f \in 1..Len(entries)
      /\ prev + f > Len(log) \/ log[prev + f].term # entries[f].term
  BY <1>2, <1>3 DEF Conflicts
<1>5. f - 1 \in 1..Len(entries) => f - 1 \notin C
  <2> HIDE DEF C, f
  <2> QED BY <1>1, <1>2, <1>3, <1>4
<1>6. f # 1 => f - 1 \in 1..Len(entries)
  <2> HIDE DEF f
  <2> QED BY <1>1, <1>4
<1>7. f # 1 => /\ prev + (f - 1) <= Len(log)
               /\ log[prev + (f - 1)].term = entries[f - 1].term
  <2> HIDE DEF f
  <2>1. ASSUME f # 1 PROVE f - 1 \notin Conflicts(log, prev, entries)
    BY <1>5, <1>6, <2>1
  <2>2. prev + (f - 1) \in Nat \/ f = 1 BY <1>1, <1>4
  <2> QED BY <1>1, <1>6, <2>1, <2>2 DEF Conflicts
<1> HIDE DEF C, f
<1>8. Agree(log, lead, prev + f - 1)
  <2>1. CASE f = 1 BY <2>1
  <2>2. CASE f # 1
    <3> DEFINE k == prev + (f - 1)
    <3>1. k \in Nat \ {0} /\ k <= Len(log) /\ k <= Len(lead)
      BY <1>1, <1>4, <1>7, <2>2
    <3>2. log[k].term = lead[k].term BY <1>6, <1>7, <2>2
    <3>3. k = prev + f - 1 BY <1>1, <1>4
    <3> HIDE DEF k
    <3>4. Agree(log, lead, k) BY <3>1, <3>2, BackedAgree
    <3> QED BY <3>3, <3>4
  <2> QED BY <2>1, <2>2
<1>9. ~Agree(log, lead, prev + f)
  <2> SUFFICES ASSUME Agree(log, lead, prev + f) PROVE FALSE OBVIOUS
  <2>1. prev + f \in 1..(prev + f) BY <1>1, <1>4
  <2>2. prev + f <= Len(log) /\ log[prev + f] = lead[prev + f] BY <2>1 DEF Agree
  <2>3. entries[f] = lead[prev + f] BY <1>4
  <2> QED BY <1>1, <1>4, <2>2, <2>3
<1> QED BY <1>4, <1>8, <1>9 DEF f, C

\* What append_request leaves in the follower's log: all of the request, and
\* nothing is cut that the follower has in common with the leader.
LEMMA AppendEntriesMerges ==
    ASSUME NEW led \in Led, NEW log \in Seq(Entry), NEW lead \in Seq(Entry),
           Backed(log, led), Backed(lead, led), NEW prev \in Nat,
           NEW entries \in Seq(Entry), prev <= Len(log),
           TermAt(log, prev) = TermAt(lead, prev),
           prev + Len(entries) <= Len(lead),
           \A x \in 1..Len(entries) : entries[x] = lead[prev + x]
    PROVE  LET r == AppendEntries(log, prev, entries)
               top == prev + Len(entries)
           IN  /\ r \in Seq(Entry) /\ Agree(r, lead, top)
               /\ \/ r = log
                  \/ /\ Len(r) = top
                     /\ \A c \in Nat : Agree(log, lead, c) => c < top /\ Agree(r, log, c)
<1> DEFINE C == Conflicts(log, prev, entries)
           r == AppendEntries(log, prev, entries)
           top == prev + Len(entries)
<1>1. /\ Len(log) \in Nat /\ Len(lead) \in Nat /\ Len(entries) \in Nat
      /\ prev \in 0..Len(log) /\ prev <= Len(lead)
  BY LenProperties
<1>2. r \in Seq(Entry) BY <1>1, AppendEntriesType
<1>3. Agree(log, lead, prev) BY <1>1, PreviousAgrees
<1>4. CASE C = {}
  <2>1. r = log BY <1>4 DEF AppendEntries
  <2>2. Agree(log, lead, top) BY <1>3, <1>4, NoConflictAgrees
  <2> QED BY <1>2, <2>1, <2>2
<1>5. CASE C # {}
  <2> DEFINE f == Min(C)
             p == prev + f - 1
             a == SubSeq(log, 1, p)
             b == SubSeq(entries, f, Len(entries))
  <2>1. r = a \o b BY <1>5 DEF AppendEntries
  <2>2. f \in 1..Len(entries) /\ Agree(log, lead, p) /\ ~Agree(log, lead, prev + f)
    BY <1>3, <1>5, FirstConflict
  <2> HIDE DEF f, C, r
  <2>3. p \in Nat /\ p <= Len(log) /\ p < top BY <1>1, <2>2 DEF Agree
  <2>4. /\ a \in Seq(Entry) /\ Len(a) = p /\ \A x \in 1..p : a[x] = log[x]
    <3> HIDE DEF p
    <3> QED BY <2>3, PrefixAgrees
  <2>5. /\ b \in Seq(Entry) /\ Len(b) = Len(entries) - f + 1
        /\ \A y \in 1..(Len(entries) - f + 1) : b[y] = entries[f + y - 1]
    <3>1. \A y \in f..Len(entries) : entries[y] \in Entry BY <1>1, <2>2, LogFacts
    <3> QED BY <1>1, <2>2, <3>1, SubSeqProperties
  <2> HIDE DEF a, b
  <2>6. Len(r) = top
    <3>1. a \in Seq(Entry) /\ b \in Seq(Entry) BY <2>4, <2>5
    <3>2. Len(a \o b) = Len(a) + Len(b) BY <3>1, ConcatProperties
    <3>3. Len(r) = Len(a) + Len(b) BY <2>1, <3>2
    <3> QED BY <1>1, <2>2, <2>4, <2>5, <3>3
  <2>7. \A x \in 1..top : r[x] = lead[x]
    <3> TAKE x \in 1..top
    <3>1. CASE x <= p
      <4>1. r[x] = a[x] BY <1>1, <2>1, <2>4, <2>5, <3>1, ConcatProperties
      <4>2. x \in 1..p BY <1>1, <2>3, <3>1
      <4>3. a[x] = log[x] /\ log[x] = lead[x]
        <5> HIDE DEF p
        <5> QED BY <4>2, <2>2, <2>4 DEF Agree
      <4> QED BY <4>1, <4>3
    <3>2. CASE x > p
      <4>1. x \in (Len(a) + 1)..(Len(a) + Len(b)) BY <1>1, <2>2, <2>3, <2>4, <2>5, <3>2
      <4>2. r[x] = b[x - p]
        <5> HIDE DEF a, b, p
        <5> QED BY <2>1, <2>4, <2>5, <4>1, ConcatProperties, SMTT(30)
      <4>3. x - p \in 1..(Len(entries) - f + 1) /\ f + (x - p) - 1 = x - prev
            /\ x - prev \in 1..Len(entries) /\ prev + (x - prev) = x
        <5> DEFINE e == Len(entries)
        <5>1. /\ x \in Nat /\ e \in Nat /\ f \in Nat /\ 1 <= f /\ f <= e
              /\ x <= prev + e /\ x > prev + f - 1
          BY <1>1, <2>2, <3>2
        <5> HIDE DEF e
        <5>2. x - (prev + f - 1) \in 1..(e - f + 1) /\ f + (x - (prev + f - 1)) - 1 = x - prev
              /\ x - prev \in 1..e /\ prev + (x - prev) = x
          BY <5>1
        <5> QED BY <5>2 DEF e
      <4>4. b[x - p] = entries[f + (x - p) - 1]
        <5> HIDE DEF p
        <5> QED BY <2>5, <4>3
      <4>5. b[x - p] = entries[x - prev] BY <4>3, <4>4
      <4>6. entries[x - prev] = lead[prev + (x - prev)] BY <4>3
      <4> QED BY <4>2, <4>3, <4>5, <4>6
    <3> QED BY <1>1, <2>3, <3>1, <3>2
  <2>8. Agree(r, lead, top) BY <1>1, <2>6, <2>7 DEF Agree
  <2>9. \A c \in Nat : Agree(log, lead, c) => c < top /\ Agree(r, log, c)
    <3> TAKE c \in Nat
    <3> HAVE Agree(log, lead, c)
    <3>1. c <= p
      <4> SUFFICES ASSUME c > p PROVE FALSE BY <2>3
      <4>1. prev + f <= c BY <1>1, <2>2
      <4>2. Agree(log, lead, prev + f) BY <1>1, <2>2, <4>1 DEF Agree
      <4> QED BY <2>2, <4>2
    <3>2. c < top BY <2>3, <3>1, <1>1
    <3>3. Agree(lead, log, c) BY AgreeSym
    <3>4. Agree(r, log, c) BY <1>1, <1>2, <2>8, <3>2, <3>3, AgreeTrans DEF r
    <3> QED BY <3>2, <3>4
  <2> QED BY <1>2, <2>6, <2>8, <2>9 DEF r
<1> QED BY <1>4, <1>5

-----------------------------------------------------------------------------
(* How a step may change the logs and their history. *)

\* The term never goes back, and a candidate is one it was, with the log it had,
\* or is one of a later term.
Continues(n, r) ==
    /\ r.current_term >= n.current_term
    /\ r.role = "Candidate" =>
          /\ r.log = n.log
          /\ \/ r.current_term > n.current_term
             \/ n.role = "Candidate" /\ r.current_term = n.current_term

NodesContinue == \A i \in Node : Continues(node[i], node'[i])

\* The log is the one it was, and a leader is the leader it was.
KeepsLog(n, r) ==
    /\ r.log = n.log /\ r.current_term >= n.current_term
    /\ r.role = "Leader" => n.role = "Leader" /\ r.current_term = n.current_term

\* Only the present terms of the nodes get new acknowledgements.
AcksGrow(acks, more) ==
    /\ acks \subseteq more
    /\ \A a \in more \ acks : a.term = node'[a.node].current_term

\* A message a handler sends.
SentSafely(m, led, acks) ==
    /\ m.type = "AppendRequest" => Quotes(m, led[m.term])
    /\ AnswerIsAcknowledged(m, acks)
    /\ ShowsLog(m, node'[m.from])

\* The parts of the state the invariant speaks of.
LEMMA NodeFacts ==
    ASSUME BoundsInv, NEW i \in Node
    PROVE  /\ node[i] \in NodeState /\ node[i].current_term \in Nat
           /\ node[i].log \in Seq(Entry) /\ Len(node[i].log) \in Nat
           /\ node[i].match_index \in [Node -> Nat]
           /\ node[i].next_index \in [Node -> Nat]
           /\ node[i].commit_index \in Nat /\ node[i].applied \in Seq(Entry)
<1>1. node[i] \in NodeState BY DEF BoundsInv, TypeOK
<1> QED BY <1>1, LenProperties DEF NodeState

\* Who was elected in a term stays elected, and stays in that term or leaves it.
LEMMA ElectionsStay ==
    ASSUME BoundsInv, BoundsInv', NodesContinue, votes \subseteq votes',
           NEW t \in Nat, Elections(t) # {}
    PROVE  (Elections(t) # {})'
<1>1. PICK i \in Node : Elected(votes, i, t) /\ Holds(node[i], t, 0) BY DEF Elections
<1>2. Elected(votes', i, t) BY <1>1, ElectedGrows
<1>3. node[i].current_term \in Nat /\ node'[i] \in NodeState
  <2>1. node'[i] \in NodeState BY DEF BoundsInv, TypeOK
  <2> QED BY <2>1, NodeFacts
<1>4. node'[i].current_term \in Nat /\ 0 <= Len(node'[i].log)
  <2>1. node'[i].log \in Seq(Entry) BY <1>3 DEF NodeState
  <2>2. Len(node'[i].log) \in Nat BY <2>1, LenProperties
  <2> QED BY <1>3, <2>2 DEF NodeState
<1>5. Holds(node'[i], t, 0)
  <2>1. Continues(node[i], node'[i]) BY DEF NodesContinue
  <2> QED BY <1>1, <1>3, <1>4, <2>1 DEF Holds, Continues
<1> QED BY <1>2, <1>5 DEF Elections

\* What is blocked stays blocked: a node acknowledges nothing of a term it left.
LEMMA BlockedStays ==
    ASSUME BoundsInv, BoundsInv', NodesContinue, NEW acks \in SUBSET Acks,
           NEW more \in SUBSET Acks, AcksGrow(acks, more),
           NEW t \in Nat, NEW k \in Nat, Blocked(t, k, acks)
    PROVE  Blocked(t, k, more)'
<1>1. PICK Q \in SUBSET Node :
         /\ Majority(Q)
         /\ \A j \in Q : /\ node[j].current_term > t
                         /\ \A a \in acks : a.node = j /\ a.term = t => a.index < k
  BY DEF Blocked
<1>2. ASSUME NEW j \in Q
      PROVE  /\ node'[j].current_term > t
             /\ \A a \in more : a.node = j /\ a.term = t => a.index < k
  <2>1. node[j].current_term > t /\ node[j].current_term \in Nat BY <1>1, NodeFacts
  <2>2. node'[j].current_term >= node[j].current_term
    BY DEF NodesContinue, Continues
  <2>3. node'[j].current_term \in Nat BY DEF BoundsInv, TypeOK, NodeState
  <2>4. node'[j].current_term > t BY <2>1, <2>2, <2>3
  <2>5. ASSUME NEW a \in more, a.node = j, a.term = t PROVE a.index < k
    <3>1. a \in acks BY <2>3, <2>4, <2>5 DEF AcksGrow
    <3> QED BY <1>1, <2>5, <3>1
  <2> QED BY <2>4, <2>5
<1> QED BY <1>1, <1>2 DEF Blocked, Majority

\* What a log carries, a longer one carries.
LEMMA CarriesGrows ==
    ASSUME NEW a \in Seq(Entry), NEW b \in Seq(Entry), Agree(a, b, Len(a)),
           NEW t \in Nat, NEW k \in Nat \ {0}, Carries(a, t, k)
    PROVE  Carries(b, t, k)
<1>1. Len(a) \in Nat /\ Len(b) \in Nat BY LenProperties
<1> QED BY <1>1 DEF Carries, Agree

\* A request that quotes a log quotes what the log grows to.
LEMMA QuotesGrows ==
    ASSUME NEW a \in Seq(Entry), NEW b \in Seq(Entry), Agree(a, b, Len(a)),
           NEW m \in Message, m.type = "AppendRequest", Quotes(m, a)
    PROVE  Quotes(m, b)
<1>1. /\ m.prev_log_index \in Nat /\ m.entries \in Seq(Entry) /\ m.term \in Nat
  BY DEF Message
<1>2. Len(a) \in Nat /\ Len(b) \in Nat /\ Len(m.entries) \in Nat
  BY <1>1, LenProperties
<1>3. Covers(m) \in Nat \ {0} /\ Covers(m) <= Len(a) BY <1>1, <1>2 DEF Quotes, Covers, Carries
<1>4. Carries(b, m.term, Covers(m)) BY <1>1, <1>3, CarriesGrows DEF Quotes
<1>5. m.prev_log_index <= Len(a) BY <1>1, <1>2, <1>3 DEF Covers
<1>6. m.prev_log_term = TermAt(b, m.prev_log_index)
  <2>1. CASE m.prev_log_index = 0 BY <2>1 DEF Quotes, TermAt
  <2>2. CASE m.prev_log_index # 0
    <3>1. a[m.prev_log_index] = b[m.prev_log_index] BY <1>1, <1>2, <1>5, <2>2 DEF Agree
    <3> QED BY <2>2, <3>1 DEF Quotes, TermAt
  <2> QED BY <2>1, <2>2
<1>7. \A x \in 1..Len(m.entries) : m.entries[x] = b[m.prev_log_index + x]
  <2> TAKE x \in 1..Len(m.entries)
  <2>1. m.prev_log_index + x \in 1..Len(a) BY <1>1, <1>2, <1>3 DEF Covers
  <2>2. a[m.prev_log_index + x] = b[m.prev_log_index + x] BY <2>1 DEF Agree
  <2> QED BY <2>2 DEF Quotes
<1> QED BY <1>3, <1>4, <1>6, <1>7 DEF Quotes

-----------------------------------------------------------------------------
(* One lemma per part of LogInv: what a step must show of what it changes. *)

\* The leaders' logs, of which a step changes at most one.
LEMMA LeadersLogsStep ==
    ASSUME BoundsInv, BoundsInv', NodesContinue, votes \subseteq votes',
           NEW led \in Led, NEW more \in Led, Grows(led, more), LeadersLogs(led),
           \A t \in Nat : more[t] = led[t] \/ LeaderLog(t, more)'
    PROVE  LeadersLogs(more)'
<1> SUFFICES ASSUME NEW t \in Nat, more[t] = led[t] PROVE LeaderLog(t, more)'
  BY DEF LeadersLogs, Led
<1>1. LeaderLog(t, led) BY DEF LeadersLogs, Led
<1>2. led[t] \in Seq(Entry) BY DEF Led
<1>3. Backed(more[t], more) /\ WrittenBy(more[t], t)
  BY <1>1, <1>2, BackedGrows DEF LeaderLog
<1>4. more[t] # <<>> => LastTerm(more[t]) = t /\ (Elections(t) # {})'
  BY <1>1, ElectionsStay DEF LeaderLog
<1> QED BY <1>3, <1>4 DEF LeaderLog

\* The nodes' logs.
LEMMA NodesLogsStep ==
    ASSUME BoundsInv, BoundsInv', NEW led \in Led, NEW more \in Led,
           Grows(led, more), NodesLogs(led),
           \A i \in Node :
              \/ /\ KeepsLog(node[i], node'[i])
                 /\ node'[i].role = "Leader"
                      => more[node[i].current_term] = led[node[i].current_term]
              \/ NodeLog(node'[i], more)
    PROVE  NodesLogs(more)'
<1> SUFFICES ASSUME NEW i \in Node, KeepsLog(node[i], node'[i]),
                    node'[i].role = "Leader"
                      => more[node[i].current_term] = led[node[i].current_term]
             PROVE  NodeLog(node'[i], more)
  BY DEF NodesLogs
<1>1. NodeLog(node[i], led) BY DEF NodesLogs
<1>2. /\ node[i].log \in Seq(Entry) /\ node[i].current_term \in Nat
      /\ node'[i].current_term \in Nat
  <2>1. node'[i].current_term \in Nat BY DEF BoundsInv, TypeOK, NodeState
  <2> QED BY <2>1, NodeFacts
<1>3. node'[i].log = node[i].log /\ node'[i].current_term >= node[i].current_term
  BY DEF KeepsLog
<1>4. Backed(node'[i].log, more) BY <1>1, <1>2, <1>3, BackedGrows DEF NodeLog
<1>5. WrittenBy(node'[i].log, node'[i].current_term)
  <2> SUFFICES ASSUME NEW k \in 1..Len(node[i].log)
               PROVE  node[i].log[k].term <= node'[i].current_term
    BY <1>3 DEF WrittenBy
  <2>1. node[i].log[k].term <= node[i].current_term /\ node[i].log[k].term \in Nat
    BY <1>1, <1>2, LogFacts DEF NodeLog, WrittenBy
  <2> QED BY <1>2, <1>3, <2>1
<1>6. node'[i].role = "Leader"
        => node'[i].log = more[node'[i].current_term] /\ node'[i].log # <<>>
  BY <1>1, <1>3 DEF KeepsLog, NodeLog
<1> QED BY <1>4, <1>5, <1>6 DEF NodeLog

\* The requests in flight.
LEMMA RequestsStep ==
    ASSUME BoundsInv, NEW led \in Led, NEW more \in Led, NEW acks,
           Grows(led, more), RequestsQuoteTheLeader(led),
           \A m \in msgs' : m \in msgs \/ SentSafely(m, more, acks)
    PROVE  RequestsQuoteTheLeader(more)'
<1> SUFFICES ASSUME NEW m \in msgs', m.type = "AppendRequest"
             PROVE  Quotes(m, more[m.term])
  BY DEF RequestsQuoteTheLeader
<1>1. CASE m \in msgs
  <2>1. m \in Message /\ m.term \in Nat BY <1>1 DEF BoundsInv, TypeOK, Message
  <2>2. /\ led[m.term] \in Seq(Entry) /\ more[m.term] \in Seq(Entry)
        /\ Agree(led[m.term], more[m.term], Len(led[m.term]))
    BY <2>1 DEF Led, Grows
  <2>3. Quotes(m, led[m.term]) BY <1>1 DEF RequestsQuoteTheLeader
  <2> QED BY <2>1, <2>2, <2>3, QuotesGrows
<1>2. CASE SentSafely(m, more, acks) BY <1>2 DEF SentSafely
<1> QED BY <1>1, <1>2

\* The acknowledgements.
LEMMA AcksStep ==
    ASSUME BoundsInv, BoundsInv', NodesContinue, NEW led \in Led, NEW more \in Led,
           NEW acks \in SUBSET Acks, NEW also \in SUBSET Acks,
           Grows(led, more), AcksAreKept(led, acks),
           \A a \in acks : AtLeast(node[a.node].log, a.term, a.index)
                             => AtLeast(node'[a.node].log, a.term, a.index),
           \A a \in also : a \in acks \/ AckIsKept(a, node'[a.node], more)
    PROVE  AcksAreKept(more, also)'
<1> SUFFICES ASSUME NEW a \in acks PROVE AckIsKept(a, node'[a.node], more)
  BY DEF AcksAreKept
<1>1. AckIsKept(a, node[a.node], led) BY DEF AcksAreKept
<1>2. a.node \in Node /\ a.term \in Nat /\ a.index \in Nat BY DEF Acks
<1>3. /\ led[a.term] \in Seq(Entry) /\ more[a.term] \in Seq(Entry)
      /\ Agree(led[a.term], more[a.term], Len(led[a.term]))
  BY <1>2 DEF Led, Grows
<1>4. Carries(more[a.term], a.term, a.index)
  BY <1>1, <1>2, <1>3, CarriesGrows DEF AckIsKept
<1>5. node'[a.node].current_term >= a.term
  <2>1. node[a.node].current_term \in Nat /\ node'[a.node].current_term \in Nat
    BY <1>2, NodeFacts DEF BoundsInv, TypeOK, NodeState
  <2>2. node'[a.node].current_term >= node[a.node].current_term
    BY <1>2 DEF NodesContinue, Continues
  <2> QED BY <1>1, <1>2, <2>1, <2>2 DEF AckIsKept
<1> QED BY <1>1, <1>4, <1>5 DEF AckIsKept

\* What leaders count.
LEMMA MatchStep ==
    ASSUME NEW led, NEW acks, NEW also, acks \subseteq also, MatchIsAcknowledged(acks),
           \A i \in Node : Acknowledged(i, node'[i], also),
           \A m \in msgs' : m \in msgs \/ SentSafely(m, led, also)
    PROVE  MatchIsAcknowledged(also)'
<1>1. \A m \in msgs' : AnswerIsAcknowledged(m, also)
  BY DEF MatchIsAcknowledged, AnswerIsAcknowledged, SentSafely
<1> QED BY <1>1 DEF MatchIsAcknowledged

\* What later leaders know.
LEMMA LaterLeadersStep ==
    ASSUME BoundsInv, BoundsInv', NodesContinue, NEW led \in Led, NEW more \in Led,
           NEW acks \in SUBSET Acks, NEW also \in SUBSET Acks,
           Grows(led, more), AcksGrow(acks, also), LaterLeadersKnow(led, acks),
           \A t, u \in Nat : t < u /\ more[u] # <<>> =>
              \A k \in 1..Len(more[t]) : more[t][k].term = t =>
                 \/ led[u] # <<>> /\ k <= Len(led[t])
                 \/ Carries(more[u], t, k)
                 \/ Blocked(t, k, also)'
    PROVE  LaterLeadersKnow(more, also)'
<1> SUFFICES ASSUME NEW t \in Nat, NEW u \in Nat, t < u, more[u] # <<>>,
                    NEW k \in 1..Len(more[t]), more[t][k].term = t,
                    led[u] # <<>>, k <= Len(led[t])
             PROVE  Carries(more[u], t, k) \/ Blocked(t, k, also)'
  BY DEF LaterLeadersKnow, Led
<1>1. /\ led[t] \in Seq(Entry) /\ led[u] \in Seq(Entry) /\ more[t] \in Seq(Entry)
      /\ more[u] \in Seq(Entry) /\ Agree(led[t], more[t], Len(led[t]))
      /\ Agree(led[u], more[u], Len(led[u]))
  BY DEF Led, Grows
<1>2. Len(led[t]) \in Nat /\ Len(more[t]) \in Nat BY <1>1, LenProperties
<1>3. k \in 1..Len(led[t]) /\ led[t][k].term = t /\ k \in Nat \ {0}
  BY <1>1, <1>2 DEF Agree
<1>4. Carries(led[u], t, k) \/ Blocked(t, k, acks) BY <1>3 DEF LaterLeadersKnow, Led
<1>5. CASE Carries(led[u], t, k) BY <1>1, <1>3, <1>5, CarriesGrows
<1>6. CASE Blocked(t, k, acks) BY <1>3, <1>6, BlockedStays
<1> QED BY <1>4, <1>5, <1>6

\* What candidates have in common with their voters.
LEMMA VotesStep ==
    ASSUME BoundsInv, BoundsInv', ElectionInv, ElectionInv', NodesContinue, NEW led,
           NEW acks \in SUBSET Acks, NEW also \in SUBSET Acks,
           AcksGrow(acks, also), VotesCompareLogs(acks),
           \A v \in votes' : v \in votes \/ VoteCompares(v, node'[v.candidate], also),
           \A m \in msgs' : m \in msgs \/ SentSafely(m, led, also)
    PROVE  VotesCompareLogs(also)'
<1>1. ASSUME NEW v \in votes', v \in votes
      PROVE  VoteCompares(v, node'[v.candidate], also)
  <2> DEFINE n == node[v.candidate]
             r == node'[v.candidate]
  <2>1. v.voter \in Node /\ v.candidate \in Node /\ v.term \in Nat
    BY <1>1 DEF BoundsInv, TypeOK
  <2>2. VoteCompares(v, n, acks) BY <1>1 DEF VotesCompareLogs
  <2>3. n.current_term \in Nat /\ r.current_term \in Nat /\ Continues(n, r)
    BY <2>1, NodeFacts DEF NodesContinue, BoundsInv, TypeOK, NodeState
  <2>4. v.term <= r.current_term BY <2>1, <2>2, <2>3 DEF VoteCompares, Continues
  <2>5. ASSUME r.role = "Candidate", r.current_term = v.term,
               NEW a \in also, a.node = v.voter, a.term < v.term
        PROVE  AtLeast(r.log, a.term, a.index)
    <3>1. /\ r.log = n.log /\ n.role = "Candidate" /\ n.current_term = v.term
      BY <2>1, <2>2, <2>3, <2>5 DEF Continues, VoteCompares
    <3>2. a \in acks
      <4> SUFFICES ASSUME a \notin acks PROVE FALSE OBVIOUS
      <4>1. a.term = node'[v.voter].current_term BY <2>5 DEF AcksGrow
      <4>2. node'[v.voter].current_term >= v.term
        <5>1. VoteInForce(v)' BY <1>1 DEF ElectionInv, OneVotePerTerm
        <5>2. node'[v.voter].current_term \in Nat
          BY <2>1 DEF BoundsInv, TypeOK, NodeState
        <5> QED BY <2>1, <5>1, <5>2 DEF VoteInForce
      <4>3. node'[v.voter].current_term \in Nat BY <2>1 DEF BoundsInv, TypeOK, NodeState
      <4> QED BY <2>1, <2>5, <4>1, <4>2, <4>3
    <3> QED BY <2>2, <2>5, <3>1, <3>2 DEF VoteCompares
  <2> QED BY <2>4, <2>5 DEF VoteCompares
<1>2. ASSUME NEW m \in msgs', m \in msgs, m.type = "VoteRequest"
      PROVE  ShowsLog(m, node'[m.from])
  <2> DEFINE n == node[m.from]
             r == node'[m.from]
  <2>1. m.from \in Node /\ m.term \in Nat BY <1>2 DEF BoundsInv, TypeOK, Message
  <2>2. n.current_term \in Nat /\ r.current_term \in Nat /\ Continues(n, r)
    BY <2>1, NodeFacts DEF NodesContinue, BoundsInv, TypeOK, NodeState
  <2>3. n.current_term >= m.term BY <1>2 DEF ElectionInv, RequestsAreFresh
  <2>4. ShowsLog(m, n) BY <1>2 DEF VotesCompareLogs
  <2> QED BY <2>1, <2>2, <2>3, <2>4 DEF Continues, ShowsLog
<1>3. \A m \in msgs' : ShowsLog(m, node'[m.from])
  <2> TAKE m \in msgs'
  <2>1. CASE m.type # "VoteRequest" BY <2>1 DEF ShowsLog
  <2>2. CASE m \notin msgs BY <2>2 DEF SentSafely
  <2> QED BY <1>2, <2>1, <2>2
<1> QED BY <1>1, <1>3 DEF VotesCompareLogs

-----------------------------------------------------------------------------
(* The three ways a step treats the logs. *)

\* Nothing is acknowledged that was not, and no leader's log changes.
LEMMA SameHistory ==
    ASSUME NEW led \in Led, NEW acks \in SUBSET Acks
    PROVE  Grows(led, led) /\ AcksGrow(acks, acks)
<1>1. \A t \in Nat : Len(led[t]) \in Nat BY LenProperties DEF Led
<1> QED BY <1>1 DEF Grows, Agree, AcksGrow

\* A step that leaves all logs alone.
LEMMA StillLogs ==
    ASSUME BoundsInv, BoundsInv', ElectionInv, ElectionInv',
           NEW led \in Led, NEW acks \in SUBSET Acks, LogInv(led, acks),
           votes \subseteq votes', NodesContinue,
           \A i \in Node : /\ KeepsLog(node[i], node'[i])
                           /\ Acknowledged(i, node'[i], acks),
           \A v \in votes' : v \in votes \/ VoteCompares(v, node'[v.candidate], acks),
           \A m \in msgs' : m \in msgs \/ SentSafely(m, led, acks)
    PROVE  LogInv(led, acks)'
<1>1. Grows(led, led) /\ AcksGrow(acks, acks) BY SameHistory
<1>2. LeadersLogs(led)' BY <1>1, LeadersLogsStep DEF LogInv
<1>3. NodesLogs(led)' BY <1>1, NodesLogsStep DEF LogInv
<1>4. RequestsQuoteTheLeader(led)' BY <1>1, RequestsStep DEF LogInv
<1>5. AcksAreKept(led, acks)'
  <2>1. ASSUME NEW a \in acks PROVE node'[a.node].log = node[a.node].log
    BY DEF Acks, KeepsLog
  <2> QED BY <1>1, <2>1, AcksStep DEF LogInv
<1>6. MatchIsAcknowledged(acks)' BY MatchStep DEF LogInv
<1>7. LaterLeadersKnow(led, acks)'
  <2>1. \A t, u \in Nat : t < u /\ led[u] # <<>> =>
            \A k \in 1..Len(led[t]) : led[t][k].term = t =>
                led[u] # <<>> /\ k <= Len(led[t])
    BY LenProperties DEF Led
  <2> QED BY <1>1, <2>1, LaterLeadersStep DEF LogInv
<1>8. VotesCompareLogs(acks)' BY <1>1, VotesStep DEF LogInv
<1> QED BY <1>2, <1>3, <1>4, <1>5, <1>6, <1>7, <1>8 DEF LogInv

\* The whole log after the last entry of term t belongs to later terms, so a log
\* that no later term than t wrote ends in term t once it holds an entry of it.
LEMMA EndsInTerm ==
    ASSUME NEW led \in Led, LeadersLogs(led), NEW log \in Seq(Entry), Backed(log, led),
           NEW t \in Nat, WrittenBy(log, t), NEW k \in Nat \ {0}, Carries(log, t, k)
    PROVE  LastTerm(log) = t /\ log # <<>>
<1>1. /\ Len(log) \in Nat /\ k \in 1..Len(log) /\ log # <<>>
      /\ LastTerm(log) = log[Len(log)].term /\ LastTerm(log) \in Nat
  <2>1. Len(log) \in Nat /\ k \in 1..Len(log) BY LenProperties DEF Carries
  <2> QED BY <2>1, LogFacts
<1> DEFINE e == Len(log)
           u == log[e].term
<1>2. e \in 1..Len(log) /\ u \in Nat /\ u <= t BY <1>1 DEF WrittenBy
<1>3. led[u] \in Seq(Entry) /\ Agree(log, led[u], e) BY <1>2, BackedAt
<1>4. k \in 1..Len(led[u]) /\ led[u][k].term = t
  <2>1. k \in 1..e /\ e <= Len(led[u]) /\ Len(led[u]) \in Nat
    BY <1>1, <1>3, LenProperties DEF Agree
  <2> HIDE DEF u
  <2>2. led[u][k] = log[k] BY <1>3, <2>1 DEF Agree
  <2> QED BY <2>1, <2>2 DEF Carries
<1>5. t <= u
  <2>1. WrittenBy(led[u], u)
    <3> HIDE DEF u
    <3> QED BY <1>2 DEF LeadersLogs, LeaderLog, Led
  <2> HIDE DEF u
  <2> QED BY <1>4, <2>1 DEF WrittenBy
<1> HIDE DEF u
<1>6. u = t BY <1>2, <1>5
<1> QED BY <1>1, <1>6 DEF u

\* A follower accepts what a leader of its term sent.
LEMMA AcceptLogs ==
    ASSUME BoundsInv, BoundsInv', ElectionInv, ElectionInv',
           NEW led \in Led, NEW acks \in SUBSET Acks, LogInv(led, acks),
           NEW i \in Node, NEW r \in NodeState, node'[i] = r,
           \A j \in Node \ {i} : node'[j] = node[j], votes' = votes,
           r.role = "Follower", r.current_term >= node[i].current_term,
           NEW top \in Nat \ {0}, Carries(led[r.current_term], r.current_term, top),
           Agree(r.log, led[r.current_term], top),
           \/ r.log = node[i].log
           \/ /\ Len(r.log) = top
              /\ \A c \in Nat : Agree(node[i].log, led[r.current_term], c) => c < top,
           NEW also \in SUBSET Acks, also = acks \cup {Ack(i, r.current_term, top)},
           \A m \in msgs' : m \in msgs \/ SentSafely(m, led, also)
    PROVE  LogInv(led, also)'
<1> DEFINE n == node[i]
           T == r.current_term
           lead == led[T]
<1>0. /\ T \in Nat /\ r.log \in Seq(Entry) /\ n.log \in Seq(Entry)
      /\ n.current_term \in Nat /\ lead \in Seq(Entry)
      /\ Len(r.log) \in Nat /\ Len(n.log) \in Nat /\ Len(lead) \in Nat
  <2>1. T \in Nat /\ r.log \in Seq(Entry) BY DEF NodeState
  <2>2. lead \in Seq(Entry) BY <2>1 DEF Led
  <2> QED BY <2>1, <2>2, NodeFacts, LenProperties
<1>1. Grows(led, led) BY SameHistory
<1>2. AcksGrow(acks, also) BY DEF AcksGrow, Ack
<1>3. NodesContinue
  <2> SUFFICES ASSUME NEW j \in Node PROVE Continues(node[j], node'[j])
    BY DEF NodesContinue
  <2>1. CASE j = i BY <2>1 DEF Continues
  <2>2. CASE j # i
    <3>1. node[j].current_term \in Nat BY NodeFacts
    <3> QED BY <2>2, <3>1 DEF Continues
  <2> QED BY <2>1, <2>2
<1>4. /\ Backed(n.log, led) /\ WrittenBy(n.log, n.current_term)
      /\ Backed(lead, led) /\ WrittenBy(lead, T) /\ LeadersLogs(led)
  <2>1. NodeLog(n, led) BY DEF LogInv, NodesLogs
  <2>2. LeaderLog(T, led) BY <1>0 DEF LogInv, LeadersLogs, Led
  <2> QED BY <2>1, <2>2 DEF NodeLog, LeaderLog, LogInv
<1> HIDE DEF lead
<1>5. NodeLog(r, led)
  <2>1. CASE r.log = n.log
    <3>1. WrittenBy(r.log, T)
      <4>1. \A k \in 1..Len(n.log) : n.log[k].term \in Nat /\ n.log[k].term <= n.current_term
        BY <1>0, <1>4, LogFacts DEF WrittenBy
      <4> QED BY <1>0, <2>1, <4>1 DEF WrittenBy
    <3> QED BY <1>4, <2>1, <3>1 DEF NodeLog
  <2>2. CASE Len(r.log) = top
    <3>1. Backed(r.log, led)
      <4>1. Agree(r.log, lead, Len(r.log)) BY <2>2 DEF lead
      <4> QED BY <1>0, <1>4, <4>1, PrefixBacked
    <3>2. WrittenBy(r.log, T) BY <1>0, <1>4, <2>2, SMTT(30) DEF WrittenBy, Agree, lead
    <3> QED BY <3>1, <3>2 DEF NodeLog
  <2> QED BY <2>1, <2>2
<1>6. LeadersLogs(led)' BY <1>1, <1>3, LeadersLogsStep DEF LogInv
<1>7. \A j \in Node \ {i} : KeepsLog(node[j], node'[j])
  BY NodeFacts DEF KeepsLog
<1>8. NodesLogs(led)' BY <1>1, <1>5, <1>7, NodesLogsStep DEF LogInv
<1>9. RequestsQuoteTheLeader(led)' BY <1>1, RequestsStep DEF LogInv
<1>10. LastTerm(r.log) = T /\ top <= Len(r.log)
  <2>1. Carries(r.log, T, top) BY <1>0 DEF Carries, Agree
  <2> QED BY <1>0, <1>4, <1>5, <2>1, EndsInTerm DEF NodeLog, Carries
<1>11. AcksAreKept(led, also)'
  <2>1. ASSUME NEW a \in acks, AtLeast(node[a.node].log, a.term, a.index)
        PROVE  AtLeast(node'[a.node].log, a.term, a.index)
    <3>1. CASE a.node # i BY <2>1, <3>1 DEF Acks
    <3>2. CASE a.node = i /\ r.log = n.log BY <2>1, <3>2
    <3>3. CASE a.node = i /\ Len(r.log) = top
               /\ \A c \in Nat : Agree(n.log, lead, c) => c < top
      <4>1. a.term \in Nat /\ a.index \in Nat BY DEF Acks
      <4>2. a.term <= n.current_term
        BY <3>3 DEF LogInv, AcksAreKept, AckIsKept
      <4>3. CASE a.term < T BY <1>0, <1>10, <3>3, <4>1, <4>3 DEF AtLeast
      <4>4. CASE a.term = T
        <5>1. LastTerm(n.log) <= n.current_term /\ LastTerm(n.log) \in Nat
          <6>1. CASE n.log = <<>>
            BY <1>0, <6>1, LogFacts DEF LastTerm, TermAt
          <6>2. CASE n.log # <<>>
            <7>1. Len(n.log) \in 1..Len(n.log) BY <1>0, <6>2, LogFacts
            <7> QED BY <1>0, <1>4, <6>2, <7>1, LogFacts DEF WrittenBy
          <6> QED BY <6>1, <6>2
        <5>2. LastTerm(n.log) = T /\ Len(n.log) >= a.index
          BY <1>0, <2>1, <3>3, <4>1, <4>2, <4>4, <5>1 DEF AtLeast
        <5>3. CASE n.log = <<>>
          BY <1>0, <1>10, <3>3, <4>1, <4>4, <5>2, <5>3, LogFacts DEF AtLeast
        <5>4. CASE n.log # <<>>
          <6>1. Len(n.log) \in 1..Len(n.log) /\ n.log[Len(n.log)].term = T
            BY <1>0, <5>2, <5>4, LogFacts
          <6>2. Agree(n.log, lead, Len(n.log)) BY <1>0, <1>4, <6>1, BackedAt DEF lead
          <6>3. Len(n.log) < top BY <1>0, <3>3, <6>2
          <6> QED BY <1>0, <1>10, <3>3, <4>1, <4>4, <5>2, <6>3 DEF AtLeast
        <5> QED BY <5>3, <5>4
      <4> QED BY <1>0, <4>1, <4>2, <4>3, <4>4
    <3> QED BY <3>1, <3>2, <3>3 DEF lead
  <2>2. AckIsKept(Ack(i, T, top), r, led)
    BY <1>0, <1>10 DEF AckIsKept, Ack, AtLeast
  <2>3. \A a \in also : a \in acks \/ AckIsKept(a, node'[a.node], led)
    <3>1. Ack(i, T, top).node = i BY DEF Ack
    <3> QED BY <2>2, <3>1
  <2> QED BY <1>1, <1>3, <2>1, <2>3, AcksStep DEF LogInv
<1>12. MatchIsAcknowledged(also)'
  <2>1. acks \subseteq also OBVIOUS
  <2>2. ASSUME NEW j \in Node PROVE Acknowledged(j, node'[j], also)
    <3>1. CASE j = i BY <3>1 DEF Acknowledged
    <3>2. CASE j # i
      <4>1. Acknowledged(j, node[j], acks) BY DEF LogInv, MatchIsAcknowledged
      <4> QED BY <2>1, <3>2, <4>1 DEF Acknowledged
    <3> QED BY <3>1, <3>2
  <2> QED BY <2>1, <2>2, MatchStep DEF LogInv
<1>13. LaterLeadersKnow(led, also)'
  <2>1. \A t, u \in Nat : t < u /\ led[u] # <<>> =>
            \A k \in 1..Len(led[t]) : led[t][k].term = t =>
                led[u] # <<>> /\ k <= Len(led[t])
    BY LenProperties DEF Led
  <2> QED BY <1>1, <1>2, <1>3, <2>1, LaterLeadersStep DEF LogInv
<1>14. VotesCompareLogs(also)' BY <1>2, <1>3, VotesStep DEF LogInv
<1> QED BY <1>6, <1>8, <1>9, <1>11, <1>12, <1>13, <1>14 DEF LogInv

\* What appending one entry of term T makes of a log.
LEMMA AppendFacts ==
    ASSUME NEW log \in Seq(Entry), NEW T \in Nat, NEW e \in Entry, e.term = T
    PROVE  LET a == Append(log, e)
           IN  /\ a \in Seq(Entry) /\ Len(a) = Len(log) + 1 /\ Len(a) \in Nat \ {0}
               /\ Agree(log, a, Len(log)) /\ a[Len(a)] = e
               /\ LastTerm(a) = T /\ a # <<>>
<1> DEFINE a == Append(log, e)
<1>1. Len(log) \in Nat BY LenProperties
<1>2. /\ a \in Seq(Entry) /\ Len(a) = Len(log) + 1
      /\ \A k \in 1..Len(log) : a[k] = log[k]
      /\ a[Len(log) + 1] = e
  BY <1>1, AppendProperties
<1> HIDE DEF a
<1>3. Agree(log, a, Len(log)) /\ Len(a) \in Nat \ {0} /\ a[Len(a)] = e
  BY <1>1, <1>2 DEF Agree
<1>4. a # <<>> BY <1>2, <1>3, LogFacts
<1>5. LastTerm(a) = T BY <1>2, <1>3, <1>4, LogFacts
<1> QED BY <1>2, <1>3, <1>4, <1>5 DEF a

\* The leaders' logs after the leader of term T has written its log anew.
Written(led, T, log) == [led EXCEPT ![T] = log]

\* Appending keeps a log backed, by the log it becomes.
LEMMA AppendBacked ==
    ASSUME NEW led \in Led, NEW log \in Seq(Entry), Backed(log, led),
           NEW T \in Nat, WrittenBy(log, T), NEW e \in Entry, e.term = T,
           Agree(led[T], Append(log, e), Len(led[T]))
    PROVE  LET a == Append(log, e)
           IN  /\ Written(led, T, a) \in Led /\ Grows(led, Written(led, T, a))
               /\ Backed(a, Written(led, T, a)) /\ WrittenBy(a, T)
<1> DEFINE a == Append(log, e)
           more == Written(led, T, a)
<1>1. /\ a \in Seq(Entry) /\ Len(a) = Len(log) + 1 /\ Len(a) \in Nat \ {0}
      /\ Agree(log, a, Len(log)) /\ a[Len(a)] = e /\ Len(log) \in Nat
  BY AppendFacts, LenProperties
<1>2. Agree(led[T], a, Len(led[T])) OBVIOUS
<1> HIDE DEF a
<1>3. more \in Led /\ more[T] = a /\ \A t \in Nat \ {T} : more[t] = led[t]
  BY <1>1 DEF Written, Led
<1>4. Grows(led, more)
  <2>1. \A t \in Nat : Len(led[t]) \in Nat BY LenProperties DEF Led
  <2> QED BY <1>2, <1>3, <2>1 DEF Grows, Agree
<1> HIDE DEF more
<1>5. Backed(log, more) BY <1>3, <1>4, BackedGrows
<1>6. Backed(a, more)
  <2> SUFFICES ASSUME NEW k \in 1..Len(a) PROVE Agree(a, more[a[k].term], k)
    BY DEF Backed
  <2>1. CASE k = Len(a)
    <3>1. a[k].term = T BY <1>1, <2>1
    <3> QED BY <1>1, <1>3, <2>1, <3>1 DEF Agree
  <2>2. CASE k # Len(a)
    <3>1. k \in 1..Len(log) /\ k \in Nat BY <1>1, <2>2
    <3>2. a[k] = log[k] BY <1>1, <3>1 DEF Agree
    <3>3. more[log[k].term] \in Seq(Entry) /\ Agree(log, more[log[k].term], k)
      BY <1>3, <1>5, <3>1, BackedAt
    <3>4. Agree(a, log, Len(log)) BY <1>1, AgreeSym
    <3> QED BY <1>1, <3>1, <3>2, <3>3, <3>4, AgreeTrans
  <2> QED BY <2>1, <2>2
<1>7. WrittenBy(a, T)
  <2> SUFFICES ASSUME NEW k \in 1..Len(a) PROVE a[k].term <= T BY DEF WrittenBy
  <2>1. CASE k = Len(a) BY <1>1, <2>1
  <2>2. CASE k # Len(a)
    <3>1. k \in 1..Len(log) BY <1>1, <2>2
    <3>2. a[k] = log[k] BY <1>1, <3>1 DEF Agree
    <3> QED BY <3>1, <3>2 DEF WrittenBy
  <2> QED BY <2>1, <2>2
<1> QED BY <1>3, <1>4, <1>6, <1>7 DEF a, more

\* Of the votes cast by voters who vote once per term, one candidate has a majority.
LEMMA OneElectedIn ==
    ASSUME NEW cast, \A v, w \in cast : v.voter = w.voter /\ v.term = w.term => v = w,
           NEW i, NEW j, NEW t, Elected(cast, i, t), Elected(cast, j, t)
    PROVE  i = j
<1>1. PICK P \in SUBSET Node : Majority(P) /\ \A k \in P : Vote(k, t, i) \in cast
  BY DEF Elected, Majority
<1>2. PICK Q \in SUBSET Node : Majority(Q) /\ \A k \in Q : Vote(k, t, j) \in cast
  BY DEF Elected, Majority
<1>3. PICK k \in P : k \in Q BY <1>1, <1>2, TwoMajorities
<1>4. Vote(k, t, i) \in cast /\ Vote(k, t, j) \in cast BY <1>1, <1>2, <1>3
<1>5. Vote(k, t, i) = Vote(k, t, j) BY <1>4 DEF Vote
<1> QED BY <1>5 DEF Vote

\* A voter of a later election has left the term, and what a leader adds now it
\* has not acknowledged: whoever was elected later need not know of it.
LEMMA LaterTermsAreBlocked ==
    ASSUME BoundsInv, BoundsInv', ElectionInv', NEW T \in Nat, NEW u \in Nat, T < u,
           (Elections(u) # {})', NEW acks \in SUBSET Acks, NEW k \in Nat,
           \A a \in acks : a.term = T
               => a.index < k \/ node'[a.node].current_term = T
    PROVE  Blocked(T, k, acks)'
<1>1. PICK j \in Node : Elected(votes', j, u) BY DEF Elections
<1>2. PICK Q \in SUBSET Node : /\ has_majority(Cardinality(Q), ClusterSize)
                               /\ \A q \in Q : Vote(q, u, j) \in votes'
  BY <1>1 DEF Elected
<1>3. \A q \in Q : node'[q].current_term > T /\ node'[q].current_term \in Nat
  <2> TAKE q \in Q
  <2>1. VoteInForce(Vote(q, u, j))' BY <1>2 DEF ElectionInv, OneVotePerTerm
  <2>2. node'[q].current_term \in Nat BY DEF BoundsInv, TypeOK, NodeState
  <2>3. node'[q].current_term >= u BY <2>1, <2>2 DEF VoteInForce, Vote
  <2> QED BY <2>2, <2>3
<1>4. \A q \in Q : \A a \in acks : a.node = q /\ a.term = T => a.index < k
  BY <1>3
<1> QED BY <1>2, <1>3, <1>4 DEF Blocked, Majority

\* A leader, new or not, appends an entry of its term.
LEMMA WriteLogs ==
    ASSUME BoundsInv, BoundsInv', ElectionInv, ElectionInv',
           NEW led \in Led, NEW acks \in SUBSET Acks, LogInv(led, acks),
           NEW i \in Node, NEW r \in NodeState, node'[i] = r,
           \A j \in Node \ {i} : node'[j] = node[j], votes \subseteq votes',
           r.role = "Leader", r.current_term >= node[i].current_term,
           NEW e \in Entry, e.term = r.current_term,
           r.log = Append(node[i].log, e), NEW also \in SUBSET Acks,
           Agree(led[r.current_term], r.log, Len(led[r.current_term])),
           led[r.current_term] = <<>> =>
               \A t \in Nat : t < r.current_term =>
                   \A k \in 1..Len(led[t]) : led[t][k].term = t =>
                       Carries(r.log, t, k) \/ Blocked(t, k, also)',
           also = acks \cup {Ack(i, r.current_term, Len(r.log))},
           Acknowledged(i, r, also),
           \A v \in votes' : v \in votes \/ VoteCompares(v, node'[v.candidate], also),
           NEW more \in Led, more = Written(led, r.current_term, r.log),
           \A m \in msgs' : m \in msgs \/ SentSafely(m, more, also)
    PROVE  LogInv(more, also)'
<1> DEFINE n == node[i]
           T == r.current_term
<1>0. /\ T \in Nat /\ r.log \in Seq(Entry) /\ n.log \in Seq(Entry)
      /\ n.current_term \in Nat /\ Len(n.log) \in Nat
  BY NodeFacts DEF NodeState
<1>1. /\ Len(r.log) = Len(n.log) + 1 /\ Len(r.log) \in Nat \ {0}
      /\ Agree(n.log, r.log, Len(n.log)) /\ LastTerm(r.log) = T /\ r.log # <<>>
      /\ r.log[Len(r.log)].term = T
  BY <1>0, AppendFacts, SMTT(30)
<1>2. /\ Backed(n.log, led) /\ WrittenBy(n.log, n.current_term) /\ WrittenBy(n.log, T)
      /\ LeadersLogs(led)
  <2>1. NodeLog(n, led) BY DEF LogInv, NodesLogs
  <2>2. \A k \in 1..Len(n.log) : n.log[k].term \in Nat BY <1>0, LogFacts
  <2> QED BY <1>0, <2>1, <2>2 DEF NodeLog, LogInv, WrittenBy
<1>3. Grows(led, more) /\ Backed(r.log, more) /\ WrittenBy(r.log, T)
  BY <1>0, <1>2, AppendBacked
<1>4. more[T] = r.log /\ \A t \in Nat \ {T} : more[t] = led[t]
  BY <1>0 DEF Written, Led
<1>5. AcksGrow(acks, also) BY DEF AcksGrow, Ack
<1>6. NodesContinue
  <2> SUFFICES ASSUME NEW j \in Node PROVE Continues(node[j], node'[j])
    BY DEF NodesContinue
  <2>1. CASE j = i BY <2>1 DEF Continues
  <2>2. CASE j # i
    <3>1. node[j].current_term \in Nat BY NodeFacts
    <3> QED BY <2>2, <3>1 DEF Continues
  <2> QED BY <2>1, <2>2
<1>7. LeadersLogs(more)'
  <2>1. (Elections(T) # {})'
    <3>1. Elected(votes', i, T)
      <4>1. Leader(i)' BY DEF Leader
      <4> QED BY <4>1 DEF ElectionInv, OnlyTheElectedLead
    <3>2. Holds(node'[i], T, 0) BY <1>1 DEF Holds
    <3> QED BY <3>1, <3>2 DEF Elections
  <2>2. LeaderLog(T, more)' BY <1>1, <1>3, <1>4, <2>1 DEF LeaderLog
  <2> QED BY <1>3, <1>4, <1>6, <2>2, LeadersLogsStep DEF LogInv
<1>8. NodesLogs(more)'
  <2>1. NodeLog(r, more) BY <1>1, <1>3, <1>4 DEF NodeLog
  <2>2. ASSUME NEW j \in Node \ {i}
        PROVE  /\ KeepsLog(node[j], node'[j])
               /\ node'[j].role = "Leader"
                    => more[node[j].current_term] = led[node[j].current_term]
    <3>1. node[j].current_term \in Nat BY NodeFacts
    <3>2. node'[j].role = "Leader" => node[j].current_term # T
      <4> SUFFICES ASSUME node'[j].role = "Leader", node'[j].current_term = T PROVE FALSE
        OBVIOUS
      <4>1. Leader(i)' /\ Leader(j)' /\ node'[i].current_term = node'[j].current_term
        BY DEF Leader
      <4>2. Elected(votes', i, T) /\ Elected(votes', j, T)
        BY <4>1 DEF ElectionInv, OnlyTheElectedLead
      <4>3. \A v, w \in votes' : v.voter = w.voter /\ v.term = w.term => v = w
        BY DEF ElectionInv, OneVotePerTerm
      <4>4. j = i
        <5> HIDE DEF T
        <5> QED BY <4>2, <4>3, OneElectedIn
      <4> QED BY <4>4
    <3> QED BY <1>4, <3>1, <3>2 DEF KeepsLog
  <2> QED BY <1>3, <2>1, <2>2, NodesLogsStep DEF LogInv
<1>9. RequestsQuoteTheLeader(more)' BY <1>3, RequestsStep DEF LogInv
<1>10. AcksAreKept(more, also)'
  <2>1. ASSUME NEW a \in acks, AtLeast(node[a.node].log, a.term, a.index)
        PROVE  AtLeast(node'[a.node].log, a.term, a.index)
    <3>1. CASE a.node # i BY <2>1, <3>1 DEF Acks
    <3>2. CASE a.node = i
      <4>1. a.term \in Nat /\ a.index \in Nat /\ LastTerm(n.log) \in Nat
        BY <1>0, LogFacts DEF Acks
      <4>2. a.term <= n.current_term
        BY <3>2 DEF LogInv, AcksAreKept, AckIsKept
      <4>3. LastTerm(n.log) <= T
        <5>1. CASE n.log = <<>> BY <1>0, <5>1, LogFacts DEF LastTerm, TermAt
        <5>2. CASE n.log # <<>>
          <6>1. Len(n.log) \in 1..Len(n.log) BY <1>0, <5>2, LogFacts
          <6> QED BY <1>0, <1>2, <5>2, <6>1, LogFacts DEF WrittenBy
        <5> QED BY <5>1, <5>2
      <4>4. AtLeast(n.log, a.term, a.index) BY <2>1, <3>2
      <4>5. a.term <= T BY <1>0, <4>1, <4>2
      <4>6. LastTerm(r.log) = T /\ Len(r.log) = Len(n.log) + 1 BY <1>1
      <4>7. AtLeast(r.log, a.term, a.index)
        <5> HIDE DEF n, T
        <5> QED BY <1>0, <4>1, <4>3, <4>4, <4>5, <4>6 DEF AtLeast
      <4> QED BY <3>2, <4>7
    <3> QED BY <3>1, <3>2
  <2>2. AckIsKept(Ack(i, T, Len(r.log)), r, more)
    BY <1>0, <1>1, <1>4 DEF AckIsKept, Ack, AtLeast, Carries
  <2>3. \A a \in also : a \in acks \/ AckIsKept(a, node'[a.node], more)
    <3>1. Ack(i, T, Len(r.log)).node = i BY DEF Ack
    <3> QED BY <2>2, <3>1
  <2> QED BY <1>3, <1>6, <2>1, <2>3, AcksStep DEF LogInv
<1>11. MatchIsAcknowledged(also)'
  <2>1. acks \subseteq also OBVIOUS
  <2>2. ASSUME NEW j \in Node PROVE Acknowledged(j, node'[j], also)
    <3>1. CASE j = i BY <3>1
    <3>2. CASE j # i
      <4>1. Acknowledged(j, node[j], acks) BY DEF LogInv, MatchIsAcknowledged
      <4> QED BY <2>1, <3>2, <4>1 DEF Acknowledged
    <3> QED BY <3>1, <3>2
  <2> QED BY <2>1, <2>2, MatchStep DEF LogInv
<1>12. LaterLeadersKnow(more, also)'
  <2> SUFFICES ASSUME NEW t \in Nat, NEW u \in Nat, t < u, more[u] # <<>>,
                      NEW k \in 1..Len(more[t]), more[t][k].term = t
               PROVE  \/ led[u] # <<>> /\ k <= Len(led[t])
                      \/ Carries(more[u], t, k)
                      \/ Blocked(t, k, also)'
    BY <1>3, <1>5, <1>6, LaterLeadersStep DEF LogInv
  <2>0. /\ Len(led[t]) \in Nat /\ Len(more[t]) \in Nat /\ k \in Nat /\ k <= Len(more[t])
    <3>1. Len(led[t]) \in Nat /\ Len(more[t]) \in Nat BY LenProperties DEF Led
    <3> QED BY <3>1
  <2>1. CASE t = T
    <3>1. CASE k <= Len(led[T])
      BY <1>4, <2>1, <3>1
    <3>2. CASE k > Len(led[T])
      <4>1. (Elections(u) # {})' BY <1>7 DEF LeadersLogs, LeaderLog, Led
      <4>2. ASSUME NEW a \in also, a.term = T
            PROVE  a.index < k \/ node'[a.node].current_term = T
        <5>1. CASE a \in acks
          <6>1. Carries(led[T], T, a.index) /\ a.index \in Nat
            BY <4>2, <5>1 DEF LogInv, AcksAreKept, AckIsKept, Acks
          <6> QED BY <2>0, <2>1, <3>2, <6>1 DEF Carries
        <5>2. CASE a = Ack(i, T, Len(r.log)) BY <5>2 DEF Ack
        <5> QED BY <5>1, <5>2
      <4>3. Blocked(T, k, also)' BY <1>0, <2>0, <2>1, <4>1, <4>2, LaterTermsAreBlocked
      <4> QED BY <2>1, <4>3
    <3> QED BY <2>0, <2>1, <3>1, <3>2
  <2>2. CASE t # T
    <3>1. more[t] = led[t] /\ k \in 1..Len(led[t]) /\ led[t][k].term = t
      BY <1>4, <2>2
    <3>2. CASE u # T BY <1>4, <2>0, <3>1, <3>2
    <3>3. CASE u = T /\ led[T] # <<>> BY <2>0, <3>1, <3>3
    <3>4. CASE u = T /\ led[T] = <<>>
      <4>1. Carries(r.log, t, k) \/ Blocked(t, k, also)' BY <3>1, <3>4
      <4> QED BY <1>4, <3>4, <4>1
    <3> QED BY <3>2, <3>3, <3>4
  <2> QED BY <2>1, <2>2
<1>13. VotesCompareLogs(also)' BY <1>5, <1>6, VotesStep DEF LogInv
<1> QED BY <1>7, <1>8, <1>9, <1>10, <1>11, <1>12, <1>13 DEF LogInv

-----------------------------------------------------------------------------
(* What handlers send. *)

\* A leader's heartbeats quote its log.
LEMMA HeartbeatsQuote ==
    ASSUME NEW led \in Led, NEW acks, NEW i \in Node, NEW r \in NodeState,
           r.role = "Leader", InBounds(r), NodeLog(r, led), LastTerm(r.log) = r.current_term
    PROVE  \A m \in on_heartbeat(i, r) : SentSafely(m, led, acks)
<1> SUFFICES ASSUME NEW j \in Peers(i)
             PROVE  SentSafely(AppendRequest(i, j, r), led, acks)
  BY DEF on_heartbeat
<1> DEFINE m == AppendRequest(i, j, r)
           prev == r.next_index[j] - 1
<1>1. j \in Node BY DEF Peers
<1>2. /\ r.log \in Seq(Entry) /\ Len(r.log) \in Nat /\ r.log = led[r.current_term]
      /\ r.log # <<>> /\ r.next_index[j] \in 1..(Len(r.log) + 1)
      /\ r.current_term \in Nat
  BY <1>1, LenProperties DEF NodeState, NodeLog, InBounds
<1>3. /\ m.type = "AppendRequest" /\ m.term = r.current_term /\ m.prev_log_index = prev
      /\ m.prev_log_term = TermAt(r.log, prev)
      /\ m.entries = SubSeq(r.log, prev + 1, Len(r.log))
  BY DEF AppendRequest
<1>4. Covers(m) = Len(r.log) BY <1>1, <1>2, AppendRequestType DEF Covers
<1>5. Carries(r.log, r.current_term, Len(r.log)) /\ Len(r.log) > 0
  BY <1>2, LogFacts DEF Carries
<1>6. \A x \in 1..Len(m.entries) : m.entries[x] = r.log[prev + x]
  <2>1. prev \in 0..Len(r.log) /\ prev + 1 \in Int /\ Len(r.log) \in Int BY <1>2
  <2>2. \A k \in (prev + 1)..Len(r.log) : r.log[k] \in Entry BY <1>2, <2>1, LogFacts
  <2> HIDE DEF prev, m
  <2>3. /\ Len(m.entries) = IF prev + 1 <= Len(r.log) THEN Len(r.log) - (prev + 1) + 1 ELSE 0
        /\ \A x \in 1..(Len(r.log) - (prev + 1) + 1) : m.entries[x] = r.log[(prev + 1) + x - 1]
    BY <1>3, <2>1, <2>2, SubSeqProperties
  <2> SUFFICES ASSUME NEW x \in 1..Len(m.entries)
               PROVE  m.entries[x] = r.log[prev + x]
    OBVIOUS
  <2>4. x \in 1..(Len(r.log) - (prev + 1) + 1) /\ (prev + 1) + x - 1 = prev + x
    BY <1>2, <2>1, <2>3
  <2> QED BY <2>3, <2>4
<1> HIDE DEF m, prev
<1>7. Quotes(m, led[m.term]) BY <1>2, <1>3, <1>4, <1>5, <1>6 DEF Quotes
<1>8. AnswerIsAcknowledged(m, acks) /\ ShowsLog(m, node'[m.from])
  BY <1>3 DEF AnswerIsAcknowledged, ShowsLog
<1> QED BY <1>7, <1>8 DEF SentSafely, m

\* Answers that acknowledge no entries.
LEMMA AnswersAreSafe ==
    ASSUME NEW led, NEW acks, NEW i, NEW j, NEW t, NEW k, NEW granted
    PROVE  /\ SentSafely(VoteResponse(i, j, t, granted), led, acks)
           /\ SentSafely(AppendResponse(i, j, t, k, FALSE), led, acks)
BY DEF SentSafely, VoteResponse, AppendResponse, AnswerIsAcknowledged, ShowsLog

-----------------------------------------------------------------------------
(* Steps that leave all logs alone. *)

\* What node i shows of the invariant when it does not move.
LEMMA IdleNode ==
    ASSUME BoundsInv, NEW led, NEW acks, LogInv(led, acks), NEW i \in Node,
           node'[i] = node[i]
    PROVE  /\ Continues(node[i], node'[i]) /\ KeepsLog(node[i], node'[i])
           /\ Acknowledged(i, node'[i], acks)
<1>1. node[i].current_term \in Nat BY NodeFacts
<1>2. Acknowledged(i, node[i], acks) BY DEF LogInv, MatchIsAcknowledged
<1> QED BY <1>1, <1>2 DEF Continues, KeepsLog

\* A step that changes no node.
LEMMA IdleLogs ==
    ASSUME BoundsInv, BoundsInv', ElectionInv, ElectionInv',
           NEW led \in Led, NEW acks \in SUBSET Acks, LogInv(led, acks),
           UNCHANGED <<node, votes>>,
           \A m \in msgs' : m \in msgs \/ SentSafely(m, led, acks)
    PROVE  LogInv(led, acks)'
<1>1. \A i \in Node : /\ Continues(node[i], node'[i]) /\ KeepsLog(node[i], node'[i])
                      /\ Acknowledged(i, node'[i], acks)
  BY IdleNode
<1>2. NodesContinue BY <1>1 DEF NodesContinue
<1> QED BY <1>1, <1>2, StillLogs

\* A step that changes one node, and not its log.
LEMMA OneNodeLogs ==
    ASSUME BoundsInv, BoundsInv', ElectionInv, ElectionInv',
           NEW led \in Led, NEW acks \in SUBSET Acks, LogInv(led, acks),
           NEW i \in Node, NEW r, NEW cl, NEW voters, Finish(i, r, cl, voters),
           votes \subseteq votes',
           \A v \in votes' : v \in votes \/ VoteCompares(v, node'[v.candidate], acks),
           Continues(node[i], r), KeepsLog(node[i], r), Acknowledged(i, r, acks),
           \A m \in msgs' : m \in msgs \/ SentSafely(m, led, acks)
    PROVE  LogInv(led, acks)'
<1>1. node'[i] = r /\ \A j \in Node \ {i} : node'[j] = node[j] BY FinishNode
<1>2. \A j \in Node : /\ Continues(node[j], node'[j]) /\ KeepsLog(node[j], node'[j])
                      /\ Acknowledged(j, node'[j], acks)
  BY <1>1, IdleNode
<1>3. NodesContinue BY <1>2 DEF NodesContinue
<1> QED BY <1>2, <1>3, StillLogs

\* A node that steps down, or is created again, counts on no acknowledgement.
LEMMA FollowerLogs ==
    ASSUME BoundsInv, BoundsInv', ElectionInv, ElectionInv',
           NEW led \in Led, NEW acks \in SUBSET Acks, LogInv(led, acks),
           NEW i \in Node, NEW r, NEW cl, NEW voters, Finish(i, r, cl, voters),
           votes' = votes, r.role = "Follower", r.log = node[i].log,
           r.current_term >= node[i].current_term,
           \A m \in msgs' : m \in msgs \/ SentSafely(m, led, acks)
    PROVE  LogInv(led, acks)'
<1>1. Continues(node[i], r) /\ KeepsLog(node[i], r) /\ Acknowledged(i, r, acks)
  BY DEF Continues, KeepsLog, Acknowledged
<1> QED BY <1>1, OneNodeLogs

-----------------------------------------------------------------------------
(* The actions that leave all logs alone, one lemma each. *)

\* The last entry of a leader's log is of its term.
LEMMA LeaderEndsInTerm ==
    ASSUME BoundsInv, NEW led \in Led, NEW acks, LogInv(led, acks), NEW i \in Node,
           node[i].role = "Leader"
    PROVE  NodeLog(node[i], led) /\ LastTerm(node[i].log) = node[i].current_term
<1>1. NodeLog(node[i], led) BY DEF LogInv, NodesLogs
<1>2. node[i].current_term \in Nat BY NodeFacts
<1>3. LeaderLog(node[i].current_term, led) BY <1>2 DEF LogInv, LeadersLogs, Led
<1> QED BY <1>1, <1>3 DEF NodeLog, LeaderLog

\* heartbeat: the leader repeats what it has.
LEMMA HeartbeatLogs ==
    ASSUME BoundsInv, BoundsInv', ElectionInv, ElectionInv',
           NEW led \in Led, NEW acks \in SUBSET Acks, LogInv(led, acks),
           NEW i \in Node, heartbeat(i)
    PROVE  LogInv(led, acks)'
<1>1. /\ node[i].role = "Leader" /\ send_message(msgs, on_heartbeat(i, node[i]))
      /\ UNCHANGED <<node, votes>>
  BY DEF heartbeat
<1>2. \A m \in on_heartbeat(i, node[i]) : SentSafely(m, led, acks)
  <2>1. node[i] \in NodeState /\ InBounds(node[i]) BY NodeFacts, NodeInBounds
  <2> QED BY <1>1, <2>1, LeaderEndsInTerm, HeartbeatsQuote
<1>3. msgs' \subseteq msgs \cup on_heartbeat(i, node[i]) BY <1>1, SendAdds
<1> QED BY <1>1, <1>2, <1>3, IdleLogs

\* vote_request of an older term.
LEMMA VoteRequestStaleLogs ==
    ASSUME BoundsInv, BoundsInv', ElectionInv, ElectionInv',
           NEW led \in Led, NEW acks \in SUBSET Acks, LogInv(led, acks),
           NEW m \in msgs, vote_request_stale(m)
    PROVE  LogInv(led, acks)'
<1> DEFINE q == VoteResponse(m.to, m.from, node[m.to].current_term, FALSE)
<1>1. Receive(m, {q}) /\ UNCHANGED <<node, votes>> BY DEF vote_request_stale
<1>2. SentSafely(q, led, acks) BY AnswersAreSafe
<1> HIDE DEF q
<1>3. msgs' \subseteq msgs \cup {q} BY <1>1, ReceiveAdds
<1>4. \A x \in msgs' : x \in msgs \/ SentSafely(x, led, acks) BY <1>2, <1>3
<1> QED BY <1>1, <1>4, IdleLogs

\* What a node that decides on a vote request shows of the invariant.
LEMMA ObservedLogs ==
    ASSUME BoundsInv, NEW led, NEW acks, LogInv(led, acks), NEW m \in msgs,
           m.term >= node[m.to].current_term
    PROVE  LET o == Observed(node[m.to], m.term)
           IN  /\ o \in NodeState /\ o.current_term = m.term
               /\ o.log = node[m.to].log /\ Acknowledged(m.to, o, acks)
               /\ Continues(node[m.to], o) /\ KeepsLog(node[m.to], o)
<1> DEFINE n == node[m.to]
           o == Observed(n, m.term)
<1>1. m.to \in Node /\ m.term \in Nat /\ n \in NodeState /\ n.current_term \in Nat
  BY HandlerContext
<1>2. Acknowledged(m.to, n, acks) BY <1>1 DEF LogInv, MatchIsAcknowledged
<1> HIDE DEF n
<1>3. m.term >= n.current_term BY DEF n
<1>4. /\ o \in NodeState /\ o.current_term = m.term /\ o.log = n.log
      /\ m.term > n.current_term => o.role = "Follower"
      /\ m.term = n.current_term => o = n
  BY <1>1, <1>3, ObservedEvolves
<1> HIDE DEF o
<1>5. m.term > n.current_term \/ m.term = n.current_term BY <1>1, <1>3
<1>6. Acknowledged(m.to, o, acks) BY <1>2, <1>4, <1>5 DEF Acknowledged
<1>7. Continues(n, o) /\ KeepsLog(n, o)
  BY <1>1, <1>3, <1>4, <1>5 DEF Continues, KeepsLog
<1> QED BY <1>4, <1>6, <1>7 DEF o, n

\* vote_request refused.
LEMMA VoteRequestRejectLogs ==
    ASSUME BoundsInv, BoundsInv', ElectionInv, ElectionInv',
           NEW led \in Led, NEW acks \in SUBSET Acks, LogInv(led, acks),
           NEW m \in msgs, vote_request_reject(m)
    PROVE  LogInv(led, acks)'
<1> DEFINE i == m.to
           r == Observed(node[i], m.term)
           q == VoteResponse(i, m.from, r.current_term, FALSE)
<1>1. i \in Node BY HandlerContext
<1>2. /\ m.term >= node[i].current_term /\ Receive(m, {q})
      /\ Finish(i, r, client, VotersKept(m)) /\ votes' = votes
  BY DEF vote_request_reject
<1>3. Acknowledged(i, r, acks) /\ Continues(node[i], r) /\ KeepsLog(node[i], r)
  BY <1>2, ObservedLogs
<1>4. SentSafely(q, led, acks) BY AnswersAreSafe
<1> HIDE DEF i, r, q
<1>5. msgs' \subseteq msgs \cup {q} BY <1>2, ReceiveAdds
<1>6. \A x \in msgs' : x \in msgs \/ SentSafely(x, led, acks) BY <1>4, <1>5
<1> QED BY <1>1, <1>2, <1>3, <1>6, OneNodeLogs

\* vote_request granted: the voter compares its log with the one the candidate
\* still has, so what it has acknowledged the candidate's log is as good as.
LEMMA VoteRequestGrantLogs ==
    ASSUME BoundsInv, BoundsInv', ElectionInv, ElectionInv',
           NEW led \in Led, NEW acks \in SUBSET Acks, LogInv(led, acks),
           NEW m \in msgs, m.type = "VoteRequest", vote_request_grant(m)
    PROVE  LogInv(led, acks)'
<1> DEFINE i == m.to
           o == Observed(node[i], m.term)
           r == [o EXCEPT !.voted_for = m.from]
           q == VoteResponse(i, m.from, r.current_term, TRUE)
           v == Vote(i, r.current_term, m.from)
           c == node[m.from]
<1>1. /\ i \in Node /\ m.from \in Node /\ m.from # i /\ m.term \in Nat
      /\ c \in NodeState /\ c.current_term \in Nat
  BY HandlerContext, NodeFacts
<1>2. /\ m.term >= node[i].current_term /\ Receive(m, {q})
      /\ Finish(i, r, client, VotersKept(m)) /\ votes' = votes \cup {v}
      /\ UpToDate(m.last_log_term, m.last_log_index, o.log)
  BY DEF vote_request_grant, GrantsVote
<1>3. /\ o \in NodeState /\ o.current_term = m.term /\ o.log = node[i].log
      /\ Acknowledged(i, o, acks) /\ Continues(node[i], o) /\ KeepsLog(node[i], o)
  BY <1>2, ObservedLogs
<1>4. SentSafely(q, led, acks) BY AnswersAreSafe
<1> HIDE DEF o
<1>5. /\ r.current_term = m.term /\ r.log = o.log /\ r.role = o.role
      /\ r.match_index = o.match_index
  BY <1>3 DEF NodeState
<1>6. Acknowledged(i, r, acks) /\ Continues(node[i], r) /\ KeepsLog(node[i], r)
  BY <1>3, <1>5 DEF Acknowledged, Continues, KeepsLog
<1>7. node'[m.from] = c BY <1>1, <1>2, FinishNode
<1>8. VoteCompares(v, c, acks)
  <2>1. v.term = m.term /\ v.voter = i /\ v.candidate = m.from BY <1>5 DEF Vote
  <2>2. m.term <= c.current_term
    BY <1>1 DEF ElectionInv, RequestsAreFresh
  <2>3. ASSUME c.role = "Candidate", c.current_term = m.term,
               NEW a \in acks, a.node = i, a.term < m.term
        PROVE  AtLeast(c.log, a.term, a.index)
    <3>1. m.last_log_index = Len(c.log) /\ m.last_log_term = LastTerm(c.log)
      BY <2>3 DEF LogInv, VotesCompareLogs, ShowsLog
    <3>2. AtLeast(node[i].log, a.term, a.index)
      BY <2>3 DEF LogInv, AcksAreKept, AckIsKept
    <3>3. UpToDate(LastTerm(c.log), Len(c.log), node[i].log) BY <1>2, <1>3, <3>1
    <3>4. a.term \in Nat /\ a.index \in Nat /\ c.log \in Seq(Entry) /\ node[i].log \in Seq(Entry)
      BY <1>1, NodeFacts DEF Acks
    <3> QED BY <3>2, <3>3, <3>4, AtLeastTrans
  <2> HIDE DEF v, c
  <2> QED BY <2>1, <2>2, <2>3 DEF VoteCompares
<1>9. \A w \in votes' : w \in votes \/ VoteCompares(w, node'[w.candidate], acks)
  <2>1. v.candidate = m.from BY DEF Vote
  <2> HIDE DEF v, c
  <2> QED BY <1>2, <1>7, <1>8, <2>1
<1>10. votes \subseteq votes' BY <1>2
<1> HIDE DEF i, r, q, v, c
<1>11. msgs' \subseteq msgs \cup {q} BY <1>2, ReceiveAdds
<1>12. \A x \in msgs' : x \in msgs \/ SentSafely(x, led, acks) BY <1>4, <1>11
<1> QED BY <1>1, <1>2, <1>6, <1>9, <1>10, <1>12, OneNodeLogs

\* step_down, on any response of a later term.
LEMMA StepDownLogs ==
    ASSUME BoundsInv, BoundsInv', ElectionInv, ElectionInv',
           NEW led \in Led, NEW acks \in SUBSET Acks, LogInv(led, acks),
           NEW m \in msgs, step_down(m)
    PROVE  LogInv(led, acks)'
<1> DEFINE i == m.to
           r == become_follower(node[i], m.term)
<1>1. /\ i \in Node /\ m.term \in Nat /\ node[i] \in NodeState
      /\ node[i].current_term \in Nat
  BY HandlerContext
<1>2. /\ m.term > node[i].current_term /\ Receive(m, {})
      /\ Finish(i, r, client, {}) /\ votes' = votes
  BY DEF step_down
<1> HIDE DEF i
<1>3. r.role = "Follower" /\ r.log = node[i].log /\ r.current_term = m.term
  BY <1>1, <1>2, BecomeFollower
<1> HIDE DEF r
<1>4. r.current_term >= node[i].current_term BY <1>1, <1>2, <1>3
<1>5. msgs' \subseteq msgs \cup {} BY <1>2, ReceiveAdds
<1>6. \A x \in msgs' : x \in msgs \/ SentSafely(x, led, acks) BY <1>5
<1> QED BY <1>1, <1>2, <1>3, <1>4, <1>6, FollowerLogs

\* A response nothing is done with.
LEMMA IgnoreLogs ==
    ASSUME BoundsInv, BoundsInv', ElectionInv, ElectionInv',
           NEW led \in Led, NEW acks \in SUBSET Acks, LogInv(led, acks),
           NEW m, ignore(m)
    PROVE  LogInv(led, acks)'
<1>1. Receive(m, {}) /\ UNCHANGED <<node, votes>> BY DEF ignore
<1>2. msgs' \subseteq msgs \cup {} BY <1>1, ReceiveAdds
<1>3. \A x \in msgs' : x \in msgs \/ SentSafely(x, led, acks) BY <1>2
<1> QED BY <1>1, <1>3, IdleLogs

\* append_request of an older term.
LEMMA AppendRequestStaleLogs ==
    ASSUME BoundsInv, BoundsInv', ElectionInv, ElectionInv',
           NEW led \in Led, NEW acks \in SUBSET Acks, LogInv(led, acks),
           NEW m \in msgs, append_request_stale(m)
    PROVE  LogInv(led, acks)'
<1> DEFINE q == AppendResponse(m.to, m.from, node[m.to].current_term, 0, FALSE)
<1>1. Receive(m, {q}) /\ UNCHANGED <<node, votes>> BY DEF append_request_stale
<1>2. SentSafely(q, led, acks) BY AnswersAreSafe
<1> HIDE DEF q
<1>3. msgs' \subseteq msgs \cup {q} BY <1>1, ReceiveAdds
<1>4. \A x \in msgs' : x \in msgs \/ SentSafely(x, led, acks) BY <1>2, <1>3
<1> QED BY <1>1, <1>4, IdleLogs

\* append_request without the previous entry.
LEMMA AppendRequestMismatchLogs ==
    ASSUME BoundsInv, BoundsInv', ElectionInv, ElectionInv',
           NEW led \in Led, NEW acks \in SUBSET Acks, LogInv(led, acks),
           NEW m \in msgs, m.type = "AppendRequest", Current(m),
           append_request_mismatch(m), UNCHANGED votes
    PROVE  LogInv(led, acks)'
<1> DEFINE i == m.to
           r == Following(node[i], m)
           hint == IF m.prev_log_index > Len(r.log) THEN Len(r.log)
                   ELSE m.prev_log_index
           q == AppendResponse(i, m.from, r.current_term, hint, FALSE)
<1>1. i \in Node /\ m.term \in Nat /\ node[i].current_term \in Nat BY HandlerContext
<1>2. Receive(m, {q}) /\ Finish(i, r, client, {}) BY DEF append_request_mismatch
<1>3. SentSafely(q, led, acks) BY AnswersAreSafe
<1>4. /\ r.role = "Follower" /\ r.log = node[i].log /\ r.current_term = m.term
  BY FollowingEvolves
<1>5. r.current_term >= node[i].current_term BY <1>1, <1>4 DEF Current
<1> HIDE DEF i, r, hint, q
<1>6. msgs' \subseteq msgs \cup {q} BY <1>2, ReceiveAdds
<1>7. \A x \in msgs' : x \in msgs \/ SentSafely(x, led, acks) BY <1>3, <1>6
<1> QED BY <1>1, <1>2, <1>4, <1>5, <1>7, FollowerLogs

\* A restart begins with the saved log.
LEMMA RestartLogs ==
    ASSUME BoundsInv, BoundsInv', ElectionInv, ElectionInv',
           NEW led \in Led, NEW acks \in SUBSET Acks, LogInv(led, acks),
           NEW i \in Node, restart(i)
    PROVE  LogInv(led, acks)'
<1> DEFINE r == restore_state(disk[i])
<1>1. /\ Finish(i, r, Drop(client, node[i].pending_applies), {})
      /\ UNCHANGED <<msgs, votes>>
  BY DEF restart
<1>2. disk[i] \in Saved /\ disk[i] = PersistentState(node[i]) /\ node[i] \in NodeState
  BY DEF BoundsInv, TypeOK, Persisted
<1>3. disk[i].current_term = node[i].current_term /\ disk[i].log = node[i].log
  BY <1>2 DEF PersistentState
<1>4. r.role = "Follower" /\ r.log = node[i].log /\ r.current_term = node[i].current_term
  BY <1>3 DEF restore_state
<1>5. r.current_term >= node[i].current_term
  <2>1. node[i].current_term \in Nat BY NodeFacts
  <2> QED BY <1>4, <2>1
<1> HIDE DEF r
<1> QED BY <1>1, <1>4, <1>5, FollowerLogs

\* A stop between the two saves of a handler leaves the log as it was.
LEMMA CrashAfterStepDownLogs ==
    ASSUME BoundsInv, BoundsInv', ElectionInv, ElectionInv',
           NEW led \in Led, NEW acks \in SUBSET Acks, LogInv(led, acks),
           NEW m \in msgs, crash_after_step_down(m)
    PROVE  LogInv(led, acks)'
<1> DEFINE i == m.to
           n == become_follower(node[i], m.term)
           r == restore_state(PersistentState(n))
<1>1. /\ i \in Node /\ m.term \in Nat /\ node[i] \in NodeState
      /\ node[i].current_term \in Nat
  BY HandlerContext
<1>2. /\ m.term > node[i].current_term /\ Receive(m, {}) /\ votes' = votes
      /\ Finish(i, r, Drop(client, node[i].pending_applies), {})
  BY DEF crash_after_step_down
<1> HIDE DEF i
<1>3. n.log = node[i].log /\ n.current_term = m.term BY <1>1, <1>2, BecomeFollower
<1> HIDE DEF n
<1>4. r.role = "Follower" /\ r.log = node[i].log /\ r.current_term = m.term
  BY <1>3 DEF restore_state, PersistentState
<1> HIDE DEF r
<1>5. r.current_term >= node[i].current_term BY <1>1, <1>2, <1>4
<1>6. msgs' \subseteq msgs \cup {} BY <1>2, ReceiveAdds
<1>7. \A x \in msgs' : x \in msgs \/ SentSafely(x, led, acks) BY <1>6
<1> QED BY <1>1, <1>2, <1>4, <1>5, <1>7, FollowerLogs

\* append_response: a success carries the index its sender has acknowledged.
LEMMA AppendResponseLogs ==
    ASSUME BoundsInv, BoundsInv', ElectionInv, ElectionInv',
           NEW led \in Led, NEW acks \in SUBSET Acks, LogInv(led, acks),
           NEW m \in msgs, m.type = "AppendResponse",
           m.term = node[m.to].current_term, append_response_handled(m)
    PROVE  LogInv(led, acks)'
<1> DEFINE i == m.to
           o == node[i]
           k == backoff(m.match_index)
           won == [o EXCEPT !.match_index[m.from] = m.match_index,
                            !.next_index[m.from] = m.match_index + 1]
           lost == [o EXCEPT !.next_index[m.from] = k]
           n == IF m.success THEN won ELSE lost
           r == Commit(n)
<1>1. /\ i \in Node /\ m.from \in Node /\ m.from # i /\ o \in NodeState
      /\ o.current_term \in Nat
  BY HandlerContext
<1>2. /\ m.match_index \in Nat /\ m.success \in BOOLEAN
      /\ k \in Nat /\ m.match_index + 1 \in Nat
  <2>1. m.match_index \in Nat /\ m.success \in BOOLEAN
    BY DEF BoundsInv, TypeOK, Message
  <2> QED BY <2>1, BackoffType
<1>3. /\ o.role = "Leader" /\ Receive(m, {}) /\ votes' = votes
      /\ Finish(i, r, Answer(client, CommitReplies(n)), {})
  BY DEF append_response_handled
<1>4. Acknowledged(i, o, acks) BY <1>1 DEF LogInv, MatchIsAcknowledged
<1>5. m.success => Ack(m.from, o.current_term, m.match_index) \in acks
  BY DEF LogInv, MatchIsAcknowledged, AnswerIsAcknowledged
<1> HIDE DEF i, o, k
<1>6. /\ won \in NodeState /\ won.log = o.log /\ won.role = o.role
      /\ won.current_term = o.current_term
      /\ won.match_index = [o.match_index EXCEPT ![m.from] = m.match_index]
  BY <1>1, <1>2 DEF NodeState
<1>7. /\ lost \in NodeState /\ lost.log = o.log /\ lost.role = o.role
      /\ lost.current_term = o.current_term /\ lost.match_index = o.match_index
  BY <1>1, <1>2 DEF NodeState
<1> HIDE DEF won, lost
<1>8. /\ n \in NodeState /\ n.log = o.log /\ n.role = o.role
      /\ n.current_term = o.current_term
  BY <1>6, <1>7
<1>9. \A j \in Node : n.match_index[j] = 0
                        \/ Ack(j, o.current_term, n.match_index[j]) \in acks
  <2>1. CASE ~m.success BY <1>3, <1>4, <1>7, <2>1 DEF Acknowledged
  <2>2. CASE m.success
    <3> TAKE j \in Node
    <3>1. o.match_index \in [Node -> Nat] BY <1>1 DEF NodeState
    <3>2. CASE j = m.from BY <1>1, <1>5, <1>6, <2>2, <3>1, <3>2
    <3>3. CASE j # m.from
      <4>1. n.match_index[j] = o.match_index[j] BY <1>1, <1>6, <2>2, <3>1, <3>3
      <4> QED BY <1>3, <1>4, <4>1 DEF Acknowledged
    <3> QED BY <3>2, <3>3
  <2> QED BY <2>1, <2>2
<1>10. n.match_index[i] = 0
  <2>1. o.match_index \in [Node -> Nat] BY <1>1 DEF NodeState
  <2> QED BY <1>1, <1>3, <1>4, <1>6, <1>7, <2>1 DEF Acknowledged
<1> HIDE DEF n
<1>11. SameCore(n, r) BY <1>8, CommitKeeps
<1> HIDE DEF r
<1>12. /\ r.log = o.log /\ r.role = "Leader" /\ r.current_term = o.current_term
       /\ r.match_index = n.match_index
  BY <1>3, <1>8, <1>11 DEF SameCore
<1>13. Continues(o, r) /\ KeepsLog(o, r) BY <1>1, <1>3, <1>12 DEF Continues, KeepsLog
<1>14. Acknowledged(i, r, acks) BY <1>3, <1>4, <1>9, <1>10, <1>12 DEF Acknowledged
<1>15. msgs' \subseteq msgs \cup {} BY <1>3, ReceiveAdds
<1>16. \A x \in msgs' : x \in msgs \/ SentSafely(x, led, acks) BY <1>15
<1>17. Continues(node[i], r) /\ KeepsLog(node[i], r) BY <1>13 DEF o
<1>18. \A v \in votes' : v \in votes BY <1>3
<1> QED BY <1>1, <1>3, <1>14, <1>16, <1>17, <1>18, OneNodeLogs

-----------------------------------------------------------------------------
(* The actions that change a log or the acknowledgements. *)

\* A history that extends led and acks explains the state after the step.
LogExtended(led, acks) ==
    \E more \in Led, also \in SUBSET Acks :
        Grows(led, more) /\ acks \subseteq also /\ LogInv(more, also)'

\* What append_request_accept makes of its node: the log it leaves has all of
\* the request and agrees with the leader's, and a cut stays above whatever the
\* follower had in common with the leader.
LEMMA AcceptFacts ==
    ASSUME BoundsInv, NEW led \in Led, NEW acks, LogInv(led, acks),
           NEW m \in msgs, m.type = "AppendRequest", Current(m),
           append_request_accept(m)
    PROVE  LET i == m.to
               f == Following(node[i], m)
               log == AppendEntries(f.log, m.prev_log_index, m.entries)
               n == [f EXCEPT !.log = log,
                              !.commit_index = IF m.leader_commit > f.commit_index
                                               THEN Min({m.leader_commit, Len(log)})
                                               ELSE f.commit_index]
               r == apply_committed(n)
               lead == led[m.term]
           IN  /\ f \in NodeState /\ n \in NodeState /\ SameCore(n, r) /\ r \in NodeState
               /\ n.log = log /\ n.current_term = m.term /\ n.role = "Follower"
               /\ n.applied = f.applied /\ n.pending_applies = f.pending_applies
               /\ lead \in Seq(Entry) /\ Covers(m) \in Nat \ {0}
               /\ Carries(lead, m.term, Covers(m)) /\ Agree(log, lead, Covers(m))
               /\ \/ log = node[i].log
                  \/ /\ Len(log) = Covers(m)
                     /\ \A c \in Nat : Agree(node[i].log, lead, c)
                                         => c < Covers(m) /\ Agree(log, node[i].log, c)
<1> DEFINE i == m.to
           o == node[i]
           f == Following(o, m)
           log == AppendEntries(f.log, m.prev_log_index, m.entries)
           commit == IF m.leader_commit > f.commit_index
                     THEN Min({m.leader_commit, Len(log)}) ELSE f.commit_index
           n == [f EXCEPT !.log = log, !.commit_index = commit]
           r == apply_committed(n)
           lead == led[m.term]
<1>1. /\ i \in Node /\ o \in NodeState /\ m.term \in Nat /\ o.log \in Seq(Entry)
  BY HandlerContext, NodeFacts
<1>2. /\ m.prev_log_index \in Nat /\ m.entries \in Seq(Entry)
      /\ Len(m.entries) \in Nat /\ m.leader_commit \in Nat
  BY AppendRequestContext
<1>3. /\ f \in NodeState /\ f.current_term = m.term /\ f.role = "Follower"
      /\ f.log = o.log
  BY FollowingEvolves
<1>4. lead \in Seq(Entry) /\ Backed(lead, led) /\ Backed(o.log, led)
  <2>1. lead \in Seq(Entry) BY <1>1 DEF Led
  <2>2. LeaderLog(m.term, led) BY <1>1 DEF LogInv, LeadersLogs, Led
  <2>3. NodeLog(o, led) BY <1>1 DEF LogInv, NodesLogs
  <2> QED BY <2>1, <2>2, <2>3 DEF LeaderLog, NodeLog
<1>5. Quotes(m, lead) BY DEF LogInv, RequestsQuoteTheLeader
<1>6. /\ HoldsPrevious(f.log, m)
  BY DEF append_request_accept
<1>7. /\ Covers(m) \in Nat \ {0} /\ Carries(lead, m.term, Covers(m))
      /\ m.prev_log_index + Len(m.entries) <= Len(lead)
      /\ \A x \in 1..Len(m.entries) : m.entries[x] = lead[m.prev_log_index + x]
      /\ m.prev_log_term = TermAt(lead, m.prev_log_index)
  <2> HIDE DEF lead
  <2> QED BY <1>2, <1>5 DEF Quotes, Covers, Carries
<1>8. /\ m.prev_log_index <= Len(o.log)
      /\ TermAt(o.log, m.prev_log_index) = TermAt(lead, m.prev_log_index)
  BY <1>3, <1>6, <1>7 DEF HoldsPrevious
<1> HIDE DEF o, f, lead
<1>9. /\ log \in Seq(Entry) /\ Agree(log, lead, Covers(m))
      /\ \/ log = o.log
         \/ /\ Len(log) = Covers(m)
            /\ \A c \in Nat : Agree(o.log, lead, c) => c < Covers(m) /\ Agree(log, o.log, c)
  <2> DEFINE a == o.log
             prev == m.prev_log_index
             es == m.entries
             merged == AppendEntries(a, prev, es)
             top == prev + Len(es)
  <2>1. /\ a \in Seq(Entry) /\ Backed(a, led) /\ prev \in Nat /\ es \in Seq(Entry)
        /\ prev <= Len(a) /\ TermAt(a, prev) = TermAt(lead, prev)
        /\ prev + Len(es) <= Len(lead)
        /\ \A x \in 1..Len(es) : es[x] = lead[prev + x]
    BY <1>1, <1>2, <1>4, <1>7, <1>8
  <2>2. log = merged /\ Covers(m) = top BY <1>3 DEF Covers
  <2> HIDE DEF a, prev, es
  <2>3. /\ merged \in Seq(Entry) /\ Agree(merged, lead, top)
        /\ \/ merged = a
           \/ /\ Len(merged) = top
              /\ \A c \in Nat : Agree(a, lead, c) => c < top /\ Agree(merged, a, c)
    BY <1>4, <2>1, AppendEntriesMerges
  <2> HIDE DEF log, merged, top
  <2> QED BY <2>2, <2>3 DEF a
<1>10. commit \in Nat
  <2> DEFINE a == m.leader_commit
             b == Len(log)
  <2>1. a \in Nat /\ b \in Nat /\ a \in Int /\ b \in Int BY <1>2, <1>9, LenProperties
  <2>2. f.commit_index \in Nat BY <1>3 DEF NodeState
  <2>3. commit = IF a > f.commit_index THEN Min({a, b}) ELSE f.commit_index OBVIOUS
  <2> HIDE DEF a, b, commit
  <2>4. Min({a, b}) \in {a, b} BY <2>1, MinOfTwo
  <2> QED BY <2>1, <2>2, <2>3, <2>4
<1> HIDE DEF log, commit
<1>11. /\ n \in NodeState /\ n.log = log /\ n.current_term = f.current_term
       /\ n.role = f.role /\ n.applied = f.applied
       /\ n.pending_applies = f.pending_applies
  BY <1>3, <1>9, <1>10 DEF NodeState
<1> HIDE DEF n
<1>12. r \in NodeState /\ SameCore(n, r) BY <1>11, ApplyCommitted
<1> QED BY <1>3, <1>4, <1>7, <1>9, <1>11, <1>12 DEF n, log, commit, o, f, lead

\* append_request with the previous entry: the follower acknowledges what the
\* request covers.
LEMMA AppendRequestAcceptLogs ==
    ASSUME BoundsInv, BoundsInv', ElectionInv, ElectionInv',
           NEW led \in Led, NEW acks \in SUBSET Acks, LogInv(led, acks),
           NEW m \in msgs, m.type = "AppendRequest", Current(m),
           append_request_accept(m), UNCHANGED votes
    PROVE  LogExtended(led, acks)
<1> DEFINE i == m.to
           f == Following(node[i], m)
           log == AppendEntries(f.log, m.prev_log_index, m.entries)
           commit == IF m.leader_commit > f.commit_index
                     THEN Min({m.leader_commit, Len(log)}) ELSE f.commit_index
           n == [f EXCEPT !.log = log, !.commit_index = commit]
           r == apply_committed(n)
           q == AppendResponse(i, m.from, n.current_term, last_match_index(m, log), TRUE)
           also == acks \cup {Ack(i, m.term, Covers(m))}
           lead == led[m.term]
<1>1. i \in Node /\ m.term \in Nat /\ node[i].current_term \in Nat BY HandlerContext
<1>2. Receive(m, {q}) /\ Finish(i, r, Answer(client, replies(n)), {})
  BY DEF append_request_accept
<1>3. /\ SameCore(n, r) /\ r \in NodeState
      /\ n.log = log /\ n.current_term = m.term /\ n.role = "Follower"
      /\ lead \in Seq(Entry) /\ Covers(m) \in Nat \ {0}
      /\ Carries(lead, m.term, Covers(m)) /\ Agree(log, lead, Covers(m))
      /\ \/ log = node[i].log
         \/ /\ Len(log) = Covers(m)
            /\ \A c \in Nat : Agree(node[i].log, lead, c)
                                => c < Covers(m) /\ Agree(log, node[i].log, c)
  BY AcceptFacts
<1>4. m.term >= node[i].current_term BY DEF Current
<1>5. q = AppendResponse(i, m.from, m.term, Covers(m), TRUE)
  <2> HIDE DEF n, log
  <2> QED BY <1>3 DEF last_match_index, Covers
<1> HIDE DEF f, log, n, r, q, lead, i
<1>6. r.log = log /\ r.current_term = m.term /\ r.role = "Follower"
  BY <1>3 DEF SameCore
<1>7. also \in SUBSET Acks /\ acks \subseteq also BY <1>1, <1>3 DEF Acks, Ack
<1>8. Ack(i, m.term, Covers(m)) \in also OBVIOUS
<1> HIDE DEF also
<1>9. SentSafely(q, led, also)
  <2>1. q.type = "AppendResponse" /\ q.from = i /\ q.term = m.term
        /\ q.match_index = Covers(m)
    BY <1>5 DEF AppendResponse
  <2> QED BY <1>8, <2>1 DEF SentSafely, AnswerIsAcknowledged, ShowsLog
<1>10. \A x \in msgs' : x \in msgs \/ SentSafely(x, led, also)
  <2>1. msgs' \subseteq msgs \cup {q} BY <1>2, ReceiveAdds
  <2> QED BY <1>9, <2>1
<1>11. node'[i] = r /\ \A j \in Node \ {i} : node'[j] = node[j]
  BY <1>1, <1>2, FinishNode
<1>12. also = acks \cup {Ack(i, r.current_term, Covers(m))} BY <1>6 DEF also
<1>13. /\ Carries(led[r.current_term], r.current_term, Covers(m))
       /\ Agree(r.log, led[r.current_term], Covers(m))
       /\ \/ r.log = node[i].log
          \/ /\ Len(r.log) = Covers(m)
             /\ \A c \in Nat : Agree(node[i].log, led[r.current_term], c) => c < Covers(m)
  BY <1>3, <1>6 DEF lead
<1>14. LogInv(led, also)'
  BY <1>1, <1>3, <1>4, <1>6, <1>7, <1>10, <1>11, <1>12, <1>13, AcceptLogs
<1>15. Grows(led, led) BY SameHistory
<1> QED BY <1>7, <1>14, <1>15 DEF LogExtended

\* The steps of one node alone keep every node's continuity.
LEMMA OneContinues ==
    ASSUME BoundsInv, NEW i \in Node, \A j \in Node \ {i} : node'[j] = node[j],
           Continues(node[i], node'[i])
    PROVE  NodesContinue
<1> SUFFICES ASSUME NEW j \in Node PROVE Continues(node[j], node'[j])
  BY DEF NodesContinue
<1>1. CASE j = i BY <1>1
<1>2. CASE j # i
  <2>1. node[j].current_term \in Nat BY NodeFacts
  <2> QED BY <1>2, <2>1 DEF Continues
<1> QED BY <1>1, <1>2

\* Nobody has led in the term of a candidate that is elected now.
LEMMA FreshTerm ==
    ASSUME BoundsInv, ElectionInv', NEW led \in Led, LeadersLogs(led),
           votes \subseteq votes', NEW i \in Node, NEW T \in Nat,
           Elected(votes', i, T), ~Holds(node[i], T, 0)
    PROVE  led[T] = <<>>
<1> SUFFICES ASSUME led[T] # <<>> PROVE FALSE OBVIOUS
<1>1. Elections(T) # {} BY DEF LeadersLogs, LeaderLog, Led
<1>2. PICK j \in Node : Elected(votes, j, T) /\ Holds(node[j], T, 0)
  BY <1>1 DEF Elections
<1>3. Elected(votes', j, T) BY <1>2, ElectedGrows
<1>4. \A v, w \in votes' : v.voter = w.voter /\ v.term = w.term => v = w
  BY DEF ElectionInv, OneVotePerTerm
<1>5. i = j BY <1>3, <1>4, OneElectedIn
<1> QED BY <1>2, <1>5

\* A log that is at least as good as one that ends with entry k of term t carries
\* that entry, unless no majority can acknowledge it any more.
LEMMA AtLeastKnows ==
    ASSUME NEW led \in Led, NEW acks \in SUBSET Acks, LeadersLogs(led),
           LaterLeadersKnow(led, acks), NEW log \in Seq(Entry), Backed(log, led),
           NEW t \in Nat, NEW k \in 1..Len(led[t]), led[t][k].term = t,
           NEW x \in Nat, k <= x, AtLeast(log, t, x)
    PROVE  Carries(log, t, k) \/ Blocked(t, k, acks)
<1> DEFINE e == Len(log)
           u == LastTerm(log)
<1>1. /\ led[t] \in Seq(Entry) /\ Len(led[t]) \in Nat /\ e \in Nat /\ u \in Nat
      /\ k \in Nat \ {0} /\ k <= Len(led[t])
  <2>1. led[t] \in Seq(Entry) /\ Len(led[t]) \in Nat BY LenProperties DEF Led
  <2> QED BY <2>1, LogFacts
<1>2. CASE u = t
  <2>1. e >= k BY <1>1, <1>2 DEF AtLeast
  <2>2. log # <<>> /\ log[e].term = t /\ e \in 1..e
    BY <1>1, <1>2, <2>1, LogFacts
  <2>3. Agree(log, led[t], e) BY <1>1, <2>2, BackedAt
  <2>4. log[k] = led[t][k] BY <1>1, <2>1, <2>3 DEF Agree
  <2> QED BY <2>1, <2>4 DEF Carries
<1>3. CASE u # t
  <2>1. u > t BY <1>3 DEF AtLeast
  <2>2. log # <<>> /\ log[e].term = u /\ e \in 1..e
    <3>1. log # <<>> BY <1>1, <2>1 DEF LastTerm, TermAt
    <3> QED BY <1>1, <3>1, LogFacts
  <2>3. led[u] \in Seq(Entry) /\ Agree(log, led[u], e) /\ e <= Len(led[u])
        /\ led[u][e] = log[e]
    <3> HIDE DEF u
    <3> QED BY <1>1, <2>2, BackedAt
  <2> HIDE DEF e, u
  <2>4. led[u] # <<>> BY <1>1, <2>2, <2>3, LogFacts
  <2>5. Carries(led[u], t, k) \/ Blocked(t, k, acks)
    BY <1>1, <2>1, <2>4 DEF LaterLeadersKnow, Led
  <2>6. CASE Carries(led[u], t, k) /\ k <= e
    <3>1. log[k] = led[u][k] BY <1>1, <2>3, <2>6 DEF Agree
    <3> QED BY <2>6, <3>1 DEF Carries, e
  <2>7. CASE Carries(led[u], t, k) /\ k > e
    <3>1. Backed(led[u], led) /\ WrittenBy(led[t], t)
      BY <1>1 DEF LeadersLogs, LeaderLog, Led
    <3>2. k \in 1..Len(led[u]) /\ led[u][k].term = t
      BY <1>1, <2>3, <2>7, LenProperties DEF Carries
    <3>3. Agree(led[u], led[t], k) BY <2>3, <3>1, <3>2, BackedAt
    <3>4. e \in 1..k /\ e \in 1..Len(led[t]) BY <1>1, <2>2, <2>7
    <3>5. led[t][e].term = u BY <2>2, <2>3, <3>3, <3>4 DEF Agree
    <3>6. u <= t BY <3>1, <3>4, <3>5 DEF WrittenBy
    <3> QED BY <1>1, <2>1, <3>6
  <2> QED BY <1>1, <2>5, <2>6, <2>7
<1> QED BY <1>2, <1>3

\* Whoever wins an election has, of an earlier term, every entry that a majority
\* may yet have acknowledged: one of its voters has acknowledged it, or none will.
LEMMA NewLeaderKnows ==
    ASSUME BoundsInv, BoundsInv', ElectionInv', NodesContinue,
           NEW led \in Led, NEW acks \in SUBSET Acks, LogInv(led, acks),
           NEW log \in Seq(Entry), Backed(log, led),
           NEW i \in Node, NEW T \in Nat, Elected(votes', i, T),
           \A v \in votes' : v.candidate = i /\ v.term = T =>
              \A a \in acks : a.node = v.voter /\ a.term < T
                 => AtLeast(log, a.term, a.index),
           NEW also \in SUBSET Acks, AcksGrow(acks, also),
           \A a \in also \ acks : a.term = T,
           NEW t \in Nat, t < T, NEW k \in 1..Len(led[t]), led[t][k].term = t
    PROVE  Carries(log, t, k) \/ Blocked(t, k, also)'
<1>0. k \in Nat
  <2>1. Len(led[t]) \in Nat BY LenProperties DEF Led
  <2> QED BY <2>1
<1>1. PICK Q \in SUBSET Node : /\ has_majority(Cardinality(Q), ClusterSize)
                               /\ \A q \in Q : Vote(q, T, i) \in votes'
  BY DEF Elected
<1>2. CASE \E q \in Q : \E a \in acks : a.node = q /\ a.term = t /\ a.index >= k
  <2>1. PICK q \in Q : \E a \in acks : a.node = q /\ a.term = t /\ a.index >= k
    BY <1>2
  <2>2. PICK a \in acks : a.node = q /\ a.term = t /\ a.index >= k BY <2>1
  <2>3. a.index \in Nat /\ k <= a.index BY <1>0, <2>2 DEF Acks
  <2>4. Vote(q, T, i) \in votes' BY <1>1
  <2>5. AtLeast(log, t, a.index) BY <2>2, <2>4 DEF Vote
  <2>6. Carries(log, t, k) \/ Blocked(t, k, acks)
    BY <2>3, <2>5, AtLeastKnows DEF LogInv
  <2> QED BY <1>0, <2>6, BlockedStays
<1>3. CASE \A q \in Q : \A a \in acks : a.node = q /\ a.term = t => ~(a.index >= k)
  <2>1. ASSUME NEW q \in Q PROVE node'[q].current_term > t
    <3>1. VoteInForce(Vote(q, T, i))' BY <1>1 DEF ElectionInv, OneVotePerTerm
    <3>2. node'[q].current_term \in Nat BY DEF BoundsInv, TypeOK, NodeState
    <3> QED BY <3>1, <3>2 DEF VoteInForce, Vote
  <2>2. ASSUME NEW q \in Q, NEW a \in also, a.node = q, a.term = t
        PROVE  a.index < k
    <3>1. a \in acks BY <2>2
    <3>2. a.index \in Nat BY DEF Acks
    <3> QED BY <1>0, <1>3, <2>2, <3>1, <3>2
  <2> QED BY <1>1, <2>1, <2>2 DEF Blocked, Majority
<1> QED BY <1>2, <1>3

\* The log of a new leader.
LEMMA NewLeaderLog ==
    ASSUME NEW n \in NodeState
    PROVE  LET l == become_leader(n)
               e == [term |-> n.current_term, command |-> NoOp]
           IN  e \in Entry /\ l.log = Append(n.log, e)
<1> DEFINE e == [term |-> n.current_term, command |-> NoOp]
<1>1. e \in Entry BY DEF Entry, NodeState
<1>2. become_leader(n).log = Append(n.log, e) BY DEF become_leader, NodeState
<1> QED BY <1>1, <1>2

\* What a leader writes it may send at once.
LEMMA WrittenIsSent ==
    ASSUME BoundsInv', NEW led \in Led, NEW log \in Seq(Entry), Backed(log, led),
           NEW i \in Node, NEW r \in NodeState, node'[i] = r, r.role = "Leader",
           WrittenBy(log, r.current_term), NEW e \in Entry, e.term = r.current_term,
           r.log = Append(log, e),
           Agree(led[r.current_term], r.log, Len(led[r.current_term])),
           NEW acks
    PROVE  LET more == Written(led, r.current_term, r.log)
           IN  /\ more \in Led /\ Grows(led, more)
               /\ \A m \in on_heartbeat(i, r) : SentSafely(m, more, acks)
<1> DEFINE T == r.current_term
           more == Written(led, T, r.log)
<1>1. T \in Nat /\ r.log \in Seq(Entry) BY DEF NodeState
<1>2. more \in Led /\ Grows(led, more) /\ Backed(r.log, more) /\ WrittenBy(r.log, T)
  BY <1>1, AppendBacked
<1>3. LastTerm(r.log) = T /\ r.log # <<>> BY <1>1, AppendFacts
<1>4. more[T] = r.log BY <1>1 DEF Written, Led
<1> HIDE DEF more
<1>5. NodeLog(r, more) BY <1>2, <1>3, <1>4 DEF NodeLog
<1>6. InBounds(r) BY DEF BoundsInv, IndexesInBounds, InBounds, Leader
<1>7. \A m \in on_heartbeat(i, r) : SentSafely(m, more, acks)
  BY <1>2, <1>3, <1>5, <1>6, HeartbeatsQuote
<1> QED BY <1>2, <1>7 DEF more

\* A candidate that has won begins its term with an entry of its own.
LEMMA NewLeaderLogs ==
    ASSUME BoundsInv, BoundsInv', ElectionInv, ElectionInv',
           NEW led \in Led, NEW acks \in SUBSET Acks, LogInv(led, acks),
           NEW i \in Node, NEW n \in NodeState, n.log = node[i].log,
           n.current_term >= node[i].current_term, ~Holds(node[i], n.current_term, 0),
           NEW r \in NodeState, SameCore(become_leader(n), r), node'[i] = r,
           \A j \in Node \ {i} : node'[j] = node[j],
           votes \subseteq votes', Elected(votes', i, n.current_term),
           \A v \in votes' : v \in votes \/ (v.candidate = i /\ v.term = n.current_term),
           \A v \in votes' : v.candidate = i /\ v.term = n.current_term =>
              \A a \in acks : a.node = v.voter /\ a.term < n.current_term
                 => AtLeast(n.log, a.term, a.index),
           msgs' \subseteq msgs \cup on_heartbeat(i, r)
    PROVE  LogExtended(led, acks)
<1> DEFINE T == n.current_term
           e == [term |-> T, command |-> NoOp]
           also == acks \cup {Ack(i, T, Len(r.log))}
           more == Written(led, T, r.log)
<1>1. /\ T \in Nat /\ n.log \in Seq(Entry) /\ node[i].current_term \in Nat
      /\ r.log \in Seq(Entry)
  BY NodeFacts DEF NodeState
<1>2. e \in Entry /\ r.log = Append(n.log, e) /\ r.current_term = T /\ r.role = "Leader"
      /\ r.match_index = [j \in Node |-> 0]
  BY BecomeLeader, NewLeaderLog DEF SameCore
<1>3. Agree(n.log, r.log, Len(n.log)) /\ Len(r.log) \in Nat
  BY <1>1, <1>2, AppendFacts
<1>4. led[T] = <<>> BY <1>1, FreshTerm DEF LogInv
<1>5. Agree(led[T], r.log, Len(led[T])) BY <1>1, <1>4, LenProperties DEF Agree
<1>6. Backed(n.log, led) /\ WrittenBy(n.log, T)
  <2>1. Backed(n.log, led) /\ WrittenBy(n.log, node[i].current_term)
    BY DEF LogInv, NodesLogs, NodeLog
  <2>2. \A k \in 1..Len(n.log) : n.log[k].term \in Nat BY <1>1, LogFacts
  <2> QED BY <1>1, <2>1, <2>2 DEF WrittenBy
<1>7. also \in SUBSET Acks /\ acks \subseteq also BY <1>1, <1>3 DEF Acks, Ack
<1>8. AcksGrow(acks, also) /\ \A a \in also \ acks : a.term = T
  BY <1>2 DEF AcksGrow, Ack
<1>9. NodesContinue
  <2>1. Continues(node[i], node'[i]) BY <1>2 DEF Continues
  <2> QED BY <2>1, OneContinues
<1> HIDE DEF e, also
<1>10. ASSUME NEW t \in Nat, t < T, NEW k \in 1..Len(led[t]), led[t][k].term = t
       PROVE  Carries(r.log, t, k) \/ Blocked(t, k, also)'
  <2>1. Carries(n.log, t, k) \/ Blocked(t, k, also)'
    BY <1>1, <1>6, <1>7, <1>8, <1>9, <1>10, NewLeaderKnows
  <2>2. k \in Nat \ {0}
    <3>1. Len(led[t]) \in Nat BY LenProperties DEF Led
    <3> QED BY <3>1
  <2> QED BY <1>1, <1>3, <2>1, <2>2, CarriesGrows
<1>11. /\ more \in Led /\ Grows(led, more)
       /\ \A m \in on_heartbeat(i, r) : SentSafely(m, more, also)
  BY <1>1, <1>2, <1>5, <1>6, WrittenIsSent DEF e
<1>12. Acknowledged(i, r, also)
  <2>1. Ack(i, T, Len(r.log)) \in also BY DEF also
  <2> QED BY <1>2, <2>1 DEF Acknowledged
<1>13. ASSUME NEW v \in votes'
       PROVE  v \in votes \/ VoteCompares(v, node'[v.candidate], also)
  BY <1>1, <1>2 DEF VoteCompares
<1>14. \A m \in msgs' : m \in msgs \/ SentSafely(m, more, also) BY <1>11
<1>15. also = acks \cup {Ack(i, r.current_term, Len(r.log))} BY <1>2 DEF also
<1>16. more = Written(led, r.current_term, r.log) BY <1>2
<1>17. e.term = T BY DEF e
<1> HIDE DEF more
<1>18. LogInv(more, also)'
  <2>1. /\ r.current_term >= node[i].current_term /\ e \in Entry
        /\ e.term = r.current_term /\ r.log = Append(node[i].log, e)
    BY <1>2, <1>17
  <2>2. Agree(led[r.current_term], r.log, Len(led[r.current_term])) BY <1>2, <1>5
  <2>3. \A t \in Nat : t < r.current_term =>
            \A k \in 1..Len(led[t]) : led[t][k].term = t =>
                Carries(r.log, t, k) \/ Blocked(t, k, also)'
    BY <1>2, <1>10
  <2> HIDE DEF T
  <2> QED BY <1>2, <1>7, <1>11, <1>12, <1>13, <1>14, <1>15, <1>16, <2>1, <2>2, <2>3,
             WriteLogs
<1> QED BY <1>7, <1>11, <1>18 DEF LogExtended

\* A step after which the history is what it was.
LEMMA SameLogs ==
    ASSUME NEW led \in Led, NEW acks \in SUBSET Acks, LogInv(led, acks)'
    PROVE  LogExtended(led, acks)
BY SameHistory DEF LogExtended

\* An election begins: the candidate is its own first voter.
LEMMA BecomeCandidateLogs ==
    ASSUME BoundsInv, BoundsInv', ElectionInv, ElectionInv',
           NEW led \in Led, NEW acks \in SUBSET Acks, LogInv(led, acks),
           NEW i \in Node, become_candidate(i)
    PROVE  LogExtended(led, acks)
<1> DEFINE o == node[i]
           n == start_election(i, o)
           l == become_leader(n)
           r == Commit(l)
           v == Vote(i, n.current_term, i)
<1>1. o \in NodeState /\ o.current_term \in Nat BY NodeFacts
<1>2. /\ n \in NodeState /\ n.current_term = o.current_term + 1
      /\ n.role = "Candidate" /\ n.log = o.log
  BY <1>1, StartElection
<1>3. r \in NodeState /\ SameCore(l, r) BY <1>2, BecomeLeader, CommitKeeps
<1>4. /\ votes' = votes \cup {v}
      /\ \/ /\ has_majority(1, ClusterSize)
            /\ Finish(i, r, Answer(client, CommitReplies(l)), {})
            /\ send_message(msgs, on_heartbeat(i, r))
         \/ /\ Finish(i, n, client, {i})
            /\ send_message(msgs, {VoteRequest(i, j, n) : j \in Peers(i)})
  BY DEF become_candidate
<1>5. votes \subseteq votes' /\ v \in votes' BY <1>4
<1>6. v.voter = i /\ v.candidate = i /\ v.term = n.current_term BY DEF Vote
<1>7. ASSUME NEW a \in acks, a.node = i PROVE AtLeast(n.log, a.term, a.index)
  BY <1>2, <1>7 DEF LogInv, AcksAreKept, AckIsKept
<1>8. n.log = node[i].log /\ n.current_term >= node[i].current_term
      /\ n.current_term > node[i].current_term
  BY <1>1, <1>2
<1> HIDE DEF o, n, r, v
<1>9. CASE /\ has_majority(1, ClusterSize)
           /\ Finish(i, r, Answer(client, CommitReplies(l)), {})
           /\ send_message(msgs, on_heartbeat(i, r))
  <2>1. node'[i] = r /\ \A j \in Node \ {i} : node'[j] = node[j] BY <1>9, FinishNode
  <2>2. Elected(votes', i, n.current_term)
    <3>1. {i} \in SUBSET Node /\ has_majority(Cardinality({i}), ClusterSize)
      BY <1>9, FS_Singleton
    <3>2. \A j \in {i} : Vote(j, n.current_term, i) \in votes' BY <1>5 DEF v
    <3> QED BY <3>1, <3>2 DEF Elected
  <2>3. ~Holds(node[i], n.current_term, 0) BY <1>1, <1>2, <1>8 DEF Holds, o
  <2>4. ASSUME NEW w \in votes', w.candidate = i, w.term = n.current_term PROVE w = v
    <3> SUFFICES ASSUME w \in votes PROVE FALSE BY <1>4
    <3>1. VoteCompares(w, node[i], acks) BY <2>4 DEF LogInv, VotesCompareLogs
    <3> QED BY <1>1, <1>2, <2>4, <3>1 DEF VoteCompares, o
  <2>5. \A w \in votes' : w.candidate = i /\ w.term = n.current_term =>
              \A a \in acks : a.node = w.voter /\ a.term < n.current_term
                 => AtLeast(n.log, a.term, a.index)
    BY <1>6, <1>7, <2>4
  <2>6. \A w \in votes' : w \in votes \/ (w.candidate = i /\ w.term = n.current_term)
    BY <1>4, <1>6
  <2>7. msgs' \subseteq msgs \cup on_heartbeat(i, r) BY <1>9, SendAdds
  <2> QED BY <1>2, <1>3, <1>5, <1>8, <2>1, <2>2, <2>3, <2>5, <2>6, <2>7, NewLeaderLogs
<1>10. CASE /\ Finish(i, n, client, {i})
            /\ send_message(msgs, {VoteRequest(i, j, n) : j \in Peers(i)})
  <2>1. node'[i] = n BY <1>10, FinishNode
  <2>2. Continues(node[i], n) /\ KeepsLog(node[i], n) /\ Acknowledged(i, n, acks)
    BY <1>2, <1>8 DEF Continues, KeepsLog, Acknowledged
  <2>3. VoteCompares(v, node'[v.candidate], acks)
    <3>1. n.current_term \in Nat BY <1>2 DEF NodeState
    <3> QED BY <1>6, <1>7, <2>1, <3>1 DEF VoteCompares
  <2>4. \A w \in votes' : w \in votes \/ VoteCompares(w, node'[w.candidate], acks)
    BY <1>4, <2>3
  <2>5. ASSUME NEW j \in Peers(i) PROVE SentSafely(VoteRequest(i, j, n), led, acks)
    BY <2>1 DEF VoteRequest, SentSafely, AnswerIsAcknowledged, ShowsLog
  <2>6. \A m \in msgs' : m \in msgs \/ SentSafely(m, led, acks)
    <3>1. msgs' \subseteq msgs \cup {VoteRequest(i, j, n) : j \in Peers(i)}
      BY <1>10, SendAdds
    <3> QED BY <2>5, <3>1
  <2>7. LogInv(led, acks)' BY <1>5, <1>10, <2>2, <2>4, <2>6, OneNodeLogs
  <2> QED BY <2>7, SameLogs
<1> QED BY <1>4, <1>9, <1>10

\* A vote is counted, the last one needed or not: the voters have compared their
\* logs with the one the candidate still has.
LEMMA CountVoteLogs ==
    ASSUME BoundsInv, BoundsInv', ElectionInv, ElectionInv',
           NEW led \in Led, NEW acks \in SUBSET Acks, LogInv(led, acks),
           NEW m \in msgs, m.type = "VoteResponse", m.term = node[m.to].current_term,
           count_vote(m)
    PROVE  LogExtended(led, acks)
<1> DEFINE i == m.to
           o == node[i]
           n == [o EXCEPT !.votes_received = o.votes_received + 1]
           l == become_leader(n)
           r == Commit(l)
           voters == counted[i] \cup {m.from}
           T == o.current_term
<1>1. /\ i \in Node /\ o \in NodeState /\ o.votes_received + 1 \in Nat /\ T \in Nat
  <2>1. i \in Node /\ o \in NodeState BY HandlerContext
  <2> HIDE DEF o
  <2> QED BY <2>1 DEF NodeState
<1>2. /\ o.role = "Candidate" /\ m.vote_granted /\ votes' = votes
      /\ \/ /\ has_majority(n.votes_received, ClusterSize)
            /\ Finish(i, r, Answer(client, CommitReplies(l)), {})
            /\ Receive(m, on_heartbeat(i, r))
         \/ Finish(i, n, client, voters) /\ Receive(m, {})
  BY DEF count_vote
<1>3. /\ voters \in SUBSET Node /\ Cardinality(voters) = o.votes_received + 1
      /\ \A k \in voters : Vote(k, T, i) \in votes
  BY <1>2, CountedOnce DEF IsGrant
<1>4. ASSUME NEW v \in votes, v.candidate = i, v.term = T,
             NEW a \in acks, a.node = v.voter, a.term < T
      PROVE  AtLeast(o.log, a.term, a.index)
  <2>1. VoteCompares(v, o, acks) BY <1>4 DEF LogInv, VotesCompareLogs
  <2> QED BY <1>2, <1>4, <2>1 DEF VoteCompares
<1>5. ~Holds(o, T, 0) BY <1>1, <1>2 DEF Holds
<1> HIDE DEF i, o, T
<1>6. /\ n \in NodeState /\ n.current_term = T /\ n.role = "Candidate"
      /\ n.log = o.log /\ n.votes_received = o.votes_received + 1
  BY <1>1, <1>2 DEF NodeState, T
<1> HIDE DEF n
<1>7. r \in NodeState /\ SameCore(l, r) BY <1>6, BecomeLeader, CommitKeeps
<1>8. node[i] = o /\ o.current_term = T BY DEF o, T
<1> HIDE DEF r, voters
<1>9. CASE /\ has_majority(n.votes_received, ClusterSize)
           /\ Finish(i, r, Answer(client, CommitReplies(l)), {})
           /\ Receive(m, on_heartbeat(i, r))
  <2>1. node'[i] = r /\ \A j \in Node \ {i} : node'[j] = node[j]
    BY <1>1, <1>9, FinishNode
  <2>2. Elected(votes', i, T)
    <3>1. has_majority(Cardinality(voters), ClusterSize) BY <1>3, <1>6, <1>9
    <3> QED BY <1>2, <1>3, <3>1 DEF Elected
  <2>3. \A v \in votes' : v.candidate = i /\ v.term = n.current_term =>
              \A a \in acks : a.node = v.voter /\ a.term < n.current_term
                 => AtLeast(n.log, a.term, a.index)
    BY <1>2, <1>4, <1>6
  <2>4. msgs' \subseteq msgs \cup on_heartbeat(i, r) BY <1>9, ReceiveAdds
  <2>5. /\ n.log = node[i].log /\ n.current_term >= node[i].current_term
        /\ ~Holds(node[i], n.current_term, 0) /\ Elected(votes', i, n.current_term)
    BY <1>1, <1>5, <1>6, <1>8, <2>2
  <2>6. /\ votes \subseteq votes'
        /\ \A v \in votes' : v \in votes \/ (v.candidate = i /\ v.term = n.current_term)
    BY <1>2
  <2> QED BY <1>1, <1>6, <1>7, <2>1, <2>3, <2>4, <2>5, <2>6, NewLeaderLogs
<1>10. CASE Finish(i, n, client, voters) /\ Receive(m, {})
  <2>1. Continues(node[i], n) /\ KeepsLog(node[i], n) /\ Acknowledged(i, n, acks)
    BY <1>1, <1>2, <1>6, <1>8 DEF Continues, KeepsLog, Acknowledged
  <2>2. msgs' \subseteq msgs \cup {} BY <1>10, ReceiveAdds
  <2>3. /\ \A x \in msgs' : x \in msgs \/ SentSafely(x, led, acks)
        /\ votes \subseteq votes' /\ \A v \in votes' : v \in votes
    BY <1>2, <2>2
  <2>4. LogInv(led, acks)' BY <1>1, <1>10, <2>1, <2>3, OneNodeLogs
  <2> QED BY <2>4, SameLogs
<1> QED BY <1>2, <1>9, <1>10

\* The leader takes a command.
LEMMA ClientCommandAcceptLogs ==
    ASSUME BoundsInv, BoundsInv', ElectionInv, ElectionInv',
           NEW led \in Led, NEW acks \in SUBSET Acks, LogInv(led, acks),
           NEW i \in Node, NEW c \in Command, client_command_accept(i, c)
    PROVE  LogExtended(led, acks)
<1> DEFINE o == node[i]
           index == apply_index(o.log)
           stale == {p \in o.pending_applies : p.index = index}
           e == [term |-> o.current_term, command |-> c]
           log == Append(o.log, e)
           pending == (o.pending_applies \ stale) \cup {[index |-> index, request |-> c]}
           n == [o EXCEPT !.log = log, !.pending_applies = pending]
           waiting == [Drop(client, stale) EXCEPT ![c] = Status("waiting")]
           r == Commit(n)
           T == o.current_term
           also == acks \cup {Ack(i, T, Len(r.log))}
           more == Written(led, T, r.log)
<1>1. /\ o \in NodeState /\ T \in Nat /\ o.log \in Seq(Entry) /\ Len(o.log) \in Nat
      /\ o.pending_applies \in SUBSET Pending
  BY NodeFacts DEF NodeState
<1>2. /\ o.role = "Leader" /\ Finish(i, r, Answer(waiting, CommitReplies(n)), {})
      /\ send_message(msgs, on_heartbeat(i, r)) /\ votes' = votes
  <2>1. n = [node[i] EXCEPT
               !.log = Append(@, [term |-> node[i].current_term, command |-> c]),
               !.pending_applies = (@ \ stale) \cup {[index |-> index, request |-> c]}]
    BY <1>1 DEF NodeState
  <2> QED BY <2>1 DEF client_command_accept
<1>3. e \in Entry /\ e.term = T BY <1>1 DEF Entry
<1>4. NodeLog(o, led) /\ Acknowledged(i, o, acks)
  BY DEF LogInv, NodesLogs, MatchIsAcknowledged
<1> HIDE DEF waiting, o, e
<1>5. /\ log \in Seq(Entry) /\ Agree(o.log, log, Len(o.log)) /\ Len(log) \in Nat
  BY <1>1, <1>3, AppendFacts
<1>6. pending \in SUBSET Pending
  <2>1. index \in Nat BY <1>1 DEF apply_index
  <2>2. [index |-> index, request |-> c] \in Pending BY <2>1 DEF Pending
  <2> HIDE DEF index
  <2> QED BY <2>2, <1>1
<1>7. log = Append(o.log, e) OBVIOUS
<1> HIDE DEF log, pending
<1>8. /\ n \in NodeState /\ n.log = log /\ n.role = o.role
      /\ n.current_term = o.current_term /\ n.match_index = o.match_index
  BY <1>1, <1>5, <1>6 DEF NodeState
<1> HIDE DEF n
<1>9. r \in NodeState /\ SameCore(n, r) BY <1>8, CommitKeeps
<1> HIDE DEF r
<1>10. /\ r.role = "Leader" /\ r.log = log /\ r.current_term = T
       /\ r.match_index = o.match_index
  BY <1>2, <1>8, <1>9 DEF SameCore
<1>11. led[T] = o.log /\ o.log # <<>> /\ Backed(o.log, led) /\ WrittenBy(o.log, T)
  BY <1>2, <1>4 DEF NodeLog
<1>12. also \in SUBSET Acks /\ acks \subseteq also /\ Ack(i, T, Len(r.log)) \in also
  BY <1>1, <1>5, <1>10 DEF Acks, Ack
<1> HIDE DEF also
<1>13. Acknowledged(i, r, also)
  BY <1>2, <1>4, <1>10, <1>12 DEF Acknowledged
<1>14. node'[i] = r /\ \A j \in Node \ {i} : node'[j] = node[j] BY <1>2, FinishNode
<1>15. node[i] = o /\ o.current_term = T BY DEF o
<1> HIDE DEF T
<1>16. /\ more \in Led /\ Grows(led, more)
       /\ \A m \in on_heartbeat(i, r) : SentSafely(m, more, also)
  <2>1. /\ WrittenBy(o.log, r.current_term) /\ e.term = r.current_term
        /\ r.log = Append(o.log, e) /\ more = Written(led, r.current_term, r.log)
        /\ Agree(led[r.current_term], r.log, Len(led[r.current_term]))
    BY <1>3, <1>5, <1>7, <1>10, <1>11
  <2> HIDE DEF more
  <2> QED BY <1>1, <1>3, <1>9, <1>10, <1>11, <1>14, <2>1, WrittenIsSent
<1>17. \A m \in msgs' : m \in msgs \/ SentSafely(m, more, also)
  <2>1. msgs' \subseteq msgs \cup on_heartbeat(i, r) BY <1>2, SendAdds
  <2> QED BY <1>16, <2>1
<1> HIDE DEF more
<1>18. PICK M \in Led, A \in SUBSET Acks : M = more /\ A = also BY <1>12, <1>16
<1>19. LogInv(M, A)'
  <2>1. /\ r.current_term >= node[i].current_term /\ e.term = r.current_term
        /\ r.log = Append(node[i].log, e) /\ M = Written(led, r.current_term, r.log)
        /\ Agree(led[r.current_term], r.log, Len(led[r.current_term]))
        /\ led[r.current_term] # <<>>
        /\ A = acks \cup {Ack(i, r.current_term, Len(r.log))}
    BY <1>1, <1>3, <1>5, <1>7, <1>10, <1>11, <1>15, <1>18 DEF also, more
  <2>2. /\ votes \subseteq votes' /\ Acknowledged(i, r, A)
        /\ \A v \in votes' : v \in votes \/ VoteCompares(v, node'[v.candidate], A)
        /\ \A m \in msgs' : m \in msgs \/ SentSafely(m, M, A)
    BY <1>2, <1>13, <1>17, <1>18
  <2> QED BY <1>3, <1>9, <1>10, <1>14, <2>1, <2>2, WriteLogs
<1> QED BY <1>12, <1>16, <1>18, <1>19 DEF LogExtended

\* Any other node refuses a command.
LEMMA ClientCommandRefuseLogs ==
    ASSUME BoundsInv, BoundsInv', ElectionInv, ElectionInv',
           NEW led \in Led, NEW acks \in SUBSET Acks, LogInv(led, acks),
           NEW i, NEW c, client_command_refuse(i, c)
    PROVE  LogInv(led, acks)'
<1>1. UNCHANGED <<node, votes, msgs>> BY DEF client_command_refuse
<1> QED BY <1>1, IdleLogs

-----------------------------------------------------------------------------
(* The invariant is inductive. *)

\* A cluster of new nodes has no history.
LEMMA LogInit ==
    ASSUME Init
    PROVE  LogInv([t \in Nat |-> <<>>], {}) /\ [t \in Nat |-> <<>>] \in Led
<1> DEFINE led == [t \in Nat |-> <<>>]
<1>1. /\ led \in Led /\ \A t \in Nat : led[t] = <<>> BY EmptySeq DEF Led
<1>2. Len(<<>>) = 0 BY EmptySeq
<1>3. /\ msgs = {} /\ votes = {}
      /\ \A i \in Node : node[i].role = "Follower" /\ node[i].log = <<>>
  BY DEF Init, restore_state, Fresh
<1> HIDE DEF led
<1>4. LeadersLogs(led)
  <2>1. DOMAIN led = Nat BY <1>1 DEF Led
  <2> QED BY <1>1, <1>2, <2>1 DEF LeadersLogs, LeaderLog, Backed, WrittenBy
<1>5. NodesLogs(led)
  BY <1>2, <1>3 DEF NodesLogs, NodeLog, Backed, WrittenBy
<1>6. RequestsQuoteTheLeader(led) /\ AcksAreKept(led, {}) /\ VotesCompareLogs({})
  BY <1>3 DEF RequestsQuoteTheLeader, AcksAreKept, VotesCompareLogs
<1>7. MatchIsAcknowledged({}) BY <1>3 DEF MatchIsAcknowledged, Acknowledged
<1>8. LaterLeadersKnow(led, {}) BY <1>1 DEF LaterLeadersKnow, Led
<1>9. LogInv(led, {}) BY <1>4, <1>5, <1>6, <1>7, <1>8 DEF LogInv
<1> QED BY <1>1, <1>9 DEF led

\* Every step keeps the invariant, for a history that goes on: one case per action.
LEMMA LogNext ==
    ASSUME BoundsInv, BoundsInv', ElectionInv, ElectionInv',
           NEW led \in Led, NEW acks \in SUBSET Acks, LogInv(led, acks),
           [Next]_vars
    PROVE  LogExtended(led, acks)
<1>1. CASE UNCHANGED vars
  <2>1. UNCHANGED <<node, votes, msgs>> BY <1>1 DEF vars
  <2>2. LogInv(led, acks)' BY <2>1, IdleLogs
  <2> QED BY <2>2, SameLogs
<1>2. ASSUME NEW i \in Node, become_candidate(i) PROVE LogExtended(led, acks)
  BY <1>2, BecomeCandidateLogs
<1>3. ASSUME NEW i \in Node, heartbeat(i) PROVE LogExtended(led, acks)
  BY <1>3, HeartbeatLogs, SameLogs
<1>4. ASSUME NEW i \in Node, restart(i) PROVE LogExtended(led, acks)
  BY <1>4, RestartLogs, SameLogs
<1>5. ASSUME NEW m \in msgs, vote_request(m) PROVE LogExtended(led, acks)
  <2>1. LogInv(led, acks)'
    BY <1>5, VoteRequestStaleLogs, VoteRequestGrantLogs, VoteRequestRejectLogs
       DEF vote_request
  <2> QED BY <2>1, SameLogs
<1>6. ASSUME NEW m \in msgs, vote_response(m) PROVE LogExtended(led, acks)
  <2>1. CASE ignore(m) \/ step_down(m)
    <3>1. LogInv(led, acks)' BY <2>1, IgnoreLogs, StepDownLogs
    <3> QED BY <3>1, SameLogs
  <2>2. CASE m.term = node[m.to].current_term /\ count_vote(m)
    BY <1>6, <2>2, CountVoteLogs DEF vote_response
  <2> QED BY <1>6, <2>1, <2>2 DEF vote_response
<1>7. ASSUME NEW m \in msgs, append_request(m) PROVE LogExtended(led, acks)
  <2>1. CASE append_request_stale(m)
    <3>1. LogInv(led, acks)' BY <2>1, AppendRequestStaleLogs
    <3> QED BY <3>1, SameLogs
  <2>2. CASE append_request_mismatch(m) /\ Current(m) /\ UNCHANGED votes
    <3>1. LogInv(led, acks)' BY <1>7, <2>2, AppendRequestMismatchLogs DEF append_request
    <3> QED BY <3>1, SameLogs
  <2>3. CASE append_request_accept(m) /\ Current(m) /\ UNCHANGED votes
    BY <1>7, <2>3, AppendRequestAcceptLogs DEF append_request
  <2> QED BY <1>7, <2>1, <2>2, <2>3 DEF append_request, Current
<1>8. ASSUME NEW m \in msgs, append_response(m) PROVE LogExtended(led, acks)
  <2>1. LogInv(led, acks)'
    BY <1>8, IgnoreLogs, StepDownLogs, AppendResponseLogs DEF append_response
  <2> QED BY <2>1, SameLogs
<1>9. ASSUME NEW m \in msgs, crash_after_step_down(m) PROVE LogExtended(led, acks)
  BY <1>9, CrashAfterStepDownLogs, SameLogs
<1>10. ASSUME NEW i \in Node, NEW c \in Command, client_command(i, c)
       PROVE  LogExtended(led, acks)
  BY <1>10, ClientCommandAcceptLogs, ClientCommandRefuseLogs, SameLogs
     DEF client_command
<1> QED BY <1>1, <1>2, <1>3, <1>4, <1>5, <1>6, <1>7, <1>8, <1>9, <1>10
        DEF Next, handle_message
=============================================================================
