---------------------------- MODULE KvRaftProofs ----------------------------
(***************************************************************************)
(* What the example cluster does with a script of any length on any number *)
(* of nodes.  The guarantees of Raft survive the death of leaders and the  *)
(* messages the network gives up; the program's commands are decided in    *)
(* its order, and its reads find its last put.  Storage does not fail.     *)
(***************************************************************************)
EXTENDS KvRaftInvariants, RaftSafetyProofs

-----------------------------------------------------------------------------
(* Messages that the network gives up. *)

\* Some messages in flight are lost, and nothing else changes.
Loses ==
    /\ msgs' \subseteq msgs
    /\ UNCHANGED <<node, disk, client, restarts, votes, counted, decided>>

\* What the leader's bookkeeping rests on is not in need of any message.
LEMMA LossBounds ==
    ASSUME BoundsInv, Loses
    PROVE  BoundsInv'
<1>1. TypeOK' BY DEF BoundsInv, TypeOK, Loses
<1>2. Persisted' /\ NoSelfMessage' BY DEF BoundsInv, Persisted, NoSelfMessage, Loses
<1>3. AppendsInBounds' BY DEF BoundsInv, AppendsInBounds, Loses
<1>4. IndexesInBounds' BY DEF BoundsInv, IndexesInBounds, Leader, Loses
<1> QED BY <1>1, <1>2, <1>3, <1>4 DEF BoundsInv

\* Nor is what elections rest on.
LEMMA LossElection ==
    ASSUME ElectionInv, Loses
    PROVE  ElectionInv'
<1>1. OneVotePerTerm' BY DEF ElectionInv, OneVotePerTerm, VoteInForce, Loses
<1>2. CountIsExact' BY DEF ElectionInv, CountIsExact, Loses
<1>3. GrantsAreFresh' BY DEF ElectionInv, GrantsAreFresh, CandidateIn, Loses
<1>4. RequestsAreFresh' BY DEF ElectionInv, RequestsAreFresh, CandidateIn, Loses
<1>5. OnlyTheElectedLead' BY DEF ElectionInv, OnlyTheElectedLead, Leader, Loses
<1> QED BY <1>1, <1>2, <1>3, <1>4, <1>5 DEF ElectionInv

\* The history that explains a state still does.
LEMMA LossLogs ==
    ASSUME LogSafe, Loses
    PROVE  LogSafe'
<1>1. PICK led \in Led, acks \in SUBSET Acks : LogInv(led, acks) /\ CommitInv(led, acks)
  BY DEF LogSafe
<1>2. LeadersLogs(led)'
  BY <1>1 DEF LogInv, LeadersLogs, LeaderLog, Elections, Loses
<1>3. NodesLogs(led)' BY <1>1 DEF LogInv, NodesLogs, Loses
<1>4. RequestsQuoteTheLeader(led)' BY <1>1 DEF LogInv, RequestsQuoteTheLeader, Loses
<1>5. AcksAreKept(led, acks)' BY <1>1 DEF LogInv, AcksAreKept, Loses
<1>6. MatchIsAcknowledged(acks)' BY <1>1 DEF LogInv, MatchIsAcknowledged, Loses
<1>7. LaterLeadersKnow(led, acks)'
  BY <1>1 DEF LogInv, LaterLeadersKnow, Blocked, Loses
<1>8. VotesCompareLogs(acks)' BY <1>1 DEF LogInv, VotesCompareLogs, Loses
<1>9. CommitsAreChosen(led, acks)' BY <1>1 DEF CommitInv, CommitsAreChosen, Loses
<1>10. ReplyIsDecided' BY <1>1 DEF CommitInv, ReplyIsDecided, Loses
<1>11. LogInv(led, acks)' /\ CommitInv(led, acks)'
  BY <1>2, <1>3, <1>4, <1>5, <1>6, <1>7, <1>8, <1>9, <1>10 DEF LogInv, CommitInv
<1> QED BY <1>11 DEF LogSafe

\* The commands are where they were.
LEMMA LossPlaces ==
    ASSUME NEW place, PlaceInv(place), Loses
    PROVE  PlaceInv(place)'
BY DEF PlaceInv, PendingInPlace, AnswersInPlace, Loses

-----------------------------------------------------------------------------
(* The steps of the example. *)

\* The nodes' tasks and the program's calls are steps of Raft, the network loses
\* messages, and nothing else the program does reaches the nodes.
LEMMA KvSteps ==
    ASSUME MainInv, [KvNext]_kv_vars
    PROVE  Next \/ Loses
<1>1. nodes \subseteq Node BY DEF MainInv
<1>2. CASE launch BY <1>1, <1>2 DEF launch, Next
<1>3. CASE send_fails
  <2>1. UNCHANGED <<node, disk, client, restarts, votes, counted, decided>>
        /\ msgs' \subseteq msgs
    BY <1>3 DEF send_fails
  <2> QED BY <2>1 DEF Loses
<1>4. CASE call
  <2>1. main.leader \in Node BY <1>4 DEF call, MainInv
  <2>2. client[Request].status \in {"idle", "rejected"} BY <1>4 DEF call, client_command
  <2>3. Request \in Command
    BY ScriptAssumption, <1>4, LenProperties DEF call, MainInv, Request
  <2> QED BY <1>4, <2>1, <2>3 DEF call, Next
<1>5. CASE UNCHANGED vars BY <1>5 DEF vars, Loses
<1> QED BY <1>2, <1>3, <1>4, <1>5
        DEF KvNext, wait_for_leader, return, kill_node, kv_vars


\* The script, as main walks through it.
LEMMA ScriptFacts ==
    /\ Len(Script) \in Nat /\ 1 <= Len(Script)
    /\ DOMAIN Script = 1..Len(Script)
    /\ \A n \in DOMAIN Script : Script[n] \in Command
    /\ \A a, b \in DOMAIN Script : Script[a] = Script[b] => a = b
<1>1. Script \in Seq(Command) /\ Script # <<>>
      /\ \A a, b \in DOMAIN Script : Script[a] = Script[b] => a = b
  BY ScriptAssumption
<1>2. Len(Script) \in Nat /\ DOMAIN Script = 1..Len(Script) BY <1>1, LenProperties
<1>3. Len(Script) # 0 BY <1>1, EmptySeq
<1>4. \A n \in DOMAIN Script : Script[n] \in Command BY <1>1, <1>2, LenProperties
<1> QED BY <1>1, <1>2, <1>3, <1>4

\* The program begins at its first command.
LEMMA MainInit == KvInit => MainInv
<1> SUFFICES ASSUME KvInit PROVE MainInv OBVIOUS
<1>1. 1 \in 1..(Len(Script) + 1) /\ 1 <= Len(Script) BY ScriptFacts
<1> QED BY <1>1 DEF KvInit, MainInv

\* The program goes on to a command that there is.
LEMMA MainNext ==
    ASSUME MainInv, [KvNext]_kv_vars
    PROVE  MainInv'
<1> DEFINE Main == [step : {"wait_for_leader", "call", "await", "kill_node", "done",
                            "failed"},
                    at : 1..(Len(Script) + 1), leader : Node \cup {Nil}]
<1>1. nodes \subseteq Node /\ main \in Main BY DEF MainInv
<1>2. CASE UNCHANGED <<main, nodes>> BY <1>2 DEF MainInv
<1>3. CASE wait_for_leader
  <2>1. PICK i \in nodes : main' = [main EXCEPT !.step = "call", !.leader = i]
    BY <1>3 DEF wait_for_leader
  <2>2. main' \in Main /\ main'.at = main.at /\ main'.leader = i BY <1>1, <2>1
  <2>3. nodes' = nodes /\ main.at <= Len(Script) BY <1>3 DEF wait_for_leader, MainInv
  <2> QED BY <1>1, <2>1, <2>2, <2>3 DEF MainInv
<1>4. CASE call
  <2>1. /\ main.step = "call" /\ main' = [main EXCEPT !.step = "await"]
        /\ nodes' = nodes
    BY <1>4 DEF call
  <2>2. /\ main' \in Main /\ main'.at = main.at /\ main'.leader = main.leader
        /\ main'.step = "await"
    BY <1>1, <2>1
  <2>3. main.at <= Len(Script) /\ main.leader \in Node BY <2>1 DEF MainInv
  <2> QED BY <1>1, <2>1, <2>2, <2>3 DEF MainInv
<1>5. CASE return
  <2>1. /\ main.step = "await" /\ nodes' = nodes
        /\ \/ main' = [main EXCEPT !.step = "failed"]
           \/ main' = [main EXCEPT !.step = After(main.at), !.at = main.at + 1]
    BY <1>5 DEF return
  <2>2. main.at \in 1..Len(Script) /\ main.leader \in Node
    BY <1>1, <2>1, ScriptFacts DEF MainInv
  <2>3. CASE main' = [main EXCEPT !.step = "failed"]
    <3>1. main' \in Main /\ main'.at = main.at /\ main'.step = "failed" BY <1>1, <2>3
    <3> QED BY <1>1, <2>1, <2>2, <3>1 DEF MainInv
  <2>4. CASE main' = [main EXCEPT !.step = After(main.at), !.at = main.at + 1]
    <3>1. /\ After(main.at) \in {"done", "kill_node", "call"}
          /\ After(main.at) # "done" => main.at # Len(Script)
      BY DEF After
    <3>2. main.at + 1 \in 1..(Len(Script) + 1) BY <2>2, ScriptFacts
    <3>3. /\ main' \in Main /\ main'.at = main.at + 1 /\ main'.step = After(main.at)
          /\ main'.leader = main.leader
      BY <1>1, <2>4, <3>1, <3>2
    <3>4. main'.step # "done" => main'.at <= Len(Script)
      BY <2>2, <3>1, <3>3, ScriptFacts
    <3> QED BY <1>1, <2>1, <2>2, <3>3, <3>4 DEF MainInv
  <2> QED BY <2>1, <2>3, <2>4
<1>6. CASE kill_node
  <2>1. /\ main.step = "kill_node" /\ nodes' = nodes \ {main.leader}
        /\ main' = [main EXCEPT !.step = "wait_for_leader", !.leader = Nil]
    BY <1>6 DEF kill_node
  <2>2. main' \in Main /\ main'.at = main.at /\ main'.step = "wait_for_leader"
    BY <1>1, <2>1
  <2>3. main.at <= Len(Script) BY <2>1 DEF MainInv
  <2> QED BY <1>1, <2>1, <2>2, <2>3 DEF MainInv
<1> QED BY <1>2, <1>3, <1>4, <1>5, <1>6
        DEF KvNext, launch, send_fails, cluster_vars, kv_vars

-----------------------------------------------------------------------------
(* The guarantees of Raft in the example. *)

\* What the proofs about Raft rest on.
RaftInv == BoundsInv /\ ElectionInv /\ LogSafe /\ CommandsInPlace

\* The network keeps it too.
LEMMA LossKeeps ==
    ASSUME RaftInv, Loses
    PROVE  RaftInv'
<1>1. CommandsInPlace'
  <2>1. PICK place \in [Command -> Nat] : PlaceInv(place) BY DEF RaftInv, CommandsInPlace
  <2>2. PlaceInv(place)' BY <2>1, LossPlaces
  <2> QED BY <2>2 DEF CommandsInPlace
<1> QED BY <1>1, LossBounds, LossElection, LossLogs DEF RaftInv

\* Whatever the program and the network do, Raft's invariants hold in the example.
THEOREM ExampleKeepsRaft ==
    ASSUME StorageFaults = FALSE
    PROVE  KvSpec => [](MainInv /\ RaftInv) /\ [][Next \/ Loses]_kv_vars
<1>1. KvInit => MainInv BY MainInit
<1>2. MainInv /\ [KvNext]_kv_vars => MainInv' /\ (Next \/ Loses) BY MainNext, KvSteps
<1>3. KvInit => RaftInv
  BY BoundsInit, ElectionInit, SafeInit, PlaceInit DEF KvInit, RaftInv
<1>4. RaftInv /\ Loses => RaftInv' BY LossKeeps
<1>5. BoundsInv /\ Next => BoundsInv' BY BoundsNext
<1>6. BoundsInv /\ BoundsInv' /\ ElectionInv /\ Next => ElectionInv' BY ElectionNext
<1>7. /\ BoundsInv /\ BoundsInv' /\ ElectionInv /\ ElectionInv' /\ LogSafe /\ Next
      => LogSafe' /\ Progresses
  BY SafeNext
<1>8. BoundsInv /\ LogSafe => Applies /\ Learned BY AllApplied, AllLearned
<1>9. /\ BoundsInv /\ BoundsInv' /\ Applies' /\ Learned' /\ Progresses
      /\ CommandsInPlace /\ Next
      => CommandsInPlace'
  BY CommandsNext
<1> QED BY <1>1, <1>2, <1>3, <1>4, <1>5, <1>6, <1>7, <1>8, <1>9, PTL DEF KvSpec, RaftInv

-----------------------------------------------------------------------------
(* The value of a database. *)

\* What is left of `value' when the entries at the indexes in S are applied in order.
Left(value, log, S) ==
    LET puts == {k \in S : log[k].command \in Put}
    IN  IF puts = {} THEN value ELSE log[Max(puts)].command

\* The last of the indexes decides, or leaves what the others do.
LEMMA LastIsApplied ==
    ASSUME NEW value, NEW log \in Seq(Entry), NEW S \in SUBSET (1..Len(log)), S # {}
    PROVE  /\ Max(S) \in S /\ \A y \in S : Max(S) >= y
           /\ Left(value, log, S) = apply(Left(value, log, S \ {Max(S)}), log[Max(S)])
<1> DEFINE x == Max(S)
           puts == {k \in S : log[k].command \in Put}
           rest == {k \in S \ {x} : log[k].command \in Put}
<1>1. Len(log) \in Nat /\ 1 \in Nat BY LenProperties
<1>2. x \in S /\ \A y \in S : x >= y BY <1>1, MaxOfInterval
<1> HIDE DEF x
<1>3. CASE log[x].command \in Put
  <2>1. x \in puts /\ puts \in SUBSET (1..Len(log)) BY <1>2, <1>3
  <2>2. Left(value, log, S) = log[Max(puts)].command BY <2>1 DEF Left
  <2> HIDE DEF puts
  <2>3. Max(puts) \in puts /\ Max(puts) >= x BY <1>1, <2>1, MaxOfInterval
  <2>4. x >= Max(puts) /\ Max(puts) \in Nat /\ x \in Nat
    <3>1. Max(puts) \in S BY <2>3 DEF puts
    <3>2. PICK z : z = Max(puts) OBVIOUS
    <3>3. x >= z /\ z \in 1..Len(log) /\ x \in 1..Len(log) BY <1>2, <3>1, <3>2
    <3> QED BY <3>2, <3>3
  <2>5. Max(puts) = x BY <2>3, <2>4
  <2>6. apply(Left(value, log, S \ {x}), log[x]) = log[x].command BY <1>3 DEF apply
  <2> QED BY <1>2, <2>2, <2>5, <2>6 DEF x
<1>4. CASE log[x].command \notin Put
  <2>1. puts = rest BY <1>4
  <2>2. Left(value, log, S) = Left(value, log, S \ {x}) BY <2>1 DEF Left
  <2>3. apply(Left(value, log, S \ {x}), log[x]) = Left(value, log, S \ {x})
    BY <1>4 DEF apply
  <2> QED BY <1>2, <2>2, <2>3 DEF x
<1> QED BY <1>3, <1>4

\* A fold of `apply' over a log ends with its last put: the function that FoldLeft
\* chooses can differ from Left at no index set, for then there would be a least one.
LEMMA FoldIsLeft ==
    ASSUME NEW value, NEW log \in Seq(Entry)
    PROVE  FoldLeft(apply, value, log) = Left(value, log, 1..Len(log))
<1> DEFINE n == Len(log)
           Folds(f) == f = [s \in SUBSET DOMAIN log |->
                              IF s = {} THEN value
                              ELSE apply(f[s \ {Max(s)}], log[Max(s)])]
           g == [s \in SUBSET (1..n) |-> Left(value, log, s)]
           f == CHOOSE f : Folds(f)
<1>1. n \in Nat /\ DOMAIN log = 1..n BY LenProperties
<1>2. FoldLeft(apply, value, log) = f[DOMAIN log]
  BY DEF FoldLeft, MapThenFoldSet
<1>3. Left(value, log, {}) = value BY DEF Left
<1>4. Folds(g)
  <2>1. ASSUME NEW s \in SUBSET (1..n), s # {}
        PROVE  g[s] = apply(g[s \ {Max(s)}], log[Max(s)])
    BY <2>1, LastIsApplied
  <2>2. ASSUME NEW s \in SUBSET (1..n)
        PROVE  g[s] = IF s = {} THEN value ELSE apply(g[s \ {Max(s)}], log[Max(s)])
    BY <1>3, <2>1
  <2>3. g = [s \in SUBSET (1..n) |->
                IF s = {} THEN value ELSE apply(g[s \ {Max(s)}], log[Max(s)])]
    BY <2>2
  <2> HIDE DEF g
  <2> QED BY <1>1, <2>3
<1>5. Folds(f)
  <2> HIDE DEF Folds, g
  <2> QED BY <1>4
<1>6. ASSUME NEW s \in SUBSET (1..n)
      PROVE  f[s] = IF s = {} THEN value ELSE apply(f[s \ {Max(s)}], log[Max(s)])
  <2>1. f = [t \in SUBSET (1..n) |->
                IF t = {} THEN value ELSE apply(f[t \ {Max(t)}], log[Max(t)])]
    BY <1>1, <1>5
  <2> HIDE DEF f
  <2> QED BY <2>1
<1> HIDE DEF f, g, Folds
<1> DEFINE Differ(m) == \E s \in SUBSET (1..m) : f[s] # Left(value, log, s)
           D == {m \in 0..n : Differ(m)}
<1>7. D = {}
  <2> SUFFICES ASSUME D # {} PROVE FALSE OBVIOUS
  <2>1. D \in SUBSET Nat BY <1>1
  <2> DEFINE m == Min(D)
  <2>2. m \in D /\ \A y \in D : m <= y
    <3> HIDE DEF D
    <3> QED BY <2>1, MinOfNaturals
  <2> HIDE DEF m
  <2>3. PICK s \in SUBSET (1..m) : f[s] # Left(value, log, s) BY <2>2
  <2>4. m \in 0..n /\ s \in SUBSET (1..n) BY <1>1, <2>2
  <2>5. s # {}
    <3>1. s = {} => f[s] = value BY <1>6, <2>4
    <3>2. s = {} => Left(value, log, s) = value BY <1>3
    <3> QED BY <2>3, <3>1, <3>2
  <2> DEFINE x == Max(s)
             t == s \ {x}
  <2>6. /\ x \in s /\ \A y \in s : x >= y
        /\ Left(value, log, s) = apply(Left(value, log, t), log[x])
    BY <2>4, <2>5, LastIsApplied
  <2>7. f[s] = apply(f[t], log[x]) BY <1>6, <2>4, <2>5
  <2> HIDE DEF x
  <2>8. x \in 1..m /\ m - 1 \in 0..n /\ ~(m <= m - 1) BY <1>1, <2>3, <2>4, <2>6
  <2>9. t \in SUBSET (1..(m - 1)) BY <1>1, <2>4, <2>6
  <2>10. f[t] # Left(value, log, t) BY <2>3, <2>6, <2>7
  <2>11. m - 1 \in D BY <2>8, <2>9, <2>10
  <2> QED BY <2>2, <2>8, <2>11
<1>8. f[1..n] = Left(value, log, 1..n)
  <2>1. n \in 0..n BY <1>1
  <2> QED BY <1>7, <2>1
<1> QED BY <1>1, <1>2, <1>8

\* The value is that of a put, or none.
LEMMA ValueType ==
    ASSUME NEW log, NEW n \in Nat
    PROVE  Value(log, n) \in Put \cup {Nil}
<1>1. CASE Puts(log, n) = {} BY <1>1 DEF Value
<1>2. CASE Puts(log, n) # {}
  <2>1. Puts(log, n) \in SUBSET (1..n) BY DEF Puts
  <2>2. Max(Puts(log, n)) \in Puts(log, n) BY <1>2, <2>1, MaxOfInterval
  <2>3. log[Max(Puts(log, n))].command \in Put BY <2>2 DEF Puts
  <2> QED BY <1>2, <2>3 DEF Value
<1> QED BY <1>1, <1>2

\* It depends on the entries up to there.
LEMMA SameValue ==
    ASSUME NEW a, NEW b, NEW n \in Nat, Agree(a, b, n)
    PROVE  Value(a, n) = Value(b, n)
<1>1. Puts(a, n) = Puts(b, n) BY DEF Puts, Agree
<1>2. CASE Puts(a, n) = {} BY <1>1, <1>2 DEF Value
<1>3. CASE Puts(a, n) # {}
  <2> DEFINE k == Max(Puts(a, n))
  <2>1. Puts(a, n) \in SUBSET (1..n) BY DEF Puts
  <2>2. k \in 1..n BY <1>3, <2>1, MaxOfInterval
  <2>3. Max(Puts(b, n)) = k BY <1>1
  <2> HIDE DEF k
  <2>4. a[k] = b[k] BY <2>2 DEF Agree
  <2> QED BY <1>1, <1>3, <2>3, <2>4 DEF Value, k
<1> QED BY <1>2, <1>3

\* Applying the entries after the m-th one brings the value of the first m entries to
\* that of the first n.
LEMMA ApplyMore ==
    ASSUME NEW log \in Seq(Entry), NEW m \in Nat, NEW n \in Nat, m <= n, n <= Len(log)
    PROVE  FoldLeft(apply, Value(log, m), SubSeq(log, m + 1, n)) = Value(log, n)
<1> DEFINE b == SubSeq(log, m + 1, n)
           v == Value(log, m)
           d == n - m
           P == {k \in 1..d : b[k].command \in Put}
           Q == Puts(log, n)
<1>1. Len(log) \in Nat /\ d \in Nat BY LenProperties
<1>2. b \in Seq(Entry) /\ Len(b) = d /\ \A y \in 1..d : b[y] = log[m + y]
  <2>1. \A y \in (m + 1)..n : log[y] \in Entry BY <1>1, LogFacts
  <2>2. /\ b \in Seq(Entry) /\ Len(b) = IF m + 1 <= n THEN n - (m + 1) + 1 ELSE 0
        /\ \A y \in 1..(n - (m + 1) + 1) : b[y] = log[(m + 1) + y - 1]
    BY <2>1, SubSeqProperties
  <2> HIDE DEF b
  <2>3. Len(b) = d BY <1>1, <2>2
  <2>4. ASSUME NEW y \in 1..d PROVE b[y] = log[m + y]
    <3>1. y \in 1..(n - (m + 1) + 1) /\ (m + 1) + y - 1 = m + y BY <1>1
    <3> QED BY <2>2, <3>1
  <2> QED BY <2>2, <2>3, <2>4
<1> HIDE DEF b, v, d
<1>3. FoldLeft(apply, v, b) = Left(v, b, 1..d) BY <1>2, FoldIsLeft
<1>4. \A k \in P : m + k \in Q
  <2> TAKE k \in P
  <2>1. m + k \in 1..n BY <1>1 DEF d
  <2>2. log[m + k].command \in Put BY <1>2
  <2> QED BY <2>1, <2>2 DEF Puts
<1>5. \A q \in Q : q > m => q - m \in P
  <2> SUFFICES ASSUME NEW q \in Q, q > m PROVE q - m \in P OBVIOUS
  <2>1. q \in 1..n /\ log[q].command \in Put BY DEF Puts
  <2>2. q - m \in 1..d /\ m + (q - m) = q BY <2>1 DEF d
  <2>3. b[q - m] = log[m + (q - m)] BY <1>2, <2>2
  <2>4. b[q - m].command \in Put BY <2>1, <2>2, <2>3
  <2> QED BY <2>2, <2>4
<1>6. CASE P = {}
  <2>1. Left(v, b, 1..d) = v BY <1>6 DEF Left
  <2>2. Q = Puts(log, m)
    <3>1. \A q \in Q : q \in 1..m
      <4> TAKE q \in Q
      <4>1. q \in 1..n BY DEF Puts
      <4>2. ~(q > m) BY <1>5, <1>6
      <4> QED BY <4>1, <4>2
    <3>2. \A k \in 1..m : k \in 1..n OBVIOUS
    <3> QED BY <3>1, <3>2 DEF Puts
  <2>3. Value(log, n) = v BY <2>2 DEF Value, v
  <2> QED BY <1>3, <2>1, <2>3 DEF b, v
<1>7. CASE P # {}
  <2> DEFINE k == Max(P)
             q == Max(Q)
  <2>1. Left(v, b, 1..d) = b[k].command BY <1>7 DEF Left
  <2>2. P \in SUBSET (1..d) /\ Q \in SUBSET (1..n) BY DEF Puts
  <2>3. Q # {} BY <1>4, <1>7
  <2>4. Value(log, n) = log[q].command BY <2>3 DEF Value
  <2> HIDE DEF P, Q
  <2>5. k \in P /\ \A y \in P : k >= y BY <1>1, <1>7, <2>2, MaxOfInterval
  <2>6. q \in Q /\ \A y \in Q : q >= y BY <2>2, <2>3, MaxOfInterval
  <2> HIDE DEF k, q
  <2>7. k \in 1..d /\ q \in 1..n BY <2>2, <2>5, <2>6
  <2>8. q >= m + k BY <1>4, <2>5, <2>6
  <2>9. k >= q - m
    <3>1. q > m BY <2>7, <2>8
    <3> QED BY <1>5, <2>5, <2>6, <3>1
  <2>10. q = m + k BY <2>7, <2>8, <2>9
  <2> QED BY <1>2, <1>3, <2>1, <2>4, <2>7, <2>10 DEF b, v
<1> QED BY <1>6, <1>7

-----------------------------------------------------------------------------
(* Which clients a step speaks to. *)

\* A request of the command is pending somewhere.
Asked(c) == \E i \in Node : \E p \in node[i].pending_applies : p.request = c

\* Replies go to requests that are pending.
LEMMA AnswerTells ==
    ASSUME NEW cl, NEW a, NEW c \in Command,
           \A p \in a.pending_applies : p.request # c
    PROVE  Answer(cl, replies(a))[c] = cl[c]
<1>1. ASSUME NEW r \in replies(a) PROVE r.request # c
  <2>1. PICK p \in Answered(a) :
           r = [request |-> p.request, output |-> a.log[p.index].command]
    BY DEF replies
  <2>2. p \in a.pending_applies BY DEF Answered
  <2>3. r.request = p.request BY <2>1
  <2> QED BY <2>2, <2>3
<1> QED BY <1>1 DEF Answer

\* So do those of a leader that looks for more to commit.
LEMMA CommitTells ==
    ASSUME NEW cl, NEW n \in NodeState, NEW c \in Command,
           \A p \in n.pending_applies : p.request # c
    PROVE  Answer(cl, CommitReplies(n))[c] = cl[c]
<1>1. \A p \in advance_commit(n).pending_applies : p.request # c BY AdvanceWaits
<1> QED BY <1>1, AnswerTells DEF CommitReplies

\* No task of a node speaks to a client that has not asked.
LEMMA TasksTell ==
    ASSUME BoundsInv, NEW c \in Command, ~Asked(c),
           \/ \E i \in Node : become_candidate(i) \/ heartbeat(i)
           \/ \E m \in msgs : handle_message(m)
    PROVE  client'[c] = client[c]
<1>1. \A i \in Node : \A p \in node[i].pending_applies : p.request # c BY DEF Asked
<1>2. ASSUME NEW i \in Node, become_candidate(i) PROVE client'[c] = client[c]
  <2> DEFINE n == start_election(i, node[i])
             l == become_leader(n)
  <2>1. node[i] \in NodeState BY NodeFacts
  <2>2. n \in NodeState /\ n.pending_applies = node[i].pending_applies
    BY <2>1, StartElection, NewLeaderKeeps
  <2>3. client' = Answer(client, CommitReplies(l)) \/ client' = client
    BY <1>2 DEF become_candidate, Finish
  <2> HIDE DEF n
  <2>4. l \in NodeState /\ l.pending_applies = node[i].pending_applies
    BY <2>2, NewLeaderKeeps
  <2> HIDE DEF l
  <2>5. Answer(client, CommitReplies(l))[c] = client[c] BY <1>1, <2>4, CommitTells
  <2> QED BY <2>3, <2>5
<1>3. ASSUME NEW i \in Node, heartbeat(i) PROVE client'[c] = client[c]
  BY <1>3 DEF heartbeat
<1>4. ASSUME NEW m \in msgs, vote_request(m) PROVE client'[c] = client[c]
  BY <1>4 DEF vote_request, vote_request_stale, vote_request_grant, vote_request_reject,
              Finish
<1>5. ASSUME NEW m \in msgs, count_vote(m) PROVE client'[c] = client[c]
  <2> DEFINE o == node[m.to]
             n == [o EXCEPT !.votes_received = o.votes_received + 1]
             l == become_leader(n)
  <2>1. m.to \in Node /\ o \in NodeState BY HandlerContext
  <2>2. n \in NodeState /\ n.pending_applies = o.pending_applies
    <3> HIDE DEF o
    <3>1. o.votes_received + 1 \in Nat BY <2>1 DEF NodeState
    <3> QED BY <2>1, <3>1 DEF NodeState
  <2>3. client' = Answer(client, CommitReplies(l)) \/ client' = client
    BY <1>5 DEF count_vote, Finish
  <2> HIDE DEF o, n
  <2>4. l \in NodeState /\ l.pending_applies = o.pending_applies
    BY <2>1, <2>2, NewLeaderKeeps
  <2> HIDE DEF l
  <2>5. Answer(client, CommitReplies(l))[c] = client[c]
    BY <1>1, <2>1, <2>4, CommitTells DEF o
  <2> QED BY <2>3, <2>5
<1>6. ASSUME NEW m \in msgs, vote_response(m) PROVE client'[c] = client[c]
  BY <1>5, <1>6 DEF vote_response, ignore, step_down, Finish
<1>7. ASSUME NEW m \in msgs, Current(m), append_request_accept(m)
      PROVE  client'[c] = client[c]
  <2> DEFINE o == node[m.to]
             f == Following(o, m)
             log == AppendEntries(f.log, m.prev_log_index, m.entries)
             commit == IF m.leader_commit > f.commit_index
                       THEN Min({m.leader_commit, Len(log)}) ELSE f.commit_index
             n == [f EXCEPT !.log = log, !.commit_index = commit]
  <2>1. m.to \in Node /\ o \in NodeState BY HandlerContext
  <2>2. f \in NodeState /\ f.pending_applies = o.pending_applies
    BY <1>7, <2>1, FollowingEvolves, FollowerKeeps
  <2>3. client' = Answer(client, replies(n)) BY <1>7 DEF append_request_accept, Finish
  <2> HIDE DEF f, log, commit
  <2>4. n.pending_applies = f.pending_applies BY <2>2 DEF NodeState
  <2> HIDE DEF n
  <2>5. Answer(client, replies(n))[c] = client[c]
    BY <1>1, <2>1, <2>2, <2>4, AnswerTells
  <2> QED BY <2>3, <2>5
<1>8. ASSUME NEW m \in msgs, append_request(m) PROVE client'[c] = client[c]
  <2>1. CASE append_request_stale(m) BY <2>1 DEF append_request_stale
  <2>2. CASE Current(m) /\ append_request_accept(m) BY <1>7, <2>2
  <2>3. CASE append_request_mismatch(m) BY <2>3 DEF append_request_mismatch, Finish
  <2> QED BY <1>8, <2>1, <2>2, <2>3 DEF append_request, Current
<1>9. ASSUME NEW m \in msgs, m.type = "AppendResponse", append_response_handled(m)
      PROVE  client'[c] = client[c]
  <2> DEFINE o == node[m.to]
             k == backoff(m.match_index)
             won == [o EXCEPT !.match_index[m.from] = m.match_index,
                              !.next_index[m.from] = m.match_index + 1]
             lost == [o EXCEPT !.next_index[m.from] = k]
             n == IF m.success THEN won ELSE lost
  <2>1. m.to \in Node /\ m.from \in Node /\ o \in NodeState BY HandlerContext
  <2>2. m.match_index \in Nat /\ k \in Nat /\ m.match_index + 1 \in Nat
    <3>1. m.match_index \in Nat /\ m.success \in BOOLEAN
      BY <1>9 DEF BoundsInv, TypeOK, Message
    <3> QED BY <3>1, BackoffType
  <2>3. client' = Answer(client, CommitReplies(n))
    BY <1>9 DEF append_response_handled, Finish
  <2> HIDE DEF o, k
  <2>4. won \in NodeState /\ won.pending_applies = o.pending_applies
    BY <2>1, <2>2 DEF NodeState
  <2>5. lost \in NodeState /\ lost.pending_applies = o.pending_applies
    BY <2>1, <2>2 DEF NodeState
  <2> HIDE DEF won, lost
  <2>6. n \in NodeState /\ n.pending_applies = o.pending_applies BY <2>4, <2>5
  <2> HIDE DEF n
  <2>7. Answer(client, CommitReplies(n))[c] = client[c]
    BY <1>1, <2>1, <2>6, CommitTells DEF o
  <2> QED BY <2>3, <2>7
<1>10. ASSUME NEW m \in msgs, append_response(m) PROVE client'[c] = client[c]
  BY <1>9, <1>10 DEF append_response, ignore, step_down, Finish
<1> QED BY <1>2, <1>3, <1>4, <1>6, <1>8, <1>10 DEF handle_message

\* A call speaks to its own client, which does not look idle any more, and to none
\* of the others that have not asked.
LEMMA CallTells ==
    ASSUME BoundsInv, NEW i \in Node, NEW c \in Command, client_command(i, c)
    PROVE  /\ client'[c].status # "idle"
           /\ \A d \in Command \ {c} : ~Asked(d) => client'[d] = client[d]
<1>1. client \in [Command -> Outcome] BY StateContext
<1>2. CASE client_command_refuse(i, c)
  <2>1. client' = [client EXCEPT ![c] = Status("rejected")]
    BY <1>2 DEF client_command_refuse
  <2> QED BY <1>1, <2>1 DEF Status
<1>3. CASE client_command_accept(i, c)
  <2> DEFINE o == node[i]
             index == apply_index(o.log)
             stale == {p \in o.pending_applies : p.index = index}
             log == Append(o.log, [term |-> o.current_term, command |-> c])
             pending == (o.pending_applies \ stale) \cup
                        {[index |-> index, request |-> c]}
             n == [o EXCEPT !.log = log, !.pending_applies = pending]
             dropped == Drop(client, stale)
             waiting == [dropped EXCEPT ![c] = Status("waiting")]
             a == advance_commit(n)
  <2>1. o \in NodeState BY NodeFacts
  <2>2. client' = Answer(waiting, replies(a))
    <3>1. n = [node[i] EXCEPT
                 !.log = Append(@, [term |-> node[i].current_term, command |-> c]),
                 !.pending_applies = (@ \ stale) \cup {[index |-> index, request |-> c]}]
      BY <2>1 DEF NodeState
    <3> QED BY <1>3, <3>1 DEF client_command_accept, Finish, CommitReplies
  <2> HIDE DEF log
  <2>3. n.pending_applies = pending
    <3> HIDE DEF o, pending
    <3> QED BY <2>1 DEF NodeState
  <2> HIDE DEF n
  <2>4. a.pending_applies = pending
    <3>1. PICK k : a = [n EXCEPT !.commit_index = k] \/ a = n BY DEF advance_commit
    <3>2. DOMAIN n = DOMAIN o BY DEF n
    <3>3. "pending_applies" \in DOMAIN o BY <2>1 DEF NodeState
    <3> QED BY <2>3, <3>1, <3>2, <3>3
  <2> HIDE DEF a
  <2>5. DOMAIN dropped = Command BY DEF Drop
  <2>6. waiting[c].status = "waiting" BY <2>5 DEF Status
  <2>7. client'[c].status # "idle"
    <3>1. CASE \E r \in replies(a) : r.request = c
      <4>1. client'[c].status = "ok" BY <2>2, <3>1 DEF Answer
      <4> QED BY <4>1
    <3>2. CASE ~\E r \in replies(a) : r.request = c
      <4>1. client'[c] = waiting[c] BY <2>2, <3>2 DEF Answer
      <4> QED BY <2>6, <4>1
    <3> QED BY <3>1, <3>2
  <2>8. ASSUME NEW d \in Command \ {c}, ~Asked(d) PROVE client'[d] = client[d]
    <3>1. \A p \in o.pending_applies : p.request # d BY <2>8 DEF Asked
    <3>2. \A p \in pending : p.request # d BY <3>1
    <3>3. dropped[d] = client[d] BY <3>1 DEF Drop
    <3>4. waiting[d] = dropped[d] BY <2>5
    <3> HIDE DEF pending, waiting
    <3>5. \A p \in a.pending_applies : p.request # d BY <2>4, <3>2
    <3>6. client'[d] = waiting[d] BY <2>2, <3>5, AnswerTells
    <3> QED BY <3>3, <3>4, <3>6
  <2> QED BY <2>7, <2>8
<1> QED BY <1>2, <1>3 DEF client_command

-----------------------------------------------------------------------------
(* What a step of the example does. *)

\* The invariants of Raft around a step, and the places of the commands.
Walks(place, more) ==
    /\ MainInv /\ MainInv' /\ RaftInv /\ RaftInv' /\ Learned /\ Learned' /\ Progresses
    /\ PlaceInv(place) /\ PlacesNext(place, more)
    /\ [KvNext]_kv_vars

\* A loss makes no progress and undoes none.
LEMMA LossProgresses ==
    ASSUME Applies, Loses
    PROVE  Progresses
<1>1. node' = node /\ decided' = decided BY DEF Loses
<1>2. NodesAdvance
  <2> SUFFICES ASSUME NEW i \in Node PROVE Advances(node[i], node[i])
    BY <1>1 DEF NodesAdvance
  <2>1. node[i].commit_index \in 0..Len(node[i].log) BY DEF Applies
  <2> QED BY <2>1 DEF Advances, Agree
<1> QED BY <1>1, <1>2 DEF Progresses, OneMoves, DecidedStays, Agree

\* Every step takes the places of the commands along.
LEMMA AllWalk ==
    ASSUME MainInv, MainInv', RaftInv, RaftInv', Progresses, Learned, Learned', Applies',
           [KvNext]_kv_vars
    PROVE  \E place, more \in [Command -> Nat] : Walks(place, more)
<1>1. PICK place \in [Command -> Nat] : PlaceInv(place) BY DEF RaftInv, CommandsInPlace
<1>2. Next \/ Loses BY KvSteps
<1>3. CASE Next
  <2>1. Stepping(place) BY <1>1 DEF Stepping, RaftInv, Progresses
  <2>2. PICK more \in [Command -> Nat] : PlacesNext(place, more) BY <1>3, <2>1, PlaceNext
  <2> QED BY <1>1, <2>2 DEF Walks
<1>4. CASE Loses
  <2>1. PlaceInv(place)' BY <1>1, <1>4, LossPlaces
  <2>2. PlacesNext(place, place)
    BY <1>4, <2>1 DEF PlacesNext, KeepsPlaces, AnswersGrow, Loses
  <2> QED BY <1>1, <2>2 DEF Walks
<1> QED BY <1>2, <1>3, <1>4

-----------------------------------------------------------------------------
(* The order of the program's commands. *)

\* An invariant step: only what main has sent is taken.
LEMMA SentNext ==
    ASSUME NEW place, NEW more, Walks(place, more), SentInOrder
    PROVE  SentInOrder'
<1> DEFINE Sent(c, m) == \E n \in DOMAIN Script :
              /\ c = Script[n] /\ n <= m.at
              /\ n = m.at => m.step \in {"await", "failed"}
<1>1. /\ \A c \in Command : Taken(client, c) => Sent(c, main)
      /\ \A n \in DOMAIN Script : n < main.at => Done(n)
      /\ main.step = "await" => client[Request].status # "idle"
  BY DEF SentInOrder
<1>2. /\ BoundsInv /\ main.at \in Nat
      /\ main \in [step : {"wait_for_leader", "call", "await", "kill_node", "done",
                           "failed"},
                   at : 1..(Len(Script) + 1), leader : Node \cup {Nil}]
  BY ScriptFacts DEF Walks, RaftInv, MainInv
<1>3. \A c \in Command : Asked(c) => Taken(client, c) /\ Taken(client', c)
  <2>1. \A c \in Command : Asked(c) => Taken(client, c)
    BY DEF Walks, PlaceInv, PendingInPlace, Asked, Taken
  <2> QED BY <2>1 DEF Walks, PlacesNext, KeepsPlaces
<1>4. \A n \in DOMAIN Script : Done(n) => client'[Script[n]].status = "ok"
  BY ScriptFacts DEF Walks, PlacesNext, AnswersGrow, Done
<1> HIDE DEF Sent
<1>5. CASE main' = main /\ \A c \in Command : ~Asked(c) => client'[c] = client[c]
  <2>1. \A c \in Command : Taken(client', c) => Sent(c, main')
    <3> TAKE c \in Command
    <3>1. Taken(client', c) => Taken(client, c) BY <1>3, <1>5 DEF Taken
    <3> QED BY <1>1, <1>5, <3>1
  <2>2. \A n \in DOMAIN Script : n < main'.at => Done(n)' BY <1>1, <1>4, <1>5 DEF Done
  <2>3. main'.step = "await" => client'[Request'].status # "idle"
    <3> SUFFICES ASSUME main'.step = "await" PROVE client'[Request].status # "idle"
      BY <1>5 DEF Request
    <3>1. main.at \in DOMAIN Script BY <1>2, <1>5, ScriptFacts DEF Walks, MainInv
    <3>2. Request \in Command BY <3>1, ScriptFacts DEF Request
    <3>3. Asked(Request) => client'[Request].status # "idle" BY <1>3, <3>2 DEF Taken
    <3> QED BY <1>1, <1>5, <3>2, <3>3
  <2> QED BY <2>1, <2>2, <2>3 DEF SentInOrder, Sent
<1>6. CASE wait_for_leader \/ kill_node
  <2>1. /\ client' = client /\ main'.at = main.at /\ main'.step \in {"call", "wait_for_leader"}
        /\ main.step \in {"wait_for_leader", "kill_node"}
    BY <1>2, <1>6 DEF wait_for_leader, kill_node, vars
  <2>2. \A c \in Command : Sent(c, main) => Sent(c, main') BY <2>1 DEF Sent
  <2>3. \A n \in DOMAIN Script : n < main'.at => Done(n)' BY <1>1, <2>1 DEF Done
  <2>4. \A c \in Command : Taken(client', c) => Sent(c, main') BY <1>1, <2>1, <2>2
  <2> QED BY <2>1, <2>3, <2>4 DEF SentInOrder, Sent
<1>7. CASE call
  <2>1. /\ main.step = "call" /\ client_command(main.leader, Request)
        /\ main' = [main EXCEPT !.step = "await"]
    BY <1>7 DEF call
  <2>2. main'.at = main.at /\ main'.step = "await" BY <1>2, <2>1
  <2>3. main.leader \in Node /\ main.at \in DOMAIN Script
    BY <1>2, <2>1, ScriptFacts DEF Walks, MainInv
  <2>4. Request \in Command /\ Request = Script[main.at] BY <2>3, ScriptFacts DEF Request
  <2>5. /\ client'[Request].status # "idle"
        /\ \A d \in Command \ {Request} : ~Asked(d) => client'[d] = client[d]
    BY <1>2, <2>1, <2>3, <2>4, CallTells
  <2>6. \A c \in Command : Taken(client', c) => Sent(c, main')
    <3> TAKE c \in Command
    <3>1. CASE c = Request BY <1>2, <2>2, <2>3, <2>4, <3>1 DEF Sent
    <3>2. CASE c # Request
      <4>1. Taken(client', c) => Taken(client, c) BY <1>3, <2>5, <3>2 DEF Taken
      <4>2. Sent(c, main) => Sent(c, main') BY <2>2 DEF Sent
      <4> QED BY <1>1, <4>1, <4>2
    <3> QED BY <3>1, <3>2
  <2>7. \A n \in DOMAIN Script : n < main'.at => Done(n)' BY <1>1, <1>4, <2>2 DEF Done
  <2>8. client'[Request'].status # "idle" BY <2>2, <2>5 DEF Request
  <2> QED BY <2>6, <2>7, <2>8 DEF SentInOrder, Sent
<1>8. CASE return
  <2> DEFINE outcome == client[Request].status
  <2>1. /\ main.step = "await" /\ outcome # "waiting" /\ client' = client
        /\ \/ main' = [main EXCEPT !.step = "failed"]
           \/ /\ outcome \notin {"rejected", "dropped"}
              /\ main' = [main EXCEPT !.step = After(main.at), !.at = main.at + 1]
    BY <1>8 DEF return, vars
  <2>2. CASE main' = [main EXCEPT !.step = "failed"]
    <3>1. main'.at = main.at /\ main'.step = "failed" BY <1>2, <2>2
    <3>2. \A c \in Command : Sent(c, main) => Sent(c, main') BY <3>1 DEF Sent
    <3>3. \A n \in DOMAIN Script : n < main'.at => Done(n)' BY <1>1, <2>1, <3>1 DEF Done
    <3>4. \A c \in Command : Taken(client', c) => Sent(c, main') BY <1>1, <2>1, <3>2
    <3> QED BY <3>1, <3>3, <3>4 DEF SentInOrder, Sent
  <2>3. CASE /\ outcome \notin {"rejected", "dropped"}
             /\ main' = [main EXCEPT !.step = After(main.at), !.at = main.at + 1]
    <3>1. main'.at = main.at + 1 /\ main'.step = After(main.at) BY <1>2, <2>3
    <3>2. main'.step # "await" BY <3>1 DEF After
    <3>3. main.at \in DOMAIN Script BY <1>2, <2>1, ScriptFacts DEF Walks, MainInv
    <3>4. Done(main.at)
      <4>1. client[Request] \in Outcome BY <1>2, <3>3, ScriptFacts, StateContext DEF Request
      <4>2. outcome = "ok" BY <1>1, <2>1, <2>3, <4>1 DEF Outcome
      <4> QED BY <4>2 DEF Done, Request
    <3>5. \A n \in DOMAIN Script : n < main'.at => Done(n)'
      <4> TAKE n \in DOMAIN Script
      <4>1. n < main'.at => n < main.at \/ n = main.at BY <1>2, <3>1, ScriptFacts
      <4>2. n < main.at \/ n = main.at => Done(n) BY <1>1, <3>4
      <4> QED BY <2>1, <4>1, <4>2 DEF Done
    <3>6. \A c \in Command : Sent(c, main) => Sent(c, main')
      BY <1>2, <3>1, ScriptFacts DEF Sent
    <3>7. \A c \in Command : Taken(client', c) => Sent(c, main') BY <1>1, <2>1, <3>6
    <3> QED BY <3>2, <3>5, <3>7 DEF SentInOrder, Sent
  <2> QED BY <2>1, <2>2, <2>3
<1>9. launch => main' = main /\ \A c \in Command : ~Asked(c) => client'[c] = client[c]
  <2> SUFFICES ASSUME launch
               PROVE  main' = main /\ \A c \in Command : ~Asked(c) => client'[c] = client[c]
    OBVIOUS
  <2>1. \/ \E i \in Node : become_candidate(i) \/ heartbeat(i)
        \/ \E m \in msgs : handle_message(m)
    BY DEF launch, Walks, MainInv
  <2>2. main' = main BY DEF launch
  <2> QED BY <1>2, <2>1, <2>2, TasksTell
<1>10. send_fails \/ UNCHANGED kv_vars => main' = main /\ client' = client
  BY DEF send_fails, kv_vars, cluster_vars, vars
<1> QED BY <1>5, <1>6, <1>7, <1>8, <1>9, <1>10 DEF Walks, KvNext

\* The entries that hold a command hold one of the script that main has come to, each
\* at its place.
LEMMA DecidedAreSent ==
    ASSUME BoundsInv, SentInOrder, NEW place, PlaceInv(place), NEW j \in DOMAIN decided,
           decided[j].command # NoOp
    PROVE  \E n \in DOMAIN Script :
              n <= main.at /\ decided[j].command = Script[n] /\ place[Script[n]] = j
<1>1. decided \in Seq(Entry) BY DEF BoundsInv, TypeOK
<1>2. j \in 1..Len(decided) /\ Len(decided) \in Nat /\ decided[j] \in Entry
  BY <1>1, LenProperties
<1>3. decided[j].command \in Command BY <1>2 DEF Entry
<1>4. Taken(client, decided[j].command) /\ place[decided[j].command] = 0 + j
  BY <1>2 DEF PlaceInv, InPlace
<1>5. 0 + j = j BY <1>2
<1> QED BY <1>3, <1>4, <1>5 DEF SentInOrder

\* An invariant step: what is decided comes after the commands that main sent before,
\* for those have been answered with what is decided at their places.
LEMMA OrderNext ==
    ASSUME NEW place, NEW more, Walks(place, more), SentInOrder, SentInOrder',
           DecidedInOrder
    PROVE  DecidedInOrder'
<1> DEFINE At(n, j) == n \in DOMAIN Script /\ decided[j].command = Script[n]
<1>1. /\ BoundsInv /\ BoundsInv' /\ PlaceInv(place) /\ PlaceInv(more)'
      /\ DecidedStays /\ KeepsPlaces(client, client', place, more)
  BY DEF Walks, RaftInv, Progresses, PlacesNext
<1>2. /\ Len(decided) \in Nat /\ Len(decided') \in Nat
      /\ DOMAIN decided = 1..Len(decided) /\ DOMAIN decided' = 1..Len(decided')
  <2>1. decided \in Seq(Entry) /\ decided' \in Seq(Entry) BY <1>1 DEF BoundsInv, TypeOK
  <2> QED BY <2>1, LenProperties
<1>3. \A m, n \in DOMAIN Script : Script[m] = Script[n] => m = n BY ScriptFacts
<1>4. ASSUME NEW j \in DOMAIN decided', decided'[j].command # NoOp
      PROVE  \E n \in DOMAIN Script :
                n <= main'.at /\ decided'[j].command = Script[n] /\ more[Script[n]] = j
  <2>1. decided' \in Seq(Entry) BY <1>1 DEF BoundsInv, TypeOK
  <2>2. decided'[j] \in Entry BY <1>2, <2>1, LenProperties
  <2>3. decided'[j].command \in Command BY <1>4, <2>2 DEF Entry
  <2>4. Taken(client', decided'[j].command) /\ more[decided'[j].command] = 0 + j
    BY <1>1, <1>2, <1>4 DEF PlaceInv, InPlace
  <2>5. 0 + j = j BY <1>2
  <2> QED BY <2>3, <2>4, <2>5 DEF SentInOrder
<1>5. ASSUME NEW j \in DOMAIN decided', NEW k \in DOMAIN decided', j < k,
             NEW x \in DOMAIN Script, NEW y \in DOMAIN Script,
             x <= main'.at, y <= main'.at,
             decided'[j].command = Script[x], decided'[k].command = Script[y],
             more[Script[x]] = j, more[Script[y]] = k
      PROVE  x < y
  <2> SUFFICES ASSUME y <= x PROVE FALSE BY ScriptFacts
  <2>1. y < x BY <1>2, <1>5, ScriptFacts
  <2>2. CASE k <= Len(decided)
    <3>1. j \in DOMAIN decided /\ k \in DOMAIN decided BY <1>2, <1>5, <2>2
    <3>2. decided[j] = decided'[j] /\ decided[k] = decided'[k]
      BY <1>1, <1>2, <3>1 DEF DecidedStays, Agree
    <3>3. Script[x] # NoOp /\ Script[y] # NoOp BY ScriptFacts, NoOpAssumption
    <3>4. (CHOOSE n \in DOMAIN Script : Script[n] = Script[x]) = x
          /\ (CHOOSE n \in DOMAIN Script : Script[n] = Script[y]) = y
      BY <1>3
    <3>5. x < y BY <1>5, <3>1, <3>2, <3>3, <3>4 DEF DecidedInOrder
    <3> QED BY <2>1, <3>5, ScriptFacts
  <2>3. CASE k > Len(decided)
    <3>1. main'.at = main.at
      <4>1. return => decided' = decided BY DEF return, vars
      <4>2. ~return BY <1>2, <2>3, <4>1
      <4>3. /\ call \/ wait_for_leader \/ kill_node => main'.at = main.at
            /\ launch \/ send_fails \/ UNCHANGED kv_vars => main' = main
        <5>1. /\ call => main' = [main EXCEPT !.step = "await"]
              /\ kill_node => main' = [main EXCEPT !.step = "wait_for_leader", !.leader = Nil]
              /\ wait_for_leader =>
                    \E i \in nodes : main' = [main EXCEPT !.step = "call", !.leader = i]
          BY DEF call, kill_node, wait_for_leader
        <5>2. main \in [step : {"wait_for_leader", "call", "await", "kill_node", "done",
                                "failed"},
                        at : 1..(Len(Script) + 1), leader : Node \cup {Nil}]
          BY DEF Walks, MainInv
        <5>3. call \/ wait_for_leader \/ kill_node => main'.at = main.at BY <5>1, <5>2
        <5> QED BY <5>3 DEF launch, send_fails, kv_vars, cluster_vars
      <4> QED BY <4>2, <4>3 DEF Walks, KvNext
    <3>2. main.at \in Nat BY ScriptFacts DEF Walks, MainInv
    <3>3. Done(y) BY <1>5, <2>1, <3>1, <3>2, ScriptFacts DEF SentInOrder
    <3>4. place[Script[y]] \in 1..Len(decided) /\ Taken(client, Script[y])
      BY <1>1, <3>3, ScriptFacts DEF Done, Taken, PlaceInv, AnswersInPlace
    <3>5. more[Script[y]] = place[Script[y]] BY <1>1, <3>4, ScriptFacts DEF KeepsPlaces
    <3> QED BY <1>2, <1>5, <2>3, <3>4, <3>5
  <2> QED BY <1>2, <2>2, <2>3
<1> SUFFICES ASSUME NEW j \in DOMAIN decided', decided'[j].command # NoOp,
                    NEW k \in DOMAIN decided', decided'[k].command # NoOp, j < k
             PROVE  (CHOOSE n \in DOMAIN Script : Script[n] = decided'[j].command)
                      < (CHOOSE n \in DOMAIN Script : Script[n] = decided'[k].command)
  BY DEF DecidedInOrder
<1>6. PICK x \in DOMAIN Script :
         x <= main'.at /\ decided'[j].command = Script[x] /\ more[Script[x]] = j
  BY <1>4
<1>7. PICK y \in DOMAIN Script :
         y <= main'.at /\ decided'[k].command = Script[y] /\ more[Script[y]] = k
  BY <1>4
<1>8. x < y BY <1>5, <1>6, <1>7
<1>9. (CHOOSE n \in DOMAIN Script : Script[n] = Script[x]) = x
      /\ (CHOOSE n \in DOMAIN Script : Script[n] = Script[y]) = y
  BY <1>3
<1> QED BY <1>6, <1>7, <1>8, <1>9

-----------------------------------------------------------------------------
(* The databases and the results. *)

\* A cut of a cut.
LEMMA CutOfCut ==
    ASSUME NEW log \in Seq(Entry), NEW m \in Nat, NEW n \in Nat, m <= n, n <= Len(log),
           NEW k \in 1..(n - m)
    PROVE  /\ SubSeq(log, m + 1, n)[k] = log[m + k]
           /\ SubSeq(SubSeq(log, m + 1, n), 1, k - 1) = SubSeq(log, m + 1, m + (k - 1))
<1> DEFINE b == SubSeq(log, m + 1, n)
           s == SubSeq(b, 1, k - 1)
           t == SubSeq(log, m + 1, m + (k - 1))
<1>1. Len(log) \in Nat /\ \A y \in 1..Len(log) : log[y] \in Entry BY LogFacts
<1>2. b \in Seq(Entry) /\ Len(b) = n - m /\ \A y \in 1..(n - m) : b[y] = log[m + y]
  <2>1. \A y \in (m + 1)..n : log[y] \in Entry BY <1>1
  <2>2. /\ b \in Seq(Entry) /\ Len(b) = IF m + 1 <= n THEN n - (m + 1) + 1 ELSE 0
        /\ \A y \in 1..(n - (m + 1) + 1) : b[y] = log[(m + 1) + y - 1]
    BY <2>1, SubSeqProperties
  <2> HIDE DEF b
  <2>3. \A y \in 1..(n - m) : y \in 1..(n - (m + 1) + 1) /\ (m + 1) + y - 1 = m + y
    OBVIOUS
  <2>4. ASSUME NEW y \in 1..(n - m) PROVE b[y] = log[m + y]
    <3>1. y \in 1..(n - (m + 1) + 1) /\ (m + 1) + y - 1 = m + y BY <2>3
    <3>2. b[y] = log[(m + 1) + y - 1] BY <2>2, <3>1
    <3> QED BY <3>1, <3>2
  <2>5. Len(b) = n - m BY <2>2
  <2> QED BY <2>2, <2>4, <2>5
<1> HIDE DEF b
<1>3. k - 1 \in Nat /\ k - 1 <= Len(b) BY <1>2
<1>4. s \in Seq(Entry) /\ Len(s) = k - 1 /\ \A y \in 1..(k - 1) : s[y] = b[y]
  BY <1>2, <1>3, PrefixAgrees
<1>5. t \in Seq(Entry) /\ Len(t) = k - 1 /\ \A y \in 1..(k - 1) : t[y] = log[m + y]
  <2> DEFINE h == m + (k - 1)
  <2>1. h \in Nat /\ h <= Len(log) /\ h - m = k - 1 BY <1>1
  <2>2. \A y \in (m + 1)..h : log[y] \in Entry BY <1>1, <2>1
  <2>3. t = SubSeq(log, m + 1, h) OBVIOUS
  <2> HIDE DEF h, t
  <2>4. /\ t \in Seq(Entry) /\ Len(t) = IF m + 1 <= h THEN h - (m + 1) + 1 ELSE 0
        /\ \A y \in 1..(h - (m + 1) + 1) : t[y] = log[(m + 1) + y - 1]
    BY <2>1, <2>2, <2>3, SubSeqProperties
  <2>5. ASSUME NEW y \in 1..(k - 1) PROVE t[y] = log[m + y]
    <3>1. y \in 1..(h - (m + 1) + 1) /\ (m + 1) + y - 1 = m + y BY <2>1
    <3>2. t[y] = log[(m + 1) + y - 1] BY <2>4, <3>1
    <3> QED BY <3>1, <3>2
  <2>6. Len(t) = k - 1 BY <1>3, <2>1, <2>4
  <2> QED BY <2>4, <2>5, <2>6
<1> HIDE DEF s, t
<1>6. \A y \in 1..(k - 1) : s[y] = t[y] BY <1>2, <1>3, <1>4, <1>5
<1>7. s = t BY <1>4, <1>5, <1>6, SeqEqual
<1> QED BY <1>2, <1>7 DEF b, s, t

\* No node restarts in the example.
LEMMA NoRestart ==
    ASSUME launch \/ call
    PROVE  restarts' = restarts
<1>1. ASSUME NEW i, become_candidate(i) \/ heartbeat(i) PROVE restarts' = restarts
  BY <1>1 DEF become_candidate, heartbeat
<1>2. ASSUME NEW m, handle_message(m) PROVE restarts' = restarts
  BY <1>2 DEF handle_message, vote_request, vote_request_stale, vote_request_grant,
              vote_request_reject, vote_response, count_vote, append_request,
              append_request_stale, append_request_mismatch, append_request_accept,
              append_response, append_response_handled, ignore, step_down, Finish
<1>3. ASSUME NEW i, NEW c, client_command(i, c) PROVE restarts' = restarts
  BY <1>3 DEF client_command, client_command_refuse, client_command_accept
<1> QED BY <1>1, <1>2, <1>3 DEF launch, call

\* What a node's state machine is given are decided entries that follow those it had
\* been given.
LEMMA AppliedFollows ==
    ASSUME NEW place, NEW more, Walks(place, more), launch \/ call, NEW i \in Node
    PROVE  LET m == Len(node[i].applied)
               n == Len(node'[i].applied)
           IN  /\ m \in Nat /\ n \in Nat /\ m <= n /\ n <= Len(decided')
               /\ node'[i].applied \in Seq(Entry) /\ decided' \in Seq(Entry)
               /\ Agree(node[i].applied, node'[i].applied, m)
               /\ Agree(node'[i].applied, decided', n)
<1> DEFINE a == node[i].applied
           b == node'[i].applied
           m == Len(a)
           n == Len(b)
<1>1. /\ BoundsInv /\ BoundsInv' /\ Learned /\ Learned' /\ NodesAdvance /\ DecidedStays
  BY DEF Walks, RaftInv, Progresses
<1>2. decided \in Seq(Entry) /\ decided' \in Seq(Entry) BY <1>1 DEF BoundsInv, TypeOK
<1>3. node[i] \in NodeState /\ node'[i] \in NodeState BY <1>1 DEF BoundsInv, TypeOK
<1>4. /\ a \in Seq(Entry) /\ b \in Seq(Entry)
      /\ node[i].commit_index \in Nat /\ node'[i].commit_index \in Nat
  BY <1>3 DEF NodeState
<1>5. /\ m = node[i].commit_index /\ a = SubSeq(decided, 1, m) /\ m <= Len(decided)
      /\ n = node'[i].commit_index /\ b = SubSeq(decided', 1, n) /\ n <= Len(decided')
  BY <1>1 DEF Learned
<1> HIDE DEF a, b
<1>6. m \in Nat /\ n \in Nat BY <1>4, <1>5
<1>7. m <= n
  <2>1. n >= m \/ restarts' # restarts BY <1>1, <1>5 DEF NodesAdvance, Advances
  <2> QED BY <1>6, <2>1, NoRestart
<1> HIDE DEF m, n
<1>8. Agree(a, decided, m) BY <1>2, <1>5, <1>6, PrefixAgrees
<1>9. Agree(b, decided', n)
  <2>1. PICK d : d = decided' OBVIOUS
  <2>2. Agree(SubSeq(d, 1, n), d, n) BY <1>2, <1>5, <1>6, <2>1, PrefixAgrees
  <2> QED BY <1>5, <2>1, <2>2
<1>10. Agree(a, b, m)
  <2>1. PICK c, d : c = decided /\ d = decided' OBVIOUS
  <2>2. /\ Len(c) \in Nat /\ Agree(c, d, Len(c)) /\ c \in Seq(Entry) /\ d \in Seq(Entry)
        /\ Agree(a, c, m) /\ m <= Len(c)
    BY <1>1, <1>2, <1>5, <1>8, <2>1, LenProperties DEF DecidedStays
  <2>3. Agree(a, d, m)
    <3>1. m <= m BY <1>6
    <3>2. a \in Seq(Entry) BY <1>4
    <3> QED BY <1>6, <2>2, <3>1, <3>2, AgreeTrans
  <2>4. Agree(b, d, n) BY <1>9, <2>1
  <2>5. Agree(d, b, n) BY <1>4, <1>6, <2>2, <2>4, AgreeSym
  <2> QED BY <1>4, <1>6, <1>7, <2>2, <2>3, <2>5, AgreeTrans
<1> QED BY <1>2, <1>4, <1>5, <1>6, <1>7, <1>9, <1>10 DEF a, b, m, n

\* The first k entries that a node's state machine is given bring its database to the
\* value that the decided entries leave.
LEMMA DatabaseReaches ==
    ASSUME NEW place, NEW more, Walks(place, more), launch \/ call, DatabasesFollow,
           NEW i \in Node, NEW k \in DOMAIN Applied(i)
    PROVE  LET m == Len(node[i].applied)
           IN  /\ m + k \in 1..Len(decided') /\ Applied(i)[k] = decided'[m + k]
               /\ FoldLeft(apply, databases[i], SubSeq(Applied(i), 1, k - 1))
                    = Value(decided', m + (k - 1))
<1> DEFINE a == node[i].applied
           b == node'[i].applied
           m == Len(a)
           n == Len(b)
           j == m + (k - 1)
<1>1. PICK d : d = decided' OBVIOUS
<1>2. /\ m \in Nat /\ n \in Nat /\ m <= n /\ n <= Len(d)
      /\ b \in Seq(Entry) /\ d \in Seq(Entry) /\ Agree(a, b, m) /\ Agree(b, d, n)
  BY <1>1, AppliedFollows
<1>3. databases[i] = Value(a, m) BY DEF DatabasesFollow
<1>4. k \in DOMAIN SubSeq(b, m + 1, n) BY DEF Applied
<1> HIDE DEF a, b
<1>5. k \in 1..(n - m)
  <2>1. \A y \in (m + 1)..n : b[y] \in Entry BY <1>2, LogFacts
  <2>2. /\ SubSeq(b, m + 1, n) \in Seq(Entry)
        /\ Len(SubSeq(b, m + 1, n)) = IF m + 1 <= n THEN n - (m + 1) + 1 ELSE 0
    BY <1>2, <2>1, SubSeqProperties
  <2>3. k \in 1..Len(SubSeq(b, m + 1, n)) BY <1>4, <2>2, LenProperties
  <2> QED BY <1>2, <2>2, <2>3
<1>6. /\ SubSeq(b, m + 1, n)[k] = b[m + k]
      /\ SubSeq(SubSeq(b, m + 1, n), 1, k - 1) = SubSeq(b, m + 1, j)
  <2> HIDE DEF m, n
  <2>1. n <= Len(b) BY <1>2 DEF Agree
  <2> QED BY <1>2, <1>5, <2>1, CutOfCut
<1>7. databases[i] = Value(b, m)
  <2> HIDE DEF m
  <2> QED BY <1>2, <1>3, SameValue
<1>8. Applied(i) = SubSeq(b, m + 1, n) BY DEF Applied, a, b
<1> HIDE DEF m, n
<1>9. /\ j \in Nat /\ m <= j /\ j <= n /\ m + k \in 1..n /\ m + k \in 1..Len(d)
  <2>1. Len(d) \in Nat BY <1>2, LenProperties
  <2> QED BY <1>2, <1>5, <2>1
<1> HIDE DEF j
<1>10. n <= Len(b) BY <1>2 DEF Agree
<1>11. FoldLeft(apply, Value(b, m), SubSeq(b, m + 1, j)) = Value(b, j)
  <2>1. j <= Len(b) BY <1>2, <1>9, <1>10, LenProperties
  <2> QED BY <1>2, <1>9, <2>1, ApplyMore
<1>12. Agree(b, d, j)
  <2>1. Len(b) \in Nat /\ Len(d) \in Nat BY <1>2, LenProperties
  <2> QED BY <1>2, <1>9, <2>1 DEF Agree
<1>13. Value(b, j) = Value(d, j) BY <1>9, <1>12, SameValue
<1>14. b[m + k] = d[m + k] BY <1>2, <1>9 DEF Agree
<1> QED BY <1>1, <1>6, <1>7, <1>8, <1>9, <1>11, <1>13, <1>14 DEF j, m, a

\* An invariant step: the databases follow the state machines.
LEMMA DatabasesNext ==
    ASSUME NEW place, NEW more, Walks(place, more), DatabasesFollow
    PROVE  DatabasesFollow'
<1>1. CASE launch \/ call
  <2>1. databases' = [x \in Node |-> FoldLeft(apply, databases[x], Applied(x))]
    BY <1>1 DEF launch, call, StateMachines
  <2> SUFFICES ASSUME NEW i \in Node
               PROVE  FoldLeft(apply, databases[i], Applied(i))
                        = Value(node'[i].applied, Len(node'[i].applied))
    BY <2>1 DEF DatabasesFollow
  <2> DEFINE a == node[i].applied
             b == node'[i].applied
             m == Len(a)
             n == Len(b)
  <2>2. Applied(i) = SubSeq(b, m + 1, n) BY DEF Applied
  <2>3. m \in Nat /\ n \in Nat /\ m <= n /\ b \in Seq(Entry) /\ Agree(a, b, m)
    BY <1>1, AppliedFollows
  <2>4. databases[i] = Value(a, m) BY DEF DatabasesFollow
  <2> HIDE DEF a, b
  <2>5. n <= Len(b) BY <2>3
  <2> HIDE DEF m, n
  <2>6. Value(a, m) = Value(b, m) BY <2>3, SameValue
  <2>7. FoldLeft(apply, Value(b, m), SubSeq(b, m + 1, n)) = Value(b, n)
    BY <2>3, <2>5, ApplyMore
  <2> QED BY <2>2, <2>4, <2>6, <2>7 DEF b, n
<1>2. CASE ~(launch \/ call)
  <2>1. node' = node /\ databases' = databases
    BY <1>2 DEF Walks, KvNext, send_fails, wait_for_leader, return, kill_node, kv_vars,
                cluster_vars, vars
  <2> QED BY <2>1 DEF DatabasesFollow
<1> QED BY <1>1, <1>2

\* What a state machine is given, by its index among the decided entries.
LEMMA AppliedAt ==
    ASSUME NEW place, NEW more, Walks(place, more), launch \/ call, NEW i \in Node
    PROVE  LET m == Len(node[i].applied)
               n == Len(node'[i].applied)
           IN  \A x \in (m + 1)..n :
                  /\ x - m \in DOMAIN Applied(i) /\ x - m \in 1..Len(decided')
                  /\ Applied(i)[x - m] = node'[i].applied[x]
<1> DEFINE b == node'[i].applied
           m == Len(node[i].applied)
           n == Len(b)
<1> SUFFICES ASSUME NEW x \in (m + 1)..n
             PROVE  /\ x - m \in DOMAIN Applied(i) /\ x - m \in 1..Len(decided')
                    /\ Applied(i)[x - m] = b[x]
  OBVIOUS
<1>1. /\ m \in Nat /\ n \in Nat /\ m <= n /\ n <= Len(decided')
      /\ b \in Seq(Entry) /\ Len(decided') \in Nat
  <2>1. decided' \in Seq(Entry) BY AppliedFollows
  <2>2. Len(decided') \in Nat BY <2>1, LenProperties
  <2> QED BY <2>2, AppliedFollows
<1>2. Applied(i) = SubSeq(b, m + 1, n) BY DEF Applied
<1> HIDE DEF b, m
<1>3. n <= Len(b) BY <1>1
<1>4. /\ SubSeq(b, m + 1, n) \in Seq(Entry)
      /\ Len(SubSeq(b, m + 1, n)) = IF m + 1 <= n THEN n - (m + 1) + 1 ELSE 0
  <2>1. \A y \in (m + 1)..n : b[y] \in Entry BY <1>1, <1>3, LogFacts
  <2> QED BY <1>1, <2>1, SubSeqProperties
<1>5. DOMAIN SubSeq(b, m + 1, n) = 1..Len(SubSeq(b, m + 1, n)) BY <1>4, LenProperties
<1> HIDE DEF n
<1>6. /\ x - m \in 1..(n - m) /\ m + (x - m) = x /\ x - m \in 1..Len(decided')
      /\ n - (m + 1) + 1 = n - m /\ m + 1 <= n
  BY <1>1
<1>7. SubSeq(b, m + 1, n)[x - m] = b[m + (x - m)] BY <1>1, <1>3, <1>6, CutOfCut
<1> QED BY <1>2, <1>4, <1>5, <1>6, <1>7

\* Who is told Ok now is given the output of an entry that is applied now.
LEMMA ToldNow ==
    ASSUME NEW place, NEW more, Walks(place, more), launch \/ call, NEW c \in Command,
           client'[c].status = "ok", client[c].status # "ok"
    PROVE  \E i \in Node : \E k \in DOMAIN Applied(i) :
              /\ Applied(i)[k].command = client'[c].output
              /\ results'[c] = Output(databases[i], Applied(i), k)
<1> DEFINE Places == {<<i, k>> : i \in Node, k \in 1..Len(decided')}
           Tells(x) == /\ x[2] \in DOMAIN Applied(x[1])
                       /\ Applied(x[1])[x[2]].command = client'[c].output
           by == CHOOSE x \in Places : Tells(x)
<1>1. results' = [d \in Command |-> Returned(d)] BY DEF launch, call, StateMachines
<1>2. results'[c] = Output(databases[by[1]], Applied(by[1]), by[2])
  BY <1>1 DEF Returned
<1>3. client'[c] # client[c] OBVIOUS
<1>4. PICK i \in Node : \E x \in (Len(node[i].applied) + 1)..Len(node'[i].applied) :
         node'[i].applied[x].command = client'[c].output
  BY <1>3 DEF Walks, PlacesNext, AnswersGrow
<1>5. PICK x \in (Len(node[i].applied) + 1)..Len(node'[i].applied) :
         node'[i].applied[x].command = client'[c].output
  BY <1>4
<1> DEFINE k == x - Len(node[i].applied)
<1>6. k \in DOMAIN Applied(i) /\ k \in 1..Len(decided') /\ Applied(i)[k] = node'[i].applied[x]
  BY <1>5, AppliedAt
<1> HIDE DEF k
<1>7. <<i, k>> \in Places /\ Tells(<<i, k>>) BY <1>5, <1>6
<1>8. by \in Places /\ Tells(by)
  <2> HIDE DEF Places, Tells
  <2> QED BY <1>7
<1> HIDE DEF by
<1>9. by[1] \in Node BY <1>8
<1> QED BY <1>2, <1>8, <1>9

\* An invariant step: what the program is given is what the decided entries leave.
LEMMA ResultsNext ==
    ASSUME NEW place, NEW more, Walks(place, more), DatabasesFollow, ResultsFollow,
           results \in [Command -> Put \cup {Nil}]
    PROVE  ResultsFollow' /\ results' \in [Command -> Put \cup {Nil}]
<1> DEFINE Follows(c) == \E x \in DOMAIN decided' :
              decided'[x].command = c /\ results'[c] = Value(decided', x - 1)
<1>1. /\ BoundsInv /\ BoundsInv' /\ DecidedStays /\ AnswersGrow
  BY DEF Walks, RaftInv, Progresses, PlacesNext
<1>2. /\ Len(decided) \in Nat /\ Len(decided') \in Nat
      /\ DOMAIN decided = 1..Len(decided) /\ DOMAIN decided' = 1..Len(decided')
  <2>1. decided \in Seq(Entry) /\ decided' \in Seq(Entry) BY <1>1 DEF BoundsInv, TypeOK
  <2> QED BY <2>1, LenProperties
<1>3. CASE launch \/ call
  <2>1. results' = [d \in Command |-> Returned(d)]
    BY <1>3 DEF launch, call, StateMachines
  <2>2. ASSUME NEW c \in Command, client'[c].status = "ok", client[c].status # "ok"
        PROVE  /\ results'[c] \in Put \cup {Nil}
               /\ client'[c].output = c /\ c \notin Put => Follows(c)
    <3>1. PICK i \in Node : \E k \in DOMAIN Applied(i) :
             /\ Applied(i)[k].command = client'[c].output
             /\ results'[c] = Output(databases[i], Applied(i), k)
      BY <1>3, <2>2, ToldNow
    <3>2. PICK k \in DOMAIN Applied(i) :
             /\ Applied(i)[k].command = client'[c].output
             /\ results'[c] = Output(databases[i], Applied(i), k)
      BY <3>1
    <3> DEFINE m == Len(node[i].applied)
               x == m + k
    <3>3. /\ m \in Nat /\ x \in 1..Len(decided') /\ Applied(i)[k] = decided'[x]
          /\ FoldLeft(apply, databases[i], SubSeq(Applied(i), 1, k - 1))
               = Value(decided', m + (k - 1))
      BY <1>3, AppliedFollows, DatabaseReaches
    <3>4. /\ k \in Int /\ x \in Nat
      <4>1. DOMAIN Applied(i) = DOMAIN SubSeq(node'[i].applied, m + 1, Len(node'[i].applied))
        BY DEF Applied
      <4>2. m \in Nat /\ Len(node'[i].applied) \in Nat BY <1>3, AppliedFollows
      <4> HIDE DEF m
      <4>3. DOMAIN Applied(i) \subseteq Int BY <4>1, <4>2 DEF SubSeq
      <4> QED BY <4>3, <1>2, <3>3
    <3> HIDE DEF m
    <3>5. m + (k - 1) = x - 1 /\ x - 1 \in Nat BY <1>2, <3>3, <3>4
    <3> HIDE DEF x
    <3>6. \/ results'[c] = Nil /\ client'[c].output \in Put
          \/ results'[c] = Value(decided', x - 1)
      BY <3>2, <3>3, <3>5 DEF Output
    <3>7. results'[c] \in Put \cup {Nil} BY <3>5, <3>6, ValueType
    <3>8. ASSUME client'[c].output = c, c \notin Put PROVE Follows(c)
      BY <1>2, <3>2, <3>3, <3>6, <3>8
    <3> QED BY <3>7, <3>8
  <2>3. ASSUME NEW c \in Command, ~(client'[c].status = "ok" /\ client[c].status # "ok")
        PROVE  results'[c] = results[c]
    <3>1. results'[c] = Returned(c) BY <2>1
    <3>2. Returned(c) = results[c] BY <2>3, SMTT(30) DEF Returned
    <3> QED BY <3>1, <3>2
  <2>4. \A c \in Command : results'[c] \in Put \cup {Nil}
    <3> TAKE c \in Command
    <3> QED BY <2>2, <2>3
  <2>5. ASSUME NEW c \in Command,
               client'[c].status = "ok", client'[c].output = c, c \notin Put
        PROVE  Follows(c)
    <3>1. CASE client[c].status # "ok" BY <2>2, <2>5, <3>1
    <3>2. CASE client[c].status = "ok"
      <4>1. client'[c] = client[c] /\ results'[c] = results[c]
        BY <1>1, <2>3, <3>2 DEF AnswersGrow
      <4>2. PICK x \in DOMAIN decided :
               decided[x].command = c /\ results[c] = Value(decided, x - 1)
        BY <2>5, <3>2, <4>1 DEF ResultsFollow
      <4>3. x \in DOMAIN decided' /\ decided'[x] = decided[x]
        BY <1>1, <1>2, <4>2 DEF DecidedStays, Agree
      <4>4. Value(decided', x - 1) = Value(decided, x - 1)
        <5>1. x - 1 \in Nat BY <1>2, <4>2
        <5>2. PICK a, b : a = decided /\ b = decided' OBVIOUS
        <5>3. Agree(a, b, x - 1)
          BY <1>1, <1>2, <4>2, <5>2 DEF DecidedStays, Agree
        <5>4. Value(a, x - 1) = Value(b, x - 1) BY <5>1, <5>3, SameValue
        <5> QED BY <5>2, <5>4
      <4> QED BY <4>1, <4>2, <4>3, <4>4
    <3> QED BY <3>1, <3>2
  <2>6. results' = [d \in Command |-> results'[d]] BY <2>1
  <2>7. results' \in [Command -> Put \cup {Nil}] BY <2>4, <2>6
  <2>8. ResultsFollow' BY <2>5 DEF ResultsFollow
  <2> QED BY <2>7, <2>8
<1>4. CASE ~(launch \/ call)
  <2>1. UNCHANGED <<client, decided, results>>
    BY <1>4 DEF Walks, KvNext, send_fails, wait_for_leader, return, kill_node, kv_vars,
                cluster_vars, vars
  <2>2. ResultsFollow' BY <2>1 DEF ResultsFollow
  <2> QED BY <2>1, <2>2
<1> QED BY <1>3, <1>4

-----------------------------------------------------------------------------
(* What the program reads. *)

\* Two commands of the script are decided in the script's order.
LEMMA ScriptOrder ==
    ASSUME DecidedInOrder, NEW j \in DOMAIN decided, NEW k \in DOMAIN decided, j < k,
           NEW x \in DOMAIN Script, NEW y \in DOMAIN Script,
           decided[j].command = Script[x], decided[k].command = Script[y]
    PROVE  x < y
<1>1. Script[x] # NoOp /\ Script[y] # NoOp BY ScriptFacts, NoOpAssumption
<1>2. \A m, n \in DOMAIN Script : Script[m] = Script[n] => m = n BY ScriptFacts
<1>3. (CHOOSE n \in DOMAIN Script : Script[n] = Script[x]) = x
      /\ (CHOOSE n \in DOMAIN Script : Script[n] = Script[y]) = y
  BY <1>2
<1> QED BY <1>1, <1>3 DEF DecidedInOrder

\* The last put decided before a read is the last one before it in the script that was
\* given its own output.
LEMMA ReadsFollow ==
    ASSUME BoundsInv, CommandsInPlace, KvInv
    PROVE  ReadsFindTheLastPut
<1> SUFFICES ASSUME NEW k \in DOMAIN Script, Own(k), Script[k] \notin Put
             PROVE  results[Script[k]] = LastPut(k, Own)
  BY DEF ReadsFindTheLastPut
<1> DEFINE before == {j \in 1..(k - 1) : Script[j] \in Put /\ Own(j)}
<1>1. PICK place \in [Command -> Nat] : PlaceInv(place) BY DEF CommandsInPlace
<1>2. /\ Len(decided) \in Nat /\ DOMAIN decided = 1..Len(decided)
  <2>1. decided \in Seq(Entry) BY DEF BoundsInv, TypeOK
  <2> QED BY <2>1, LenProperties
<1>3. SentInOrder /\ DecidedInOrder /\ ResultsFollow /\ MainInv BY DEF KvInv
<1>4. Len(Script) \in Nat /\ DOMAIN Script = 1..Len(Script) /\ main.at \in Nat
  BY <1>3, ScriptFacts DEF MainInv
<1>5. PICK x \in DOMAIN decided :
         decided[x].command = Script[k] /\ results[Script[k]] = Value(decided, x - 1)
  BY <1>3, ScriptFacts DEF ResultsFollow, Own, Done
<1> DEFINE puts == Puts(decided, x - 1)
\* A put that is decided before the read was given its own output.
<1>6. ASSUME NEW y \in puts
      PROVE  \E n \in before : decided[y].command = Script[n]
  <2>1. y \in DOMAIN decided /\ y < x /\ decided[y].command \in Put BY <1>2, <1>5 DEF Puts
  <2>2. decided[y].command # NoOp BY <2>1, ScriptAssumption, NoOpAssumption
  <2>3. PICK n \in DOMAIN Script :
           n <= main.at /\ decided[y].command = Script[n] /\ place[Script[n]] = y
    BY <1>1, <1>3, <2>1, <2>2, DecidedAreSent
  <2>4. n < k BY <1>3, <1>5, <2>1, <2>3, ScriptOrder
  <2>5. k <= main.at
    <3>1. Script[k] # NoOp BY ScriptFacts, NoOpAssumption
    <3>2. PICK m \in DOMAIN Script : m <= main.at /\ decided[x].command = Script[m]
      BY <1>1, <1>3, <1>5, <3>1, DecidedAreSent
    <3> QED BY <1>5, <3>2, ScriptFacts
  <2>6. Done(n) BY <1>3, <1>4, <2>4, <2>5 DEF SentInOrder
  <2>7. client[Script[n]].output = decided[y].command
    BY <1>1, <2>3, <2>6, ScriptFacts DEF Done, PlaceInv, AnswersInPlace
  <2>8. Own(n) BY <2>3, <2>6, <2>7 DEF Own
  <2>9. n \in 1..(k - 1) BY <1>4, <2>4
  <2> QED BY <2>1, <2>3, <2>8, <2>9
\* A put that precedes the read and was given its own output is decided before it.
<1>7. ASSUME NEW n \in before
      PROVE  \E y \in puts : decided[y].command = Script[n]
  <2>1. n \in DOMAIN Script /\ n < k /\ Script[n] \in Put /\ Own(n) BY <1>4
  <2> DEFINE y == place[Script[n]]
  <2>2. y \in DOMAIN decided /\ decided[y].command = Script[n]
    BY <1>1, <1>2, <2>1, ScriptFacts DEF Own, Done, PlaceInv, AnswersInPlace
  <2> HIDE DEF y
  <2>3. y # x BY <1>5, <2>1, <2>2
  <2>4. ~(x < y)
    <3> SUFFICES ASSUME x < y PROVE FALSE OBVIOUS
    <3>1. k < n BY <1>3, <1>5, <2>1, <2>2, ScriptOrder
    <3> QED BY <1>4, <2>1, <3>1
  <2>5. y \in 1..(x - 1) BY <1>2, <2>2, <2>3, <2>4
  <2>6. y \in puts BY <2>1, <2>2, <2>5 DEF Puts
  <2> QED BY <2>2, <2>6
<1>8. CASE puts = {}
  <2>1. before = {} BY <1>7, <1>8
  <2>2. Value(decided, x - 1) = Nil BY <1>8 DEF Value
  <2>3. LastPut(k, Own) = Nil BY <2>1 DEF LastPut
  <2> QED BY <1>5, <2>2, <2>3
<1>9. CASE puts # {}
  <2> DEFINE p == Max(puts)
             q == Max(before)
  <2>1. before # {} BY <1>6, <1>9
  <2>2. Value(decided, x - 1) = decided[p].command BY <1>9 DEF Value
  <2>3. LastPut(k, Own) = Script[q] BY <2>1 DEF LastPut
  <2>4. puts \in SUBSET (1..(x - 1)) /\ before \in SUBSET (1..(k - 1)) BY DEF Puts
  <2>5. x - 1 \in Nat /\ k - 1 \in Nat BY <1>2, <1>4
  <2> HIDE DEF before, puts
  <2>6. p \in puts /\ \A y \in puts : p >= y BY <1>9, <2>4, <2>5, MaxOfInterval
  <2>7. q \in before /\ \A n \in before : q >= n BY <2>1, <2>4, <2>5, MaxOfInterval
  <2> HIDE DEF p, q
  <2>8. PICK n \in before : decided[p].command = Script[n] BY <1>6, <2>6
  <2>9. PICK y \in puts : decided[y].command = Script[q] BY <1>7, <2>7
  <2>10. /\ p \in DOMAIN decided /\ y \in DOMAIN decided
         /\ n \in DOMAIN Script /\ q \in DOMAIN Script
    <3>1. /\ p \in 1..(x - 1) /\ y \in 1..(x - 1) /\ n \in 1..(k - 1) /\ q \in 1..(k - 1)
      BY <2>4, <2>6, <2>7
    <3> QED BY <1>2, <1>4, <3>1
  <2>11. p >= y /\ q >= n BY <2>6, <2>7
  <2>12. p = y
    <3>1. y < p => q < n BY <1>3, <2>8, <2>9, <2>10, ScriptOrder
    <3>2. ~(y < p) BY <1>4, <2>10, <2>11, <3>1
    <3> QED BY <1>2, <2>10, <2>11, <3>2
  <2> QED BY <1>5, <2>2, <2>3, <2>9, <2>12
<1> QED BY <1>8, <1>9

-----------------------------------------------------------------------------
(* The example, for every script. *)

\* Nothing has been sent, decided or read.
LEMMA ExampleInit == KvInit => KvInv
<1> SUFFICES ASSUME KvInit PROVE KvInv OBVIOUS
<1>1. MainInv BY MainInit
<1>2. /\ client = [c \in Command |-> Status("idle")] /\ decided = <<>>
      /\ \A i \in Node : node[i].applied = <<>>
      /\ main.step = "wait_for_leader" /\ main.at = 1
      /\ databases = [i \in Node |-> Nil] /\ results = [c \in Command |-> Nil]
  BY DEF KvInit, Init, restore_state
<1>3. SentInOrder
  <2>1. \A c \in Command : ~Taken(client, c) BY <1>2 DEF Taken, Status
  <2>2. \A n \in DOMAIN Script : ~(n < main.at) BY <1>2, ScriptFacts
  <2> QED BY <1>2, <2>1, <2>2 DEF SentInOrder
<1>4. DecidedInOrder BY <1>2 DEF DecidedInOrder
<1>5. DatabasesFollow
  <2>1. Puts(<<>>, 0) = {} BY DEF Puts
  <2>2. Value(<<>>, 0) = Nil BY <2>1 DEF Value
  <2> QED BY <1>2, <2>2 DEF DatabasesFollow
<1>6. ResultsFollow BY <1>2 DEF ResultsFollow, Status
<1>7. results \in [Command -> Put \cup {Nil}] BY <1>2
<1> QED BY <1>1, <1>3, <1>4, <1>5, <1>6, <1>7 DEF KvInv

\* Raft's steps go forward in the example, and the others leave its log alone.
LEMMA ExampleProgresses ==
    ASSUME MainInv, RaftInv, RaftInv', [KvNext]_kv_vars
    PROVE  Progresses
<1>1. Next \/ Loses BY KvSteps
<1>2. Next => Progresses BY SafeNext DEF RaftInv
<1>3. Applies BY AllApplied DEF RaftInv
<1> QED BY <1>1, <1>2, <1>3, LossProgresses

\* An invariant step of the example.
LEMMA ExampleNext ==
    ASSUME KvInv, MainInv', RaftInv, RaftInv', Learned, Learned', Applies',
           Progresses, [KvNext]_kv_vars
    PROVE  KvInv'
<1>1. MainInv BY DEF KvInv
<1>2. PICK place, more \in [Command -> Nat] : Walks(place, more) BY <1>1, AllWalk
<1>3. SentInOrder' BY <1>2, SentNext DEF KvInv
<1>4. DecidedInOrder' BY <1>2, <1>3, OrderNext DEF KvInv
<1>5. DatabasesFollow' BY <1>2, DatabasesNext DEF KvInv
<1>6. ResultsFollow' /\ results' \in [Command -> Put \cup {Nil}]
  BY <1>2, ResultsNext DEF KvInv
<1> QED BY <1>3, <1>4, <1>5, <1>6 DEF KvInv

\* Together they are an inductive invariant of the example.
THEOREM ExampleIsConsistent ==
    ASSUME StorageFaults = FALSE
    PROVE  KvSpec => [](KvInv /\ RaftInv) /\ [][Progresses]_kv_vars
<1>1. KvInit => KvInv BY ExampleInit
<1>2. MainInv /\ RaftInv /\ RaftInv' /\ [KvNext]_kv_vars => Progresses
  BY ExampleProgresses
<1>3. /\ KvInv /\ MainInv' /\ RaftInv /\ RaftInv' /\ Learned /\ Learned' /\ Applies'
      /\ Progresses /\ [KvNext]_kv_vars
      => KvInv'
  BY ExampleNext
<1>4. RaftInv => Applies /\ Learned BY AllApplied, AllLearned DEF RaftInv
<1>5. KvSpec => [](MainInv /\ RaftInv) BY ExampleKeepsRaft, PTL
<1> QED BY <1>1, <1>2, <1>3, <1>4, <1>5, PTL DEF KvSpec

\* The program's state, the databases and the results have their types.
THEOREM ExampleTypes ==
    ASSUME StorageFaults = FALSE PROVE KvSpec => []KvTypeOK
<1>1. KvInv /\ RaftInv => KvTypeOK
  <2> SUFFICES ASSUME KvInv, RaftInv PROVE KvTypeOK OBVIOUS
  <2>1. databases \in [Node -> Put \cup {Nil}]
    <3>1. \A i \in Node : Len(node[i].applied) \in Nat
      BY NodeFacts, LenProperties DEF RaftInv
    <3> QED BY <3>1, ValueType DEF KvInv, DatabasesFollow
  <2> QED BY <2>1 DEF KvInv, MainInv, KvTypeOK
<1> QED BY <1>1, ExampleIsConsistent, PTL

\* The program's commands are decided in the order in which main sends them, whatever
\* leaders die and whatever entries of theirs turn up later.
THEOREM CommandsAreInOrder ==
    ASSUME StorageFaults = FALSE PROVE KvSpec => []DecidedInOrder
<1>1. KvInv => DecidedInOrder BY DEF KvInv
<1> QED BY <1>1, ExampleIsConsistent, PTL

\* A read that is given its own output finds the last put that was given its own: reads
\* go through the log, apply is called in its order, and main waits for each answer.
THEOREM ReadsAreLinear ==
    ASSUME StorageFaults = FALSE PROVE KvSpec => []ReadsFindTheLastPut
<1>1. KvInv /\ RaftInv => ReadsFindTheLastPut BY ReadsFollow DEF RaftInv
<1> QED BY <1>1, ExampleIsConsistent, PTL

\* An Ok that the program is told speaks of what was decided.
THEOREM ExampleRepliesAreDecided ==
    ASSUME StorageFaults = FALSE PROVE KvSpec => []ReplyIsDecided
<1>1. RaftInv => ReplyIsDecided BY DEF RaftInv, LogSafe, CommitInv
<1> QED BY <1>1, ExampleIsConsistent, PTL

\* The example's nodes are one log too.
THEOREM ExampleIsOneLog ==
    ASSUME StorageFaults = FALSE PROVE KvSpec => ImplementsReplicatedLog
<1>1. KvInit => Log!Init BY RefineInit DEF KvInit
<1>2. BoundsInv /\ BoundsInv' /\ Learned /\ Learned' /\ Progresses => [Log!Next]_(Log!vars)
  BY StepRefines
<1>3. UNCHANGED kv_vars => UNCHANGED Log!vars BY DEF kv_vars, vars, Log!vars
<1>4. RaftInv => BoundsInv /\ Learned BY AllLearned DEF RaftInv
<1> QED BY <1>1, <1>2, <1>3, <1>4, ExampleIsConsistent, PTL
        DEF KvSpec, ImplementsReplicatedLog, Log!Spec
=============================================================================
