------------------------- MODULE RaftBoundsProofs --------------------------
(***************************************************************************)
(* Type correctness of a cluster and the bounds of its leaders' indexes,   *)
(* for every number of nodes, commands, terms, messages and restarts, when *)
(* storage does not fail.  First what the operations of RaftLog and the    *)
(* steps of RaftNode do to a log and to the fields of a node.              *)
(***************************************************************************)
EXTENDS RaftInvariants, TLAPS, FiniteSetTheorems, SequenceTheorems, WellFoundedInduction

-----------------------------------------------------------------------------
(* Logs and the state of one node. *)

\* The larger of two integers, as backoff takes it with max(1).
LEMMA MaxOfTwo ==
    ASSUME NEW a \in Int, NEW b \in Int
    PROVE  /\ Max({a, b}) \in {a, b}
           /\ Max({a, b}) >= a /\ Max({a, b}) >= b
<1>1. \E x \in {a, b} : \A y \in {a, b} : x >= y
  <2>1. CASE a >= b BY <2>1
  <2>2. CASE b >= a BY <2>2
  <2> QED BY <2>1, <2>2
<1>2. Max({a, b}) \in {a, b} /\ \A y \in {a, b} : Max({a, b}) >= y
  BY <1>1 DEF Max
<1> QED BY <1>2

\* The smaller of two integers, as append_request takes it for commit_index.
LEMMA MinOfTwo ==
    ASSUME NEW a \in Int, NEW b \in Int
    PROVE  /\ Min({a, b}) \in {a, b}
           /\ Min({a, b}) <= a /\ Min({a, b}) <= b
<1>1. \E x \in {a, b} : \A y \in {a, b} : x =< y
  <2>1. CASE a =< b BY <2>1
  <2>2. CASE b =< a BY <2>2
  <2> QED BY <2>1, <2>2
<1>2. Min({a, b}) \in {a, b} /\ \A y \in {a, b} : Min({a, b}) =< y
  BY <1>1 DEF Min
<1> QED BY <1>2

\* A non-empty set of naturals has a least element: the first conflict of the
\* append loop.
LEMMA MinOfNaturals ==
    ASSUME NEW S \in SUBSET Nat, S # {}
    PROVE  Min(S) \in S /\ \A y \in S : Min(S) <= y
<1>1. PICK x \in S : \A y \in S : ~ (<<y, x>> \in OpToRel(<, Nat))
  BY WFMin, NatLessThanWellFounded
<1>2. \A y \in S : x =< y
  <2> TAKE y \in S
  <2>1. ~(y < x) BY <1>1 DEF OpToRel
  <2> QED BY <2>1
<1>3. \E z \in S : \A y \in S : z =< y BY <1>2
<1> QED BY <1>3 DEF Min

\* A non-empty set within an interval has a greatest element: the index that
\* advance_commit finds counting down.
LEMMA MaxOfInterval ==
    ASSUME NEW a \in Nat, NEW b \in Nat, NEW S \in SUBSET (a..b), S # {}
    PROVE  Max(S) \in S /\ \A y \in S : Max(S) >= y
<1> DEFINE T == {b - x : x \in S}
<1>1. T \in SUBSET Nat /\ T # {}
  OBVIOUS
<1>2. PICK t \in T : \A y \in T : t <= y
  BY <1>1, MinOfNaturals
<1>3. PICK x \in S : t = b - x
  OBVIOUS
<1>4. \A y \in S : x >= y
  BY <1>2, <1>3
<1> QED BY <1>4 DEF Max

\* The entries of a log between two indexes are a log.
LEMMA SliceType ==
    ASSUME NEW log \in Seq(Entry), NEW a \in Nat \ {0}, NEW b \in Nat,
           b <= Len(log)
    PROVE  /\ SubSeq(log, a, b) \in Seq(Entry)
           /\ Len(SubSeq(log, a, b)) = IF a <= b THEN b - a + 1 ELSE 0
<1>1. \A k \in a..b : log[k] \in Entry
  BY LenProperties
<1> QED BY <1>1, SubSeqProperties

\* The term of an index of the log, the dummy's included.
LEMMA TermAtType ==
    ASSUME NEW log \in Seq(Entry), NEW k \in 0..Len(log)
    PROVE  TermAt(log, k) \in Nat
<1>1. Len(log) \in Nat /\ \A i \in 1..Len(log) : log[i] \in Entry
  BY LenProperties
<1>2. CASE k = 0 BY <1>2 DEF TermAt
<1>3. CASE k # 0
  <2>1. log[k] \in Entry BY <1>1, <1>3
  <2> QED BY <2>1, <1>3 DEF TermAt, Entry
<1> QED BY <1>2, <1>3

\* The append loop turns a log and a request into a log.
LEMMA AppendEntriesType ==
    ASSUME NEW log \in Seq(Entry), NEW entries \in Seq(Entry),
           NEW prev \in 0..Len(log)
    PROVE  AppendEntries(log, prev, entries) \in Seq(Entry)
<1> DEFINE C == Conflicts(log, prev, entries)
           f == Min(C)
<1>0. Len(log) \in Nat /\ Len(entries) \in Nat
  BY LenProperties
<1>1. CASE C = {}
  BY <1>1 DEF AppendEntries
<1>2. CASE C # {}
  <2>1. C \in SUBSET Nat /\ C \subseteq 1..Len(entries)
    BY <1>0 DEF Conflicts
  <2>2. f \in C /\ \A y \in C : f <= y
    BY <2>1, <1>2, MinOfNaturals
  <2>3. prev + f - 1 <= Len(log)
    <3>1. CASE prev + 1 > Len(log) \/ f = 1
      <4>1. CASE f = 1 BY <4>1, <1>0
      <4>2. CASE f # 1 /\ prev + 1 > Len(log)
        <5>1. 1 \in C
          BY <2>1, <2>2, <4>2, <1>0 DEF Conflicts
        <5> QED BY <5>1, <2>1, <2>2, <4>2
      <4> QED BY <3>1, <4>1, <4>2
    <3>2. CASE prev + 1 <= Len(log) /\ f # 1
      <4>1. f - 1 \in 1..Len(entries) /\ f - 1 \notin C
        BY <2>1, <2>2, <3>2, <1>0
      <4> QED BY <4>1, <1>0 DEF Conflicts
    <3> QED BY <3>1, <3>2, <1>0, <2>1, <2>2
  <2>4. SubSeq(log, 1, prev + f - 1) \in Seq(Entry)
    BY <2>1, <2>2, <2>3, <1>0, SliceType
  <2>5. SubSeq(entries, f, Len(entries)) \in Seq(Entry)
    BY <2>1, <2>2, <1>0, SliceType
  <2>6. AppendEntries(log, prev, entries)
          = SubSeq(log, 1, prev + f - 1) \o SubSeq(entries, f, Len(entries))
    BY <1>2 DEF AppendEntries
  <2> QED BY <2>4, <2>5, <2>6, ConcatProperties
<1> QED BY <1>1, <1>2

\* The log after the first k rounds of the append loop.
Merged(log, prev, entries, k) ==
    LET conflicts == Conflicts(log, prev, entries)
        first == Min(conflicts)
    IN  IF \A j \in conflicts : k < j
        THEN log
        ELSE SubSeq(log, 1, prev + first - 1) \o SubSeq(entries, first, k)

\* The first conflict comes right behind entries that the log has.
IsFirstConflict(log, prev, entries, first) ==
    /\ first \in 1..Len(entries) /\ first \in Conflicts(log, prev, entries)
    /\ \A j \in Conflicts(log, prev, entries) : first <= j
    /\ prev + first - 1 <= Len(log)

\* If there is a conflict there is a first one.
LEMMA ConflictsBegin ==
    ASSUME NEW log \in Seq(Entry), NEW entries \in Seq(Entry),
           NEW prev \in 0..Len(log), Conflicts(log, prev, entries) # {}
    PROVE  IsFirstConflict(log, prev, entries, Min(Conflicts(log, prev, entries)))
<1> DEFINE C == Conflicts(log, prev, entries)
           f == Min(C)
<1>0. Len(log) \in Nat /\ Len(entries) \in Nat BY LenProperties
<1>1. C \in SUBSET Nat /\ C \subseteq 1..Len(entries) BY <1>0 DEF Conflicts
<1>1a. C # {} OBVIOUS
<1>2. f \in C /\ \A y \in C : f <= y BY <1>1, <1>1a, MinOfNaturals
<1> HIDE DEF f
<1>3. f \in 1..Len(entries) /\ f \in Nat BY <1>1, <1>2
<1>4. prev + f - 1 <= Len(log)
  <2>1. CASE f = 1 BY <2>1, <1>0
  <2>2. CASE f # 1
    <3>1. f - 1 \in 1..Len(entries) /\ f - 1 \notin C BY <1>0, <1>2, <1>3, <2>2
    <3> QED BY <3>1, <1>0, <1>3 DEF Conflicts
  <2> QED BY <2>1, <2>2
<1> QED BY <1>2, <1>3, <1>4 DEF IsFirstConflict, f

\* The rounds up to k, when the first conflict is behind.
LEMMA MergedBehind ==
    ASSUME NEW log \in Seq(Entry), NEW entries \in Seq(Entry),
           NEW prev \in 0..Len(log), NEW f, IsFirstConflict(log, prev, entries, f),
           f = Min(Conflicts(log, prev, entries)), NEW k \in f..Len(entries)
    PROVE  LET l == Merged(log, prev, entries, k)
           IN  /\ l \in Seq(Entry) /\ Len(l) = prev + k
               /\ \A i \in 1..(prev + k) :
                     l[i] = IF i < prev + f THEN log[i] ELSE entries[i - prev]
<1> DEFINE a == SubSeq(log, 1, prev + f - 1)
           b == SubSeq(entries, f, k)
<1>0. /\ Len(log) \in Nat /\ Len(entries) \in Nat
      /\ \A i \in 1..Len(log) : log[i] \in Entry
      /\ \A i \in 1..Len(entries) : entries[i] \in Entry
  BY LenProperties
<1>1. /\ f \in 1..Len(entries) /\ f \in Nat /\ k \in Nat /\ f <= k /\ k <= Len(entries)
      /\ prev + f - 1 \in 0..Len(log) /\ prev \in Nat
  BY <1>0 DEF IsFirstConflict
<1>2. Merged(log, prev, entries, k) = a \o b
  <2>1. ~(\A j \in Conflicts(log, prev, entries) : k < j) BY <1>1 DEF IsFirstConflict
  <2> QED BY <2>1 DEF Merged
<1>3. /\ a \in Seq(Entry) /\ Len(a) = prev + f - 1
      /\ \A i \in 1..(prev + f - 1) : a[i] = log[i]
  <2>1. \A i \in 1..(prev + f - 1) : log[i] \in Entry BY <1>0, <1>1
  <2>2. prev + f - 1 \in Int /\ 1 \in Int BY <1>1
  <2> QED BY <2>1, <2>2, <1>1, SubSeqProperties
<1>4. /\ b \in Seq(Entry) /\ Len(b) = k - f + 1
      /\ \A i \in 1..(k - f + 1) : b[i] = entries[f + i - 1]
  <2>1. \A i \in f..k : entries[i] \in Entry BY <1>0, <1>1
  <2> QED BY <2>1, <1>1, SubSeqProperties
<1> HIDE DEF a, b
<1>5. /\ a \o b \in Seq(Entry) /\ Len(a \o b) = Len(a) + Len(b)
      /\ \A i \in 1..(Len(a) + Len(b)) :
            (a \o b)[i] = IF i <= Len(a) THEN a[i] ELSE b[i - Len(a)]
  BY <1>3, <1>4, ConcatProperties
<1>6. Len(a) + Len(b) = prev + k BY <1>1, <1>3, <1>4
<1>7. ASSUME NEW i \in 1..(prev + k)
      PROVE  (a \o b)[i] = IF i < prev + f THEN log[i] ELSE entries[i - prev]
  <2>1. CASE i < prev + f
    <3>1. i <= Len(a) /\ i \in 1..(prev + f - 1) BY <2>1, <1>1, <1>3
    <3> QED BY <3>1, <2>1, <1>3, <1>5, <1>6
  <2>2. CASE ~(i < prev + f)
    <3>1. ~(i <= Len(a)) /\ i - Len(a) \in 1..(k - f + 1) /\ f + (i - Len(a)) - 1 = i - prev
      BY <2>2, <1>1, <1>3
    <3> QED BY <3>1, <2>2, <1>4, <1>5, <1>6
  <2> QED BY <2>1, <2>2
<1> QED BY <1>2, <1>5, <1>6, <1>7

\* A round of the loop goes from what the rounds before have made to what they
\* make with it.
LEMMA RoundMerges ==
    ASSUME NEW log \in Seq(Entry), NEW entries \in Seq(Entry),
           NEW prev \in 0..Len(log), NEW k \in 1..Len(entries)
    PROVE  Merged(log, prev, entries, k)
             = AppendOne(Merged(log, prev, entries, k - 1), prev, entries, k)
<1> DEFINE C == Conflicts(log, prev, entries)
           e == entries[k]
           old == Merged(log, prev, entries, k - 1)
           new == Merged(log, prev, entries, k)
<1>0. /\ Len(log) \in Nat /\ Len(entries) \in Nat /\ k \in Nat \ {0} /\ prev \in Nat
      /\ k \in 1..Len(entries) /\ e \in Entry
  BY LenProperties
<1>1. CASE \A j \in C : k < j
  <2>1. new = log /\ old = log
    <3>1. \A j \in C : k - 1 < j BY <1>1, <1>0 DEF Conflicts
    <3> QED BY <1>1, <3>1 DEF Merged
  <2>2. k \notin C BY <1>0, <1>1
  <2>3. prev + k <= Len(log) /\ log[prev + k].term = e.term BY <2>2, <1>0 DEF Conflicts
  <2> QED BY <2>1, <2>3 DEF AppendOne
<1>2. CASE ~(\A j \in C : k < j)
  <2> DEFINE f == Min(C)
  <2>1. IsFirstConflict(log, prev, entries, f) BY <1>2, ConflictsBegin
  <2> HIDE DEF f
  <2>2. f \in 1..Len(entries) /\ f <= k /\ f \in C /\ prev + f - 1 \in 0..Len(log) /\ f \in Nat
    <3>1. /\ f \in 1..Len(entries) /\ f \in C /\ prev + f - 1 <= Len(log)
          /\ \A j \in C : f <= j
      BY <2>1 DEF IsFirstConflict
    <3>2. PICK j \in C : ~(k < j) BY <1>2
    <3>3. j \in Nat /\ f <= j BY <3>1, <3>2 DEF Conflicts
    <3> QED BY <3>1, <3>2, <3>3, <1>0
  <2>3. /\ new \in Seq(Entry) /\ Len(new) = prev + k
        /\ \A i \in 1..(prev + k) : new[i] = IF i < prev + f THEN log[i] ELSE entries[i - prev]
    <3>1. k \in f..Len(entries) BY <1>0, <2>2
    <3> QED BY <3>1, <2>1, MergedBehind DEF f
  <2>4. CASE f = k
    <3>1. old = log
      <4>1. \A j \in C : k - 1 < j
        <5>1. \A j \in C : f <= j /\ j \in Nat BY <2>1 DEF IsFirstConflict, Conflicts
        <5> QED BY <5>1, <2>4, <1>0
      <4> QED BY <4>1 DEF Merged
    <3>2. AppendOne(log, prev, entries, k) = Append(SubSeq(log, 1, prev + k - 1), e)
      <4>1. CASE prev + k <= Len(log)
        <5>1. log[prev + k].term # e.term BY <4>1, <2>2, <2>4, <1>0 DEF Conflicts
        <5> QED BY <4>1, <5>1 DEF AppendOne
      <4>2. CASE ~(prev + k <= Len(log))
        <5>1. prev + k - 1 = Len(log) BY <4>2, <2>2, <2>4, <1>0
        <5>2. SubSeq(log, 1, prev + k - 1) = log BY <5>1, SubSeqFull
        <5> QED BY <4>2, <5>2 DEF AppendOne
      <4> QED BY <4>1, <4>2
    <3>3. PICK s : s = SubSeq(log, 1, prev + k - 1) OBVIOUS
    <3>4. /\ s \in Seq(Entry) /\ Len(s) = prev + k - 1
          /\ \A i \in 1..(prev + k - 1) : s[i] = log[i]
      <4>1. \A i \in 1..(prev + k - 1) : log[i] \in Entry
        <5>1. \A i \in 1..Len(log) : log[i] \in Entry BY LenProperties
        <5> QED BY <5>1, <2>2, <2>4, <1>0
      <4>2. prev + k - 1 \in Int /\ 1 \in Int BY <1>0
      <4> QED BY <4>1, <4>2, <3>3, <2>2, <2>4, <1>0, SubSeqProperties
    <3>5. new = Append(s, e)
      <4>1. /\ Append(s, e) \in Seq(Entry) /\ Len(Append(s, e)) = prev + k
            /\ \A i \in 1..(prev + k - 1) : Append(s, e)[i] = log[i]
            /\ Append(s, e)[prev + k] = e
        <5> HIDE DEF e
        <5> QED BY <3>4, <1>0, AppendProperties
      <4>2. \A i \in 1..(prev + k) : new[i] = Append(s, e)[i]
        <5> SUFFICES ASSUME NEW i \in 1..(prev + k) PROVE new[i] = Append(s, e)[i] OBVIOUS
        <5>1. CASE i = prev + k
          <6>1. ~(i < prev + f) /\ i - prev = k BY <5>1, <2>4, <1>0
          <6> QED BY <5>1, <6>1, <2>3, <4>1
        <5>2. CASE i # prev + k
          <6>1. i < prev + f /\ i \in 1..(prev + k - 1) BY <5>2, <2>4, <1>0
          <6> QED BY <6>1, <2>3, <4>1
        <5> QED BY <5>1, <5>2
      <4> HIDE DEF new, e
      <4> QED BY <2>3, <4>1, <4>2, SeqEqual
    <3> QED BY <3>1, <3>2, <3>3, <3>5
  <2>5. CASE f # k
    <3>0. k - 1 \in f..Len(entries) /\ k - 1 \in Nat BY <2>5, <2>2, <1>0
    <3>1. /\ old \in Seq(Entry) /\ Len(old) = prev + (k - 1)
          /\ \A i \in 1..(prev + (k - 1)) :
                old[i] = IF i < prev + f THEN log[i] ELSE entries[i - prev]
      BY <3>0, <2>1, MergedBehind DEF f
    <3> HIDE DEF old, new, e
    <3>2. AppendOne(old, prev, entries, k) = Append(old, e)
      <4>1. ~(prev + k <= Len(old)) BY <3>1, <1>0
      <4> QED BY <4>1 DEF AppendOne, e
    <3>3. /\ Append(old, e) \in Seq(Entry) /\ Len(Append(old, e)) = prev + k
          /\ \A i \in 1..(prev + (k - 1)) : Append(old, e)[i] = old[i]
          /\ Append(old, e)[prev + k] = e
      BY <3>1, <1>0, AppendProperties
    <3>4. \A i \in 1..(prev + k) : new[i] = Append(old, e)[i]
      <4> SUFFICES ASSUME NEW i \in 1..(prev + k) PROVE new[i] = Append(old, e)[i] OBVIOUS
      <4>1. CASE i = prev + k
        <5>1. ~(i < prev + f) /\ i - prev = k BY <4>1, <2>2, <1>0
        <5>2. new[i] = entries[k] BY <5>1, <2>3
        <5> QED BY <4>1, <5>2, <3>3 DEF e
      <4>2. CASE i # prev + k
        <5>1. i \in 1..(prev + (k - 1)) BY <4>2, <1>0
        <5> QED BY <5>1, <2>3, <3>1, <3>3
      <4> QED BY <4>1, <4>2
    <3>5. new = Append(old, e) BY <2>3, <3>3, <3>4, SeqEqual
    <3> QED BY <3>2, <3>5 DEF old, new
  <2> QED BY <2>4, <2>5
<1> QED BY <1>1, <1>2

\* The loop's logs, round by round.
Rounds(log, prev, entries, f) ==
    f = [k \in 0..Len(entries) |->
           IF k = 0 THEN log ELSE AppendOne(f[k - 1], prev, entries, k)]

\* The loop comes to what AppendEntries says.
LEMMA LoopMerges ==
    ASSUME NEW log \in Seq(Entry), NEW entries \in Seq(Entry), NEW prev \in 0..Len(log)
    PROVE  AppendEntries(log, prev, entries) = AppendLoop(log, prev, entries)
<1> DEFINE n == Len(entries)
           M(k) == Merged(log, prev, entries, k)
           C == Conflicts(log, prev, entries)
           f == CHOOSE f : Rounds(log, prev, entries, f)
<1>0. n \in Nat BY LenProperties
<1>1. M(0) = log
  <2>1. \A j \in C : 0 < j BY <1>0 DEF Conflicts
  <2> QED BY <2>1 DEF Merged
<1>2. \A k \in 1..n : M(k) = AppendOne(M(k - 1), prev, entries, k) BY RoundMerges
<1>3. M(n) = AppendEntries(log, prev, entries)
  <2>1. (\A j \in C : n < j) <=> C = {} BY <1>0 DEF Conflicts
  <2> QED BY <2>1 DEF Merged, AppendEntries
<1> HIDE DEF M
<1>4. AppendLoop(log, prev, entries) = f[n] BY DEF AppendLoop, Rounds
<1>5. Rounds(log, prev, entries, f)
  <2> DEFINE g == [k \in 0..n |-> M(k)]
  <2>1. \A k \in 0..n : g[k] = IF k = 0 THEN log ELSE AppendOne(g[k - 1], prev, entries, k)
    <3> SUFFICES ASSUME NEW k \in 0..n
                 PROVE  g[k] = IF k = 0 THEN log ELSE AppendOne(g[k - 1], prev, entries, k)
      OBVIOUS
    <3>1. CASE k = 0 BY <3>1, <1>1
    <3>2. CASE k # 0
      <4>1. k \in 1..n /\ k - 1 \in 0..n BY <3>2, <1>0
      <4>2. g[k] = M(k) /\ g[k - 1] = M(k - 1) BY <4>1
      <4> HIDE DEF g
      <4> QED BY <4>1, <4>2, <3>2, <1>2
    <3> QED BY <3>1, <3>2
  <2>2. g = [k \in 0..n |-> g[k]] OBVIOUS
  <2> HIDE DEF g
  <2>3. Rounds(log, prev, entries, g) BY <2>1, <2>2 DEF Rounds
  <2> QED BY <2>3
<1> HIDE DEF f
<1>6. \A k \in 0..n : f[k] = IF k = 0 THEN log ELSE AppendOne(f[k - 1], prev, entries, k)
  BY <1>5 DEF Rounds
<1> HIDE DEF n
<1>7. \A k \in 0..n : f[k] = M(k)
  <2> DEFINE Bad == {k \in 0..n : f[k] # M(k)}
             m == Min(Bad)
  <2> SUFFICES ASSUME Bad # {} PROVE FALSE OBVIOUS
  <2>1. Bad \in SUBSET Nat BY <1>0
  <2>2. m \in Bad /\ \A y \in Bad : m <= y
    <3> HIDE DEF Bad
    <3> QED BY <2>1, MinOfNaturals
  <2> HIDE DEF m
  <2>3. m \in 0..n /\ f[m] # M(m) BY <2>2
  <2>4. m # 0 BY <2>3, <1>1, <1>6
  <2>5. m - 1 \in 0..n /\ m \in 1..n /\ ~(m <= m - 1) BY <2>3, <2>4, <1>0
  <2>6. f[m - 1] = M(m - 1) BY <2>2, <2>5
  <2>7. f[m] = AppendOne(f[m - 1], prev, entries, m) BY <2>3, <2>4, <1>6
  <2> QED BY <2>3, <2>5, <2>6, <2>7, <1>2
<1>8. n \in 0..n BY <1>0
<1>9. f[n] = M(n) BY <1>7, <1>8
<1> QED BY <1>3, <1>4, <1>9

\* A repetition of a request changes nothing.
LEMMA AppendAgainChangesNothing ==
    ASSUME NEW log \in Seq(Entry), NEW entries \in Seq(Entry), NEW prev \in 0..Len(log)
    PROVE  LET merged == AppendEntries(log, prev, entries)
           IN  AppendEntries(merged, prev, entries) = merged
<1> DEFINE C == Conflicts(log, prev, entries)
           new == AppendEntries(log, prev, entries)
           n == Len(entries)
<1>0. n \in Nat /\ Len(log) \in Nat /\ prev \in Nat BY LenProperties
<1>1. CASE C = {} BY <1>1 DEF AppendEntries
<1>2. CASE C # {}
  <2> DEFINE f == Min(C)
  <2>1. IsFirstConflict(log, prev, entries, f) BY <1>2, ConflictsBegin
  <2> HIDE DEF f
  <2>2. f \in 1..n /\ prev + f - 1 <= Len(log) /\ \A j \in C : f <= j
    BY <2>1 DEF IsFirstConflict
  <2>3. n \in f..n BY <2>2, <1>0
  <2>4. new = Merged(log, prev, entries, n)
    <3>1. ~(\A j \in C : n < j) BY <2>1, <2>2, <1>0 DEF IsFirstConflict
    <3> QED BY <3>1, <1>2 DEF Merged, AppendEntries
  <2>5. /\ Len(new) = prev + n
        /\ \A i \in 1..(prev + n) : new[i] = IF i < prev + f THEN log[i] ELSE entries[i - prev]
    BY <2>1, <2>3, <2>4, MergedBehind DEF f
  <2> HIDE DEF new
  <2>6. Conflicts(new, prev, entries) = {}
    <3> SUFFICES ASSUME NEW k \in 1..n, new[prev + k].term # entries[k].term PROVE FALSE
      BY <2>5, <1>0 DEF Conflicts
    <3>1. prev + k \in 1..(prev + n) /\ (prev + k) - prev = k BY <1>0
    <3>2. CASE k < f
      <4>1. new[prev + k] = log[prev + k] BY <3>1, <3>2, <2>2, <2>5, <1>0
      <4>2. k \notin C BY <3>2, <2>2, <1>0
      <4>3. log[prev + k].term = entries[k].term BY <4>2, <1>0 DEF Conflicts
      <4> QED BY <4>1, <4>3
    <3>3. CASE ~(k < f)
      <4>1. new[prev + k] = entries[k] BY <3>1, <3>3, <2>2, <2>5, <1>0
      <4> QED BY <4>1
    <3> QED BY <3>2, <3>3
  <2>7. AppendEntries(new, prev, entries) = new BY <2>6 DEF AppendEntries
  <2> QED BY <2>7 DEF new
<1> QED BY <1>1, <1>2

\* A node that is created again is well-formed.
LEMMA RestoreType ==
    ASSUME NEW saved \in Saved
    PROVE  restore_state(saved) \in NodeState
<1>1. <<>> \in Seq(Entry) BY EmptySeq
<1>2. NoIndex \in [Node -> Nat] BY DEF NoIndex
<1> QED BY <1>1, <1>2 DEF restore_state, NodeState, Saved, Roles

\* An empty storage holds a well-formed state.
LEMMA FreshType == Fresh \in Saved
<1>1. <<>> \in Seq(Entry) BY EmptySeq
<1> QED BY <1>1 DEF Fresh, Saved

\* What persist_state saves can be restored.
LEMMA PersistentType ==
    ASSUME NEW n \in NodeState
    PROVE  PersistentState(n) \in Saved
BY DEF PersistentState, Saved, NodeState

\* Stepping down never lowers the term and keeps a vote of the same term.
LEMMA BecomeFollower ==
    ASSUME NEW n \in NodeState, NEW term \in Nat
    PROVE  LET f == become_follower(n, term)
           IN  /\ f \in NodeState
               /\ f.current_term = IF term > n.current_term THEN term
                                   ELSE n.current_term
               /\ f.voted_for = IF term > n.current_term THEN Nil
                                ELSE n.voted_for
               /\ f.log = n.log
               /\ f.role = "Follower"
               /\ f.current_leader_id = Nil
<1>1. NoIndex \in [Node -> Nat] BY DEF NoIndex
<1> QED BY <1>1 DEF become_follower, NodeState, Roles

\* A new candidate is in a new term and has voted for itself.
LEMMA StartElection ==
    ASSUME NEW i \in Node, NEW n \in NodeState
    PROVE  LET c == start_election(i, n)
           IN  /\ c \in NodeState
               /\ c.current_term = n.current_term + 1
               /\ c.voted_for = i
               /\ c.log = n.log
               /\ c.role = "Candidate"
               /\ c.current_leader_id = Nil
               /\ c.votes_received = 1
<1>1. n.current_term + 1 \in Nat BY DEF NodeState
<1>2. 1 \in Nat OBVIOUS
<1> QED BY <1>1, <1>2 DEF start_election, NodeState, Roles

\* A new leader keeps its term and vote, adds one entry and starts every peer
\* at the end of its log.
LEMMA BecomeLeader ==
    ASSUME NEW n \in NodeState
    PROVE  LET l == become_leader(n)
           IN  /\ l \in NodeState
               /\ l.current_term = n.current_term
               /\ l.voted_for = n.voted_for
               /\ l.current_leader_id = n.current_leader_id
               /\ l.role = "Leader"
               /\ Len(l.log) = Len(n.log) + 1
               /\ l.next_index = [j \in Node |-> Len(l.log) + 1]
               /\ l.match_index = [j \in Node |-> 0]
<1> DEFINE noop == [term |-> n.current_term, command |-> NoOp]
           log == Append(n.log, noop)
<1>1. n.log \in Seq(Entry) /\ n.current_term \in Nat BY DEF NodeState
<1>2. noop \in Entry BY <1>1 DEF Entry
<1>3. /\ log \in Seq(Entry) /\ Len(log) = Len(n.log) + 1 /\ Len(log) \in Nat
  <2> HIDE DEF noop
  <2> QED BY <1>1, <1>2, AppendProperties, LenProperties
<1>4. NoIndex \in [Node -> Nat] BY DEF NoIndex
<1>5. become_leader(n)
        = [n EXCEPT !.log = log, !.role = "Leader", !.votes_received = 0,
                    !.next_index = [j \in Node |-> Len(log) + 1],
                    !.match_index = NoIndex]
  BY DEF become_leader
<1> HIDE DEF log
<1> DEFINE next == [j \in Node |-> Len(log) + 1]
<1>6. next \in [Node -> Nat] BY <1>3
<1>7. become_leader(n) = [n EXCEPT !.log = log, !.role = "Leader", !.votes_received = 0,
                                   !.next_index = next, !.match_index = NoIndex]
  BY <1>5
<1> HIDE DEF next
<1>8. /\ become_leader(n) \in NodeState
      /\ become_leader(n).log = log /\ become_leader(n).next_index = next
      /\ become_leader(n).match_index = NoIndex /\ become_leader(n).role = "Leader"
  <2>1. become_leader(n) \in NodeState
    <3> DEFINE a == [n EXCEPT !.log = log, !.role = "Leader", !.votes_received = 0]
    <3>1. "Leader" \in Roles /\ 0 \in Nat BY DEF Roles
    <3> HIDE DEF noop
    <3>2. a \in NodeState BY <1>3, <3>1 DEF NodeState
    <3>3. become_leader(n) = [a EXCEPT !.next_index = next, !.match_index = NoIndex]
      BY <1>7
    <3> HIDE DEF a
    <3> QED BY <1>4, <1>6, <3>2, <3>3 DEF NodeState
  <2>2. /\ become_leader(n).log = log /\ become_leader(n).next_index = next
        /\ become_leader(n).match_index = NoIndex
        /\ become_leader(n).role = "Leader"
    BY <1>7 DEF NodeState
  <2> QED BY <2>1, <2>2
<1>9. /\ become_leader(n).current_term = n.current_term
      /\ become_leader(n).voted_for = n.voted_for
      /\ become_leader(n).current_leader_id = n.current_leader_id
  BY <1>7 DEF NodeState
<1> QED BY <1>3, <1>8, <1>9 DEF NoIndex, next

\* The fields that commit_index, the state machine and the clients do not
\* depend on.
SameCore(n, r) ==
    /\ r.current_term = n.current_term /\ r.voted_for = n.voted_for
    /\ r.log = n.log /\ r.role = n.role
    /\ r.current_leader_id = n.current_leader_id
    /\ r.votes_received = n.votes_received
    /\ r.next_index = n.next_index /\ r.match_index = n.match_index

\* advance_commit changes commit_index only, to an index of the log.
LEMMA AdvanceCommit ==
    ASSUME NEW n \in NodeState
    PROVE  advance_commit(n) \in NodeState /\ SameCore(n, advance_commit(n))
<1> DEFINE replicated(index) ==
               Cardinality({j \in Node : n.match_index[j] >= index}) + 1
           S == {index \in (n.commit_index + 1)..Len(n.log) :
                    /\ n.log[index].term = n.current_term
                    /\ has_majority(replicated(index), ClusterSize)}
<1>0. n.commit_index \in Nat /\ n.log \in Seq(Entry) /\ Len(n.log) \in Nat
  BY LenProperties DEF NodeState
<1>1. CASE n.role = "Leader" /\ S # {}
  <2>1. advance_commit(n) = [n EXCEPT !.commit_index = Max(S)]
    BY <1>1 DEF advance_commit
  <2>2. Max(S) \in Nat
    <3>1. S \in SUBSET ((n.commit_index + 1)..Len(n.log)) OBVIOUS
    <3>2. n.commit_index + 1 \in Nat BY <1>0
    <3>3. S # {} BY <1>1
    <3> HIDE DEF S
    <3>4. Max(S) \in S BY <3>1, <3>2, <3>3, <1>0, MaxOfInterval
    <3>5. Max(S) \in (n.commit_index + 1)..Len(n.log) BY <3>1, <3>4
    <3> QED BY <3>5, <3>2, <1>0
  <2> HIDE DEF S
  <2> QED BY <2>1, <2>2 DEF NodeState, SameCore
<1>2. CASE ~(n.role = "Leader" /\ S # {})
  <2>1. advance_commit(n) = n BY <1>2 DEF advance_commit
  <2> QED BY <2>1 DEF SameCore
<1> QED BY <1>1, <1>2

\* apply_committed stops at an index of the log.
LEMMA ApplyUpToType ==
    ASSUME NEW n \in NodeState
    PROVE  ApplyUpTo(n) \in Nat /\ ApplyUpTo(n) <= Len(n.log)
<1>1. n.commit_index \in Nat /\ n.log \in Seq(Entry) BY DEF NodeState
<1>2. Len(n.log) \in Nat BY <1>1, LenProperties
<1> DEFINE a == n.commit_index
           b == Len(n.log)
<1>3. a \in Int /\ b \in Int /\ a \in Nat /\ b \in Nat BY <1>1, <1>2
<1>4. ApplyUpTo(n) = Min({a, b}) BY DEF ApplyUpTo
<1> HIDE DEF a
<1>5. Min({a, b}) \in {a, b} /\ Min({a, b}) <= b
  <2> HIDE DEF b
  <2> QED BY <1>3, MinOfTwo
<1> QED BY <1>3, <1>4, <1>5

\* The state machine is given entries of the log.
LEMMA ApplyCommitted ==
    ASSUME NEW n \in NodeState
    PROVE  apply_committed(n) \in NodeState /\ SameCore(n, apply_committed(n))
<1>0. /\ n.commit_index \in Nat /\ n.log \in Seq(Entry) /\ Len(n.log) \in Nat
      /\ n.applied \in Seq(Entry) /\ Len(n.applied) \in Nat
      /\ n.pending_applies \in SUBSET Pending
  BY LenProperties DEF NodeState
<1>1. ApplyUpTo(n) \in Nat /\ ApplyUpTo(n) <= Len(n.log)
  BY ApplyUpToType
<1> DEFINE more == SubSeq(n.log, Len(n.applied) + 1, ApplyUpTo(n))
<1>2. more \in Seq(Entry)
  BY <1>0, <1>1, SliceType
<1>3. n.applied \o more \in Seq(Entry)
  <2> HIDE DEF more
  <2> QED BY <1>0, <1>2, ConcatProperties
<1>4. apply_committed(n) = [n EXCEPT !.applied = n.applied \o more,
                              !.pending_applies = n.pending_applies \ Answered(n)]
  BY DEF apply_committed, NodeState
<1> HIDE DEF more
<1> QED BY <1>0, <1>3, <1>4 DEF NodeState, SameCore

\* The output of a reply is the command of an entry.
LEMMA RepliesType ==
    ASSUME NEW n \in NodeState
    PROVE  \A r \in replies(n) : r.output \in Command
<1>0. /\ n.commit_index \in Nat /\ n.log \in Seq(Entry) /\ Len(n.log) \in Nat
      /\ n.applied \in Seq(Entry) /\ Len(n.applied) \in Nat
      /\ n.pending_applies \in SUBSET Pending
  BY LenProperties DEF NodeState
<1>1. ApplyUpTo(n) \in Nat /\ ApplyUpTo(n) <= Len(n.log)
  BY ApplyUpToType
<1> SUFFICES ASSUME NEW p \in Answered(n)
             PROVE  n.log[p.index].command \in Command
  BY DEF replies
<1>2. /\ p.index \in (Len(n.applied) + 1)..ApplyUpTo(n)
      /\ n.log[p.index].command # NoOp
  BY DEF Answered
<1>3. p.index \in 1..Len(n.log)
  BY <1>0, <1>1, <1>2
<1>4. n.log[p.index] \in Entry
  BY <1>0, <1>3, LenProperties
<1> QED BY <1>2, <1>4 DEF Entry

\* The messages a well-formed node builds.
LEMMA VoteRequestType ==
    ASSUME NEW i \in Node, NEW j \in Node, NEW n \in NodeState
    PROVE  VoteRequest(i, j, n) \in Message
<1>1. n.log \in Seq(Entry) /\ Len(n.log) \in Nat /\ n.current_term \in Nat
  BY LenProperties DEF NodeState
<1>2. LastTerm(n.log) \in Nat BY <1>1, TermAtType DEF LastTerm
<1> QED BY <1>1, <1>2 DEF VoteRequest, Message

\* The request of a leader whose next_index lies within its log or just after.
LEMMA AppendRequestType ==
    ASSUME NEW i \in Node, NEW j \in Node, NEW n \in NodeState,
           n.next_index[j] \in 1..(Len(n.log) + 1)
    PROVE  /\ AppendRequest(i, j, n) \in Message
           /\ AppendRequest(i, j, n).prev_log_index
                + Len(AppendRequest(i, j, n).entries) = Len(n.log)
<1> DEFINE prev == n.next_index[j] - 1
           es == SubSeq(n.log, prev + 1, Len(n.log))
<1>1. /\ n.log \in Seq(Entry) /\ Len(n.log) \in Nat /\ n.current_term \in Nat
      /\ n.commit_index \in Nat
  BY LenProperties DEF NodeState
<1>2. prev \in 0..Len(n.log) /\ prev \in Nat BY <1>1
<1>3. TermAt(n.log, prev) \in Nat BY <1>1, <1>2, TermAtType
<1>4. es \in Seq(Entry) /\ prev + Len(es) = Len(n.log)
  <2>1. prev + 1 \in Nat \ {0} BY <1>2
  <2>2. /\ es \in Seq(Entry)
        /\ Len(es) = IF prev + 1 <= Len(n.log) THEN Len(n.log) - (prev + 1) + 1 ELSE 0
    <3> HIDE DEF prev
    <3> QED BY <1>1, <2>1, SliceType
  <2> HIDE DEF es, prev
  <2> QED BY <2>2, <1>1, <1>2
<1>5. AppendRequest(i, j, n)
        = [type |-> "AppendRequest", from |-> i, to |-> j,
           term |-> n.current_term, prev_log_index |-> prev,
           prev_log_term |-> TermAt(n.log, prev), entries |-> es,
           leader_commit |-> n.commit_index]
  BY DEF AppendRequest
<1> HIDE DEF prev, es
<1> QED BY <1>1, <1>2, <1>3, <1>4, <1>5 DEF Message

-----------------------------------------------------------------------------
(* The pieces handlers share. *)

\* Only what is sent is added to the messages in flight.
LEMMA SendAdds ==
    ASSUME NEW rest, NEW out, send_message(rest, out)
    PROVE  msgs' \subseteq rest \cup out
<1> DEFINE A == Accepted(rest, out)
<1>1. PICK kept \in (IF Lossy THEN SUBSET A ELSE {A}) : msgs' = rest \cup kept
  BY DEF send_message
<1>2. kept \subseteq A
  <2>1. CASE Lossy BY <2>1, <1>1
  <2>2. CASE ~Lossy BY <2>2, <1>1
  <2> QED BY <2>1, <2>2
<1>3. A \subseteq out BY DEF Accepted
<1> QED BY <1>1, <1>2, <1>3

\* Handling a message adds only what the handler sends.
LEMMA ReceiveAdds ==
    ASSUME NEW m, NEW out, Receive(m, out)
    PROVE  msgs' \subseteq msgs \cup out
<1>1. CASE send_message(msgs \ {m}, out)
  <2>1. msgs' \subseteq (msgs \ {m}) \cup out BY <1>1, SendAdds
  <2> QED BY <2>1
<1>2. CASE send_message(msgs, out) BY <1>2, SendAdds
<1> QED BY <1>1, <1>2 DEF Receive

\* Storage that does not fail holds what was saved last.
LEMMA PersistSaves ==
    ASSUME StorageFaults = FALSE, NEW i, NEW n, NEW earlier,
           persist_state(i, n, earlier)
    PROVE  disk' = [disk EXCEPT ![i] = PersistentState(n)]
BY DEF persist_state

\* A handler's last step changes only its own node.
LEMMA FinishType ==
    ASSUME TypeOK, NEW i \in Node, NEW r \in NodeState,
           NEW cl \in [Command -> Outcome], NEW voters \in SUBSET Node,
           Finish(i, r, cl, voters)
    PROVE  /\ node' \in [Node -> NodeState]
           /\ node'[i] = r /\ \A j \in Node \ {i} : node'[j] = node[j]
           /\ client' \in [Command -> Outcome]
           /\ counted' \in [Node -> SUBSET Node]
           /\ decided' \in Seq(Entry)
<1>1. /\ node \in [Node -> NodeState] /\ counted \in [Node -> SUBSET Node]
      /\ decided \in Seq(Entry)
  BY DEF TypeOK
<1>2. r.applied \in Seq(Entry) BY DEF NodeState
<1>3. /\ node' = [node EXCEPT ![i] = r] /\ client' = cl
      /\ counted' = [counted EXCEPT ![i] = voters]
      /\ decided' \in {r.applied, decided}
  BY DEF Finish
<1> QED BY <1>1, <1>2, <1>3

\* Answering clients with the outputs of commands keeps their records typed.
LEMMA AnswerType ==
    ASSUME NEW cl \in [Command -> Outcome], NEW answers,
           \A r \in answers : r.output \in Command
    PROVE  Answer(cl, answers) \in [Command -> Outcome]
<1> SUFFICES ASSUME NEW c \in Command
             PROVE  Answer(cl, answers)[c] \in Outcome
  BY DEF Answer
<1>1. CASE \E r \in answers : r.request = c
  <2> DEFINE a == CHOOSE r \in answers : r.request = c
  <2>1. a \in answers BY <1>1
  <2>2. a.output \in Command BY <2>1
  <2>3. Answer(cl, answers)[c] = [status |-> "ok", output |-> a.output]
    BY <1>1 DEF Answer
  <2> HIDE DEF a
  <2> QED BY <2>2, <2>3 DEF Outcome
<1>2. CASE ~\E r \in answers : r.request = c
  BY <1>2 DEF Answer
<1> QED BY <1>1, <1>2

\* So does dropping their reply channels.
LEMMA DropType ==
    ASSUME NEW cl \in [Command -> Outcome], NEW lost
    PROVE  Drop(cl, lost) \in [Command -> Outcome]
<1>1. Status("dropped") \in Outcome BY DEF Status, Outcome
<1> QED BY <1>1 DEF Drop

\* Committing and applying keep a node well-formed and everything but
\* commit_index, applied and pending_applies as it was.
LEMMA CommitKeeps ==
    ASSUME NEW n \in NodeState
    PROVE  /\ Commit(n) \in NodeState
           /\ SameCore(n, Commit(n))
           /\ PersistentState(Commit(n)) = PersistentState(n)
           /\ \A r \in CommitReplies(n) : r.output \in Command
<1>1. /\ advance_commit(n) \in NodeState /\ SameCore(n, advance_commit(n))
  BY AdvanceCommit
<1>2. /\ Commit(n) \in NodeState /\ SameCore(advance_commit(n), Commit(n))
  BY <1>1, ApplyCommitted DEF Commit
<1>3. SameCore(n, Commit(n)) BY <1>1, <1>2 DEF SameCore
<1>4. \A r \in CommitReplies(n) : r.output \in Command
  BY <1>1, RepliesType DEF CommitReplies
<1> QED BY <1>2, <1>3, <1>4 DEF SameCore, PersistentState

-----------------------------------------------------------------------------
(* How a step may change a node. *)

\* The term grows; or the node ends as a follower, was a candidate, or keeps its
\* role and at least as long a log.
Evolves(n, r) ==
    \/ r.current_term > n.current_term
    \/ /\ r.current_term = n.current_term
       /\ \/ r.role = "Follower"
          \/ n.role = "Candidate"
          \/ r.role = n.role /\ Len(n.log) <= Len(r.log)

\* A leader's indexes lie within its log.
InBounds(n) ==
    n.role = "Leader" =>
        \A j \in Node : /\ n.next_index[j] \in 1..(Len(n.log) + 1)
                        /\ n.match_index[j] <= Len(n.log)

\* A message a handler sends respects the bounds of the state it ends in.
SentInBounds(m) ==
    /\ m \in Message /\ m.from # m.to
    /\ m.type = "AppendRequest"
         => Holds(node'[m.from], m.term, m.prev_log_index + Len(m.entries))
    /\ m.type = "AppendResponse"
         => m.match_index = 0 \/ Holds(node'[m.to], m.term, m.match_index)

\* Holds is stable: no step takes a node back into a term it has led.
LEMMA HoldsIsStable ==
    ASSUME NEW n \in NodeState, NEW r \in NodeState, Evolves(n, r),
           NEW t \in Nat, NEW k \in Nat, Holds(n, t, k)
    PROVE  Holds(r, t, k)
<1>1. /\ n.current_term \in Nat /\ r.current_term \in Nat
      /\ Len(n.log) \in Nat /\ Len(r.log) \in Nat
      /\ n.role \in Roles /\ r.role \in Roles
  BY LenProperties DEF NodeState
<1> QED BY <1>1 DEF Holds, Evolves, Roles

\* What a step must do to keep BoundsInv.
LEMMA BoundsStep ==
    ASSUME BoundsInv, TypeOK',
           \A i \in Node : Evolves(node[i], node'[i]) /\ InBounds(node'[i]),
           \A i \in Node : disk'[i] = PersistentState(node'[i]),
           \A m \in msgs' : m \in msgs \/ SentInBounds(m)
    PROVE  BoundsInv'
<1>1. TypeOK /\ Persisted /\ NoSelfMessage /\ AppendsInBounds
  BY DEF BoundsInv
<1>2. node' \in [Node -> NodeState] /\ disk' \in [Node -> Saved] /\ msgs' \subseteq Message
  BY DEF TypeOK
<1>3. Persisted'
  BY <1>2 DEF Persisted
<1>4. NoSelfMessage'
  BY <1>1 DEF NoSelfMessage, SentInBounds
<1>5. AppendsInBounds'
  <2> SUFFICES ASSUME NEW m \in msgs'
               PROVE  /\ m.type = "AppendRequest"
                           => Holds(node'[m.from], m.term, m.prev_log_index + Len(m.entries))
                      /\ m.type = "AppendResponse"
                           => m.match_index = 0 \/ Holds(node'[m.to], m.term, m.match_index)
    BY DEF AppendsInBounds
  <2>1. CASE SentInBounds(m) BY <2>1 DEF SentInBounds
  <2>2. CASE m \in msgs
    <3>1. ASSUME m.type = "AppendRequest"
          PROVE  Holds(node'[m.from], m.term, m.prev_log_index + Len(m.entries))
      <4>1. /\ m.from \in Node /\ m.term \in Nat /\ m.prev_log_index \in Nat
            /\ m.entries \in Seq(Entry)
        BY <1>2, <3>1 DEF Message
      <4>2. m.prev_log_index + Len(m.entries) \in Nat BY <4>1, LenProperties
      <4>3. Holds(node[m.from], m.term, m.prev_log_index + Len(m.entries))
        BY <1>1, <2>2, <3>1 DEF AppendsInBounds
      <4>4. node[m.from] \in NodeState /\ node'[m.from] \in NodeState
        BY <4>1, <1>1, <1>2 DEF TypeOK
      <4> QED BY <4>1, <4>2, <4>3, <4>4, HoldsIsStable
    <3>2. ASSUME m.type = "AppendResponse", m.match_index # 0
          PROVE  Holds(node'[m.to], m.term, m.match_index)
      <4>1. m.to \in Node /\ m.term \in Nat /\ m.match_index \in Nat
        BY <1>2, <3>2 DEF Message
      <4>2. Holds(node[m.to], m.term, m.match_index)
        BY <1>1, <2>2, <3>2 DEF AppendsInBounds
      <4>3. node[m.to] \in NodeState /\ node'[m.to] \in NodeState
        BY <4>1, <1>1, <1>2 DEF TypeOK
      <4> QED BY <4>1, <4>2, <4>3, HoldsIsStable
    <3> QED BY <3>1, <3>2
  <2> QED BY <2>1, <2>2
<1>6. IndexesInBounds'
  BY DEF IndexesInBounds, InBounds, Leader
<1> QED BY <1>3, <1>4, <1>5, <1>6 DEF BoundsInv

\* A step that changes no node.
LEMMA QuietStep ==
    ASSUME BoundsInv, UNCHANGED <<node, disk, counted, decided>>,
           client' \in [Command -> Outcome], restarts' \in Nat,
           votes' \subseteq [voter : Node, term : Nat, candidate : Node],
           \A m \in msgs' : m \in msgs \/ SentInBounds(m)
    PROVE  BoundsInv'
<1>1. TypeOK /\ Persisted /\ IndexesInBounds BY DEF BoundsInv
<1>2. TypeOK'
  <2>1. msgs' \subseteq Message BY <1>1 DEF TypeOK, SentInBounds
  <2> QED BY <1>1, <2>1 DEF TypeOK
<1>3. \A i \in Node : Evolves(node[i], node'[i]) /\ InBounds(node'[i])
  <2> TAKE i \in Node
  <2>1. node'[i] = node[i] OBVIOUS
  <2>2. Len(node[i].log) \in Nat
    <3>1. node[i] \in NodeState BY <1>1 DEF TypeOK
    <3> QED BY <3>1, LenProperties DEF NodeState
  <2>3. Evolves(node[i], node[i]) BY <2>2 DEF Evolves
  <2>4. InBounds(node[i]) BY <1>1 DEF IndexesInBounds, InBounds, Leader
  <2> QED BY <2>1, <2>3, <2>4
<1>4. \A i \in Node : disk'[i] = PersistentState(node'[i])
  BY <1>1 DEF Persisted
<1> QED BY <1>2, <1>3, <1>4, BoundsStep

\* A step that ends with node i in state r.
LEMMA NodeStep ==
    ASSUME BoundsInv, NEW i \in Node, NEW r \in NodeState,
           NEW cl \in [Command -> Outcome], NEW voters \in SUBSET Node,
           Finish(i, r, cl, voters), restarts' \in Nat,
           votes' \subseteq [voter : Node, term : Nat, candidate : Node],
           disk' = [disk EXCEPT ![i] = PersistentState(r)],
           Evolves(node[i], r), InBounds(r),
           \A m \in msgs' : m \in msgs \/ SentInBounds(m)
    PROVE  BoundsInv'
<1>1. TypeOK /\ Persisted /\ IndexesInBounds BY DEF BoundsInv
<1>2. /\ node' \in [Node -> NodeState]
      /\ node'[i] = r /\ \A j \in Node \ {i} : node'[j] = node[j]
      /\ client' \in [Command -> Outcome]
      /\ counted' \in [Node -> SUBSET Node]
      /\ decided' \in Seq(Entry)
  BY <1>1, FinishType
<1>3. disk \in [Node -> Saved] /\ PersistentState(r) \in Saved
  BY <1>1, PersistentType DEF TypeOK
<1>4. msgs' \subseteq Message BY <1>1 DEF TypeOK, SentInBounds
<1>5. TypeOK' BY <1>2, <1>3, <1>4 DEF TypeOK
<1>6. \A j \in Node : Evolves(node[j], node'[j]) /\ InBounds(node'[j])
  <2> TAKE j \in Node
  <2>1. CASE j = i BY <2>1, <1>2
  <2>2. CASE j # i
    <3>1. node'[j] = node[j] BY <1>2, <2>2
    <3>2. Len(node[j].log) \in Nat
      <4>1. node[j] \in NodeState BY <1>1 DEF TypeOK
      <4> QED BY <4>1, LenProperties DEF NodeState
    <3>3. Evolves(node[j], node[j]) BY <3>2 DEF Evolves
    <3>4. InBounds(node[j]) BY <1>1 DEF IndexesInBounds, InBounds, Leader
    <3> QED BY <3>1, <3>3, <3>4
  <2> QED BY <2>1, <2>2
<1>7. \A j \in Node : disk'[j] = PersistentState(node'[j])
  BY <1>1, <1>2, <1>3 DEF Persisted
<1> QED BY <1>5, <1>6, <1>7, BoundsStep

-----------------------------------------------------------------------------
(* What handlers send. *)

\* A leader's heartbeats stay within its log.
LEMMA HeartbeatsSent ==
    ASSUME NEW i \in Node, NEW r \in NodeState, node'[i] = r,
           r.role = "Leader", InBounds(r)
    PROVE  \A m \in on_heartbeat(i, r) : SentInBounds(m)
<1> SUFFICES ASSUME NEW m \in on_heartbeat(i, r)
             PROVE  SentInBounds(m)
  OBVIOUS
<1>0. PICK j \in Peers(i) : m = AppendRequest(i, j, r)
  BY DEF on_heartbeat
<1>1. j \in Node /\ j # i BY DEF Peers
<1>2. r.next_index[j] \in 1..(Len(r.log) + 1) BY <1>1 DEF InBounds
<1>3. m \in Message /\ m.prev_log_index + Len(m.entries) = Len(r.log)
  BY <1>0, <1>1, <1>2, AppendRequestType
<1>4. m.type = "AppendRequest" /\ m.from = i /\ m.to = j /\ m.term = r.current_term
  BY <1>0 DEF AppendRequest
<1>5. Holds(node'[i], r.current_term, Len(r.log))
  <2>1. Len(r.log) \in Nat BY LenProperties DEF NodeState
  <2> QED BY <2>1 DEF Holds
<1> QED BY <1>1, <1>3, <1>4, <1>5 DEF SentInBounds

\* Votes and their requests.
LEMMA VoteResponseSent ==
    ASSUME NEW i \in Node, NEW j \in Node, i # j, NEW t \in Nat,
           NEW granted \in BOOLEAN
    PROVE  SentInBounds(VoteResponse(i, j, t, granted))
BY DEF SentInBounds, VoteResponse, Message

\* A candidate's vote requests are well-formed and are append traffic of nobody.
LEMMA VoteRequestsSent ==
    ASSUME NEW i \in Node, NEW n \in NodeState
    PROVE  \A m \in {VoteRequest(i, j, n) : j \in Peers(i)} : SentInBounds(m)
<1> SUFFICES ASSUME NEW j \in Peers(i)
             PROVE  SentInBounds(VoteRequest(i, j, n))
  OBVIOUS
<1>1. j \in Node /\ j # i BY DEF Peers
<1>2. VoteRequest(i, j, n) \in Message BY <1>1, VoteRequestType
<1> QED BY <1>1, <1>2 DEF SentInBounds, VoteRequest

\* An answer to an append request speaks of no more than the request did.
LEMMA AppendResponseSent ==
    ASSUME NEW i \in Node, NEW j \in Node, i # j, NEW t \in Nat,
           NEW k \in Nat, NEW ok \in BOOLEAN, k = 0 \/ Holds(node'[j], t, k)
    PROVE  SentInBounds(AppendResponse(i, j, t, k, ok))
BY DEF SentInBounds, AppendResponse, Message

-----------------------------------------------------------------------------
(* The actions, one lemma each. *)

\* The parts of a message and of the state its handler looks at are typed.
LEMMA HandlerContext ==
    ASSUME BoundsInv, NEW m \in msgs
    PROVE  /\ m \in Message /\ m.from \in Node /\ m.to \in Node
           /\ m.from # m.to /\ m.term \in Nat
           /\ node[m.to] \in NodeState /\ node[m.to].current_term \in Nat
           /\ counted[m.to] \in SUBSET Node
BY DEF BoundsInv, NoSelfMessage, TypeOK, Message, NodeState

\* The parts of the state that most steps leave alone are typed.
LEMMA StateContext ==
    ASSUME BoundsInv
    PROVE  /\ node \in [Node -> NodeState]
           /\ client \in [Command -> Outcome] /\ restarts \in Nat
           /\ counted \in [Node -> SUBSET Node]
           /\ votes \subseteq [voter : Node, term : Nat, candidate : Node]
BY DEF BoundsInv, TypeOK

\* A handler that saves nothing has nothing new to save.
LEMMA NothingToSave ==
    ASSUME BoundsInv, NEW i \in Node, NEW r, UNCHANGED disk,
           PersistentState(r) = PersistentState(node[i])
    PROVE  disk' = [disk EXCEPT ![i] = PersistentState(r)]
<1>1. disk \in [Node -> Saved] /\ disk[i] = PersistentState(node[i])
  BY DEF BoundsInv, TypeOK, Persisted
<1> QED BY <1>1

\* A node that has just become leader, committed and applied.
LEMMA NewLeader ==
    ASSUME NEW n \in NodeState
    PROVE  LET r == Commit(become_leader(n))
           IN  /\ become_leader(n) \in NodeState
               /\ r \in NodeState /\ InBounds(r) /\ r.role = "Leader"
               /\ r.current_term = n.current_term /\ r.voted_for = n.voted_for
               /\ r.current_leader_id = n.current_leader_id
               /\ PersistentState(r) = PersistentState(become_leader(n))
               /\ \A a \in CommitReplies(become_leader(n)) : a.output \in Command
<1> DEFINE l == become_leader(n)
           r == Commit(l)
<1>1. /\ l \in NodeState /\ l.role = "Leader"
      /\ l.current_term = n.current_term /\ l.voted_for = n.voted_for
      /\ l.current_leader_id = n.current_leader_id
      /\ l.next_index = [j \in Node |-> Len(l.log) + 1]
      /\ l.match_index = [j \in Node |-> 0]
  BY BecomeLeader
<1>2. /\ r \in NodeState /\ SameCore(l, r)
      /\ PersistentState(r) = PersistentState(l)
      /\ \A a \in CommitReplies(l) : a.output \in Command
  BY <1>1, CommitKeeps
<1> HIDE DEF l, r
<1>3. Len(l.log) \in Nat BY <1>1, LenProperties DEF NodeState
<1>4. InBounds(r) BY <1>1, <1>2, <1>3 DEF InBounds, SameCore
<1>5. /\ r.role = "Leader" /\ r.current_term = n.current_term
      /\ r.voted_for = n.voted_for /\ r.current_leader_id = n.current_leader_id
  BY <1>1, <1>2 DEF SameCore
<1> QED BY <1>1, <1>2, <1>4, <1>5 DEF l, r

\* An election deadline.
LEMMA BecomeCandidateBounds ==
    ASSUME StorageFaults = FALSE, BoundsInv, NEW i \in Node, become_candidate(i)
    PROVE  BoundsInv'
<1> DEFINE n == start_election(i, node[i])
           l == become_leader(n)
           r == Commit(l)
<1>1. node[i] \in NodeState /\ node[i].current_term \in Nat
  BY StateContext DEF NodeState
<1>2. /\ n \in NodeState /\ n.current_term = node[i].current_term + 1
      /\ n.role = "Candidate"
  BY <1>1, StartElection
<1>3. /\ l \in NodeState /\ r \in NodeState /\ InBounds(r) /\ r.role = "Leader"
      /\ r.current_term = n.current_term
      /\ PersistentState(r) = PersistentState(l)
      /\ \A a \in CommitReplies(l) : a.output \in Command
  BY <1>2, NewLeader
<1>4. /\ votes' = votes \cup {Vote(i, n.current_term, i)} /\ UNCHANGED restarts
      /\ \/ /\ persist_state(i, l, {})
            /\ Finish(i, r, Answer(client, CommitReplies(l)), {})
            /\ send_message(msgs, on_heartbeat(i, r))
         \/ /\ persist_state(i, n, {})
            /\ Finish(i, n, client, {i})
            /\ send_message(msgs, {VoteRequest(i, j, n) : j \in Peers(i)})
  BY DEF become_candidate
<1>5. /\ votes' \subseteq [voter : Node, term : Nat, candidate : Node]
      /\ restarts' \in Nat /\ client \in [Command -> Outcome]
  <2>1. n.current_term \in Nat BY <1>1, <1>2
  <2> HIDE DEF n, l, r
  <2> QED BY <2>1, <1>4, StateContext DEF Vote
<1> HIDE DEF n, l, r
<1>6. CASE /\ persist_state(i, l, {})
           /\ Finish(i, r, Answer(client, CommitReplies(l)), {})
           /\ send_message(msgs, on_heartbeat(i, r))
  <2>1. disk' = [disk EXCEPT ![i] = PersistentState(r)]
    BY <1>6, <1>3, PersistSaves
  <2>2. Answer(client, CommitReplies(l)) \in [Command -> Outcome]
    BY <1>3, <1>5, AnswerType
  <2>3. Evolves(node[i], r) BY <1>1, <1>2, <1>3 DEF Evolves
  <2>4. node'[i] = r BY <1>6, StateContext DEF Finish
  <2>5. \A m \in msgs' : m \in msgs \/ SentInBounds(m)
    BY <1>6, <1>3, <2>4, SendAdds, HeartbeatsSent
  <2>6. {} \in SUBSET Node OBVIOUS
  <2> QED BY <1>3, <1>5, <1>6, <2>1, <2>2, <2>3, <2>5, <2>6, NodeStep
<1>7. CASE /\ persist_state(i, n, {})
           /\ Finish(i, n, client, {i})
           /\ send_message(msgs, {VoteRequest(i, j, n) : j \in Peers(i)})
  <2>1. disk' = [disk EXCEPT ![i] = PersistentState(n)]
    BY <1>7, PersistSaves
  <2>2. Evolves(node[i], n) BY <1>1, <1>2 DEF Evolves
  <2>3. InBounds(n) BY <1>2 DEF InBounds
  <2>4. \A m \in msgs' : m \in msgs \/ SentInBounds(m)
    BY <1>7, <1>2, SendAdds, VoteRequestsSent
  <2>5. {i} \in SUBSET Node OBVIOUS
  <2> QED BY <1>2, <1>5, <1>7, <2>1, <2>2, <2>3, <2>4, <2>5, NodeStep
<1> QED BY <1>4, <1>6, <1>7

\* Observing a term: the node moves to it as a follower or stays as it is.
LEMMA ObservedEvolves ==
    ASSUME NEW n \in NodeState, NEW t \in Nat, t >= n.current_term
    PROVE  LET o == Observed(n, t)
           IN  /\ o \in NodeState /\ o.current_term = t /\ Evolves(n, o)
               /\ o.log = n.log
               /\ t > n.current_term => o.role = "Follower" /\ o.voted_for = Nil
                                          /\ o.current_leader_id = Nil
               /\ t = n.current_term => o = n
<1>1. n.current_term \in Nat /\ Len(n.log) \in Nat
  BY LenProperties DEF NodeState
<1>2. CASE t > n.current_term
  <2>1. Observed(n, t) = become_follower(n, t) BY <1>2 DEF Observed
  <2>2. /\ become_follower(n, t) \in NodeState
        /\ become_follower(n, t).current_term = t
        /\ become_follower(n, t).log = n.log
        /\ become_follower(n, t).role = "Follower"
        /\ become_follower(n, t).voted_for = Nil
        /\ become_follower(n, t).current_leader_id = Nil
    BY <1>2, BecomeFollower
  <2>3. Evolves(n, become_follower(n, t)) BY <2>2, <1>2 DEF Evolves
  <2> QED BY <2>1, <2>2, <2>3, <1>1, <1>2
<1>3. CASE t = n.current_term
  <2>1. Observed(n, t) = n BY <1>3, <1>1 DEF Observed
  <2> QED BY <2>1, <1>1, <1>3 DEF Evolves
<1> QED BY <1>1, <1>2, <1>3

\* A vote request is refused because it is stale.
LEMMA VoteRequestStaleBounds ==
    ASSUME BoundsInv, NEW m \in msgs, vote_request_stale(m)
    PROVE  BoundsInv'
<1>1. /\ Receive(m, {VoteResponse(m.to, m.from, node[m.to].current_term, FALSE)})
      /\ UNCHANGED <<node, disk, client, restarts, votes, counted, decided>>
  BY DEF vote_request_stale
<1>2. SentInBounds(VoteResponse(m.to, m.from, node[m.to].current_term, FALSE))
  BY HandlerContext, VoteResponseSent
<1>3. \A q \in msgs' : q \in msgs \/ SentInBounds(q)
  <2>1. msgs' \subseteq msgs \cup {VoteResponse(m.to, m.from, node[m.to].current_term, FALSE)}
    BY <1>1, ReceiveAdds
  <2> QED BY <2>1, <1>2
<1> QED BY <1>1, <1>3, StateContext, QuietStep

\* A vote is granted.
LEMMA VoteRequestGrantBounds ==
    ASSUME StorageFaults = FALSE, BoundsInv, NEW m \in msgs, vote_request_grant(m)
    PROVE  BoundsInv'
<1> DEFINE i == m.to
           o == Observed(node[i], m.term)
           r == [o EXCEPT !.voted_for = m.from]
<1>1. /\ i \in Node /\ m.from \in Node /\ m.from # i /\ m.term \in Nat
      /\ node[i] \in NodeState /\ node[i].current_term \in Nat
      /\ counted[i] \in SUBSET Node
  BY HandlerContext
<1>2. /\ m.term >= node[i].current_term
      /\ persist_state(i, r, {o})
      /\ Receive(m, {VoteResponse(i, m.from, r.current_term, TRUE)})
      /\ Finish(i, r, client, VotersKept(m))
      /\ votes' = votes \cup {Vote(i, r.current_term, m.from)}
      /\ UNCHANGED restarts
  BY DEF vote_request_grant
<1>3. /\ o \in NodeState /\ o.current_term = m.term /\ Evolves(node[i], o)
      /\ m.term > node[i].current_term => o.role = "Follower"
      /\ m.term = node[i].current_term => o = node[i]
  <2> HIDE DEF i
  <2> QED BY <1>1, <1>2, ObservedEvolves
<1>4. /\ r \in NodeState /\ r.current_term = o.current_term /\ r.role = o.role
      /\ r.log = o.log /\ r.next_index = o.next_index
      /\ r.match_index = o.match_index
  <2> HIDE DEF o, i
  <2> QED BY <1>1, <1>3 DEF NodeState
<1> HIDE DEF o, r, i
<1>5. Evolves(node[i], r) BY <1>3, <1>4 DEF Evolves
<1>6. InBounds(r)
  <2>1. CASE m.term > node[i].current_term BY <2>1, <1>3, <1>4 DEF InBounds
  <2>2. CASE m.term = node[i].current_term
    <3>1. InBounds(node[i]) BY <1>1 DEF BoundsInv, IndexesInBounds, InBounds, Leader
    <3> QED BY <3>1, <2>2, <1>3, <1>4 DEF InBounds
  <2> QED BY <2>1, <2>2, <1>1, <1>2
<1>7. disk' = [disk EXCEPT ![i] = PersistentState(r)] BY <1>2, PersistSaves
<1>8. votes' \subseteq [voter : Node, term : Nat, candidate : Node]
  BY <1>1, <1>2, <1>3, <1>4, StateContext DEF Vote
<1>9. \A q \in msgs' : q \in msgs \/ SentInBounds(q)
  <2>1. SentInBounds(VoteResponse(i, m.from, r.current_term, TRUE))
    BY <1>1, <1>3, <1>4, VoteResponseSent
  <2>2. msgs' \subseteq msgs \cup {VoteResponse(i, m.from, r.current_term, TRUE)}
    BY <1>2, ReceiveAdds
  <2> QED BY <2>1, <2>2
<1>10. VotersKept(m) \in SUBSET Node BY <1>1 DEF VotersKept, i
<1> QED BY <1>1, <1>2, <1>4, <1>5, <1>6, <1>7, <1>8, <1>9, <1>10,
           StateContext, NodeStep

\* A vote is refused.
LEMMA VoteRequestRejectBounds ==
    ASSUME StorageFaults = FALSE, BoundsInv, NEW m \in msgs, vote_request_reject(m)
    PROVE  BoundsInv'
<1> DEFINE i == m.to
           r == Observed(node[i], m.term)
<1>1. /\ i \in Node /\ m.from \in Node /\ m.from # i /\ m.term \in Nat
      /\ node[i] \in NodeState /\ node[i].current_term \in Nat
      /\ counted[i] \in SUBSET Node
  BY HandlerContext
<1>2. /\ m.term >= node[i].current_term
      /\ IF m.term > node[i].current_term THEN persist_state(i, r, {})
                                          ELSE UNCHANGED disk
      /\ Receive(m, {VoteResponse(i, m.from, r.current_term, FALSE)})
      /\ Finish(i, r, client, VotersKept(m))
      /\ UNCHANGED <<restarts, votes>>
  BY DEF vote_request_reject
<1>3. /\ r \in NodeState /\ r.current_term = m.term /\ Evolves(node[i], r)
      /\ m.term > node[i].current_term => r.role = "Follower"
      /\ m.term = node[i].current_term => r = node[i]
  <2> HIDE DEF i
  <2> QED BY <1>1, <1>2, ObservedEvolves
<1> HIDE DEF r, i
<1>6. InBounds(r)
  <2>1. CASE m.term > node[i].current_term BY <2>1, <1>3 DEF InBounds
  <2>2. CASE m.term = node[i].current_term
    <3>1. InBounds(node[i]) BY <1>1 DEF BoundsInv, IndexesInBounds, InBounds, Leader
    <3> QED BY <3>1, <2>2, <1>3
  <2> QED BY <2>1, <2>2, <1>1, <1>2
<1>7. disk' = [disk EXCEPT ![i] = PersistentState(r)]
  <2>1. CASE m.term > node[i].current_term BY <2>1, <1>2, PersistSaves
  <2>2. CASE m.term = node[i].current_term
    BY <2>2, <1>1, <1>2, <1>3, NothingToSave
  <2> QED BY <2>1, <2>2, <1>1, <1>2
<1>9. \A q \in msgs' : q \in msgs \/ SentInBounds(q)
  <2>1. SentInBounds(VoteResponse(i, m.from, r.current_term, FALSE))
    BY <1>1, <1>3, VoteResponseSent
  <2>2. msgs' \subseteq msgs \cup {VoteResponse(i, m.from, r.current_term, FALSE)}
    BY <1>2, ReceiveAdds
  <2> QED BY <2>1, <2>2
<1>10. VotersKept(m) \in SUBSET Node BY <1>1 DEF VotersKept, i
<1> QED BY <1>1, <1>2, <1>3, <1>6, <1>7, <1>9, <1>10, StateContext, NodeStep

\* A response of a later term.
LEMMA StepDownBounds ==
    ASSUME StorageFaults = FALSE, BoundsInv, NEW m \in msgs, step_down(m)
    PROVE  BoundsInv'
<1> DEFINE i == m.to
           r == become_follower(node[i], m.term)
<1>1. /\ i \in Node /\ m.term \in Nat
      /\ node[i] \in NodeState /\ node[i].current_term \in Nat
  BY HandlerContext
<1>2. /\ m.term > node[i].current_term /\ persist_state(i, r, {})
      /\ Receive(m, {}) /\ Finish(i, r, client, {})
      /\ UNCHANGED <<restarts, votes>>
  BY DEF step_down
<1>3. r \in NodeState /\ r.current_term = m.term /\ r.role = "Follower"
  <2> HIDE DEF i
  <2> QED BY <1>1, <1>2, BecomeFollower
<1> HIDE DEF r, i
<1>4. Evolves(node[i], r) BY <1>2, <1>3 DEF Evolves
<1>5. InBounds(r) BY <1>3 DEF InBounds
<1>6. disk' = [disk EXCEPT ![i] = PersistentState(r)] BY <1>2, PersistSaves
<1>7. \A q \in msgs' : q \in msgs
  <2>1. msgs' \subseteq msgs \cup {} BY <1>2, ReceiveAdds
  <2> QED BY <2>1
<1>8. {} \in SUBSET Node OBVIOUS
<1> QED BY <1>1, <1>2, <1>3, <1>4, <1>5, <1>6, <1>7, <1>8, StateContext, NodeStep

\* A message nothing is done with.
LEMMA IgnoreBounds ==
    ASSUME BoundsInv, NEW m, ignore(m)
    PROVE  BoundsInv'
<1>1. /\ Receive(m, {})
      /\ UNCHANGED <<node, disk, client, restarts, votes, counted, decided>>
  BY DEF ignore
<1>2. \A q \in msgs' : q \in msgs
  <2>1. msgs' \subseteq msgs \cup {} BY <1>1, ReceiveAdds
  <2> QED BY <2>1
<1> QED BY <1>1, <1>2, StateContext, QuietStep

\* A vote is counted.
LEMMA CountVoteBounds ==
    ASSUME StorageFaults = FALSE, BoundsInv, NEW m \in msgs, count_vote(m)
    PROVE  BoundsInv'
<1> DEFINE i == m.to
           n == [node[i] EXCEPT !.votes_received = node[i].votes_received + 1]
           l == become_leader(n)
           r == Commit(l)
<1>1. /\ i \in Node /\ m.from \in Node
      /\ node[i] \in NodeState /\ counted[i] \in SUBSET Node
      /\ node[i].votes_received + 1 \in Nat
  <2>1. /\ i \in Node /\ m.from \in Node
        /\ node[i] \in NodeState /\ counted[i] \in SUBSET Node
    BY HandlerContext
  <2>2. node[i].votes_received \in Nat BY <2>1 DEF NodeState
  <2> QED BY <2>1, <2>2
<1>2. /\ node[i].role = "Candidate" /\ UNCHANGED <<restarts, votes>>
      /\ \/ /\ persist_state(i, l, {})
            /\ Finish(i, r, Answer(client, CommitReplies(l)), {})
            /\ Receive(m, on_heartbeat(i, r))
         \/ /\ Finish(i, n, client, counted[i] \cup {m.from})
            /\ Receive(m, {})
            /\ UNCHANGED disk
  BY DEF count_vote
<1>3. /\ n \in NodeState /\ n.current_term = node[i].current_term
      /\ n.role = "Candidate" /\ n.voted_for = node[i].voted_for
      /\ n.log = node[i].log
  <2> HIDE DEF i
  <2> QED BY <1>1, <1>2 DEF NodeState
<1> HIDE DEF n, i
<1>4. /\ l \in NodeState /\ r \in NodeState /\ InBounds(r) /\ r.role = "Leader"
      /\ r.current_term = n.current_term
      /\ PersistentState(r) = PersistentState(l)
      /\ \A a \in CommitReplies(l) : a.output \in Command
  BY <1>3, NewLeader
<1> HIDE DEF l, r
<1>5. CASE /\ persist_state(i, l, {})
           /\ Finish(i, r, Answer(client, CommitReplies(l)), {})
           /\ Receive(m, on_heartbeat(i, r))
  <2>1. disk' = [disk EXCEPT ![i] = PersistentState(r)]
    BY <1>5, <1>4, PersistSaves
  <2>2. Answer(client, CommitReplies(l)) \in [Command -> Outcome]
    BY <1>4, StateContext, AnswerType
  <2>3. Evolves(node[i], r) BY <1>2, <1>3, <1>4 DEF Evolves
  <2>4. node'[i] = r BY <1>1, <1>5, StateContext DEF Finish
  <2>5. \A q \in msgs' : q \in msgs \/ SentInBounds(q)
    <3>1. msgs' \subseteq msgs \cup on_heartbeat(i, r) BY <1>5, ReceiveAdds
    <3> QED BY <3>1, <1>1, <1>4, <2>4, HeartbeatsSent
  <2>6. {} \in SUBSET Node OBVIOUS
  <2> QED BY <1>1, <1>2, <1>4, <1>5, <2>1, <2>2, <2>3, <2>5, <2>6,
             StateContext, NodeStep
<1>6. CASE /\ Finish(i, n, client, counted[i] \cup {m.from})
           /\ Receive(m, {})
           /\ UNCHANGED disk
  <2>1. disk' = [disk EXCEPT ![i] = PersistentState(n)]
    <3>1. PersistentState(n) = PersistentState(node[i])
      BY <1>3 DEF PersistentState
    <3> QED BY <3>1, <1>1, <1>6, NothingToSave
  <2>2. Evolves(node[i], n) BY <1>2, <1>3 DEF Evolves
  <2>3. InBounds(n) BY <1>3 DEF InBounds
  <2>4. \A q \in msgs' : q \in msgs
    <3>1. msgs' \subseteq msgs \cup {} BY <1>6, ReceiveAdds
    <3> QED BY <3>1
  <2>5. counted[i] \cup {m.from} \in SUBSET Node BY <1>1
  <2> QED BY <1>1, <1>2, <1>3, <1>6, <2>1, <2>2, <2>3, <2>4, <2>5,
             StateContext, NodeStep
<1> QED BY <1>2, <1>5, <1>6

\* A leader in bounds is in bounds between handlers.
LEMMA NodeInBounds ==
    ASSUME BoundsInv, NEW i \in Node
    PROVE  InBounds(node[i])
BY DEF BoundsInv, IndexesInBounds, InBounds, Leader

\* The heartbeat interval.
LEMMA HeartbeatBounds ==
    ASSUME BoundsInv, NEW i \in Node, heartbeat(i)
    PROVE  BoundsInv'
<1>1. /\ node[i].role = "Leader" /\ send_message(msgs, on_heartbeat(i, node[i]))
      /\ UNCHANGED <<node, disk, client, restarts, votes, counted, decided>>
  BY DEF heartbeat
<1>2. node[i] \in NodeState /\ node'[i] = node[i] /\ InBounds(node[i])
  BY <1>1, StateContext, NodeInBounds
<1>3. \A q \in on_heartbeat(i, node[i]) : SentInBounds(q)
  BY <1>1, <1>2, HeartbeatsSent
<1>4. \A q \in msgs' : q \in msgs \/ SentInBounds(q)
  <2>1. msgs' \subseteq msgs \cup on_heartbeat(i, node[i]) BY <1>1, SendAdds
  <2> QED BY <2>1, <1>3
<1> QED BY <1>1, <1>4, StateContext, QuietStep

\* An append request of an older term.
LEMMA AppendRequestStaleBounds ==
    ASSUME BoundsInv, NEW m \in msgs, append_request_stale(m)
    PROVE  BoundsInv'
<1> DEFINE q == AppendResponse(m.to, m.from, node[m.to].current_term, 0, FALSE)
<1>1. /\ Receive(m, {q})
      /\ UNCHANGED <<node, disk, client, restarts, votes, counted, decided>>
  BY DEF append_request_stale
<1>2. SentInBounds(q) BY HandlerContext, AppendResponseSent
<1>3. \A x \in msgs' : x \in msgs \/ SentInBounds(x)
  <2>1. msgs' \subseteq msgs \cup {q} BY <1>1, ReceiveAdds
  <2> QED BY <2>1, <1>2
<1> QED BY <1>1, <1>3, StateContext, QuietStep

\* The condition under which a request of the current leader is looked at.
Current(m) ==
    /\ m.term >= node[m.to].current_term
    /\ ~(node[m.to].role = "Leader" /\ m.term = node[m.to].current_term)

\* A node that looks at an append request is a follower in the request's term.
LEMMA FollowingEvolves ==
    ASSUME BoundsInv, NEW m \in msgs, Current(m)
    PROVE  LET n == node[m.to]
               f == Following(n, m)
           IN  /\ f \in NodeState /\ f.current_term = m.term
               /\ f.role = "Follower" /\ f.log = n.log
               /\ f.voted_for = IF m.term > n.current_term THEN Nil ELSE n.voted_for
               /\ f.current_leader_id =
                     IF StepsDown(n, m) \/ n.current_leader_id = Nil
                     THEN m.from ELSE n.current_leader_id
               /\ ~StepsDown(n, m) => PersistentState(f) = PersistentState(n)
               /\ Evolves(n, f)
<1> DEFINE n == node[m.to]
           b == IF StepsDown(n, m) THEN become_follower(n, m.term) ELSE n
           f == Following(n, m)
<1>1. /\ n \in NodeState /\ n.current_term \in Nat /\ m.term \in Nat
      /\ m.from \in Node
  BY HandlerContext
<1>2. n.role \in Roles BY <1>1 DEF NodeState
<1>3. /\ b \in NodeState /\ b.current_term = m.term
      /\ b.role = "Follower" /\ b.log = n.log
      /\ b.voted_for = IF m.term > n.current_term THEN Nil ELSE n.voted_for
      /\ StepsDown(n, m) => b.current_leader_id = Nil
      /\ ~StepsDown(n, m) => b = n
  <2>1. CASE StepsDown(n, m)
    <3>1. b = become_follower(n, m.term) BY <2>1
    <3>2. m.term >= n.current_term BY DEF Current
    <3> HIDE DEF b, n
    <3> QED BY <3>1, <3>2, <2>1, <1>1, BecomeFollower
  <2>2. CASE ~StepsDown(n, m)
    <3>1. b = n BY <2>2
    <3>2. /\ m.term >= n.current_term
          /\ ~(n.role = "Leader" /\ m.term = n.current_term)
      BY DEF Current
    <3>3. ~(m.term > n.current_term) /\ n.role # "Candidate"
      BY <2>2 DEF StepsDown
    <3> HIDE DEF b, n
    <3> QED BY <3>1, <3>2, <3>3, <2>2, <1>1, <1>2 DEF Roles
  <2> QED BY <2>1, <2>2
<1>4. f = [b EXCEPT !.current_leader_id = IF b.current_leader_id = Nil THEN m.from
                                          ELSE b.current_leader_id]
  BY DEF Following
<1> HIDE DEF b, f, n
<1>5. /\ f \in NodeState /\ f.current_term = b.current_term /\ f.role = b.role
      /\ f.log = b.log /\ f.voted_for = b.voted_for
      /\ f.current_leader_id = IF b.current_leader_id = Nil THEN m.from
                               ELSE b.current_leader_id
  BY <1>1, <1>3, <1>4 DEF NodeState
<1>6. Evolves(n, f)
  <2>1. m.term >= n.current_term BY DEF Current, n
  <2> QED BY <2>1, <1>1, <1>3, <1>5 DEF Evolves
<1>7. ~StepsDown(n, m) => PersistentState(f) = PersistentState(n)
  BY <1>3, <1>5 DEF PersistentState
<1>8. /\ f \in NodeState /\ f.current_term = m.term
      /\ f.role = "Follower" /\ f.log = n.log
      /\ f.voted_for = IF m.term > n.current_term THEN Nil ELSE n.voted_for
      /\ f.current_leader_id = IF StepsDown(n, m) \/ n.current_leader_id = Nil
                               THEN m.from ELSE n.current_leader_id
  BY <1>3, <1>5
<1> QED BY <1>6, <1>7, <1>8 DEF f, n

\* The fields of an append request.
LEMMA AppendRequestContext ==
    ASSUME BoundsInv, NEW m \in msgs, m.type = "AppendRequest"
    PROVE  /\ m.prev_log_index \in Nat /\ m.prev_log_term \in Nat
           /\ m.entries \in Seq(Entry) /\ Len(m.entries) \in Nat
           /\ m.leader_commit \in Nat
           /\ Holds(node[m.from], m.term, m.prev_log_index + Len(m.entries))
<1>1. m \in Message BY HandlerContext
<1>2. /\ m.prev_log_index \in Nat /\ m.prev_log_term \in Nat
      /\ m.entries \in Seq(Entry) /\ m.leader_commit \in Nat
  BY <1>1 DEF Message
<1>3. Holds(node[m.from], m.term, m.prev_log_index + Len(m.entries))
  BY DEF BoundsInv, AppendsInBounds
<1> QED BY <1>2, <1>3, LenProperties

\* The sender of a request is not touched by its handler, so it still holds what
\* the request spoke of, and anything less.
LEMMA SenderHolds ==
    ASSUME BoundsInv, NEW m \in msgs, m.type = "AppendRequest",
           NEW k \in Nat, k <= m.prev_log_index + Len(m.entries),
           node'[m.from] = node[m.from]
    PROVE  Holds(node'[m.from], m.term, k)
<1>1. /\ m.prev_log_index + Len(m.entries) \in Nat
      /\ Holds(node[m.from], m.term, m.prev_log_index + Len(m.entries))
  BY AppendRequestContext
<1>2. Len(node[m.from].log) \in Nat
  <2>1. node[m.from] \in NodeState BY HandlerContext, StateContext
  <2> QED BY <2>1, LenProperties DEF NodeState
<1> QED BY <1>1, <1>2 DEF Holds

\* The entry before the request's entries is missing.
LEMMA AppendRequestMismatchBounds ==
    ASSUME StorageFaults = FALSE, BoundsInv, NEW m \in msgs,
           m.type = "AppendRequest", Current(m), append_request_mismatch(m),
           UNCHANGED <<restarts, votes>>
    PROVE  BoundsInv'
<1> DEFINE i == m.to
           r == Following(node[i], m)
           hint == IF m.prev_log_index > Len(r.log) THEN Len(r.log)
                   ELSE m.prev_log_index
           q == AppendResponse(i, m.from, r.current_term, hint, FALSE)
<1>1. /\ i \in Node /\ m.from \in Node /\ m.from # i /\ m.term \in Nat
  BY HandlerContext
<1>2. /\ IF StepsDown(node[i], m) THEN persist_state(i, r, {}) ELSE UNCHANGED disk
      /\ Receive(m, {q}) /\ Finish(i, r, client, {})
  BY DEF append_request_mismatch
<1>3. /\ r \in NodeState /\ r.current_term = m.term /\ r.role = "Follower"
      /\ ~StepsDown(node[i], m) => PersistentState(r) = PersistentState(node[i])
      /\ Evolves(node[i], r)
  BY FollowingEvolves
<1>4. hint \in Nat /\ hint <= m.prev_log_index + Len(m.entries)
  <2>1. Len(r.log) \in Nat BY <1>3, LenProperties DEF NodeState
  <2> HIDE DEF r
  <2> QED BY <2>1, AppendRequestContext
<1> HIDE DEF i, r, hint
<1>5. node'[m.from] = node[m.from] BY <1>1, <1>2, StateContext DEF Finish
<1>6. disk' = [disk EXCEPT ![i] = PersistentState(r)]
  <2>1. CASE StepsDown(node[i], m) BY <2>1, <1>2, PersistSaves
  <2>2. CASE ~StepsDown(node[i], m) BY <2>2, <1>1, <1>2, <1>3, NothingToSave
  <2> QED BY <2>1, <2>2
<1>7. InBounds(r) BY <1>3 DEF InBounds
<1>8. \A x \in msgs' : x \in msgs \/ SentInBounds(x)
  <2>1. Holds(node'[m.from], m.term, hint) BY <1>4, <1>5, SenderHolds
  <2>2. SentInBounds(q) BY <2>1, <1>1, <1>3, <1>4, AppendResponseSent
  <2>3. msgs' \subseteq msgs \cup {q} BY <1>2, ReceiveAdds
  <2> QED BY <2>2, <2>3
<1>9. {} \in SUBSET Node OBVIOUS
<1> QED BY <1>1, <1>2, <1>3, <1>6, <1>7, <1>8, <1>9, StateContext, NodeStep

\* The request's entries are taken.
LEMMA AppendRequestAcceptBounds ==
    ASSUME StorageFaults = FALSE, BoundsInv, NEW m \in msgs,
           m.type = "AppendRequest", Current(m), append_request_accept(m),
           UNCHANGED <<restarts, votes>>
    PROVE  BoundsInv'
<1> DEFINE i == m.to
           f == Following(node[i], m)
           log == AppendEntries(f.log, m.prev_log_index, m.entries)
           commit == IF m.leader_commit > f.commit_index
                     THEN Min({m.leader_commit, Len(log)}) ELSE f.commit_index
           n == [f EXCEPT !.log = log, !.commit_index = commit]
           r == apply_committed(n)
           k == last_match_index(m, log)
           q == AppendResponse(i, m.from, n.current_term, k, TRUE)
<1>1. /\ i \in Node /\ m.from \in Node /\ m.from # i /\ m.term \in Nat
  BY HandlerContext
<1>2. /\ HoldsPrevious(f.log, m) /\ persist_state(i, n, {f})
      /\ Receive(m, {q}) /\ Finish(i, r, Answer(client, replies(n)), {})
  BY DEF append_request_accept
<1>3. /\ f \in NodeState /\ f.current_term = m.term /\ f.role = "Follower"
      /\ Evolves(node[i], f)
  BY FollowingEvolves
<1>4. k \in Nat /\ k = m.prev_log_index + Len(m.entries)
  BY AppendRequestContext DEF last_match_index
<1> HIDE DEF f, i, k
<1>5. log \in Seq(Entry) /\ Len(log) \in Nat
  <2>1. f.log \in Seq(Entry) /\ Len(f.log) \in Nat
    BY <1>3, LenProperties DEF NodeState
  <2>2. m.prev_log_index \in 0..Len(f.log) /\ m.entries \in Seq(Entry)
    BY <1>2, <2>1, AppendRequestContext DEF HoldsPrevious
  <2>3. log \in Seq(Entry) BY <2>1, <2>2, AppendEntriesType
  <2> QED BY <2>3, LenProperties
<1> HIDE DEF log
<1>6. commit \in Nat
  <2>1. /\ m.leader_commit \in Nat /\ f.commit_index \in Nat
        /\ m.leader_commit \in Int /\ Len(log) \in Int
    BY <1>3, <1>5, AppendRequestContext DEF NodeState
  <2>2. Min({m.leader_commit, Len(log)}) \in {m.leader_commit, Len(log)}
    BY <2>1, MinOfTwo
  <2> QED BY <2>1, <2>2, <1>5
<1> HIDE DEF commit
<1>7. /\ n \in NodeState /\ n.current_term = m.term /\ n.role = "Follower"
  BY <1>3, <1>5, <1>6 DEF NodeState
<1> HIDE DEF n
<1>8. r \in NodeState /\ SameCore(n, r) BY <1>7, ApplyCommitted
<1>9. \A a \in replies(n) : a.output \in Command BY <1>7, RepliesType
<1> HIDE DEF r
<1>10. r.current_term = m.term /\ r.role = "Follower"
       /\ PersistentState(r) = PersistentState(n)
  BY <1>7, <1>8 DEF SameCore, PersistentState
<1>11. Evolves(node[i], r)
  BY <1>3, <1>10 DEF Evolves
<1>12. InBounds(r) BY <1>10 DEF InBounds
<1>13. disk' = [disk EXCEPT ![i] = PersistentState(r)]
  <2>1. disk' = [disk EXCEPT ![i] = PersistentState(n)] BY <1>2, PersistSaves
  <2> QED BY <2>1, <1>10
<1>14. node'[m.from] = node[m.from] BY <1>1, <1>2, StateContext DEF Finish
<1>15. \A x \in msgs' : x \in msgs \/ SentInBounds(x)
  <2>1. k <= m.prev_log_index + Len(m.entries) BY <1>4
  <2>2. Holds(node'[m.from], m.term, k) BY <2>1, <1>4, <1>14, SenderHolds
  <2>3. SentInBounds(q) BY <2>2, <1>1, <1>4, <1>7, AppendResponseSent
  <2>4. msgs' \subseteq msgs \cup {q} BY <1>2, ReceiveAdds
  <2> QED BY <2>3, <2>4
<1>16. Answer(client, replies(n)) \in [Command -> Outcome]
  BY <1>9, StateContext, AnswerType
<1>17. {} \in SUBSET Node OBVIOUS
<1> QED BY <1>1, <1>2, <1>8, <1>11, <1>12, <1>13, <1>15, <1>16, <1>17,
           StateContext, NodeStep

\* The index a leader backs off to.
LEMMA BackoffType ==
    ASSUME NEW k \in Nat
    PROVE  backoff(k) \in Nat \ {0} /\ backoff(k) <= k + 1
<1> DEFINE a == k - 1
<1>1. a \in Int /\ 1 \in Int OBVIOUS
<1>2. Max({a, 1}) \in {a, 1} /\ Max({a, 1}) >= 1
  <2> HIDE DEF a
  <2> QED BY <1>1, MaxOfTwo
<1>3. backoff(k) = Max({a, 1}) BY DEF backoff
<1> QED BY <1>2, <1>3

\* A leader learns from a response.
LEMMA AppendResponseBounds ==
    ASSUME BoundsInv, NEW m \in msgs, m.type = "AppendResponse",
           m.term = node[m.to].current_term, append_response_handled(m)
    PROVE  BoundsInv'
<1> DEFINE i == m.to
           j == m.from
           o == node[i]
           next == IF m.success THEN m.match_index + 1 ELSE backoff(m.match_index)
           match == IF m.success THEN m.match_index ELSE o.match_index[j]
           n == IF m.success
                THEN [o EXCEPT !.match_index[j] = m.match_index,
                               !.next_index[j] = m.match_index + 1]
                ELSE [o EXCEPT !.next_index[j] = backoff(m.match_index)]
           r == Commit(n)
<1>1. /\ i \in Node /\ j \in Node /\ j # i /\ o \in NodeState
  BY HandlerContext
<1>2. /\ o.role = "Leader" /\ Receive(m, {}) /\ UNCHANGED <<disk, restarts, votes>>
      /\ Finish(i, r, Answer(client, CommitReplies(n)), {})
  BY DEF append_response_handled
<1>3. m.match_index \in Nat /\ m.success \in BOOLEAN
  <2>1. m \in Message BY HandlerContext
  <2> QED BY <2>1 DEF Message
<1>4. Len(o.log) \in Nat BY <1>1, LenProperties DEF NodeState
<1>5. m.match_index <= Len(o.log)
  <2>1. m.match_index = 0 \/ Holds(node[m.to], m.term, m.match_index)
    BY DEF BoundsInv, AppendsInBounds
  <2>2. o.current_term \in Nat BY <1>1 DEF NodeState
  <2> QED BY <2>1, <2>2, <1>2, <1>4 DEF Holds
<1>6. InBounds(o) BY <1>1, NodeInBounds
<1>7. next \in 1..(Len(o.log) + 1) /\ match \in Nat /\ match <= Len(o.log)
  <2>1. CASE m.success BY <2>1, <1>3, <1>4, <1>5
  <2>2. CASE ~m.success
    <3>1. backoff(m.match_index) \in Nat \ {0}
          /\ backoff(m.match_index) <= m.match_index + 1
      BY <1>3, BackoffType
    <3>2. o.match_index[j] \in Nat /\ o.match_index[j] <= Len(o.log)
      BY <1>1, <1>2, <1>6 DEF InBounds, NodeState
    <3> QED BY <2>2, <3>1, <3>2, <1>3, <1>4, <1>5
  <2> QED BY <2>1, <2>2, <1>3
<1> HIDE DEF i, j, o
<1>8. /\ o.next_index \in [Node -> Nat] /\ o.match_index \in [Node -> Nat]
  BY <1>1 DEF NodeState
<1>9. /\ n \in NodeState /\ n.log = o.log /\ n.role = o.role
      /\ n.current_term = o.current_term /\ n.voted_for = o.voted_for
      /\ n.next_index = [o.next_index EXCEPT ![j] = next]
      /\ n.match_index = [o.match_index EXCEPT ![j] = match]
  <2>1. next \in Nat BY <1>4, <1>7
  <2>2. CASE m.success
    <3>1. n = [o EXCEPT !.match_index = [o.match_index EXCEPT ![j] = match],
                        !.next_index = [o.next_index EXCEPT ![j] = next]]
      BY <2>2, <1>1 DEF NodeState
    <3>2. /\ [o.match_index EXCEPT ![j] = match] \in [Node -> Nat]
          /\ [o.next_index EXCEPT ![j] = next] \in [Node -> Nat]
      BY <2>1, <1>7, <1>8
    <3> HIDE DEF n, next, match
    <3> QED BY <3>1, <3>2, <1>1 DEF NodeState
  <2>3. CASE ~m.success
    <3>1. n = [o EXCEPT !.next_index = [o.next_index EXCEPT ![j] = next]]
      BY <2>3, <1>1 DEF NodeState
    <3>2. [o.next_index EXCEPT ![j] = next] \in [Node -> Nat]
      BY <2>1, <1>8
    <3>3. o.match_index = [o.match_index EXCEPT ![j] = match]
      BY <2>3, <1>1, <1>8
    <3> HIDE DEF n, next, match
    <3> QED BY <3>1, <3>2, <3>3, <1>1 DEF NodeState
  <2> QED BY <2>2, <2>3, <1>3
<1> HIDE DEF n, next, match
<1>10. InBounds(n)
  <2> SUFFICES ASSUME NEW p \in Node
               PROVE  /\ n.next_index[p] \in 1..(Len(n.log) + 1)
                      /\ n.match_index[p] <= Len(n.log)
    BY DEF InBounds
  <2>1. /\ o.next_index[p] \in 1..(Len(o.log) + 1)
        /\ o.match_index[p] <= Len(o.log)
    BY <1>2, <1>6 DEF InBounds
  <2>2. CASE p = j BY <2>2, <1>1, <1>7, <1>8, <1>9
  <2>3. CASE p # j BY <2>3, <2>1, <1>8, <1>9
  <2> QED BY <2>2, <2>3
<1>11. /\ r \in NodeState /\ SameCore(n, r)
       /\ PersistentState(r) = PersistentState(n)
       /\ \A a \in CommitReplies(n) : a.output \in Command
  BY <1>9, CommitKeeps
<1> HIDE DEF r
<1>12. InBounds(r) BY <1>10, <1>11 DEF InBounds, SameCore
<1>13. Evolves(o, r) BY <1>4, <1>9, <1>11 DEF Evolves, SameCore
<1>14. disk' = [disk EXCEPT ![i] = PersistentState(r)]
  <2>1. PersistentState(r) = PersistentState(o)
    BY <1>9, <1>11 DEF PersistentState
  <2> QED BY <2>1, <1>1, <1>2, NothingToSave DEF o
<1>15. \A x \in msgs' : x \in msgs
  <2>1. msgs' \subseteq msgs \cup {} BY <1>2, ReceiveAdds
  <2> QED BY <2>1
<1>16. Answer(client, CommitReplies(n)) \in [Command -> Outcome]
  BY <1>11, StateContext, AnswerType
<1>17. {} \in SUBSET Node OBVIOUS
<1>18. Evolves(node[i], r) BY <1>13 DEF o
<1> QED BY <1>1, <1>2, <1>11, <1>12, <1>14, <1>15, <1>16, <1>17, <1>18,
           StateContext, NodeStep

\* A leader takes a command.
LEMMA ClientCommandAcceptBounds ==
    ASSUME StorageFaults = FALSE, BoundsInv, NEW i \in Node, NEW c \in Command,
           client_command_accept(i, c)
    PROVE  BoundsInv'
<1> DEFINE o == node[i]
           index == apply_index(o.log)
           stale == {p \in o.pending_applies : p.index = index}
           entry == [term |-> o.current_term, command |-> c]
           log == Append(o.log, entry)
           pending == (o.pending_applies \ stale) \cup {[index |-> index, request |-> c]}
           n == [o EXCEPT !.log = log, !.pending_applies = pending]
           waiting == [Drop(client, stale) EXCEPT ![c] = Status("waiting")]
           r == Commit(n)
<1>1. o \in NodeState /\ o.current_term \in Nat /\ InBounds(o)
  BY StateContext, NodeInBounds DEF NodeState
<1>2. /\ o.role = "Leader" /\ persist_state(i, n, {})
      /\ Finish(i, r, Answer(waiting, CommitReplies(n)), {})
      /\ send_message(msgs, on_heartbeat(i, r)) /\ UNCHANGED <<restarts, votes>>
  <2>1. n = [node[i] EXCEPT
               !.log = Append(@, [term |-> node[i].current_term, command |-> c]),
               !.pending_applies = (@ \ stale) \cup {[index |-> index, request |-> c]}]
    BY <1>1 DEF NodeState
  <2> QED BY <2>1 DEF client_command_accept
<1>3. waiting \in [Command -> Outcome]
  <2>1. Drop(client, stale) \in [Command -> Outcome] BY StateContext, DropType
  <2>2. Status("waiting") \in Outcome BY DEF Status, Outcome
  <2> HIDE DEF stale
  <2> QED BY <2>1, <2>2
<1> HIDE DEF waiting, o
<1>4. /\ o.log \in Seq(Entry) /\ Len(o.log) \in Nat
      /\ o.pending_applies \in SUBSET Pending
  BY <1>1, LenProperties DEF NodeState
<1>5. log \in Seq(Entry) /\ Len(log) = Len(o.log) + 1 /\ Len(log) \in Nat
  <2>1. entry \in Entry BY <1>1 DEF Entry
  <2> HIDE DEF entry
  <2> QED BY <2>1, <1>4, AppendProperties, LenProperties
<1>6. pending \in SUBSET Pending
  <2>1. index \in Nat BY <1>4 DEF apply_index
  <2>2. [index |-> index, request |-> c] \in Pending BY <2>1 DEF Pending
  <2> HIDE DEF index
  <2> QED BY <2>2, <1>4
<1> HIDE DEF log, pending
<1>7. /\ n \in NodeState /\ n.log = log /\ n.role = o.role
      /\ n.current_term = o.current_term
      /\ n.next_index = o.next_index /\ n.match_index = o.match_index
  BY <1>1, <1>5, <1>6 DEF NodeState
<1> HIDE DEF n
<1>8. /\ r \in NodeState /\ SameCore(n, r)
      /\ PersistentState(r) = PersistentState(n)
      /\ \A a \in CommitReplies(n) : a.output \in Command
  BY <1>7, CommitKeeps
<1> HIDE DEF r
<1>9. /\ r.role = "Leader" /\ r.log = log /\ r.current_term = o.current_term
      /\ r.next_index = o.next_index /\ r.match_index = o.match_index
  BY <1>2, <1>7, <1>8 DEF SameCore
<1>10. InBounds(r)
  <2> SUFFICES ASSUME NEW p \in Node
               PROVE  /\ o.next_index[p] \in 1..(Len(log) + 1)
                      /\ o.match_index[p] <= Len(log)
    BY <1>9 DEF InBounds
  <2>1. /\ o.next_index[p] \in 1..(Len(o.log) + 1)
        /\ o.match_index[p] <= Len(o.log)
    BY <1>1, <1>2 DEF InBounds
  <2>2. o.match_index[p] \in Nat BY <1>1 DEF NodeState
  <2> QED BY <2>1, <2>2, <1>4, <1>5
<1>11. Evolves(node[i], r)
  <2>1. Evolves(o, r) BY <1>2, <1>4, <1>5, <1>9 DEF Evolves
  <2> QED BY <2>1 DEF o
<1>12. disk' = [disk EXCEPT ![i] = PersistentState(r)]
  <2>1. disk' = [disk EXCEPT ![i] = PersistentState(n)] BY <1>2, PersistSaves
  <2> QED BY <2>1, <1>8
<1>13. Answer(waiting, CommitReplies(n)) \in [Command -> Outcome]
  BY <1>3, <1>8, AnswerType
<1>14. node'[i] = r BY <1>2, StateContext DEF Finish
<1>15. \A x \in msgs' : x \in msgs \/ SentInBounds(x)
  <2>1. msgs' \subseteq msgs \cup on_heartbeat(i, r) BY <1>2, SendAdds
  <2>2. \A x \in on_heartbeat(i, r) : SentInBounds(x)
    BY <1>8, <1>9, <1>10, <1>14, HeartbeatsSent
  <2> QED BY <2>1, <2>2
<1>16. {} \in SUBSET Node OBVIOUS
<1> QED BY <1>2, <1>8, <1>10, <1>11, <1>12, <1>13, <1>15, <1>16,
           StateContext, NodeStep

\* A node that does not lead refuses a command.
LEMMA ClientCommandRefuseBounds ==
    ASSUME BoundsInv, NEW i \in Node, NEW c \in Command,
           client_command_refuse(i, c)
    PROVE  BoundsInv'
<1>1. /\ client' = [client EXCEPT ![c] = Status("rejected")]
      /\ UNCHANGED <<node, disk, msgs, restarts, votes, counted, decided>>
  BY DEF client_command_refuse
<1>2. client' \in [Command -> Outcome]
  <2>1. Status("rejected") \in Outcome BY DEF Status, Outcome
  <2> QED BY <2>1, <1>1, StateContext
<1> QED BY <1>1, <1>2, StateContext, QuietStep

\* What a node finds in its storage is the persistent part of what it was.
LEMMA RestoredNode ==
    ASSUME NEW n \in NodeState, NEW saved \in Saved,
           saved.current_term >= n.current_term
    PROVE  LET r == restore_state(saved)
           IN  /\ r \in NodeState /\ PersistentState(r) = saved
               /\ r.role = "Follower" /\ r.current_term = saved.current_term
               /\ r.voted_for = saved.voted_for /\ r.current_leader_id = Nil
               /\ Evolves(n, r) /\ InBounds(r)
<1> DEFINE r == restore_state(saved)
<1>1. r \in NodeState BY RestoreType
<1>2. PersistentState(r) = saved
  BY DEF restore_state, PersistentState, Saved
<1>3. /\ r.role = "Follower" /\ r.current_term = saved.current_term
      /\ r.voted_for = saved.voted_for /\ r.current_leader_id = Nil
  BY DEF restore_state
<1> HIDE DEF r
<1>4. n.current_term \in Nat /\ saved.current_term \in Nat
  BY DEF NodeState, Saved
<1>5. Evolves(n, r) BY <1>3, <1>4 DEF Evolves
<1>6. InBounds(r) BY <1>3 DEF InBounds
<1> QED BY <1>1, <1>2, <1>3, <1>5, <1>6 DEF r

\* A node is created again from its storage.
LEMMA RestartBounds ==
    ASSUME BoundsInv, NEW i \in Node, restart(i)
    PROVE  BoundsInv'
<1> DEFINE r == restore_state(disk[i])
<1>1. /\ restarts' = restarts + 1
      /\ Finish(i, r, Drop(client, node[i].pending_applies), {})
      /\ UNCHANGED <<disk, msgs, votes>>
  BY DEF restart
<1>2. disk[i] \in Saved /\ disk[i] = PersistentState(node[i]) /\ node[i] \in NodeState
  BY DEF BoundsInv, TypeOK, Persisted
<1>3. disk[i].current_term >= node[i].current_term
  <2>1. disk[i].current_term = node[i].current_term BY <1>2 DEF PersistentState
  <2>2. node[i].current_term \in Nat BY <1>2 DEF NodeState
  <2> QED BY <2>1, <2>2
<1>4. /\ r \in NodeState /\ PersistentState(r) = disk[i]
      /\ Evolves(node[i], r) /\ InBounds(r)
  BY <1>2, <1>3, RestoredNode
<1> HIDE DEF r
<1>5. disk' = [disk EXCEPT ![i] = PersistentState(r)]
  BY <1>1, <1>2, <1>4, NothingToSave
<1>6. Drop(client, node[i].pending_applies) \in [Command -> Outcome]
  BY StateContext, DropType
<1>7. restarts' \in Nat BY <1>1, StateContext
<1>8. {} \in SUBSET Node OBVIOUS
<1> QED BY <1>1, <1>4, <1>5, <1>6, <1>7, <1>8, StateContext, NodeStep

\* A node stops between the two saves of a handler.
LEMMA CrashAfterStepDownBounds ==
    ASSUME BoundsInv, NEW m \in msgs, crash_after_step_down(m)
    PROVE  BoundsInv'
<1> DEFINE i == m.to
           n == become_follower(node[i], m.term)
           r == restore_state(PersistentState(n))
<1>1. /\ i \in Node /\ m.term \in Nat
      /\ node[i] \in NodeState /\ node[i].current_term \in Nat
  BY HandlerContext
<1>2. /\ m.term > node[i].current_term /\ restarts' = restarts + 1
      /\ disk' = [disk EXCEPT ![i] = PersistentState(n)]
      /\ Receive(m, {})
      /\ Finish(i, r, Drop(client, node[i].pending_applies), {})
      /\ UNCHANGED votes
  BY DEF crash_after_step_down
<1> HIDE DEF i
<1>3. n \in NodeState /\ n.current_term = m.term
  BY <1>1, <1>2, BecomeFollower
<1> HIDE DEF n
<1>4. /\ PersistentState(n) \in Saved
      /\ PersistentState(n).current_term = m.term
  BY <1>3, PersistentType DEF PersistentState
<1>5. PersistentState(n).current_term >= node[i].current_term
  BY <1>1, <1>2, <1>4
<1>6. /\ r \in NodeState /\ PersistentState(r) = PersistentState(n)
      /\ Evolves(node[i], r) /\ InBounds(r)
  BY <1>1, <1>4, <1>5, RestoredNode
<1> HIDE DEF r
<1>7. disk' = [disk EXCEPT ![i] = PersistentState(r)] BY <1>2, <1>6
<1>8. Drop(client, node[i].pending_applies) \in [Command -> Outcome]
  BY StateContext, DropType
<1>9. restarts' \in Nat BY <1>2, StateContext
<1>10. \A q \in msgs' : q \in msgs
  <2>1. msgs' \subseteq msgs \cup {} BY <1>2, ReceiveAdds
  <2> QED BY <2>1
<1>11. {} \in SUBSET Node OBVIOUS
<1> QED BY <1>1, <1>2, <1>6, <1>7, <1>8, <1>9, <1>10, <1>11, StateContext, NodeStep

-----------------------------------------------------------------------------
(* The invariant is inductive. *)

\* A cluster of new nodes satisfies the invariant.
LEMMA BoundsInit == Init => BoundsInv
<1> SUFFICES ASSUME Init PROVE BoundsInv
  OBVIOUS
<1> DEFINE r == restore_state(Fresh)
<1>1. r \in NodeState /\ Fresh \in Saved BY FreshType, RestoreType
<1>2. PersistentState(r) = Fresh /\ r.role = "Follower"
  BY DEF restore_state, PersistentState, Fresh
<1>3. /\ node = [i \in Node |-> r] /\ disk = [i \in Node |-> Fresh] /\ msgs = {}
      /\ client = [c \in Command |-> Status("idle")] /\ restarts = 0
      /\ votes = {} /\ counted = [i \in Node |-> {}] /\ decided = <<>>
  BY DEF Init
<1> HIDE DEF r
<1>4. Status("idle") \in Outcome BY DEF Status, Outcome
<1>5. <<>> \in Seq(Entry) BY EmptySeq
<1>6. TypeOK BY <1>1, <1>3, <1>4, <1>5 DEF TypeOK
<1>7. Persisted BY <1>2, <1>3 DEF Persisted
<1>8. NoSelfMessage /\ AppendsInBounds
  BY <1>3 DEF NoSelfMessage, AppendsInBounds
<1>9. IndexesInBounds BY <1>2, <1>3 DEF IndexesInBounds, Leader
<1> QED BY <1>6, <1>7, <1>8, <1>9 DEF BoundsInv

\* Every step keeps it: one case per action.
LEMMA BoundsNext ==
    ASSUME StorageFaults = FALSE, BoundsInv, [Next]_vars
    PROVE  BoundsInv'
<1>1. CASE UNCHANGED vars
  BY <1>1, StateContext, QuietStep DEF vars
<1>2. ASSUME NEW i \in Node, become_candidate(i) PROVE BoundsInv'
  BY <1>2, BecomeCandidateBounds
<1>3. ASSUME NEW i \in Node, heartbeat(i) PROVE BoundsInv'
  BY <1>3, HeartbeatBounds
<1>4. ASSUME NEW i \in Node, restart(i) PROVE BoundsInv'
  BY <1>4, RestartBounds
<1>5. ASSUME NEW m \in msgs, vote_request(m) PROVE BoundsInv'
  BY <1>5, VoteRequestStaleBounds, VoteRequestGrantBounds,
     VoteRequestRejectBounds DEF vote_request
<1>6. ASSUME NEW m \in msgs, vote_response(m) PROVE BoundsInv'
  BY <1>6, IgnoreBounds, StepDownBounds, CountVoteBounds DEF vote_response
<1>7. ASSUME NEW m \in msgs, append_request(m) PROVE BoundsInv'
  BY <1>7, AppendRequestStaleBounds, AppendRequestMismatchBounds,
     AppendRequestAcceptBounds DEF append_request, Current
<1>8. ASSUME NEW m \in msgs, append_response(m) PROVE BoundsInv'
  BY <1>8, IgnoreBounds, StepDownBounds, AppendResponseBounds
     DEF append_response
<1>9. ASSUME NEW m \in msgs, crash_after_step_down(m) PROVE BoundsInv'
  BY <1>9, CrashAfterStepDownBounds
<1>10. ASSUME NEW i \in Node, NEW c \in Command, client_command(i, c)
       PROVE  BoundsInv'
  BY <1>10, ClientCommandAcceptBounds, ClientCommandRefuseBounds
     DEF client_command
<1> QED BY <1>1, <1>2, <1>3, <1>4, <1>5, <1>6, <1>7, <1>8, <1>9, <1>10
        DEF Next, handle_message

\* The bookkeeping invariant holds in every reachable state of a cluster whose
\* storage does not fail.
THEOREM BoundsAlways ==
    ASSUME StorageFaults = FALSE PROVE Spec => []BoundsInv
<1>1. Init => BoundsInv BY BoundsInit
<1>2. BoundsInv /\ [Next]_vars => BoundsInv' BY BoundsNext
<1> QED BY <1>1, <1>2, PTL DEF Spec

\* Every variable keeps its type: no term, index or log that raft.rs computes,
\* saturating subtractions and unsigned indexes included, leaves its range.
THEOREM TypeCorrect ==
    ASSUME StorageFaults = FALSE PROVE Spec => []TypeOK
<1>1. BoundsInv => TypeOK BY DEF BoundsInv
<1> QED BY <1>1, BoundsAlways, PTL

\* The slices of on_heartbeat never panic, for any number of nodes and any
\* reordering, repetition and loss of append traffic.
THEOREM HeartbeatsNeverPanic ==
    ASSUME StorageFaults = FALSE PROVE Spec => []HeartbeatInBounds
<1>1. BoundsInv => HeartbeatInBounds
  BY DEF BoundsInv, IndexesInBounds, HeartbeatInBounds, Peers
<1> QED BY <1>1, BoundsAlways, PTL

\* Whatever request comes late or again, the loop of append_request does what
\* AppendEntries says, and doing it twice is doing it once.
THEOREM AppendLoopMerges ==
    ASSUME StorageFaults = FALSE PROVE Spec => []AppendEntriesIsTheLoop
<1>1. ASSUME TypeOK PROVE AppendEntriesIsTheLoop
  <2> SUFFICES ASSUME NEW m \in msgs, m.type = "AppendRequest",
                      HoldsPrevious(node[m.to].log, m)
               PROVE  LET log == node[m.to].log
                          merged == AppendEntries(log, m.prev_log_index, m.entries)
                      IN  /\ merged = AppendLoop(log, m.prev_log_index, m.entries)
                          /\ AppendEntries(merged, m.prev_log_index, m.entries) = merged
    BY DEF AppendEntriesIsTheLoop
  <2>1. m.to \in Node /\ m.prev_log_index \in Nat /\ m.entries \in Seq(Entry)
    BY <1>1 DEF TypeOK, Message
  <2>2. node[m.to].log \in Seq(Entry) BY <1>1, <2>1 DEF TypeOK, NodeState
  <2>3. m.prev_log_index \in 0..Len(node[m.to].log)
    BY <2>1, <2>2, LenProperties DEF HoldsPrevious
  <2> QED BY <2>1, <2>2, <2>3, LoopMerges, AppendAgainChangesNothing
<1> QED BY <1>1, TypeCorrect, PTL
=============================================================================
