--------------------------- MODULE KvStoreProofs ---------------------------
(***************************************************************************)
(* The kv store keeps every page to one use, caches what is in the file,   *)
(* and shows a read transaction its snapshot for as long as it is open, for *)
(* any number of readers, keys, pages and transactions, and across crashes. *)
(***************************************************************************)
EXTENDS KvStoreInvariants, TLAPS, FiniteSetTheorems, SequenceTheorems,
        WellFoundedInduction

\* A non-empty set of naturals has a least element.
LEMMA LeastOfNaturals ==
    ASSUME NEW S \in SUBSET Nat, S # {}
    PROVE  Min(S) \in S /\ \A y \in S : Min(S) <= y
<1>1. PICK x \in S : \A y \in S : ~ (<<y, x>> \in OpToRel(<, Nat))
  BY WFMin, NatLessThanWellFounded
<1>2. \A y \in S : x =< y
  <2> TAKE y \in S
  <2>1. ~(y < x) BY <1>1 DEF OpToRel
  <2> QED BY <2>1
<1>3. \E z \in S : \A y \in S : z =< y BY <1>2
<1> QED BY <1>3 DEF Min

\* A set of positive naturals that has with a number all smaller ones is an
\* interval: the entries at the head of the queue that can be reused.
LEMMA InitialSegment ==
    ASSUME NEW n \in Nat, NEW S \in SUBSET (1..n), \A i \in S : \A j \in 1..i : j \in S
    PROVE  /\ Cardinality(S) \in 0..n
           /\ S = 1..Cardinality(S)
<1> DEFINE Out == {i \in 1..(n + 1) : i \notin S}
           m == Min(Out)
<1>1. Out \in SUBSET Nat /\ n + 1 \in Out OBVIOUS
<1>2. m \in Out /\ \A y \in Out : m <= y BY <1>1, LeastOfNaturals
<1> HIDE DEF m
<1>3. m - 1 \in 0..n /\ m \in 1..(n + 1) BY <1>2
<1>4. S = 1..(m - 1)
  <2>1. \A i \in S : i < m
    <3> SUFFICES ASSUME NEW i \in S, ~(i < m) PROVE FALSE OBVIOUS
    <3>1. m \in 1..i BY <1>3
    <3> QED BY <3>1, <1>2
  <2>2. \A i \in 1..(m - 1) : i \in S
    <3> SUFFICES ASSUME NEW i \in 1..(m - 1), i \notin S PROVE FALSE OBVIOUS
    <3>1. i \in Out BY <1>3
    <3> QED BY <3>1, <1>2, <1>3
  <2>3. \A i \in S : i \in 1..(m - 1) BY <2>1, <1>3
  <2> HIDE DEF Out
  <2> QED BY <2>2, <2>3
<1>5. Cardinality(S) = m - 1
  <2>1. Cardinality(1..(m - 1)) = IF 1 > m - 1 THEN 0 ELSE m - 1 - 1 + 1
    BY <1>3, FS_Interval
  <2> QED BY <2>1, <1>3, <1>4
<1> QED BY <1>3, <1>4, <1>5

-----------------------------------------------------------------------------
(* The allocator. *)

FreedPages == [page_id : Page, transaction_id : 1..MaxTx]

\* allocate_page takes n pages: the first ones of the queue, as far as they can be
\* reused, then new ones.
LEMMA ReusedPages ==
    ASSUME pending_free_pages \in Seq(FreedPages), NEW n \in Nat
    PROVE  /\ Reused(n) \in 0..n
           /\ Reused(n) <= Len(pending_free_pages)
           /\ \A i \in 1..Reused(n) : reusable(pending_free_pages[i])
<1> DEFINE l == Len(pending_free_pages)
           prefix == {i \in DOMAIN pending_free_pages :
                        \A j \in 1..i : reusable(pending_free_pages[j])}
           c == Cardinality(prefix)
<1>1. l \in Nat /\ DOMAIN pending_free_pages = 1..l BY LenProperties
<1>2. prefix \in SUBSET (1..l) BY <1>1
<1>3. ASSUME NEW i \in prefix, NEW j \in 1..i PROVE j \in prefix
  <2>1. i \in 1..l /\ j \in 1..l /\ \A k \in 1..j : k \in 1..i BY <1>1
  <2> HIDE DEF l
  <2> QED BY <1>1, <2>1
<1>4. c \in 0..l /\ prefix = 1..c
  <2> HIDE DEF l, prefix
  <2> QED BY <1>1, <1>2, <1>3, InitialSegment
<1>5. \A i \in 1..c : reusable(pending_free_pages[i])
  <2> SUFFICES ASSUME NEW i \in 1..c PROVE reusable(pending_free_pages[i]) OBVIOUS
  <2>1. i \in prefix /\ i \in 1..i BY <1>4
  <2> QED BY <2>1
<1>6. Reused(n) = Min({n, c}) BY DEF Reused
<1> HIDE DEF l, prefix, c
<1>7. Min({n, c}) \in {n, c} /\ Min({n, c}) <= n /\ Min({n, c}) <= c
  <2>1. {n, c} \in SUBSET Nat /\ {n, c} # {} BY <1>1, <1>4
  <2> QED BY <2>1, LeastOfNaturals
<1>8. Reused(n) \in 0..c /\ Reused(n) \in 0..n BY <1>1, <1>4, <1>6, <1>7
<1> QED BY <1>1, <1>4, <1>5, <1>8 DEF l

\* What allocate_page hands out: pages of their own, free ones or new ones.
LEMMA AllocatedPages ==
    ASSUME TypeOK, PagesAreApart, NEW n \in Nat,
           next_page_id + n - Reused(n) <= MaxPages
    PROVE  LET a == allocate(n)
               next == next_page_id + n - Reused(n)
           IN  /\ a \in Seq(Page) /\ Len(a) = n
               /\ \A i, j \in 1..n : a[i] = a[j] => i = j
               /\ next \in next_page_id..MaxPages
               /\ \A i \in 1..n :
                     /\ a[i] < next
                     /\ \/ a[i] >= next_page_id
                        \/ \E k \in 1..Reused(n) :
                              /\ k \in DOMAIN pending_free_pages
                              /\ a[i] = pending_free_pages[k].page_id
                              /\ reusable(pending_free_pages[k])
<1> DEFINE a == allocate(n)
           r == Reused(n)
           l == Len(pending_free_pages)
           q == pending_free_pages
<1>1. q \in Seq(FreedPages) /\ next_page_id \in 2..MaxPages BY DEF TypeOK, FreedPages
<1>2. l \in Nat /\ DOMAIN q = 1..l /\ \A i \in 1..l : q[i] \in FreedPages
  BY <1>1, LenProperties
<1>3. r \in 0..n /\ r <= l /\ \A i \in 1..r : reusable(q[i]) BY <1>1, ReusedPages
<1>4. MaxPages \in Nat BY StoreAssumption
<1>5. \A i \in 1..n : a[i] = IF i <= r THEN q[i].page_id ELSE next_page_id + i - r - 1
  BY DEF allocate
<1>6. \A i \in 1..l : /\ q[i].page_id \in Page /\ q[i].page_id < next_page_id
                      /\ \A j \in 1..l : q[i].page_id = q[j].page_id => i = j
  BY <1>2 DEF PagesAreApart, Free, FreedPages
<1>7. a = [i \in 1..n |-> a[i]] BY DEF allocate
<1> HIDE DEF a, r, l, q
<1>8. \A i \in 1..n : i <= r => i \in 1..r /\ i \in 1..l BY <1>2, <1>3
<1>9. ASSUME NEW i \in 1..n
      PROVE  /\ a[i] \in Page /\ a[i] < next_page_id + n - r
             /\ \/ a[i] >= next_page_id
                \/ i \in 1..r /\ i \in DOMAIN q /\ a[i] = q[i].page_id /\ reusable(q[i])
  <2>1. CASE i <= r
    <3>1. i \in 1..r /\ i \in 1..l /\ a[i] = q[i].page_id BY <1>5, <1>8, <2>1
    <3>2. a[i] \in Page /\ a[i] < next_page_id BY <3>1, <1>6
    <3>3. a[i] < next_page_id + n - r BY <3>2, <1>1, <1>3 DEF Page
    <3> QED BY <3>1, <3>2, <3>3, <1>2, <1>3
  <2>2. CASE ~(i <= r)
    <3>1. a[i] = next_page_id + i - r - 1 BY <1>5, <2>2
    <3>2. next_page_id + n - r <= MaxPages BY DEF r
    <3>3. a[i] \in 1..(MaxPages - 1) /\ a[i] < next_page_id + n - r /\ a[i] >= next_page_id
      BY <3>1, <3>2, <2>2, <1>1, <1>3, <1>4
    <3> QED BY <3>3 DEF Page
  <2> QED BY <2>1, <2>2
<1>10. a \in Seq(Page) /\ Len(a) = n
  <2>1. a \in [1..n -> Page] BY <1>7, <1>9
  <2> QED BY <2>1
<1>11. ASSUME NEW i \in 1..n, NEW j \in 1..n, a[i] = a[j] PROVE i = j
  <2>1. CASE i <= r /\ j <= r
    <3>1. i \in 1..l /\ j \in 1..l /\ q[i].page_id = q[j].page_id
      BY <2>1, <1>5, <1>8, <1>11
    <3> QED BY <3>1, <1>6
  <2>2. CASE ~(i <= r) /\ ~(j <= r) BY <2>2, <1>1, <1>3, <1>5, <1>11
  <2>3. ASSUME NEW x \in 1..n, NEW y \in 1..n, x <= r, ~(y <= r) PROVE a[x] # a[y]
    <3>1. a[x] < next_page_id /\ a[x] \in Page BY <2>3, <1>5, <1>6, <1>8
    <3>2. a[y] = next_page_id + y - r - 1 BY <2>3, <1>5
    <3> QED BY <3>1, <3>2, <2>3, <1>1, <1>3 DEF Page
  <2> QED BY <2>1, <2>2, <2>3, <1>11
<1>12. next_page_id + n - r \in next_page_id..MaxPages
  <2>1. next_page_id + n - r <= MaxPages BY DEF r
  <2> QED BY <2>1, <1>1, <1>3, <1>4
<1> QED BY <1>9, <1>10, <1>11, <1>12 DEF a, r, q

\* What stays in the queue.
LEMMA RestOfQueue ==
    ASSUME TypeOK, NEW n \in Nat
    PROVE  LET rest == SubSeq(pending_free_pages, Reused(n) + 1, Len(pending_free_pages))
           IN  /\ rest \in Seq(FreedPages)
               /\ \A k \in DOMAIN rest :
                     /\ Reused(n) + k \in DOMAIN pending_free_pages /\ k \in Nat \ {0}
                     /\ rest[k] = pending_free_pages[Reused(n) + k]
<1> DEFINE r == Reused(n)
           q == pending_free_pages
           l == Len(q)
           rest == SubSeq(q, r + 1, l)
<1>1. q \in Seq(FreedPages) BY DEF TypeOK, FreedPages
<1>2. l \in Nat /\ DOMAIN q = 1..l /\ \A i \in 1..l : q[i] \in FreedPages
  BY <1>1, LenProperties
<1>3. r \in 0..n /\ r <= l BY <1>1, ReusedPages
<1> HIDE DEF q, l, r
<1>4. \A i \in (r + 1)..l : q[i] \in FreedPages BY <1>2, <1>3
<1>5. /\ rest \in Seq(FreedPages)
      /\ Len(rest) = IF r + 1 <= l THEN l - (r + 1) + 1 ELSE 0
      /\ \A i \in 1..(l - (r + 1) + 1) : rest[i] = q[(r + 1) + i - 1]
  BY <1>2, <1>3, <1>4, SubSeqProperties
<1> HIDE DEF rest
<1>6. DOMAIN rest = 1..(l - r)
  <2>1. Len(rest) = l - r BY <1>2, <1>3, <1>5
  <2> QED BY <2>1, <1>5, LenProperties
<1>7. ASSUME NEW k \in 1..(l - r)
      PROVE  r + k \in 1..l /\ k \in Nat \ {0} /\ rest[k] = q[r + k]
  <2>1. k \in 1..(l - (r + 1) + 1) /\ (r + 1) + k - 1 = r + k BY <1>2, <1>3
  <2>2. rest[k] = q[r + k] BY <1>5, <2>1
  <2> QED BY <2>2, <1>2, <1>3
<1> QED BY <1>2, <1>5, <1>6, <1>7 DEF rest, q, l, r

-----------------------------------------------------------------------------
(* Leaves. *)

Entries == UNION {[S -> Value] : S \in SUBSET Key}

\* What a leaf has; an empty one is a leaf.
LEMMA LeafFacts ==
    /\ \A e \in Entries : Leaf(e) \in Leaves
    /\ \A leaf \in Leaves : /\ leaf.kind = "leaf" /\ leaf.entries \in Entries
                            /\ leaf = Leaf(leaf.entries) /\ ChildrenOf(leaf) = <<>>
                            /\ leaf \in Content
    /\ EmptyLeaf \in Leaves
<1>1. \A e \in Entries : Leaf(e) \in Leaves BY DEF Leaves, Entries
<1>2. ASSUME NEW leaf \in Leaves
      PROVE  /\ leaf.kind = "leaf" /\ leaf.entries \in Entries
             /\ leaf = Leaf(leaf.entries) /\ ChildrenOf(leaf) = <<>>
             /\ leaf \in Content
  <2>1. PICK e \in Entries : leaf = Leaf(e) BY DEF Leaves, Entries
  <2> QED BY <2>1 DEF Leaf, ChildrenOf, Content
<1>3. EmptyLeaf \in Leaves
  <2>1. <<>> \in [{} -> Value] OBVIOUS
  <2>2. <<>> \in Entries BY <2>1 DEF Entries
  <2> QED BY <1>1, <2>2 DEF EmptyLeaf
<1> QED BY <1>1, <1>2, <1>3

\* Entries are a function on a finite set of keys.
LEMMA EntriesAreFinite ==
    ASSUME NEW e \in Entries
    PROVE  /\ DOMAIN e \in SUBSET Key /\ IsFiniteSet(DOMAIN e)
           /\ e \in [DOMAIN e -> Value]
           /\ \A S \in SUBSET DOMAIN e : [k \in S |-> e[k]] \in Entries
<1>1. PICK S \in SUBSET Key : e \in [S -> Value] BY DEF Entries
<1>2. DOMAIN e \in SUBSET Key /\ e \in [DOMAIN e -> Value] BY <1>1
<1>3. IsFiniteSet(DOMAIN e) BY <1>2, KeyAssumption, FS_Subset
<1>4. ASSUME NEW T \in SUBSET DOMAIN e PROVE [k \in T |-> e[k]] \in Entries
  <2>1. T \in SUBSET Key /\ [k \in T |-> e[k]] \in [T -> Value] BY <1>2
  <2> QED BY <2>1 DEF Entries
<1> QED BY <1>2, <1>3, <1>4

\* The key in the middle exists: counting the keys below it takes each number
\* less than Cardinality(DOMAIN entries) once.
LEMMA SeparatorExists ==
    ASSUME NEW e \in Entries, DOMAIN e # {}
    PROVE  /\ SeparatorKey(e) \in DOMAIN e
           /\ Cardinality({j \in DOMAIN e : j < SeparatorKey(e)})
                = Cardinality(DOMAIN e) \div 2
<1> DEFINE D == DOMAIN e
           n == Cardinality(D)
           Below(k) == {j \in D : j < k}
           rank == [k \in D |-> Cardinality(Below(k))]
           m == n \div 2
<1>1. D \in SUBSET Nat /\ IsFiniteSet(D) /\ D # {} BY EntriesAreFinite, KeyAssumption
<1>2. n \in Nat /\ n # 0 BY <1>1, FS_CardinalityType, FS_EmptySet
<1> HIDE DEF D, n
<1>3. ASSUME NEW k \in D
      PROVE  IsFiniteSet(Below(k)) /\ Cardinality(Below(k)) \in 0..(n - 1)
  <2>1. Below(k) \in SUBSET (D \ {k}) BY <1>1
  <2>2. IsFiniteSet(D \ {k}) /\ Cardinality(D \ {k}) = n - 1
    BY <1>1, FS_RemoveElement DEF n
  <2>3. IsFiniteSet(Below(k)) /\ Cardinality(Below(k)) <= n - 1
    BY <2>1, <2>2, FS_Subset
  <2>4. Cardinality(Below(k)) \in Nat BY <2>3, FS_CardinalityType
  <2> QED BY <2>3, <2>4, <1>2
<1>4. ASSUME NEW k \in D, NEW l \in D, k < l
      PROVE  Cardinality(Below(k)) < Cardinality(Below(l))
  <2>1. Below(k) \in SUBSET Below(l)
    <3>1. \A j \in D : j < k => j < l BY <1>1, <1>4
    <3> QED BY <3>1
  <2>2. k \in Below(l) /\ k \notin Below(k) BY <1>1, <1>4
  <2>3. IsFiniteSet(Below(k)) /\ IsFiniteSet(Below(l))
        /\ Cardinality(Below(k)) \in Nat /\ Cardinality(Below(l)) \in Nat
    BY <1>3
  <2> HIDE DEF Below
  <2>4. /\ Cardinality(Below(k)) <= Cardinality(Below(l))
        /\ Cardinality(Below(l)) = Cardinality(Below(k)) => Below(l) = Below(k)
    BY <2>1, <2>3, FS_Subset
  <2> QED BY <2>2, <2>3, <2>4
<1>5. rank \in Injection(D, 0..(n - 1))
  <2>1. rank \in [D -> 0..(n - 1)] BY <1>3
  <2>2. ASSUME NEW k \in D, NEW l \in D, rank[k] = rank[l] PROVE k = l
    <3>1. rank[k] = Cardinality(Below(k)) /\ rank[l] = Cardinality(Below(l)) OBVIOUS
    <3> HIDE DEF Below, rank
    <3>2. Cardinality(Below(k)) \in 0..(n - 1) /\ Cardinality(Below(l)) \in 0..(n - 1)
      BY <1>3
    <3>3. Cardinality(Below(k)) = Cardinality(Below(l)) BY <2>2, <3>1
    <3>4. ~(Cardinality(Below(k)) < Cardinality(Below(l)))
          /\ ~(Cardinality(Below(l)) < Cardinality(Below(k)))
      BY <3>2, <3>3
    <3>5. ~(k < l) /\ ~(l < k) BY <1>4, <3>4
    <3> QED BY <1>1, <3>5
  <2> HIDE DEF rank
  <2> QED BY <2>1, <2>2 DEF Injection, IsInjective
<1>6. Cardinality(0..(n - 1)) = n /\ IsFiniteSet(0..(n - 1))
  <2>1. /\ IsFiniteSet(0..(n - 1))
        /\ Cardinality(0..(n - 1)) = IF 0 > n - 1 THEN 0 ELSE n - 1 - 0 + 1
    BY <1>2, FS_Interval
  <2> QED BY <2>1, <1>2
<1>7. rank \in Surjection(D, 0..(n - 1))
  <2> HIDE DEF rank
  <2> QED BY <1>5, <1>6, FS_Injection DEF n
<1>8. m \in 0..(n - 1) BY <1>2
<1>9. \E k \in D : rank[k] = m
  <2> HIDE DEF rank, m
  <2> QED BY <1>7, <1>8 DEF Surjection
<1>10. \E k \in DOMAIN e : Cardinality({j \in DOMAIN e : j < k}) = Cardinality(DOMAIN e) \div 2
  BY <1>9 DEF D, n
<1> QED BY <1>10 DEF SeparatorKey

\* An entry more or a new value is a leaf again, and so are the halves of one.
LEMMA LeavesSplit ==
    ASSUME NEW leaf \in Leaves, NEW key \in Key, NEW value \in Value
    PROVE  LET e == InsertEntry(leaf, key, value)
           IN  /\ e \in Entries /\ Leaf(e) \in Leaves
               /\ SeparatorKey(e) \in Key
               /\ Leaf(LeftEntries(e)) \in Leaves /\ Leaf(RightEntries(e)) \in Leaves
<1> DEFINE e == InsertEntry(leaf, key, value)
           S == DOMAIN leaf.entries \cup {key}
<1>1. leaf.entries \in Entries BY LeafFacts
<1>2. S \in SUBSET Key /\ e \in [S -> Value] BY <1>1, EntriesAreFinite DEF InsertEntry
<1>3. e \in Entries /\ DOMAIN e # {} BY <1>2 DEF Entries
<1> HIDE DEF e
<1>4. SeparatorKey(e) \in Key BY <1>3, SeparatorExists, EntriesAreFinite
<1>5. LeftEntries(e) \in Entries /\ RightEntries(e) \in Entries
  <2>1. {k \in DOMAIN e : k < SeparatorKey(e)} \in SUBSET DOMAIN e OBVIOUS
  <2>2. {k \in DOMAIN e : k >= SeparatorKey(e)} \in SUBSET DOMAIN e OBVIOUS
  <2> QED BY <1>3, <2>1, <2>2, EntriesAreFinite DEF LeftEntries, RightEntries
<1> QED BY <1>3, <1>4, <1>5, LeafFacts DEF e

-----------------------------------------------------------------------------
(* Branches. *)

Children == [key : Key \cup {0}, page : Page, sum : Leaves]

\* What a branch has.
LEMMA BranchFacts ==
    ASSUME NEW b \in Branches
    PROVE  /\ b.kind = "branch" /\ ChildrenOf(b) = b.children
           /\ b.children \in Seq(Children) /\ Len(b.children) \in 2..BranchCapacity
           /\ DOMAIN b.children = 1..Len(b.children)
           /\ \A i \in 1..Len(b.children) : b.children[i] \in Children
           /\ b = Branch(b.children) /\ b \in Content
<1>1. /\ b \in [kind : {"branch"}, children : Seq(Children)]
      /\ Len(b.children) \in 2..BranchCapacity
  BY DEF Branches, Children
<1>2. b.children \in Seq(Children) BY <1>1
<1>3. DOMAIN b.children = 1..Len(b.children)
      /\ \A i \in 1..Len(b.children) : b.children[i] \in Children
  BY <1>2, LenProperties
<1> QED BY <1>1, <1>3 DEF Branch, ChildrenOf, Content

\* Two children or more, up to the capacity, make a branch.
LEMMA BranchType ==
    ASSUME NEW c \in Seq(Children), Len(c) \in 2..BranchCapacity
    PROVE  Branch(c) \in Branches
BY DEF Branch, Branches, Children

\* The child for a key is one of the children.
LEMMA ChildIndex ==
    ASSUME NEW b \in Branches, NEW key
    PROVE  child_index_for_key(b, key) \in 1..Len(b.children)
<1> DEFINE S == {i \in 2..Len(b.children) : b.children[i].key <= key}
           n == Len(b.children)
<1>1. n \in Nat /\ n >= 2 BY BranchFacts, CapacityAssumption
<1>2. IsFiniteSet(2..n) /\ Cardinality(2..n) = n - 1
  <2> HIDE DEF n
  <2>1. /\ IsFiniteSet(2..n)
        /\ Cardinality(2..n) = IF 2 > n THEN 0 ELSE n - 2 + 1
    BY <1>1, FS_Interval
  <2> QED BY <1>1, <2>1
<1>3. S \in SUBSET (2..n) OBVIOUS
<1> HIDE DEF n, S
<1>4. Cardinality(S) \in Nat /\ Cardinality(S) <= n - 1
  <2>1. IsFiniteSet(S) /\ Cardinality(S) <= Cardinality(2..n) BY <1>2, <1>3, FS_Subset
  <2>2. Cardinality(S) \in Nat BY <2>1, FS_CardinalityType
  <2> QED BY <1>2, <2>1, <2>2
<1>5. child_index_for_key(b, key) = 1 + Cardinality(S) BY DEF child_index_for_key, S
<1> QED BY <1>1, <1>4, <1>5 DEF n

\* A branch with another child at one place.
LEMMA ChildIsSet ==
    ASSUME NEW b \in Branches, NEW x \in 1..Len(b.children), NEW page \in Page,
           NEW sum \in Leaves
    PROVE  LET c == set_child_at_index(b, x, page, sum)
           IN  /\ c \in Branches /\ Len(c.children) = Len(b.children)
               /\ c.children[x] = Child(b.children[x].key, page, sum)
               /\ \A i \in 1..Len(b.children) : i # x => c.children[i] = b.children[i]
<1> DEFINE s == [b.children EXCEPT ![x] = Child(b.children[x].key, page, sum)]
<1>1. /\ b.children \in Seq(Children) /\ Len(b.children) \in 2..BranchCapacity
      /\ DOMAIN b.children = 1..Len(b.children)
      /\ b.children[x] \in Children
  BY BranchFacts
<1>2. Child(b.children[x].key, page, sum) \in Children BY <1>1 DEF Child, Children
<1>3. s \in Seq(Children) /\ Len(s) = Len(b.children) BY <1>1, <1>2
<1>4. Branch(s) \in Branches BY <1>1, <1>3, BranchType
<1>5. Branch(s).children = s BY DEF Branch
<1>6. set_child_at_index(b, x, page, sum) = Branch(s) BY DEF set_child_at_index
<1>7. /\ s[x] = Child(b.children[x].key, page, sum)
      /\ \A i \in 1..Len(b.children) : i # x => s[i] = b.children[i]
  BY <1>1
<1> QED BY <1>3, <1>4, <1>5, <1>6, <1>7

\* A sequence with an element more at place x.
LEMMA InsertedAt ==
    ASSUME NEW S, NEW s \in Seq(S), NEW x \in 1..(Len(s) + 1), NEW e \in S
    PROVE  /\ InsertAt(s, x, e) \in Seq(S) /\ Len(InsertAt(s, x, e)) = Len(s) + 1
           /\ \A i \in 1..(Len(s) + 1) :
                 InsertAt(s, x, e)[i] = IF i < x THEN s[i] ELSE IF i = x THEN e ELSE s[i - 1]
<1> DEFINE l == Len(s)
           left == SubSeq(s, 1, x - 1)
           right == SubSeq(s, x, l)
<1>1. l \in Nat /\ \A i \in 1..l : s[i] \in S BY LenProperties
<1> HIDE DEF l
<1>x. x \in 1..(l + 1) BY DEF l
<1>2. /\ left \in Seq(S) /\ Len(left) = x - 1
      /\ \A i \in 1..(x - 1) : left[i] = s[i]
  <2>1. \A i \in 1..(x - 1) : s[i] \in S BY <1>1, <1>x
  <2>2. /\ left \in Seq(S)
        /\ Len(left) = IF 1 <= x - 1 THEN (x - 1) - 1 + 1 ELSE 0
        /\ \A i \in 1..((x - 1) - 1 + 1) : left[i] = s[1 + i - 1]
    BY <1>x, <2>1, SubSeqProperties
  <2> HIDE DEF left
  <2> QED BY <1>1, <1>x, <2>2
<1>3. /\ right \in Seq(S) /\ Len(right) = l - x + 1
      /\ \A i \in 1..(l - x + 1) : right[i] = s[x + i - 1]
  <2>1. \A i \in x..l : s[i] \in S BY <1>1, <1>x
  <2>2. /\ right \in Seq(S)
        /\ Len(right) = IF x <= l THEN l - x + 1 ELSE 0
        /\ \A i \in 1..(l - x + 1) : right[i] = s[x + i - 1]
    BY <1>1, <1>x, <2>1, SubSeqProperties
  <2> HIDE DEF right
  <2> QED BY <1>1, <1>x, <2>2
<1> HIDE DEF left, right
<1>4. <<e>> \in Seq(S) /\ Len(<<e>>) = 1 /\ <<e>>[1] = e OBVIOUS
<1>5. /\ left \o <<e>> \in Seq(S) /\ Len(left \o <<e>>) = x
      /\ \A i \in 1..x : (left \o <<e>>)[i] = IF i < x THEN s[i] ELSE e
  <2>1. /\ left \o <<e>> \in Seq(S) /\ Len(left \o <<e>>) = Len(left) + Len(<<e>>)
        /\ \A i \in 1..(Len(left) + Len(<<e>>)) : (left \o <<e>>)[i] =
              IF i <= Len(left) THEN left[i] ELSE <<e>>[i - Len(left)]
    BY <1>2, <1>4, ConcatProperties
  <2> QED BY <2>1, <1>1, <1>2, <1>4, <1>x
<1>6. PICK both \in Seq(S) : both = left \o <<e>> BY <1>5
<1>7. /\ both \o right \in Seq(S) /\ Len(both \o right) = l + 1
      /\ \A i \in 1..(l + 1) : (both \o right)[i] = IF i <= x THEN both[i] ELSE right[i - x]
  <2>1. /\ both \o right \in Seq(S) /\ Len(both \o right) = Len(both) + Len(right)
        /\ \A i \in 1..(Len(both) + Len(right)) : (both \o right)[i] =
              IF i <= Len(both) THEN both[i] ELSE right[i - Len(both)]
    <3>1. right \in Seq(S) BY <1>3
    <3> QED BY <3>1, ConcatProperties
  <2>2. Len(both) = x /\ Len(both) + Len(right) = l + 1
    <3>1. Len(both) = x BY <1>5, <1>6
    <3>2. Len(right) = l - x + 1 BY <1>3
    <3> QED BY <3>1, <3>2, <1>1, <1>x
  <2> QED BY <2>1, <2>2
<1>8. InsertAt(s, x, e) = both \o right BY <1>6 DEF InsertAt, left, right, l
<1>9. ASSUME NEW i \in 1..(l + 1)
      PROVE  (both \o right)[i] = IF i < x THEN s[i] ELSE IF i = x THEN e ELSE s[i - 1]
  <2>1. CASE i <= x
    <3>1. i \in 1..x BY <2>1, <1>x
    <3> QED BY <3>1, <2>1, <1>5, <1>6, <1>7, <1>x
  <2>2. CASE ~(i <= x)
    <3>1. i - x \in 1..(l - x + 1) /\ x + (i - x) - 1 = i - 1 BY <2>2, <1>1, <1>x
    <3>2. (both \o right)[i] = right[i - x] /\ right[i - x] = s[i - 1]
      BY <3>1, <2>2, <1>3, <1>7
    <3> QED BY <3>2, <2>2, <1>x
  <2> QED BY <2>1, <2>2, <1>x
<1> QED BY <1>7, <1>8, <1>9 DEF l

\* The children of c are the child x and children of b, each of them once.
Keeps(c, b, x) ==
    \E from \in [1..Len(c.children) -> 1..Len(b.children)] :
        \A i \in 1..Len(c.children) : i # x =>
            /\ c.children[i] = b.children[from[i]]
            /\ \A j \in 1..Len(c.children) : j # x /\ from[j] = from[i] => j = i

\* A branch that has room gets one more child and keeps the others.
LEMMA ChildIsInserted ==
    ASSUME NEW b \in Branches, NEW key \in Key, NEW page \in Page, NEW sum \in Leaves,
           branch_fits(b)
    PROVE  LET c == InsertChild(b, key, page, sum)
           IN  /\ c \in Branches
               /\ \E x \in 1..Len(c.children) :
                     /\ c.children[x].page = page /\ c.children[x].sum = sum
                     /\ Keeps(c, b, x)
<1> DEFINE l == Len(b.children)
           S == {i \in 2..l : b.children[i].key < key}
           x == 2 + Cardinality(S)
           found == x <= l /\ b.children[x].key = key
           c == InsertChild(b, key, page, sum)
           e == Child(key, page, sum)
<1>1. /\ b.children \in Seq(Children) /\ l \in 2..BranchCapacity
      /\ BranchCapacity \in Nat /\ l \in Nat
  BY BranchFacts, CapacityAssumption
<1>2. x \in 2..(l + 1)
  <2>1. S \in SUBSET (2..l) OBVIOUS
  <2> HIDE DEF l, S
  <2>2. /\ IsFiniteSet(2..l)
        /\ Cardinality(2..l) = IF 2 > l THEN 0 ELSE l - 2 + 1
    BY <1>1, FS_Interval
  <2>3. Cardinality(S) \in Nat /\ Cardinality(S) <= Cardinality(2..l)
    BY <2>1, <2>2, FS_Subset, FS_CardinalityType
  <2> QED BY <1>1, <2>2, <2>3
<1>3. c = IF found THEN set_child_at_index(b, x, page, sum)
          ELSE Branch(InsertAt(b.children, x, e))
  BY DEF InsertChild
<1>4. l < BranchCapacity BY DEF branch_fits
<1>5. e \in Children BY DEF Child, Children
<1> HIDE DEF l, S, x, c, e
<1>6. CASE found
  <2>1. x \in 1..l BY <1>1, <1>2, <1>6
  <2>2. /\ c \in Branches /\ Len(c.children) = l
        /\ c.children[x] = Child(b.children[x].key, page, sum)
        /\ \A i \in 1..l : i # x => c.children[i] = b.children[i]
    BY <2>1, <1>3, <1>6, ChildIsSet DEF l
  <2>3. Keeps(c, b, x)
    <3> DEFINE from == [i \in 1..l |-> i]
    <3>1. from \in [1..Len(c.children) -> 1..l] BY <2>2
    <3>2. \A i \in 1..Len(c.children) : i # x =>
             /\ c.children[i] = b.children[from[i]]
             /\ \A j \in 1..Len(c.children) : j # x /\ from[j] = from[i] => j = i
      BY <2>2
    <3> HIDE DEF from
    <3> QED BY <3>1, <3>2 DEF Keeps, l
  <2> QED BY <2>1, <2>2, <2>3 DEF Child, c
<1>7. CASE ~found
  <2> DEFINE s == InsertAt(b.children, x, e)
  <2>1. x \in 1..(Len(b.children) + 1) BY <1>1, <1>2 DEF l
  <2>2. /\ s \in Seq(Children) /\ Len(s) = l + 1
        /\ \A i \in 1..(l + 1) :
              s[i] = IF i < x THEN b.children[i] ELSE IF i = x THEN e ELSE b.children[i - 1]
    <3>1. b.children \in Seq(Children) BY <1>1
    <3>2. PICK k \in Seq(Children) : k = b.children BY <3>1
    <3>3. x \in 1..(Len(k) + 1) BY <2>1, <3>2
    <3>4. /\ InsertAt(k, x, e) \in Seq(Children) /\ Len(InsertAt(k, x, e)) = Len(k) + 1
          /\ \A i \in 1..(Len(k) + 1) :
                InsertAt(k, x, e)[i] = IF i < x THEN k[i] ELSE IF i = x THEN e ELSE k[i - 1]
      BY <3>3, <1>5, InsertedAt
    <3> QED BY <3>2, <3>4 DEF l
  <2> HIDE DEF s
  <2>3. Branch(s) \in Branches
    <3>1. Len(s) \in 2..BranchCapacity BY <1>1, <1>4, <2>2
    <3> QED BY <2>2, <3>1, BranchType
  <2>4. c = Branch(s) /\ c.children = s
    <3>1. c = Branch(s) BY <1>3, <1>7 DEF s
    <3> QED BY <3>1 DEF Branch
  <2>5. x \in 1..(l + 1) BY <1>1, <1>2
  <2>6. s[x] = e /\ e.page = page /\ e.sum = sum BY <2>2, <2>5 DEF e, Child
  <2>7. Keeps(c, b, x)
    <3> DEFINE from == [i \in 1..(l + 1) |-> IF i < x THEN i ELSE i - 1]
    <3>1. from \in [1..(l + 1) -> 1..l]
      <4>1. \A i \in 1..(l + 1) : (IF i < x THEN i ELSE i - 1) \in 1..l BY <1>1, <1>2
      <4> QED BY <4>1
    <3>2. ASSUME NEW i \in 1..(l + 1), i # x PROVE s[i] = b.children[from[i]]
      <4>1. from[i] = IF i < x THEN i ELSE i - 1 OBVIOUS
      <4> HIDE DEF from
      <4> QED BY <2>2, <3>2, <4>1
    <3>3. ASSUME NEW i \in 1..(l + 1), NEW j \in 1..(l + 1), i # x, j # x, from[i] = from[j]
          PROVE  i = j
      <4>1. from[i] = (IF i < x THEN i ELSE i - 1) /\ from[j] = (IF j < x THEN j ELSE j - 1)
        OBVIOUS
      <4>2. (IF i < x THEN i ELSE i - 1) = (IF j < x THEN j ELSE j - 1)
        BY <3>3, <4>1
      <4>3. i # x /\ j # x BY <3>3
      <4> HIDE DEF from
      <4>4. CASE i < x /\ j < x BY <4>2, <4>4
      <4>5. CASE ~(i < x) /\ ~(j < x) BY <1>1, <1>2, <4>2, <4>5
      <4>6. CASE i < x /\ ~(j < x) BY <1>1, <1>2, <4>2, <4>3, <4>6
      <4>7. CASE ~(i < x) /\ j < x BY <1>1, <1>2, <4>2, <4>3, <4>7
      <4> QED BY <4>4, <4>5, <4>6, <4>7
    <3> HIDE DEF from
    <3>4. Len(c.children) = l + 1 BY <2>2, <2>4
    <3> QED BY <2>4, <3>1, <3>2, <3>3, <3>4 DEF Keeps, l
  <2> QED BY <2>2, <2>3, <2>4, <2>5, <2>6, <2>7 DEF c
<1> QED BY <1>6, <1>7

\* A new root over two leaves.
LEMMA NewRoot ==
    ASSUME NEW left \in Page, NEW left_sum \in Leaves, NEW key \in Key,
           NEW right \in Page, NEW right_sum \in Leaves
    PROVE  LET c == new_root(left, left_sum, key, right, right_sum)
           IN  /\ c \in Branches /\ Len(c.children) = 2
               /\ c.children[1].page = left /\ c.children[1].sum = left_sum
               /\ c.children[2].page = right /\ c.children[2].sum = right_sum
<1> DEFINE s == <<Child(0, left, left_sum), Child(key, right, right_sum)>>
<1>1. Child(0, left, left_sum) \in Children /\ Child(key, right, right_sum) \in Children
  BY DEF Child, Children
<1>2. s \in Seq(Children) /\ Len(s) = 2 BY <1>1
<1>3. Branch(s) \in Branches
  <2> HIDE DEF s
  <2>1. Len(s) \in 2..BranchCapacity BY <1>2, CapacityAssumption
  <2> QED BY <1>2, <2>1, BranchType
<1>4. Branch(s).children = s BY DEF Branch
<1>5. /\ s[1].page = left /\ s[1].sum = left_sum
      /\ s[2].page = right /\ s[2].sum = right_sum
  BY DEF Child
<1> QED BY <1>2, <1>3, <1>4, <1>5 DEF new_root

-----------------------------------------------------------------------------
(* Trees. *)

\* A leaf's tree is its page; a branch's has the pages of its children too.
LEMMA TreeFacts ==
    ASSUME NEW root, NEW sum
    PROVE  /\ sum \in Leaves =>
                 /\ Tree(root, sum) = {root}
                 /\ \A pages : Held(pages, root, sum) <=> pages[root] = sum
                 /\ \A next : WellFormed(root, sum, next) <=> root \in 1..(next - 1)
           /\ sum \in Branches =>
                 /\ sum.kind = "branch" /\ Len(sum.children) \in Nat
                 /\ \A p : p \in Tree(root, sum) <=>
                       p = root \/ \E i \in 1..Len(sum.children) : p = sum.children[i].page
                 /\ \A pages : Held(pages, root, sum) <=>
                       /\ pages[root] = sum
                       /\ \A i \in 1..Len(sum.children) :
                             pages[sum.children[i].page] = sum.children[i].sum
                 /\ \A next : WellFormed(root, sum, next) <=>
                       /\ root \in 1..(next - 1)
                       /\ \A i \in 1..Len(sum.children) :
                             /\ sum.children[i].page \in 1..(next - 1)
                             /\ sum.children[i].page # root
                             /\ \A j \in 1..Len(sum.children) :
                                   sum.children[j].page = sum.children[i].page => j = i
<1>1. ASSUME sum \in Leaves
      PROVE  /\ Tree(root, sum) = {root}
             /\ \A pages : Held(pages, root, sum) <=> pages[root] = sum
             /\ \A next : WellFormed(root, sum, next) <=> root \in 1..(next - 1)
  <2>1. ChildrenOf(sum) = <<>> BY <1>1, LeafFacts
  <2>2. DOMAIN ChildrenOf(sum) = {} BY <2>1
  <2>3. Tree(root, sum) = {root} BY <2>2 DEF Tree, Range
  <2> QED BY <1>1, <2>2, <2>3 DEF Held, WellFormed
<1>2. ASSUME sum \in Branches
      PROVE  /\ sum.kind = "branch" /\ Len(sum.children) \in Nat
             /\ \A p : p \in Tree(root, sum) <=>
                   p = root \/ \E i \in 1..Len(sum.children) : p = sum.children[i].page
             /\ \A pages : Held(pages, root, sum) <=>
                   /\ pages[root] = sum
                   /\ \A i \in 1..Len(sum.children) :
                         pages[sum.children[i].page] = sum.children[i].sum
             /\ \A next : WellFormed(root, sum, next) <=>
                   /\ root \in 1..(next - 1)
                   /\ \A i \in 1..Len(sum.children) :
                         /\ sum.children[i].page \in 1..(next - 1)
                         /\ sum.children[i].page # root
                         /\ \A j \in 1..Len(sum.children) :
                               sum.children[j].page = sum.children[i].page => j = i
  <2>1. /\ sum.kind = "branch" /\ ChildrenOf(sum) = sum.children
        /\ DOMAIN sum.children = 1..Len(sum.children) /\ Len(sum.children) \in Nat
    BY <1>2, BranchFacts, CapacityAssumption
  <2> QED BY <1>2, <2>1 DEF Tree, Range, Held, WellFormed
<1> QED BY <1>1, <1>2

\* A tree has pages below the next id only, also after that id has grown.
LEMMA TreeIsBelow ==
    ASSUME NEW root, NEW sum, NEW next \in Nat, WellFormed(root, sum, next)
    PROVE  /\ sum \in Leaves \cup Branches /\ sum \in Content /\ root \in Tree(root, sum)
           /\ \A p \in Tree(root, sum) : p \in 1..(next - 1)
           /\ \A more \in Nat : next <= more => WellFormed(root, sum, more)
<1>1. sum \in Leaves \cup Branches BY DEF WellFormed
<1>2. sum \in Content BY <1>1 DEF Content
<1>3. \A more \in Nat : next <= more => 1..(next - 1) \subseteq 1..(more - 1) OBVIOUS
<1>4. CASE sum \in Leaves
  <2>1. Tree(root, sum) = {root} /\ root \in 1..(next - 1) BY <1>4, TreeFacts DEF WellFormed
  <2>2. ASSUME NEW more \in Nat, next <= more PROVE WellFormed(root, sum, more)
    <3>1. 1..(next - 1) \subseteq 1..(more - 1) BY <1>3, <2>2
    <3> QED BY <3>1 DEF WellFormed
  <2> QED BY <1>1, <1>2, <2>1, <2>2
<1>5. CASE sum \in Branches
  <2>1. root \in Tree(root, sum) BY <1>5, TreeFacts
  <2>2. ASSUME NEW p \in Tree(root, sum) PROVE p \in 1..(next - 1)
    BY <1>5, <2>2, TreeFacts
  <2>3. ASSUME NEW more \in Nat, next <= more PROVE WellFormed(root, sum, more)
    <3>1. 1..(next - 1) \subseteq 1..(more - 1) BY <1>3, <2>3
    <3> QED BY <3>1 DEF WellFormed
  <2> QED BY <1>1, <1>2, <2>1, <2>2, <2>3
<1> QED BY <1>1, <1>4, <1>5

\* A tree leads every key to a leaf, which holds a value or none.
LEMMA TreeIsRead ==
    ASSUME NEW root, NEW sum, NEW next \in Nat, WellFormed(root, sum, next),
           NEW pages, Held(pages, root, sum)
    PROVE  /\ pages[root] = sum /\ TreePages(pages, root) = Tree(root, sum)
           /\ \A key \in Key :
                 /\ LeafPage(pages, root, key) \in Tree(root, sum)
                 /\ pages[LeafPage(pages, root, key)] \in Leaves
                 /\ Contents(pages, root)[key]
                      = get_value(pages[LeafPage(pages, root, key)], key)
           /\ Contents(pages, root) \in Maps
<1>1. pages[root] = sum BY DEF Held
<1>2. TreePages(pages, root) = Tree(root, sum) BY <1>1 DEF TreePages, Tree
<1>3. ASSUME NEW key \in Key
      PROVE  /\ LeafPage(pages, root, key) \in Tree(root, sum)
             /\ pages[LeafPage(pages, root, key)] \in Leaves
  <2>1. CASE sum \in Leaves
    <3>1. sum.kind # "branch" BY <2>1, LeafFacts
    <3> QED BY <1>1, <2>1, <3>1, TreeFacts DEF LeafPage
  <2>2. CASE sum \in Branches
    <3>1. PICK i \in 1..Len(sum.children) : i = child_index_for_key(sum, key)
      BY <2>2, ChildIndex
    <3>2. sum.children[i] \in Children /\ sum.kind = "branch" BY <2>2, BranchFacts
    <3>3. LeafPage(pages, root, key) = sum.children[i].page
      BY <1>1, <3>1, <3>2 DEF LeafPage, child_page_id_for_key
    <3>4. pages[sum.children[i].page] = sum.children[i].sum
      BY <2>2, <3>1, BranchFacts DEF Held
    <3>5. sum.children[i].sum \in Leaves BY <3>2 DEF Children
    <3>6. sum.children[i].page \in Tree(root, sum) BY <2>2, TreeFacts
    <3> QED BY <3>3, <3>4, <3>5, <3>6
  <2> QED BY <2>1, <2>2 DEF WellFormed
<1>4. ASSUME NEW key \in Key
      PROVE  Contents(pages, root)[key] = get_value(pages[LeafPage(pages, root, key)], key)
  <2>1. pages[LeafPage(pages, root, key)].kind = "leaf" BY <1>3, LeafFacts
  <2> DEFINE leaf == IF pages[root].kind = "branch"
                     THEN pages[child_page_id_for_key(pages[root], key)] ELSE pages[root]
  <2>2. leaf = pages[LeafPage(pages, root, key)] BY DEF LeafPage
  <2>3. Contents(pages, root)[key] = IF leaf.kind = "leaf" THEN get_value(leaf, key)
                                     ELSE leaf.kind
    BY DEF Contents
  <2> HIDE DEF leaf
  <2> QED BY <2>1, <2>2, <2>3
<1>5. Contents(pages, root) \in Maps
  <2>1. ASSUME NEW leaf \in Leaves, NEW key \in Key PROVE get_value(leaf, key) \in Value \cup {None}
    <3>1. leaf.entries \in [DOMAIN leaf.entries -> Value] BY LeafFacts, EntriesAreFinite
    <3> QED BY <3>1 DEF get_value
  <2>2. \A key \in Key : Contents(pages, root)[key] \in Value \cup {None}
    BY <1>3, <1>4, <2>1
  <2>3. Contents(pages, root) = [key \in Key |-> Contents(pages, root)[key]]
    BY DEF Contents
  <2> QED BY <2>2, <2>3 DEF Maps
<1> QED BY <1>1, <1>2, <1>3, <1>4, <1>5

\* What is not of the tree may change.
LEMMA TreeStays ==
    ASSUME NEW root, NEW sum, NEW next \in Nat, WellFormed(root, sum, next),
           NEW pages, Held(pages, root, sum),
           NEW more, \A p \in Tree(root, sum) : more[p] = pages[p]
    PROVE  /\ Held(more, root, sum) /\ more[root] = pages[root]
           /\ TreePages(more, root) = TreePages(pages, root)
           /\ Contents(more, root) = Contents(pages, root)
           /\ \A key \in Key : /\ LeafPage(more, root, key) = LeafPage(pages, root, key)
                               /\ more[LeafPage(more, root, key)]
                                    = pages[LeafPage(pages, root, key)]
<1>1. Held(more, root, sum)
  <2>1. CASE sum \in Leaves BY <2>1, TreeFacts
  <2>2. CASE sum \in Branches
    <3>1. /\ more[root] = sum
          /\ \A i \in 1..Len(sum.children) :
                more[sum.children[i].page] = sum.children[i].sum
      BY <2>2, TreeFacts
    <3> QED BY <2>2, <3>1, TreeFacts
  <2> QED BY <2>1, <2>2 DEF WellFormed
<1>2. more[root] = sum /\ pages[root] = sum BY <1>1 DEF Held
<1>3. TreePages(more, root) = TreePages(pages, root) BY <1>2 DEF TreePages
<1>4. \A key \in Key : LeafPage(more, root, key) = LeafPage(pages, root, key)
  BY <1>2 DEF LeafPage
<1>5. \A key \in Key : more[LeafPage(more, root, key)] = pages[LeafPage(pages, root, key)]
  BY <1>4, TreeIsRead
<1>6. Contents(more, root) = Contents(pages, root)
  <2>1. \A key \in Key : Contents(more, root)[key] = Contents(pages, root)[key]
    <3>1. \A key \in Key : /\ Contents(pages, root)[key]
                                = get_value(pages[LeafPage(pages, root, key)], key)
                           /\ Contents(more, root)[key]
                                = get_value(more[LeafPage(more, root, key)], key)
      BY <1>1, TreeIsRead
    <3> QED BY <3>1, <1>5
  <2>2. /\ Contents(more, root) = [key \in Key |-> Contents(more, root)[key]]
        /\ Contents(pages, root) = [key \in Key |-> Contents(pages, root)[key]]
    BY DEF Contents
  <2> QED BY <2>1, <2>2
<1> QED BY <1>1, <1>2, <1>3, <1>4, <1>5, <1>6
-----------------------------------------------------------------------------
(* What the invariant says of types and trees. *)

\* What the types say, in the form in which the proofs use it.
LEMMA Types ==
    ASSUME TypeOK
    PROVE  /\ next_page_id \in 2..MaxPages /\ next_page_id \in Nat /\ MaxPages \in Nat
           /\ MaxTx \in Nat
           /\ file = [header |-> file.header, length |-> file.length, pages |-> file.pages]
           /\ file.header \in Headers \cup {None} /\ file.length \in Nat
           /\ file.pages \in [Page -> Content] /\ DOMAIN file.pages = Page
           /\ writer.tx \in 0..MaxTx /\ writer.root \in Page \cup {0}
           /\ writer.sum \in Content
           /\ Dirty \in SUBSET Page /\ writer.dirty \in [Dirty -> Content]
           /\ writer.freed \in Seq(Page) /\ writer.todo \in SUBSET Page
           /\ writer.holds \in Maps
           /\ \A r \in Reader :
                 /\ reader[r].tx \in 0..MaxTx /\ reader[r].root \in Page \cup {0}
                 /\ reader[r].key \in Key \cup {None} /\ reader[r].page \in Page \cup {0}
                 /\ reader[r].data \in Content /\ reader[r].sees \in Maps
           /\ \A p \in Page : p \in Nat
<1>1. next_page_id \in 2..MaxPages /\ next_page_id \in Nat /\ MaxPages \in Nat /\ MaxTx \in Nat
  <2>1. next_page_id \in 2..MaxPages BY DEF TypeOK
  <2> QED BY <2>1, StoreAssumption
<1>2. /\ file = [header |-> file.header, length |-> file.length, pages |-> file.pages]
      /\ file.header \in Headers \cup {None} /\ file.length \in Nat
      /\ file.pages \in [Page -> Content] /\ DOMAIN file.pages = Page
  <2>1. file \in Files BY DEF TypeOK
  <2> QED BY <2>1 DEF Files
<1>3. /\ writer.tx \in 0..MaxTx /\ writer.root \in Page \cup {0} /\ writer.sum \in Content
      /\ writer.dirty \in [Dirty -> Content]
      /\ writer.freed \in Seq(Page) /\ writer.todo \in SUBSET Page
      /\ writer.holds \in Maps
  BY DEF TypeOK, Dirty
<1>4. Dirty \in SUBSET Page BY DEF TypeOK, Dirty
<1>5. \A r \in Reader :
         /\ reader[r].tx \in 0..MaxTx /\ reader[r].root \in Page \cup {0}
         /\ reader[r].key \in Key \cup {None} /\ reader[r].page \in Page \cup {0}
         /\ reader[r].data \in Content /\ reader[r].sees \in Maps
  BY DEF TypeOK
<1>6. \A p \in Page : p \in Nat BY DEF Page
<1> QED BY <1>1, <1>2, <1>3, <1>4, <1>5, <1>6

\* The slot the store is at, the tree it holds, and the trees readers see.
LEMMA CurrentFacts ==
    ASSUME StoreInv
    PROVE  /\ header \in Headers /\ header.active_slot \in 0..1
           /\ Current = header.commit_slots[header.active_slot]
           /\ Current.root_page_id \in Page /\ Current.root_page_checksum \in Content
           /\ Current.transaction_id \in 0..MaxTx /\ Current.next_page_id \in 2..MaxPages
           /\ SlotOK(Current) /\ Current.root_page_id \in CurrentTree
           /\ status = "up" => \A p \in CurrentTree : p < next_page_id /\ p \in Page
<1>1. header \in Headers /\ next_page_id \in 2..MaxPages /\ MaxPages \in Nat
  BY StoreAssumption DEF StoreInv, TypeOK
<1>2. /\ header.active_slot \in 0..1
      /\ Current = header.commit_slots[header.active_slot]
      /\ Current.root_page_id \in Page /\ Current.root_page_checksum \in Content
      /\ Current.transaction_id \in 0..MaxTx /\ Current.next_page_id \in 2..MaxPages
  BY <1>1 DEF Headers, Current, active_slot
<1>3. SlotOK(Current) BY <1>2 DEF StoreInv, SlotsAreTrees
<1>4. PICK next \in Nat : next = Current.next_page_id BY <1>1, <1>2
<1>5. /\ Current.root_page_id \in CurrentTree
      /\ \A p \in CurrentTree : p \in 1..(next - 1)
  BY <1>3, <1>4, TreeIsBelow DEF SlotOK, CurrentTree
<1>6. status = "up" => next <= next_page_id BY <1>4 DEF StoreInv, CurrentIsHeld
<1>7. status = "up" => \A p \in CurrentTree : p < next_page_id /\ p \in Page
  BY <1>1, <1>2, <1>4, <1>5, <1>6 DEF Page
<1> QED BY <1>1, <1>2, <1>3, <1>5, <1>7

\* What a reader that is under way has: its snapshot, and where in it it is.
LEMMA SnapshotFacts ==
    ASSUME StoreInv, NEW r \in Reader, reader[r].phase # "idle"
    PROVE  /\ SnapshotIsKept(r) /\ ReaderIsAt(r) /\ status = "up"
           /\ reader[r].root \in Snapshot(r)
           /\ Snapshot(r) = Tree(reader[r].root, file.pages[reader[r].root])
           /\ \A p \in Snapshot(r) : p < next_page_id /\ p \in Page
           /\ \A key \in Key :
                 LeafPage(file.pages, reader[r].root, key) \in Snapshot(r)
<1>1. SnapshotIsKept(r) /\ ReaderIsAt(r) BY DEF StoreInv, SnapshotsAreKept
<1>2. next_page_id \in 2..MaxPages /\ MaxPages \in Nat
  BY StoreAssumption DEF StoreInv, TypeOK
<1>3. PICK next \in Nat : next = next_page_id BY <1>2
<1> DEFINE root == reader[r].root
           sum == file.pages[root]
<1>4. WellFormed(root, sum, next) /\ Held(file.pages, root, sum) BY <1>1, <1>3 DEF SnapshotIsKept
<1>5. Snapshot(r) = TreePages(file.pages, root) BY DEF Snapshot
<1>6. status = "up" BY <1>1 DEF SnapshotIsKept
<1> HIDE DEF root, sum
<1>7. /\ TreePages(file.pages, root) = Tree(root, sum)
      /\ \A key \in Key : LeafPage(file.pages, root, key) \in Tree(root, sum)
  BY <1>4, TreeIsRead
<1>8. root \in Tree(root, sum) /\ \A p \in Tree(root, sum) : p \in 1..(next - 1)
  BY <1>4, TreeIsBelow
<1>9. \A p \in Tree(root, sum) : p < next_page_id /\ p \in Page
  BY <1>2, <1>3, <1>8 DEF Page
<1> QED BY <1>1, <1>5, <1>6, <1>7, <1>8, <1>9 DEF root, sum


-----------------------------------------------------------------------------
(* The steps of the write transaction. *)

\* A reader that is registered holds the queue back: what is reusable was freed before
\* its snapshot was made.
LEMMA ReadersHoldBack ==
    ASSUME TypeOK, ReadersAreTracked, NEW r \in Registered, NEW freed \in FreedPages,
           reusable(freed)
    PROVE  freed.transaction_id < reader[r].tx
<1> DEFINE same == {x \in Registered : reader[x].tx = reader[r].tx}
           active == {t \in 0..MaxTx : active_readers[t] > 0}
           t == reader[r].tx
<1>1. r \in Reader /\ t \in 0..MaxTx /\ MaxTx \in Nat /\ IsFiniteSet(Reader)
  BY StoreAssumption DEF TypeOK, Registered
<1>2. Cardinality(same) \in Nat /\ Cardinality(same) # 0
  <2>1. same \in SUBSET Reader /\ r \in same BY DEF Registered
  <2> HIDE DEF same
  <2>2. IsFiniteSet(same) BY <1>1, <2>1, FS_Subset
  <2> QED BY <2>1, <2>2, FS_CardinalityType, FS_EmptySet
<1>3. active_readers[t] = Cardinality(same) BY <1>1 DEF ReadersAreTracked
<1> HIDE DEF same
<1>4. t \in active BY <1>1, <1>2, <1>3
<1>5. active \in SUBSET Nat BY <1>1
<1>6. Min(active) <= t /\ Min(active) \in Nat /\ active # {}
  <2> HIDE DEF active
  <2> QED BY <1>4, <1>5, LeastOfNaturals
<1>7. oldest_active_transaction = Min(active) BY <1>6 DEF oldest_active_transaction
<1> QED BY <1>1, <1>6, <1>7 DEF reusable, FreedPages

\* What an insert does to the tree: the pages of old, which the transaction had not
\* copied yet, give way to pages of the transaction.
Grafts(old, a, dirty, root) ==
    /\ \E n \in Nat : a = allocate(n)
    /\ old \in Seq(Page)
    /\ \A i \in DOMAIN old :
          /\ old[i] \in Draft /\ old[i] \notin Dirty
          /\ \A j \in DOMAIN old : old[j] = old[i] => j = i
    /\ root \in DOMAIN dirty
    /\ dirty \in [DOMAIN dirty -> Content]
    /\ \A p \in DOMAIN dirty : p \in Dirty \/ \E i \in DOMAIN a : p = a[i]
    /\ WellFormed(root, dirty[root], next_page_id')
    /\ Held(Over(Over(dirty, writer.dirty), file.pages), root, dirty[root])
    /\ \A p \in Tree(root, dirty[root]) :
          p \in DOMAIN dirty \/ (p \in Draft /\ \A i \in DOMAIN old : old[i] # p)

\* The pages an insert is given: nobody has a use for them.
LEMMA GraftsArePlanted ==
    ASSUME StoreInv, PreemptedBegin = FALSE, WriterIn("open"), NEW old, NEW a, NEW dirty,
           NEW root, Modify(old, a, dirty, root), \E n \in Nat : a = allocate(n)
    PROVE  /\ a \in Seq(Page) /\ Len(a) \in Nat /\ DOMAIN a = 1..Len(a)
           /\ \A i, j \in DOMAIN a : a[i] = a[j] => i = j
           /\ next_page_id' \in next_page_id..MaxPages
           /\ \A i \in DOMAIN a :
                 /\ a[i] < next_page_id' /\ a[i] \notin CurrentTree /\ a[i] \notin Dirty
                 /\ \A r \in Reader : reader[r].phase # "idle" => a[i] \notin Snapshot(r)
           /\ pending_free_pages' \in Seq(FreedPages)
           /\ \A k \in DOMAIN pending_free_pages' :
                 /\ \E l \in DOMAIN pending_free_pages :
                       pending_free_pages'[k] = pending_free_pages[l]
                 /\ \A j \in DOMAIN pending_free_pages' :
                       pending_free_pages'[j].page_id = pending_free_pages'[k].page_id => j = k
                 /\ \A i \in DOMAIN a : a[i] # pending_free_pages'[k].page_id
<1>1. PICK n \in Nat : a = allocate(n) OBVIOUS
<1> DEFINE q == pending_free_pages
           u == Reused(n)
           rest == SubSeq(q, u + 1, Len(q))
           next == next_page_id + n - u
<1>2. TypeOK /\ PagesAreApart /\ SnapshotsAreKept /\ ReadersAreTracked /\ DraftIsHeld
  BY DEF StoreInv
<1>up. status = "up"
  <2>1. writer.phase = "open" BY DEF WriterIn
  <2> QED BY <1>2, <2>1 DEF DraftIsHeld
<1>3. q \in Seq(FreedPages) BY <1>2 DEF TypeOK, FreedPages
<1>4. Len(q) \in Nat /\ DOMAIN q = 1..Len(q) /\ \A i \in DOMAIN q : q[i] \in FreedPages
  BY <1>3, LenProperties
<1>5. u \in 0..n BY <1>3, ReusedPages
<1>6. Len(a) = n BY <1>1, <1>5 DEF allocate
<1>7. next_page_id' = next /\ next <= MaxPages /\ q' = rest BY <1>6 DEF Modify
<1>8. /\ a \in Seq(Page) /\ \A i, j \in 1..n : a[i] = a[j] => i = j
      /\ next \in next_page_id..MaxPages
      /\ \A i \in 1..n :
            /\ a[i] < next
            /\ \/ a[i] >= next_page_id
               \/ \E k \in 1..u : /\ k \in DOMAIN q /\ a[i] = q[k].page_id
                                  /\ reusable(q[k])
  <2>1. next_page_id + n - Reused(n) <= MaxPages BY <1>7
  <2> HIDE DEF q, u, next
  <2>2. LET pages == allocate(n)
        IN  /\ pages \in Seq(Page)
            /\ \A i, j \in 1..n : pages[i] = pages[j] => i = j
            /\ next_page_id + n - Reused(n) \in next_page_id..MaxPages
            /\ \A i \in 1..n :
                  /\ pages[i] < next_page_id + n - Reused(n)
                  /\ \/ pages[i] >= next_page_id
                     \/ \E k \in 1..Reused(n) :
                           /\ k \in DOMAIN pending_free_pages
                           /\ pages[i] = pending_free_pages[k].page_id
                           /\ reusable(pending_free_pages[k])
    BY <1>2, <2>1, AllocatedPages
  <2> QED BY <1>1, <2>2 DEF q, u, next
<1>9. DOMAIN a = 1..n BY <1>6, <1>8, LenProperties
<1>10. /\ rest \in Seq(FreedPages)
       /\ \A k \in DOMAIN rest : /\ u + k \in DOMAIN q /\ k \in Nat \ {0}
                                 /\ rest[k] = q[u + k]
  BY <1>2, RestOfQueue
<1>11. \A i \in DOMAIN q : /\ q[i].page_id < next_page_id /\ q[i].page_id \notin CurrentTree
                           /\ q[i].page_id \notin Dirty
                           /\ \A j \in DOMAIN q : q[i].page_id = q[j].page_id => i = j
  BY <1>2 DEF PagesAreApart, Free
<1>12. next_page_id \in Nat /\ MaxPages \in Nat
  <2>1. next_page_id \in 2..MaxPages BY <1>2 DEF TypeOK
  <2> QED BY <2>1, StoreAssumption
<1>page. \A i \in 1..n : a[i] \in Page
  <2>1. PICK s \in Seq(Page) : s = a BY <1>8
  <2>2. \A i \in 1..n : s[i] \in Page BY <1>6, <2>1, LenProperties
  <2> QED BY <2>1, <2>2
<1>13. ASSUME NEW i \in 1..n
       PROVE  /\ a[i] < next /\ a[i] \notin CurrentTree /\ a[i] \notin Dirty
              /\ \A r \in Reader : reader[r].phase # "idle" => a[i] \notin Snapshot(r)
  <2>1. CASE a[i] >= next_page_id
    <3> HIDE DEF next, q, u
    <3>1. \A p \in CurrentTree : p < next_page_id /\ p \in Page BY <1>up, CurrentFacts
    <3>2. \A p \in Dirty : p < next_page_id /\ p \in Page BY <1>2, Types DEF PagesAreApart
    <3>3. \A r \in Reader : reader[r].phase # "idle" =>
             \A p \in Snapshot(r) : p < next_page_id /\ p \in Page
      BY SnapshotFacts
    <3>4. \A p \in Page : p < next_page_id => p # a[i]
      <4>1. a[i] \in Page BY <1>page
      <4> QED BY <4>1, <1>12, <2>1 DEF Page
    <3> QED BY <3>1, <3>2, <3>3, <3>4, <1>8
  <2>2. ASSUME NEW k \in DOMAIN q, a[i] = q[k].page_id, reusable(q[k]),
               NEW r \in Reader, reader[r].phase # "idle", a[i] \in Snapshot(r)
        PROVE  FALSE
    <3>1. r \in Registered BY <2>2 DEF WriterIn, Registered
    <3>2. SnapshotIsKept(r) BY <1>2, <2>2 DEF SnapshotsAreKept
    <3>3. q[k].transaction_id > reader[r].tx BY <2>2, <3>2 DEF SnapshotIsKept
    <3>4. q[k] \in FreedPages BY <1>4
    <3>5. q[k].transaction_id < reader[r].tx BY <1>2, <2>2, <3>1, <3>4, ReadersHoldBack
    <3>6. reader[r].tx \in Nat /\ q[k].transaction_id \in Nat
      <4>1. reader[r].tx \in 0..MaxTx BY <1>2 DEF TypeOK
      <4>2. q[k].transaction_id \in 1..MaxTx BY <3>4 DEF FreedPages
      <4> HIDE DEF q
      <4> QED BY <4>1, <4>2, StoreAssumption
    <3> QED BY <3>3, <3>5, <3>6
  <2>3. CASE \E k \in 1..u : k \in DOMAIN q /\ a[i] = q[k].page_id /\ reusable(q[k])
    <3>1. PICK k \in DOMAIN q : a[i] = q[k].page_id /\ reusable(q[k]) BY <2>3
    <3>2. \A r \in Reader : reader[r].phase # "idle" => a[i] \notin Snapshot(r)
      BY <2>2, <3>1
    <3> HIDE DEF q, next, u
    <3> QED BY <3>1, <3>2, <1>8, <1>11
  <2> QED BY <1>8, <2>1, <2>3
<1>14. ASSUME NEW k \in DOMAIN rest
       PROVE  /\ \E l \in DOMAIN q : rest[k] = q[l]
              /\ \A j \in DOMAIN rest : rest[j].page_id = rest[k].page_id => j = k
              /\ \A i \in 1..n : a[i] # rest[k].page_id
  <2> HIDE DEF q, next, rest, u
  <2>1. \E l \in DOMAIN q : rest[k] = q[l] BY <1>10
  <2>2. ASSUME NEW j \in DOMAIN rest, rest[j].page_id = rest[k].page_id PROVE j = k
    <3>1. u + j = u + k BY <1>10, <1>11, <2>2
    <3>2. u \in Nat /\ j \in Nat /\ k \in Nat BY <1>5, <1>10
    <3> QED BY <3>1, <3>2
  <2>3. ASSUME NEW i \in 1..n, a[i] = rest[k].page_id PROVE FALSE
    <3>1. u + k \in DOMAIN q /\ rest[k] = q[u + k] /\ k \in Nat \ {0} BY <1>10
    <3>2. CASE a[i] >= next_page_id
      <4>1. a[i] < next_page_id BY <1>11, <2>3, <3>1
      <4>2. a[i] \in Nat BY <1>page DEF Page
      <4> QED BY <1>12, <3>2, <4>1, <4>2
    <3>3. CASE \E m \in 1..u : m \in DOMAIN q /\ a[i] = q[m].page_id
      <4>1. PICK m \in 1..u : m \in DOMAIN q /\ a[i] = q[m].page_id BY <3>3
      <4>2. m = u + k BY <1>11, <2>3, <3>1, <4>1
      <4> QED BY <1>5, <3>1, <4>1, <4>2
    <3> QED BY <1>8, <3>2, <3>3
  <2> QED BY <2>1, <2>2, <2>3
<1> HIDE DEF q, u, rest, next
<1>15. /\ a \in Seq(Page) /\ Len(a) \in Nat /\ DOMAIN a = 1..Len(a)
       /\ \A i, j \in DOMAIN a : a[i] = a[j] => i = j
       /\ next_page_id' \in next_page_id..MaxPages
  BY <1>6, <1>7, <1>8, <1>9
<1>16. \A i \in DOMAIN a :
          /\ a[i] < next_page_id' /\ a[i] \notin CurrentTree /\ a[i] \notin Dirty
          /\ \A r \in Reader : reader[r].phase # "idle" => a[i] \notin Snapshot(r)
  BY <1>7, <1>9, <1>13
<1>17. \A k \in DOMAIN pending_free_pages' :
          /\ \E l \in DOMAIN pending_free_pages :
                pending_free_pages'[k] = pending_free_pages[l]
          /\ \A j \in DOMAIN pending_free_pages' :
                pending_free_pages'[j].page_id = pending_free_pages'[k].page_id => j = k
          /\ \A i \in DOMAIN a : a[i] # pending_free_pages'[k].page_id
  <2>1. \A k \in DOMAIN rest :
           /\ \E l \in DOMAIN q : rest[k] = q[l]
           /\ \A j \in DOMAIN rest : rest[j].page_id = rest[k].page_id => j = k
           /\ \A i \in DOMAIN a : a[i] # rest[k].page_id
    BY <1>9, <1>14
  <2>2. pending_free_pages' = rest /\ pending_free_pages = q BY <1>7 DEF q
  <2> QED BY <2>1, <2>2
<1>18. pending_free_pages' \in Seq(FreedPages)
  <2>1. rest \in Seq(FreedPages) BY <1>10
  <2>2. pending_free_pages' = rest BY <1>7 DEF q
  <2> QED BY <2>1, <2>2
<1> QED BY <1>15, <1>16, <1>17, <1>18

\* The transaction's pages over those of the file, and the pages after an insert.
LEMMA Overlay ==
    ASSUME TypeOK, NEW dirty, dirty \in [DOMAIN dirty -> Content], DOMAIN dirty \in SUBSET Page
    PROVE  LET both == Over(dirty, writer.dirty)
           IN  /\ DOMAIN both = DOMAIN dirty \cup Dirty
               /\ DOMAIN both \in SUBSET Page /\ both \in [DOMAIN both -> Content]
               /\ \A p \in DOMAIN dirty : both[p] = dirty[p]
               /\ \A p \in Dirty \ DOMAIN dirty : both[p] = writer.dirty[p]
<1> DEFINE both == Over(dirty, writer.dirty)
<1>1. Dirty \in SUBSET Page /\ writer.dirty \in [Dirty -> Content] BY Types
<1>2. both = [p \in DOMAIN dirty \cup Dirty |->
                IF p \in DOMAIN dirty THEN dirty[p] ELSE writer.dirty[p]]
  BY DEF Over, Dirty
<1>3. DOMAIN both = DOMAIN dirty \cup Dirty BY <1>2
<1>4. \A p \in DOMAIN both : both[p] \in Content BY <1>1, <1>2
<1> HIDE DEF both
<1> QED BY <1>1, <1>2, <1>3, <1>4 DEF both

\* The file gets longer by whole batches.
LEMMA Preallocated ==
    ASSUME TypeOK, NEW next \in Nat
    PROVE  preallocate(next) \in Nat
<1>1. PICK length \in Nat : length = file.length BY Types
<1>2. PICK batch \in Nat \ {0} : batch = Batch BY StoreAssumption
<1>3. preallocate(next) = IF next <= length THEN length
                          ELSE length + batch * ((next - length + batch - 1) \div batch)
  BY <1>1, <1>2 DEF preallocate
<1>4. CASE next <= length BY <1>3, <1>4
<1>5. CASE ~(next <= length)
  <2>1. PICK more \in Nat : more = next - length + batch - 1 BY <1>5
  <2>2. more \div batch \in Nat OBVIOUS
  <2>3. PICK count \in Nat : count = more \div batch BY <2>2
  <2>4. length + batch * count \in Nat OBVIOUS
  <2> QED BY <1>3, <1>5, <2>1, <2>3, <2>4
<1> QED BY <1>4, <1>5

\* What an insert leaves is what it should be: types.
LEMMA GraftTypes ==
    ASSUME StoreInv, PreemptedBegin = FALSE, WriterIn("open"), NEW old, NEW a, NEW dirty,
           NEW root, NEW seen, Modify(old, a, dirty, root), Grafts(old, a, dirty, root),
           cache' = CacheAfter(old, seen, a),
           \A i \in DOMAIN old : seen[old[i]] = file.pages[old[i]]
    PROVE  TypeOK'
<1> DEFINE both == Over(dirty, writer.dirty)
<1>1. TypeOK BY DEF StoreInv
<1>2. DOMAIN dirty \in SUBSET Page /\ root \in Page
  <2>1. a \in Seq(Page) BY GraftsArePlanted DEF Grafts
  <2>2. \A i \in DOMAIN a : a[i] \in Page
    <3>1. PICK s \in Seq(Page) : s = a BY <2>1
    <3>2. \A i \in DOMAIN s : s[i] \in Page BY LenProperties
    <3> QED BY <3>1, <3>2
  <2>3. Dirty \in SUBSET Page BY <1>1, Types
  <2> QED BY <2>2, <2>3 DEF Grafts
<1>3. DOMAIN both \in SUBSET Page /\ both \in [DOMAIN both -> Content]
  <2>1. dirty \in [DOMAIN dirty -> Content] BY DEF Grafts
  <2> QED BY <1>1, <1>2, <2>1, Overlay
<1>4. /\ next_page_id' \in next_page_id..MaxPages /\ pending_free_pages' \in Seq(FreedPages)
  BY GraftsArePlanted DEF Grafts
<1>5. next_page_id' \in 2..MaxPages /\ next_page_id' \in Nat
  <2>1. next_page_id \in 2..MaxPages /\ MaxPages \in Nat BY <1>1, Types
  <2> QED BY <1>4, <2>1
<1>6. file' \in Files
  <2>1. preallocate(next_page_id') \in Nat BY <1>1, <1>5, Preallocated
  <2>2. file' = [file EXCEPT !.length = preallocate(next_page_id')] BY DEF Modify
  <2>3. file \in Files BY <1>1 DEF TypeOK
  <2> QED BY <2>1, <2>2, <2>3 DEF Files
<1>7. Contents(Over(both, file.pages), root) \in Maps
  <2>1. WellFormed(root, dirty[root], next_page_id')
        /\ Held(Over(both, file.pages), root, dirty[root])
    BY DEF Grafts
  <2> HIDE DEF both
  <2> QED BY <1>5, <2>1, TreeIsRead
<1>8. writer.freed \o old \in Seq(Page)
  <2>1. writer.freed \in Seq(Page) BY <1>1, Types
  <2>2. old \in Seq(Page) BY DEF Grafts
  <2> QED BY <2>1, <2>2, ConcatProperties
<1>9. dirty[root] \in Content BY DEF Grafts
<1>10. writer' = [writer EXCEPT !.dirty = both, !.freed = writer.freed \o old,
                                !.root = root, !.sum = dirty[root],
                                !.holds = Contents(Over(both, file.pages), root)]
  BY DEF Modify, checksum_page
<1> HIDE DEF both
<1>11. /\ writer' \in [phase : {"none", "open", "writing", "syncing", "publishing"},
                      tx : 0..MaxTx, root : Page \cup {0}, sum : Content,
                      dirty : [DOMAIN both -> Content],
                      freed : Seq(Page), todo : SUBSET Page, holds : Maps]
       /\ writer'.dirty = both
  <2>1. writer \in [phase : {"none", "open", "writing", "syncing", "publishing"},
                   tx : 0..MaxTx, root : Page \cup {0}, sum : Content,
                   dirty : [DOMAIN writer.dirty -> Content],
                   freed : Seq(Page), todo : SUBSET Page, holds : Maps]
    BY <1>1 DEF TypeOK
  <2> QED BY <1>2, <1>3, <1>7, <1>8, <1>9, <1>10, <2>1
<1>12. cache' \in [Page -> Content \cup {None}]
  <2>1. cache \in [Page -> Content \cup {None}] /\ file.pages \in [Page -> Content]
    BY <1>1, Types DEF TypeOK
  <2>2. \A p \in Range(old) : p \in Page => seen[p] \in Content
    BY <2>1 DEF Range
  <2> QED BY <2>1, <2>2 DEF CacheAfter
<1>13. UNCHANGED <<synced, written, status, header, active_readers, reader>> BY DEF Modify
<1> QED BY <1>1, <1>3, <1>4, <1>5, <1>6, <1>11, <1>12, <1>13 DEF TypeOK, FreedPages

\* What an insert leaves is what it should be.
LEMMA Grafted ==
    ASSUME StoreInv, PreemptedBegin = FALSE, WriterIn("open"), NEW old, NEW a, NEW dirty,
           NEW root, NEW seen, Modify(old, a, dirty, root), Grafts(old, a, dirty, root),
           cache' = CacheAfter(old, seen, a),
           \A i \in DOMAIN old : seen[old[i]] = file.pages[old[i]]
    PROVE  StoreInv'
<1> DEFINE both == Over(dirty, writer.dirty)
<1>1. TypeOK' BY GraftTypes
<1>2. /\ TypeOK /\ SlotsAreTrees /\ CurrentIsHeld /\ PagesAreApart /\ DraftIsHeld
      /\ CacheIsCurrent /\ ReadersAreTracked /\ SnapshotsAreKept
  BY DEF StoreInv
<1>3. writer.phase = "open" BY DEF WriterIn
<1>4. status = "up" BY <1>2, <1>3 DEF DraftIsHeld
<1>5. UNCHANGED <<synced, written, status, header, active_readers, reader>> BY DEF Modify
<1>6. file'.pages = file.pages /\ file'.header = file.header
  <2>1. file' = [file EXCEPT !.length = preallocate(next_page_id')] BY DEF Modify
  <2> QED BY <1>2, <2>1, Types
<1>7. /\ writer'.phase = "open" /\ writer'.tx = writer.tx /\ writer'.todo = writer.todo
      /\ writer'.dirty = both /\ writer'.freed = writer.freed \o old
      /\ writer'.root = root /\ writer'.sum = dirty[root]
  <2>1. writer' = [writer EXCEPT !.dirty = both, !.freed = writer.freed \o old,
                                 !.root = root, !.sum = dirty[root],
                                 !.holds = Contents(Over(both, file.pages), root)]
    BY DEF Modify, checksum_page
  <2>2. writer \in [phase : {"none", "open", "writing", "syncing", "publishing"},
                   tx : 0..MaxTx, root : Page \cup {0}, sum : Content,
                   dirty : [DOMAIN writer.dirty -> Content],
                   freed : Seq(Page), todo : SUBSET Page, holds : Maps]
    BY <1>2 DEF TypeOK
  <2> HIDE DEF both
  <2> QED BY <1>3, <2>1, <2>2
<1>8. /\ a \in Seq(Page) /\ Len(a) \in Nat /\ DOMAIN a = 1..Len(a)
      /\ \A i, j \in DOMAIN a : a[i] = a[j] => i = j
      /\ next_page_id' \in next_page_id..MaxPages
      /\ \A i \in DOMAIN a :
            /\ a[i] < next_page_id' /\ a[i] \notin CurrentTree /\ a[i] \notin Dirty
            /\ \A r \in Reader : reader[r].phase # "idle" => a[i] \notin Snapshot(r)
      /\ pending_free_pages' \in Seq(FreedPages)
      /\ \A k \in DOMAIN pending_free_pages' :
            /\ \E l \in DOMAIN pending_free_pages :
                  pending_free_pages'[k] = pending_free_pages[l]
            /\ \A j \in DOMAIN pending_free_pages' :
                  pending_free_pages'[j].page_id = pending_free_pages'[k].page_id => j = k
            /\ \A i \in DOMAIN a : a[i] # pending_free_pages'[k].page_id
  BY GraftsArePlanted DEF Grafts
<1>9. Dirty' = DOMAIN dirty \cup Dirty /\ \A p \in Dirty' : p \in Dirty \/ \E i \in DOMAIN a : p = a[i]
  <2>1. Dirty' = DOMAIN both BY <1>7 DEF Dirty
  <2>2. DOMAIN both = DOMAIN dirty \cup Dirty BY DEF Over, Dirty
  <2> QED BY <2>1, <2>2 DEF Grafts
<1>10. SlotsAreTrees' BY <1>2, <1>5, <1>6 DEF SlotsAreTrees, SlotOK
<1>11. Current' = Current /\ CurrentTree' = CurrentTree
  BY <1>5 DEF Current, CurrentTree, active_slot
<1>12. next_page_id \in Nat /\ next_page_id' \in Nat /\ next_page_id <= next_page_id'
       /\ MaxPages \in Nat
  <2>1. next_page_id \in Nat /\ MaxPages \in Nat BY <1>2, Types
  <2> QED BY <1>8, <2>1
<1>13. CurrentIsHeld'
  <2>1. Current.next_page_id \in 2..MaxPages BY CurrentFacts
  <2>2. Current.next_page_id <= next_page_id BY <1>2, <1>4 DEF CurrentIsHeld
  <2>3. Current.next_page_id <= next_page_id' BY <1>12, <2>1, <2>2
  <2> QED BY <1>2, <1>5, <1>6, <1>11, <2>3 DEF CurrentIsHeld
<1>14. \A p \in Dirty' : p < next_page_id' /\ p \notin CurrentTree
  <2>1. \A p \in Dirty : p \in Page /\ p < next_page_id /\ p \notin CurrentTree
    BY <1>2, Types DEF PagesAreApart
  <2>2. \A p \in Page : p < next_page_id => p < next_page_id' BY <1>12 DEF Page
  <2> QED BY <1>8, <1>9, <2>1, <2>2
<1>15. PagesAreApart'
  <2>1. ASSUME NEW k \in DOMAIN pending_free_pages'
        PROVE  LET p == pending_free_pages'[k].page_id
               IN  p < next_page_id' /\ p \notin CurrentTree /\ p \notin Dirty'
    <3>1. PICK l \in DOMAIN pending_free_pages :
             pending_free_pages'[k] = pending_free_pages[l]
      BY <1>8
    <3>2. PICK p : p = pending_free_pages[l].page_id OBVIOUS
    <3>3. p \in Free BY <3>2 DEF Free
    <3>4. p < next_page_id /\ p \notin CurrentTree /\ p \notin Dirty
      BY <1>2, <3>3 DEF PagesAreApart
    <3>5. \A i \in DOMAIN a : a[i] # p BY <1>8, <3>1, <3>2
    <3>6. p \in Page
      <4>1. pending_free_pages \in Seq(FreedPages) BY <1>2 DEF TypeOK, FreedPages
      <4>2. pending_free_pages[l] \in FreedPages BY <4>1, LenProperties
      <4> QED BY <3>2, <4>2 DEF FreedPages
    <3>7. p < next_page_id' BY <1>12, <3>4, <3>6 DEF Page
    <3> QED BY <1>9, <3>1, <3>2, <3>4, <3>5, <3>7
  <2>2. \A p \in Free' : p < next_page_id' /\ p \notin CurrentTree' /\ p \notin Dirty'
    BY <1>11, <2>1 DEF Free
  <2>3. \A i, j \in DOMAIN pending_free_pages' :
           pending_free_pages'[i].page_id = pending_free_pages'[j].page_id => i = j
    BY <1>8
  <2> QED BY <1>11, <1>14, <2>2, <2>3 DEF PagesAreApart
<1>16. /\ old \in Seq(Page)
       /\ \A i \in DOMAIN old :
             /\ old[i] \in Draft /\ old[i] \notin Dirty
             /\ \A j \in DOMAIN old : old[j] = old[i] => j = i
       /\ \A p \in Tree(root, dirty[root]) :
             p \in DOMAIN dirty \/ (p \in Draft /\ \A i \in DOMAIN old : old[i] # p)
  BY DEF Grafts
<1>17. Draft' = Tree(root, dirty[root]) BY <1>7 DEF Draft
<1>18. \A p \in Draft : p \in CurrentTree \/ p \in Dirty
  BY <1>2, <1>3 DEF DraftIsHeld
<1>19. \A i \in DOMAIN writer'.freed :
          /\ writer'.freed[i] \in CurrentTree' /\ writer'.freed[i] \notin Draft'
          /\ \A j \in DOMAIN writer'.freed : writer'.freed[j] = writer'.freed[i] => j = i
  <2> DEFINE f == writer.freed
  <2>1. /\ \A p \in CurrentTree : p \in DOMAIN dirty => FALSE
    BY <1>9, <1>11, <1>14
  <2>2. \A i \in DOMAIN f :
           /\ f[i] \in CurrentTree /\ f[i] \notin Draft
           /\ \A j \in DOMAIN f : f[j] = f[i] => j = i
    BY <1>2, <1>3 DEF DraftIsHeld
  <2>3. f \in Seq(Page) /\ Len(f) \in Nat /\ DOMAIN f = 1..Len(f)
    BY <1>2, Types, LenProperties
  <2>4. Len(old) \in Nat /\ DOMAIN old = 1..Len(old) BY <1>16, LenProperties
  <2> HIDE DEF f
  <2>5. /\ Len(f \o old) = Len(f) + Len(old)
        /\ \A i \in 1..(Len(f) + Len(old)) :
              (f \o old)[i] = IF i <= Len(f) THEN f[i] ELSE old[i - Len(f)]
    BY <1>16, <2>3, ConcatProperties
  <2>6. PICK all \in Seq(Page) : all = f \o old BY <1>16, <2>3, ConcatProperties
  <2>7. DOMAIN all = 1..(Len(f) + Len(old)) BY <2>5, <2>6, LenProperties
  <2>8. \A i \in DOMAIN all : \/ i \in DOMAIN f /\ all[i] = f[i]
                              \/ ~(i <= Len(f)) /\ i - Len(f) \in DOMAIN old
                                 /\ all[i] = old[i - Len(f)]
    BY <2>3, <2>4, <2>5, <2>6, <2>7
  <2>9. \A i \in DOMAIN all : all[i] \in CurrentTree /\ all[i] \notin Draft'
    <3>1. \A i \in DOMAIN f : f[i] \in CurrentTree /\ f[i] \notin Draft'
      BY <1>16, <1>17, <2>1, <2>2
    <3>2. \A i \in DOMAIN old : old[i] \in CurrentTree /\ old[i] \notin Draft'
      BY <1>16, <1>17, <1>18, <2>1
    <3> QED BY <2>8, <3>1, <3>2
  <2>10. ASSUME NEW i \in DOMAIN all, NEW j \in DOMAIN all, all[j] = all[i] PROVE j = i
    <3>1. i \in Nat /\ j \in Nat BY <2>3, <2>4, <2>7
    <3>2. CASE i \in DOMAIN f /\ all[i] = f[i]
      <4>1. CASE j \in DOMAIN f /\ all[j] = f[j] BY <2>2, <2>10, <3>2, <4>1
      <4>2. CASE j - Len(f) \in DOMAIN old /\ all[j] = old[j - Len(f)]
        BY <1>16, <2>2, <2>10, <3>2, <4>2
      <4> QED BY <2>8, <4>1, <4>2
    <3>3. CASE i - Len(f) \in DOMAIN old /\ all[i] = old[i - Len(f)]
      <4>1. CASE j \in DOMAIN f /\ all[j] = f[j] BY <1>16, <2>2, <2>10, <3>3, <4>1
      <4>2. CASE j - Len(f) \in DOMAIN old /\ all[j] = old[j - Len(f)]
        <5>1. j - Len(f) = i - Len(f) BY <1>16, <2>10, <3>3, <4>2
        <5> QED BY <2>3, <3>1, <5>1
      <4> QED BY <2>8, <4>1, <4>2
    <3> QED BY <2>8, <3>2, <3>3
  <2> QED BY <1>7, <1>11, <2>6, <2>9, <2>10 DEF f
<1>20. DraftIsHeld'
  <2>1. writer.tx = Current.transaction_id + 1 BY <1>2, <1>3 DEF DraftIsHeld
  <2>2. WellFormed(root, dirty[root], next_page_id') /\ Held(Over(both, file.pages), root, dirty[root])
    BY DEF Grafts
  <2>3. \A p \in Draft' : p \in CurrentTree' \/ p \in Dirty'
    BY <1>9, <1>11, <1>16, <1>17, <1>18
  <2>4. writer'.phase # "none" BY <1>7
  <2>5. writer'.tx = Current'.transaction_id + 1 BY <1>7, <1>11, <2>1
  <2>6. status' = "up" BY <1>4, <1>5
  <2>7. /\ WellFormed(writer'.root, writer'.sum, next_page_id')
        /\ Held(Over(writer'.dirty, file'.pages), writer'.root, writer'.sum)
    BY <1>6, <1>7, <2>2
  <2> QED BY <1>19, <2>3, <2>4, <2>5, <2>6, <2>7 DEF DraftIsHeld
<1>21. DirtyIsWritten'
  <2>1. writer.todo \subseteq Dirty BY DEF StoreInv, DirtyIsWritten
  <2> QED BY <1>7, <1>9, <2>1 DEF DirtyIsWritten
<1>22. CacheIsCurrent'
  <2>1. \A p \in Range(old) : seen[p] = file.pages[p] BY DEF Range
  <2>2. \A p \in Page : cache'[p] # None => cache'[p] = file.pages[p]
    BY <1>2, <2>1 DEF CacheAfter, CacheIsCurrent
  <2> QED BY <1>6, <2>2 DEF CacheIsCurrent
<1>23. ReadersAreTracked' BY <1>2, <1>5 DEF ReadersAreTracked, Registered
<1>24. ASSUME NEW r \in Reader, reader'[r].phase # "idle"
       PROVE  SnapshotIsKept(r)' /\ ReaderIsAt(r)'
  <2>1. SnapshotIsKept(r) /\ ReaderIsAt(r) BY <1>5, <1>24, SnapshotFacts
  <2>2. Snapshot(r)' = Snapshot(r) BY <1>5, <1>6 DEF Snapshot
  <2>3. ReaderIsAt(r)' BY <1>5, <1>6, <2>1 DEF ReaderIsAt
  <2>4. WellFormed(reader[r].root, file.pages[reader[r].root], next_page_id')
    BY <1>12, <2>1, TreeIsBelow DEF SnapshotIsKept
  <2>5. \A p \in Snapshot(r) : p \notin Dirty'
    BY <1>5, <1>8, <1>9, <1>24, <2>1 DEF SnapshotIsKept
  <2>6. \A i \in DOMAIN pending_free_pages' :
           pending_free_pages'[i].page_id \in Snapshot(r)
             => pending_free_pages'[i].transaction_id > reader[r].tx
    BY <1>8, <2>1 DEF SnapshotIsKept
  <2>7. SnapshotIsKept(r)'
    BY <1>5, <1>6, <1>11, <2>1, <2>2, <2>4, <2>5, <2>6 DEF SnapshotIsKept
  <2> QED BY <2>3, <2>7
<1>25. SnapshotsAreKept' BY <1>24 DEF SnapshotsAreKept
<1> QED
  BY <1>1, <1>10, <1>13, <1>15, <1>20, <1>21, <1>22, <1>23, <1>25 DEF StoreInv
-----------------------------------------------------------------------------
(* An insert grafts. *)

\* What a transaction has: a tree of dirty pages and of pages of the current tree.
LEMMA DraftFacts ==
    ASSUME StoreInv, writer.phase # "none"
    PROVE  /\ status = "up" /\ writer.tx = Current.transaction_id + 1
           /\ WellFormed(writer.root, writer.sum, next_page_id)
           /\ Held(Over(writer.dirty, file.pages), writer.root, writer.sum)
           /\ writer.root \in Draft
           /\ \A p \in Draft : /\ p \in CurrentTree \/ p \in Dirty
                               /\ p \in Page /\ p < next_page_id
<1>1. /\ status = "up" /\ writer.tx = Current.transaction_id + 1
      /\ WellFormed(writer.root, writer.sum, next_page_id)
      /\ Held(Over(writer.dirty, file.pages), writer.root, writer.sum)
      /\ \A p \in Draft : p \in CurrentTree \/ p \in Dirty
  BY DEF StoreInv, DraftIsHeld
<1>2. next_page_id \in 2..MaxPages /\ MaxPages \in Nat /\ next_page_id \in Nat
  BY Types DEF StoreInv
<1>3. writer.root \in Draft /\ \A p \in Draft : p \in 1..(next_page_id - 1)
  BY <1>1, <1>2, TreeIsBelow DEF Draft
<1>4. \A p \in 1..(next_page_id - 1) : p \in Page /\ p < next_page_id
  BY <1>2 DEF Page
<1> QED BY <1>1, <1>3, <1>4

\* What an insert reads is the transaction's tree: its own copy, or the file's page,
\* cached or not.
LEMMA SeesDraft ==
    ASSUME StoreInv, writer.phase # "none", NEW p \in Draft, NEW content \in Sees(p)
    PROVE  /\ content = Over(writer.dirty, file.pages)[p]
           /\ p \notin Dirty => content = file.pages[p]
<1>1. p \in Page BY DraftFacts
<1>2. DOMAIN file.pages = Page BY Types DEF StoreInv
<1>3. CASE p \in Dirty BY <1>1, <1>2, <1>3 DEF Sees, IsDirty, Dirty, Over
<1>4. CASE p \notin Dirty
  <2>1. content = file.pages[p]
    BY <1>1, <1>4 DEF Sees, IsDirty, Dirty, Reads, StoreInv, CacheIsCurrent
  <2> QED BY <1>1, <1>2, <1>4, <2>1 DEF Over, Dirty
<1> QED BY <1>3, <1>4

\* An allocation of n pages has n pages.
LEMMA AllocatedLength ==
    ASSUME NEW n \in Nat
    PROVE  Len(allocate(n)) = n /\ DOMAIN allocate(n) = 1..n
BY DEF allocate

\* The pages of the transaction after an insert: own ones and new ones.
LEMMA OwnPages ==
    ASSUME StoreInv, PreemptedBegin = FALSE, WriterIn("open"), NEW old, NEW a, NEW dirty,
           NEW root, Modify(old, a, dirty, root), \E n \in Nat : a = allocate(n)
    PROVE  /\ next_page_id' \in Nat /\ next_page_id <= next_page_id'
           /\ \A p \in Dirty : p \in 1..(next_page_id' - 1)
           /\ \A i \in DOMAIN a : a[i] \in 1..(next_page_id' - 1) /\ a[i] \notin Dirty
                                  /\ a[i] \notin Draft
           /\ \A i, j \in DOMAIN a : a[i] = a[j] => i = j
<1>1. /\ a \in Seq(Page) /\ next_page_id' \in next_page_id..MaxPages
      /\ \A i, j \in DOMAIN a : a[i] = a[j] => i = j
      /\ \A i \in DOMAIN a : a[i] < next_page_id' /\ a[i] \notin CurrentTree
                             /\ a[i] \notin Dirty
  BY GraftsArePlanted
<1>2. next_page_id \in Nat /\ MaxPages \in Nat BY Types DEF StoreInv
<1>3. next_page_id' \in Nat /\ next_page_id <= next_page_id' BY <1>1, <1>2
<1>4. \A p \in Dirty : p \in Page /\ p < next_page_id BY Types DEF StoreInv, PagesAreApart
<1>5. \A p \in Dirty : p \in 1..(next_page_id' - 1) BY <1>2, <1>3, <1>4 DEF Page
<1>6. \A i \in DOMAIN a : a[i] \in Page
  <2>1. PICK s \in Seq(Page) : s = a BY <1>1
  <2>2. \A i \in DOMAIN s : s[i] \in Page BY LenProperties
  <2> QED BY <2>1, <2>2
<1>7. \A i \in DOMAIN a : a[i] \in 1..(next_page_id' - 1) BY <1>1, <1>3, <1>6 DEF Page
<1>8. \A i \in DOMAIN a : a[i] \notin Draft
  <2>1. writer.phase # "none" BY DEF WriterIn
  <2> QED BY <1>1, <2>1, DraftFacts
<1> QED BY <1>1, <1>3, <1>5, <1>7, <1>8

\* A branch over pages of the transaction and pages that were in its tree before.
LEMMA BranchGrafts ==
    ASSUME StoreInv, PreemptedBegin = FALSE, WriterIn("open"), NEW old, NEW a, NEW dirty,
           NEW root \in DOMAIN dirty, Modify(old, a, dirty, root), \E n \in Nat : a = allocate(n),
           old \in Seq(Page),
           \A i \in DOMAIN old :
              /\ old[i] \in Draft /\ old[i] \notin Dirty
              /\ \A j \in DOMAIN old : old[j] = old[i] => j = i,
           dirty \in [DOMAIN dirty -> Content],
           \A p \in DOMAIN dirty : p \in Dirty \/ \E i \in DOMAIN a : p = a[i],
           dirty[root] \in Branches,
           \A i \in 1..Len(dirty[root].children) :
              LET c == dirty[root].children[i]
              IN  /\ \/ c.page \in DOMAIN dirty \ {root} /\ c.sum = dirty[c.page]
                     \/ /\ c.page \in Draft /\ c.page \notin DOMAIN dirty
                        /\ \A j \in DOMAIN old : old[j] # c.page
                        /\ c.sum = Over(writer.dirty, file.pages)[c.page]
                  /\ \A j \in 1..Len(dirty[root].children) :
                        dirty[root].children[j].page = c.page => j = i
    PROVE  Grafts(old, a, dirty, root)
<1> DEFINE sum == dirty[root]
           before == Over(writer.dirty, file.pages)
           after == Over(Over(dirty, writer.dirty), file.pages)
<1>1. /\ next_page_id' \in Nat /\ next_page_id <= next_page_id'
      /\ \A p \in DOMAIN dirty : p \in 1..(next_page_id' - 1)
  <2>1. /\ next_page_id' \in Nat /\ next_page_id <= next_page_id'
        /\ \A p \in Dirty : p \in 1..(next_page_id' - 1)
        /\ \A i \in DOMAIN a : a[i] \in 1..(next_page_id' - 1)
    BY OwnPages
  <2> QED BY <2>1
<1>2. \A p \in Draft : p \in 1..(next_page_id' - 1) /\ p \in Page
  <2>1. writer.phase # "none" BY DEF WriterIn
  <2>2. \A p \in Draft : p \in Page /\ p < next_page_id BY <2>1, DraftFacts
  <2>3. next_page_id \in Nat BY Types DEF StoreInv
  <2>4. \A p \in Page : p < next_page_id => p \in 1..(next_page_id' - 1)
    BY <1>1, <2>3 DEF Page
  <2> QED BY <2>2, <2>4
<1>3. \A p \in DOMAIN dirty : after[p] = dirty[p] BY DEF Over
<1>4. \A p \in Draft : p \notin DOMAIN dirty => after[p] = before[p]
  <2>1. DOMAIN file.pages = Page BY Types DEF StoreInv
  <2> QED BY <1>2, <2>1 DEF Over
<1> HIDE DEF after, before
<1>5. \A i \in 1..Len(sum.children) :
         /\ sum.children[i].page \in 1..(next_page_id' - 1)
         /\ sum.children[i].page # root
         /\ after[sum.children[i].page] = sum.children[i].sum
         /\ \/ sum.children[i].page \in DOMAIN dirty
            \/ /\ sum.children[i].page \in Draft
               /\ \A j \in DOMAIN old : old[j] # sum.children[i].page
  BY <1>1, <1>2, <1>3, <1>4 DEF before
<1>6. WellFormed(root, sum, next_page_id')
  <2>1. root \in 1..(next_page_id' - 1) BY <1>1
  <2>2. \A i \in 1..Len(sum.children) : \A j \in 1..Len(sum.children) :
           sum.children[j].page = sum.children[i].page => j = i
    OBVIOUS
  <2>3. /\ sum \in Branches /\ ChildrenOf(sum) = sum.children
        /\ DOMAIN sum.children = 1..Len(sum.children)
    BY BranchFacts
  <2> HIDE DEF sum
  <2> QED BY <1>5, <2>1, <2>2, <2>3 DEF WellFormed
<1>7. Held(after, root, sum)
  <2>1. after[root] = sum BY <1>3
  <2>2. /\ sum \in Branches /\ ChildrenOf(sum) = sum.children
        /\ DOMAIN sum.children = 1..Len(sum.children)
    BY BranchFacts
  <2> HIDE DEF sum
  <2> QED BY <1>5, <2>1, <2>2 DEF Held
<1>8. \A p \in Tree(root, sum) :
         p \in DOMAIN dirty \/ (p \in Draft /\ \A i \in DOMAIN old : old[i] # p)
  <2>2. sum \in Branches /\ root \in DOMAIN dirty OBVIOUS
  <2> HIDE DEF sum
  <2> QED BY <1>5, <2>2, TreeFacts
<1> QED BY <1>6, <1>7, <1>8 DEF Grafts, after

\* What cow_page copies is of the tree and not the transaction's.
LEMMA CopiedPages ==
    ASSUME StoreInv, writer.phase # "none", NEW p \in Draft
    PROVE  /\ Copied(p) \in Seq(Page) /\ Len(Copied(p)) \in Nat
           /\ DOMAIN Copied(p) = 1..Len(Copied(p))
           /\ IF p \in Dirty THEN Len(Copied(p)) = 0 ELSE Len(Copied(p)) = 1
           /\ \A i \in DOMAIN Copied(p) : Copied(p)[i] = p /\ p \notin Dirty /\ i = 1
<1>1. p \in Page BY DraftFacts
<1>2. CASE p \in Dirty
  <2>1. Copied(p) = <<>> BY <1>2 DEF Copied, IsDirty, Dirty
  <2> QED BY <1>2, <2>1
<1>3. CASE p \notin Dirty
  <2>1. Copied(p) = <<p>> BY <1>3 DEF Copied, IsDirty, Dirty
  <2>2. <<p>> \in Seq(Page) /\ Len(<<p>>) = 1 /\ <<p>>[1] = p /\ DOMAIN <<p>> = 1..1 BY <1>1
  <2> QED BY <1>3, <2>1, <2>2
<1> QED BY <1>2, <1>3

\* What the inserts of one entry may leave in the root.
Grown(sum, key, value, new) ==
    LET whole(leaf) == InsertEntry(leaf, key, value)
    IN  \/ /\ sum \in Leaves
           /\ \/ new = Leaf(whole(sum))
              \/ /\ ~fits(sum)
                 /\ \E left, right \in Page :
                       new = new_root(left, Leaf(LeftEntries(whole(sum))),
                                      SeparatorKey(whole(sum)),
                                      right, Leaf(RightEntries(whole(sum))))
        \/ /\ sum \in Branches
           /\ \E x \in 1..Len(sum.children), page \in Page :
                 LET leaf == sum.children[x].sum
                 IN  /\ x = child_index_for_key(sum, key)
                     /\ \/ new = set_child_at_index(sum, x, page, Leaf(whole(leaf)))
                        \/ /\ ~fits(leaf) /\ branch_fits(sum)
                           /\ \E right \in Page :
                                 new = InsertChild(
                                         set_child_at_index(sum, x, page,
                                                            Leaf(LeftEntries(whole(leaf)))),
                                         SeparatorKey(whole(leaf)), right,
                                         Leaf(RightEntries(whole(leaf))))

\* After a change the draft is named by its new root.
LEMMA ModifiedRoot ==
    ASSUME TypeOK, NEW old, NEW a, NEW dirty, NEW root, Modify(old, a, dirty, root)
    PROVE  writer'.sum = dirty[root] /\ writer'.root = root /\ writer'.phase = writer.phase
<1>1. writer \in [phase : {"none", "open", "writing", "syncing", "publishing"},
                  tx : 0..MaxTx, root : Page \cup {0}, sum : Content,
                  dirty : [DOMAIN writer.dirty -> Content],
                  freed : Seq(Page), todo : SUBSET Page, holds : Maps]
  BY DEF TypeOK
<1> QED BY <1>1 DEF Modify, checksum_page

\* The tree is one leaf.
LEMMA RootLeafGrafted ==
    ASSUME StoreInv, PreemptedBegin = FALSE, WriterIn("open"), NEW key \in Key,
           NEW value \in Value, insert_root_leaf(key, value)
    PROVE  StoreInv' /\ Grown(writer.sum, key, value, writer'.sum)
<1> DEFINE old == Copied(writer.root)
           Whole(c) == InsertEntry(c, key, value)
           a(c) == allocate(Len(old) + (IF fits(c) THEN 0 ELSE 2))
           page(c) == IF IsDirty(writer.root) THEN writer.root ELSE a(c)[1]
           right(c) == a(c)[Len(a(c)) - 1]
           top(c) == a(c)[Len(a(c))]
           left_leaf(c) == Leaf(LeftEntries(Whole(c)))
           right_leaf(c) == Leaf(RightEntries(Whole(c)))
           split(c) == new_root(page(c), checksum_page(left_leaf(c)), SeparatorKey(Whole(c)),
                                right(c), checksum_page(right_leaf(c)))
           One(c) == [p \in {page(c)} |-> Leaf(Whole(c))]
           Two(c) == [p \in {page(c), right(c), top(c)} |->
                        CASE p = page(c) -> left_leaf(c)
                          [] p = right(c) -> right_leaf(c)
                          [] OTHER -> split(c)]
           seen(c) == [p \in {writer.root} |-> c]
<1>1. PICK c \in Sees(writer.root) :
         /\ c.kind = "leaf" /\ cache' = CacheAfter(old, seen(c), a(c))
         /\ \/ fits(c) /\ Modify(old, a(c), One(c), page(c))
            \/ ~fits(c) /\ Modify(old, a(c), Two(c), top(c))
  BY DEF insert_root_leaf
<1>2. writer.phase # "none" BY DEF WriterIn
<1>3. writer.root \in Draft BY <1>2, DraftFacts
<1>4. c = writer.sum /\ (writer.root \notin Dirty => c = file.pages[writer.root])
  <2>1. /\ c = Over(writer.dirty, file.pages)[writer.root]
        /\ writer.root \notin Dirty => c = file.pages[writer.root]
    BY <1>2, <1>3, SeesDraft
  <2> QED BY <1>2, <2>1, DraftFacts DEF Held
<1>5. c \in Leaves
  <2>1. c \in Leaves \cup Branches BY <1>2, <1>4, DraftFacts DEF WellFormed
  <2> QED BY <1>1, <2>1, BranchFacts
<1>6. /\ Leaf(Whole(c)) \in Leaves /\ SeparatorKey(Whole(c)) \in Key
      /\ left_leaf(c) \in Leaves /\ right_leaf(c) \in Leaves
  BY <1>5, LeavesSplit
<1>7. /\ old \in Seq(Page) /\ Len(old) \in Nat /\ DOMAIN old = 1..Len(old)
      /\ IF writer.root \in Dirty THEN Len(old) = 0 ELSE Len(old) = 1
      /\ \A i \in DOMAIN old : old[i] = writer.root /\ writer.root \notin Dirty /\ i = 1
  BY <1>2, <1>3, CopiedPages
<1>8. \A i \in DOMAIN old :
         /\ old[i] \in Draft /\ old[i] \notin Dirty
         /\ \A j \in DOMAIN old : old[j] = old[i] => j = i
  BY <1>3, <1>7
<1>9. \A i \in DOMAIN old : seen(c)[old[i]] = file.pages[old[i]] BY <1>4, <1>7
<1>10. page(c) = IF writer.root \in Dirty THEN writer.root ELSE a(c)[1] BY DEF IsDirty, Dirty
<1>11. CASE fits(c)
  <2> DEFINE n == Len(old)
  <2>1. a(c) = allocate(n) /\ n \in Nat BY <1>7, <1>11
  <2>2. DOMAIN a(c) = 1..n BY <2>1, AllocatedLength
  <2>3. PICK p : p = page(c) OBVIOUS
  <2>4. PICK all : all = a(c) OBVIOUS
  <2>5. p \in Dirty \/ \E i \in DOMAIN all : p = all[i] BY <1>7, <1>10, <2>2, <2>3, <2>4
  <2>6. PICK leaf \in Leaves : leaf = Leaf(Whole(c)) BY <1>6
  <2>7. PICK dirty : dirty = [q \in {p} |-> leaf] OBVIOUS
  <2>8. One(c) = dirty BY <2>3, <2>6, <2>7
  <2>9. Modify(old, all, dirty, p) /\ cache' = CacheAfter(old, seen(c), all)
    BY <1>1, <1>11, <2>3, <2>4, <2>8
  <2>10. \E m \in Nat : all = allocate(m) BY <2>1, <2>4
  <2> HIDE DEF a, page, One, old, seen
  <2>11. /\ next_page_id' \in Nat
         /\ \A q \in Dirty : q \in 1..(next_page_id' - 1)
         /\ \A i \in DOMAIN all : all[i] \in 1..(next_page_id' - 1)
    BY <2>9, <2>10, OwnPages
  <2>12. p \in 1..(next_page_id' - 1) BY <2>5, <2>11
  <2>13. DOMAIN dirty = {p} /\ dirty[p] = leaf BY <2>7
  <2>14. WellFormed(p, leaf, next_page_id') BY <2>12, TreeFacts
  <2>15. Tree(p, leaf) = {p} BY TreeFacts
  <2>16. Held(Over(Over(dirty, writer.dirty), file.pages), p, leaf)
    <3>1. Over(Over(dirty, writer.dirty), file.pages)[p] = leaf BY <2>13 DEF Over
    <3>2. ChildrenOf(leaf) = <<>> BY LeafFacts
    <3> QED BY <3>1, <3>2 DEF Held
  <2>17. dirty \in [DOMAIN dirty -> Content] BY <2>7, LeafFacts
  <2>18. Grafts(old, all, dirty, p)
    BY <1>7, <1>8, <2>5, <2>10, <2>13, <2>14, <2>15, <2>16, <2>17 DEF Grafts
  <2>19. StoreInv' BY <1>9, <2>9, <2>18, Grafted
  <2>20. writer'.sum = leaf BY <2>9, <2>13, ModifiedRoot DEF StoreInv
  <2>21. Grown(writer.sum, key, value, writer'.sum) BY <1>4, <1>5, <2>6, <2>20 DEF Grown
  <2> QED BY <2>19, <2>21
<1>12. CASE ~fits(c)
  <2> DEFINE n == Len(old) + 2
  <2>1. a(c) = allocate(n) /\ n \in Nat BY <1>7, <1>12
  <2>2. DOMAIN a(c) = 1..n /\ Len(a(c)) = n BY <2>1, AllocatedLength
  <2>3. PICK p, r, t : p = page(c) /\ r = right(c) /\ t = top(c) OBVIOUS
  <2>4. PICK all : all = a(c) OBVIOUS
  <2>5. r = all[n - 1] /\ t = all[n] /\ p = (IF writer.root \in Dirty THEN writer.root ELSE all[1])
    BY <1>10, <2>2, <2>3, <2>4
  <2>6. n - 1 \in DOMAIN all /\ n \in DOMAIN all
        /\ (writer.root \notin Dirty => 1 \in DOMAIN all /\ n - 1 # 1)
    <3>1. Len(old) \in Nat /\ (writer.root \notin Dirty => Len(old) = 1) BY <1>7
    <3> HIDE DEF old, a
    <3>2. PICK m \in Nat : m = Len(old) BY <3>1
    <3>3. n = m + 2 /\ (writer.root \notin Dirty => m = 1) BY <3>1, <3>2
    <3> HIDE DEF n
    <3>4. n \in Nat /\ n - 1 \in 1..n /\ n \in 1..n /\ 1 \in 1..n BY <3>3
    <3>5. m = 1 => n - 1 # 1 BY <3>3
    <3> QED BY <2>2, <2>4, <3>3, <3>4, <3>5
  <2>7. PICK left_sum \in Leaves : left_sum = left_leaf(c) BY <1>6
  <2>8. PICK right_sum \in Leaves : right_sum = right_leaf(c) BY <1>6
  <2>9. PICK sep \in Key : sep = SeparatorKey(Whole(c)) BY <1>6
  <2>10. PICK sum : sum = new_root(p, left_sum, sep, r, right_sum) OBVIOUS
  <2>11. PICK dirty : dirty = [q \in {p, r, t} |->
                                CASE q = p -> left_sum [] q = r -> right_sum [] OTHER -> sum]
    OBVIOUS
  <2>12. Two(c) = dirty
    BY <2>3, <2>7, <2>8, <2>9, <2>10, <2>11 DEF checksum_page
  <2>13. Modify(old, all, dirty, t) /\ cache' = CacheAfter(old, seen(c), all)
    BY <1>1, <1>12, <2>3, <2>4, <2>12
  <2>14. \E m \in Nat : all = allocate(m) BY <2>1, <2>4
  <2> HIDE DEF a, page, right, top, left_leaf, right_leaf, split, Two, old, seen
  <2>15. /\ next_page_id' \in Nat
         /\ \A q \in Dirty : q \in 1..(next_page_id' - 1)
         /\ \A i \in DOMAIN all : all[i] \in 1..(next_page_id' - 1) /\ all[i] \notin Dirty
         /\ \A i, j \in DOMAIN all : all[i] = all[j] => i = j
    BY <2>13, <2>14, OwnPages
  <2>16. p # r /\ p # t /\ r # t
    <3>1. n # n - 1 /\ n # 1 BY <1>7
    <3> HIDE DEF n
    <3> QED BY <2>5, <2>6, <2>15, <3>1
  <2>17. /\ p \in Dirty \/ \E i \in DOMAIN all : p = all[i]
         /\ \E i \in DOMAIN all : r = all[i]
         /\ \E i \in DOMAIN all : t = all[i]
    BY <2>5, <2>6
  <2>18. /\ DOMAIN dirty = {p, r, t}
         /\ dirty[p] = left_sum /\ dirty[r] = right_sum /\ dirty[t] = sum
    BY <2>11, <2>16
  <2>19. p \in Page /\ r \in Page
    <3>1. MaxPages \in Nat /\ Dirty \in SUBSET Page BY Types DEF StoreInv
    <3>2. all \in Seq(Page) BY <2>13, <2>14, GraftsArePlanted
    <3>3. PICK s \in Seq(Page) : s = all BY <3>2
    <3>4. \A i \in DOMAIN s : s[i] \in Page BY LenProperties
    <3> QED BY <2>17, <3>1, <3>3, <3>4
  <2>20. /\ sum \in Branches /\ Len(sum.children) = 2
         /\ sum.children[1].page = p /\ sum.children[1].sum = left_sum
         /\ sum.children[2].page = r /\ sum.children[2].sum = right_sum
    BY <2>10, <2>19, NewRoot
  <2>21. dirty \in [DOMAIN dirty -> Content]
    <3>1. left_sum \in Content /\ right_sum \in Content /\ sum \in Content
      BY <2>20, LeafFacts, BranchFacts
    <3> QED BY <2>11, <3>1
  <2>22. \A i \in 1..Len(sum.children) :
            /\ sum.children[i].page \in DOMAIN dirty \ {t}
            /\ sum.children[i].sum = dirty[sum.children[i].page]
            /\ \A j \in 1..Len(sum.children) :
                  sum.children[j].page = sum.children[i].page => j = i
    <3>1. \A i \in 1..2 : i = 1 \/ i = 2 OBVIOUS
    <3> QED BY <2>16, <2>18, <2>20, <3>1
  <2>23. \A q \in DOMAIN dirty : q \in Dirty \/ \E i \in DOMAIN all : q = all[i]
    BY <2>17, <2>18
  <2>24. Grafts(old, all, dirty, t)
    BY <1>7, <1>8, <2>13, <2>14, <2>18, <2>20, <2>21, <2>22, <2>23, BranchGrafts
  <2>25. StoreInv' BY <1>9, <2>13, <2>24, Grafted
  <2>26. writer'.sum = sum BY <2>13, <2>18, ModifiedRoot DEF StoreInv
  <2>27. sum = new_root(p, Leaf(LeftEntries(Whole(c))), SeparatorKey(Whole(c)),
                        r, Leaf(RightEntries(Whole(c))))
    BY <2>7, <2>8, <2>9, <2>10 DEF left_leaf, right_leaf
  <2>28. Grown(writer.sum, key, value, writer'.sum)
    BY <1>4, <1>5, <1>12, <2>19, <2>26, <2>27 DEF Grown
  <2> QED BY <2>25, <2>28
<1> QED BY <1>11, <1>12

\* The pages that were not dirty are copied, and each once.
LEMMA CopiedPath ==
    ASSUME StoreInv, writer.phase # "none", NEW p \in Draft, NEW q \in Draft, p # q
    PROVE  LET old == Copied(p) \o Copied(q)
           IN  /\ old \in Seq(Page) /\ Len(old) \in Nat /\ DOMAIN old = 1..Len(old)
               /\ \A i \in DOMAIN old : \/ old[i] = p /\ p \notin Dirty
                                        \/ old[i] = q /\ q \notin Dirty
               /\ \A i, j \in DOMAIN old : old[i] = old[j] => i = j
               /\ p \notin Dirty \/ q \notin Dirty => Len(old) \in Nat \ {0}
               /\ p \notin Dirty /\ q \notin Dirty => Len(old) # 1
<1>1. p \in Page /\ q \in Page BY DraftFacts
<1>2. CASE p \in Dirty /\ q \in Dirty
  <2>1. Copied(p) \o Copied(q) = <<>> BY <1>2 DEF Copied, IsDirty, Dirty
  <2> QED BY <1>2, <2>1
<1>3. CASE p \in Dirty /\ q \notin Dirty
  <2>1. Copied(p) \o Copied(q) = <<q>> BY <1>1, <1>3 DEF Copied, IsDirty, Dirty
  <2> QED BY <1>1, <1>3, <2>1
<1>4. CASE p \notin Dirty /\ q \in Dirty
  <2>1. Copied(p) \o Copied(q) = <<p>> BY <1>1, <1>4 DEF Copied, IsDirty, Dirty
  <2> QED BY <1>1, <1>4, <2>1
<1>5. CASE p \notin Dirty /\ q \notin Dirty
  <2>1. Copied(p) = <<p>> /\ Copied(q) = <<q>> BY <1>5 DEF Copied, IsDirty, Dirty
  <2>s. <<p>> \in Seq(Page) /\ Len(<<p>>) = 1 /\ <<p>>[1] = p BY <1>1
  <2>u. <<q>> \in Seq(Page) /\ Len(<<q>>) = 1 /\ <<q>>[1] = q BY <1>1
  <2>a. PICK s \in Seq(Page) : s = Copied(p) /\ Len(s) = 1 /\ s[1] = p BY <2>1, <2>s
  <2>b. PICK u \in Seq(Page) : u = Copied(q) /\ Len(u) = 1 /\ u[1] = q BY <2>1, <2>u
  <2>2. /\ s = Copied(p) /\ u = Copied(q) /\ Len(s) = 1 /\ Len(u) = 1
        /\ s[1] = p /\ u[1] = q
    BY <2>a, <2>b
  <2>3. /\ s \o u \in Seq(Page) /\ Len(s \o u) = Len(s) + Len(u)
        /\ \A i \in 1..(Len(s) + Len(u)) :
              (s \o u)[i] = IF i <= Len(s) THEN s[i] ELSE u[i - Len(s)]
    BY ConcatProperties
  <2>4. PICK old \in Seq(Page) : old = s \o u BY <2>3
  <2>5. Len(old) = 2 /\ old[1] = p /\ old[2] = q BY <2>2, <2>3, <2>4
  <2>6. DOMAIN old = 1..2 /\ \A i \in 1..2 : i = 1 \/ i = 2 BY <2>5, LenProperties
  <2> QED BY <1>5, <2>2, <2>4, <2>5, <2>6
<1> QED BY <1>2, <1>3, <1>4, <1>5

\* The tree has a branch.
LEMMA BelowBranchGrafted ==
    ASSUME StoreInv, PreemptedBegin = FALSE, WriterIn("open"), NEW key \in Key,
           NEW value \in Value, insert_below_branch(key, value)
    PROVE  StoreInv' /\ Grown(writer.sum, key, value, writer'.sum)
<1> DEFINE index(c) == child_index_for_key(c, key)
           child(c) == child_page_id_for_key(c, key)
           old(c) == Copied(writer.root) \o Copied(child(c))
           Whole(l) == InsertEntry(l, key, value)
           a(c, l) == allocate(Len(old(c)) + (IF fits(l) THEN 0 ELSE 1))
           top(c, l) == IF IsDirty(writer.root) THEN writer.root ELSE a(c, l)[1]
           page(c, l) == IF IsDirty(child(c)) THEN child(c) ELSE a(c, l)[Len(old(c))]
           right(c, l) == a(c, l)[Len(a(c, l))]
           left_leaf(l) == Leaf(LeftEntries(Whole(l)))
           right_leaf(l) == Leaf(RightEntries(Whole(l)))
           changed(c, l, sum) == set_child_at_index(c, index(c), page(c, l), checksum_page(sum))
           One(c, l) == [p \in {page(c, l), top(c, l)} |->
                           IF p = page(c, l) THEN Leaf(Whole(l))
                           ELSE changed(c, l, Leaf(Whole(l)))]
           Two(c, l) == [p \in {page(c, l), right(c, l), top(c, l)} |->
                           CASE p = page(c, l) -> left_leaf(l)
                             [] p = right(c, l) -> right_leaf(l)
                             [] OTHER -> InsertChild(changed(c, l, left_leaf(l)),
                                                     SeparatorKey(Whole(l)), right(c, l),
                                                     checksum_page(right_leaf(l)))]
           seen(c, l) == [p \in {writer.root, child(c)} |-> IF p = child(c) THEN l ELSE c]
<1>1. PICK c \in Sees(writer.root) :
         /\ c.kind = "branch"
         /\ \E l \in Sees(child(c)) : l.kind = "leaf" /\ insert_below(c, l, key, value)
  BY DEF insert_below_branch
<1>2. PICK l \in Sees(child(c)) : l.kind = "leaf" /\ insert_below(c, l, key, value)
  BY <1>1
<1>w. /\ cache' = CacheAfter(old(c), seen(c, l), a(c, l))
      /\ \/ fits(l) /\ Modify(old(c), a(c, l), One(c, l), top(c, l))
         \/ ~fits(l) /\ branch_fits(c) /\ Modify(old(c), a(c, l), Two(c, l), top(c, l))
  BY <1>2 DEF insert_below
<1>3. writer.phase # "none" BY DEF WriterIn
<1>4. writer.root \in Draft BY <1>3, DraftFacts
<1>5. c = writer.sum /\ (writer.root \notin Dirty => c = file.pages[writer.root])
  <2>1. /\ c = Over(writer.dirty, file.pages)[writer.root]
        /\ writer.root \notin Dirty => c = file.pages[writer.root]
    BY <1>3, <1>4, SeesDraft
  <2> QED BY <1>3, <2>1, DraftFacts DEF Held
<1>6. c \in Branches
  <2>1. c \in Leaves \cup Branches BY <1>3, <1>5, DraftFacts DEF WellFormed
  <2> QED BY <1>1, <2>1, LeafFacts
<1>7. PICK x \in 1..Len(c.children) : x = index(c) BY <1>6, ChildIndex
<1>8. child(c) = c.children[x].page BY <1>7 DEF child_page_id_for_key
<1>9. \A i \in 1..Len(c.children) :
         /\ c.children[i] \in Children /\ c.children[i].page \in Draft
         /\ c.children[i].page # writer.root
         /\ c.children[i].sum = Over(writer.dirty, file.pages)[c.children[i].page]
         /\ \A j \in 1..Len(c.children) : c.children[j].page = c.children[i].page => j = i
  <2>1. ChildrenOf(c) = c.children /\ DOMAIN c.children = 1..Len(c.children)
        /\ \A i \in 1..Len(c.children) : c.children[i] \in Children
    BY <1>6, BranchFacts
  <2>2. WellFormed(writer.root, c, next_page_id)
        /\ Held(Over(writer.dirty, file.pages), writer.root, c)
    BY <1>3, <1>5, DraftFacts
  <2>3. \A i \in 1..Len(c.children) : c.children[i].page \in Draft
    BY <1>5, <1>6, TreeFacts DEF Draft
  <2> QED BY <2>1, <2>2, <2>3 DEF WellFormed, Held
<1>10. PICK d \in Draft : d = child(c) BY <1>8, <1>9
<1>11. d # writer.root /\ d = c.children[x].page BY <1>8, <1>9, <1>10
<1>12. l \in Leaves /\ (d \notin Dirty => l = file.pages[d])
  <2>1. l = Over(writer.dirty, file.pages)[d] /\ (d \notin Dirty => l = file.pages[d])
    BY <1>3, <1>10, SeesDraft
  <2>2. l = c.children[x].sum BY <1>9, <1>11, <2>1
  <2> QED BY <1>9, <2>1, <2>2 DEF Children
<1>l. l = c.children[x].sum
  <2>1. l = Over(writer.dirty, file.pages)[d] BY <1>3, <1>10, SeesDraft
  <2> QED BY <1>9, <1>11, <2>1
<1>13. /\ Leaf(Whole(l)) \in Leaves /\ SeparatorKey(Whole(l)) \in Key
       /\ left_leaf(l) \in Leaves /\ right_leaf(l) \in Leaves
  BY <1>12, LeavesSplit
<1>14. PICK path : path = old(c) OBVIOUS
<1>15. /\ path \in Seq(Page) /\ Len(path) \in Nat /\ DOMAIN path = 1..Len(path)
       /\ \A i \in DOMAIN path : \/ path[i] = writer.root /\ writer.root \notin Dirty
                                 \/ path[i] = d /\ d \notin Dirty
       /\ \A i, j \in DOMAIN path : path[i] = path[j] => i = j
       /\ writer.root \notin Dirty \/ d \notin Dirty => Len(path) \in Nat \ {0}
       /\ writer.root \notin Dirty /\ d \notin Dirty => Len(path) # 1
  <2>1. path = Copied(writer.root) \o Copied(d) BY <1>10, <1>14
  <2>2. PICK p \in Draft : p = writer.root BY <1>4
  <2>3. p # d BY <1>11, <2>2
  <2> HIDE DEF old
  <2>4. LET both == Copied(p) \o Copied(d)
        IN  /\ both \in Seq(Page) /\ Len(both) \in Nat /\ DOMAIN both = 1..Len(both)
            /\ \A i \in DOMAIN both : \/ both[i] = p /\ p \notin Dirty
                                      \/ both[i] = d /\ d \notin Dirty
            /\ \A i, j \in DOMAIN both : both[i] = both[j] => i = j
            /\ p \notin Dirty \/ d \notin Dirty => Len(both) \in Nat \ {0}
            /\ p \notin Dirty /\ d \notin Dirty => Len(both) # 1
    BY <1>3, <2>3, CopiedPath
  <2>5. path = Copied(p) \o Copied(d) BY <2>1, <2>2
  <2> QED BY <2>2, <2>4, <2>5
<1>16. \A i \in DOMAIN path :
          /\ path[i] \in Draft /\ path[i] \notin Dirty
          /\ \A j \in DOMAIN path : path[j] = path[i] => j = i
  BY <1>4, <1>15
<1>17. PICK was : was = seen(c, l) OBVIOUS
<1>18. \A i \in DOMAIN path : was[path[i]] = file.pages[path[i]]
  <2>1. was = [p \in {writer.root, d} |-> IF p = d THEN l ELSE c] BY <1>10, <1>17
  <2> QED BY <1>5, <1>11, <1>12, <1>15, <2>1
<1>19. PICK n \in Nat : n = Len(path) + (IF fits(l) THEN 0 ELSE 1)
  <2>1. PICK k \in Nat : k = Len(path) BY <1>15
  <2>2. PICK m \in {0, 1} : m = IF fits(l) THEN 0 ELSE 1 OBVIOUS
  <2>3. k + m \in Nat OBVIOUS
  <2> QED BY <2>1, <2>2, <2>3
<1>20. PICK all : all = allocate(n) OBVIOUS
<1>21. all = a(c, l)
  <2>1. Len(old(c)) = Len(path) BY <1>14
  <2> HIDE DEF old
  <2>2. Len(old(c)) + (IF fits(l) THEN 0 ELSE 1) = n BY <1>19, <2>1
  <2> QED BY <1>20, <2>2
<1>22. DOMAIN all = 1..n /\ Len(all) = n BY <1>20, AllocatedLength
<1>23. PICK t, p, r : t = top(c, l) /\ p = page(c, l) /\ r = right(c, l) OBVIOUS
<1>24. /\ t = IF writer.root \in Dirty THEN writer.root ELSE all[1]
       /\ p = IF d \in Dirty THEN d ELSE all[Len(path)]
       /\ r = all[n]
  BY <1>10, <1>14, <1>21, <1>22, <1>23 DEF IsDirty, Dirty
<1>25. PICK sep \in Key : sep = SeparatorKey(Whole(l)) BY <1>13
<1>26. PICK whole \in Leaves : whole = Leaf(Whole(l)) BY <1>13
<1>27. PICK left_sum \in Leaves : left_sum = left_leaf(l) BY <1>13
<1>28. PICK right_sum \in Leaves : right_sum = right_leaf(l) BY <1>13
<1>29. PICK one : one = [q \in {p, t} |-> IF q = p THEN whole
                                        ELSE set_child_at_index(c, x, p, whole)]
  OBVIOUS
<1>30. PICK two : two = [q \in {p, r, t} |->
                           CASE q = p -> left_sum [] q = r -> right_sum
                             [] OTHER -> InsertChild(set_child_at_index(c, x, p, left_sum),
                                                     sep, r, right_sum)]
  OBVIOUS
<1>31. One(c, l) = one BY <1>7, <1>23, <1>26, <1>29 DEF checksum_page
<1>32. Two(c, l) = two
  <2>1. changed(c, l, left_leaf(l)) = set_child_at_index(c, x, p, left_sum)
    BY <1>7, <1>23, <1>27 DEF checksum_page
  <2>2. checksum_page(right_leaf(l)) = right_sum BY <1>28 DEF checksum_page
  <2>3. page(c, l) = p /\ right(c, l) = r /\ top(c, l) = t BY <1>23
  <2>4. left_leaf(l) = left_sum /\ SeparatorKey(Whole(l)) = sep BY <1>25, <1>27
  <2>5. PICK sum : sum = InsertChild(changed(c, l, left_leaf(l)), SeparatorKey(Whole(l)),
                                     right(c, l), checksum_page(right_leaf(l)))
    OBVIOUS
  <2>6. sum = InsertChild(set_child_at_index(c, x, p, left_sum), sep, r, right_sum)
    BY <2>1, <2>2, <2>3, <2>4, <2>5
  <2>7. Two(c, l) = [q \in {p, r, t} |->
                       CASE q = p -> left_sum [] q = r -> right_sum [] OTHER -> sum]
    BY <1>28, <2>3, <2>4, <2>5
  <2>8. two = [q \in {p, r, t} |->
                 CASE q = p -> left_sum [] q = r -> right_sum [] OTHER -> sum]
    BY <1>30, <2>6
  <2> QED BY <2>7, <2>8
<1>33. /\ cache' = CacheAfter(path, was, all)
       /\ \/ fits(l) /\ Modify(path, all, one, t)
          \/ ~fits(l) /\ branch_fits(c) /\ Modify(path, all, two, t)
  BY <1>w, <1>14, <1>17, <1>21, <1>23, <1>31, <1>32
<1>34. \E m \in Nat : all = allocate(m) BY <1>20
<1> HIDE DEF index, child, old, Whole, a, top, page, right, left_leaf, right_leaf, changed,
             One, Two, seen
<1>35. /\ next_page_id' \in Nat
       /\ \A q \in Dirty : q \in 1..(next_page_id' - 1)
       /\ \A i \in DOMAIN all : /\ all[i] \in 1..(next_page_id' - 1) /\ all[i] \notin Dirty
                                /\ all[i] \notin Draft
       /\ \A i, j \in DOMAIN all : all[i] = all[j] => i = j
       /\ all \in Seq(Page)
  BY <1>33, <1>34, OwnPages, GraftsArePlanted
<1>36. \A i \in DOMAIN all : all[i] \in Page
  <2>1. PICK s \in Seq(Page) : s = all BY <1>35
  <2>2. \A i \in DOMAIN s : s[i] \in Page BY LenProperties
  <2> QED BY <2>1, <2>2
<1>37. /\ writer.root \notin Dirty => 1 \in DOMAIN all
       /\ d \notin Dirty => Len(path) \in DOMAIN all
  <2>1. n = Len(path) \/ n = Len(path) + 1 BY <1>19
  <2>2. Len(path) \in Nat BY <1>15
  <2>3. Len(path) # 0 => 1 \in 1..n /\ Len(path) \in 1..n BY <2>1, <2>2
  <2> QED BY <1>15, <1>22, <2>3
<1>38. /\ \/ t \in Dirty /\ t = writer.root
          \/ t \notin Dirty /\ t \notin Draft /\ \E i \in DOMAIN all : t = all[i]
       /\ \/ p \in Dirty /\ p = d
          \/ p \notin Dirty /\ p \notin Draft /\ \E i \in DOMAIN all : p = all[i]
       /\ t # p /\ p \in Page
  <2>1. /\ \/ t \in Dirty /\ t = writer.root
           \/ t \notin Dirty /\ t \notin Draft /\ \E i \in DOMAIN all : t = all[i]
        /\ \/ p \in Dirty /\ p = d
           \/ p \notin Dirty /\ p \notin Draft /\ \E i \in DOMAIN all : p = all[i]
    BY <1>24, <1>35, <1>37
  <2>2. t # p
    <3>1. CASE writer.root \in Dirty /\ d \in Dirty BY <1>11, <1>24, <3>1
    <3>2. CASE writer.root \in Dirty /\ d \notin Dirty BY <1>24, <1>35, <1>37, <3>2
    <3>3. CASE writer.root \notin Dirty /\ d \in Dirty BY <1>24, <1>35, <1>37, <3>3
    <3>4. CASE writer.root \notin Dirty /\ d \notin Dirty
      BY <1>15, <1>24, <1>35, <1>37, <3>4
    <3> QED BY <3>1, <3>2, <3>3, <3>4
  <2>3. p \in Page
    <3>1. Dirty \in SUBSET Page BY Types DEF StoreInv
    <3> QED BY <1>36, <2>1, <3>1
  <2> QED BY <2>1, <2>2, <2>3
\* The children that stay.
<1>39. \A i \in 1..Len(c.children) : i # x =>
          LET q == c.children[i].page
          IN  /\ q \in Draft /\ q # p /\ q # t
              /\ \A j \in DOMAIN all : all[j] # q
              /\ \A j \in DOMAIN path : path[j] # q
  <2>1. ASSUME NEW i \in 1..Len(c.children), i # x, NEW q, q = c.children[i].page
        PROVE  q \in Draft /\ q # writer.root /\ q # d
    BY <1>9, <1>11, <2>1
  <2>2. ASSUME NEW q \in Draft, q # writer.root, q # d
        PROVE  /\ q # p /\ q # t
               /\ \A j \in DOMAIN all : all[j] # q
               /\ \A j \in DOMAIN path : path[j] # q
    BY <1>15, <1>35, <1>38, <2>2
  <2> QED BY <2>1, <2>2
<1>40. CASE fits(l) /\ Modify(path, all, one, t)
  <2>1. PICK sum : sum = set_child_at_index(c, x, p, whole) OBVIOUS
  <2>2. /\ sum \in Branches /\ Len(sum.children) = Len(c.children)
        /\ sum.children[x] = Child(c.children[x].key, p, whole)
        /\ \A i \in 1..Len(c.children) : i # x => sum.children[i] = c.children[i]
    BY <1>6, <1>38, <2>1, ChildIsSet
  <2>3. sum.children[x].page = p /\ sum.children[x].sum = whole BY <2>2 DEF Child
  <2>4. DOMAIN one = {p, t} /\ one[p] = whole /\ one[t] = sum BY <1>29, <1>38, <2>1
  <2>5. one \in [DOMAIN one -> Content]
    <3>1. whole \in Content /\ sum \in Content BY <2>2, LeafFacts, BranchFacts
    <3> QED BY <1>29, <2>1, <3>1
  <2>6. \A q \in DOMAIN one : q \in Dirty \/ \E i \in DOMAIN all : q = all[i]
    BY <1>38, <2>4
  <2>7. ASSUME NEW i \in 1..Len(sum.children)
        PROVE  LET e == sum.children[i]
               IN  /\ \/ e.page \in DOMAIN one \ {t} /\ e.sum = one[e.page]
                      \/ /\ e.page \in Draft /\ e.page \notin DOMAIN one
                         /\ \A j \in DOMAIN path : path[j] # e.page
                         /\ e.sum = Over(writer.dirty, file.pages)[e.page]
                   /\ \A j \in 1..Len(sum.children) : sum.children[j].page = e.page => j = i
    <3>1. CASE i = x BY <1>38, <1>39, <2>2, <2>3, <2>4, <3>1
    <3>2. CASE i # x BY <1>9, <1>39, <2>2, <2>3, <2>4, <3>2
    <3> QED BY <3>1, <3>2
  <2>8. t \in DOMAIN one /\ one[t] \in Branches BY <2>2, <2>4
  <2>9. \A i \in 1..Len(one[t].children) :
           LET e == one[t].children[i]
           IN  /\ \/ e.page \in DOMAIN one \ {t} /\ e.sum = one[e.page]
                  \/ /\ e.page \in Draft /\ e.page \notin DOMAIN one
                     /\ \A j \in DOMAIN path : path[j] # e.page
                     /\ e.sum = Over(writer.dirty, file.pages)[e.page]
               /\ \A j \in 1..Len(one[t].children) :
                     one[t].children[j].page = e.page => j = i
    BY <2>4, <2>7
  <2>10. path \in Seq(Page) BY <1>15
  <2>11. Grafts(path, all, one, t)
    BY <1>16, <1>34, <1>40, <2>5, <2>6, <2>8, <2>9, <2>10, BranchGrafts
  <2>12. StoreInv' BY <1>18, <1>33, <1>40, <2>11, Grafted
  <2>13. writer'.sum = sum BY <1>40, <2>4, ModifiedRoot DEF StoreInv
  <2>14. sum = set_child_at_index(c, x, p, Leaf(InsertEntry(l, key, value)))
    BY <1>26, <2>1 DEF Whole
  <2>15. Grown(writer.sum, key, value, writer'.sum)
    BY <1>5, <1>6, <1>7, <1>38, <1>l, <2>13, <2>14 DEF Grown, index
  <2> QED BY <2>12, <2>15
<1>41. CASE ~fits(l) /\ branch_fits(c) /\ Modify(path, all, two, t)
  <2>1. PICK b : b = set_child_at_index(c, x, p, left_sum) OBVIOUS
  <2>2. /\ b \in Branches /\ Len(b.children) = Len(c.children)
        /\ b.children[x] = Child(c.children[x].key, p, left_sum)
        /\ \A i \in 1..Len(c.children) : i # x => b.children[i] = c.children[i]
    BY <1>6, <1>38, <2>1, ChildIsSet
  <2>3. b.children[x].page = p /\ b.children[x].sum = left_sum BY <2>2 DEF Child
  <2>4. branch_fits(b) BY <1>41, <2>2 DEF branch_fits
  <2>5. n \in DOMAIN all /\ r = all[n] /\ n = Len(path) + 1
    BY <1>15, <1>19, <1>22, <1>24, <1>41
  <2>6. /\ r \in Page /\ r \notin Dirty /\ r \notin Draft /\ \E i \in DOMAIN all : r = all[i]
    BY <1>35, <1>36, <2>5
  <2>7. r # p /\ r # t
    <3>1. Len(path) # n /\ (writer.root \notin Dirty => n # 1)
      <4>1. n = Len(path) + 1 BY <2>5
      <4>2. Len(path) \in Nat /\ (writer.root \notin Dirty => Len(path) # 0) BY <1>15
      <4> QED BY <4>1, <4>2
    <3>2. r # p
      <4>1. CASE d \in Dirty BY <1>24, <2>6, <4>1
      <4>2. CASE d \notin Dirty BY <1>24, <1>35, <1>37, <2>5, <3>1, <4>2
      <4> QED BY <4>1, <4>2
    <3>3. r # t
      <4>1. CASE writer.root \in Dirty BY <1>24, <2>6, <4>1
      <4>2. CASE writer.root \notin Dirty BY <1>24, <1>35, <1>37, <2>5, <3>1, <4>2
      <4> QED BY <4>1, <4>2
    <3> QED BY <3>2, <3>3
  <2>8. PICK sum : sum = InsertChild(b, sep, r, right_sum) OBVIOUS
  <2>9. /\ sum \in Branches
        /\ \E y \in 1..Len(sum.children) :
              /\ sum.children[y].page = r /\ sum.children[y].sum = right_sum
              /\ Keeps(sum, b, y)
    BY <2>2, <2>4, <2>6, <2>8, ChildIsInserted
  <2>10. PICK y \in 1..Len(sum.children) :
            /\ sum.children[y].page = r /\ sum.children[y].sum = right_sum
            /\ Keeps(sum, b, y)
    BY <2>9
  <2>11. PICK from \in [1..Len(sum.children) -> 1..Len(b.children)] :
            \A i \in 1..Len(sum.children) : i # y =>
              /\ sum.children[i] = b.children[from[i]]
              /\ \A j \in 1..Len(sum.children) : j # y /\ from[j] = from[i] => j = i
    BY <2>10 DEF Keeps
  <2>12. /\ DOMAIN two = {p, r, t}
         /\ two[p] = left_sum /\ two[r] = right_sum /\ two[t] = sum
    BY <1>30, <1>38, <2>1, <2>7, <2>8
  <2>13. two \in [DOMAIN two -> Content]
    <3>1. left_sum \in Content /\ right_sum \in Content /\ sum \in Content
      BY <2>9, LeafFacts, BranchFacts
    <3> QED BY <1>30, <2>1, <2>8, <3>1
  <2>14. \A q \in DOMAIN two : q \in Dirty \/ \E i \in DOMAIN all : q = all[i]
    BY <1>38, <2>6, <2>12
  <2>15. ASSUME NEW k \in 1..Len(b.children)
         PROVE  LET e == b.children[k]
                IN  /\ \/ e.page \in DOMAIN two \ {t} /\ e.sum = two[e.page]
                       \/ /\ e.page \in Draft /\ e.page \notin DOMAIN two
                          /\ \A j \in DOMAIN path : path[j] # e.page
                          /\ e.sum = Over(writer.dirty, file.pages)[e.page]
                    /\ e.page # r
                    /\ \A j \in 1..Len(b.children) : b.children[j].page = e.page => j = k
    <3>1. CASE k = x BY <1>38, <1>39, <2>2, <2>3, <2>7, <2>12, <3>1
    <3>2. CASE k # x BY <1>9, <1>39, <2>2, <2>3, <2>6, <2>12, <3>2
    <3> QED BY <3>1, <3>2
  <2>16. ASSUME NEW i \in 1..Len(sum.children)
         PROVE  LET e == sum.children[i]
                IN  /\ \/ e.page \in DOMAIN two \ {t} /\ e.sum = two[e.page]
                       \/ /\ e.page \in Draft /\ e.page \notin DOMAIN two
                          /\ \A j \in DOMAIN path : path[j] # e.page
                          /\ e.sum = Over(writer.dirty, file.pages)[e.page]
                    /\ \A j \in 1..Len(sum.children) : sum.children[j].page = e.page => j = i
    <3>1. \A j \in 1..Len(sum.children) : j # y =>
             sum.children[j] = b.children[from[j]] /\ from[j] \in 1..Len(b.children)
      BY <2>11
    <3>2. CASE i = y
      <4>1. sum.children[y].page = r /\ sum.children[y].sum = right_sum BY <2>10
      <4>2. r \in DOMAIN two \ {t} /\ two[r] = right_sum BY <2>7, <2>12
      <4>3. ASSUME NEW j \in 1..Len(sum.children), sum.children[j].page = r PROVE j = y
        <5>1. SUFFICES ASSUME j # y PROVE FALSE OBVIOUS
        <5>2. PICK m \in 1..Len(b.children) : sum.children[j] = b.children[m]
          BY <3>1, <5>1
        <5> QED BY <2>15, <4>3, <5>2
      <4> QED BY <3>2, <4>1, <4>2, <4>3
    <3>3. CASE i # y
      <4>1. PICK k \in 1..Len(b.children) : k = from[i] BY <2>11
      <4>2. sum.children[i] = b.children[k] BY <2>11, <3>3, <4>1
      <4>3. \A j \in 1..Len(sum.children) : sum.children[j].page = sum.children[i].page => j = i
        <5>1. ASSUME NEW j \in 1..Len(sum.children),
                     sum.children[j].page = sum.children[i].page
              PROVE  j = i
          <6>1. j # y BY <2>10, <2>15, <4>2, <5>1
          <6>2. PICK m \in 1..Len(b.children) : m = from[j] BY <2>11
          <6>3. sum.children[j] = b.children[m] BY <2>11, <6>1, <6>2
          <6>4. m = k BY <2>15, <4>2, <5>1, <6>3
          <6> QED BY <2>11, <3>3, <4>1, <6>1, <6>2, <6>4
        <5> QED BY <5>1
      <4> QED BY <2>15, <4>2, <4>3
    <3> QED BY <3>2, <3>3
  <2>17. t \in DOMAIN two /\ two[t] \in Branches BY <2>9, <2>12
  <2>18. \A i \in 1..Len(two[t].children) :
            LET e == two[t].children[i]
            IN  /\ \/ e.page \in DOMAIN two \ {t} /\ e.sum = two[e.page]
                   \/ /\ e.page \in Draft /\ e.page \notin DOMAIN two
                      /\ \A j \in DOMAIN path : path[j] # e.page
                      /\ e.sum = Over(writer.dirty, file.pages)[e.page]
                /\ \A j \in 1..Len(two[t].children) :
                      two[t].children[j].page = e.page => j = i
    BY <2>12, <2>16
  <2>19. path \in Seq(Page) BY <1>15
  <2>20. Grafts(path, all, two, t)
    BY <1>16, <1>34, <1>41, <2>13, <2>14, <2>17, <2>18, <2>19, BranchGrafts
  <2>21. StoreInv' BY <1>18, <1>33, <1>41, <2>20, Grafted
  <2>22. writer'.sum = sum BY <1>41, <2>12, ModifiedRoot DEF StoreInv
  <2>23. PICK e : e = InsertEntry(l, key, value) OBVIOUS
  <2>24. sum = InsertChild(set_child_at_index(c, x, p, Leaf(LeftEntries(e))),
                           SeparatorKey(e), r, Leaf(RightEntries(e)))
    BY <1>25, <1>27, <1>28, <2>1, <2>8, <2>23 DEF Whole, left_leaf, right_leaf
  <2>25. Grown(writer.sum, key, value, writer'.sum)
    BY <1>5, <1>6, <1>7, <1>38, <1>l, <1>41, <2>6, <2>22, <2>23, <2>24 DEF Grown, index
  <2> QED BY <2>21, <2>25
<1> QED BY <1>33, <1>40, <1>41

\* An insert keeps the invariant, and its tree is one that Grown admits.
LEMMA Inserted ==
    ASSUME StoreInv, PreemptedBegin = FALSE, NEW key \in Key, NEW value \in Value,
           insert(key, value)
    PROVE  StoreInv' /\ Grown(writer.sum, key, value, writer'.sum)
<1>1. WriterIn("open") BY DEF insert
<1>2. CASE insert_root_leaf(key, value) BY <1>1, <1>2, RootLeafGrafted
<1>3. CASE insert_below_branch(key, value) BY <1>1, <1>3, BelowBranchGrafted
<1> QED BY <1>2, <1>3 DEF insert

-----------------------------------------------------------------------------
(* The other steps of the write transaction. *)

\* Only the transaction changes, and takes no new pages.
LEMMA OnlyTheWriter ==
    ASSUME StoreInv, TypeOK', DraftIsHeld', DirtyIsWritten', Dirty' \subseteq Dirty,
           UNCHANGED <<disk_vars, memory_vars, cache, active_readers, reader>>
    PROVE  StoreInv'
<1>1. UNCHANGED <<file, synced, written, status, header, next_page_id, pending_free_pages,
                  cache, active_readers, reader>>
  BY DEF disk_vars, memory_vars
<1>2. /\ SlotsAreTrees /\ CurrentIsHeld /\ PagesAreApart /\ CacheIsCurrent
      /\ ReadersAreTracked /\ SnapshotsAreKept
  BY DEF StoreInv
<1>3. Current' = Current /\ CurrentTree' = CurrentTree /\ Free' = Free
  BY <1>1 DEF Current, CurrentTree, active_slot, Free
<1>4. SlotsAreTrees' BY <1>1, <1>2 DEF SlotsAreTrees, SlotOK
<1>5. CurrentIsHeld' BY <1>1, <1>2, <1>3 DEF CurrentIsHeld
<1>6. PagesAreApart' BY <1>1, <1>2, <1>3 DEF PagesAreApart
<1>7. CacheIsCurrent' /\ ReadersAreTracked'
  BY <1>1, <1>2 DEF CacheIsCurrent, ReadersAreTracked, Registered
<1>8. ASSUME NEW r \in Reader, reader'[r].phase # "idle"
      PROVE  SnapshotIsKept(r)' /\ ReaderIsAt(r)'
  <2>1. SnapshotIsKept(r) /\ ReaderIsAt(r) BY <1>1, <1>8, SnapshotFacts
  <2>2. Snapshot(r)' = Snapshot(r) BY <1>1 DEF Snapshot
  <2>3. ReaderIsAt(r)' BY <1>1, <2>1 DEF ReaderIsAt
  <2>4. SnapshotIsKept(r)' BY <1>1, <1>3, <2>1, <2>2 DEF SnapshotIsKept
  <2> QED BY <2>3, <2>4
<1>9. SnapshotsAreKept' BY <1>8 DEF SnapshotsAreKept
<1> QED BY <1>4, <1>5, <1>6, <1>7, <1>9 DEF StoreInv

\* Without a transaction there is nothing to write.
LEMMA NoWriterType ==
    /\ NoWriter \in [phase : {"none", "open", "writing", "syncing", "publishing"},
                     tx : 0..MaxTx, root : Page \cup {0}, sum : Content,
                     dirty : [DOMAIN NoWriter.dirty -> Content],
                     freed : Seq(Page), todo : SUBSET Page, holds : Maps]
    /\ NoWriter.phase = "none" /\ NoWriter.todo = {} /\ DOMAIN NoWriter.dirty = {}
    /\ NoWriter.dirty = <<>>
<1>1. DOMAIN <<>> = {} /\ <<>> \in Seq(Page) /\ <<>> \in [{} -> Content] OBVIOUS
<1>2. Zero \in Content BY DEF Content
<1>3. <<>> \in Maps BY DEF Maps
<1>4. 0 \in 0..MaxTx BY StoreAssumption
<1> QED BY <1>1, <1>2, <1>3, <1>4 DEF NoWriter

\* The transaction ends without a trace.
LEMMA WriterGone ==
    ASSUME StoreInv, writer' = NoWriter,
           UNCHANGED <<disk_vars, memory_vars, cache, active_readers, reader>>
    PROVE  StoreInv'
<1>1. UNCHANGED <<file, synced, written, status, header, next_page_id, pending_free_pages,
                  cache, active_readers, reader>>
  BY DEF disk_vars, memory_vars
<1>2. TypeOK'
  <2>1. TypeOK BY DEF StoreInv
  <2>2. /\ DOMAIN writer'.dirty \subseteq Page
        /\ writer' \in [phase : {"none", "open", "writing", "syncing", "publishing"},
                       tx : 0..MaxTx, root : Page \cup {0}, sum : Content,
                       dirty : [DOMAIN writer'.dirty -> Content],
                       freed : Seq(Page), todo : SUBSET Page, holds : Maps]
    BY NoWriterType
  <2> QED BY <1>1, <2>1, <2>2 DEF TypeOK
<1>3. Dirty' = {} BY NoWriterType DEF Dirty
<1>4. DraftIsHeld' BY NoWriterType DEF DraftIsHeld
<1>5. DirtyIsWritten' BY <1>3, NoWriterType DEF DirtyIsWritten
<1> QED BY <1>2, <1>3, <1>4, <1>5, OnlyTheWriter

\* A transaction begins with the current tree.
LEMMA WriteBegun ==
    ASSUME StoreInv, begin_write
    PROVE  StoreInv'
<1> DEFINE slot == Current
           holds == Contents(file.pages, slot.root_page_id)
<1>1. /\ status = "up" /\ writer.phase = "none" /\ slot.transaction_id < MaxTx
      /\ writer' = [NoWriter EXCEPT !.phase = "open", !.tx = slot.transaction_id + 1,
                                    !.root = slot.root_page_id,
                                    !.sum = slot.root_page_checksum, !.holds = holds]
      /\ UNCHANGED <<disk_vars, memory_vars, cache, active_readers, reader>>
  BY DEF begin_write, WriterIn, Current
<1>2. UNCHANGED <<file, synced, written, status, header, next_page_id, pending_free_pages,
                  cache, active_readers, reader>>
  BY <1>1 DEF disk_vars, memory_vars
<1>3. /\ slot.root_page_id \in Page /\ slot.root_page_checksum \in Content
      /\ slot.transaction_id \in 0..MaxTx /\ slot.next_page_id \in 2..MaxPages
      /\ SlotOK(slot)
  BY CurrentFacts
<1>4. /\ Held(file.pages, slot.root_page_id, slot.root_page_checksum)
      /\ slot.next_page_id <= next_page_id
  BY <1>1 DEF StoreInv, CurrentIsHeld
<1>5. next_page_id \in Nat /\ MaxPages \in Nat /\ MaxTx \in Nat BY Types DEF StoreInv
<1>6. PICK next \in Nat : next = slot.next_page_id BY <1>3, <1>5
<1>7. WellFormed(slot.root_page_id, slot.root_page_checksum, next) BY <1>3, <1>6 DEF SlotOK
<1>8. WellFormed(slot.root_page_id, slot.root_page_checksum, next_page_id)
  BY <1>4, <1>5, <1>6, <1>7, TreeIsBelow
<1>9. holds \in Maps BY <1>4, <1>6, <1>7, TreeIsRead
<1>10. slot.transaction_id + 1 \in 0..MaxTx BY <1>1, <1>3, <1>5
<1> HIDE DEF slot, holds
<1>11. /\ writer' \in [phase : {"none", "open", "writing", "syncing", "publishing"},
                      tx : 0..MaxTx, root : Page \cup {0}, sum : Content,
                      dirty : [DOMAIN NoWriter.dirty -> Content],
                      freed : Seq(Page), todo : SUBSET Page, holds : Maps]
       /\ writer'.phase = "open" /\ writer'.tx = slot.transaction_id + 1
       /\ writer'.root = slot.root_page_id /\ writer'.sum = slot.root_page_checksum
       /\ writer'.dirty = NoWriter.dirty /\ writer'.freed = NoWriter.freed
       /\ writer'.todo = {}
  BY <1>1, <1>3, <1>9, <1>10, NoWriterType
<1>12. writer'.dirty = <<>> /\ DOMAIN writer'.dirty = {} /\ DOMAIN writer'.freed = {}
  BY <1>11, NoWriterType DEF NoWriter
<1>13. TypeOK'
  <2>1. TypeOK BY DEF StoreInv
  <2> QED BY <1>2, <1>11, <1>12, <2>1 DEF TypeOK
<1>14. Dirty' = {} BY <1>12 DEF Dirty
<1>15. Current' = slot /\ CurrentTree' = Tree(slot.root_page_id, slot.root_page_checksum)
  BY <1>2 DEF Current, CurrentTree, active_slot, slot
<1>16. Draft' = CurrentTree' BY <1>11, <1>15 DEF Draft
<1>17. Over(writer'.dirty, file'.pages) = file.pages
  <2>1. file.pages \in [Page -> Content] BY Types DEF StoreInv
  <2> QED BY <1>2, <1>12, <2>1 DEF Over
<1>18. DraftIsHeld'
  BY <1>1, <1>2, <1>4, <1>8, <1>11, <1>12, <1>15, <1>16, <1>17 DEF DraftIsHeld
<1>19. DirtyIsWritten' BY <1>11, <1>14 DEF DirtyIsWritten
<1> QED BY <1>1, <1>13, <1>14, <1>18, <1>19, OnlyTheWriter

\* Only the phase and what is to be written change.
LEMMA Committed ==
    ASSUME StoreInv, commit
    PROVE  StoreInv'
<1>1. /\ writer.phase = "open"
      /\ writer' = [writer EXCEPT !.phase = "writing", !.todo = DOMAIN writer.dirty]
      /\ UNCHANGED <<disk_vars, memory_vars, cache, active_readers, reader>>
  BY DEF commit, WriterIn
<1>2. UNCHANGED <<file, synced, written, status, header, next_page_id, pending_free_pages,
                  cache, active_readers, reader>>
  BY <1>1 DEF disk_vars, memory_vars
<1>3. TypeOK /\ Dirty \in SUBSET Page BY Types DEF StoreInv
<1>4. writer \in [phase : {"none", "open", "writing", "syncing", "publishing"},
                 tx : 0..MaxTx, root : Page \cup {0}, sum : Content,
                 dirty : [DOMAIN writer.dirty -> Content],
                 freed : Seq(Page), todo : SUBSET Page, holds : Maps]
  BY <1>3 DEF TypeOK
<1>5. /\ writer' \in [phase : {"none", "open", "writing", "syncing", "publishing"},
                     tx : 0..MaxTx, root : Page \cup {0}, sum : Content,
                     dirty : [DOMAIN writer.dirty -> Content],
                     freed : Seq(Page), todo : SUBSET Page, holds : Maps]
      /\ writer'.phase = "writing" /\ writer'.tx = writer.tx /\ writer'.root = writer.root
      /\ writer'.sum = writer.sum /\ writer'.dirty = writer.dirty
      /\ writer'.freed = writer.freed /\ writer'.todo = Dirty
  BY <1>1, <1>3, <1>4 DEF Dirty
<1>6. TypeOK' BY <1>2, <1>3, <1>5 DEF TypeOK, Dirty
<1>7. Dirty' = Dirty /\ Draft' = Draft /\ Current' = Current /\ CurrentTree' = CurrentTree
  BY <1>2, <1>5 DEF Dirty, Draft, Current, CurrentTree, active_slot
<1>8. DraftIsHeld' BY <1>1, <1>2, <1>5, <1>7 DEF StoreInv, DraftIsHeld
<1>9. DirtyIsWritten' BY <1>5, <1>7 DEF DirtyIsWritten
<1> QED BY <1>1, <1>6, <1>7, <1>8, <1>9, OnlyTheWriter

\* A reader does not notice what happens outside its snapshot.
LEMMA SnapshotStays ==
    ASSUME StoreInv, NEW r \in Reader, reader[r].phase # "idle", UNCHANGED reader,
           \A p \in Snapshot(r) : file'.pages[p] = file.pages[p]
    PROVE  /\ Snapshot(r)' = Snapshot(r) /\ ReaderIsAt(r)'
           /\ file'.pages[reader[r].root] = file.pages[reader[r].root]
           /\ Held(file'.pages, reader[r].root, file'.pages[reader[r].root])
           /\ Contents(file'.pages, reader[r].root) = Contents(file.pages, reader[r].root)
<1> DEFINE root == reader[r].root
           sum == file.pages[root]
           pages == file.pages
           more == file'.pages
           key == reader[r].key
<1>1. /\ SnapshotIsKept(r) /\ ReaderIsAt(r) /\ root \in Snapshot(r)
      /\ Snapshot(r) = Tree(root, sum)
      /\ \A k \in Key : LeafPage(pages, root, k) \in Snapshot(r)
  BY SnapshotFacts
<1>2. next_page_id \in Nat BY Types DEF StoreInv
<1>3. WellFormed(root, sum, next_page_id) /\ Held(pages, root, sum)
  BY <1>1 DEF SnapshotIsKept
<1>4. /\ Held(more, root, sum) /\ more[root] = pages[root]
      /\ TreePages(more, root) = TreePages(pages, root)
      /\ Contents(more, root) = Contents(pages, root)
      /\ \A k \in Key : /\ LeafPage(more, root, k) = LeafPage(pages, root, k)
                        /\ more[LeafPage(more, root, k)] = pages[LeafPage(pages, root, k)]
  <2>1. \A p \in Tree(root, sum) : more[p] = pages[p] BY <1>1
  <2> HIDE DEF root, sum, pages, more
  <2> QED BY <1>2, <1>3, <2>1, TreeStays
<1>5. Snapshot(r)' = Snapshot(r) BY <1>4 DEF Snapshot
<1>6. ReaderIsAt(r)'
  <2>1. reader'[r] = reader[r] OBVIOUS
  <2>2. reader[r].phase \in {"reading", "read", "done"} =>
           /\ key \in Key
           /\ LeafPage(more, root, key) = LeafPage(pages, root, key)
           /\ more[LeafPage(more, root, key)] = pages[LeafPage(pages, root, key)]
    BY <1>1, <1>4 DEF ReaderIsAt
  <2>3. reader[r].phase = "read" => more[reader[r].page] = pages[reader[r].page]
    BY <1>1, <1>4, <2>2 DEF ReaderIsAt
  <2> QED BY <1>1, <2>1, <2>2, <2>3 DEF ReaderIsAt
<1> QED BY <1>4, <1>5, <1>6

\* The header that commit writes.
LEMMA NewHeaderFacts ==
    ASSUME StoreInv, writer.phase # "none"
    PROVE  /\ NewHeader \in Headers
           /\ \A s \in 0..1 : SlotOK(NewHeader.commit_slots[s])
           /\ active_slot(NewHeader)
                = CommitSlot(writer.root, writer.sum, writer.tx, next_page_id)
<1> DEFINE slot == CommitSlot(writer.root, writer.sum, writer.tx, next_page_id)
           n == 1 - header.active_slot
<1>1. /\ header \in Headers /\ header.active_slot \in 0..1
      /\ \A s \in 0..1 : SlotOK(header.commit_slots[s])
  BY CurrentFacts DEF StoreInv, SlotsAreTrees
<1>2. /\ writer.root \in Page /\ writer.sum \in Content /\ writer.tx \in 0..MaxTx
      /\ next_page_id \in 2..MaxPages
  BY DraftFacts, Types DEF StoreInv
<1>3. slot \in [root_page_id : Page, root_page_checksum : Content,
                transaction_id : 0..MaxTx, next_page_id : 2..MaxPages]
  BY <1>2 DEF CommitSlot
<1>4. SlotOK(slot) BY DraftFacts DEF SlotOK, CommitSlot
<1>5. n \in 0..1 BY <1>1
<1>6. NewHeader = [active_slot |-> n, commit_slots |-> [header.commit_slots EXCEPT ![n] = slot]]
  <2>1. header = [active_slot |-> header.active_slot, commit_slots |-> header.commit_slots]
    BY <1>1 DEF Headers
  <2>2. PICK h : h = [header EXCEPT !.commit_slots[n] = slot] OBVIOUS
  <2>3. NewHeader = [h EXCEPT !.active_slot = 1 - h.active_slot]
    BY <2>2 DEF NewHeader, with_commit, switch_to_inactive_slot
  <2> HIDE DEF slot, n
  <2>4. h = [active_slot |-> header.active_slot,
             commit_slots |-> [header.commit_slots EXCEPT ![n] = slot]]
    BY <2>1, <2>2
  <2>5. h.active_slot = header.active_slot BY <2>4
  <2>6. NewHeader = [h EXCEPT !.active_slot = n] BY <2>3, <2>5 DEF n
  <2> QED BY <2>4, <2>6
<1> HIDE DEF slot, n
<1>7. header.commit_slots \in [0..1 -> [root_page_id : Page, root_page_checksum : Content,
                                       transaction_id : 0..MaxTx, next_page_id : 2..MaxPages]]
  BY <1>1 DEF Headers
<1>8. NewHeader \in Headers BY <1>3, <1>5, <1>6, <1>7 DEF Headers
<1>9. \A s \in 0..1 : SlotOK(NewHeader.commit_slots[s]) BY <1>1, <1>4, <1>5, <1>6, <1>7
<1>10. active_slot(NewHeader) = slot BY <1>5, <1>6, <1>7 DEF active_slot
<1> QED BY <1>8, <1>9, <1>10 DEF slot

\* A dirty page is written: nobody else reads it.
LEMMA PageWritten ==
    ASSUME StoreInv, NEW p \in writer.todo, write_page(p)
    PROVE  StoreInv'
<1> DEFINE d == writer.dirty[p]
<1>1. /\ writer.phase = "writing" /\ file' = [file EXCEPT !.pages[p] = d]
      /\ written' = [written EXCEPT ![p] = written[p] \cup {d}]
      /\ cache' = [cache EXCEPT ![p] = d]
      /\ writer' = [writer EXCEPT !.todo = writer.todo \ {p}]
      /\ UNCHANGED <<synced, memory_vars, active_readers, reader>>
  BY DEF write_page, WriterIn
<1>2. UNCHANGED <<synced, status, header, next_page_id, pending_free_pages, active_readers,
                  reader>>
  BY <1>1 DEF memory_vars
<1>3. TypeOK /\ Dirty \in SUBSET Page /\ writer.dirty \in [Dirty -> Content]
  BY Types DEF StoreInv
<1>4. p \in Dirty /\ p \in Page /\ d \in Content BY <1>3 DEF StoreInv, DirtyIsWritten
<1>5. /\ file'.header = file.header /\ file'.length = file.length
      /\ file'.pages = [file.pages EXCEPT ![p] = d]
      /\ file.pages \in [Page -> Content] /\ file.header \in Headers \cup {None}
      /\ file.length \in Nat
      /\ file' = [header |-> file.header, length |-> file.length,
                  pages |-> [file.pages EXCEPT ![p] = d]]
  BY <1>1, <1>3, Types
<1>6. /\ writer'.phase = writer.phase /\ writer'.tx = writer.tx /\ writer'.root = writer.root
      /\ writer'.sum = writer.sum /\ writer'.dirty = writer.dirty
      /\ writer'.freed = writer.freed /\ writer'.todo = writer.todo \ {p}
      /\ writer' \in [phase : {"none", "open", "writing", "syncing", "publishing"},
                     tx : 0..MaxTx, root : Page \cup {0}, sum : Content,
                     dirty : [DOMAIN writer.dirty -> Content],
                     freed : Seq(Page), todo : SUBSET Page, holds : Maps]
  <2>1. writer \in [phase : {"none", "open", "writing", "syncing", "publishing"},
                   tx : 0..MaxTx, root : Page \cup {0}, sum : Content,
                   dirty : [DOMAIN writer.dirty -> Content],
                   freed : Seq(Page), todo : SUBSET Page, holds : Maps]
    BY <1>3 DEF TypeOK
  <2> QED BY <1>1, <2>1
<1> HIDE DEF d
<1>7. TypeOK'
  <2>1. file' \in Files
    <3>1. [file.pages EXCEPT ![p] = d] \in [Page -> Content] BY <1>4, <1>5
    <3> QED BY <1>5, <3>1 DEF Files
  <2>2. /\ \A q \in Page : written'[q] \subseteq Content
        /\ written'[HEADER_PAGE_ID] \subseteq Headers
    <3>1. HEADER_PAGE_ID # p BY <1>4 DEF HEADER_PAGE_ID, Page
    <3>2. \A q : written'[q] \subseteq written[q] \cup {d}
                 /\ (q # p => written'[q] = written[q])
      BY <1>1
    <3> QED BY <1>3, <1>4, <3>1, <3>2 DEF TypeOK
  <2>3. cache' \in [Page -> Content \cup {None}] BY <1>1, <1>3, <1>4 DEF TypeOK
  <2> QED BY <1>2, <1>3, <1>6, <2>1, <2>2, <2>3 DEF TypeOK
<1>8. /\ Current' = Current /\ CurrentTree' = CurrentTree /\ Free' = Free /\ Dirty' = Dirty
      /\ Draft' = Draft
  BY <1>2, <1>6 DEF Current, CurrentTree, active_slot, Free, Dirty, Draft
<1>9. \A q : q # p => file'.pages[q] = file.pages[q] BY <1>5
<1>10. SlotsAreTrees'
  <2>1. written'[HEADER_PAGE_ID] = written[HEADER_PAGE_ID]
    <3>1. HEADER_PAGE_ID # p BY <1>4 DEF HEADER_PAGE_ID, Page
    <3> QED BY <1>1, <3>1
  <2> QED BY <1>2, <1>5, <2>1 DEF StoreInv, SlotsAreTrees, SlotOK
<1>11. CurrentIsHeld'
  <2>1. p \notin CurrentTree BY <1>4 DEF StoreInv, PagesAreApart
  <2>2. SlotOK(Current) /\ Current.next_page_id \in 2..MaxPages BY CurrentFacts
  <2>3. MaxPages \in Nat BY Types DEF StoreInv
  <2>4. PICK next \in Nat : next = Current.next_page_id BY <2>2, <2>3
  <2>5. WellFormed(Current.root_page_id, Current.root_page_checksum, next)
    BY <2>2, <2>4 DEF SlotOK
  <2>6. \A q \in Tree(Current.root_page_id, Current.root_page_checksum) :
           file'.pages[q] = file.pages[q]
    BY <1>9, <2>1 DEF CurrentTree
  <2>7. status = "up" =>
           /\ Held(file'.pages, Current.root_page_id, Current.root_page_checksum)
           /\ Current.next_page_id <= next_page_id
    BY <2>5, <2>6, TreeStays DEF StoreInv, CurrentIsHeld
  <2> QED BY <1>2, <1>8, <2>7 DEF CurrentIsHeld
<1>12. PagesAreApart' BY <1>2, <1>8 DEF StoreInv, PagesAreApart
<1>13. DraftIsHeld'
  <2>1. Over(writer'.dirty, file'.pages) = Over(writer.dirty, file.pages)
    <3>1. \A q : q \in Dirty \/ file'.pages[q] = file.pages[q] BY <1>4, <1>9
    <3>2. DOMAIN file'.pages = DOMAIN file.pages BY <1>5
    <3> QED BY <1>6, <3>1, <3>2 DEF Over, Dirty
  <2> QED BY <1>1, <1>2, <1>6, <1>8, <2>1 DEF StoreInv, DraftIsHeld
<1>14. DirtyIsWritten'
  <2>1. file'.pages[p] = writer.dirty[p] BY <1>4, <1>5 DEF d
  <2>2. \A q \in Dirty : q \in writer.todo \/ file.pages[q] = writer.dirty[q]
    BY <1>1 DEF StoreInv, DirtyIsWritten
  <2>3. writer.todo \subseteq Dirty BY DEF StoreInv, DirtyIsWritten
  <2>4. \A q \in Dirty : q \in writer'.todo \/ file'.pages[q] = writer.dirty[q]
    BY <1>6, <1>9, <2>1, <2>2
  <2> QED BY <1>1, <1>6, <1>8, <2>3, <2>4 DEF DirtyIsWritten
<1>15. CacheIsCurrent' BY <1>1, <1>3, <1>5 DEF StoreInv, TypeOK, CacheIsCurrent
<1>16. ReadersAreTracked' BY <1>2 DEF StoreInv, ReadersAreTracked, Registered
<1>17. ASSUME NEW r \in Reader, reader'[r].phase # "idle"
       PROVE  SnapshotIsKept(r)' /\ ReaderIsAt(r)'
  <2>1. SnapshotIsKept(r) /\ reader[r].phase # "idle" BY <1>2, <1>17, SnapshotFacts
  <2>2. \A q \in Snapshot(r) : file'.pages[q] = file.pages[q]
    BY <1>4, <1>9, <2>1 DEF SnapshotIsKept
  <2>3. /\ Snapshot(r)' = Snapshot(r) /\ ReaderIsAt(r)'
        /\ file'.pages[reader[r].root] = file.pages[reader[r].root]
        /\ Held(file'.pages, reader[r].root, file'.pages[reader[r].root])
        /\ Contents(file'.pages, reader[r].root) = Contents(file.pages, reader[r].root)
    BY <1>2, <2>1, <2>2, SnapshotStays
  <2>4. SnapshotIsKept(r)' BY <1>2, <1>8, <2>1, <2>3 DEF SnapshotIsKept
  <2> QED BY <2>3, <2>4
<1>18. SnapshotsAreKept' BY <1>17 DEF SnapshotsAreKept
<1> QED BY <1>7, <1>10, <1>11, <1>12, <1>13, <1>14, <1>15, <1>16, <1>18 DEF StoreInv

\* The phase of the transaction and what the disk holds change, not what is read.
LEMMA OnlyTheDisk ==
    ASSUME StoreInv, TypeOK', SlotsAreTrees', writer.phase # "none",
           UNCHANGED <<memory_vars, cache, active_readers, reader>>,
           file'.pages = file.pages,
           \E phase \in {"syncing", "publishing"} : writer' = [writer EXCEPT !.phase = phase],
           writer.todo = {}, \A p \in Dirty : file.pages[p] = writer.dirty[p]
    PROVE  StoreInv'
<1>1. UNCHANGED <<status, header, next_page_id, pending_free_pages, cache,
                  active_readers, reader>>
  BY DEF memory_vars
<1>2. TypeOK /\ CurrentIsHeld /\ PagesAreApart /\ DraftIsHeld /\ CacheIsCurrent
      /\ ReadersAreTracked
  BY DEF StoreInv
<1>3. /\ writer'.phase \in {"syncing", "publishing"}
      /\ writer'.tx = writer.tx /\ writer'.root = writer.root
      /\ writer'.sum = writer.sum /\ writer'.dirty = writer.dirty
      /\ writer'.freed = writer.freed /\ writer'.todo = writer.todo
  <2>1. writer \in [phase : {"none", "open", "writing", "syncing", "publishing"},
                   tx : 0..MaxTx, root : Page \cup {0}, sum : Content,
                   dirty : [DOMAIN writer.dirty -> Content],
                   freed : Seq(Page), todo : SUBSET Page, holds : Maps]
    BY <1>2 DEF TypeOK
  <2> QED BY <2>1
<1>4. /\ Current' = Current /\ CurrentTree' = CurrentTree /\ Free' = Free /\ Dirty' = Dirty
      /\ Draft' = Draft
  BY <1>1, <1>3 DEF Current, CurrentTree, active_slot, Free, Dirty, Draft
<1>5. CurrentIsHeld' BY <1>1, <1>2, <1>4 DEF CurrentIsHeld
<1>6. PagesAreApart' BY <1>1, <1>2, <1>4 DEF PagesAreApart
<1>7. DraftIsHeld' BY <1>1, <1>2, <1>3, <1>4 DEF DraftIsHeld
<1>8. DirtyIsWritten' BY <1>3, <1>4 DEF DirtyIsWritten
<1>9. CacheIsCurrent' BY <1>1, <1>2 DEF CacheIsCurrent
<1>10. ReadersAreTracked' BY <1>1, <1>2 DEF ReadersAreTracked, Registered
<1>11. ASSUME NEW r \in Reader, reader'[r].phase # "idle"
       PROVE  SnapshotIsKept(r)' /\ ReaderIsAt(r)'
  <2>1. SnapshotIsKept(r) /\ reader[r].phase # "idle" BY <1>1, <1>11, SnapshotFacts
  <2>2. \A q \in Snapshot(r) : file'.pages[q] = file.pages[q] OBVIOUS
  <2>3. Snapshot(r)' = Snapshot(r) /\ ReaderIsAt(r)' BY <1>1, <2>1, <2>2, SnapshotStays
  <2>4. SnapshotIsKept(r)' BY <1>1, <1>4, <2>1, <2>3 DEF SnapshotIsKept
  <2> QED BY <2>3, <2>4
<1>12. SnapshotsAreKept' BY <1>11 DEF SnapshotsAreKept
<1> QED BY <1>5, <1>6, <1>7, <1>8, <1>9, <1>10, <1>12 DEF StoreInv

\* The type of the transaction when only its phase changes.
LEMMA PhaseType ==
    ASSUME TypeOK, NEW phase \in {"syncing", "publishing"},
           writer' = [writer EXCEPT !.phase = phase]
    PROVE  /\ DOMAIN writer'.dirty \subseteq Page
           /\ writer' \in [phase : {"none", "open", "writing", "syncing", "publishing"},
                          tx : 0..MaxTx, root : Page \cup {0}, sum : Content,
                          dirty : [DOMAIN writer'.dirty -> Content],
                          freed : Seq(Page), todo : SUBSET Page, holds : Maps]
<1>1. /\ DOMAIN writer.dirty \subseteq Page
      /\ writer \in [phase : {"none", "open", "writing", "syncing", "publishing"},
                    tx : 0..MaxTx, root : Page \cup {0}, sum : Content,
                    dirty : [DOMAIN writer.dirty -> Content],
                    freed : Seq(Page), todo : SUBSET Page, holds : Maps]
  BY DEF TypeOK
<1>2. writer'.dirty = writer.dirty BY <1>1
<1> QED BY <1>1, <1>2

\* The header is written, in the slot that is not in use.
LEMMA HeaderWritten ==
    ASSUME StoreInv, write_header
    PROVE  StoreInv'
<1>1. /\ writer.phase = "writing" /\ writer.todo = {}
      /\ file' = [file EXCEPT !.header = NewHeader]
      /\ written' = [written EXCEPT ![HEADER_PAGE_ID] = written[HEADER_PAGE_ID] \cup {NewHeader}]
      /\ writer' = [writer EXCEPT !.phase = "syncing"]
      /\ UNCHANGED <<synced, memory_vars, cache, active_readers, reader>>
  BY DEF write_header, WriterIn
<1>2. UNCHANGED <<synced, status, header, next_page_id, pending_free_pages, cache,
                  active_readers, reader>>
  BY <1>1 DEF memory_vars
<1>3. NewHeader \in Headers /\ \A s \in 0..1 : SlotOK(NewHeader.commit_slots[s])
  BY <1>1, NewHeaderFacts
<1>4. TypeOK BY DEF StoreInv
<1>5. PICK h : h = NewHeader OBVIOUS
<1>6. /\ file' = [header |-> h, length |-> file.length, pages |-> file.pages]
      /\ file.length \in Nat /\ file.pages \in [Page -> Content]
  BY <1>1, <1>4, <1>5, Types
<1>7. \A p : /\ p # HEADER_PAGE_ID => written'[p] = written[p]
             /\ written'[p] \subseteq written[p] \cup {h}
  BY <1>1, <1>5
<1>8. TypeOK'
  <2>1. file' \in Files BY <1>3, <1>5, <1>6 DEF Files
  <2>2. /\ \A p \in Page : written'[p] \subseteq Content
        /\ written'[HEADER_PAGE_ID] \subseteq Headers
    <3>1. HEADER_PAGE_ID \notin Page BY DEF HEADER_PAGE_ID, Page
    <3> QED BY <1>3, <1>4, <1>5, <1>7, <3>1 DEF TypeOK
  <2>3. /\ DOMAIN writer'.dirty \subseteq Page
        /\ writer' \in [phase : {"none", "open", "writing", "syncing", "publishing"},
                       tx : 0..MaxTx, root : Page \cup {0}, sum : Content,
                       dirty : [DOMAIN writer'.dirty -> Content],
                       freed : Seq(Page), todo : SUBSET Page, holds : Maps]
    BY <1>1, <1>4, PhaseType
  <2> QED BY <1>2, <1>4, <2>1, <2>2, <2>3 DEF TypeOK
<1>9. SlotsAreTrees'
  <2>1. SlotsAreTrees /\ \A s \in 0..1 : SlotOK(h.commit_slots[s])
    BY <1>3, <1>5 DEF StoreInv
  <2>2. file'.header = h BY <1>6
  <2> QED BY <1>2, <1>7, <2>1, <2>2 DEF SlotsAreTrees, SlotOK
<1>10. \A p \in Dirty : file.pages[p] = writer.dirty[p]
  BY <1>1 DEF StoreInv, DirtyIsWritten
<1>11. file'.pages = file.pages BY <1>6
<1>12. \E phase \in {"syncing", "publishing"} : writer' = [writer EXCEPT !.phase = phase]
  BY <1>1
<1> QED BY <1>1, <1>8, <1>9, <1>10, <1>11, <1>12, OnlyTheDisk

\* The sync makes what was written durable.
LEMMA DataSynced ==
    ASSUME StoreInv, sync_data
    PROVE  StoreInv'
<1>1. /\ writer.phase = "syncing" /\ synced' = file /\ written' = NothingWritten
      /\ writer' = [writer EXCEPT !.phase = "publishing"]
      /\ UNCHANGED <<file, memory_vars, cache, active_readers, reader>>
  BY DEF sync_data, WriterIn
<1>2. UNCHANGED <<status, header, next_page_id, pending_free_pages, cache,
                  active_readers, reader>>
  BY <1>1 DEF memory_vars
<1>3. TypeOK /\ SlotsAreTrees BY DEF StoreInv
<1>4. \A p \in Page \cup {HEADER_PAGE_ID} : written'[p] = {} BY <1>1 DEF NothingWritten
<1>5. TypeOK'
  <2>1. /\ DOMAIN writer'.dirty \subseteq Page
        /\ writer' \in [phase : {"none", "open", "writing", "syncing", "publishing"},
                       tx : 0..MaxTx, root : Page \cup {0}, sum : Content,
                       dirty : [DOMAIN writer'.dirty -> Content],
                       freed : Seq(Page), todo : SUBSET Page, holds : Maps]
    BY <1>1, <1>3, PhaseType
  <2> QED BY <1>1, <1>2, <1>3, <1>4, <2>1 DEF TypeOK
<1>6. SlotsAreTrees' BY <1>1, <1>2, <1>3, <1>4 DEF SlotsAreTrees, SlotOK
<1>7. writer.todo = {} /\ \A p \in Dirty : file.pages[p] = writer.dirty[p]
  BY <1>1 DEF StoreInv, DirtyIsWritten
<1>8. \E phase \in {"syncing", "publishing"} : writer' = [writer EXCEPT !.phase = phase]
  BY <1>1
<1> QED BY <1>1, <1>5, <1>6, <1>7, <1>8, OnlyTheDisk

\* The pages the commit frees join the queue.
LEMMA QueueGrows ==
    ASSUME StoreInv, writer.phase # "none"
    PROVE  LET q == pending_free_pages \o Freed(writer.tx)
           IN  /\ q \in Seq(FreedPages)
               /\ \A i \in DOMAIN q :
                     \/ i \in DOMAIN pending_free_pages /\ q[i] = pending_free_pages[i]
                     \/ \E j \in DOMAIN writer.freed :
                           /\ i = Len(pending_free_pages) + j /\ i \notin DOMAIN pending_free_pages
                           /\ q[i].page_id = writer.freed[j]
                           /\ q[i].transaction_id = writer.tx
<1> DEFINE p == pending_free_pages
           f == writer.freed
           g == Freed(writer.tx)
           q == p \o g
<1>1. p \in Seq(FreedPages) BY DEF StoreInv, TypeOK, FreedPages
<1>2. f \in Seq(Page) /\ writer.tx \in 0..MaxTx /\ MaxTx \in Nat BY Types DEF StoreInv
<1>3. writer.tx \in 1..MaxTx
  <2>1. writer.tx = Current.transaction_id + 1 /\ Current.transaction_id \in 0..MaxTx
    BY DraftFacts, CurrentFacts
  <2> QED BY <1>2, <2>1
<1>4. PICK n \in Nat : n = Len(f) /\ DOMAIN f = 1..n BY <1>2, LenProperties
<1>5. \A i \in 1..n : f[i] \in Page BY <1>2, <1>4, LenProperties
<1>6. g = [i \in 1..n |-> [page_id |-> f[i], transaction_id |-> writer.tx]]
  BY <1>4 DEF Freed
<1> HIDE DEF f, g, p
<1>7. g \in Seq(FreedPages) /\ Len(g) = n
  <2>1. g \in [1..n -> FreedPages] BY <1>3, <1>5, <1>6 DEF FreedPages
  <2> QED BY <1>4, <2>1
<1>8. /\ q \in Seq(FreedPages) /\ Len(q) = Len(p) + Len(g)
      /\ \A i \in 1..(Len(p) + Len(g)) : q[i] = IF i <= Len(p) THEN p[i] ELSE g[i - Len(p)]
  BY <1>1, <1>7, ConcatProperties
<1>9. Len(p) \in Nat /\ DOMAIN p = 1..Len(p) BY <1>1, LenProperties
<1> HIDE DEF q
<1>10. DOMAIN q = 1..(Len(p) + n) BY <1>7, <1>8, LenProperties
<1>11. ASSUME NEW i \in DOMAIN q
       PROVE  \/ i \in DOMAIN p /\ q[i] = p[i]
              \/ \E j \in 1..n : /\ i = Len(p) + j /\ i \notin DOMAIN p
                                 /\ q[i].page_id = f[j] /\ q[i].transaction_id = writer.tx
  <2>1. CASE i <= Len(p) BY <1>7, <1>8, <1>9, <1>10, <2>1
  <2>2. CASE ~(i <= Len(p))
    <3>1. PICK j \in 1..n : j = i - Len(p) BY <1>9, <1>10, <2>2
    <3>2. i = Len(p) + j /\ i \notin DOMAIN p BY <1>9, <1>10, <2>2, <3>1
    <3>3. q[i] = g[j] BY <1>7, <1>8, <1>10, <2>2, <3>1
    <3>4. q[i].page_id = f[j] /\ q[i].transaction_id = writer.tx BY <1>6, <3>3
    <3> QED BY <3>2, <3>4
  <2> QED BY <2>1, <2>2
<1> QED BY <1>4, <1>8, <1>11 DEF q, p, g, f

\* The new snapshot is published: what the old one alone has is free from now on, and
\* every reader there is holds it back.
LEMMA Published ==
    ASSUME StoreInv, PreemptedBegin = FALSE, publish
    PROVE  StoreInv'
<1> DEFINE q == pending_free_pages
           tx == writer.tx
           new == pending_free_pages \o Freed(tx)
           slot == CommitSlot(writer.root, writer.sum, tx, next_page_id)
<1>1. /\ writer.phase = "publishing" /\ \A r \in Reader : reader[r].phase # "begun"
      /\ header' = NewHeader /\ q' = new /\ writer' = NoWriter
      /\ UNCHANGED <<disk_vars, status, next_page_id, cache, active_readers, reader>>
  BY DEF publish, WriterIn
<1>2. UNCHANGED <<file, synced, written, status, next_page_id, cache, active_readers, reader>>
  BY <1>1 DEF disk_vars
<1>3. /\ NewHeader \in Headers /\ \A s \in 0..1 : SlotOK(NewHeader.commit_slots[s])
      /\ active_slot(NewHeader) = slot
  BY <1>1, NewHeaderFacts
<1>4. /\ new \in Seq(FreedPages)
      /\ \A i \in DOMAIN new :
            \/ i \in DOMAIN q /\ new[i] = q[i]
            \/ \E j \in DOMAIN writer.freed :
                  /\ i = Len(q) + j /\ i \notin DOMAIN q
                  /\ new[i].page_id = writer.freed[j] /\ new[i].transaction_id = tx
  BY <1>1, QueueGrows
<1> HIDE DEF new
<1>5. TypeOK /\ PagesAreApart /\ DraftIsHeld /\ DirtyIsWritten BY DEF StoreInv
<1>6. TypeOK'
  <2>1. /\ DOMAIN writer'.dirty \subseteq Page
        /\ writer' \in [phase : {"none", "open", "writing", "syncing", "publishing"},
                       tx : 0..MaxTx, root : Page \cup {0}, sum : Content,
                       dirty : [DOMAIN writer'.dirty -> Content],
                       freed : Seq(Page), todo : SUBSET Page, holds : Maps]
    BY <1>1, NoWriterType
  <2>2. pending_free_pages' \in Seq([page_id : Page, transaction_id : 1..MaxTx])
    BY <1>1, <1>4 DEF FreedPages
  <2>3. header' \in Headers BY <1>1, <1>3
  <2> QED BY <1>2, <1>5, <2>1, <2>2, <2>3 DEF TypeOK
<1>7. /\ Current' = slot /\ slot.root_page_id = writer.root
      /\ slot.root_page_checksum = writer.sum /\ slot.transaction_id = tx
      /\ slot.next_page_id = next_page_id
  BY <1>1, <1>3 DEF Current, CommitSlot
<1>8. CurrentTree' = Draft BY <1>7 DEF CurrentTree, Draft
<1>9. Dirty' = {} BY <1>1, NoWriterType DEF Dirty
<1>10. /\ status = "up" /\ tx = Current.transaction_id + 1
       /\ WellFormed(writer.root, writer.sum, next_page_id)
       /\ Held(Over(writer.dirty, file.pages), writer.root, writer.sum)
       /\ \A p \in Draft : /\ p \in CurrentTree \/ p \in Dirty
                           /\ p \in Page /\ p < next_page_id
  BY <1>1, DraftFacts
<1>11. \A i \in DOMAIN writer.freed :
          /\ writer.freed[i] \in CurrentTree /\ writer.freed[i] \notin Draft
          /\ \A j \in DOMAIN writer.freed : writer.freed[j] = writer.freed[i] => j = i
  BY <1>1, <1>5 DEF DraftIsHeld
<1>12. \A i \in DOMAIN q :
          /\ q[i].page_id < next_page_id /\ q[i].page_id \notin CurrentTree
          /\ q[i].page_id \notin Dirty
          /\ \A j \in DOMAIN q : q[i].page_id = q[j].page_id => i = j
  BY <1>5 DEF PagesAreApart, Free
<1>13. \A p \in CurrentTree : p < next_page_id BY <1>10, CurrentFacts
<1>14. SlotsAreTrees'
  BY <1>1, <1>2, <1>3 DEF StoreInv, SlotsAreTrees, SlotOK
<1>15. CurrentIsHeld'
  <2>1. Over(writer.dirty, file.pages) = file.pages
    <3>1. \A p \in Dirty : file.pages[p] = writer.dirty[p] BY <1>1, <1>5 DEF DirtyIsWritten
    <3>2. file.pages \in [Page -> Content] /\ Dirty \in SUBSET Page BY <1>5, Types
    <3> QED BY <3>1, <3>2 DEF Over, Dirty
  <2>2. Held(file.pages, writer.root, writer.sum) BY <1>10, <2>1
  <2>3. next_page_id <= next_page_id
    <3>1. next_page_id \in Nat BY <1>5, Types
    <3> QED BY <3>1
  <2> HIDE DEF slot
  <2> QED BY <1>2, <1>7, <2>2, <2>3 DEF CurrentIsHeld
<1> HIDE DEF slot
<1>16. PagesAreApart'
  <2>1. ASSUME NEW i \in DOMAIN new, NEW j \in DOMAIN new, new[i].page_id = new[j].page_id
        PROVE  i = j
    <3>1. CASE i \in DOMAIN q /\ j \in DOMAIN q BY <1>4, <1>12, <2>1, <3>1
    <3>2. CASE i \in DOMAIN q /\ j \notin DOMAIN q BY <1>4, <1>11, <1>12, <2>1, <3>2
    <3>3. CASE i \notin DOMAIN q /\ j \in DOMAIN q BY <1>4, <1>11, <1>12, <2>1, <3>3
    <3>4. CASE i \notin DOMAIN q /\ j \notin DOMAIN q
      <4>1. PICK k \in DOMAIN writer.freed : i = Len(q) + k /\ new[i].page_id = writer.freed[k]
        BY <1>4, <3>4
      <4>2. PICK l \in DOMAIN writer.freed : j = Len(q) + l /\ new[j].page_id = writer.freed[l]
        BY <1>4, <3>4
      <4>3. k = l BY <1>11, <2>1, <4>1, <4>2
      <4> QED BY <4>1, <4>2, <4>3
    <3> QED BY <3>1, <3>2, <3>3, <3>4
  <2>2. ASSUME NEW i \in DOMAIN new
        PROVE  new[i].page_id < next_page_id /\ new[i].page_id \notin Draft
    BY <1>4, <1>10, <1>11, <1>12, <1>13
  <2>3. pending_free_pages' = new BY <1>1
  <2> QED BY <1>2, <1>8, <1>9, <2>1, <2>2, <2>3 DEF PagesAreApart, Free
<1>17. DraftIsHeld' BY <1>1, NoWriterType DEF DraftIsHeld
<1>18. DirtyIsWritten' BY <1>1, <1>9, NoWriterType DEF DirtyIsWritten
<1>19. CacheIsCurrent' /\ ReadersAreTracked'
  BY <1>2 DEF StoreInv, CacheIsCurrent, ReadersAreTracked, Registered
<1>20. ASSUME NEW r \in Reader, reader'[r].phase # "idle"
       PROVE  SnapshotIsKept(r)' /\ ReaderIsAt(r)'
  <2>1. SnapshotIsKept(r) /\ reader[r].phase # "idle" BY <1>2, <1>20, SnapshotFacts
  <2>2. /\ Snapshot(r)' = Snapshot(r) /\ ReaderIsAt(r)'
        /\ file'.pages[reader[r].root] = file.pages[reader[r].root]
    BY <1>2, <2>1, SnapshotStays
  <2>3. reader[r].tx < tx /\ reader[r].tx <= tx
    <3>1. reader[r].tx <= Current.transaction_id /\ reader[r].tx \in 0..MaxTx
          /\ Current.transaction_id \in 0..MaxTx /\ MaxTx \in Nat
      BY <1>5, <2>1, CurrentFacts, Types DEF SnapshotIsKept
    <3> QED BY <1>10, <3>1
  <2>4. ASSUME NEW i \in DOMAIN new, new[i].page_id \in Snapshot(r)
        PROVE  new[i].transaction_id > reader[r].tx
    <3>1. CASE i \in DOMAIN q BY <1>4, <2>1, <2>4, <3>1 DEF SnapshotIsKept
    <3>2. CASE i \notin DOMAIN q
      <4>1. new[i].transaction_id = tx BY <1>4, <3>2
      <4>2. reader[r].tx \in 0..MaxTx /\ tx \in 0..MaxTx /\ MaxTx \in Nat BY <1>5, Types
      <4> HIDE DEF tx
      <4> QED BY <2>3, <4>1, <4>2
    <3> QED BY <3>1, <3>2
  <2>5. pending_free_pages' = new /\ reader'[r] = reader[r] BY <1>1, <1>2
  <2>6. SnapshotIsKept(r)'
    BY <1>1, <1>2, <1>7, <1>9, <2>1, <2>2, <2>3, <2>4, <2>5 DEF SnapshotIsKept
  <2> QED BY <2>2, <2>6
<1>21. SnapshotsAreKept' BY <1>20 DEF SnapshotsAreKept
<1> QED BY <1>6, <1>14, <1>15, <1>16, <1>17, <1>18, <1>19, <1>21 DEF StoreInv

\* Every step of the writer keeps the invariant.
LEMMA WriterSteps ==
    ASSUME StoreInv, PreemptedBegin = FALSE, write_transaction
    PROVE  StoreInv'
<1>1. CASE begin_write BY <1>1, WriteBegun
<1>2. CASE abandon BY <1>2, WriterGone DEF abandon
<1>3. CASE commit BY <1>3, Committed
<1>4. CASE write_header BY <1>4, HeaderWritten
<1>5. CASE sync_data BY <1>5, DataSynced
<1>6. CASE publish BY <1>6, Published
<1>7. CASE commit_fails BY <1>7, WriterGone DEF commit_fails
<1>8. ASSUME NEW key \in Key, NEW value \in Value, insert(key, value) PROVE StoreInv'
  BY <1>8, Inserted
<1>9. ASSUME NEW p \in writer.todo, write_page(p) PROVE StoreInv' BY <1>9, PageWritten
<1> QED BY <1>1, <1>2, <1>3, <1>4, <1>5, <1>6, <1>7, <1>8, <1>9 DEF write_transaction

-----------------------------------------------------------------------------
(* The steps of the read transactions. *)

\* The snapshot a transaction that begins now would have.
LEMMA CurrentSnapshot ==
    ASSUME StoreInv, status = "up"
    PROVE  LET root == Current.root_page_id
               sum == file.pages[root]
           IN  /\ WellFormed(root, sum, next_page_id) /\ Held(file.pages, root, sum)
               /\ TreePages(file.pages, root) = CurrentTree
               /\ Contents(file.pages, root) \in Maps
<1> DEFINE root == Current.root_page_id
           sum == Current.root_page_checksum
<1>1. Held(file.pages, root, sum) /\ Current.next_page_id <= next_page_id
  BY DEF StoreInv, CurrentIsHeld
<1>2. SlotOK(Current) /\ Current.next_page_id \in 2..MaxPages BY CurrentFacts
<1>3. MaxPages \in Nat /\ next_page_id \in Nat BY Types DEF StoreInv
<1>4. PICK next \in Nat : next = Current.next_page_id BY <1>2, <1>3
<1>5. WellFormed(root, sum, next) BY <1>2, <1>4 DEF SlotOK
<1>6. WellFormed(root, sum, next_page_id) BY <1>1, <1>3, <1>4, <1>5, TreeIsBelow
<1>7. /\ file.pages[root] = sum /\ TreePages(file.pages, root) = Tree(root, sum)
      /\ Contents(file.pages, root) \in Maps
  BY <1>1, <1>5, TreeIsRead
<1> QED BY <1>1, <1>6, <1>7 DEF CurrentTree

\* Only one reader, the cache and the tracker change.
LEMMA OnlyTheReader ==
    ASSUME StoreInv, TypeOK', CacheIsCurrent', ReadersAreTracked', NEW r \in Reader,
           UNCHANGED <<disk_vars, memory_vars, writer>>,
           \A s \in Reader : s # r => reader'[s] = reader[s],
           reader'[r].phase # "idle" => SnapshotIsKept(r)' /\ ReaderIsAt(r)'
    PROVE  StoreInv'
<1>1. UNCHANGED <<file, synced, written, status, header, next_page_id, pending_free_pages,
                  writer>>
  BY DEF disk_vars, memory_vars
<1>2. /\ SlotsAreTrees /\ CurrentIsHeld /\ PagesAreApart /\ DraftIsHeld /\ DirtyIsWritten
  BY DEF StoreInv
<1>3. /\ Current' = Current /\ CurrentTree' = CurrentTree /\ Free' = Free /\ Dirty' = Dirty
      /\ Draft' = Draft
  BY <1>1 DEF Current, CurrentTree, active_slot, Free, Dirty, Draft
<1>4. SlotsAreTrees' BY <1>1, <1>2 DEF SlotsAreTrees, SlotOK
<1>5. CurrentIsHeld' BY <1>1, <1>2, <1>3 DEF CurrentIsHeld
<1>6. PagesAreApart' BY <1>1, <1>2, <1>3 DEF PagesAreApart
<1>7. DraftIsHeld' BY <1>1, <1>2, <1>3 DEF DraftIsHeld
<1>8. DirtyIsWritten' BY <1>1, <1>2, <1>3 DEF DirtyIsWritten
<1>9. ASSUME NEW s \in Reader, reader'[s].phase # "idle"
      PROVE  SnapshotIsKept(s)' /\ ReaderIsAt(s)'
  <2>1. CASE s = r BY <2>1, <1>9
  <2>2. CASE s # r
    <3>1. reader'[s] = reader[s] BY <2>2
    <3>2. SnapshotIsKept(s) /\ ReaderIsAt(s) BY <1>9, <3>1, SnapshotFacts
    <3>3. Snapshot(s)' = Snapshot(s) BY <1>1, <3>1 DEF Snapshot
    <3>4. ReaderIsAt(s)' BY <1>1, <3>1, <3>2 DEF ReaderIsAt
    <3>5. SnapshotIsKept(s)' BY <1>1, <1>3, <3>1, <3>2, <3>3 DEF SnapshotIsKept
    <3> QED BY <3>4, <3>5
  <2> QED BY <2>1, <2>2
<1>10. SnapshotsAreKept' BY <1>9 DEF SnapshotsAreKept
<1> QED BY <1>4, <1>5, <1>6, <1>7, <1>8, <1>10 DEF StoreInv

\* The type of a read transaction.
ReaderType == [phase : {"idle", "begun", "open", "reading", "read", "done"},
               tx : 0..MaxTx, root : Page \cup {0}, key : Key \cup {None},
               page : Page \cup {0}, data : Content, sees : Maps]

\* A reader goes on with the snapshot it has.
LEMMA ReaderGoesOn ==
    ASSUME StoreInv, NEW r \in Reader, reader[r].phase # "idle",
           NEW next \in ReaderType, reader' = [reader EXCEPT ![r] = next],
           next.phase \notin {"idle", "begun"},
           next.tx = reader[r].tx, next.root = reader[r].root, next.sees = reader[r].sees,
           UNCHANGED <<disk_vars, memory_vars, writer>>,
           cache' \in [Page -> Content \cup {None}], CacheIsCurrent',
           active_readers' \in [0..MaxTx -> 0..Cardinality(Reader)], ReadersAreTracked',
           ReaderIsAt(r)'
    PROVE  StoreInv'
<1>1. UNCHANGED <<file, synced, written, status, header, next_page_id, pending_free_pages,
                  writer>>
  BY DEF disk_vars, memory_vars
<1>2. TypeOK /\ reader \in [Reader -> ReaderType] BY DEF StoreInv, TypeOK, ReaderType
<1>3. reader' \in [Reader -> ReaderType] BY <1>2
<1>4. TypeOK' BY <1>1, <1>2, <1>3 DEF TypeOK, ReaderType
<1>5. reader'[r] = next /\ \A s \in Reader : s # r => reader'[s] = reader[s] BY <1>2
<1>6. SnapshotIsKept(r)'
  <2>1. SnapshotIsKept(r) BY SnapshotFacts
  <2>2. /\ Current' = Current /\ Dirty' = Dirty /\ Snapshot(r)' = Snapshot(r)
    BY <1>1, <1>5 DEF Current, active_slot, Dirty, Snapshot
  <2> QED BY <1>1, <1>5, <2>1, <2>2 DEF SnapshotIsKept
<1> QED BY <1>4, <1>5, <1>6, OnlyTheReader

\* What the tracker counts: the registered readers of one transaction id.
Of(t) == {x \in Registered : reader[x].tx = t}

\* The tracker's count is the number of the registered readers of each transaction.
LEMMA TrackerType ==
    ASSUME TypeOK, ReadersAreTracked
    PROVE  /\ active_readers \in [0..MaxTx -> 0..Cardinality(Reader)]
           /\ \A t \in 0..MaxTx : /\ active_readers[t] = Cardinality(Of(t))
                                  /\ Of(t) \in SUBSET Reader /\ IsFiniteSet(Of(t))
                                  /\ Cardinality(Of(t)) \in Nat
           /\ Cardinality(Reader) \in Nat
<1>1. IsFiniteSet(Reader) BY StoreAssumption
<1>2. ASSUME NEW t \in 0..MaxTx
      PROVE  /\ active_readers[t] = Cardinality(Of(t))
             /\ Of(t) \in SUBSET Reader /\ IsFiniteSet(Of(t)) /\ Cardinality(Of(t)) \in Nat
  <2>1. active_readers[t] = Cardinality(Of(t)) BY DEF ReadersAreTracked, Of
  <2>2. Of(t) \in SUBSET Reader BY DEF Of, Registered
  <2> QED BY <1>1, <2>1, <2>2, FS_Subset, FS_CardinalityType
<1>3. Cardinality(Reader) \in Nat BY <1>1, FS_CardinalityType
<1> QED BY <1>2, <1>3 DEF TypeOK

\* A reader that stays registered, or stays unregistered, is counted as before.
LEMMA TrackedStill ==
    ASSUME StoreInv, NEW r \in Reader, UNCHANGED active_readers,
           \A s \in Reader : s # r => reader'[s] = reader[s],
           r \in Registered <=> r \in Registered',
           r \in Registered => reader'[r].tx = reader[r].tx
    PROVE  /\ ReadersAreTracked'
           /\ active_readers' \in [0..MaxTx -> 0..Cardinality(Reader)]
<1>1. TypeOK /\ ReadersAreTracked BY DEF StoreInv
<1>2. \A s \in Reader : /\ s \in Registered' <=> s \in Registered
                        /\ s \in Registered => reader'[s].tx = reader[s].tx
  BY DEF Registered
<1>3. Registered' = Registered /\ \A s \in Registered : reader'[s].tx = reader[s].tx
  BY <1>2 DEF Registered
<1>4. \A t : {x \in Registered' : reader'[x].tx = t} = {x \in Registered : reader[x].tx = t}
  BY <1>3
<1>5. ReadersAreTracked' BY <1>1, <1>4 DEF ReadersAreTracked
<1> QED BY <1>1, <1>5, TrackerType

\* One reader more, or one less.
LEMMA TrackedMore ==
    ASSUME StoreInv, NEW r \in Reader,
           active_readers' = [active_readers EXCEPT ![reader[r].tx] = @ + 1],
           \A s \in Reader : s # r => reader'[s] = reader[s],
           r \notin Registered, r \in Registered', reader'[r].tx = reader[r].tx
    PROVE  /\ ReadersAreTracked'
           /\ active_readers' \in [0..MaxTx -> 0..Cardinality(Reader)]
<1>t. TypeOK /\ ReadersAreTracked /\ reader[r].tx \in 0..MaxTx BY Types DEF StoreInv
<1>1. PICK tx \in 0..MaxTx : tx = reader[r].tx BY <1>t
<1>2. /\ active_readers \in [0..MaxTx -> 0..Cardinality(Reader)]
      /\ \A t \in 0..MaxTx : /\ active_readers[t] = Cardinality(Of(t))
                             /\ Of(t) \in SUBSET Reader /\ IsFiniteSet(Of(t))
                             /\ Cardinality(Of(t)) \in Nat
      /\ Cardinality(Reader) \in Nat
  BY <1>t, TrackerType
<1>3. \A s \in Reader : s # r => /\ s \in Registered' <=> s \in Registered
                                 /\ reader'[s].tx = reader[s].tx
  BY DEF Registered
<1>4. \A t : Of(t)' = IF t = tx THEN Of(t) \cup {r} ELSE Of(t)
  <2> TAKE t
  <2>1. \A s \in Reader : s \in Of(t)' <=> s \in Of(t) \/ (s = r /\ t = tx)
    BY <1>1, <1>3 DEF Of
  <2>2. Of(t)' \subseteq Reader /\ Of(t) \subseteq Reader BY DEF Of, Registered
  <2> QED BY <2>1, <2>2
<1>5. r \notin Of(tx) BY <1>1 DEF Of
<1>6. Cardinality(Of(tx)') = Cardinality(Of(tx)) + 1
      /\ Cardinality(Of(tx)') \in 0..Cardinality(Reader)
  <2>1. Of(tx)' = Of(tx) \cup {r} BY <1>4
  <2>2. IsFiniteSet(Reader) BY StoreAssumption
  <2>3. Of(tx) \cup {r} \in SUBSET Reader BY <1>1, <1>2
  <2>4. Cardinality(Of(tx) \cup {r}) = Cardinality(Of(tx)) + 1
    BY <1>1, <1>2, <1>5, FS_AddElement
  <2>5. Cardinality(Of(tx) \cup {r}) <= Cardinality(Reader) BY <2>2, <2>3, FS_Subset
  <2> QED BY <1>1, <1>2, <2>1, <2>4, <2>5
<1>7. \A t \in 0..MaxTx : active_readers'[t] = Cardinality(Of(t)')
  <2> TAKE t \in 0..MaxTx
  <2>1. CASE t = tx BY <1>1, <1>2, <1>6, <2>1
  <2>2. CASE t # tx BY <1>1, <1>2, <1>4, <2>2
  <2> QED BY <2>1, <2>2
<1>8. active_readers' \in [0..MaxTx -> 0..Cardinality(Reader)]
  <2>1. active_readers'[tx] \in 0..Cardinality(Reader) BY <1>1, <1>6, <1>7
  <2>2. active_readers' = [t \in 0..MaxTx |->
                             IF t = tx THEN active_readers'[tx] ELSE active_readers[t]]
    BY <1>1, <1>2
  <2>3. \A t \in 0..MaxTx : active_readers[t] \in 0..Cardinality(Reader) BY <1>2
  <2> QED BY <2>1, <2>2, <2>3
<1>9. ReadersAreTracked'
  <2>1. active_readers' = [t \in 0..MaxTx |-> active_readers'[t]] BY <1>8
  <2>2. \A t \in 0..MaxTx : active_readers'[t]
                               = Cardinality({x \in Registered' : reader'[x].tx = t})
    BY <1>7 DEF Of
  <2> QED BY <2>1, <2>2 DEF ReadersAreTracked
<1> QED BY <1>8, <1>9

\* A reader that ends is counted no more.
LEMMA TrackedLess ==
    ASSUME StoreInv, NEW r \in Reader,
           active_readers' = [active_readers EXCEPT ![reader[r].tx] = @ - 1],
           \A s \in Reader : s # r => reader'[s] = reader[s],
           r \in Registered, r \notin Registered'
    PROVE  /\ ReadersAreTracked'
           /\ active_readers' \in [0..MaxTx -> 0..Cardinality(Reader)]
<1>t. TypeOK /\ ReadersAreTracked /\ reader[r].tx \in 0..MaxTx BY Types DEF StoreInv
<1>1. PICK tx \in 0..MaxTx : tx = reader[r].tx BY <1>t
<1>2. /\ active_readers \in [0..MaxTx -> 0..Cardinality(Reader)]
      /\ \A t \in 0..MaxTx : /\ active_readers[t] = Cardinality(Of(t))
                             /\ Of(t) \in SUBSET Reader /\ IsFiniteSet(Of(t))
                             /\ Cardinality(Of(t)) \in Nat
      /\ Cardinality(Reader) \in Nat
  BY <1>t, TrackerType
<1>3. \A s \in Reader : s # r => /\ s \in Registered' <=> s \in Registered
                                 /\ reader'[s].tx = reader[s].tx
  BY DEF Registered
<1>4. \A t : Of(t)' = IF t = tx THEN Of(t) \ {r} ELSE Of(t)
  <2> TAKE t
  <2>1. \A s \in Reader : s \in Of(t)' <=> s \in Of(t) /\ s # r
    BY <1>1, <1>3 DEF Of
  <2>2. Of(t)' \subseteq Reader /\ Of(t) \subseteq Reader BY DEF Of, Registered
  <2>3. r \in Of(t) => t = tx BY <1>1 DEF Of
  <2> QED BY <2>1, <2>2, <2>3
<1>5. r \in Of(tx) BY <1>1 DEF Of
<1>6. Cardinality(Of(tx)') = Cardinality(Of(tx)) - 1
      /\ Cardinality(Of(tx)') \in 0..Cardinality(Reader)
  <2>1. Of(tx)' = Of(tx) \ {r} BY <1>4
  <2>2. IsFiniteSet(Reader) BY StoreAssumption
  <2>3. Of(tx) \ {r} \in SUBSET Reader BY <1>1, <1>2
  <2>4. Cardinality(Of(tx) \ {r}) = Cardinality(Of(tx)) - 1
    BY <1>1, <1>2, <1>5, FS_RemoveElement
  <2>5. Cardinality(Of(tx) \ {r}) <= Cardinality(Reader) /\ IsFiniteSet(Of(tx) \ {r})
    BY <2>2, <2>3, FS_Subset
  <2>6. Cardinality(Of(tx) \ {r}) \in Nat BY <2>5, FS_CardinalityType
  <2> QED BY <1>1, <1>2, <2>1, <2>4, <2>5, <2>6
<1>7. \A t \in 0..MaxTx : active_readers'[t] = Cardinality(Of(t)')
  <2> TAKE t \in 0..MaxTx
  <2>1. CASE t = tx BY <1>1, <1>2, <1>6, <2>1
  <2>2. CASE t # tx BY <1>1, <1>2, <1>4, <2>2
  <2> QED BY <2>1, <2>2
<1>8. active_readers' \in [0..MaxTx -> 0..Cardinality(Reader)]
  <2>1. active_readers'[tx] \in 0..Cardinality(Reader) BY <1>1, <1>6, <1>7
  <2>2. active_readers' = [t \in 0..MaxTx |->
                             IF t = tx THEN active_readers'[tx] ELSE active_readers[t]]
    BY <1>1, <1>2
  <2>3. \A t \in 0..MaxTx : active_readers[t] \in 0..Cardinality(Reader) BY <1>2
  <2> QED BY <2>1, <2>2, <2>3
<1>9. ReadersAreTracked'
  <2>1. active_readers' = [t \in 0..MaxTx |-> active_readers'[t]] BY <1>8
  <2>2. \A t \in 0..MaxTx : active_readers'[t]
                               = Cardinality({x \in Registered' : reader'[x].tx = t})
    BY <1>7 DEF Of
  <2> QED BY <2>1, <2>2 DEF ReadersAreTracked
<1> QED BY <1>8, <1>9

\* A reader that has a page on the way to its key goes on to the leaf or is there.
LEMMA Visited ==
    ASSUME StoreInv, NEW r \in Reader, reader[r].phase # "idle", NEW key \in Key,
           NEW p \in {reader[r].root, LeafPage(file.pages, reader[r].root, key)},
           Visit(r, key, file.pages[p]), UNCHANGED file
    PROVE  /\ ReaderIsAt(r)' /\ \A s \in Reader : s # r => reader'[s] = reader[s]
           /\ \E next \in ReaderType :
                 /\ reader' = [reader EXCEPT ![r] = next] /\ reader'[r] = next
                 /\ next.phase \in {"reading", "done"} /\ next.tx = reader[r].tx
                 /\ next.root = reader[r].root /\ next.sees = reader[r].sees
<1> DEFINE old == reader[r]
           root == reader[r].root
           way == LeafPage(file.pages, root, key)
           content == file.pages[p]
           branch == content.kind = "branch"
           next == [old EXCEPT !.phase = IF branch THEN "reading" ELSE "done",
                               !.key = key,
                               !.page = IF branch THEN child_page_id_for_key(content, key)
                                        ELSE 0,
                               !.data = IF branch THEN Zero ELSE content]
<1>1. TypeOK /\ reader \in [Reader -> ReaderType] /\ old \in ReaderType
  BY DEF StoreInv, TypeOK, ReaderType
<1>2. reader' = [reader EXCEPT ![r] = next]
  <2>1. reader = [s \in Reader |-> reader[s]] BY <1>1
  <2> QED BY <2>1 DEF Visit
<1>3. reader'[r] = next /\ \A s \in Reader : s # r => reader'[s] = reader[s]
  BY <1>1, <1>2
<1>4. /\ SnapshotIsKept(r) /\ root \in Snapshot(r) /\ way \in Snapshot(r)
      /\ Snapshot(r) = Tree(root, file.pages[root]) /\ \A x \in Snapshot(r) : x \in Page
  BY SnapshotFacts
<1>5. next_page_id \in Nat /\ \A x \in Page : file.pages[x] \in Content
  BY <1>1, Types
<1>6. file.pages[way] \in Leaves
  <2>1. WellFormed(root, file.pages[root], next_page_id)
        /\ Held(file.pages, root, file.pages[root])
    BY <1>4 DEF SnapshotIsKept
  <2> HIDE DEF root
  <2> QED BY <1>5, <2>1, TreeIsRead
<1>7. content \in Content BY <1>4, <1>5
<1>8. branch => p = root /\ child_page_id_for_key(content, key) = way
  <2>1. p = way => ~branch BY <1>6, LeafFacts
  <2> HIDE DEF way
  <2>2. branch => p = root BY <2>1 DEF way
  <2> QED BY <2>2 DEF LeafPage, way
<1>9. ~branch => content = file.pages[way]
  <2>1. p = root /\ ~branch => way = root BY DEF LeafPage
  <2> QED BY <2>1
<1>10. Zero \in Content BY DEF Content
<1> HIDE DEF way, content, branch, root, old
<1>11. /\ next \in ReaderType
       /\ next.phase = (IF branch THEN "reading" ELSE "done") /\ next.tx = old.tx
       /\ next.root = old.root /\ next.sees = old.sees /\ next.key = key
       /\ next.page = (IF branch THEN child_page_id_for_key(content, key) ELSE 0)
       /\ next.data = (IF branch THEN Zero ELSE content)
  BY <1>1, <1>4, <1>7, <1>8, <1>10 DEF ReaderType
<1> HIDE DEF next
<1>12. ReaderIsAt(r)'
  <2>1. reader'[r].root = root /\ reader'[r].key = key BY <1>3, <1>11 DEF root, old
  <2>2. LeafPage(file'.pages, reader'[r].root, reader'[r].key) = way BY <2>1 DEF way
  <2>3. branch => reader'[r].phase = "reading" /\ reader'[r].page = way
    BY <1>3, <1>8, <1>11
  <2>4. ~branch => reader'[r].phase = "done" /\ reader'[r].data = file'.pages[way]
    BY <1>3, <1>9, <1>11
  <2> QED BY <2>1, <2>2, <2>3, <2>4 DEF ReaderIsAt
<1> QED BY <1>2, <1>3, <1>11, <1>12 DEF old

\* The page a reader looks at next.
LEMMA AtFacts ==
    ASSUME StoreInv, NEW r \in Reader, reader[r].phase \in {"open", "done", "reading"},
           NEW key \in Keys(r)
    PROVE  /\ key \in Key /\ At(r) \in Page
           /\ At(r) \in {reader[r].root, LeafPage(file.pages, reader[r].root, key)}
<1>1. /\ ReaderIsAt(r) /\ reader[r].root \in Snapshot(r)
      /\ \A p \in Snapshot(r) : p \in Page
      /\ \A k \in Key : LeafPage(file.pages, reader[r].root, k) \in Snapshot(r)
  BY SnapshotFacts
<1>2. CASE reader[r].phase = "reading" BY <1>1, <1>2 DEF Keys, At, ReaderIsAt
<1>3. CASE reader[r].phase # "reading" BY <1>1, <1>3 DEF Keys, At
<1> QED BY <1>2, <1>3

\* The cache has pages of the file.
LEMMA CacheType ==
    ASSUME StoreInv
    PROVE  cache \in [Page -> Content \cup {None}] /\ CacheIsCurrent
BY DEF StoreInv, TypeOK

\* A reader takes a page from the cache.
LEMMA ReadCached ==
    ASSUME StoreInv, NEW r \in Reader, read_cached(r)
    PROVE  StoreInv'
<1>1. PICK key \in Keys(r) : Visit(r, key, cache[At(r)]) BY DEF read_cached
<1>2. /\ reader[r].phase \in {"open", "done", "reading"} /\ cache[At(r)] # None
      /\ UNCHANGED <<disk_vars, memory_vars, cache, active_readers, writer>>
  BY DEF read_cached
<1>3. UNCHANGED <<file, cache>> BY <1>2 DEF disk_vars
<1>4. PICK p : p = At(r) OBVIOUS
<1>5. key \in Key /\ p \in Page /\ p \in {reader[r].root, LeafPage(file.pages, reader[r].root, key)}
  BY <1>2, <1>4, AtFacts
<1>6. Visit(r, key, file.pages[p])
  <2>1. cache[p] = file.pages[p] BY <1>2, <1>4, <1>5, CacheType DEF CacheIsCurrent
  <2> QED BY <1>1, <1>4, <2>1
<1>7. ReaderIsAt(r)' /\ \A s \in Reader : s # r => reader'[s] = reader[s]
  BY <1>2, <1>3, <1>5, <1>6, Visited
<1>8. PICK next \in ReaderType :
         /\ reader' = [reader EXCEPT ![r] = next] /\ reader'[r] = next
         /\ next.phase \in {"reading", "done"} /\ next.tx = reader[r].tx
         /\ next.root = reader[r].root /\ next.sees = reader[r].sees
  BY <1>2, <1>3, <1>5, <1>6, Visited
<1>9. ReadersAreTracked' /\ active_readers' \in [0..MaxTx -> 0..Cardinality(Reader)]
  BY <1>2, <1>7, <1>8, TrackedStill DEF Registered
<1>10. cache' \in [Page -> Content \cup {None}] /\ CacheIsCurrent'
  BY <1>3, CacheType DEF CacheIsCurrent
<1> QED BY <1>2, <1>7, <1>8, <1>9, <1>10, ReaderGoesOn

\* A reader caches the page it has read from the file.
LEMMA CacheFilled ==
    ASSUME StoreInv, NEW r \in Reader, fill_cache(r)
    PROVE  StoreInv'
<1> DEFINE key == reader[r].key
           p == reader[r].page
<1>1. /\ reader[r].phase = "read" /\ Visit(r, key, reader[r].data)
      /\ cache' = [cache EXCEPT ![p] = reader[r].data]
      /\ UNCHANGED <<disk_vars, memory_vars, active_readers, writer>>
  BY DEF fill_cache
<1>2. UNCHANGED file BY <1>1 DEF disk_vars
<1>3. /\ ReaderIsAt(r) /\ reader[r].root \in Snapshot(r)
      /\ \A x \in Snapshot(r) : x \in Page
      /\ \A k \in Key : LeafPage(file.pages, reader[r].root, k) \in Snapshot(r)
  BY <1>1, SnapshotFacts
<1>4. /\ key \in Key /\ p \in {reader[r].root, LeafPage(file.pages, reader[r].root, key)}
      /\ reader[r].data = file.pages[p] /\ p \in Page
  BY <1>1, <1>3 DEF ReaderIsAt
<1>5. Visit(r, key, file.pages[p]) BY <1>1, <1>4
<1>6. file.pages[p] \in Content BY <1>4, Types DEF StoreInv
<1> HIDE DEF key, p
<1>7. ReaderIsAt(r)' /\ \A s \in Reader : s # r => reader'[s] = reader[s]
  BY <1>1, <1>2, <1>4, <1>5, Visited
<1>8. PICK next \in ReaderType :
         /\ reader' = [reader EXCEPT ![r] = next] /\ reader'[r] = next
         /\ next.phase \in {"reading", "done"} /\ next.tx = reader[r].tx
         /\ next.root = reader[r].root /\ next.sees = reader[r].sees
  BY <1>1, <1>2, <1>4, <1>5, Visited
<1>9. ReadersAreTracked' /\ active_readers' \in [0..MaxTx -> 0..Cardinality(Reader)]
  BY <1>1, <1>7, <1>8, TrackedStill DEF Registered
<1>10. cache' \in [Page -> Content \cup {None}] BY <1>1, <1>4, <1>6, CacheType
<1>11. CacheIsCurrent' BY <1>1, <1>2, <1>4, CacheType DEF CacheIsCurrent
<1> QED BY <1>1, <1>7, <1>8, <1>9, <1>10, <1>11, ReaderGoesOn

\* A reader reads a page from the file.
LEMMA FileRead ==
    ASSUME StoreInv, NEW r \in Reader, read_file(r)
    PROVE  StoreInv'
<1> DEFINE old == reader[r]
<1>1. PICK key \in Keys(r) :
         reader' = [reader EXCEPT ![r].phase = "read", ![r].key = key,
                                  ![r].page = At(r), ![r].data = file.pages[At(r)]]
  BY DEF read_file
<1>2. /\ old.phase \in {"open", "done", "reading"} /\ cache' = [cache EXCEPT ![At(r)] = None]
      /\ UNCHANGED <<disk_vars, memory_vars, active_readers, writer>>
  BY DEF read_file
<1>3. UNCHANGED file BY <1>2 DEF disk_vars
<1>4. PICK p : p = At(r) OBVIOUS
<1>5. key \in Key /\ p \in Page /\ p \in {old.root, LeafPage(file.pages, old.root, key)}
  BY <1>2, <1>4, AtFacts
<1>6. TypeOK /\ reader \in [Reader -> ReaderType] /\ old \in ReaderType
  BY DEF StoreInv, TypeOK, ReaderType
<1>7. PICK content \in Content : content = file.pages[p] BY <1>5, <1>6, Types
<1> DEFINE next == [old EXCEPT !.phase = "read", !.key = key, !.page = p, !.data = content]
<1>8. reader' = [reader EXCEPT ![r] = next]
  <2>1. reader = [s \in Reader |-> reader[s]] BY <1>6
  <2> QED BY <1>1, <1>4, <1>7, <2>1
<1>9. reader'[r] = next /\ \A s \in Reader : s # r => reader'[s] = reader[s] BY <1>6, <1>8
<1> HIDE DEF old
<1>10. /\ next \in ReaderType /\ next.phase = "read" /\ next.tx = old.tx
       /\ next.root = old.root /\ next.sees = old.sees /\ next.key = key
       /\ next.page = p /\ next.data = content
  BY <1>5, <1>6 DEF ReaderType
<1> HIDE DEF next
<1>11. ReaderIsAt(r)' BY <1>3, <1>5, <1>7, <1>9, <1>10 DEF ReaderIsAt
<1>12. ReadersAreTracked' /\ active_readers' \in [0..MaxTx -> 0..Cardinality(Reader)]
  BY <1>2, <1>9, <1>10, TrackedStill DEF Registered, old
<1>13. cache' \in [Page -> Content \cup {None}] /\ CacheIsCurrent'
  BY <1>2, <1>3, CacheType DEF CacheIsCurrent
<1>14. /\ next.phase \notin {"idle", "begun"} /\ next.tx = reader[r].tx
       /\ next.root = reader[r].root /\ next.sees = reader[r].sees
       /\ reader[r].phase # "idle"
  BY <1>2, <1>10 DEF old
<1> QED BY <1>2, <1>8, <1>10, <1>11, <1>12, <1>13, <1>14, ReaderGoesOn

\* The snapshot a transaction begins with is the current tree.
LEMMA ReadBegun ==
    ASSUME StoreInv, NEW r \in Reader, begin_read(r)
    PROVE  StoreInv'
<1> DEFINE old == reader[r]
           sees == Contents(file.pages, Current.root_page_id)
           next == [old EXCEPT !.phase = "begun", !.tx = Current.transaction_id,
                               !.root = Current.root_page_id, !.sees = sees]
<1>1. /\ status = "up" /\ old.phase = "idle"
      /\ reader' = [reader EXCEPT ![r].phase = "begun", ![r].tx = Current.transaction_id,
                                  ![r].root = Current.root_page_id, ![r].sees = sees]
      /\ UNCHANGED <<disk_vars, memory_vars, cache, active_readers, writer>>
  BY DEF begin_read, Current
<1>2. UNCHANGED <<file, status, header, next_page_id, pending_free_pages, cache, writer>>
  BY <1>1 DEF disk_vars, memory_vars
<1>3. TypeOK /\ reader \in [Reader -> ReaderType] /\ old \in ReaderType
  BY DEF StoreInv, TypeOK, ReaderType
<1>4. reader' = [reader EXCEPT ![r] = next]
  <2>1. reader = [s \in Reader |-> reader[s]] BY <1>3
  <2> QED BY <1>1, <2>1
<1>5. /\ Current.root_page_id \in Page /\ Current.transaction_id \in 0..MaxTx
      /\ \A p \in CurrentTree : p < next_page_id
  BY <1>1, CurrentFacts
<1>6. /\ WellFormed(Current.root_page_id, file.pages[Current.root_page_id], next_page_id)
      /\ Held(file.pages, Current.root_page_id, file.pages[Current.root_page_id])
      /\ TreePages(file.pages, Current.root_page_id) = CurrentTree
      /\ sees \in Maps
  BY <1>1, CurrentSnapshot
<1> HIDE DEF sees, old
<1>7. /\ next \in ReaderType /\ next.phase = "begun" /\ next.tx = Current.transaction_id
      /\ next.root = Current.root_page_id /\ next.sees = sees
  BY <1>3, <1>5, <1>6 DEF ReaderType
<1> HIDE DEF next
<1>8. reader'[r] = next /\ (\A s \in Reader : s # r => reader'[s] = reader[s])
      /\ reader' \in [Reader -> ReaderType]
  BY <1>3, <1>4, <1>7
<1>9. TypeOK'
  BY <1>1, <1>2, <1>3, <1>8 DEF TypeOK, ReaderType, disk_vars, memory_vars
<1>10. /\ Current' = Current /\ Dirty' = Dirty /\ Snapshot(r)' = CurrentTree
  BY <1>2, <1>6, <1>7, <1>8 DEF Current, active_slot, Dirty, Snapshot
<1>11. SnapshotIsKept(r)'
  <2>1. \A p \in CurrentTree : p \notin Dirty BY DEF StoreInv, PagesAreApart
  <2>2. \A i \in DOMAIN pending_free_pages : pending_free_pages[i].page_id \notin CurrentTree
    BY DEF StoreInv, PagesAreApart, Free
  <2>3. Current.transaction_id <= Current.transaction_id
    <3>1. Current.transaction_id \in Nat BY <1>5, StoreAssumption
    <3> QED BY <3>1
  <2> QED BY <1>1, <1>2, <1>6, <1>7, <1>8, <1>10, <2>1, <2>2, <2>3
       DEF SnapshotIsKept, sees
<1>12. ReaderIsAt(r)' BY <1>7, <1>8 DEF ReaderIsAt
<1>13. ReadersAreTracked'
  <2>1. r \notin Registered /\ r \notin Registered' BY <1>1, <1>7, <1>8 DEF Registered, old
  <2> QED BY <1>1, <1>8, <2>1, TrackedStill
<1>14. CacheIsCurrent' BY <1>2, CacheType DEF CacheIsCurrent
<1> QED BY <1>1, <1>8, <1>9, <1>11, <1>12, <1>13, <1>14, OnlyTheReader

\* A reader registers with the tracker.
LEMMA ReadRegistered ==
    ASSUME StoreInv, NEW r \in Reader, register(r)
    PROVE  StoreInv'
<1> DEFINE old == reader[r]
           next == [old EXCEPT !.phase = "open"]
<1>1. /\ old.phase = "begun" /\ reader' = [reader EXCEPT ![r].phase = "open"]
      /\ active_readers' = [active_readers EXCEPT ![old.tx] = active_readers[old.tx] + 1]
      /\ UNCHANGED <<disk_vars, memory_vars, cache, writer>>
  BY DEF register
<1>2. UNCHANGED <<file, cache>> BY <1>1 DEF disk_vars
<1>3. TypeOK /\ reader \in [Reader -> ReaderType] /\ old \in ReaderType
  BY DEF StoreInv, TypeOK, ReaderType
<1>4. reader' = [reader EXCEPT ![r] = next]
  <2>1. reader = [s \in Reader |-> reader[s]] BY <1>3
  <2> QED BY <1>1, <2>1
<1>5. /\ next \in ReaderType /\ next.phase = "open" /\ next.tx = old.tx
      /\ next.root = old.root /\ next.sees = old.sees
  <2> HIDE DEF old
  <2> QED BY <1>3 DEF ReaderType
<1> HIDE DEF next
<1>6. reader'[r] = next /\ \A s \in Reader : s # r => reader'[s] = reader[s] BY <1>3, <1>4
<1>7. ReadersAreTracked' /\ active_readers' \in [0..MaxTx -> 0..Cardinality(Reader)]
  <2>1. r \notin Registered /\ r \in Registered' BY <1>1, <1>5, <1>6 DEF Registered
  <2> QED BY <1>1, <1>5, <1>6, <2>1, TrackedMore
<1>8. ReaderIsAt(r)' BY <1>5, <1>6 DEF ReaderIsAt
<1>9. cache' \in [Page -> Content \cup {None}] /\ CacheIsCurrent'
  BY <1>2, CacheType DEF CacheIsCurrent
<1> QED BY <1>1, <1>4, <1>5, <1>7, <1>8, <1>9, ReaderGoesOn

\* A reader that has not begun.
LEMMA NoReaderType == NoReader \in ReaderType /\ NoReader.phase = "idle"
<1>1. Zero \in Content /\ <<>> \in Maps BY DEF Content, Maps
<1>2. 0 \in 0..MaxTx BY StoreAssumption
<1> QED BY <1>1, <1>2 DEF NoReader, ReaderType

\* A reader ends.
LEMMA ReadEnded ==
    ASSUME StoreInv, NEW r \in Reader, end_read(r)
    PROVE  StoreInv'
<1>1. /\ reader[r].phase \in {"open", "done"} /\ reader' = [reader EXCEPT ![r] = NoReader]
      /\ active_readers' = [active_readers EXCEPT ![reader[r].tx]
                                                    = active_readers[reader[r].tx] - 1]
      /\ UNCHANGED <<disk_vars, memory_vars, cache, writer>>
  BY DEF end_read, untrack
<1>2. UNCHANGED <<file, cache>> BY <1>1 DEF disk_vars
<1>3. TypeOK /\ reader \in [Reader -> ReaderType] BY DEF StoreInv, TypeOK, ReaderType
<1>4. /\ reader'[r] = NoReader /\ \A s \in Reader : s # r => reader'[s] = reader[s]
      /\ reader' \in [Reader -> ReaderType]
  BY <1>1, <1>3, NoReaderType
<1>5. ReadersAreTracked' /\ active_readers' \in [0..MaxTx -> 0..Cardinality(Reader)]
  <2>1. r \in Registered /\ r \notin Registered' BY <1>1, <1>4, NoReaderType DEF Registered
  <2> QED BY <1>1, <1>4, <2>1, TrackedLess
<1>6. TypeOK' BY <1>1, <1>3, <1>4, <1>5 DEF TypeOK, ReaderType, disk_vars, memory_vars
<1>7. CacheIsCurrent' BY <1>2, CacheType DEF CacheIsCurrent
<1>8. reader'[r].phase = "idle" BY <1>4, NoReaderType
<1> QED BY <1>1, <1>4, <1>5, <1>6, <1>7, <1>8, OnlyTheReader

\* Every step of a reader keeps the invariant.
LEMMA ReaderSteps ==
    ASSUME StoreInv, NEW r \in Reader, read_transaction(r)
    PROVE  StoreInv'
BY ReadBegun, ReadRegistered, ReadCached, FileRead, CacheFilled, ReadEnded DEF read_transaction

-----------------------------------------------------------------------------
(* A crash. *)

Slots == [root_page_id : Page, root_page_checksum : Content,
          transaction_id : 0..MaxTx, next_page_id : 2..MaxPages]

\* The files a crash may leave: their headers are some that were written.
LEMMA ImageFacts ==
    ASSUME StoreInv, NEW image \in Images
    PROVE  /\ image \in Files
           /\ image.header # None =>
                 image.header \in Headers /\ \A s \in 0..1 : SlotOK(image.header.commit_slots[s])
<1> DEFINE doubt == {p \in Page : written[p] # {}}
           kept == {f \in [doubt -> UNION {Survivors(p) : p \in doubt}] :
                      \A p \in doubt : f[p] \in Survivors(p)}
<1>1. PICK h \in HeaderSurvivors, length \in LengthSurvivors, f \in kept :
         image = [header |-> IF length = 0 THEN None ELSE h, length |-> length,
                  pages |-> [p \in Page |-> IF p >= length THEN Zero
                                            ELSE IF p \in doubt THEN f[p]
                                            ELSE synced.pages[p]]]
  <2> DEFINE left(h, length, f) ==
               [header |-> IF length = 0 THEN None ELSE h, length |-> length,
                pages |-> [p \in Page |-> IF p >= length THEN Zero
                                          ELSE IF p \in doubt THEN f[p]
                                          ELSE synced.pages[p]]]
  <2>1. Images = {left(h, length, f) : h \in HeaderSurvivors, length \in LengthSurvivors,
                                       f \in kept}
    BY DEF Images
  <2> HIDE DEF doubt, kept, left
  <2>2. PICK h \in HeaderSurvivors, length \in LengthSurvivors, f \in kept :
           image = left(h, length, f)
    BY <2>1
  <2> QED BY <2>2 DEF left
<1>2. /\ file \in Files /\ synced \in Files /\ \A p \in Page : written[p] \subseteq Content
      /\ written[HEADER_PAGE_ID] \subseteq Headers /\ Zero \in Content /\ Torn \in Content
  BY DEF StoreInv, TypeOK, Content
<1>3. length \in Nat BY <1>2 DEF LengthSurvivors, Files
<1>4. ASSUME NEW p \in doubt PROVE f[p] \in Content
  <2>1. f[p] \in Survivors(p) /\ p \in Page BY <1>4
  <2>2. synced.pages[p] \in Content BY <1>2, <2>1 DEF Files
  <2> QED BY <1>2, <2>1, <2>2 DEF Survivors
<1>5. \A p \in Page : synced.pages[p] \in Content BY <1>2 DEF Files
<1> HIDE DEF doubt, kept
<1>6. image.pages \in [Page -> Content]
  <2>1. image.pages = [p \in Page |-> IF p >= length THEN Zero
                                      ELSE IF p \in doubt THEN f[p] ELSE synced.pages[p]]
    BY <1>1
  <2> QED BY <1>2, <1>4, <1>5, <2>1
<1>7. h \in ({file.header, synced.header} \cup written[HEADER_PAGE_ID]) /\ h \in Headers \cup {None}
  BY <1>2 DEF HeaderSurvivors, Files
<1>8. image.header # None =>
         image.header \in Headers /\ \A s \in 0..1 : SlotOK(image.header.commit_slots[s])
  <2>1. image.header # None => image.header = h BY <1>1
  <2> QED BY <1>7, <2>1 DEF StoreInv, SlotsAreTrees
<1>9. image = [header |-> image.header, length |-> image.length, pages |-> image.pages]
      /\ image.length = length
  BY <1>1
<1>10. image.header \in Headers \cup {None} BY <1>8
<1>11. image \in Files BY <1>3, <1>6, <1>9, <1>10 DEF Files
<1> QED BY <1>8, <1>11

\* A page that is verified is the page it should be.
LEMMA VerifiedPage ==
    ASSUME NEW image, NEW page, NEW sum
    PROVE  /\ VerifyPage(image, page, sum) \in {"ok", "past_end", "io", "corrupt"}
           /\ VerifyPage(image, page, sum) = "ok" => image.pages[page] = sum
BY DEF VerifyPage

\* A slot that is verified names a tree that is there as a whole.
LEMMA VerifiedSlot ==
    ASSUME NEW image, NEW slot, slot.root_page_checksum \in Leaves \cup Branches
    PROVE  /\ verify_pages(image, slot) \in {"ok", "past_end", "io", "corrupt"}
           /\ verify_pages(image, slot) = "ok" =>
                 Held(image.pages, slot.root_page_id, slot.root_page_checksum)
<1> DEFINE sum == slot.root_page_checksum
           root == VerifyPage(image, slot.root_page_id, sum)
           children == ChildrenOf(sum)
           child(i) == VerifyPage(image, children[i].page, children[i].sum)
           bad == {i \in DOMAIN children : child(i) # "ok"}
<1>1. verify_pages(image, slot) = CASE root # "ok" -> root
                                    [] bad # {} -> child(Min(bad))
                                    [] OTHER -> "ok"
  BY DEF verify_pages
<1>2. /\ root \in {"ok", "past_end", "io", "corrupt"}
      /\ \A i : child(i) \in {"ok", "past_end", "io", "corrupt"}
      /\ root = "ok" => image.pages[slot.root_page_id] = sum
      /\ \A i : child(i) = "ok" => image.pages[children[i].page] = children[i].sum
  BY VerifiedPage
<1>3. bad \in SUBSET Nat
  <2>1. CASE sum \in Leaves
    <3>1. children = <<>> BY <2>1, LeafFacts
    <3>2. DOMAIN children = {} BY <3>1
    <3> QED BY <3>2
  <2>2. CASE sum \in Branches
    <3>1. children = sum.children BY <2>2, BranchFacts DEF ChildrenOf
    <3>2. DOMAIN sum.children = 1..Len(sum.children) /\ Len(sum.children) \in Nat
      BY <2>2, BranchFacts, CapacityAssumption
    <3> QED BY <3>1, <3>2
  <2> QED BY <2>1, <2>2
<1>4. bad # {} => child(Min(bad)) # "ok"
  <2>1. bad # {} => Min(bad) \in bad
    <3> HIDE DEF bad
    <3> QED BY <1>3, LeastOfNaturals
  <2> QED BY <2>1
<1>5. Held(image.pages, slot.root_page_id, sum) <=>
         /\ image.pages[slot.root_page_id] = sum
         /\ \A i \in DOMAIN children : image.pages[children[i].page] = children[i].sum
  BY DEF Held
<1>6. bad = {} => \A i \in DOMAIN children : child(i) = "ok" OBVIOUS
<1> HIDE DEF root, child, bad, children, sum
<1>7. verify_pages(image, slot) \in {"ok", "past_end", "io", "corrupt"} BY <1>1, <1>2
<1>8. verify_pages(image, slot) = "ok" => root = "ok" /\ bad = {} BY <1>1, <1>4
<1> QED BY <1>2, <1>5, <1>6, <1>7, <1>8 DEF sum

\* Recovery takes a slot only if its tree is there.
LEMMA RecoveredHeader ==
    ASSUME NEW image, image.header \in Headers,
           \A s \in 0..1 : SlotOK(image.header.commit_slots[s])
    PROVE  LET outcome == recover_header(image)
               slot == active_slot(outcome.header)
           IN  /\ outcome.header \in Headers
               /\ \A s \in 0..1 : SlotOK(outcome.header.commit_slots[s])
               /\ outcome.status \in {"up", "past_end", "io", "corrupt"}
               /\ outcome.status = "up" =>
                     Held(image.pages, slot.root_page_id, slot.root_page_checksum)
<1> DEFINE h == image.header
           other == switch_to_inactive_slot(h)
           active == verify_pages(image, active_slot(h))
           inactive == verify_pages(image, inactive_slot(h))
           outcome == recover_header(image)
<1>1. /\ h = [active_slot |-> h.active_slot, commit_slots |-> h.commit_slots]
      /\ h.active_slot \in 0..1 /\ h.commit_slots \in [0..1 -> Slots]
  BY DEF Headers, Slots
<1>2. 1 - h.active_slot \in 0..1 BY <1>1
<1> HIDE DEF h
<1>3. other = [active_slot |-> 1 - h.active_slot, commit_slots |-> h.commit_slots]
  BY <1>1 DEF switch_to_inactive_slot
<1>4. /\ other \in Headers /\ other.commit_slots = h.commit_slots
      /\ active_slot(other) = inactive_slot(h)
  BY <1>1, <1>2, <1>3 DEF Headers, Slots, active_slot, inactive_slot
<1> HIDE DEF other
<1>5. ASSUME NEW slot, \E s \in 0..1 : slot = h.commit_slots[s]
      PROVE  slot.root_page_checksum \in Leaves \cup Branches
  <2>1. SlotOK(slot) BY <1>5 DEF h
  <2> QED BY <2>1 DEF SlotOK, WellFormed
<1>6. \E s \in 0..1 : active_slot(h) = h.commit_slots[s] BY <1>1 DEF active_slot
<1>7. \E s \in 0..1 : inactive_slot(h) = h.commit_slots[s] BY <1>2 DEF inactive_slot
<1>8. /\ active \in {"ok", "past_end", "io", "corrupt"}
      /\ active = "ok" => Held(image.pages, active_slot(h).root_page_id,
                               active_slot(h).root_page_checksum)
  BY <1>5, <1>6, VerifiedSlot
<1>9. /\ inactive \in {"ok", "past_end", "io", "corrupt"}
      /\ inactive = "ok" => Held(image.pages, inactive_slot(h).root_page_id,
                                 inactive_slot(h).root_page_checksum)
  BY <1>5, <1>7, VerifiedSlot
<1>10. outcome = CASE active = "ok" -> [status |-> "up", header |-> h]
                   [] active # "ok" /\ active # "corrupt" -> [status |-> active, header |-> h]
                   [] active = "corrupt" /\ inactive = "ok" -> [status |-> "up", header |-> other]
                   [] OTHER -> [status |-> inactive, header |-> h]
  BY DEF recover_header, h, other
<1> HIDE DEF active, inactive, outcome
<1>11. /\ outcome.header \in {h, other} /\ outcome.status \in {"up", "past_end", "io", "corrupt"}
       /\ outcome.status = "up" => \/ outcome.header = h /\ active = "ok"
                                   \/ outcome.header = other /\ inactive = "ok"
  <2>1. CASE active = "ok"
    <3>1. outcome = [status |-> "up", header |-> h] BY <1>10, <2>1
    <3> QED BY <2>1, <3>1
  <2>2. CASE active # "ok" /\ active # "corrupt"
    <3>1. outcome = [status |-> active, header |-> h] BY <1>10, <2>2
    <3> QED BY <1>8, <2>2, <3>1
  <2>3. CASE active = "corrupt" /\ inactive = "ok"
    <3>1. outcome = [status |-> "up", header |-> other] BY <1>10, <2>3
    <3> QED BY <2>3, <3>1
  <2>4. CASE active = "corrupt" /\ inactive # "ok"
    <3>1. outcome = [status |-> inactive, header |-> h] BY <1>10, <2>4
    <3> QED BY <1>9, <2>4, <3>1
  <2> QED BY <2>1, <2>2, <2>3, <2>4
<1>12. h \in Headers /\ \A s \in 0..1 : SlotOK(h.commit_slots[s]) BY DEF h
<1>13. outcome.header \in Headers /\ \A s \in 0..1 : SlotOK(outcome.header.commit_slots[s])
  BY <1>4, <1>11, <1>12
<1>14. outcome.status = "up" => Held(image.pages, active_slot(outcome.header).root_page_id,
                                     active_slot(outcome.header).root_page_checksum)
  BY <1>4, <1>8, <1>9, <1>11
<1> QED BY <1>11, <1>13, <1>14 DEF outcome

\* The types of a store without transactions.
LEMMA IdleTypes ==
    /\ <<>> \in Seq([page_id : Page, transaction_id : 1..MaxTx]) /\ DOMAIN <<>> = {}
    /\ [t \in 0..MaxTx |-> 0] \in [0..MaxTx -> 0..Cardinality(Reader)]
    /\ [r \in Reader |-> NoReader] \in [Reader -> ReaderType]
    /\ Cardinality({}) = 0
<1>1. [t \in 0..MaxTx |-> 0] \in [0..MaxTx -> 0..Cardinality(Reader)]
  <2>1. Cardinality(Reader) \in Nat BY StoreAssumption, FS_CardinalityType
  <2>2. 0 \in 0..Cardinality(Reader) BY <2>1
  <2> QED BY <2>2
<1>2. [r \in Reader |-> NoReader] \in [Reader -> ReaderType] BY NoReaderType
<1>3. Cardinality({}) = 0 BY FS_EmptySet
<1> QED BY <1>1, <1>2, <1>3

\* A crash and what recovery makes of it keep the invariant.
LEMMA Crashed ==
    ASSUME StoreInv, crash
    PROVE  StoreInv'
<1>1. PICK image \in Images : open_existing(image) BY DEF crash
<1>2. writer' = NoWriter /\ reader' = [r \in Reader |-> NoReader] BY DEF crash
<1>3. /\ image \in Files
      /\ image.header # None =>
            image.header \in Headers /\ \A s \in 0..1 : SlotOK(image.header.commit_slots[s])
  BY ImageFacts
<1> DEFINE outcome == IF image.header = None
                      THEN [status |-> "no header", header |-> header]
                      ELSE recover_header(image)
           slot == active_slot(outcome.header)
           up == outcome.status = "up"
<1>4. /\ file' = image /\ synced' = image /\ written' = NothingWritten
      /\ status' = outcome.status /\ header' = outcome.header
      /\ next_page_id' = slot.next_page_id /\ pending_free_pages' = <<>>
      /\ cache' = IF up THEN CacheAfterRecovery(image) ELSE NoCache
      /\ active_readers' = [t \in 0..MaxTx |-> 0]
  BY <1>1 DEF open_existing
<1>5. /\ outcome.header \in Headers
      /\ \A s \in 0..1 : SlotOK(outcome.header.commit_slots[s])
      /\ outcome.status \in {"up", "no header", "past_end", "io", "corrupt"}
      /\ outcome.status = "up" =>
            Held(image.pages, slot.root_page_id, slot.root_page_checksum)
  <2>1. CASE image.header = None
    <3>1. outcome = [status |-> "no header", header |-> header] BY <2>1
    <3> HIDE DEF outcome
    <3>2. outcome.status = "no header" /\ outcome.header = header BY <3>1
    <3>3. header \in Headers /\ \A s \in 0..1 : SlotOK(header.commit_slots[s])
      BY DEF StoreInv, TypeOK, SlotsAreTrees
    <3> QED BY <3>2, <3>3
  <2>2. CASE image.header # None
    <3>1. outcome = recover_header(image) BY <2>2
    <3> HIDE DEF outcome
    <3> QED BY <1>3, <2>2, <3>1, RecoveredHeader
  <2> QED BY <2>1, <2>2
<1> HIDE DEF outcome
<1>6. slot.next_page_id \in 2..MaxPages BY <1>5 DEF Headers, active_slot
<1>7. Current' = slot BY <1>4 DEF Current
<1>8. \A p \in Page : image.pages[p] \in Content BY <1>3 DEF Files
<1>9. cache' \in [Page -> Content \cup {None}]
      /\ \A p \in Page : cache'[p] # None => cache'[p] = image.pages[p]
  <2>1. NoCache \in [Page -> Content \cup {None}] /\ \A p \in Page : NoCache[p] = None
    BY DEF NoCache
  <2>2. /\ CacheAfterRecovery(image) \in [Page -> Content \cup {None}]
        /\ \A p \in Page : CacheAfterRecovery(image)[p] \in {None, image.pages[p]}
    <3> DEFINE active == active_slot(image.header)
               tried == VerifiedPages(image, active) \cup
                        (IF verify_pages(image, active) = "ok" THEN {}
                         ELSE VerifiedPages(image, inactive_slot(image.header)))
    <3>1. CacheAfterRecovery(image)
            = [p \in Page |-> IF p \in tried THEN image.pages[p] ELSE None]
      BY DEF CacheAfterRecovery
    <3> HIDE DEF tried
    <3> QED BY <1>8, <3>1
  <2> QED BY <1>4, <2>1, <2>2
<1>10. CacheIsCurrent' BY <1>4, <1>9 DEF CacheIsCurrent
<1>11. \A p \in Page \cup {HEADER_PAGE_ID} : written'[p] = {} BY <1>4 DEF NothingWritten
<1>12. TypeOK'
  <2>1. /\ pending_free_pages' \in Seq([page_id : Page, transaction_id : 1..MaxTx])
        /\ active_readers' \in [0..MaxTx -> 0..Cardinality(Reader)]
        /\ DOMAIN writer'.dirty \subseteq Page
        /\ writer' \in [phase : {"none", "open", "writing", "syncing", "publishing"},
                       tx : 0..MaxTx, root : Page \cup {0}, sum : Content,
                       dirty : [DOMAIN writer'.dirty -> Content],
                       freed : Seq(Page), todo : SUBSET Page, holds : Maps]
        /\ reader' \in [Reader -> ReaderType]
    BY <1>2, <1>4, IdleTypes, NoWriterType
  <2> HIDE DEF slot
  <2>2. /\ file' \in Files /\ synced' \in Files /\ header' \in Headers
        /\ next_page_id' \in 2..MaxPages
        /\ status' \in {"up", "no header", "corrupt", "io", "past_end"}
    BY <1>3, <1>4, <1>5, <1>6
  <2>3. /\ \A p \in Page : written'[p] \subseteq Content
        /\ written'[HEADER_PAGE_ID] \subseteq Headers
    BY <1>11
  <2> QED BY <1>9, <2>1, <2>2, <2>3 DEF TypeOK, ReaderType
<1>13. SlotsAreTrees' BY <1>3, <1>4, <1>5, <1>11 DEF SlotsAreTrees, SlotOK
<1>14. CurrentIsHeld'
  <2>1. slot.next_page_id <= slot.next_page_id
    <3>1. slot.next_page_id \in Nat BY <1>6, StoreAssumption
    <3> QED BY <3>1
  <2> HIDE DEF slot
  <2> QED BY <1>4, <1>5, <1>7, <2>1 DEF CurrentIsHeld
<1>15. PagesAreApart' /\ DraftIsHeld' /\ DirtyIsWritten' /\ SnapshotsAreKept'
       /\ ReadersAreTracked'
  <2>1. /\ Dirty' = {} /\ Free' = {} /\ DOMAIN pending_free_pages' = {}
        /\ writer'.phase = "none" /\ writer'.todo = {}
        /\ \A r \in Reader : reader'[r].phase = "idle"
    BY <1>2, <1>4, NoWriterType, NoReaderType, IdleTypes DEF Dirty, Free
  <2>2. PagesAreApart' BY <2>1 DEF PagesAreApart
  <2>3. DraftIsHeld' /\ DirtyIsWritten' BY <1>2, <1>4, <2>1 DEF DraftIsHeld, DirtyIsWritten
  <2>4. SnapshotsAreKept' BY <2>1 DEF SnapshotsAreKept
  <2>5. ReadersAreTracked'
    <3>1. Registered' = {} BY <2>1 DEF Registered
    <3>2. \A t : {r \in Registered' : reader'[r].tx = t} = {} BY <3>1
    <3> QED BY <1>2, <1>4, <3>2, IdleTypes DEF ReadersAreTracked
  <2> QED BY <2>2, <2>3, <2>4, <2>5
<1> QED BY <1>10, <1>12, <1>13, <1>14, <1>15 DEF StoreInv

\* The invariant holds in a new store.
LEMMA StoreInit ==
    ASSUME Init
    PROVE  StoreInv
<1> DEFINE slot == CommitSlot(INITIAL_ROOT_PAGE_ID, EmptyLeaf, 0, 2)
<1>1. /\ initial = [active_slot |-> 0, commit_slots |-> [s \in 0..1 |-> slot]]
      /\ slot.root_page_id = INITIAL_ROOT_PAGE_ID /\ slot.root_page_checksum = EmptyLeaf
      /\ slot.transaction_id = 0 /\ slot.next_page_id = 2
  BY DEF initial, checksum_page, CommitSlot, INITIAL_ROOT_PAGE_ID
<1>2. INITIAL_ROOT_PAGE_ID = 1 /\ HEADER_PAGE_ID = 0 /\ 1 \in Page /\ 0 \notin Page
      /\ 2 \in 2..MaxPages /\ 0 \in 0..MaxTx
  BY StoreAssumption DEF INITIAL_ROOT_PAGE_ID, HEADER_PAGE_ID, Page
<1>3. EmptyLeaf \in Leaves /\ EmptyLeaf \in Content /\ Zero \in Content
  BY LeafFacts DEF Content
<1>4. slot \in Slots BY <1>2, <1>3 DEF Slots, CommitSlot
<1>5. SlotOK(slot)
  <2>1. WellFormed(1, EmptyLeaf, 2)
    <3>1. ChildrenOf(EmptyLeaf) = <<>> /\ 1 \in 1..(2 - 1) BY <1>3, LeafFacts
    <3> QED BY <1>3, <3>1, IdleTypes DEF WellFormed
  <2> QED BY <1>1, <1>2, <2>1 DEF SlotOK
<1> HIDE DEF slot
<1>6. /\ initial \in Headers /\ active_slot(initial) = slot
      /\ \A s \in 0..1 : initial.commit_slots[s] = slot
  BY <1>1, <1>4 DEF Headers, Slots, active_slot
<1>7. Current = slot BY <1>6 DEF Init, Current
<1> DEFINE pages == [p \in Page |-> IF p = INITIAL_ROOT_PAGE_ID THEN EmptyLeaf ELSE Zero]
<1>8. /\ file = [header |-> initial, length |-> 2, pages |-> pages]
      /\ synced = [header |-> None, length |-> 0, pages |-> [p \in Page |-> Zero]]
      /\ status = "up" /\ header = initial /\ next_page_id = 2 /\ pending_free_pages = <<>>
      /\ cache = [NoCache EXCEPT ![INITIAL_ROOT_PAGE_ID] = EmptyLeaf]
      /\ active_readers = [t \in 0..MaxTx |-> 0]
      /\ writer = NoWriter /\ reader = [r \in Reader |-> NoReader]
  BY DEF Init
<1>9. /\ written[HEADER_PAGE_ID] \subseteq {initial}
      /\ \A p \in Page : written[p] \subseteq {EmptyLeaf}
  BY <1>2 DEF Init, NothingWritten
<1>10. pages \in [Page -> Content] /\ pages[1] = EmptyLeaf BY <1>2, <1>3
<1>11. file \in Files /\ synced \in Files
  <2>1. [p \in Page |-> Zero] \in [Page -> Content] BY <1>3
  <2> HIDE DEF pages
  <2> QED BY <1>6, <1>8, <1>10, <2>1 DEF Files
<1>12. file.pages = pages BY <1>8
<1>13. cache \in [Page -> Content \cup {None}] BY <1>3, <1>8 DEF NoCache
<1>14. CacheIsCurrent BY <1>2, <1>8, <1>10, <1>12 DEF NoCache, CacheIsCurrent
<1> HIDE DEF pages
<1>15. TypeOK
  <2>1. /\ pending_free_pages \in Seq([page_id : Page, transaction_id : 1..MaxTx])
        /\ active_readers \in [0..MaxTx -> 0..Cardinality(Reader)]
        /\ DOMAIN writer.dirty \subseteq Page
        /\ writer \in [phase : {"none", "open", "writing", "syncing", "publishing"},
                       tx : 0..MaxTx, root : Page \cup {0}, sum : Content,
                       dirty : [DOMAIN writer.dirty -> Content],
                       freed : Seq(Page), todo : SUBSET Page, holds : Maps]
        /\ reader \in [Reader -> ReaderType]
    BY <1>8, IdleTypes, NoWriterType
  <2>2. header \in Headers /\ next_page_id \in 2..MaxPages BY <1>2, <1>6, <1>8
  <2>3. /\ \A p \in Page : written[p] \subseteq Content
        /\ written[HEADER_PAGE_ID] \subseteq Headers
    BY <1>3, <1>6, <1>9
  <2> QED BY <1>8, <1>11, <1>13, <2>1, <2>2, <2>3 DEF TypeOK, ReaderType
<1>16. SlotsAreTrees
  <2>1. \A h \in ({file.header, synced.header} \cup written[HEADER_PAGE_ID]) \ {None} :
           h = initial
    BY <1>8, <1>9
  <2> QED BY <1>5, <1>6, <1>8, <2>1 DEF SlotsAreTrees
<1>17. CurrentIsHeld
  <2>1. Held(file.pages, 1, EmptyLeaf) BY <1>3, <1>10, <1>12, TreeFacts
  <2> QED BY <1>1, <1>2, <1>7, <1>8, <2>1 DEF CurrentIsHeld
<1>18. PagesAreApart /\ DraftIsHeld /\ DirtyIsWritten /\ SnapshotsAreKept
       /\ ReadersAreTracked
  <2>1. /\ Dirty = {} /\ Free = {} /\ DOMAIN pending_free_pages = {}
        /\ writer.phase = "none" /\ writer.todo = {}
        /\ \A r \in Reader : reader[r].phase = "idle"
    BY <1>8, NoWriterType, NoReaderType, IdleTypes DEF Dirty, Free
  <2>2. PagesAreApart BY <2>1 DEF PagesAreApart
  <2>3. DraftIsHeld /\ DirtyIsWritten BY <1>8, <2>1 DEF DraftIsHeld, DirtyIsWritten
  <2>4. SnapshotsAreKept BY <2>1 DEF SnapshotsAreKept
  <2>5. ReadersAreTracked
    <3>1. Registered = {} BY <2>1 DEF Registered
    <3>2. \A t : {r \in Registered : reader[r].tx = t} = {} BY <3>1
    <3> QED BY <1>8, <3>2, IdleTypes DEF ReadersAreTracked
  <2> QED BY <2>2, <2>3, <2>4, <2>5
<1> QED BY <1>14, <1>15, <1>16, <1>17, <1>18 DEF StoreInv

-----------------------------------------------------------------------------
(* The invariant and what follows from it. *)

\* Every step keeps the invariant.
LEMMA StoreStep ==
    ASSUME StoreInv, PreemptedBegin = FALSE, [Next]_vars
    PROVE  StoreInv'
<1>1. CASE write_transaction BY <1>1, WriterSteps
<1>2. ASSUME NEW r \in Reader, read_transaction(r) PROVE StoreInv' BY <1>2, ReaderSteps
<1>3. CASE crash BY <1>3, Crashed
<1>4. CASE UNCHANGED vars
  <2>1. UNCHANGED <<disk_vars, memory_vars, cache, active_readers, writer, reader>>
    BY <1>4 DEF vars
  <2>2. UNCHANGED <<file, synced, written, status, header, next_page_id, pending_free_pages,
                    cache, active_readers, writer, reader>>
    BY <2>1 DEF disk_vars, memory_vars
  <2>3. TypeOK' BY <2>2 DEF StoreInv, TypeOK
  <2>4. /\ Current' = Current /\ CurrentTree' = CurrentTree /\ Dirty' = Dirty
        /\ Draft' = Draft
    BY <2>2 DEF Current, CurrentTree, active_slot, Dirty, Draft
  <2>5. DraftIsHeld' BY <2>2, <2>4 DEF StoreInv, DraftIsHeld
  <2>6. DirtyIsWritten' BY <2>2, <2>4 DEF StoreInv, DirtyIsWritten
  <2> QED BY <2>1, <2>3, <2>4, <2>5, <2>6, OnlyTheWriter
<1> QED BY <1>1, <1>2, <1>3, <1>4 DEF Next

\* Pages, slots, caches and snapshots are what they should be, in every state: the
\* conjunction of all that the theorems below need.
THEOREM StoreIsConsistent ==
    ASSUME PreemptedBegin = FALSE PROVE Spec => []StoreInv
<1>1. Init => StoreInv BY StoreInit
<1>2. StoreInv /\ [Next]_vars => StoreInv' BY StoreStep
<1> QED BY <1>1, <1>2, PTL DEF Spec

\* Every variable of the store has its type: transactions, slots, pages, the queue of
\* freed pages and the tracker's counts.
THEOREM StoreTypesAreKept ==
    ASSUME PreemptedBegin = FALSE PROVE Spec => []TypeOK
<1>1. StoreInv => TypeOK BY DEF StoreInv
<1> QED BY <1>1, StoreIsConsistent, PTL

\* A cached page is the page in the file, although fill_cache comes after read_file and
\* pages are written under their old ids again.
THEOREM CacheIsTheFile ==
    ASSUME PreemptedBegin = FALSE PROVE Spec => []CacheIsCurrent
<1>1. StoreInv => CacheIsCurrent BY DEF StoreInv
<1> QED BY <1>1, StoreIsConsistent, PTL

\* From the invariant: no page that is handed out is in use.
LEMMA UnusedPages ==
    ASSUME StoreInv
    PROVE  AllocatedPagesAreUnused
<1> SUFFICES ASSUME status = "up"
             PROVE  LET tree == TreePages(file.pages, active_slot(header).root_page_id)
                        free == {pending_free_pages[i].page_id : i \in DOMAIN pending_free_pages}
                    IN  /\ DOMAIN writer.dirty \cap tree = {}
                        /\ free \cap (tree \cup DOMAIN writer.dirty) = {}
                        /\ Cardinality(free) = Len(pending_free_pages)
                        /\ \A p \in free \cup tree \cup DOMAIN writer.dirty : p < next_page_id
  BY DEF AllocatedPagesAreUnused
<1>1. TreePages(file.pages, active_slot(header).root_page_id) = CurrentTree
  BY CurrentSnapshot DEF Current
<1>2. \A p \in CurrentTree : p < next_page_id BY CurrentFacts
<1>3. /\ \A p \in Free : p < next_page_id /\ p \notin CurrentTree /\ p \notin Dirty
      /\ \A p \in Dirty : p < next_page_id /\ p \notin CurrentTree
      /\ \A i, j \in DOMAIN pending_free_pages :
            pending_free_pages[i].page_id = pending_free_pages[j].page_id => i = j
  BY DEF StoreInv, PagesAreApart
<1>4. Cardinality(Free) = Len(pending_free_pages)
  <2> DEFINE q == pending_free_pages
             f == [i \in DOMAIN q |-> q[i].page_id]
  <2>1. PICK n \in Nat : n = Len(q) /\ DOMAIN q = 1..n
    <3>1. q \in Seq(FreedPages) BY DEF StoreInv, TypeOK, FreedPages
    <3> QED BY <3>1, LenProperties
  <2>2. f \in Bijection(1..n, Free)
    <3>1. f \in [1..n -> Free] BY <2>1 DEF Free
    <3>2. \A i, j \in 1..n : f[i] = f[j] => i = j BY <1>3, <2>1
    <3>3. \A p \in Free : \E i \in 1..n : f[i] = p BY <2>1 DEF Free
    <3> HIDE DEF f
    <3> QED BY <3>1, <3>2, <3>3 DEF Bijection, Injection, Surjection, IsInjective
  <2>3. /\ IsFiniteSet(1..n) /\ Cardinality(1..n) = IF 1 > n THEN 0 ELSE n - 1 + 1
    BY FS_Interval
  <2>4. Cardinality(Free) = Cardinality(1..n)
    <3> HIDE DEF f
    <3> QED BY <2>2, <2>3, FS_Bijection DEF ExistsBijection
  <2> QED BY <2>1, <2>3, <2>4
<1> QED BY <1>1, <1>2, <1>3, <1>4 DEF Free, Dirty

\* No page has two uses: allocate_page never hands out a page of the current tree, one
\* that is free twice, or one that the transaction has already.
THEOREM PagesHaveOneUse ==
    ASSUME PreemptedBegin = FALSE PROVE Spec => []AllocatedPagesAreUnused
<1>1. StoreInv => AllocatedPagesAreUnused BY UnusedPages
<1> QED BY <1>1, StoreIsConsistent, PTL

\* From the invariant: a reader finds what its snapshot has.
LEMMA SnapshotsAreRead ==
    ASSUME StoreInv
    PROVE  SnapshotIsolation
<1> SUFFICES ASSUME NEW r \in Reader, reader[r].phase = "done"
             PROVE  /\ reader[r].data.kind = "leaf"
                    /\ get_value(reader[r].data, reader[r].key) = reader[r].sees[reader[r].key]
  BY DEF SnapshotIsolation
<1> DEFINE root == reader[r].root
           key == reader[r].key
           way == LeafPage(file.pages, root, key)
<1>1. SnapshotIsKept(r) /\ ReaderIsAt(r) BY SnapshotFacts
<1>2. /\ WellFormed(root, file.pages[root], next_page_id)
      /\ Held(file.pages, root, file.pages[root])
      /\ reader[r].sees = Contents(file.pages, root)
  BY <1>1 DEF SnapshotIsKept
<1>3. key \in Key /\ reader[r].data = file.pages[way] BY <1>1 DEF ReaderIsAt
<1>4. next_page_id \in Nat BY Types DEF StoreInv
<1>5. /\ file.pages[way] \in Leaves
      /\ Contents(file.pages, root)[key] = get_value(file.pages[way], key)
  <2> HIDE DEF root, key
  <2> QED BY <1>2, <1>3, <1>4, TreeIsRead DEF way
<1>6. file.pages[way].kind = "leaf" BY <1>5, LeafFacts
<1> QED BY <1>2, <1>3, <1>5, <1>6

\* However long a read transaction stays open, it finds under every key what the store
\* held when it began: the tracker holds its pages back from every writer.
THEOREM SnapshotsAreIsolated ==
    ASSUME PreemptedBegin = FALSE PROVE Spec => []SnapshotIsolation
<1>1. StoreInv => SnapshotIsolation BY SnapshotsAreRead
<1> QED BY <1>1, StoreIsConsistent, PTL

-----------------------------------------------------------------------------
(* What is on the disk. *)

\* Whole batches are enough.
LEMMA Batches ==
    ASSUME NEW x \in Nat, NEW b \in Nat \ {0}
    PROVE  b * (x \div b) + b > x
<1>1. x = b * (x \div b) + (x % b) /\ x % b \in 0..(b - 1) /\ x \div b \in Nat OBVIOUS
<1>2. PICK c \in Nat : c = x \div b BY <1>1
<1>3. PICK y \in Nat : y = b * c BY <1>2
<1> QED BY <1>1, <1>2, <1>3

\* The file is made long enough for the next page, and never shorter.
LEMMA PreallocatedIsLong ==
    ASSUME TypeOK, NEW next \in Nat
    PROVE  next <= preallocate(next) /\ file.length <= preallocate(next)
<1>1. PICK length \in Nat : length = file.length BY Types
<1>2. PICK batch \in Nat \ {0} : batch = Batch BY StoreAssumption
<1>3. preallocate(next) = IF next <= length THEN length
                          ELSE length + batch * ((next - length + batch - 1) \div batch)
  BY <1>1, <1>2 DEF preallocate
<1>4. CASE next <= length BY <1>1, <1>3, <1>4
<1>5. CASE ~(next <= length)
  <2>1. PICK x \in Nat : x = next - length + batch - 1 BY <1>5
  <2>2. batch * (x \div batch) + batch > x BY Batches
  <2>3. x \div batch \in Nat OBVIOUS
  <2>4. PICK y \in Nat : y = batch * (x \div batch) BY <2>3
  <2>5. preallocate(next) = length + y BY <1>3, <1>5, <2>1, <2>4
  <2>6. y + batch > next - length + batch - 1 BY <2>1, <2>2, <2>4
  <2> QED BY <1>1, <1>5, <2>5, <2>6
<1> QED BY <1>4, <1>5

\* No page of a slot is past the end of a file that is long enough: a tree that is not
\* there as a whole is found to be corrupt.
LEMMA LongFileIsVerified ==
    ASSUME NEW image \in Files, NEW slot, SlotOK(slot), slot.next_page_id \in Nat,
           slot.next_page_id <= image.length
    PROVE  /\ verify_pages(image, slot) \in {"ok", "corrupt"}
           /\ Held(image.pages, slot.root_page_id, slot.root_page_checksum) =>
                 verify_pages(image, slot) = "ok"
<1> DEFINE sum == slot.root_page_checksum
           root == VerifyPage(image, slot.root_page_id, sum)
           children == ChildrenOf(sum)
           child(i) == VerifyPage(image, children[i].page, children[i].sum)
           bad == {i \in DOMAIN children : child(i) # "ok"}
<1>1. verify_pages(image, slot) = CASE root # "ok" -> root
                                    [] bad # {} -> child(Min(bad))
                                    [] OTHER -> "ok"
  BY DEF verify_pages
<1>2. image.length \in Nat BY DEF Files
<1>3. ASSUME NEW page, page \in 1..(slot.next_page_id - 1), NEW content
      PROVE  /\ VerifyPage(image, page, content) \in {"ok", "corrupt"}
             /\ image.pages[page] = content => VerifyPage(image, page, content) = "ok"
  <2>1. ~(page > image.length) /\ page # image.length BY <1>2, <1>3
  <2> QED BY <2>1 DEF VerifyPage
<1>4. /\ slot.root_page_id \in 1..(slot.next_page_id - 1)
      /\ \A i \in DOMAIN children : children[i].page \in 1..(slot.next_page_id - 1)
      /\ sum \in Leaves \cup Branches
  BY DEF SlotOK, WellFormed
<1>5. root \in {"ok", "corrupt"} /\ (image.pages[slot.root_page_id] = sum => root = "ok")
  BY <1>3, <1>4
<1>6. \A i \in DOMAIN children :
         /\ child(i) \in {"ok", "corrupt"}
         /\ image.pages[children[i].page] = children[i].sum => child(i) = "ok"
  BY <1>3, <1>4
<1>7. bad \in SUBSET Nat
  <2>1. CASE sum \in Leaves
    <3>1. children = <<>> BY <2>1, LeafFacts
    <3>2. DOMAIN children = {} BY <3>1
    <3> QED BY <3>2
  <2>2. CASE sum \in Branches
    <3>1. children = sum.children BY <2>2, BranchFacts DEF ChildrenOf
    <3>2. DOMAIN sum.children = 1..Len(sum.children) /\ Len(sum.children) \in Nat
      BY <2>2, BranchFacts, CapacityAssumption
    <3> QED BY <3>1, <3>2
  <2> QED BY <1>4, <2>1, <2>2
<1>8. bad # {} => Min(bad) \in DOMAIN children
  <2>1. bad # {} => Min(bad) \in bad
    <3> HIDE DEF bad
    <3> QED BY <1>7, LeastOfNaturals
  <2> QED BY <2>1
<1>9. Held(image.pages, slot.root_page_id, sum) => root = "ok" /\ bad = {}
  BY <1>5, <1>6 DEF Held
<1> HIDE DEF root, child, bad, children, sum
<1>10. bad # {} => child(Min(bad)) \in {"ok", "corrupt"} BY <1>6, <1>8
<1> QED BY <1>1, <1>5, <1>9, <1>10 DEF sum

\* A step that leaves the disk and the header alone and is not about to publish.
LEMMA DiskRests ==
    ASSUME DurableInv, UNCHANGED <<disk_vars, memory_vars, acked>>,
           \/ UNCHANGED writer
           \/ writer.phase # "publishing" /\ writer'.phase \notin {"syncing", "publishing"}
    PROVE  FileIsLong' /\ DiskIsAhead' /\ CurrentIsDurable'
<1>1. UNCHANGED <<file, synced, written, status, header, next_page_id>>
  BY DEF disk_vars, memory_vars
<1>2. FileIsLong /\ DiskIsAhead /\ CurrentIsDurable BY DEF DurableInv
<1>3. FileIsLong' BY <1>1, <1>2 DEF FileIsLong
<1>4. Current' = Current /\ CurrentTree' = CurrentTree
  BY <1>1 DEF Current, CurrentTree, active_slot
<1>5. UNCHANGED writer => NewHeader' = NewHeader BY <1>1 DEF NewHeader
<1>6. DiskIsAhead' BY <1>1, <1>2, <1>5 DEF DiskIsAhead
<1>7. CurrentIsDurable' BY <1>1, <1>2, <1>4 DEF CurrentIsDurable
<1> QED BY <1>3, <1>6, <1>7

\* The slots of the header that commit writes: the current one stays, in the other place.
LEMMA NewHeaderSlots ==
    ASSUME StoreInv, writer.phase # "none"
    PROVE  /\ header.active_slot \in 0..1 /\ NewHeader \in Headers /\ NewHeader # None
           /\ inactive_slot(NewHeader) = Current
           /\ \A s \in 0..1 : NewHeader.commit_slots[s] = header.commit_slots[s]
                              \/ NewHeader.commit_slots[s].next_page_id = next_page_id
<1> DEFINE slot == CommitSlot(writer.root, writer.sum, writer.tx, next_page_id)
           n == 1 - header.active_slot
<1>1. header \in Headers /\ header.active_slot \in 0..1 BY CurrentFacts
<1>2. n \in 0..1 /\ 1 - n = header.active_slot /\ n # header.active_slot BY <1>1
<1>3. slot.next_page_id = next_page_id BY DEF CommitSlot
<1>4. header = [active_slot |-> header.active_slot, commit_slots |-> header.commit_slots]
      /\ DOMAIN header.commit_slots = 0..1
  BY <1>1 DEF Headers
<1>5. PICK h : h = [header EXCEPT !.commit_slots[n] = slot] OBVIOUS
<1>6. NewHeader = [h EXCEPT !.active_slot = 1 - h.active_slot]
  BY <1>5 DEF NewHeader, with_commit, switch_to_inactive_slot
<1> HIDE DEF slot, n
<1>7. h = [active_slot |-> header.active_slot,
           commit_slots |-> [header.commit_slots EXCEPT ![n] = slot]]
  BY <1>4, <1>5
<1>8. h.active_slot = header.active_slot BY <1>7
<1>9. NewHeader = [active_slot |-> n,
                   commit_slots |-> [header.commit_slots EXCEPT ![n] = slot]]
  <2>1. NewHeader = [h EXCEPT !.active_slot = n] BY <1>6, <1>8 DEF n
  <2> QED BY <1>7, <2>1
<1>10. inactive_slot(NewHeader) = Current
  <2>1. inactive_slot(NewHeader) = [header.commit_slots EXCEPT ![n] = slot][1 - n]
    BY <1>9 DEF inactive_slot
  <2> QED BY <1>1, <1>2, <1>4, <2>1 DEF Current, active_slot
<1>11. \A s \in 0..1 : NewHeader.commit_slots[s] = header.commit_slots[s]
                       \/ NewHeader.commit_slots[s] = slot
  BY <1>4, <1>9
<1>12. NewHeader \in Headers BY NewHeaderFacts
<1> QED BY <1>1, <1>3, <1>10, <1>11, <1>12, NoHeaderAssumption

\* The disk after an insert: the file is as long as the pages taken need.
LEMMA FileGrows ==
    ASSUME DurableInv, StoreInv', writer.phase = "open", NEW old, NEW a, NEW dirty, NEW root,
           Modify(old, a, dirty, root)
    PROVE  FileIsLong' /\ DiskIsAhead' /\ CurrentIsDurable'
<1>1. /\ file' = [file EXCEPT !.length = preallocate(next_page_id')]
      /\ UNCHANGED <<synced, written, status, header, acked>>
      /\ writer' = [writer EXCEPT !.dirty = Over(dirty, writer.dirty),
                                  !.freed = writer.freed \o old,
                                  !.root = root, !.sum = checksum_page(dirty[root]),
                                  !.holds = Contents(Over(Over(dirty, writer.dirty),
                                                          file.pages), root)]
  BY DEF Modify, history_vars
<1>2. TypeOK /\ next_page_id' \in 2..MaxPages /\ MaxPages \in Nat
  BY StoreAssumption DEF DurableInv, StoreInv, TypeOK
<1>3. PICK next \in Nat : next = next_page_id' BY <1>2
<1>4. /\ next <= preallocate(next) /\ file.length <= preallocate(next)
      /\ preallocate(next) \in Nat /\ file.length \in Nat
  BY <1>2, Types, PreallocatedIsLong, Preallocated
<1>5. /\ file'.length = preallocate(next) /\ file'.pages = file.pages
      /\ file'.header = file.header
  <2>1. file = [header |-> file.header, length |-> file.length, pages |-> file.pages]
    BY <1>2, Types
  <2>2. PICK l : l = preallocate(next) OBVIOUS
  <2>3. file' = [file EXCEPT !.length = l] BY <1>1, <1>3, <2>2
  <2> QED BY <2>1, <2>2, <2>3
<1>6. writer'.phase = "open"
  <2>1. writer \in [phase : {"none", "open", "writing", "syncing", "publishing"},
                   tx : 0..MaxTx, root : Page \cup {0}, sum : Content,
                   dirty : [DOMAIN writer.dirty -> Content],
                   freed : Seq(Page), todo : SUBSET Page, holds : Maps]
    BY <1>2 DEF TypeOK
  <2>2. PICK d, f, s, h : writer' = [writer EXCEPT !.dirty = d, !.freed = f, !.root = root,
                                                  !.sum = s, !.holds = h]
    BY <1>1
  <2> QED BY <2>1, <2>2
<1>7. FileIsLong /\ CurrentIsDurable BY DEF DurableInv
<1>8. ASSUME NEW h, h \in ({header, file.header, synced.header} \cup written[HEADER_PAGE_ID]) \ {None},
             NEW s \in 0..1
      PROVE  h.commit_slots[s].next_page_id <= file'.length
  <2>1. h \in Headers BY <1>2, <1>8 DEF TypeOK, Files
  <2>2. h.commit_slots[s].next_page_id \in 2..MaxPages BY <2>1 DEF Headers
  <2>3. h.commit_slots[s].next_page_id <= file.length BY <1>7, <1>8 DEF FileIsLong
  <2> QED BY <1>2, <1>4, <1>5, <2>2, <2>3
<1>9. FileIsLong' BY <1>1, <1>3, <1>4, <1>5, <1>8 DEF FileIsLong
<1>10. DiskIsAhead' BY <1>6 DEF DiskIsAhead
<1>11. CurrentIsDurable'
  <2>1. Current' = Current /\ CurrentTree' = CurrentTree
    BY <1>1 DEF Current, CurrentTree, active_slot
  <2> QED BY <1>1, <1>5, <1>6, <1>7, <2>1 DEF CurrentIsDurable
<1> QED BY <1>9, <1>10, <1>11

\* An insert leaves the disk's tree as it is.
LEMMA InsertedDurably ==
    ASSUME DurableInv, StoreInv', NEW key \in Key, NEW value \in Value, insert(key, value)
    PROVE  FileIsLong' /\ DiskIsAhead' /\ CurrentIsDurable'
<1>1. writer.phase = "open" BY DEF insert, WriterIn
<1>2. CASE insert_root_leaf(key, value)
  <2>1. \E old, a, dirty, root : Modify(old, a, dirty, root) BY <1>2 DEF insert_root_leaf
  <2> QED BY <1>1, <2>1, FileGrows
<1>3. CASE insert_below_branch(key, value)
  <2>1. PICK content, leaf : insert_below(content, leaf, key, value)
    BY <1>3 DEF insert_below_branch
  <2>2. \E old, a, dirty, root : Modify(old, a, dirty, root) BY <2>1 DEF insert_below
  <2> QED BY <1>1, <2>2, FileGrows
<1> QED BY <1>2, <1>3 DEF insert

\* The writer's pages are not those of the current tree.
LEMMA PageWrittenDurably ==
    ASSUME DurableInv, NEW p \in writer.todo, write_page(p)
    PROVE  FileIsLong' /\ DiskIsAhead' /\ CurrentIsDurable'
<1> DEFINE d == writer.dirty[p]
<1>1. /\ writer.phase = "writing" /\ file' = [file EXCEPT !.pages[p] = d]
      /\ written' = [written EXCEPT ![p] = written[p] \cup {d}]
      /\ writer' = [writer EXCEPT !.todo = writer.todo \ {p}]
      /\ UNCHANGED <<synced, status, header, next_page_id, acked>>
  BY DEF write_page, WriterIn, memory_vars, history_vars
<1>2. TypeOK /\ FileIsLong /\ CurrentIsDurable BY DEF DurableInv, StoreInv
<1>3. /\ p \in Page /\ p \notin CurrentTree
  BY DEF DurableInv, StoreInv, TypeOK, DirtyIsWritten, PagesAreApart, Dirty
<1>4. /\ file'.header = file.header /\ file'.length = file.length
      /\ \A q : q # p => file'.pages[q] = file.pages[q]
  <2>1. file = [header |-> file.header, length |-> file.length, pages |-> file.pages]
        /\ file.pages \in [Page -> Content]
    BY <1>2, Types
  <2> HIDE DEF d
  <2>2. file' = [header |-> file.header, length |-> file.length,
                 pages |-> [file.pages EXCEPT ![p] = d]]
    BY <1>1, <2>1
  <2> QED BY <2>1, <2>2
<1>5. writer'.phase = "writing"
  <2>1. writer \in [phase : {"none", "open", "writing", "syncing", "publishing"},
                   tx : 0..MaxTx, root : Page \cup {0}, sum : Content,
                   dirty : [DOMAIN writer.dirty -> Content],
                   freed : Seq(Page), todo : SUBSET Page, holds : Maps]
    BY <1>2 DEF TypeOK
  <2> QED BY <1>1, <2>1
<1>6. \A q : q # p => written'[q] = written[q] BY <1>1
<1>7. written'[HEADER_PAGE_ID] = written[HEADER_PAGE_ID]
  <2>1. HEADER_PAGE_ID # p BY <1>3 DEF HEADER_PAGE_ID, Page
  <2> QED BY <1>6, <2>1
<1> HIDE DEF d
<1>8. FileIsLong' BY <1>1, <1>2, <1>4, <1>7 DEF FileIsLong
<1>9. DiskIsAhead' BY <1>5 DEF DiskIsAhead
<1>10. CurrentIsDurable'
  <2>1. Current' = Current /\ CurrentTree' = CurrentTree
    BY <1>1 DEF Current, CurrentTree, active_slot
  <2>2. acked => /\ status = "up"
                 /\ \A q \in CurrentTree : written'[q] = {} /\ synced.pages[q] = file'.pages[q]
    BY <1>2, <1>3, <1>4, <1>6 DEF CurrentIsDurable
  <2>3. acked => \A h \in {synced.header} \cup written'[HEADER_PAGE_ID] :
           h # None /\ (Current = active_slot(h) \/ Current = inactive_slot(h))
    BY <1>1, <1>2, <1>7 DEF CurrentIsDurable
  <2> QED BY <1>1, <2>1, <2>2, <2>3 DEF CurrentIsDurable
<1> QED BY <1>8, <1>9, <1>10

\* The header goes to the slot that is not current.
LEMMA HeaderWrittenDurably ==
    ASSUME DurableInv, StoreInv', write_header
    PROVE  FileIsLong' /\ DiskIsAhead' /\ CurrentIsDurable'
<1>1. PICK h : h = NewHeader OBVIOUS
<1>2. /\ writer.phase = "writing" /\ file' = [file EXCEPT !.header = h]
      /\ written' = [written EXCEPT ![HEADER_PAGE_ID] = written[HEADER_PAGE_ID] \cup {h}]
      /\ writer' = [writer EXCEPT !.phase = "syncing"]
      /\ UNCHANGED <<synced, status, header, next_page_id, acked>>
  BY <1>1 DEF write_header, WriterIn, memory_vars, history_vars
<1>3. TypeOK /\ FileIsLong /\ CurrentIsDurable BY DEF DurableInv, StoreInv
<1>4. /\ file'.header = h /\ file'.length = file.length /\ file'.pages = file.pages
  <2>1. file = [header |-> file.header, length |-> file.length, pages |-> file.pages]
    BY <1>3, Types
  <2> QED BY <1>2, <2>1
<1>5. /\ writer'.phase = "syncing" /\ writer'.tx = writer.tx /\ writer'.root = writer.root
      /\ writer'.sum = writer.sum
  <2>1. writer \in [phase : {"none", "open", "writing", "syncing", "publishing"},
                   tx : 0..MaxTx, root : Page \cup {0}, sum : Content,
                   dirty : [DOMAIN writer.dirty -> Content],
                   freed : Seq(Page), todo : SUBSET Page, holds : Maps]
    BY <1>3 DEF TypeOK
  <2> QED BY <1>2, <2>1
<1>6. NewHeader' = h BY <1>1, <1>2, <1>5 DEF NewHeader
<1>7. /\ header.active_slot \in 0..1 /\ h # None
      /\ inactive_slot(h) = Current
      /\ \A s \in 0..1 : h.commit_slots[s] = header.commit_slots[s]
                         \/ h.commit_slots[s].next_page_id = next_page_id
  BY <1>1, <1>2, NewHeaderSlots DEF DurableInv
<1>8. /\ \A p : p # HEADER_PAGE_ID => written'[p] = written[p]
      /\ \A x \in written'[HEADER_PAGE_ID] : x \in written[HEADER_PAGE_ID] \/ x = h
  BY <1>2
<1>9. FileIsLong'
  <2>1. \A s \in 0..1 : h.commit_slots[s].next_page_id <= file.length
    <3>1. header # None BY <1>3, NoHeaderAssumption DEF TypeOK
    <3> QED BY <1>3, <1>7, <3>1 DEF FileIsLong
  <2> QED BY <1>2, <1>3, <1>4, <1>8, <2>1 DEF FileIsLong
<1>10. DiskIsAhead' BY <1>4, <1>5, <1>6 DEF DiskIsAhead
<1>11. CurrentIsDurable'
  <2>1. Current' = Current /\ CurrentTree' = CurrentTree
    BY <1>2 DEF Current, CurrentTree, active_slot
  <2>2. \A p \in CurrentTree : p # HEADER_PAGE_ID
    <3>1. status = "up" BY <1>2, DraftFacts DEF DurableInv
    <3>2. \A p \in CurrentTree : p \in Page BY <3>1, CurrentFacts DEF DurableInv
    <3> QED BY <3>2 DEF Page, HEADER_PAGE_ID
  <2> QED BY <1>2, <1>3, <1>4, <1>7, <1>8, <2>1, <2>2 DEF CurrentIsDurable
<1> QED BY <1>9, <1>10, <1>11

\* After the sync the new tree is durable.
LEMMA DataSyncedDurably ==
    ASSUME DurableInv, sync_data
    PROVE  FileIsLong' /\ DiskIsAhead' /\ CurrentIsDurable'
<1>1. /\ writer.phase = "syncing" /\ synced' = file /\ written' = NothingWritten
      /\ writer' = [writer EXCEPT !.phase = "publishing"]
      /\ UNCHANGED <<file, status, header, next_page_id, acked>>
  BY DEF sync_data, WriterIn, memory_vars, history_vars
<1>2. TypeOK /\ FileIsLong /\ DiskIsAhead /\ CurrentIsDurable BY DEF DurableInv, StoreInv
<1>3. /\ writer'.phase = "publishing" /\ writer'.tx = writer.tx /\ writer'.root = writer.root
      /\ writer'.sum = writer.sum
  <2>1. writer \in [phase : {"none", "open", "writing", "syncing", "publishing"},
                   tx : 0..MaxTx, root : Page \cup {0}, sum : Content,
                   dirty : [DOMAIN writer.dirty -> Content],
                   freed : Seq(Page), todo : SUBSET Page, holds : Maps]
    BY <1>2 DEF TypeOK
  <2> QED BY <1>1, <2>1
<1>4. NewHeader' = NewHeader BY <1>1, <1>3 DEF NewHeader
<1>5. \A p \in Page \cup {HEADER_PAGE_ID} : written'[p] = {} BY <1>1 DEF NothingWritten
<1>6. FileIsLong' BY <1>1, <1>2, <1>5 DEF FileIsLong
<1>7. DiskIsAhead' BY <1>1, <1>2, <1>4, <1>5 DEF DiskIsAhead
<1>8. NewHeader # None BY <1>1, NewHeaderSlots DEF DurableInv
<1>9. CurrentIsDurable'
  <2>1. Current' = Current /\ CurrentTree' = CurrentTree
    BY <1>1 DEF Current, CurrentTree, active_slot
  <2>2. \A p \in CurrentTree : p \in Page
    <3>1. status = "up" BY <1>1, DraftFacts DEF DurableInv
    <3> QED BY <3>1, CurrentFacts DEF DurableInv
  <2>3. synced'.header # None BY <1>1, <1>2, <1>8 DEF DiskIsAhead
  <2> QED BY <1>1, <1>2, <1>3, <1>5, <2>1, <2>2, <2>3 DEF CurrentIsDurable
<1> QED BY <1>6, <1>7, <1>9

\* The new tree is on the disk as a whole, and the header that is there names it.
LEMMA PublishedDurably ==
    ASSUME DurableInv, StoreInv', publish
    PROVE  FileIsLong' /\ DiskIsAhead' /\ CurrentIsDurable'
<1>1. /\ writer.phase = "publishing" /\ header' = NewHeader /\ writer' = NoWriter
      /\ UNCHANGED <<file, synced, written, status, next_page_id>>
  BY DEF publish, WriterIn, disk_vars
<1>2. FileIsLong /\ DiskIsAhead BY DEF DurableInv
<1>3. /\ file.header = NewHeader /\ synced = file
      /\ \A p \in Page \cup {HEADER_PAGE_ID} : written[p] = {}
  BY <1>1, <1>2 DEF DiskIsAhead
<1>4. NewHeader # None /\ status = "up" BY <1>1, NewHeaderSlots, DraftFacts DEF DurableInv
<1>5. writer'.phase = "none" BY <1>1, NoWriterType
<1>6. FileIsLong' BY <1>1, <1>2, <1>3 DEF FileIsLong
<1>7. DiskIsAhead' BY <1>5 DEF DiskIsAhead
<1>8. Current' = active_slot(NewHeader) BY <1>1 DEF Current
<1>9. \A p \in CurrentTree' : p \in Page
  <2>1. CurrentTree' = Draft
    <3>1. /\ active_slot(NewHeader).root_page_id = writer.root
          /\ active_slot(NewHeader).root_page_checksum = writer.sum
      BY <1>1, NewHeaderFacts DEF DurableInv, CommitSlot
    <3> QED BY <1>8, <3>1 DEF CurrentTree, Draft
  <2> QED BY <1>1, <2>1, DraftFacts DEF DurableInv
<1>10. CurrentIsDurable' BY <1>1, <1>3, <1>4, <1>8, <1>9 DEF CurrentIsDurable
<1> QED BY <1>6, <1>7, <1>10

\* The pages of an image that no write is in doubt about are those that were synced.
LEMMA ImageIsLong ==
    ASSUME DurableInv, LengthFirst, NEW image \in Images
    PROVE  /\ image.length = file.length /\ file.length \in Nat \ {0}
           /\ image.header \in {synced.header} \cup written[HEADER_PAGE_ID]
           /\ \A p \in Page : p < file.length /\ written[p] = {} =>
                 image.pages[p] = synced.pages[p]
<1> DEFINE doubt == {p \in Page : written[p] # {}}
           kept == {f \in [doubt -> UNION {Survivors(p) : p \in doubt}] :
                      \A p \in doubt : f[p] \in Survivors(p)}
           left(h, length, f) ==
               [header |-> IF length = 0 THEN None ELSE h, length |-> length,
                pages |-> [p \in Page |-> IF p >= length THEN Zero
                                          ELSE IF p \in doubt THEN f[p]
                                          ELSE synced.pages[p]]]
<1>1. Images = {left(h, length, f) : h \in HeaderSurvivors, length \in LengthSurvivors,
                                     f \in kept}
  BY DEF Images
<1>2. file.length \in Nat /\ next_page_id <= file.length /\ next_page_id \in 2..MaxPages
  BY Types DEF DurableInv, StoreInv, FileIsLong
<1>3. file.length \in Nat \ {0} BY <1>2, StoreAssumption
<1> HIDE DEF doubt, kept, left
<1>4. PICK h \in HeaderSurvivors, length \in LengthSurvivors, f \in kept :
         image = left(h, length, f)
  BY <1>1
<1>5. length = file.length BY DEF LengthSurvivors
<1>6. image = [header |-> h, length |-> file.length,
               pages |-> [p \in Page |-> IF p >= file.length THEN Zero
                                         ELSE IF p \in doubt THEN f[p]
                                         ELSE synced.pages[p]]]
  BY <1>3, <1>4, <1>5 DEF left
<1>7. image.length = file.length /\ image.header = h
      /\ \A p \in Page : image.pages[p] = IF p >= file.length THEN Zero
                                          ELSE IF p \in doubt THEN f[p]
                                          ELSE synced.pages[p]
  BY <1>6
<1>8. \A p \in Page : p < file.length => ~(p >= file.length) BY <1>3 DEF Page
<1> QED BY <1>3, <1>7, <1>8 DEF HeaderSurvivors, doubt

\* Recovery keeps the slots that the header has, and with a file that is long enough it
\* finds a tree if one of them is there.
LEMMA RecoveryFinds ==
    ASSUME NEW image \in Files, image.header \in Headers,
           \A s \in 0..1 : /\ SlotOK(image.header.commit_slots[s])
                           /\ image.header.commit_slots[s].next_page_id <= image.length
    PROVE  LET h == image.header
               outcome == recover_header(image)
           IN  /\ outcome.header.commit_slots = h.commit_slots
               /\ active_slot(outcome.header) \in {active_slot(h), inactive_slot(h)}
               /\ \E s \in 0..1 : active_slot(outcome.header) = h.commit_slots[s]
               /\ \A slot \in {active_slot(h), inactive_slot(h)} :
                     Held(image.pages, slot.root_page_id, slot.root_page_checksum)
                       => outcome.status = "up"
<1> DEFINE h == image.header
           other == switch_to_inactive_slot(h)
           active == verify_pages(image, active_slot(h))
           inactive == verify_pages(image, inactive_slot(h))
           outcome == recover_header(image)
<1>1. /\ h = [active_slot |-> h.active_slot, commit_slots |-> h.commit_slots]
      /\ h.active_slot \in 0..1 /\ h.commit_slots \in [0..1 -> Slots]
  BY DEF Headers, Slots
<1>2. 1 - h.active_slot \in 0..1 BY <1>1
<1>3. MaxPages \in Nat BY StoreAssumption
<1>4. \A s \in 0..1 : /\ SlotOK(h.commit_slots[s]) /\ h.commit_slots[s].next_page_id \in Nat
                      /\ h.commit_slots[s].next_page_id <= image.length
  BY <1>1, <1>3 DEF Slots
<1> HIDE DEF h
<1>5. other = [active_slot |-> 1 - h.active_slot, commit_slots |-> h.commit_slots]
  BY <1>1 DEF switch_to_inactive_slot
<1>6. other.commit_slots = h.commit_slots /\ active_slot(other) = inactive_slot(h)
  BY <1>5 DEF active_slot, inactive_slot
<1> HIDE DEF other
<1>7. \A slot \in {active_slot(h), inactive_slot(h)} :
         /\ \E s \in 0..1 : slot = h.commit_slots[s]
         /\ SlotOK(slot) /\ slot.next_page_id \in Nat /\ slot.next_page_id <= image.length
  BY <1>1, <1>2, <1>4 DEF active_slot, inactive_slot
<1>8. \A slot \in {active_slot(h), inactive_slot(h)} :
         /\ verify_pages(image, slot) \in {"ok", "corrupt"}
         /\ Held(image.pages, slot.root_page_id, slot.root_page_checksum) =>
               verify_pages(image, slot) = "ok"
  BY <1>7, LongFileIsVerified
<1>9. outcome = CASE active = "ok" -> [status |-> "up", header |-> h]
                  [] active # "ok" /\ active # "corrupt" -> [status |-> active, header |-> h]
                  [] active = "corrupt" /\ inactive = "ok" -> [status |-> "up", header |-> other]
                  [] OTHER -> [status |-> inactive, header |-> h]
  BY DEF recover_header, h, other
<1>10. active \in {"ok", "corrupt"} /\ inactive \in {"ok", "corrupt"} BY <1>8
<1>11. \A slot \in {active_slot(h), inactive_slot(h)} :
          Held(image.pages, slot.root_page_id, slot.root_page_checksum) =>
             active = "ok" \/ inactive = "ok"
  BY <1>8
<1> HIDE DEF active, inactive, outcome
<1>12. /\ outcome.header \in {h, other}
       /\ active = "ok" \/ inactive = "ok" => outcome.status = "up"
  <2>1. CASE active = "ok"
    <3>1. outcome = [status |-> "up", header |-> h] BY <1>9, <2>1
    <3> QED BY <3>1
  <2>2. CASE active = "corrupt" /\ inactive = "ok"
    <3>1. outcome = [status |-> "up", header |-> other] BY <1>9, <2>2
    <3> QED BY <3>1
  <2>3. CASE active = "corrupt" /\ inactive # "ok"
    <3>1. outcome = [status |-> inactive, header |-> h] BY <1>9, <2>3
    <3> QED BY <2>3, <3>1
  <2> QED BY <1>10, <2>1, <2>2, <2>3
<1>13. /\ outcome.header.commit_slots = h.commit_slots
       /\ active_slot(outcome.header) \in {active_slot(h), inactive_slot(h)}
  BY <1>6, <1>12
<1>14. \E s \in 0..1 : active_slot(outcome.header) = h.commit_slots[s] BY <1>7, <1>13
<1> QED BY <1>11, <1>12, <1>13, <1>14 DEF outcome, h

\* A crash leaves a slot whose tree is whole: that of the last commit, or, before the
\* switch in memory, that of the commit that is about to return.
LEMMA OneSlotIsWhole ==
    ASSUME DurableInv, LengthFirst, acked, NEW image \in Images
    PROVE  /\ image.header # None
           /\ \E slot \in {active_slot(image.header), inactive_slot(image.header)} :
                 Held(image.pages, slot.root_page_id, slot.root_page_checksum)
<1>1. /\ image.length = file.length /\ file.length \in Nat \ {0}
      /\ image.header \in {synced.header} \cup written[HEADER_PAGE_ID]
      /\ \A p \in Page : p < file.length /\ written[p] = {} => image.pages[p] = synced.pages[p]
  BY ImageIsLong
<1>2. /\ status = "up" /\ image.header # None
      /\ \A p \in CurrentTree : written[p] = {} /\ synced.pages[p] = file.pages[p]
      /\ \/ writer.phase = "publishing"
         \/ Current = active_slot(image.header) \/ Current = inactive_slot(image.header)
  BY <1>1 DEF DurableInv, CurrentIsDurable
<1>3. StoreInv /\ next_page_id <= file.length BY DEF DurableInv, FileIsLong
<1>4. next_page_id \in Nat BY <1>3, Types DEF StoreInv
<1>5. \A p \in Page : p < next_page_id => p < file.length BY <1>1, <1>3, <1>4 DEF Page
<1>6. CASE writer.phase # "publishing"
  <2>1. \A p \in CurrentTree : p \in Page /\ p < next_page_id BY <1>2, <1>3, CurrentFacts
  <2>2. \A p \in CurrentTree : image.pages[p] = file.pages[p] BY <1>1, <1>2, <1>5, <2>1
  <2>3. /\ Held(file.pages, Current.root_page_id, Current.root_page_checksum)
        /\ SlotOK(Current) /\ Current.next_page_id \in Nat
    BY <1>2, <1>3, CurrentFacts, StoreAssumption DEF StoreInv, CurrentIsHeld
  <2>4. Held(image.pages, Current.root_page_id, Current.root_page_checksum)
    BY <2>2, <2>3, TreeStays DEF SlotOK, CurrentTree
  <2> QED BY <1>2, <1>6, <2>4
<1>7. CASE writer.phase = "publishing"
  <2>1. /\ file.header = NewHeader /\ synced = file
        /\ \A p \in Page \cup {HEADER_PAGE_ID} : written[p] = {}
    BY <1>7 DEF DurableInv, DiskIsAhead
  <2>2. image.header = NewHeader BY <1>1, <2>1
  <2>3. /\ WellFormed(writer.root, writer.sum, next_page_id)
        /\ Held(Over(writer.dirty, file.pages), writer.root, writer.sum)
        /\ \A p \in Draft : p \in Page /\ p < next_page_id
    BY <1>3, <1>7, DraftFacts
  <2>4. Over(writer.dirty, file.pages) = file.pages
    <3>1. \A p \in Dirty : file.pages[p] = writer.dirty[p]
      BY <1>3, <1>7 DEF StoreInv, DirtyIsWritten
    <3>2. file.pages \in [Page -> Content] /\ Dirty \in SUBSET Page BY <1>3, Types DEF StoreInv
    <3> QED BY <3>1, <3>2 DEF Over, Dirty
  <2>5. \A p \in Draft : image.pages[p] = file.pages[p]
    <3>1. \A p \in Draft : p < file.length /\ written[p] = {} BY <1>5, <2>1, <2>3
    <3> QED BY <1>1, <2>1, <2>3, <3>1
  <2>6. Held(image.pages, writer.root, writer.sum)
    <3>1. Held(file.pages, writer.root, writer.sum) BY <2>3, <2>4
    <3> QED BY <1>4, <2>3, <2>5, <3>1, TreeStays DEF Draft
  <2>7. active_slot(NewHeader).root_page_id = writer.root
        /\ active_slot(NewHeader).root_page_checksum = writer.sum
    BY <1>3, <1>7, NewHeaderFacts DEF CommitSlot
  <2> QED BY <1>2, <2>2, <2>6, <2>7
<1> QED BY <1>6, <1>7

\* Recovery comes to a tree whose pages have survived.
LEMMA CrashedDurably ==
    ASSUME DurableInv, LengthFirst, StoreInv', crash
    PROVE  FileIsLong' /\ DiskIsAhead' /\ CurrentIsDurable'
<1>1. PICK image \in Images : open_existing(image) BY DEF crash
<1>2. writer'.phase = "none" /\ acked' = acked BY NoWriterType DEF crash
<1>3. /\ image \in Files
      /\ image.header # None =>
            image.header \in Headers /\ \A s \in 0..1 : SlotOK(image.header.commit_slots[s])
  BY ImageFacts DEF DurableInv
<1> DEFINE outcome == IF image.header = None
                      THEN [status |-> "no header", header |-> header]
                      ELSE recover_header(image)
           slot == active_slot(outcome.header)
<1>4. /\ file' = image /\ synced' = image /\ written' = NothingWritten
      /\ status' = outcome.status /\ header' = outcome.header
      /\ next_page_id' = slot.next_page_id
  BY <1>1 DEF open_existing
<1>5. /\ image.length = file.length
      /\ image.header \in {synced.header} \cup written[HEADER_PAGE_ID]
  BY ImageIsLong
<1>6. FileIsLong /\ header \in Headers /\ header.active_slot \in 0..1
  BY CurrentFacts DEF DurableInv
<1>7. \A h \in {header, image.header} \ {None} : \A s \in 0..1 :
         h.commit_slots[s].next_page_id <= image.length
  BY <1>5, <1>6 DEF FileIsLong
<1>8. image.header # None =>
         /\ outcome.header.commit_slots = image.header.commit_slots
         /\ slot \in {active_slot(image.header), inactive_slot(image.header)}
         /\ \E s \in 0..1 : slot = image.header.commit_slots[s]
         /\ \A x \in {active_slot(image.header), inactive_slot(image.header)} :
               Held(image.pages, x.root_page_id, x.root_page_checksum)
                 => outcome.status = "up"
  <2> SUFFICES ASSUME image.header # None
               PROVE  /\ outcome.header.commit_slots = image.header.commit_slots
                      /\ slot \in {active_slot(image.header), inactive_slot(image.header)}
                      /\ \E s \in 0..1 : slot = image.header.commit_slots[s]
                      /\ \A x \in {active_slot(image.header), inactive_slot(image.header)} :
                            Held(image.pages, x.root_page_id, x.root_page_checksum)
                              => outcome.status = "up"
    OBVIOUS
  <2>1. outcome = recover_header(image) OBVIOUS
  <2> HIDE DEF outcome
  <2> QED BY <1>3, <1>7, <2>1, RecoveryFinds
<1>9. image.header = None => outcome.header = header /\ slot = header.commit_slots[header.active_slot]
  BY DEF active_slot
<1> HIDE DEF outcome
<1>10. \A p \in Page \cup {HEADER_PAGE_ID} : written'[p] = {} BY <1>4 DEF NothingWritten
<1>11. header # None BY <1>6, NoHeaderAssumption
<1>12. FileIsLong'
  <2>1. slot.next_page_id <= image.length BY <1>6, <1>7, <1>8, <1>9, <1>11
  <2>2. \A s \in 0..1 : outcome.header.commit_slots[s].next_page_id <= image.length
    BY <1>7, <1>8, <1>9, <1>11
  <2>3. \A s \in 0..1 : image.header # None => image.header.commit_slots[s].next_page_id <= image.length
    BY <1>7
  <2> HIDE DEF slot
  <2> QED BY <1>4, <1>10, <2>1, <2>2, <2>3 DEF FileIsLong
<1>13. DiskIsAhead' BY <1>2 DEF DiskIsAhead
<1>14. CurrentIsDurable'
  <2> SUFFICES ASSUME acked
               PROVE  /\ status' = "up"
                      /\ \A p \in CurrentTree' : written'[p] = {} /\ synced'.pages[p] = file'.pages[p]
                      /\ \A h \in {synced'.header} \cup written'[HEADER_PAGE_ID] :
                            h # None /\ (Current' = active_slot(h) \/ Current' = inactive_slot(h))
    BY <1>2 DEF CurrentIsDurable
  <2>1. image.header # None /\ outcome.status = "up" BY <1>8, OneSlotIsWhole
  <2>2. Current' = slot BY <1>4 DEF Current
  <2>3. \A p \in CurrentTree' : p \in Page
    <3>1. SlotOK(slot) /\ slot.next_page_id \in 2..MaxPages
      BY <1>3, <1>8, <2>1 DEF Headers
    <3>2. PICK next \in Nat : next = slot.next_page_id BY <3>1, StoreAssumption
    <3>3. \A p \in CurrentTree' : p \in 1..(next - 1)
      <4>1. WellFormed(slot.root_page_id, slot.root_page_checksum, next) BY <3>1, <3>2 DEF SlotOK
      <4> HIDE DEF slot
      <4> QED BY <2>2, <4>1, TreeIsBelow DEF CurrentTree
    <3> QED BY <3>1, <3>2, <3>3, StoreAssumption DEF Page
  <2> QED BY <1>4, <1>8, <1>10, <2>1, <2>2, <2>3
<1> QED BY <1>12, <1>13, <1>14

\* The invariant of the disk holds in a new store.
LEMMA DurableInit ==
    ASSUME Init
    PROVE  DurableInv
<1>1. StoreInv BY StoreInit
<1>2. /\ file.header = initial /\ file.length = 2 /\ synced.header = None
      /\ header = initial /\ next_page_id = 2 /\ writer = NoWriter /\ acked = FALSE
      /\ written[HEADER_PAGE_ID] \subseteq {initial}
  BY DEF Init, NothingWritten, HEADER_PAGE_ID, INITIAL_ROOT_PAGE_ID
<1>3. \A s \in 0..1 : initial.commit_slots[s].next_page_id = 2
  BY DEF initial, CommitSlot, INITIAL_ROOT_PAGE_ID
<1>4. FileIsLong
  <2>1. \A h \in ({header, file.header, synced.header} \cup written[HEADER_PAGE_ID]) \ {None} :
           h = initial
    BY <1>2
  <2> QED BY <1>2, <1>3, <2>1 DEF FileIsLong
<1>5. DiskIsAhead BY <1>2, NoWriterType DEF DiskIsAhead
<1>6. CurrentIsDurable BY <1>2 DEF CurrentIsDurable
<1> QED BY <1>1, <1>4, <1>5, <1>6 DEF DurableInv

\* Every step keeps the invariant of the disk.
LEMMA DurableStep ==
    ASSUME DurableInv, PreemptedBegin = FALSE, LengthFirst = TRUE, [Next]_vars
    PROVE  DurableInv'
<1>1. StoreInv' BY StoreStep DEF DurableInv
<1>2. writer \in [phase : {"none", "open", "writing", "syncing", "publishing"},
                 tx : 0..MaxTx, root : Page \cup {0}, sum : Content,
                 dirty : [DOMAIN writer.dirty -> Content],
                 freed : Seq(Page), todo : SUBSET Page, holds : Maps]
  BY DEF DurableInv, StoreInv, TypeOK
<1>3. ASSUME write_transaction PROVE FileIsLong' /\ DiskIsAhead' /\ CurrentIsDurable'
  <2>1. CASE begin_write
    <3>1. writer.phase = "none" /\ UNCHANGED <<disk_vars, memory_vars, acked>>
      BY <2>1 DEF begin_write, WriterIn, history_vars
    <3>2. PICK tx, root, sum, holds :
             writer' = [NoWriter EXCEPT !.phase = "open", !.tx = tx, !.root = root,
                                        !.sum = sum, !.holds = holds]
      BY <2>1 DEF begin_write
    <3>3. writer'.phase = "open" BY <3>2, NoWriterType
    <3> QED BY <3>1, <3>3, DiskRests
  <2>2. CASE abandon
    <3>1. /\ writer.phase = "open" /\ writer' = NoWriter
          /\ UNCHANGED <<disk_vars, memory_vars, acked>>
      BY <2>2 DEF abandon, WriterIn, history_vars
    <3> QED BY <3>1, NoWriterType, DiskRests
  <2>3. CASE commit
    <3>1. /\ writer.phase = "open"
          /\ writer' = [writer EXCEPT !.phase = "writing", !.todo = DOMAIN writer.dirty]
          /\ UNCHANGED <<disk_vars, memory_vars, acked>>
      BY <2>3 DEF commit, WriterIn
    <3>2. writer'.phase = "writing" BY <1>2, <3>1
    <3> QED BY <3>1, <3>2, DiskRests
  <2>4. CASE write_header BY <1>1, <2>4, HeaderWrittenDurably
  <2>5. CASE sync_data BY <2>5, DataSyncedDurably
  <2>6. CASE publish BY <1>1, <2>6, PublishedDurably
  <2>7. CASE commit_fails
    <3>1. /\ writer.phase = "writing" \/ writer.phase = "syncing"
          /\ writer' = NoWriter /\ UNCHANGED <<disk_vars, memory_vars, acked>>
      BY <2>7 DEF commit_fails, WriterIn, history_vars
    <3> QED BY <3>1, NoWriterType, DiskRests
  <2>8. ASSUME NEW key \in Key, NEW value \in Value, insert(key, value)
        PROVE  FileIsLong' /\ DiskIsAhead' /\ CurrentIsDurable'
    BY <1>1, <2>8, InsertedDurably
  <2>9. ASSUME NEW p \in writer.todo, write_page(p)
        PROVE  FileIsLong' /\ DiskIsAhead' /\ CurrentIsDurable'
    BY <2>9, PageWrittenDurably
  <2> QED BY <1>3, <2>1, <2>2, <2>3, <2>4, <2>5, <2>6, <2>7, <2>8, <2>9
          DEF write_transaction
<1>4. ASSUME NEW r \in Reader, read_transaction(r)
      PROVE  FileIsLong' /\ DiskIsAhead' /\ CurrentIsDurable'
  <2>1. UNCHANGED <<disk_vars, memory_vars, acked, writer>>
    BY <1>4 DEF read_transaction, begin_read, register, read_cached, read_file, fill_cache,
                end_read, history_vars
  <2> QED BY <2>1, DiskRests
<1>5. ASSUME crash PROVE FileIsLong' /\ DiskIsAhead' /\ CurrentIsDurable'
  BY <1>1, <1>5, CrashedDurably
<1>6. ASSUME UNCHANGED vars PROVE FileIsLong' /\ DiskIsAhead' /\ CurrentIsDurable'
  <2>1. UNCHANGED <<disk_vars, memory_vars, acked, writer>> BY <1>6 DEF vars, history_vars
  <2> QED BY <2>1, DiskRests
<1> QED BY <1>1, <1>3, <1>4, <1>5, <1>6 DEF Next, DurableInv

\* From the first commit that has returned, the current tree is on the disk as a whole,
\* no write is in doubt about one of its pages, and every header that a crash may leave
\* has a slot for it; no slot ever names a page past the end of the file.
THEOREM StoreIsDurable ==
    ASSUME PreemptedBegin = FALSE, LengthFirst = TRUE PROVE Spec => []DurableInv
<1>1. Init => DurableInv BY DurableInit
<1>2. DurableInv /\ [Next]_vars => DurableInv' BY DurableStep
<1> QED BY <1>1, <1>2, PTL DEF Spec

\* Once a commit has returned Ok, the file can be opened after every crash, at whatever
\* step of a later commit: recovery finds a slot whose tree is whole.
THEOREM AcknowledgedCommitsSurvive ==
    ASSUME PreemptedBegin = FALSE, LengthFirst = TRUE PROVE Spec => []StaysOpenable
<1>1. DurableInv => StaysOpenable BY DEF DurableInv, CurrentIsDurable, StaysOpenable
<1> QED BY <1>1, StoreIsDurable, PTL
=============================================================================
