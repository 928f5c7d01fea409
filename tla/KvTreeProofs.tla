---------------------------- MODULE KvTreeProofs ---------------------------
(***************************************************************************)
(* The b-tree of the kv store, for keys and values of any size and trees   *)
(* of any height: every key is found where Tree::get looks for it, the     *)
(* bytes of a page never overlap, checksums match, and every page has one  *)
(* use, also while an insert is under way or has failed.                   *)
(***************************************************************************)
EXTENDS KvTree, TLAPS, FiniteSetTheorems, SequenceTheorems, WellFoundedInduction

\* A non-empty set of naturals has a least element.
LEMMA LeastOfNaturals ==
    ASSUME NEW S \in SUBSET Nat, S # {}
    PROVE  Min(S) \in S /\ \A y \in S : Min(S) <= y
<1>1. PICK x \in S : \A y \in S : ~ (<<y, x>> \in OpToRel(<, Nat))
  BY WFMin, NatLessThanWellFounded
<1>2. \A y \in S : x =< y
  <2> TAKE y \in S
  <2>1. ~(y < x) BY <1>1 DEF OpToRel
  <2> QED BY <2>1
<1>3. \E z \in S : \A y \in S : z =< y BY <1>2
<1> QED BY <1>3 DEF Min

\* A set of positive naturals that has with a number all smaller ones is an interval.
LEMMA InitialSegment ==
    ASSUME NEW n \in Nat, NEW S \in SUBSET (1..n), \A i \in S : \A j \in 1..i : j \in S
    PROVE  /\ Cardinality(S) \in 0..n
           /\ S = 1..Cardinality(S)
<1> DEFINE Out == {i \in 1..(n + 1) : i \notin S}
           m == Min(Out)
<1>1. Out \in SUBSET Nat /\ n + 1 \in Out OBVIOUS
<1>2. m \in Out /\ \A y \in Out : m <= y BY <1>1, LeastOfNaturals
<1> HIDE DEF m
<1>3. m - 1 \in 0..n /\ m \in 1..(n + 1) BY <1>2
<1>4. S = 1..(m - 1)
  <2>1. \A i \in S : i < m
    <3> SUFFICES ASSUME NEW i \in S, ~(i < m) PROVE FALSE OBVIOUS
    <3>1. m \in 1..i BY <1>3
    <3> QED BY <3>1, <1>2
  <2>2. \A i \in 1..(m - 1) : i \in S
    <3> SUFFICES ASSUME NEW i \in 1..(m - 1), i \notin S PROVE FALSE OBVIOUS
    <3>1. i \in Out BY <1>3
    <3> QED BY <3>1, <1>2, <1>3
  <2>3. \A i \in S : i \in 1..(m - 1) BY <2>1, <1>3
  <2> HIDE DEF Out
  <2> QED BY <2>2, <2>3
<1>5. Cardinality(S) = m - 1
  <2>1. Cardinality(1..(m - 1)) = IF 1 > m - 1 THEN 0 ELSE m - 1 - 1 + 1
    BY <1>3, FS_Interval
  <2> QED BY <2>1, <1>3, <1>4
<1> QED BY <1>3, <1>4, <1>5

\* A sequence with an element more at place x.
Inserted(new, s, x, e) ==
    /\ Len(new) = Len(s) + 1
    /\ \A i \in 1..(Len(s) + 1) :
          new[i] = IF i < x THEN s[i] ELSE IF i = x THEN e ELSE s[i - 1]

\* InsertAt puts one element in its place and moves those from there on by one.
LEMMA InsertedAt ==
    ASSUME NEW S, NEW s \in Seq(S), NEW x \in 1..(Len(s) + 1), NEW e \in S
    PROVE  InsertAt(s, x, e) \in Seq(S) /\ Inserted(InsertAt(s, x, e), s, x, e)
<1> DEFINE l == Len(s)
           left == SubSeq(s, 1, x - 1)
           right == SubSeq(s, x, l)
<1>1. l \in Nat /\ \A i \in 1..l : s[i] \in S BY LenProperties
<1> HIDE DEF l
<1>x. x \in 1..(l + 1) BY DEF l
<1>2. /\ left \in Seq(S) /\ Len(left) = x - 1
      /\ \A i \in 1..(x - 1) : left[i] = s[i]
  <2>1. \A i \in 1..(x - 1) : s[i] \in S BY <1>1, <1>x
  <2>2. /\ left \in Seq(S)
        /\ Len(left) = IF 1 <= x - 1 THEN (x - 1) - 1 + 1 ELSE 0
        /\ \A i \in 1..((x - 1) - 1 + 1) : left[i] = s[1 + i - 1]
    BY <1>x, <2>1, SubSeqProperties
  <2> HIDE DEF left
  <2> QED BY <1>1, <1>x, <2>2
<1>3. /\ right \in Seq(S) /\ Len(right) = l - x + 1
      /\ \A i \in 1..(l - x + 1) : right[i] = s[x + i - 1]
  <2>1. \A i \in x..l : s[i] \in S BY <1>1, <1>x
  <2>2. /\ right \in Seq(S)
        /\ Len(right) = IF x <= l THEN l - x + 1 ELSE 0
        /\ \A i \in 1..(l - x + 1) : right[i] = s[x + i - 1]
    BY <1>1, <1>x, <2>1, SubSeqProperties
  <2> HIDE DEF right
  <2> QED BY <1>1, <1>x, <2>2
<1> HIDE DEF left, right
<1>4. <<e>> \in Seq(S) /\ Len(<<e>>) = 1 /\ <<e>>[1] = e OBVIOUS
<1>5. /\ left \o <<e>> \in Seq(S) /\ Len(left \o <<e>>) = x
      /\ \A i \in 1..x : (left \o <<e>>)[i] = IF i < x THEN s[i] ELSE e
  <2>1. /\ left \o <<e>> \in Seq(S) /\ Len(left \o <<e>>) = Len(left) + Len(<<e>>)
        /\ \A i \in 1..(Len(left) + Len(<<e>>)) : (left \o <<e>>)[i] =
              IF i <= Len(left) THEN left[i] ELSE <<e>>[i - Len(left)]
    BY <1>2, <1>4, ConcatProperties
  <2>2. Len(left) = x - 1 /\ Len(left) + Len(<<e>>) = x BY <1>1, <1>2, <1>4, <1>x
  <2>3. \A i \in 1..x : (left \o <<e>>)[i] = IF i <= x - 1 THEN left[i] ELSE <<e>>[i - (x - 1)]
    BY <2>1, <2>2
  <2>4. ASSUME NEW i \in 1..x PROVE (left \o <<e>>)[i] = IF i < x THEN s[i] ELSE e
    <3>1. CASE i < x
      <4>1. i \in 1..(x - 1) /\ i <= x - 1 BY <3>1, <1>1, <1>x
      <4> QED BY <4>1, <3>1, <2>3, <1>2
    <3>2. CASE ~(i < x)
      <4>1. i - (x - 1) = 1 /\ ~(i <= x - 1) BY <3>2, <1>1, <1>x
      <4> QED BY <4>1, <3>2, <2>3, <1>4
    <3> QED BY <3>1, <3>2
  <2> QED BY <2>1, <2>2, <2>4
<1>6. PICK both \in Seq(S) : both = left \o <<e>> BY <1>5
<1>7. /\ both \o right \in Seq(S) /\ Len(both \o right) = l + 1
      /\ \A i \in 1..(l + 1) : (both \o right)[i] = IF i <= x THEN both[i] ELSE right[i - x]
  <2>1. /\ both \o right \in Seq(S) /\ Len(both \o right) = Len(both) + Len(right)
        /\ \A i \in 1..(Len(both) + Len(right)) : (both \o right)[i] =
              IF i <= Len(both) THEN both[i] ELSE right[i - Len(both)]
    <3>1. right \in Seq(S) BY <1>3
    <3> QED BY <3>1, ConcatProperties
  <2>2. Len(both) = x /\ Len(both) + Len(right) = l + 1
    <3>1. Len(both) = x BY <1>5, <1>6
    <3>2. Len(right) = l - x + 1 BY <1>3
    <3> QED BY <3>1, <3>2, <1>1, <1>x
  <2> QED BY <2>1, <2>2
<1>8. InsertAt(s, x, e) = both \o right BY <1>6 DEF InsertAt, left, right, l
<1>9. ASSUME NEW i \in 1..(l + 1)
      PROVE  (both \o right)[i] = IF i < x THEN s[i] ELSE IF i = x THEN e ELSE s[i - 1]
  <2>1. CASE i <= x
    <3>1. i \in 1..x BY <2>1, <1>x
    <3> QED BY <3>1, <2>1, <1>5, <1>6, <1>7, <1>x
  <2>2. CASE ~(i <= x)
    <3>1. i - x \in 1..(l - x + 1) /\ x + (i - x) - 1 = i - 1 BY <2>2, <1>1, <1>x
    <3>2. (both \o right)[i] = right[i - x] /\ right[i - x] = s[i - 1]
      BY <3>1, <2>2, <1>3, <1>7
    <3> QED BY <3>2, <2>2, <1>x
  <2> QED BY <2>1, <2>2, <1>x
<1> QED BY <1>7, <1>8, <1>9 DEF l, Inserted

-----------------------------------------------------------------------------
(* Entries in the order of their keys. *)

LeafEntries == [key : Key, value : Value, offset : Int, size : Nat]
BranchEntries(sums) ==
    [key : Key \cup {NoKey}, page : Page, sum : sums, offset : Int, size : Nat]

IsEntrySet(E) == \A e \in E : e.key \in Nat /\ e.offset \in Int /\ e.size \in Nat

Ordered(es) == \A i, j \in DOMAIN es : i < j => es[i].key < es[j].key

\* The entries of leaves and of branches have keys, offsets and sizes.
LEMMA EntrySets ==
    /\ IsEntrySet(LeafEntries)
    /\ \A sums : IsEntrySet(BranchEntries(sums))
<1>1. ASSUME NEW e \in LeafEntries PROVE e.key \in Nat /\ e.offset \in Int /\ e.size \in Nat
  BY KeyAssumption DEF LeafEntries
<1>2. ASSUME NEW sums, NEW e \in BranchEntries(sums)
      PROVE  e.key \in Nat /\ e.offset \in Int /\ e.size \in Nat
  <2>1. e.key \in Key \cup {NoKey} /\ e.offset \in Int /\ e.size \in Nat BY <1>2 DEF BranchEntries
  <2>2. \A k \in Key \cup {NoKey} : k \in Nat BY KeyAssumption DEF NoKey
  <2> QED BY <2>1, <2>2
<1> QED BY <1>1, <1>2 DEF IsEntrySet

\* binary_search_by finds the place of a key.
LEMMA SearchFinds ==
    ASSUME NEW E, IsEntrySet(E), NEW es \in Seq(E), Ordered(es), NEW key \in Nat
    PROVE  LET y == search_entry_index(es, key)
           IN  /\ y \in 1..(Len(es) + 1)
               /\ \A i \in 1..Len(es) : IF i < y THEN es[i].key < key ELSE key <= es[i].key
               /\ HasKey(es, key) <=> y <= Len(es) /\ es[y].key = key
<1> DEFINE l == Len(es)
           S == {i \in DOMAIN es : es[i].key < key}
           y == 1 + Cardinality(S)
<1>1. l \in Nat /\ DOMAIN es = 1..l /\ \A i \in 1..l : es[i] \in E BY LenProperties
<1>2. \A i \in 1..l : es[i].key \in Nat BY <1>1 DEF IsEntrySet
<1> HIDE DEF l
<1>3. S \in SUBSET (1..l) BY <1>1
<1>4. ASSUME NEW i \in S, NEW j \in 1..i PROVE j \in S
  <2>1. i \in 1..l /\ j \in 1..l /\ es[i].key < key BY <1>1
  <2>2. CASE i = j BY <2>2
  <2>3. CASE i # j
    <3>1. es[j].key < es[i].key BY <2>1, <2>3, <1>1 DEF Ordered
    <3> QED BY <3>1, <2>1, <1>1, <1>2
  <2> QED BY <2>2, <2>3
<1>5. Cardinality(S) \in 0..l /\ S = 1..Cardinality(S)
  <2> HIDE DEF S
  <2> QED BY <1>1, <1>3, <1>4, InitialSegment
<1>6. \A i \in 1..l : i \in S <=> es[i].key < key BY <1>1
<1> HIDE DEF S
<1>7. y \in 1..(l + 1) /\ \A i \in 1..l : i \in S <=> i < y BY <1>1, <1>5
<1>8. search_entry_index(es, key) = y BY DEF search_entry_index, S
<1> HIDE DEF y
<1>9. \A i \in 1..l : IF i < y THEN es[i].key < key ELSE key <= es[i].key
  BY <1>2, <1>6, <1>7
<1>10. ASSUME HasKey(es, key) PROVE y <= l /\ es[y].key = key
  <2>1. PICK i \in 1..l : es[i].key = key BY <1>1, <1>10 DEF HasKey
  <2>2. y <= i BY <1>2, <1>7, <1>9, <2>1
  <2>3. y \in 1..l BY <1>1, <1>7, <2>1, <2>2
  <2>4. CASE y = i BY <2>1, <2>3, <2>4
  <2>5. CASE y # i
    <3>1. es[y].key < es[i].key BY <1>1, <2>2, <2>3, <2>5 DEF Ordered
    <3>2. key <= es[y].key BY <1>9, <2>3
    <3> QED BY <3>1, <3>2, <2>1, <2>3, <1>2
  <2> QED BY <2>4, <2>5
<1>11. y <= l /\ es[y].key = key => HasKey(es, key) BY <1>1, <1>7 DEF HasKey
<1> QED BY <1>7, <1>8, <1>9, <1>10, <1>11 DEF l

\* partition_point finds the child for a key.
Routes(es, key, x) ==
    /\ x \in 1..Len(es)
    /\ \A i \in 1..Len(es) : IF i <= x THEN es[i].key <= key ELSE key < es[i].key

\* The child that child_index_for_key finds is the one a key belongs to.
LEMMA RouteFinds ==
    ASSUME NEW E, IsEntrySet(E), NEW b, b.entries \in Seq(E), Ordered(b.entries),
           1 <= Len(b.entries), b.entries[1].key = NoKey, NEW key \in Nat
    PROVE  Routes(b.entries, key, child_index_for_key(b, key))
<1>0. PICK es \in Seq(E) : es = b.entries OBVIOUS
<1> DEFINE l == Len(es)
           S == {i \in 2..l : es[i].key <= key}
           T == S \cup {1}
<1>1. l \in Nat /\ DOMAIN es = 1..l /\ \A i \in 1..l : es[i] \in E BY LenProperties
<1>2. \A i \in 1..l : es[i].key \in Nat BY <1>1 DEF IsEntrySet
<1>x. l >= 1 BY <1>0
<1>y. child_index_for_key(b, key) = 1 + Cardinality(S) BY <1>0 DEF child_index_for_key
<1>z. \A i, j \in 1..l : i < j => es[i].key < es[j].key BY <1>0, <1>1 DEF Ordered
<1> HIDE DEF l
<1>3. T \in SUBSET (1..l) BY <1>1, <1>x
<1>o. 1 \in 1..l BY <1>1, <1>x
<1>w. \A i \in 1..l : i \in T <=> es[i].key <= key
  <2>1. es[1].key = 0 BY <1>0 DEF NoKey
  <2>2. \A i \in 1..l : i = 1 \/ i \in 2..l BY <1>1
  <2>3. 1 \in T /\ es[1].key <= key BY <2>1
  <2> QED BY <2>2, <2>3
<1>4. ASSUME NEW i \in T, NEW j \in 1..i PROVE j \in T
  <2>1. i \in 1..l /\ j \in 1..l /\ es[i].key <= key BY <1>1, <1>3, <1>w
  <2>2. CASE i = j BY <2>2
  <2>3. CASE i # j
    <3>1. es[j].key < es[i].key BY <2>1, <2>3, <1>z
    <3> QED BY <3>1, <2>1, <1>2, <1>w
  <2> QED BY <2>2, <2>3
<1>5. Cardinality(T) \in 0..l /\ T = 1..Cardinality(T)
  <2> HIDE DEF T
  <2> QED BY <1>1, <1>3, <1>4, InitialSegment
<1>6. Cardinality(T) = Cardinality(S) + 1
  <2>1. 1 \notin S OBVIOUS
  <2>2. IsFiniteSet(1..l) BY <1>1, FS_Interval
  <2>3. S \in SUBSET (1..l) BY <1>3
  <2>4. IsFiniteSet(S) BY <2>2, <2>3, FS_Subset
  <2> HIDE DEF S
  <2> QED BY <2>1, <2>4, FS_AddElement
<1>7. Cardinality(S) \in Nat
  <2>2. IsFiniteSet(1..l) BY <1>1, FS_Interval
  <2>3. S \in SUBSET (1..l) BY <1>3
  <2> HIDE DEF S
  <2> QED BY <2>2, <2>3, FS_Subset, FS_CardinalityType
<1> DEFINE x == 1 + Cardinality(S)
<1>8. T = 1..x /\ x \in 1..l
  <2> HIDE DEF S, T
  <2>1. Cardinality(T) = x BY <1>6, <1>7
  <2> QED BY <2>1, <1>5, <1>7, <1>1
<1> HIDE DEF S, T
<1>9. \A i \in 1..l : IF i <= x THEN es[i].key <= key ELSE key < es[i].key
  BY <1>1, <1>2, <1>8, <1>w
<1>10. child_index_for_key(b, key) = x BY <1>y
<1> HIDE DEF x
<1>11. Routes(es, key, x) BY <1>8, <1>9 DEF Routes, l
<1> QED BY <1>0, <1>10, <1>11

\* No key belongs to two children.
LEMMA RouteIsUnique ==
    ASSUME NEW es, Len(es) \in Nat, \A i \in 1..Len(es) : es[i].key \in Nat,
           NEW key \in Nat, NEW x, NEW y, Routes(es, key, x), Routes(es, key, y)
    PROVE  x = y
BY DEF Routes

-----------------------------------------------------------------------------
(* Entries laid out in a page. *)

Disjoint(e, f) == e.offset + e.size <= f.offset \/ f.offset + f.size <= e.offset

\* The bytes of the entries are between end and the end of the page.
Laid(es, end) ==
    /\ end \in Int /\ end <= PageSize
    /\ Ordered(es)
    /\ \A i \in DOMAIN es : end <= es[i].offset /\ es[i].offset + es[i].size <= PageSize
    /\ \A i, j \in DOMAIN es : i < j => Disjoint(es[i], es[j])

\* A new entry whose bytes lie right below the others keeps order and layout.
LEMMA EntryInserted ==
    ASSUME NEW E, IsEntrySet(E), NEW es \in Seq(E), NEW end, Laid(es, end),
           NEW e \in E, e.offset = end - e.size, ~HasKey(es, e.key),
           NEW x, x = search_entry_index(es, e.key)
    PROVE  /\ x \in 1..(Len(es) + 1)
           /\ InsertAt(es, x, e) \in Seq(E)
           /\ Inserted(InsertAt(es, x, e), es, x, e)
           /\ Laid(InsertAt(es, x, e), end - e.size)
<1> DEFINE l == Len(es)
           new == InsertAt(es, x, e)
<1>1. l \in Nat /\ DOMAIN es = 1..l /\ \A i \in 1..l : es[i] \in E BY LenProperties
<1>2. \A f \in E : f.key \in Nat /\ f.offset \in Int /\ f.size \in Nat BY DEF IsEntrySet
<1>3. /\ x \in 1..(l + 1)
      /\ \A i \in 1..l : IF i < x THEN es[i].key < e.key ELSE e.key <= es[i].key
      /\ \A i \in 1..l : es[i].key # e.key
  <2>1. Ordered(es) /\ e.key \in Nat BY <1>2 DEF Laid
  <2>2. PICK key \in Nat : key = e.key BY <2>1
  <2>3. PICK y : y = search_entry_index(es, key) OBVIOUS
  <2>4. x = y BY <2>2, <2>3
  <2>5. /\ y \in 1..(l + 1)
        /\ \A i \in 1..l : IF i < y THEN es[i].key < key ELSE key <= es[i].key
    BY <2>1, <2>3, SearchFinds
  <2>6. \A i \in 1..l : es[i].key # e.key BY <1>1 DEF HasKey
  <2> QED BY <2>2, <2>4, <2>5, <2>6
<1>4. /\ new \in Seq(E) /\ Len(new) = l + 1
      /\ \A i \in 1..(l + 1) : new[i] = IF i < x THEN es[i] ELSE IF i = x THEN e ELSE es[i - 1]
  <2>1. PICK z \in 1..(Len(es) + 1) : z = x BY <1>3
  <2>2. InsertAt(es, z, e) \in Seq(E) /\ Inserted(InsertAt(es, z, e), es, z, e)
    BY InsertedAt
  <2>3. new \in Seq(E) /\ Inserted(new, es, x, e) BY <2>1, <2>2
  <2> HIDE DEF new
  <2> QED BY <2>3 DEF Inserted
<1>i. Inserted(new, es, x, e) BY <1>4 DEF Inserted
<1> HIDE DEF l, new
<1>5. DOMAIN new = 1..(l + 1) BY <1>4, LenProperties
<1>6. /\ end \in Int /\ end <= PageSize /\ PageSize \in Nat
      /\ \A i, j \in 1..l : i < j => es[i].key < es[j].key /\ Disjoint(es[i], es[j])
      /\ \A i \in 1..l : end <= es[i].offset /\ es[i].offset + es[i].size <= PageSize
  BY <1>1, SizeAssumption DEF Laid, Ordered
<1>7. e.offset + e.size = end /\ e.key \in Nat /\ e.size \in Nat /\ e.offset \in Int BY <1>2, <1>6
<1> DEFINE from(i) == IF i < x THEN i ELSE i - 1
<1>8. \A i \in 1..(l + 1) : i # x => from(i) \in 1..l /\ new[i] = es[from(i)]
  BY <1>1, <1>3, <1>4
<1>9. \A i, j \in 1..(l + 1) : i < j /\ i # x /\ j # x => from(i) < from(j)
  BY <1>1, <1>3
<1>10. new[x] = e BY <1>3, <1>4
<1>11. \A i \in 1..l : /\ es[i].key \in Nat /\ es[i].offset \in Int /\ es[i].size \in Nat
  BY <1>1, <1>2
<1>12. ASSUME NEW i \in 1..(l + 1), NEW j \in 1..(l + 1), i < j
       PROVE  new[i].key < new[j].key /\ Disjoint(new[i], new[j])
  <2>1. CASE i # x /\ j # x
    <3>1. from(i) < from(j) /\ from(i) \in 1..l /\ from(j) \in 1..l
          /\ new[i] = es[from(i)] /\ new[j] = es[from(j)]
      BY <2>1, <1>8, <1>9, <1>12
    <3> HIDE DEF from
    <3> QED BY <3>1, <1>6
  <2>2. CASE i = x
    <3>1. j - 1 \in 1..l /\ ~(j - 1 < x) /\ ~(j < x) /\ j # x BY <2>2, <1>1, <1>3, <1>12
    <3>2. new[j] = es[j - 1] BY <3>1, <1>4
    <3>3. e.key < es[j - 1].key BY <3>1, <1>3, <1>7, <1>11
    <3>4. e.offset + e.size <= es[j - 1].offset BY <3>1, <1>6, <1>7
    <3> QED BY <2>2, <3>2, <3>3, <3>4, <1>10 DEF Disjoint
  <2>3. CASE j = x
    <3>1. i \in 1..l /\ i < x BY <2>3, <1>1, <1>3, <1>12
    <3>2. new[i] = es[i] BY <3>1, <1>4
    <3>3. es[i].key < e.key BY <3>1, <1>3
    <3>4. e.offset + e.size <= es[i].offset BY <3>1, <1>6, <1>7
    <3> QED BY <2>3, <3>2, <3>3, <3>4, <1>10 DEF Disjoint
  <2> QED BY <2>1, <2>2, <2>3
<1>13. ASSUME NEW i \in 1..(l + 1)
       PROVE  end - e.size <= new[i].offset /\ new[i].offset + new[i].size <= PageSize
  <2>1. CASE i = x BY <2>1, <1>6, <1>7, <1>10
  <2>2. CASE i # x
    <3>1. from(i) \in 1..l /\ new[i] = es[from(i)] BY <2>2, <1>8
    <3> HIDE DEF from
    <3>2. /\ end <= es[from(i)].offset /\ es[from(i)].offset + es[from(i)].size <= PageSize
          /\ es[from(i)].offset \in Int
      BY <3>1, <1>6, <1>11
    <3> QED BY <3>1, <3>2, <1>6, <1>7
  <2> QED BY <2>1, <2>2
<1>14. end - e.size \in Int /\ end - e.size <= PageSize BY <1>6, <1>7
<1>15. Ordered(new) BY <1>5, <1>12 DEF Ordered
<1>16. Laid(new, end - e.size) BY <1>5, <1>12, <1>13, <1>14, <1>15 DEF Laid
<1> QED BY <1>3, <1>4, <1>i, <1>16 DEF l, new

\* So does one that replaces an entry, in the old bytes if they suffice or below all
\* others.
LEMMA EntryReplaced ==
    ASSUME NEW E, IsEntrySet(E), NEW es \in Seq(E), NEW end, Laid(es, end),
           NEW x \in 1..Len(es), NEW e \in E, e.key = es[x].key,
           NEW low, \/ low = end /\ e.offset = es[x].offset /\ e.size <= es[x].size
                    \/ low = end - e.size /\ e.offset = low
    PROVE  /\ [es EXCEPT ![x] = e] \in Seq(E)
           /\ Len([es EXCEPT ![x] = e]) = Len(es)
           /\ Laid([es EXCEPT ![x] = e], low)
<1> DEFINE l == Len(es)
           new == [es EXCEPT ![x] = e]
<1>1. l \in Nat /\ DOMAIN es = 1..l /\ \A i \in 1..l : es[i] \in E BY LenProperties
<1>2. \A f \in E : f.key \in Nat /\ f.offset \in Int /\ f.size \in Nat BY DEF IsEntrySet
<1>3. new \in Seq(E) /\ Len(new) = l BY ExceptSeq
<1>4. new[x] = e /\ \A i \in 1..l : i # x => new[i] = es[i] BY <1>1
<1> HIDE DEF l, new
<1>5. DOMAIN new = 1..l BY <1>3, LenProperties
<1>6. /\ end \in Int /\ end <= PageSize /\ PageSize \in Nat /\ x \in 1..l
      /\ \A i, j \in 1..l : i < j => es[i].key < es[j].key /\ Disjoint(es[i], es[j])
      /\ \A i \in 1..l : end <= es[i].offset /\ es[i].offset + es[i].size <= PageSize
  BY <1>1, SizeAssumption DEF Laid, Ordered, l
<1>7. \A i \in 1..l : /\ es[i].key \in Nat /\ es[i].offset \in Int /\ es[i].size \in Nat
  BY <1>1, <1>2
<1>8. e.key \in Nat /\ e.offset \in Int /\ e.size \in Nat BY <1>2
<1>9. low \in Int /\ low <= end /\ low <= e.offset /\ e.offset + e.size <= PageSize
  <2>1. /\ es[x].offset \in Int /\ es[x].size \in Nat
        /\ end <= es[x].offset /\ es[x].offset + es[x].size <= PageSize
    BY <1>6, <1>7
  <2>2. end \in Int /\ end <= PageSize /\ PageSize \in Nat BY <1>6
  <2>3. CASE low = end /\ e.offset = es[x].offset /\ e.size <= es[x].size
    BY <2>1, <2>2, <2>3, <1>8
  <2>4. CASE low = end - e.size /\ e.offset = low BY <2>2, <2>4, <1>8
  <2> QED BY <2>3, <2>4
<1>10. \A i \in 1..l : i # x => Disjoint(e, es[i]) /\ Disjoint(es[i], e)
  <2> SUFFICES ASSUME NEW i \in 1..l, i # x PROVE Disjoint(e, es[i]) /\ Disjoint(es[i], e)
    OBVIOUS
  <2>1. CASE low = end - e.size /\ e.offset = low
    <3>1. e.offset + e.size = end /\ end <= es[i].offset BY <2>1, <1>6, <1>8
    <3> QED BY <3>1 DEF Disjoint
  <2>2. CASE e.offset = es[x].offset /\ e.size <= es[x].size
    <3>1. Disjoint(es[i], es[x]) \/ Disjoint(es[x], es[i])
      <4>1. i < x \/ x < i BY <1>6, <1>1
      <4> QED BY <4>1, <1>6
    <3>2. /\ es[i].offset \in Int /\ es[i].size \in Nat
          /\ es[x].offset \in Int /\ es[x].size \in Nat
      BY <1>6, <1>7
    <3> QED BY <3>1, <3>2, <2>2, <1>8 DEF Disjoint
  <2> QED BY <2>1, <2>2
<1>11. ASSUME NEW i \in 1..l, NEW j \in 1..l, i < j
       PROVE  new[i].key < new[j].key /\ Disjoint(new[i], new[j])
  <2>1. es[i].key < es[j].key /\ Disjoint(es[i], es[j]) BY <1>6, <1>11
  <2>2. new[i].key = es[i].key /\ new[j].key = es[j].key BY <1>4
  <2>3. Disjoint(new[i], new[j]) 
    <3>1. CASE i = x BY <3>1, <1>4, <1>10, <1>11
    <3>2. CASE j = x BY <3>2, <1>4, <1>10, <1>11
    <3>3. CASE i # x /\ j # x BY <3>3, <1>4, <2>1
    <3> QED BY <3>1, <3>2, <3>3
  <2> QED BY <2>1, <2>2, <2>3
<1>12. ASSUME NEW i \in 1..l
       PROVE  low <= new[i].offset /\ new[i].offset + new[i].size <= PageSize
  <2>1. CASE i = x BY <2>1, <1>4, <1>9
  <2>2. CASE i # x BY <2>2, <1>4, <1>6, <1>7, <1>9
  <2> QED BY <2>1, <2>2
<1>13. low <= PageSize BY <1>6, <1>9
<1>14. Ordered(new) BY <1>5, <1>11 DEF Ordered
<1>15. Laid(new, low) BY <1>5, <1>9, <1>11, <1>12, <1>13, <1>14 DEF Laid
<1> QED BY <1>3, <1>15 DEF l, new

-----------------------------------------------------------------------------
(* A page that is built. *)

Cursor(es, f) ==
    f = [j \in 0..Len(es) |-> IF j = 0 THEN PageSize ELSE f[j - 1] - es[j].size]

\* The cursor of a builder exists as a function.
LEMMA CursorExists ==
    ASSUME NEW es, Len(es) \in Nat
    PROVE  \E f : Cursor(es, f)
<1> DEFINE l == Len(es)
           Upto(m, f) == f = [j \in 0..m |-> IF j = 0 THEN PageSize ELSE f[j - 1] - es[j].size]
           Bad == {m \in 0..l : ~\E f : Upto(m, f)}
<1>1. Bad = {}
  <2> SUFFICES ASSUME Bad # {} PROVE FALSE OBVIOUS
  <2>1. Bad \in SUBSET Nat OBVIOUS
  <2> DEFINE m == Min(Bad)
  <2>2. m \in Bad /\ \A y \in Bad : m <= y
    <3> HIDE DEF Bad
    <3> QED BY <2>1, LeastOfNaturals
  <2> HIDE DEF m
  <2>3. CASE m = 0
    <3>1. Upto(0, [j \in 0..0 |-> PageSize]) OBVIOUS
    <3> QED BY <3>1, <2>2, <2>3
  <2>4. CASE m # 0
    <3>0. m \in 0..l BY <2>2
    <3>1. m - 1 \in 0..l /\ m - 1 \notin Bad
      <4> HIDE DEF Bad
      <4> QED BY <3>0, <2>2, <2>4
    <3>2. PICK f : Upto(m - 1, f) BY <3>1
    <3> DEFINE g == [j \in 0..m |-> IF j = m THEN f[m - 1] - es[m].size ELSE f[j]]
    <3>3. m \in Nat /\ m > 0 BY <2>2, <2>4
    <3>4. \A j \in 0..(m - 1) : f[j] = IF j = 0 THEN PageSize ELSE f[j - 1] - es[j].size
      <4> HIDE DEF g
      <4> QED BY <3>2
    <3>5. ASSUME NEW j \in 0..m
          PROVE  g[j] = IF j = 0 THEN PageSize ELSE g[j - 1] - es[j].size
      <4>1. CASE j = m
        <5>1. g[j - 1] = f[m - 1] /\ g[j] = f[m - 1] - es[m].size BY <3>3, <4>1
        <5> QED BY <5>1, <4>1, <3>3
      <4>2. CASE j = 0 
        <5>1. 0 \in 0..(m - 1) BY <3>3
        <5> QED BY <5>1, <4>2, <3>3, <3>4
      <4>3. CASE j # m /\ j # 0
        <5>1. j \in 0..(m - 1) /\ j - 1 \in 0..m /\ j - 1 # m BY <3>3, <4>3
        <5>2. g[j] = f[j] /\ g[j - 1] = f[j - 1] BY <5>1
        <5> QED BY <5>1, <5>2, <4>3, <3>4
      <4> QED BY <4>1, <4>2, <4>3
    <3>6. g = [j \in 0..m |-> g[j]] OBVIOUS
    <3> HIDE DEF g
    <3>7. Upto(m, g) BY <3>5, <3>6
    <3> QED BY <3>7, <2>2
  <2> QED BY <2>3, <2>4
<1>2. l \in 0..l OBVIOUS
<1>3. \E f : Upto(l, f) BY <1>1, <1>2
<1> QED BY <1>3 DEF Cursor

\* A builder's cursor starts at the end of the page and goes down by each entry's size.
LEMMA BuiltFacts ==
    ASSUME NEW E, IsEntrySet(E), NEW es \in Seq(E)
    PROVE  /\ BuiltOffset(es, 0) = PageSize
           /\ \A j \in 0..Len(es) : BuiltOffset(es, j) \in Int
           /\ \A j \in 1..Len(es) : BuiltOffset(es, j) = BuiltOffset(es, j - 1) - es[j].size
           /\ \A i, j \in 0..Len(es) : i <= j => BuiltOffset(es, j) <= BuiltOffset(es, i)
<1> DEFINE l == Len(es)
           f == CHOOSE f : Cursor(es, f)
<1>1. l \in Nat /\ \A i \in 1..l : es[i].size \in Nat
  <2>1. Len(es) \in Nat /\ \A i \in 1..Len(es) : es[i] \in E BY LenProperties
  <2> QED BY <2>1 DEF IsEntrySet
<1>2. \A j : BuiltOffset(es, j) = f[j] BY DEF BuiltOffset, Cursor
<1>3. Cursor(es, f) BY <1>1, CursorExists
<1> HIDE DEF f
<1>4. f = [j \in 0..l |-> IF j = 0 THEN PageSize ELSE f[j - 1] - es[j].size] BY <1>3 DEF Cursor
<1> HIDE DEF l
<1>5. \A j \in 0..l : f[j] = IF j = 0 THEN PageSize ELSE f[j - 1] - es[j].size BY <1>4
<1>6. f[0] = PageSize /\ PageSize \in Nat BY <1>1, <1>5, SizeAssumption
<1>7. \A j \in 1..l : f[j] = f[j - 1] - es[j].size BY <1>1, <1>5
<1>8. ASSUME NEW i \in 0..l, f[i] \in Int
      PROVE  \A j \in 0..l : i <= j => f[j] \in Int /\ f[j] <= f[i]
  <2> DEFINE Bad == {j \in 0..l : i <= j /\ ~(f[j] \in Int /\ f[j] <= f[i])}
  <2>1. SUFFICES ASSUME Bad # {} PROVE FALSE OBVIOUS
  <2>2. Bad \in SUBSET Nat OBVIOUS
  <2> DEFINE m == Min(Bad)
  <2>3. m \in Bad /\ \A y \in Bad : m <= y
    <3> HIDE DEF Bad
    <3> QED BY <2>1, <2>2, LeastOfNaturals
  <2> HIDE DEF m
  <2>4. m # i BY <2>3, <1>8
  <2>5. m \in 1..l /\ m - 1 \in 0..l /\ i <= m - 1 BY <1>1, <2>3, <2>4
  <2>6. m - 1 \notin Bad BY <2>3, <2>5
  <2>7. f[m - 1] \in Int /\ f[m - 1] <= f[i] BY <2>5, <2>6
  <2>8. f[m] = f[m - 1] - es[m].size /\ es[m].size \in Nat BY <1>1, <1>7, <2>5
  <2>9. f[m] \in Int /\ f[m] <= f[i] BY <1>8, <2>7, <2>8
  <2> QED BY <2>3, <2>9
<1>9. 0 \in 0..l /\ f[0] \in Int BY <1>1, <1>6
<1>10. \A j \in 0..l : f[j] \in Int
  <2>1. \A j \in 0..l : 0 <= j => f[j] \in Int /\ f[j] <= f[0] BY <1>8, <1>9
  <2>2. \A j \in 0..l : 0 <= j BY <1>1
  <2> QED BY <2>1, <2>2
<1>11. \A i, j \in 0..l : i <= j => f[j] <= f[i] BY <1>8, <1>10
<1> QED BY <1>2, <1>6, <1>7, <1>10, <1>11 DEF l

\* Entries keep what they are when they are moved.
Moved(e, offset) == [e EXCEPT !.offset = offset]

Movable(E) ==
    \A e \in E, offset \in Int :
        /\ Moved(e, offset) \in E
        /\ Moved(e, offset).key = e.key /\ Moved(e, offset).size = e.size
        /\ Moved(e, offset).offset = offset

\* An entry that is moved keeps what it says.
LEMMA MovableSets ==
    /\ Movable(LeafEntries)
    /\ \A sums : Movable(BranchEntries(sums))
    /\ \A e \in LeafEntries, offset \in Int : Moved(e, offset).value = e.value
    /\ \A sums : \A e \in BranchEntries(sums), offset \in Int :
          Moved(e, offset).page = e.page /\ Moved(e, offset).sum = e.sum
<1>1. ASSUME NEW e \in LeafEntries, NEW offset \in Int
      PROVE  LET f == Moved(e, offset)
             IN  /\ f \in LeafEntries /\ f.key = e.key /\ f.size = e.size
                 /\ f.offset = offset /\ f.value = e.value
  BY DEF LeafEntries, Moved
<1>2. ASSUME NEW sums, NEW e \in BranchEntries(sums), NEW offset \in Int
      PROVE  LET f == Moved(e, offset)
             IN  /\ f \in BranchEntries(sums) /\ f.key = e.key /\ f.size = e.size
                 /\ f.offset = offset /\ f.page = e.page /\ f.sum = e.sum
  BY DEF BranchEntries, Moved
<1> QED BY <1>1, <1>2 DEF Movable

\* A page that is built has the entries it was given, laid out from the end downwards.
LEMMA EntriesBuilt ==
    ASSUME NEW E, IsEntrySet(E), Movable(E), NEW es \in Seq(E), Ordered(es), NEW kind
    PROVE  LET new == build_entries_at_buf(kind, es)
           IN  /\ new.kind = kind
               /\ new.entries \in Seq(E) /\ Len(new.entries) = Len(es)
               /\ \A i \in 1..Len(es) :
                     new.entries[i] = Moved(es[i], BuiltOffset(es, i))
               /\ new.end = BuiltOffset(es, Len(es))
               /\ Laid(new.entries, new.end)
<1> DEFINE l == Len(es)
           off(i) == BuiltOffset(es, i)
           new == [i \in DOMAIN es |-> [es[i] EXCEPT !.offset = BuiltOffset(es, i)]]
<1>1. l \in Nat /\ DOMAIN es = 1..l /\ \A i \in 1..l : es[i] \in E BY LenProperties
<1>2. /\ off(0) = PageSize /\ PageSize \in Nat
      /\ \A j \in 0..l : off(j) \in Int
      /\ \A j \in 1..l : off(j) = off(j - 1) - es[j].size
      /\ \A i, j \in 0..l : i <= j => off(j) <= off(i)
  BY BuiltFacts, SizeAssumption
<1>3. build_entries_at_buf(kind, es) = [kind |-> kind, entries |-> new, end |-> off(l)]
  BY DEF build_entries_at_buf
<1>4. new = [i \in 1..l |-> Moved(es[i], off(i))] BY <1>1 DEF Moved
<1> HIDE DEF l, off, new
<1>5. /\ \A i \in 1..l : new[i] \in E /\ new[i].key = es[i].key
                         /\ new[i].size = es[i].size /\ new[i].offset = off(i)
  <2>1. \A i \in 1..l : off(i) \in Int /\ es[i] \in E BY <1>1, <1>2
  <2> QED BY <2>1, <1>4 DEF Movable
<1>6. new \in Seq(E) /\ Len(new) = l /\ DOMAIN new = 1..l
  <2>1. new \in [1..l -> E] BY <1>4, <1>5
  <2> QED BY <2>1, <1>1
<1>7. \A i \in 1..l : es[i].size \in Nat /\ es[i].key \in Nat BY <1>1 DEF IsEntrySet
<1>8. \A i \in 1..l : off(l) <= off(i) /\ off(i) + es[i].size <= PageSize
  <2> SUFFICES ASSUME NEW i \in 1..l
               PROVE  off(l) <= off(i) /\ off(i) + es[i].size <= PageSize
    OBVIOUS
  <2>1. /\ i \in 0..l /\ i - 1 \in 0..l /\ 0 \in 0..l /\ l \in 0..l /\ i <= l
        /\ 0 <= i - 1
    BY <1>1
  <2>2. off(i - 1) <= off(0) /\ off(l) <= off(i) /\ off(i) = off(i - 1) - es[i].size
    BY <2>1, <1>2
  <2>3. off(i - 1) \in Int /\ off(i) \in Int BY <2>1, <1>2
  <2> QED BY <2>2, <2>3, <1>2, <1>7
<1>9. ASSUME NEW i \in 1..l, NEW j \in 1..l, i < j PROVE Disjoint(new[i], new[j])
  <2>1. i \in 0..l /\ j - 1 \in 0..l /\ i <= j - 1 /\ j \in 0..l BY <1>1, <1>9
  <2>2. off(j - 1) <= off(i) /\ off(j) = off(j - 1) - es[j].size BY <2>1, <1>2
  <2>3. off(j) + es[j].size <= off(i)
    <3>1. off(j - 1) \in Int /\ off(i) \in Int BY <2>1, <1>2
    <3> QED BY <3>1, <2>2, <1>7
  <2> QED BY <2>3, <1>5 DEF Disjoint
<1>10. Ordered(new) BY <1>1, <1>5, <1>6 DEF Ordered
<1>11. off(l) \in Int /\ off(l) <= PageSize
  <2>1. l \in 0..l /\ 0 \in 0..l /\ 0 <= l BY <1>1
  <2> QED BY <2>1, <1>2
<1>12. Laid(new, off(l))
  <2>1. \A i \in 1..l : off(l) <= new[i].offset /\ new[i].offset + new[i].size <= PageSize
    BY <1>5, <1>8
  <2> QED BY <2>1, <1>6, <1>9, <1>10, <1>11 DEF Laid
<1> QED BY <1>3, <1>4, <1>6, <1>12 DEF l, off

-----------------------------------------------------------------------------
(* Leaves. *)

IsLeaf(c) ==
    /\ c \in [kind : {"leaf"}, entries : Seq(LeafEntries), end : Int]
    /\ Laid(c.entries, c.end)
    /\ MetadataEnd("leaf", Len(c.entries)) <= c.end

\* What a leaf holds.
Pairs(es) == {<<es[i].key, es[i].value>> : i \in DOMAIN es}

Put(pairs, key, value) == {q \in pairs : q[1] # key} \cup {<<key, value>>}

\* A new entry adds one pair of key and value.
LEMMA PairsInserted ==
    ASSUME NEW E, NEW es \in Seq(E), NEW x \in 1..(Len(es) + 1), NEW e, NEW new \in Seq(E),
           Inserted(new, es, x, e), ~HasKey(es, e.key)
    PROVE  Pairs(new) = Put(Pairs(es), e.key, e.value)
<1> DEFINE l == Len(es)
           P == Pairs(es)
           Q == Pairs(new)
<1>1. l \in Nat /\ DOMAIN es = 1..l BY LenProperties
<1>2. Len(new) = l + 1
      /\ \A i \in 1..(l + 1) : new[i] = IF i < x THEN es[i] ELSE IF i = x THEN e ELSE es[i - 1]
  BY DEF Inserted
<1>3. DOMAIN new = 1..(l + 1) BY <1>2, LenProperties
<1>4. \A i \in 1..l : <<es[i].key, es[i].value>> \in P BY <1>1 DEF Pairs
<1>5. \A q \in P : \E i \in 1..l : q = <<es[i].key, es[i].value>> BY <1>1 DEF Pairs
<1>6. \A i \in 1..(l + 1) : <<new[i].key, new[i].value>> \in Q BY <1>3 DEF Pairs
<1>7. \A q \in Q : \E i \in 1..(l + 1) : q = <<new[i].key, new[i].value>> BY <1>3 DEF Pairs
<1> HIDE DEF l, P, Q
<1>8. x \in 1..(l + 1) BY DEF l
<1>9. ASSUME NEW q \in Q PROVE q \in P \/ q = <<e.key, e.value>>
  <2>1. PICK i \in 1..(l + 1) : q = <<new[i].key, new[i].value>> BY <1>7
  <2>2. CASE i < x
    <3>1. i \in 1..l /\ new[i] = es[i] BY <2>2, <1>1, <1>2, <1>8
    <3> QED BY <3>1, <2>1, <1>4
  <2>3. CASE i = x BY <2>1, <2>3, <1>2
  <2>4. CASE ~(i < x) /\ i # x
    <3>1. i - 1 \in 1..l /\ new[i] = es[i - 1] BY <2>4, <1>1, <1>2, <1>8
    <3> QED BY <3>1, <2>1, <1>4
  <2> QED BY <2>2, <2>3, <2>4
<1>10. ASSUME NEW q \in P PROVE q \in Q
  <2>1. PICK i \in 1..l : q = <<es[i].key, es[i].value>> BY <1>5
  <2>2. CASE i < x
    <3>1. i \in 1..(l + 1) /\ new[i] = es[i] BY <2>2, <1>1, <1>2, <1>8
    <3> QED BY <3>1, <2>1, <1>6
  <2>3. CASE ~(i < x)
    <3>1. i + 1 \in 1..(l + 1) /\ ~(i + 1 < x) /\ i + 1 # x /\ (i + 1) - 1 = i
      BY <2>3, <1>1, <1>8
    <3>2. new[i + 1] = es[i] BY <3>1, <1>2
    <3> QED BY <3>1, <3>2, <2>1, <1>6
  <2> QED BY <2>2, <2>3
<1>11. new[x] = e BY <1>2, <1>8
<1>12. <<e.key, e.value>> \in Q
  <2>1. <<new[x].key, new[x].value>> \in Q BY <1>6, <1>8
  <2> QED BY <2>1, <1>11
<1>13. \A q \in P : q[1] # e.key
  <2> SUFFICES ASSUME NEW q \in P PROVE q[1] # e.key OBVIOUS
  <2>1. PICK i \in 1..l : q = <<es[i].key, es[i].value>> BY <1>5
  <2> QED BY <2>1, <1>1 DEF HasKey
<1>14. Q = P \cup {<<e.key, e.value>>} BY <1>9, <1>10, <1>12
<1>15. P = {q \in P : q[1] # e.key} BY <1>13
<1> QED BY <1>14, <1>15 DEF Put, P, Q

\* An entry that replaces another replaces its pair.
LEMMA PairsReplaced ==
    ASSUME NEW E, IsEntrySet(E), NEW es \in Seq(E), Ordered(es), NEW x \in 1..Len(es),
           NEW e \in E, e.key = es[x].key
    PROVE  Pairs([es EXCEPT ![x] = e]) = Put(Pairs(es), e.key, e.value)
<1> DEFINE l == Len(es)
           new == [es EXCEPT ![x] = e]
           P == Pairs(es)
           Q == Pairs(new)
<1>1. l \in Nat /\ DOMAIN es = 1..l /\ \A i \in 1..l : es[i] \in E BY LenProperties
<1>2. new[x] = e /\ DOMAIN new = 1..l /\ \A i \in 1..l : i # x => new[i] = es[i] BY <1>1
<1>4. \A i \in 1..l : <<es[i].key, es[i].value>> \in P BY <1>1 DEF Pairs
<1>5. \A q \in P : \E i \in 1..l : q = <<es[i].key, es[i].value>> BY <1>1 DEF Pairs
<1> HIDE DEF new
<1>6. \A i \in 1..l : <<new[i].key, new[i].value>> \in Q BY <1>2 DEF Pairs
<1>7. \A q \in Q : \E i \in 1..l : q = <<new[i].key, new[i].value>> BY <1>2 DEF Pairs
<1> HIDE DEF l, P, Q
<1>8. x \in 1..l BY DEF l
<1>9. \A i \in 1..l : i # x => es[i].key # e.key
  <2> SUFFICES ASSUME NEW i \in 1..l, i # x PROVE es[i].key # es[x].key OBVIOUS
  <2>1. es[i].key \in Nat /\ es[x].key \in Nat BY <1>1, <1>8 DEF IsEntrySet
  <2>2. i < x \/ x < i BY <1>1, <1>8
  <2> QED BY <2>1, <2>2, <1>1, <1>8 DEF Ordered
<1>10. ASSUME NEW q \in Q PROVE q = <<e.key, e.value>> \/ (q \in P /\ q[1] # e.key)
  <2>1. PICK i \in 1..l : q = <<new[i].key, new[i].value>> BY <1>7
  <2>2. CASE i = x BY <2>1, <2>2, <1>2
  <2>3. CASE i # x
    <3>1. q = <<es[i].key, es[i].value>> /\ es[i].key # e.key BY <2>1, <2>3, <1>2, <1>9
    <3> QED BY <3>1, <1>4
  <2> QED BY <2>2, <2>3
<1>11. <<e.key, e.value>> \in Q
  <2>1. <<new[x].key, new[x].value>> \in Q BY <1>6, <1>8
  <2> QED BY <2>1, <1>2
<1>12. ASSUME NEW q \in P, q[1] # e.key PROVE q \in Q
  <2>1. PICK i \in 1..l : q = <<es[i].key, es[i].value>> BY <1>5
  <2>2. i # x BY <2>1, <1>12
  <2>3. q = <<new[i].key, new[i].value>> BY <2>1, <2>2, <1>2
  <2> QED BY <2>3, <1>6
<1>13. Q = {q \in P : q[1] # e.key} \cup {<<e.key, e.value>>} BY <1>10, <1>11, <1>12
<1> QED BY <1>13 DEF Put, P, Q, new

\* An entry of a leaf is as large as its key and its value.
LEMMA LeafEntryType ==
    ASSUME NEW key \in Key, NEW value \in Value, NEW offset \in Int
    PROVE  LET e == LeafEntry(key, value, offset)
           IN  /\ e \in LeafEntries
               /\ e.key = key /\ e.value = value /\ e.offset = offset
               /\ e.size = KeySize[key] + ValueSize[value] /\ e.size \in Nat
<1>1. KeySize[key] \in Nat /\ ValueSize[value] \in Nat BY SizeAssumption
<1>2. KeySize[key] + ValueSize[value] \in Nat BY <1>1
<1> QED BY <1>2 DEF LeafEntry, LeafEntries

\* More entries need more metadata.
LEMMA MetadataGrows ==
    ASSUME NEW kind, NEW n \in Nat
    PROVE  MetadataEnd(kind, n) \in Nat /\ MetadataEnd(kind, n) <= MetadataEnd(kind, n + 1)
<1>1. MetadataSize(kind) = 32 \/ MetadataSize(kind) = 40 BY DEF MetadataSize
<1>2. CASE MetadataSize(kind) = 32 BY <1>2 DEF MetadataEnd, HeaderSize
<1>3. CASE MetadataSize(kind) = 40 BY <1>3 DEF MetadataEnd, HeaderSize
<1> QED BY <1>1, <1>2, <1>3

\* LeafPageMutator::insert puts the entry into the page, if it fits.
LEMMA LeafInserted ==
    ASSUME NEW c, IsLeaf(c), NEW key \in Key, NEW value \in Value,
           fits(c, KeySize[key] + ValueSize[value])
    PROVE  /\ IsLeaf(leaf_insert(c, key, value))
           /\ Pairs(leaf_insert(c, key, value).entries) = Put(Pairs(c.entries), key, value)
<1> DEFINE es == c.entries
           l == Len(es)
           end == c.end
           size == KeySize[key] + ValueSize[value]
           x == search_entry_index(es, key)
           entry == LeafEntry(key, value, end - KeySize[key] - ValueSize[value])
           new == leaf_insert(c, key, value)
<1>1. /\ es \in Seq(LeafEntries) /\ l \in Nat /\ end \in Int /\ Laid(es, end)
      /\ c = [kind |-> "leaf", entries |-> es, end |-> end]
      /\ MetadataEnd("leaf", l) <= end
      /\ c.kind = "leaf"
  BY LenProperties DEF IsLeaf
<1>2. size \in Nat /\ end - KeySize[key] - ValueSize[value] = end - size
      /\ end - size \in Int
  BY <1>1, SizeAssumption
<1>3. /\ entry \in LeafEntries /\ entry.key = key /\ entry.value = value
      /\ entry.offset = end - size /\ entry.size = size
  BY <1>2, LeafEntryType
<1>4. MetadataEnd("leaf", l + 1) <= end - size BY <1>1 DEF fits
<1>5. MetadataEnd("leaf", l) <= end - size /\ MetadataEnd("leaf", l) \in Nat
      /\ MetadataEnd("leaf", l + 1) \in Nat
  BY <1>1, <1>2, <1>4, MetadataGrows
<1>6. IsEntrySet(LeafEntries) BY EntrySets
<1>7. key \in Nat /\ Ordered(es) BY <1>1, KeyAssumption DEF Laid
<1> HIDE DEF es, l, size, end
<1>8. CASE ~HasKey(es, key)
  <2>1. new = [c EXCEPT !.entries = InsertAt(@, x, entry), !.end = entry.offset]
    BY <1>8 DEF leaf_insert, es, end
  <2> HIDE DEF entry, x, new
  <2> DEFINE fs == InsertAt(es, x, entry)
  <2>2. new = [kind |-> "leaf", entries |-> fs, end |-> end - size] BY <2>1, <1>1, <1>3
  <2>3. /\ x \in 1..(Len(es) + 1) /\ fs \in Seq(LeafEntries) /\ Inserted(fs, es, x, entry)
        /\ Laid(fs, end - entry.size)
    <3>1. x = search_entry_index(es, entry.key) BY <1>3 DEF x
    <3> QED BY <3>1, <1>1, <1>3, <1>6, <1>8, EntryInserted
  <2> HIDE DEF fs
  <2>4. Pairs(fs) = Put(Pairs(es), key, value)
    <3>1. ~HasKey(es, entry.key) BY <1>3, <1>8
    <3>2. Pairs(fs) = Put(Pairs(es), entry.key, entry.value)
      BY <3>1, <1>1, <2>3, PairsInserted
    <3> QED BY <3>2, <1>3
  <2>5. Len(fs) = l + 1 BY <2>3 DEF Inserted, l
  <2>6. IsLeaf(new) BY <2>2, <2>3, <2>5, <1>2, <1>3, <1>4 DEF IsLeaf
  <2> QED BY <2>2, <2>4, <2>6 DEF new, es
<1>9. CASE HasKey(es, key)
  <2>1. x \in 1..l /\ es[x].key = key
    <3>1. /\ x \in 1..(Len(es) + 1)
          /\ HasKey(es, key) <=> x <= Len(es) /\ es[x].key = key
      BY <1>1, <1>6, <1>7, SearchFinds
    <3> HIDE DEF x
    <3> QED BY <3>1, <1>1, <1>9 DEF l
  <2>2. \A i \in 1..l : es[i] \in LeafEntries BY <1>1, LenProperties DEF l
  <2>3. es[x].offset \in Int /\ es[x].size \in Nat BY <2>1, <2>2 DEF LeafEntries
  <2>4. CASE es[x].size >= entry.size
    <3> DEFINE moved == [entry EXCEPT !.offset = es[x].offset]
    <3>1. new = [c EXCEPT !.entries[x] = moved]
      BY <1>9, <2>4 DEF leaf_insert, es, end
    <3>2. moved \in LeafEntries /\ moved.key = key /\ moved.value = value
          /\ moved.offset = es[x].offset /\ moved.size = size
      <4> HIDE DEF entry
      <4>1. moved = Moved(entry, es[x].offset) BY DEF Moved
      <4> HIDE DEF moved, x
      <4> QED BY <4>1, <2>3, <1>3, MovableSets DEF Movable
    <3> HIDE DEF entry, x, new, moved
    <3> DEFINE fs == [es EXCEPT ![x] = moved]
    <3>3. new = [kind |-> "leaf", entries |-> fs, end |-> end]
      <4>1. c \in [kind : {"leaf"}, entries : {es}, end : {end}] BY <1>1
      <4> QED BY <3>1, <4>1
    <3>4. fs \in Seq(LeafEntries) /\ Len(fs) = Len(es) /\ Laid(fs, end)
      <4>1. PICK y \in 1..Len(es) : y = x BY <2>1 DEF l
      <4>2. moved.key = es[y].key /\ moved.offset = es[y].offset /\ moved.size <= es[y].size
        BY <4>1, <3>2, <2>1, <2>3, <2>4, <1>2, <1>3
      <4>3. /\ [es EXCEPT ![y] = moved] \in Seq(LeafEntries)
            /\ Len([es EXCEPT ![y] = moved]) = Len(es)
            /\ Laid([es EXCEPT ![y] = moved], end)
        BY <4>2, <3>2, <1>1, <1>6, EntryReplaced
      <4> QED BY <4>1, <4>3
    <3>5. Pairs(fs) = Put(Pairs(es), key, value)
      <4>1. PICK y \in 1..Len(es) : y = x BY <2>1 DEF l
      <4>2. moved.key = es[y].key BY <4>1, <3>2, <2>1
      <4>3. Pairs([es EXCEPT ![y] = moved]) = Put(Pairs(es), moved.key, moved.value)
        BY <4>2, <3>2, <1>1, <1>6, <1>7, PairsReplaced
      <4> QED BY <4>1, <4>3, <3>2
    <3> HIDE DEF fs
    <3>6. IsLeaf(new) BY <3>3, <3>4, <1>1 DEF IsLeaf, l
    <3> QED BY <3>3, <3>5, <3>6 DEF new, es
  <2>5. CASE ~(es[x].size >= entry.size)
    <3>1. new = [c EXCEPT !.entries[x] = entry, !.end = entry.offset]
      BY <1>9, <2>5 DEF leaf_insert, es, end
    <3> HIDE DEF entry, x, new
    <3> DEFINE fs == [es EXCEPT ![x] = entry]
    <3>3. new = [kind |-> "leaf", entries |-> fs, end |-> end - size]
      BY <3>1, <1>1, <1>3 DEF es
    <3>4. fs \in Seq(LeafEntries) /\ Len(fs) = Len(es) /\ Laid(fs, end - size)
      <4>1. PICK y \in 1..Len(es) : y = x BY <2>1 DEF l
      <4>2. entry.key = es[y].key /\ entry.offset = end - size /\ end - size = end - entry.size
        BY <4>1, <2>1, <1>3
      <4>3. PICK low : low = end - size OBVIOUS
      <4>4. low = end - entry.size /\ entry.offset = low BY <4>2, <4>3
      <4>5. /\ [es EXCEPT ![y] = entry] \in Seq(LeafEntries)
            /\ Len([es EXCEPT ![y] = entry]) = Len(es)
            /\ Laid([es EXCEPT ![y] = entry], low)
        BY <4>2, <4>4, <1>3, <1>1, <1>6, EntryReplaced
      <4> QED BY <4>1, <4>3, <4>5
    <3>5. Pairs(fs) = Put(Pairs(es), key, value)
      <4>1. PICK y \in 1..Len(es) : y = x BY <2>1 DEF l
      <4>2. entry.key = es[y].key BY <4>1, <1>3, <2>1
      <4>3. Pairs([es EXCEPT ![y] = entry]) = Put(Pairs(es), entry.key, entry.value)
        BY <4>2, <1>3, <1>1, <1>6, <1>7, PairsReplaced
      <4> QED BY <4>1, <4>3, <1>3
    <3> HIDE DEF fs
    <3>6. IsLeaf(new) BY <3>3, <3>4, <1>1, <1>2, <1>5 DEF IsLeaf, l
    <3> QED BY <3>3, <3>5, <3>6 DEF new, es
  <2> QED BY <2>4, <2>5
<1> QED BY <1>8, <1>9

\* LeafBuilder has the entry among its entries.
LEMMA LeafBuilderFacts ==
    ASSUME NEW c, IsLeaf(c), NEW key \in Key, NEW value \in Value
    PROVE  LET new == LeafBuilder(c, key, value)
           IN  /\ new \in Seq(LeafEntries) /\ Ordered(new)
               /\ Pairs(new) = Put(Pairs(c.entries), key, value)
<1> DEFINE es == c.entries
           x == search_entry_index(es, key)
           size == KeySize[key] + ValueSize[value]
           entry == LeafEntry(key, value, 0)
           twin == LeafEntry(key, value, c.end - size)
           new == LeafBuilder(c, key, value)
<1>1. es \in Seq(LeafEntries) /\ Len(es) \in Nat /\ c.end \in Int /\ Laid(es, c.end)
  BY LenProperties DEF IsLeaf
<1>2. size \in Nat /\ c.end - size \in Int BY <1>1, SizeAssumption
<1>3. /\ entry \in LeafEntries /\ entry.key = key /\ entry.value = value
      /\ twin \in LeafEntries /\ twin.key = key /\ twin.offset = c.end - twin.size
  <2>1. entry \in LeafEntries /\ entry.key = key /\ entry.value = value BY LeafEntryType
  <2> HIDE DEF size
  <2>2. /\ twin \in LeafEntries /\ twin.key = key /\ twin.offset = c.end - size
        /\ twin.size = KeySize[key] + ValueSize[value]
    BY <1>2, LeafEntryType
  <2> QED BY <2>1, <2>2 DEF size
<1>4. IsEntrySet(LeafEntries) /\ Ordered(es) /\ key \in Nat
  BY <1>1, EntrySets, KeyAssumption DEF Laid
<1>5. PICK fs \in Seq(LeafEntries) : fs = es BY <1>1
<1> HIDE DEF entry, twin, size
<1>6. CASE ~HasKey(es, key)
  <2> DEFINE ours == InsertAt(fs, x, entry)
             theirs == InsertAt(fs, x, twin)
  <2>1. new = ours BY <1>5, <1>6 DEF LeafBuilder, entry
  <2> HIDE DEF x
  <2>2. x \in 1..(Len(fs) + 1) /\ theirs \in Seq(LeafEntries) /\ Inserted(theirs, fs, x, twin)
        /\ Ordered(theirs)
    <3>1. x = search_entry_index(fs, twin.key) /\ ~HasKey(fs, twin.key)
      BY <1>3, <1>5, <1>6 DEF x
    <3>2. Laid(fs, c.end) BY <1>1, <1>5
    <3>3. Laid(theirs, c.end - twin.size) /\ x \in 1..(Len(fs) + 1)
          /\ theirs \in Seq(LeafEntries) /\ Inserted(theirs, fs, x, twin)
      BY <3>1, <3>2, <1>3, <1>4, EntryInserted
    <3> QED BY <3>3 DEF Laid
  <2>3. PICK y \in 1..(Len(fs) + 1) : y = x BY <2>2
  <2>4. ours \in Seq(LeafEntries) /\ Inserted(ours, fs, x, entry)
    <3>1. InsertAt(fs, y, entry) \in Seq(LeafEntries)
          /\ Inserted(InsertAt(fs, y, entry), fs, y, entry)
      BY <1>3, InsertedAt
    <3> QED BY <3>1, <2>3
  <2> HIDE DEF ours, theirs
  <2>5. Pairs(ours) = Put(Pairs(fs), key, value)
    <3>1. ~HasKey(fs, entry.key) /\ Inserted(ours, fs, y, entry) BY <1>3, <1>5, <1>6, <2>3, <2>4
    <3>2. Pairs(ours) = Put(Pairs(fs), entry.key, entry.value)
      BY <3>1, <2>4, PairsInserted
    <3> QED BY <3>2, <1>3
  <2>6. Len(ours) = Len(fs) + 1 /\ Len(theirs) = Len(fs) + 1 BY <2>2, <2>4 DEF Inserted
  <2>7. DOMAIN ours = 1..(Len(fs) + 1) /\ DOMAIN theirs = 1..(Len(fs) + 1)
    BY <2>2, <2>4, <2>6, LenProperties
  <2>8. \A i \in 1..(Len(fs) + 1) : ours[i].key = theirs[i].key
    BY <1>3, <2>2, <2>4 DEF Inserted
  <2>9. Ordered(ours) BY <2>2, <2>7, <2>8 DEF Ordered
  <2> QED BY <2>1, <2>4, <2>5, <2>9, <1>5
<1>7. CASE HasKey(es, key)
  <2> DEFINE ours == [fs EXCEPT ![x] = entry]
  <2>1. new = ours BY <1>5, <1>7 DEF LeafBuilder, entry
  <2>2. x \in 1..Len(fs) /\ fs[x].key = key
    <3>1. /\ x \in 1..(Len(es) + 1)
          /\ HasKey(es, key) <=> x <= Len(es) /\ es[x].key = key
      BY <1>1, <1>4, SearchFinds
    <3> HIDE DEF x
    <3> QED BY <3>1, <1>1, <1>5, <1>7
  <2> HIDE DEF x
  <2>3. PICK y \in 1..Len(fs) : y = x BY <2>2
  <2>4. ours \in Seq(LeafEntries) /\ Len(ours) = Len(fs)
    <3>1. /\ [fs EXCEPT ![y] = entry] \in Seq(LeafEntries)
          /\ Len([fs EXCEPT ![y] = entry]) = Len(fs)
      BY <1>3, ExceptSeq
    <3> QED BY <3>1, <2>3
  <2>5. Pairs(ours) = Put(Pairs(fs), key, value)
    <3>1. PICK e \in LeafEntries : e = entry BY <1>3
    <3>2. e.key = fs[y].key BY <3>1, <1>3, <2>2, <2>3
    <3>3. IsEntrySet(LeafEntries) /\ Ordered(fs) BY <1>4, <1>5
    <3>4. Pairs([fs EXCEPT ![y] = e]) = Put(Pairs(fs), e.key, e.value)
      BY <3>2, <3>3, PairsReplaced
    <3> QED BY <3>1, <3>4, <2>3, <1>3
  <2>6. DOMAIN ours = DOMAIN fs /\ \A i \in DOMAIN fs : ours[i].key = fs[i].key
    <3>1. \A i \in DOMAIN fs : ours[i] = IF i = x THEN entry ELSE fs[i] OBVIOUS
    <3> QED BY <3>1, <2>2, <1>3
  <2> HIDE DEF ours
  <2>7. Ordered(ours) BY <2>6, <1>4, <1>5 DEF Ordered
  <2> QED BY <2>1, <2>4, <2>5, <2>7, <1>5
<1> QED BY <1>6, <1>7

\* What get_value finds in a leaf.
LEMMA LookupFacts ==
    ASSUME NEW leaf, leaf.entries \in Seq(LeafEntries), Ordered(leaf.entries),
           NEW key \in Key
    PROVE  /\ \A v : <<key, v>> \in Pairs(leaf.entries) <=>
                        get_value(leaf, key) = v /\ v \in Value
           /\ get_value(leaf, key) \in Value \cup {None}
<1>1. PICK es \in Seq(LeafEntries) : es = leaf.entries OBVIOUS
<1> DEFINE l == Len(es)
           y == search_entry_index(es, key)
<1>2. l \in Nat /\ DOMAIN es = 1..l /\ \A i \in 1..l : es[i] \in LeafEntries
  BY LenProperties
<1>3. Ordered(es) /\ key \in Nat BY <1>1, KeyAssumption
<1>4. \A i \in 1..l : es[i].value \in Value /\ es[i].key \in Nat
  BY <1>2, KeyAssumption DEF LeafEntries
<1>5. /\ y \in 1..(l + 1)
      /\ HasKey(es, key) <=> y <= l /\ es[y].key = key
  BY <1>3, EntrySets, SearchFinds
<1>6. get_value(leaf, key) = IF HasKey(es, key) THEN es[y].value ELSE None
  BY <1>1 DEF get_value
<1> HIDE DEF l, y
<1>7. CASE HasKey(es, key)
  <2>1. y \in 1..l /\ es[y].key = key /\ es[y].value \in Value BY <1>2, <1>4, <1>5, <1>7
  <2>2. <<key, es[y].value>> \in Pairs(es) BY <2>1, <1>2 DEF Pairs
  <2>3. ASSUME NEW v, <<key, v>> \in Pairs(es) PROVE v = es[y].value
    <3>1. PICK i \in 1..l : <<key, v>> = <<es[i].key, es[i].value>> BY <2>3, <1>2 DEF Pairs
    <3>2. i = y
      <4>1. ~(i < y) /\ ~(y < i) BY <3>1, <2>1, <1>2, <1>3, <1>4 DEF Ordered
      <4> QED BY <4>1, <2>1, <1>2
    <3> QED BY <3>1, <3>2
  <2> QED BY <1>1, <1>6, <1>7, <2>1, <2>2, <2>3
<1>8. CASE ~HasKey(es, key)
  <2>1. ASSUME NEW v, <<key, v>> \in Pairs(es) PROVE FALSE
    <3>1. PICK i \in 1..l : <<key, v>> = <<es[i].key, es[i].value>> BY <2>1, <1>2 DEF Pairs
    <3> QED BY <3>1, <1>2, <1>8 DEF HasKey
  <2> QED BY <1>1, <1>6, <1>8, <2>1, NoneAssumption
<1> QED BY <1>7, <1>8

\* The two halves of entries.
LEMMA HalvesFacts ==
    ASSUME NEW E, NEW es \in Seq(E), Len(es) >= 2
    PROVE  LET m == Len(es) \div 2
           IN  /\ m \in 1..(Len(es) - 1)
               /\ LeftHalf(es) \in Seq(E) /\ Len(LeftHalf(es)) = m
               /\ \A i \in 1..m : LeftHalf(es)[i] = es[i]
               /\ RightHalf(es) \in Seq(E) /\ Len(RightHalf(es)) = Len(es) - m
               /\ \A i \in 1..(Len(es) - m) : RightHalf(es)[i] = es[m + i]
<1> DEFINE l == Len(es)
           m == l \div 2
<1>1. l \in Nat /\ l >= 2 /\ \A i \in 1..l : es[i] \in E BY LenProperties
<1>2. m \in 1..(l - 1)
  <2> HIDE DEF l
  <2> QED BY <1>1
<1>3. LeftHalf(es) = SubSeq(es, 1, m) /\ RightHalf(es) = SubSeq(es, m + 1, l)
  BY DEF LeftHalf, RightHalf
<1> HIDE DEF l, m
<1>4. /\ SubSeq(es, 1, m) \in Seq(E) /\ Len(SubSeq(es, 1, m)) = m
      /\ \A i \in 1..m : SubSeq(es, 1, m)[i] = es[i]
  <2>1. \A i \in 1..m : es[i] \in E BY <1>1, <1>2
  <2>2. /\ SubSeq(es, 1, m) \in Seq(E)
        /\ Len(SubSeq(es, 1, m)) = IF 1 <= m THEN m - 1 + 1 ELSE 0
        /\ \A i \in 1..(m - 1 + 1) : SubSeq(es, 1, m)[i] = es[1 + i - 1]
    BY <1>1, <1>2, <2>1, SubSeqProperties
  <2>3. 1 <= m /\ m - 1 + 1 = m /\ \A i \in 1..m : 1 + i - 1 = i BY <1>1, <1>2
  <2> QED BY <2>2, <2>3
<1>5. /\ SubSeq(es, m + 1, l) \in Seq(E) /\ Len(SubSeq(es, m + 1, l)) = l - m
      /\ \A i \in 1..(l - m) : SubSeq(es, m + 1, l)[i] = es[m + i]
  <2>1. \A i \in (m + 1)..l : es[i] \in E BY <1>1, <1>2
  <2>2. /\ SubSeq(es, m + 1, l) \in Seq(E)
        /\ Len(SubSeq(es, m + 1, l)) = IF m + 1 <= l THEN l - (m + 1) + 1 ELSE 0
        /\ \A i \in 1..(l - (m + 1) + 1) : SubSeq(es, m + 1, l)[i] = es[m + 1 + i - 1]
    BY <1>1, <1>2, <2>1, SubSeqProperties
  <2>3. m + 1 <= l /\ l - (m + 1) + 1 = l - m /\ \A i \in 1..(l - m) : m + 1 + i - 1 = m + i
    BY <1>1, <1>2
  <2> QED BY <2>2, <2>3
<1> QED BY <1>2, <1>3, <1>4, <1>5 DEF l, m

\* The halves of a leaf divide what it holds at the first key of the right one.
LEMMA LeafHalves ==
    ASSUME NEW es \in Seq(LeafEntries), Ordered(es), Len(es) >= 2
    PROVE  LET sep == RightHalf(es)[1].key
           IN  /\ sep \in Key
               /\ LeftHalf(es) \in Seq(LeafEntries) /\ Ordered(LeftHalf(es))
               /\ RightHalf(es) \in Seq(LeafEntries) /\ Ordered(RightHalf(es))
               /\ Pairs(LeftHalf(es)) = {q \in Pairs(es) : q[1] < sep}
               /\ Pairs(RightHalf(es)) = {q \in Pairs(es) : sep <= q[1]}
               /\ \E q \in Pairs(es) : q[1] < sep
               /\ \E q \in Pairs(es) : q[1] = sep
<1> DEFINE l == Len(es)
           m == l \div 2
           left == LeftHalf(es)
           right == RightHalf(es)
           sep == right[1].key
<1>1. l \in Nat /\ DOMAIN es = 1..l /\ \A i \in 1..l : es[i] \in LeafEntries
  BY LenProperties
<1>2. \A i \in 1..l : es[i].key \in Key /\ es[i].key \in Nat
  BY <1>1, KeyAssumption DEF LeafEntries
<1>3. /\ m \in 1..(l - 1)
      /\ left \in Seq(LeafEntries) /\ Len(left) = m /\ \A i \in 1..m : left[i] = es[i]
      /\ right \in Seq(LeafEntries) /\ Len(right) = l - m
      /\ \A i \in 1..(l - m) : right[i] = es[m + i]
  BY HalvesFacts
<1>4. \A i, j \in 1..l : i < j => es[i].key < es[j].key BY <1>1 DEF Ordered
<1>5. DOMAIN left = 1..m /\ DOMAIN right = 1..(l - m) BY <1>3, LenProperties
<1>6. \A i : <<es[i].key, es[i].value>> \in Pairs(es) \/ i \notin 1..l BY <1>1 DEF Pairs
<1>7. \A q \in Pairs(es) : \E i \in 1..l : q = <<es[i].key, es[i].value>> BY <1>1 DEF Pairs
<1> HIDE DEF l, m, left, right
<1>8. 1 \in 1..(l - m) /\ m + 1 \in 1..l /\ 1 \in 1..m /\ 1 \in 1..l BY <1>1, <1>3
<1>9. sep = es[m + 1].key BY <1>3, <1>8
<1> HIDE DEF sep
<1>10. sep \in Key /\ sep \in Nat BY <1>2, <1>8, <1>9
<1>11. \A i \in 1..m : i \in 1..l /\ es[i].key < sep
  <2> SUFFICES ASSUME NEW i \in 1..m PROVE i \in 1..l /\ es[i].key < sep OBVIOUS
  <2>1. i \in 1..l /\ i < m + 1 BY <1>1, <1>3
  <2> QED BY <2>1, <1>4, <1>8, <1>9
<1>12. \A i \in 1..(l - m) : m + i \in 1..l /\ sep <= es[m + i].key
  <2> SUFFICES ASSUME NEW i \in 1..(l - m) PROVE m + i \in 1..l /\ sep <= es[m + i].key OBVIOUS
  <2>1. m + i \in 1..l BY <1>1, <1>3
  <2>2. CASE i = 1 BY <2>1, <2>2, <1>9, <1>10
  <2>3. CASE i # 1
    <3>1. m + 1 < m + i BY <2>3, <1>1, <1>3
    <3>2. es[m + 1].key < es[m + i].key BY <3>1, <2>1, <1>4, <1>8
    <3> QED BY <3>2, <2>1, <1>2, <1>9, <1>10
  <2> QED BY <2>2, <2>3
<1>13. Ordered(left)
  <2> SUFFICES ASSUME NEW i \in 1..m, NEW j \in 1..m, i < j PROVE left[i].key < left[j].key
    BY <1>5 DEF Ordered
  <2> QED BY <1>3, <1>4, <1>11
<1>14. Ordered(right)
  <2> SUFFICES ASSUME NEW i \in 1..(l - m), NEW j \in 1..(l - m), i < j
               PROVE  right[i].key < right[j].key
    BY <1>5 DEF Ordered
  <2>1. m + i \in 1..l /\ m + j \in 1..l /\ m + i < m + j BY <1>1, <1>3, <1>12
  <2>2. es[m + i].key < es[m + j].key BY <2>1, <1>4
  <2> QED BY <2>2, <1>3
<1>15. Pairs(left) = {<<es[i].key, es[i].value>> : i \in 1..m}
  <2>1. Pairs(left) = {<<left[i].key, left[i].value>> : i \in 1..m} BY <1>5 DEF Pairs
  <2> QED BY <2>1, <1>3
<1>16. Pairs(right) = {<<es[m + i].key, es[m + i].value>> : i \in 1..(l - m)}
  <2>1. Pairs(right) = {<<right[i].key, right[i].value>> : i \in 1..(l - m)} BY <1>5 DEF Pairs
  <2> QED BY <2>1, <1>3
<1>17. Pairs(left) = {q \in Pairs(es) : q[1] < sep}
  <2>1. ASSUME NEW q \in Pairs(left) PROVE q \in Pairs(es) /\ q[1] < sep
    <3>1. PICK i \in 1..m : q = <<es[i].key, es[i].value>> BY <1>15
    <3> QED BY <3>1, <1>6, <1>11
  <2>2. ASSUME NEW q \in Pairs(es), q[1] < sep PROVE q \in Pairs(left)
    <3>1. PICK i \in 1..l : q = <<es[i].key, es[i].value>> BY <1>7
    <3>2. CASE i \in 1..m BY <3>1, <3>2, <1>15
    <3>3. CASE i \notin 1..m
      <4>1. i - m \in 1..(l - m) /\ m + (i - m) = i BY <3>3, <1>1, <1>3
      <4>2. sep <= es[i].key BY <4>1, <1>12
      <4> QED BY <4>2, <3>1, <2>2, <1>2, <1>10
    <3> QED BY <3>2, <3>3
  <2> QED BY <2>1, <2>2
<1>18. Pairs(right) = {q \in Pairs(es) : sep <= q[1]}
  <2>1. ASSUME NEW q \in Pairs(right) PROVE q \in Pairs(es) /\ sep <= q[1]
    <3>1. PICK i \in 1..(l - m) : q = <<es[m + i].key, es[m + i].value>> BY <1>16
    <3> QED BY <3>1, <1>6, <1>12
  <2>2. ASSUME NEW q \in Pairs(es), sep <= q[1] PROVE q \in Pairs(right)
    <3>1. PICK i \in 1..l : q = <<es[i].key, es[i].value>> BY <1>7
    <3>2. CASE i \in 1..m
      <4>1. es[i].key < sep BY <3>2, <1>11
      <4> QED BY <4>1, <3>1, <2>2, <1>2, <1>10
    <3>3. CASE i \notin 1..m
      <4>1. i - m \in 1..(l - m) /\ m + (i - m) = i BY <3>3, <1>1, <1>3
      <4>2. q = <<es[m + (i - m)].key, es[m + (i - m)].value>> BY <4>1, <3>1
      <4> QED BY <4>1, <4>2, <1>16
    <3> QED BY <3>2, <3>3
  <2> QED BY <2>1, <2>2
<1>19. /\ <<es[1].key, es[1].value>> \in Pairs(es) /\ es[1].key < sep
       /\ <<es[m + 1].key, es[m + 1].value>> \in Pairs(es)
  BY <1>6, <1>8, <1>11
<1>20. (\E q \in Pairs(es) : q[1] < sep) /\ (\E q \in Pairs(es) : q[1] = sep)
  BY <1>9, <1>19
<1> QED BY <1>3, <1>10, <1>13, <1>14, <1>17, <1>18, <1>20 DEF sep, left, right

\* A leaf that is built without overflow is a leaf, and has the pairs of its entries.
LEMMA LeafBuilt ==
    ASSUME NEW es \in Seq(LeafEntries), Ordered(es), BuildFits("leaf", es)
    PROVE  /\ IsLeaf(build_entries_at_buf("leaf", es))
           /\ Pairs(build_entries_at_buf("leaf", es).entries) = Pairs(es)
<1> DEFINE new == build_entries_at_buf("leaf", es)
           l == Len(es)
<1>1. l \in Nat /\ DOMAIN es = 1..l /\ \A i \in 1..l : es[i] \in LeafEntries
  BY LenProperties
<1>2. /\ new.entries \in Seq(LeafEntries) /\ Len(new.entries) = l
      /\ \A i \in 1..l : new.entries[i] = Moved(es[i], BuiltOffset(es, i))
      /\ new.end = BuiltOffset(es, l) /\ Laid(new.entries, new.end)
  BY EntrySets, MovableSets, EntriesBuilt
<1>3. new = [kind |-> "leaf", entries |-> new.entries, end |-> new.end]
  BY DEF build_entries_at_buf
<1>4. /\ \A j \in 0..l : BuiltOffset(es, j) \in Int
      /\ BuiltOffset(es, 0) = PageSize
  BY EntrySets, BuiltFacts
<1> HIDE DEF l, new
<1>5. MetadataEnd("leaf", l) <= BuiltOffset(es, l)
  <2>1. CASE l = 0
    BY <2>1, <1>4, SizeAssumption DEF MetadataEnd, MetadataSize, HeaderSize, MIN_PAGE_SIZE
  <2>2. CASE l # 0
    <3>1. l \in 1..l BY <2>2, <1>1
    <3> QED BY <3>1, <1>1 DEF BuildFits
  <2> QED BY <2>1, <2>2
<1>6. new.end \in Int BY <1>2 DEF Laid
<1>7. IsLeaf(new)
  <2>1. new \in [kind : {"leaf"}, entries : Seq(LeafEntries), end : Int] BY <1>2, <1>3, <1>6
  <2> QED BY <2>1, <1>2, <1>5 DEF IsLeaf
<1>8. Pairs(new.entries) = Pairs(es)
  <2>1. DOMAIN new.entries = 1..l BY <1>2, LenProperties
  <2>2. \A i \in 1..l : /\ new.entries[i].key = es[i].key
                        /\ new.entries[i].value = es[i].value
    <3> SUFFICES ASSUME NEW i \in 1..l
                 PROVE  /\ new.entries[i].key = es[i].key
                        /\ new.entries[i].value = es[i].value
      OBVIOUS
    <3>1. i \in 0..l /\ BuiltOffset(es, i) \in Int BY <1>1, <1>4
    <3>2. /\ Moved(es[i], BuiltOffset(es, i)).key = es[i].key
          /\ Moved(es[i], BuiltOffset(es, i)).value = es[i].value
      BY <3>1, <1>1, MovableSets DEF Movable
    <3> QED BY <3>2, <1>2
  <2> QED BY <2>1, <2>2, <1>1 DEF Pairs
<1> QED BY <1>7, <1>8 DEF new

-----------------------------------------------------------------------------
(* Branches. *)

AreChildren(es) ==
    /\ \E sums : es \in Seq(BranchEntries(sums))
    /\ Ordered(es)
    /\ Len(es) >= 1 /\ es[1].key = NoKey

IsBranch(c) ==
    /\ \E sums : c \in [kind : {"branch"}, entries : Seq(BranchEntries(sums)), end : Int]
    /\ AreChildren(c.entries)
    /\ Laid(c.entries, c.end)
    /\ MetadataEnd("branch", Len(c.entries)) <= c.end

\* Which of the children a key belongs to.
Index(es, key) == child_index_for_key([entries |-> es], key)

\* What the code searches for is Index.
LEMMA IndexOfBranch == \A b, key : child_index_for_key(b, key) = Index(b.entries, key)
BY DEF Index, child_index_for_key

\* The children of a branch: keys in order, and one child for every number.
LEMMA ChildrenFacts ==
    ASSUME NEW es, AreChildren(es)
    PROVE  /\ Len(es) \in Nat \ {0} /\ DOMAIN es = 1..Len(es)
           /\ \A i \in 1..Len(es) : /\ es[i].key \in Nat /\ es[i].page \in Page
                                    /\ es[i].offset \in Int /\ es[i].size \in Nat
           /\ \A i \in 2..Len(es) : es[i].key \in Key
           /\ \A i, j \in 1..Len(es) : i < j => es[i].key < es[j].key
           /\ \A key \in Nat : Index(es, key) \in 1..Len(es) /\ Routes(es, key, Index(es, key))
           /\ \A key \in Nat : \A x : Routes(es, key, x) => Index(es, key) = x
<1>1. PICK sums : es \in Seq(BranchEntries(sums)) BY DEF AreChildren
<1> DEFINE l == Len(es)
<1>2. l \in Nat /\ DOMAIN es = 1..l /\ \A i \in 1..l : es[i] \in BranchEntries(sums)
  BY <1>1, LenProperties
<1>3. IsEntrySet(BranchEntries(sums)) BY EntrySets
<1>4. \A i \in 1..l : es[i].key \in Nat /\ es[i].offset \in Int /\ es[i].size \in Nat
  BY <1>2, <1>3 DEF IsEntrySet
<1>5. \A i \in 1..l : es[i].page \in Page /\ es[i].key \in Key \cup {NoKey}
  BY <1>2 DEF BranchEntries
<1>6. l >= 1 /\ es[1].key = NoKey /\ Ordered(es) BY DEF AreChildren
<1>7. \A i, j \in 1..l : i < j => es[i].key < es[j].key BY <1>2, <1>6 DEF Ordered
<1>8. \A i \in 2..l : es[i].key \in Key
  <2> SUFFICES ASSUME NEW i \in 2..l PROVE es[i].key \in Key OBVIOUS
  <2> HIDE DEF l
  <2>1. 1 \in 1..l /\ i \in 1..l /\ 1 < i BY <1>2, <1>6
  <2>2. es[1].key < es[i].key BY <2>1, <1>7
  <2>3. es[i].key # NoKey BY <2>1, <2>2, <1>4, <1>6 DEF NoKey
  <2> QED BY <2>1, <2>3, <1>5
<1>9. ASSUME NEW key \in Nat PROVE Routes(es, key, Index(es, key))
  <2> DEFINE b == [entries |-> es]
  <2>1. b.entries = es OBVIOUS
  <2> HIDE DEF b
  <2>2. Routes(b.entries, key, child_index_for_key(b, key))
    <3>1. b.entries \in Seq(BranchEntries(sums)) /\ Ordered(b.entries)
          /\ 1 <= Len(b.entries) /\ b.entries[1].key = NoKey
      BY <2>1, <1>1, <1>6
    <3> QED BY <3>1, <1>3, RouteFinds
  <2> QED BY <2>1, <2>2 DEF Index, b
<1>10. \A key \in Nat : Index(es, key) \in 1..l BY <1>9 DEF Routes
<1>11. ASSUME NEW key \in Nat, NEW x, Routes(es, key, x) PROVE Index(es, key) = x
  <2>1. PICK y : y = Index(es, key) OBVIOUS
  <2>2. Routes(es, key, y) BY <2>1, <1>9
  <2> QED BY <2>1, <2>2, <1>2, <1>4, <1>11, RouteIsUnique
<1> HIDE DEF l
<1>12. l \in Nat \ {0} BY <1>2, <1>6
<1> QED BY <1>2, <1>4, <1>5, <1>7, <1>8, <1>9, <1>10, <1>11, <1>12 DEF l

\* What a branch has.
LEMMA BranchFacts ==
    ASSUME NEW b, IsBranch(b)
    PROVE  /\ AreChildren(b.entries) /\ Laid(b.entries, b.end)
           /\ b = [kind |-> "branch", entries |-> b.entries, end |-> b.end]
           /\ b.kind = "branch" /\ b.end \in Int
           /\ MetadataEnd("branch", Len(b.entries)) <= b.end
BY DEF IsBranch

\* Entries with the same keys have the same routes.
LEMMA SameRoutes ==
    ASSUME NEW es, NEW fs, AreChildren(es), AreChildren(fs), Len(fs) = Len(es),
           \A i \in 1..Len(es) : fs[i].key = es[i].key, NEW key \in Nat
    PROVE  Index(fs, key) = Index(es, key)
<1>1. Routes(es, key, Index(es, key)) BY ChildrenFacts
<1>2. Routes(fs, key, Index(es, key)) BY <1>1 DEF Routes
<1> QED BY <1>2, ChildrenFacts

\* set_child_at_index.
LEMMA ChildSet ==
    ASSUME NEW b, IsBranch(b), NEW x \in 1..Len(b.entries), NEW page \in Page, NEW sum
    PROVE  LET new == set_child_at_index(b, x, page, sum)
           IN  /\ IsBranch(new) /\ Len(new.entries) = Len(b.entries)
               /\ new.entries[x].page = page /\ new.entries[x].sum = sum
               /\ \A i \in 1..Len(b.entries) : i # x => new.entries[i] = b.entries[i]
               /\ \A i \in 1..Len(b.entries) : new.entries[i].key = b.entries[i].key
               /\ \A key \in Nat : Index(new.entries, key) = Index(b.entries, key)
<1> DEFINE es == b.entries
           l == Len(es)
           e == [es[x] EXCEPT !.page = page, !.sum = sum]
           fs == [es EXCEPT ![x] = e]
           new == set_child_at_index(b, x, page, sum)
<1>1. PICK sums : b \in [kind : {"branch"}, entries : Seq(BranchEntries(sums)), end : Int]
  BY DEF IsBranch
<1>2. /\ AreChildren(es) /\ Laid(es, b.end) /\ b.end \in Int
      /\ b = [kind |-> "branch", entries |-> es, end |-> b.end]
      /\ MetadataEnd("branch", l) <= b.end
  BY BranchFacts
<1>3. l \in Nat /\ DOMAIN es = 1..l /\ es \in Seq(BranchEntries(sums))
      /\ \A i \in 1..l : es[i] \in BranchEntries(sums)
  BY <1>1, LenProperties
<1> DEFINE all == sums \cup {sum}
<1>4. \A f \in BranchEntries(sums) : f \in BranchEntries(all) BY DEF BranchEntries
<1>5. es[x] \in BranchEntries(sums) BY <1>3
<1>6. /\ e \in BranchEntries(all) /\ e.page = page /\ e.sum = sum
      /\ e.key = es[x].key /\ e.offset = es[x].offset /\ e.size = es[x].size
  BY <1>5 DEF BranchEntries
<1>7. new = [kind |-> "branch", entries |-> fs, end |-> b.end]
  <2> DEFINE gs == [es EXCEPT ![x].page = page]
             hs == [gs EXCEPT ![x].sum = sum]
  <2>1. new = [[b EXCEPT !.entries[x].page = page] EXCEPT !.entries[x].sum = sum]
    BY DEF set_child_at_index
  <2>2. [b EXCEPT !.entries[x].page = page] = [kind |-> "branch", entries |-> gs, end |-> b.end]
    <3>1. PICK g : g = gs OBVIOUS
    <3>2. [b EXCEPT !.entries[x].page = page] = [b EXCEPT !.entries = g] BY <3>1
    <3>3. [b EXCEPT !.entries = g] = [kind |-> "branch", entries |-> g, end |-> b.end] BY <1>2
    <3> QED BY <3>1, <3>2, <3>3
  <2>3. new = [kind |-> "branch", entries |-> hs, end |-> b.end] BY <2>1, <2>2
  <2>4. gs = [es EXCEPT ![x] = [es[x] EXCEPT !.page = page]] OBVIOUS
  <2>5. gs[x] = [es[x] EXCEPT !.page = page] BY <1>3
  <2>6. hs = [gs EXCEPT ![x] = [gs[x] EXCEPT !.sum = sum]] OBVIOUS
  <2>7. [gs[x] EXCEPT !.sum = sum] = e BY <2>5
  <2> HIDE DEF e
  <2>8. hs = fs BY <2>4, <2>6, <2>7
  <2> QED BY <2>3, <2>8
<1> HIDE DEF all, e
<1>8. es \in Seq(BranchEntries(all)) BY <1>3, <1>4
<1>9. fs[x] = e /\ \A i \in 1..l : i # x => fs[i] = es[i] BY <1>3
<1>10. fs \in Seq(BranchEntries(all)) /\ Len(fs) = l /\ Laid(fs, b.end)
  <2>1. PICK gs \in Seq(BranchEntries(all)) : gs = es BY <1>8
  <2>2. x \in 1..Len(gs) /\ e.key = gs[x].key /\ Laid(gs, b.end)
        /\ e.offset = gs[x].offset /\ e.size <= gs[x].size
    <3>1. es[x].size \in Nat BY <1>5, EntrySets DEF IsEntrySet
    <3> QED BY <3>1, <2>1, <1>2, <1>6
  <2>3. /\ [gs EXCEPT ![x] = e] \in Seq(BranchEntries(all))
        /\ Len([gs EXCEPT ![x] = e]) = Len(gs)
        /\ Laid([gs EXCEPT ![x] = e], b.end)
    BY <2>2, <1>6, EntrySets, EntryReplaced
  <2> QED BY <2>1, <2>3
<1>11. \A i \in 1..l : fs[i].key = es[i].key BY <1>6, <1>9
<1> HIDE DEF fs, new
<1>12. AreChildren(fs)
  <2>1. Ordered(fs) BY <1>10 DEF Laid
  <2>2. l >= 1 /\ es[1].key = NoKey BY <1>2 DEF AreChildren
  <2>3. 1 \in 1..l
    <3> HIDE DEF l
    <3> QED BY <2>2, <1>3
  <2> QED BY <2>1, <2>2, <2>3, <1>10, <1>11 DEF AreChildren
<1>13. IsBranch(new)
  <2>1. new \in [kind : {"branch"}, entries : Seq(BranchEntries(all)), end : Int]
    BY <1>2, <1>7, <1>10
  <2> QED BY <2>1, <1>2, <1>7, <1>10, <1>12 DEF IsBranch
<1>14. \A key \in Nat : Index(fs, key) = Index(es, key)
  BY <1>2, <1>10, <1>11, <1>12, SameRoutes
<1>15. new.entries = fs BY <1>7
<1> QED BY <1>6, <1>9, <1>10, <1>11, <1>13, <1>14, <1>15 DEF new

\* Children with one more at the right of x, for the keys from sep on.
Grown(new, es, x, sep, page, sum) ==
    /\ AreChildren(new) /\ Len(new) = Len(es) + 1
    /\ new[x + 1].page = page /\ new[x + 1].sum = sum
    /\ \A i \in 1..x : new[i].page = es[i].page /\ new[i].sum = es[i].sum
    /\ \A i \in (x + 1)..Len(es) :
          new[i + 1].page = es[i].page /\ new[i + 1].sum = es[i].sum
    /\ \A key \in Nat : Index(new, key) = Index(es, key) + IF sep <= key THEN 1 ELSE 0

\* A separator goes right behind the child that was split.
LEMMA ChildPlace ==
    ASSUME NEW es, AreChildren(es), NEW low \in Nat, NEW sep \in Nat, low < sep,
           Index(es, low) = Index(es, sep)
    PROVE  ~HasKey(es, sep) /\ search_entry_index(es, sep) = Index(es, sep) + 1
<1> DEFINE l == Len(es)
           x == Index(es, sep)
           y == search_entry_index(es, sep)
<1>1. PICK sums : es \in Seq(BranchEntries(sums)) BY DEF AreChildren
<1>2. /\ l \in Nat /\ DOMAIN es = 1..l /\ x \in 1..l
      /\ \A i \in 1..l : es[i].key \in Nat
      /\ \A i, j \in 1..l : i < j => es[i].key < es[j].key
      /\ Routes(es, sep, x)
      /\ Routes(es, low, x)
  <2>1. Routes(es, sep, x) /\ Routes(es, low, Index(es, low)) /\ x \in 1..l BY ChildrenFacts
  <2> QED BY <2>1, ChildrenFacts
<1>3. /\ y \in 1..(l + 1)
      /\ \A i \in 1..l : IF i < y THEN es[i].key < sep ELSE sep <= es[i].key
      /\ HasKey(es, sep) <=> y <= l /\ es[y].key = sep
  <2>1. Ordered(es) /\ IsEntrySet(BranchEntries(sums)) BY EntrySets DEF AreChildren
  <2> QED BY <1>1, <2>1, SearchFinds
<1> HIDE DEF l, x, y
<1>4. /\ \A i \in 1..l : IF i <= x THEN es[i].key <= sep ELSE sep < es[i].key
      /\ \A i \in 1..l : IF i <= x THEN es[i].key <= low ELSE low < es[i].key
  BY <1>2 DEF Routes, l
<1>5. es[x].key < sep BY <1>2, <1>4
<1>6. x < y BY <1>2, <1>3, <1>5
<1>7. ~(x + 1 < y)
  <2> SUFFICES ASSUME x + 1 < y PROVE FALSE OBVIOUS
  <2>1. x + 1 \in 1..l /\ ~(x + 1 <= x) BY <1>2, <1>3
  <2>2. es[x + 1].key < sep /\ sep < es[x + 1].key BY <2>1, <1>3, <1>4
  <2> QED BY <2>1, <2>2, <1>2
<1>8. y = x + 1 BY <1>2, <1>3, <1>6, <1>7
<1>9. y <= l => es[y].key # sep
  <2> SUFFICES ASSUME y <= l PROVE es[y].key # sep OBVIOUS
  <2>1. x + 1 \in 1..l /\ ~(x + 1 <= x) BY <1>2, <1>8
  <2>2. sep < es[x + 1].key BY <2>1, <1>4
  <2> QED BY <2>1, <2>2, <1>2, <1>8
<1> QED BY <1>3, <1>8, <1>9 DEF x, y

\* An entry of a branch is as large as its key; the first has none.
LEMMA BranchEntryType ==
    ASSUME NEW key \in Key \cup {NoKey}, NEW page \in Page, NEW sum, NEW offset \in Int,
           NEW sums, sum \in sums
    PROVE  LET e == BranchEntry(key, page, sum, offset)
           IN  /\ e \in BranchEntries(sums)
               /\ e.key = key /\ e.page = page /\ e.sum = sum /\ e.offset = offset
               /\ (key \in Key => e.size = KeySize[key]) /\ e.size \in Nat
<1>1. CASE key = NoKey
  <2>1. key \notin Key BY <1>1, KeyAssumption DEF NoKey
  <2> QED BY <1>1, <2>1 DEF BranchEntry, BranchEntries
<1>2. CASE key # NoKey
  <2>1. key \in Key /\ KeySize[key] \in Nat BY <1>2, SizeAssumption
  <2> QED BY <1>2, <2>1 DEF BranchEntry, BranchEntries
<1> QED BY <1>1, <1>2

\* BranchPageMutator::insert and BranchBuilder::insert, of a key that is not there.
LEMMA ChildInserted ==
    ASSUME NEW b, IsBranch(b), NEW low \in Nat, NEW sep \in Key, low < sep,
           Index(b.entries, low) = Index(b.entries, sep), NEW page \in Page, NEW sum
    PROVE  LET new == branch_insert(b, sep, page, sum)
           IN  /\ BranchBuilder(b, sep, page, sum) = new.entries
               /\ Grown(new.entries, b.entries, Index(b.entries, sep), sep, page, sum)
               /\ fits(b, KeySize[sep]) => IsBranch(new)
<1> DEFINE es == b.entries
           l == Len(es)
           end == b.end
           x == Index(es, sep)
           e == BranchEntry(sep, page, sum, end - KeySize[sep])
           fs == InsertAt(es, x + 1, e)
           new == branch_insert(b, sep, page, sum)
<1>1. PICK sums : b \in [kind : {"branch"}, entries : Seq(BranchEntries(sums)), end : Int]
  BY DEF IsBranch
<1>2. /\ AreChildren(es) /\ Laid(es, end) /\ end \in Int
      /\ b = [kind |-> "branch", entries |-> es, end |-> end]
  BY BranchFacts
<1> DEFINE all == sums \cup {sum}
<1>3. es \in Seq(BranchEntries(all))
  <2>1. \A f \in BranchEntries(sums) : f \in BranchEntries(all) BY DEF BranchEntries
  <2>2. es \in Seq(BranchEntries(sums)) BY <1>1
  <2> HIDE DEF all, es
  <2> QED BY <2>1, <2>2
<1>4. KeySize[sep] \in Nat /\ sep \in Nat BY SizeAssumption, KeyAssumption
<1>5. /\ e \in BranchEntries(all) /\ e.key = sep /\ e.page = page /\ e.sum = sum
      /\ e.offset = end - KeySize[sep] /\ e.size = KeySize[sep]
  <2>1. end - KeySize[sep] \in Int BY <1>2, <1>4
  <2>2. PICK o \in Int : o = end - KeySize[sep] BY <2>1
  <2>3. sum \in all OBVIOUS
  <2> HIDE DEF all
  <2>4. /\ BranchEntry(sep, page, sum, o) \in BranchEntries(all)
        /\ BranchEntry(sep, page, sum, o).key = sep
        /\ BranchEntry(sep, page, sum, o).page = page
        /\ BranchEntry(sep, page, sum, o).sum = sum
        /\ BranchEntry(sep, page, sum, o).offset = o
        /\ BranchEntry(sep, page, sum, o).size = KeySize[sep]
    BY <2>3, BranchEntryType
  <2> QED BY <2>2, <2>4
<1>6. ~HasKey(es, sep) /\ search_entry_index(es, sep) = x + 1
  BY <1>2, <1>4, ChildPlace
<1>7. new = [b EXCEPT !.entries = InsertAt(@, x + 1, e), !.end = e.offset]
  BY <1>6 DEF branch_insert
<1>8. new = [kind |-> "branch", entries |-> fs, end |-> end - KeySize[sep]]
  <2>1. new = [b EXCEPT !.entries = InsertAt(b.entries, x + 1, e), !.end = e.offset]
    BY <1>7
  <2> HIDE DEF e, x, new, es, end
  <2>2. b.entries = es /\ b \in [kind : {"branch"}, entries : {es}, end : {end}]
    BY <1>2 DEF es
  <2> HIDE DEF all, fs
  <2>3. new = [b EXCEPT !.entries = fs, !.end = end - KeySize[sep]] BY <2>1, <2>2, <1>5 DEF fs
  <2> QED BY <2>2, <2>3
<1> HIDE DEF e, all, x, new
<1>9. /\ x + 1 \in 1..(l + 1) /\ fs \in Seq(BranchEntries(all)) /\ Inserted(fs, es, x + 1, e)
      /\ Laid(fs, end - KeySize[sep])
  <2>1. PICK gs \in Seq(BranchEntries(all)) : gs = es BY <1>3
  <2>2. PICK y : y = search_entry_index(gs, e.key) OBVIOUS
  <2>3. y = x + 1 /\ ~HasKey(gs, e.key) BY <2>1, <2>2, <1>5, <1>6
  <2>4. Laid(gs, end) /\ e.offset = end - e.size BY <2>1, <1>2, <1>5
  <2>5. /\ y \in 1..(Len(gs) + 1)
        /\ InsertAt(gs, y, e) \in Seq(BranchEntries(all))
        /\ Inserted(InsertAt(gs, y, e), gs, y, e)
        /\ Laid(InsertAt(gs, y, e), end - e.size)
    BY <2>2, <2>3, <2>4, <1>5, EntrySets, EntryInserted
  <2> QED BY <2>1, <2>3, <2>5, <1>5
<1> HIDE DEF fs
<1>10. /\ l \in Nat /\ x \in 1..l /\ l >= 1 /\ es[1].key = NoKey
       /\ \A i \in 1..l : es[i].key \in Nat
  BY <1>2, <1>4, ChildrenFacts DEF x, AreChildren
<1> HIDE DEF l
<1>11. /\ Len(fs) = l + 1
       /\ \A i \in 1..x : fs[i] = es[i]
       /\ fs[x + 1] = e
       /\ \A i \in (x + 1)..l : fs[i + 1] = es[i]
  <2>1. /\ Len(fs) = l + 1
        /\ \A i \in 1..(l + 1) :
              fs[i] = IF i < x + 1 THEN es[i] ELSE IF i = x + 1 THEN e ELSE es[i - 1]
    BY <1>9 DEF Inserted, l
  <2>2. \A i \in 1..x : i \in 1..(l + 1) /\ i < x + 1 BY <1>10
  <2>3. x + 1 \in 1..(l + 1) /\ ~(x + 1 < x + 1) BY <1>10
  <2>4. \A i \in (x + 1)..l : /\ i + 1 \in 1..(l + 1) /\ ~(i + 1 < x + 1)
                              /\ i + 1 # x + 1 /\ (i + 1) - 1 = i
    BY <1>10
  <2> QED BY <2>1, <2>2, <2>3, <2>4
<1>12. AreChildren(fs)
  <2>1. 1 \in 1..x /\ l + 1 >= 1 BY <1>10
  <2> QED BY <2>1, <1>9, <1>10, <1>11 DEF AreChildren, Laid
<1>13. ASSUME NEW key \in Nat
       PROVE  Index(fs, key) = Index(es, key) + IF sep <= key THEN 1 ELSE 0
  <2> DEFINE i == Index(es, key)
             j == i + IF sep <= key THEN 1 ELSE 0
  <2>1. /\ i \in 1..l
        /\ \A n \in 1..l : IF n <= i THEN es[n].key <= key ELSE key < es[n].key
    <3>1. Routes(es, key, i) /\ i \in 1..Len(es) BY <1>2, ChildrenFacts
    <3> HIDE DEF i
    <3> QED BY <3>1 DEF Routes, l
  <2>2. \A n \in 1..l : IF n <= x THEN es[n].key <= sep ELSE sep < es[n].key
    <3>1. Routes(es, sep, x) BY <1>2, <1>4, ChildrenFacts DEF x
    <3> QED BY <3>1 DEF Routes, l
  <2>c. es[x].key < sep
    <3>1. Routes(es, low, x) BY <1>2, ChildrenFacts DEF x
    <3>2. es[x].key <= low BY <3>1, <1>10 DEF Routes, l
    <3> QED BY <3>2, <1>4, <1>10
  <2> HIDE DEF i
  <2>3. IF sep <= key THEN x <= i ELSE i <= x
    <3>1. CASE sep <= key /\ ~(x <= i)
      <4>1. key < es[x].key BY <3>1, <2>1, <1>10
      <4> QED BY <4>1, <3>1, <2>c, <1>4, <1>10
    <3>2. CASE ~(sep <= key) /\ ~(i <= x)
      <4>1. sep < es[i].key /\ es[i].key <= key BY <3>2, <2>1, <2>2, <1>10
      <4> QED BY <4>1, <3>2, <2>1, <1>4, <1>10
    <3> QED BY <3>1, <3>2
  <2>4. ASSUME NEW n \in 1..(l + 1)
        PROVE  IF n <= j THEN fs[n].key <= key ELSE key < fs[n].key
    <3>1. CASE n <= x
      <4>1. n \in 1..x /\ n \in 1..l /\ fs[n] = es[n] BY <3>1, <1>10, <1>11
      <4>2. CASE sep <= key
        <5>1. n <= j /\ n <= i BY <3>1, <2>1, <2>3, <4>2, <1>10
        <5> QED BY <4>1, <5>1, <2>1
      <4>3. CASE ~(sep <= key) BY <4>1, <4>3, <2>1
      <4> QED BY <4>2, <4>3
    <3>2. CASE n = x + 1
      <4>1. fs[n].key = sep BY <3>2, <1>5, <1>11
      <4>2. CASE sep <= key
        <5>1. n <= j BY <3>2, <2>1, <2>3, <4>2, <1>10
        <5> QED BY <4>1, <4>2, <5>1
      <4>3. CASE ~(sep <= key)
        <5>1. ~(n <= j) BY <3>2, <2>1, <2>3, <4>3, <1>10
        <5> QED BY <4>1, <4>3, <5>1, <1>4
      <4> QED BY <4>2, <4>3
    <3>3. CASE n > x + 1
      <4>1. n - 1 \in (x + 1)..l /\ n - 1 \in 1..l /\ (n - 1) + 1 = n BY <3>3, <1>10
      <4>2. fs[n] = es[n - 1] BY <4>1, <1>11
      <4>3. CASE sep <= key
        <5>1. n <= j <=> n - 1 <= i BY <2>1, <4>3
        <5> QED BY <4>1, <4>2, <5>1, <2>1
      <4>4. CASE ~(sep <= key)
        <5>1. ~(n <= j) /\ ~(n - 1 <= i) BY <3>3, <2>1, <2>3, <4>4, <1>10
        <5> QED BY <4>1, <4>2, <5>1, <2>1
      <4> QED BY <4>3, <4>4
    <3> QED BY <3>1, <3>2, <3>3, <1>10
  <2>5. j \in 1..(l + 1) BY <2>1, <1>10
  <2> HIDE DEF j
  <2>6. Routes(fs, key, j) BY <2>4, <2>5, <1>11 DEF Routes
  <2>7. Index(fs, key) = j BY <2>6, <1>12, ChildrenFacts
  <2> QED BY <2>7 DEF i, j
<1>14. Grown(fs, es, x, sep, page, sum)
  <2>1. Len(fs) = Len(es) + 1 /\ \A i \in (x + 1)..Len(es) : fs[i + 1] = es[i]
    BY <1>11 DEF l
  <2> QED BY <2>1, <1>5, <1>11, <1>12, <1>13 DEF Grown
<1>15. fits(b, KeySize[sep]) => IsBranch(new)
  <2> SUFFICES ASSUME fits(b, KeySize[sep]) PROVE IsBranch(new) OBVIOUS
  <2>1. MetadataEnd("branch", l + 1) <= end - KeySize[sep] BY <1>2 DEF fits, l
  <2>2. end - KeySize[sep] \in Int BY <1>2, <1>4
  <2>3. new \in [kind : {"branch"}, entries : Seq(BranchEntries(all)), end : Int]
    BY <2>2, <1>8, <1>9
  <2> QED BY <2>1, <2>3, <1>8, <1>9, <1>11, <1>12 DEF IsBranch
<1> QED BY <1>8, <1>14, <1>15 DEF BranchBuilder, new, x

\* The halves of a branch divide the keys at the key that the right one loses.
LEMMA ChildHalves ==
    ASSUME NEW es, AreChildren(es), Len(es) >= 2
    PROVE  LET m == Len(es) \div 2
               sep == RightHalf(es)[1].key
               left == LeftHalf(es)
               right == WithoutFirstKey(RightHalf(es))
           IN  /\ m \in 1..(Len(es) - 1) /\ sep \in Key
               /\ AreChildren(left) /\ Len(left) = m
               /\ \A i \in 1..m : left[i] = es[i]
               /\ AreChildren(right) /\ Len(right) = Len(es) - m
               /\ \A i \in 1..(Len(es) - m) :
                     right[i].page = es[m + i].page /\ right[i].sum = es[m + i].sum
               /\ \A key \in Nat :
                     IF key < sep THEN Index(es, key) <= m /\ Index(left, key) = Index(es, key)
                     ELSE m < Index(es, key) /\ Index(right, key) = Index(es, key) - m
<1> DEFINE l == Len(es)
           m == l \div 2
           sep == RightHalf(es)[1].key
           left == LeftHalf(es)
           tail == RightHalf(es)
           e == BranchEntry(NoKey, tail[1].page, tail[1].sum, 0)
           right == WithoutFirstKey(tail)
<1>1. PICK sums : es \in Seq(BranchEntries(sums)) BY DEF AreChildren
<1>2. /\ l \in Nat /\ l >= 2 /\ DOMAIN es = 1..l
      /\ \A i \in 1..l : es[i].key \in Nat /\ es[i].page \in Page
      /\ \A i \in 2..l : es[i].key \in Key
      /\ \A i, j \in 1..l : i < j => es[i].key < es[j].key
      /\ \A i \in 1..l : es[i] \in BranchEntries(sums)
      /\ es[1].key = NoKey
  <2>1. \A i \in 1..l : es[i] \in BranchEntries(sums) BY <1>1, LenProperties
  <2>2. es[1].key = NoKey BY DEF AreChildren
  <2> QED BY <2>1, <2>2, ChildrenFacts
<1>3. /\ m \in 1..(l - 1)
      /\ left \in Seq(BranchEntries(sums)) /\ Len(left) = m /\ \A i \in 1..m : left[i] = es[i]
      /\ tail \in Seq(BranchEntries(sums)) /\ Len(tail) = l - m
      /\ \A i \in 1..(l - m) : tail[i] = es[m + i]
  BY <1>1, HalvesFacts
<1>4. DOMAIN left = 1..m /\ DOMAIN tail = 1..(l - m) BY <1>3, LenProperties
<1> HIDE DEF l, m, left, tail
<1>5. 1 \in 1..(l - m) /\ m + 1 \in 2..l /\ m + 1 \in 1..l /\ 1 \in 1..m BY <1>2, <1>3
<1>6. tail[1] = es[m + 1] /\ sep = es[m + 1].key BY <1>3, <1>5 DEF tail
<1>7. sep \in Key /\ sep \in Nat BY <1>2, <1>5, <1>6
<1>8. /\ e \in BranchEntries(sums) /\ e.key = NoKey
      /\ e.page = tail[1].page /\ e.sum = tail[1].sum
  <2>1. tail[1] \in BranchEntries(sums) BY <1>2, <1>5, <1>6
  <2>2. tail[1].page \in Page /\ tail[1].sum \in sums BY <2>1 DEF BranchEntries
  <2>3. PICK page \in Page, sum \in sums : page = tail[1].page /\ sum = tail[1].sum BY <2>2
  <2>4. 0 \in Int /\ NoKey \in Key \cup {NoKey} OBVIOUS
  <2>5. /\ BranchEntry(NoKey, page, sum, 0) \in BranchEntries(sums)
        /\ BranchEntry(NoKey, page, sum, 0).key = NoKey
        /\ BranchEntry(NoKey, page, sum, 0).page = page
        /\ BranchEntry(NoKey, page, sum, 0).sum = sum
    BY <2>4, BranchEntryType
  <2> QED BY <2>3, <2>5
<1>9. right = [tail EXCEPT ![1] = e] BY DEF WithoutFirstKey
<1> HIDE DEF e, right
<1>10. right \in Seq(BranchEntries(sums)) /\ Len(right) = l - m /\ DOMAIN right = 1..(l - m)
  <2>1. 1 \in 1..Len(tail) BY <1>3, <1>5
  <2>2. right \in Seq(BranchEntries(sums)) /\ Len(right) = Len(tail)
    BY <2>1, <1>3, <1>8, <1>9, ExceptSeq
  <2> QED BY <2>2, <1>3, LenProperties
<1>11. right[1] = e /\ \A i \in 2..(l - m) : right[i] = es[m + i] /\ i # 1
  <2>1. right[1] = e BY <1>4, <1>5, <1>9
  <2>2. \A i \in 2..(l - m) : i \in 1..(l - m) /\ i # 1 BY <1>2, <1>3
  <2>3. \A i \in 1..(l - m) : i # 1 => right[i] = tail[i] BY <1>4, <1>9
  <2> QED BY <2>1, <2>2, <2>3, <1>3
<1>12. AreChildren(left)
  <2>1. Ordered(left)
    <3> SUFFICES ASSUME NEW i \in 1..m, NEW j \in 1..m, i < j PROVE left[i].key < left[j].key
      BY <1>4 DEF Ordered
    <3>1. i \in 1..l /\ j \in 1..l BY <1>2, <1>3
    <3> QED BY <3>1, <1>2, <1>3
  <2>2. left[1].key = NoKey BY <1>2, <1>3, <1>5
  <2> QED BY <2>1, <2>2, <1>3 DEF AreChildren
<1>13. \A i \in 2..(l - m) : /\ m + i \in 1..l /\ sep < es[m + i].key /\ es[m + i].key \in Nat
                             /\ right[i].key = es[m + i].key
  <2> SUFFICES ASSUME NEW i \in 2..(l - m)
               PROVE  /\ m + i \in 1..l /\ sep < es[m + i].key /\ es[m + i].key \in Nat
                      /\ right[i].key = es[m + i].key
    OBVIOUS
  <2>1. m + i \in 1..l /\ m + 1 < m + i BY <1>2, <1>3
  <2> QED BY <2>1, <1>2, <1>5, <1>6, <1>11
<1>14. AreChildren(right)
  <2>1. Ordered(right)
    <3> SUFFICES ASSUME NEW i \in 1..(l - m), NEW j \in 1..(l - m), i < j
                 PROVE  right[i].key < right[j].key
      BY <1>10 DEF Ordered
    <3>1. j \in 2..(l - m) BY <1>2, <1>3
    <3>2. CASE i = 1
      <4>1. right[i].key = 0 /\ right[j].key > 0
        BY <3>1, <3>2, <1>7, <1>8, <1>11, <1>13 DEF NoKey
      <4> QED BY <4>1, <3>1, <1>13
    <3>3. CASE i # 1
      <4>1. i \in 2..(l - m) BY <3>3, <1>2, <1>3
      <4>2. m + i < m + j BY <1>2, <1>3
      <4> QED BY <4>1, <4>2, <3>1, <1>2, <1>13
    <3> QED BY <3>2, <3>3
  <2>2. right[1].key = NoKey /\ l - m >= 1 BY <1>2, <1>3, <1>8, <1>11
  <2> QED BY <2>1, <2>2, <1>10 DEF AreChildren
<1>15. \A i \in 1..(l - m) : right[i].page = es[m + i].page /\ right[i].sum = es[m + i].sum
  <2> SUFFICES ASSUME NEW i \in 1..(l - m)
               PROVE  right[i].page = es[m + i].page /\ right[i].sum = es[m + i].sum
    OBVIOUS
  <2>1. CASE i = 1 BY <2>1, <1>6, <1>8, <1>11
  <2>2. CASE i # 1
    <3>1. i \in 2..(l - m) BY <2>2, <1>2, <1>3
    <3> QED BY <3>1, <1>11
  <2> QED BY <2>1, <2>2
<1>16. ASSUME NEW key \in Nat
       PROVE  IF key < sep THEN Index(es, key) <= m /\ Index(left, key) = Index(es, key)
              ELSE m < Index(es, key) /\ Index(right, key) = Index(es, key) - m
  <2> DEFINE x == Index(es, key)
  <2>1. /\ x \in 1..l
        /\ \A n \in 1..l : IF n <= x THEN es[n].key <= key ELSE key < es[n].key
    <3>1. Routes(es, key, x) /\ x \in 1..Len(es) BY ChildrenFacts
    <3> HIDE DEF x
    <3> QED BY <3>1 DEF Routes, l
  <2> HIDE DEF x
  <2>2. CASE key < sep
    <3>1. x <= m
      <4> SUFFICES ASSUME ~(x <= m) PROVE FALSE OBVIOUS
      <4>1. m + 1 <= x BY <2>1, <1>2, <1>3
      <4>2. sep <= key BY <4>1, <2>1, <1>5, <1>6
      <4> QED BY <4>2, <2>2, <1>7
    <3>2. Routes(left, key, x)
      <4>1. x \in 1..m /\ \A n \in 1..m : n \in 1..l BY <3>1, <2>1, <1>2, <1>3
      <4> QED BY <4>1, <2>1, <1>3 DEF Routes
    <3>3. Index(left, key) = x BY <3>2, <1>12, ChildrenFacts
    <3> QED BY <2>2, <3>1, <3>3 DEF x
  <2>3. CASE ~(key < sep)
    <3>1. m < x
      <4> SUFFICES ASSUME ~(m < x) PROVE FALSE OBVIOUS
      <4>1. ~(m + 1 <= x) BY <2>1, <1>2, <1>3
      <4>2. key < sep BY <4>1, <2>1, <1>5, <1>6
      <4> QED BY <4>2, <2>3
    <3>2. Routes(right, key, x - m)
      <4>1. x - m \in 1..(l - m) BY <3>1, <2>1, <1>2, <1>3
      <4>2. ASSUME NEW n \in 1..(l - m)
            PROVE  IF n <= x - m THEN right[n].key <= key ELSE key < right[n].key
        <5>1. CASE n = 1
          <6>1. right[n].key = 0 /\ n <= x - m BY <5>1, <4>1, <1>2, <1>3, <1>8, <1>11 DEF NoKey
          <6> QED BY <6>1
        <5>2. CASE n # 1
          <6>1. n \in 2..(l - m) /\ (n <= x - m <=> m + n <= x) BY <5>2, <2>1, <1>2, <1>3
          <6> QED BY <6>1, <2>1, <1>13
        <5> QED BY <5>1, <5>2
      <4> QED BY <4>1, <4>2, <1>10 DEF Routes
    <3>3. Index(right, key) = x - m BY <3>2, <1>14, ChildrenFacts
    <3> QED BY <2>3, <3>1, <3>3 DEF x
  <2> QED BY <2>2, <2>3
<1>17. \A i \in 1..m : left[i] = es[i] BY <1>3
<1>18. Len(left) = m /\ Len(right) = Len(es) - m BY <1>3, <1>10 DEF l
<1> QED BY <1>3, <1>7, <1>12, <1>14, <1>15, <1>16, <1>17, <1>18 DEF l, m, left, right, tail, sep

\* A branch that is built has the children it is built of.
LEMMA BranchBuilt ==
    ASSUME NEW es, AreChildren(es), BuildFits("branch", es)
    PROVE  LET new == build_entries_at_buf("branch", es)
           IN  /\ IsBranch(new) /\ Len(new.entries) = Len(es)
               /\ \A i \in 1..Len(es) : new.entries[i].page = es[i].page
                                        /\ new.entries[i].sum = es[i].sum
               /\ \A key \in Nat : Index(new.entries, key) = Index(es, key)
<1> DEFINE new == build_entries_at_buf("branch", es)
           fs == new.entries
           l == Len(es)
<1>1. PICK sums : es \in Seq(BranchEntries(sums)) BY DEF AreChildren
<1>2. l \in Nat /\ DOMAIN es = 1..l /\ l >= 1 /\ Ordered(es) /\ es[1].key = NoKey
      /\ \A i \in 1..l : es[i] \in BranchEntries(sums)
  BY <1>1, LenProperties DEF AreChildren
<1>3. /\ fs \in Seq(BranchEntries(sums)) /\ Len(fs) = l
      /\ \A i \in 1..l : fs[i] = Moved(es[i], BuiltOffset(es, i))
      /\ new.end = BuiltOffset(es, l) /\ Laid(fs, new.end)
  <2>1. IsEntrySet(BranchEntries(sums)) /\ Movable(BranchEntries(sums))
    BY EntrySets, MovableSets
  <2> QED BY <2>1, <1>1, <1>2, EntriesBuilt
<1>4. new = [kind |-> "branch", entries |-> fs, end |-> new.end]
  BY DEF build_entries_at_buf
<1>5. \A j \in 0..l : BuiltOffset(es, j) \in Int
  BY <1>1, EntrySets, BuiltFacts
<1> HIDE DEF l, new
<1>6. \A i \in 1..l : /\ fs[i].key = es[i].key
                      /\ fs[i].page = es[i].page /\ fs[i].sum = es[i].sum
  <2> SUFFICES ASSUME NEW i \in 1..l
               PROVE  /\ fs[i].key = es[i].key
                      /\ fs[i].page = es[i].page /\ fs[i].sum = es[i].sum
    OBVIOUS
  <2>1. i \in 0..l /\ BuiltOffset(es, i) \in Int BY <1>2, <1>5
  <2>2. PICK o \in Int : o = BuiltOffset(es, i) BY <2>1
  <2>3. es[i] \in BranchEntries(sums) BY <1>2
  <2>4. /\ Moved(es[i], o).key = es[i].key /\ Moved(es[i], o).page = es[i].page
        /\ Moved(es[i], o).sum = es[i].sum
    BY <2>3, MovableSets DEF Movable
  <2> QED BY <2>2, <2>4, <1>3
<1>7. 1 \in 1..l /\ l \in 1..l BY <1>2
<1>8. AreChildren(fs) BY <1>2, <1>3, <1>6, <1>7 DEF AreChildren, Laid
<1>9. MetadataEnd("branch", l) <= new.end BY <1>2, <1>3, <1>7 DEF BuildFits
<1>10. IsBranch(new)
  <2>1. new.end \in Int BY <1>3 DEF Laid
  <2>2. new \in [kind : {"branch"}, entries : Seq(BranchEntries(sums)), end : Int]
    BY <2>1, <1>3, <1>4
  <2> QED BY <2>2, <1>3, <1>8, <1>9 DEF IsBranch
<1>11. \A key \in Nat : Index(fs, key) = Index(es, key)
  <2>1. Len(fs) = Len(es) /\ \A i \in 1..Len(es) : fs[i].key = es[i].key
    BY <1>3, <1>6 DEF l
  <2> HIDE DEF fs
  <2> QED BY <2>1, <1>8, SameRoutes
<1> QED BY <1>3, <1>6, <1>10, <1>11 DEF l, new

\* The entries of a new root.
LEMMA RootFacts ==
    ASSUME NEW left \in Page, NEW left_sum, NEW sep \in Key, NEW right \in Page, NEW right_sum
    PROVE  LET es == new_root(left, left_sum, sep, right, right_sum)
           IN  /\ AreChildren(es) /\ Len(es) = 2
               /\ es[1].page = left /\ es[1].sum = left_sum
               /\ es[2].page = right /\ es[2].sum = right_sum
               /\ \A key \in Nat : Index(es, key) = IF sep <= key THEN 2 ELSE 1
<1> DEFINE sums == {left_sum, right_sum}
           e == BranchEntry(NoKey, left, left_sum, 0)
           f == BranchEntry(sep, right, right_sum, 0)
           es == <<e, f>>
<1>1. new_root(left, left_sum, sep, right, right_sum) = es BY DEF new_root
<1>2. /\ e \in BranchEntries(sums) /\ e.key = NoKey /\ e.page = left /\ e.sum = left_sum
      /\ f \in BranchEntries(sums) /\ f.key = sep /\ f.page = right /\ f.sum = right_sum
  <2>1. 0 \in Int /\ left_sum \in sums /\ right_sum \in sums
        /\ NoKey \in Key \cup {NoKey} /\ sep \in Key \cup {NoKey}
    OBVIOUS
  <2> HIDE DEF sums
  <2> QED BY <2>1, BranchEntryType
<1> HIDE DEF e, f, sums
<1>3. es \in Seq(BranchEntries(sums)) /\ Len(es) = 2 /\ es[1] = e /\ es[2] = f
      /\ DOMAIN es = 1..2
  BY <1>2
<1> HIDE DEF es
<1>4. sep \in Nat /\ 0 < sep BY KeyAssumption
<1>5. Ordered(es)
  <2> SUFFICES ASSUME NEW i \in 1..2, NEW j \in 1..2, i < j PROVE es[i].key < es[j].key
    BY <1>3 DEF Ordered
  <2>1. i = 1 /\ j = 2 OBVIOUS
  <2> QED BY <2>1, <1>2, <1>3, <1>4 DEF NoKey
<1>6. AreChildren(es) BY <1>2, <1>3, <1>5 DEF AreChildren
<1>7. ASSUME NEW key \in Nat PROVE Index(es, key) = IF sep <= key THEN 2 ELSE 1
  <2> DEFINE x == IF sep <= key THEN 2 ELSE 1
  <2>1. Routes(es, key, x)
    <3>1. ASSUME NEW i \in 1..2 PROVE IF i <= x THEN es[i].key <= key ELSE key < es[i].key
      <4>1. CASE i = 1 BY <4>1, <1>2, <1>3, <1>4 DEF NoKey
      <4>2. CASE i = 2 BY <4>2, <1>2, <1>3, <1>4
      <4> QED BY <4>1, <4>2
    <3>2. x \in 1..2 OBVIOUS
    <3> HIDE DEF x
    <3> QED BY <3>1, <3>2, <1>3 DEF Routes
  <2> HIDE DEF x
  <2>2. Index(es, key) = x BY <2>1, <1>6, ChildrenFacts
  <2> QED BY <2>2 DEF x
<1> QED BY <1>1, <1>2, <1>3, <1>6, <1>7

\* A larger key belongs to the same child or to a later one.
LEMMA IndexGrows ==
    ASSUME NEW es, AreChildren(es), NEW j \in Nat, NEW k \in Nat, j <= k
    PROVE  Index(es, j) <= Index(es, k)
<1> DEFINE x == Index(es, j)
           y == Index(es, k)
<1>1. /\ Len(es) \in Nat /\ x \in 1..Len(es) /\ y \in 1..Len(es)
      /\ Routes(es, j, x) /\ Routes(es, k, y)
      /\ \A i \in 1..Len(es) : es[i].key \in Nat
  BY ChildrenFacts
<1> HIDE DEF x, y
<1>2. es[x].key <= j /\ \A i \in 1..Len(es) : ~(i <= y) => k < es[i].key
  BY <1>1 DEF Routes
<1>3. SUFFICES ASSUME ~(x <= y) PROVE FALSE BY DEF x, y
<1>4. k < es[x].key BY <1>1, <1>2, <1>3
<1> QED BY <1>1, <1>2, <1>4

-----------------------------------------------------------------------------
(* A tree under construction, level by level from the leaves: path[r][k] is the *)
(* page that the search for the number k comes to on level r.  Every number has *)
(* a path, whether it is a key or not.  An insert of a key is under way on the  *)
(* levels from low on: there the child for the key may be another already than  *)
(* the branch says.                                                             *)

IndexIn(see, path, r, k) == Index(see[path[r][k]].entries, k)

\* The search for k goes to the same child as that for key.
Beside(see, path, r, k, key) ==
    /\ path[r][k] = path[r][key]
    /\ IndexIn(see, path, r, k) = IndexIn(see, path, r, key)

\* The branch on the path of k has the next page of the path, with its checksum.
Leads(see, path, r, k) ==
    LET e == see[path[r][k]].entries[IndexIn(see, path, r, k)]
    IN  e.page = path[r - 1][k] /\ e.sum = see[path[r - 1][k]]

LeafLevel(see, path) ==
    \A k \in Nat :
        /\ path[1][k] \in DOMAIN see
        /\ IsLeaf(see[path[1][k]])
        /\ \A q \in Pairs(see[path[1][k]].entries) : path[1][q[1]] = path[1][k]

BranchLevel(see, path, r, low, key) ==
    /\ \A k \in Nat : path[r][k] \in DOMAIN see /\ IsBranch(see[path[r][k]])
    /\ \A j, k \in Nat : path[r - 1][j] = path[r - 1][k] => Beside(see, path, r, j, k)
    /\ \A k \in Nat : \A x \in 1..Len(see[path[r][k]].entries) :
          \E j \in Nat : path[r][j] = path[r][k] /\ IndexIn(see, path, r, j) = x
    /\ \A k \in Nat : r < low \/ ~Beside(see, path, r, k, key) => Leads(see, path, r, k)

Level(see, path, r, low, key) ==
    IF r = 1 THEN LeafLevel(see, path) ELSE BranchLevel(see, path, r, low, key)

IsPath(path, h) == h \in Nat \ {0} /\ path \in [1..h -> [Nat -> Page]]

Tree(see, path, h, low, key) ==
    /\ IsPath(path, h)
    /\ \A r, s \in 1..h : \A j, k \in Nat : path[r][j] = path[s][k] => r = s
    /\ \A r \in 1..h : Level(see, path, r, low, key)

TreeOf(path, h) == {path[a[1]][a[2]] : a \in (1..h) \X Nat}

\* The pages of a tree are those on its paths.
LEMMA TreeOfFacts ==
    ASSUME NEW path, NEW h
    PROVE  /\ \A r \in 1..h : \A k \in Nat : path[r][k] \in TreeOf(path, h)
           /\ \A t \in TreeOf(path, h) : \E r \in 1..h : \E k \in Nat : t = path[r][k]
<1>1. ASSUME NEW r \in 1..h, NEW k \in Nat PROVE path[r][k] \in TreeOf(path, h)
  <2>1. <<r, k>> \in (1..h) \X Nat OBVIOUS
  <2>2. path[<<r, k>>[1]][<<r, k>>[2]] \in TreeOf(path, h) BY <2>1 DEF TreeOf
  <2> QED BY <2>2
<1>2. ASSUME NEW t \in TreeOf(path, h)
      PROVE  \E r \in 1..h : \E k \in Nat : t = path[r][k]
  <2>1. PICK a \in (1..h) \X Nat : t = path[a[1]][a[2]] BY DEF TreeOf
  <2>2. a[1] \in 1..h /\ a[2] \in Nat BY <2>1
  <2> QED BY <2>1, <2>2
<1> QED BY <1>1, <1>2

\* No insert is under way above the root, whatever its key.
LEMMA TreeAtRest ==
    ASSUME NEW see, NEW path, NEW h, NEW key, NEW low, NEW other, NEW last,
           Tree(see, path, h, low, key), low \in Nat, last \in Nat, last <= low,
           last > h \/ other = key
    PROVE  Tree(see, path, h, last, other)
<1>1. h \in Nat /\ IsPath(path, h) BY DEF Tree, IsPath
<1>2. ASSUME NEW r \in 1..h PROVE Level(see, path, r, last, other)
  <2>1. Level(see, path, r, low, key) BY DEF Tree
  <2>2. CASE r = 1 BY <2>1, <2>2 DEF Level
  <2>3. CASE r # 1
    <3>1. BranchLevel(see, path, r, low, key) BY <2>1, <2>3 DEF Level
    <3>2. r < last => r < low BY <1>1
    <3>3. r < last \/ other = key BY <1>1
    <3>4. BranchLevel(see, path, r, last, other) BY <3>1, <3>2, <3>3 DEF BranchLevel
    <3> QED BY <3>4, <2>3 DEF Level
  <2> QED BY <2>2, <2>3
<1> QED BY <1>2 DEF Tree

\* A step that changes the pages of one level on the path of the key.
Changed(see, path, h, level, key, see2, path2) ==
    /\ IsPath(path2, h)
    /\ \A r \in 1..h : r # level => path2[r] = path[r]
    /\ \A k \in Nat : path[level][k] # path[level][key] => path2[level][k] = path[level][k]
    /\ \A k \in Nat : path[level][k] = path[level][key] =>
          path2[level][k] = path[level][key] \/ path2[level][k] \notin TreeOf(path, h)
    /\ \A t \in TreeOf(path, h) : t # path[level][key] => t \in DOMAIN see2 /\ see2[t] = see[t]

\* A change on one level leaves the others as they were.
LEMMA LevelsAround ==
    ASSUME NEW see, NEW path, NEW h, NEW low, NEW key \in Nat, NEW level \in 1..h,
           Tree(see, path, h, low, key), low \in Nat, low >= level,
           NEW see2, NEW path2, Changed(see, path, h, level, key, see2, path2),
           NEW last, last \in {level, level + 1}, Level(see2, path2, level, last, key)
    PROVE  Tree(see2, path2, h, last, key)
<1> DEFINE p == path[level][key]
<1>1. /\ h \in Nat \ {0} /\ level \in Nat /\ IsPath(path, h) /\ IsPath(path2, h)
      /\ \A r, s \in 1..h : \A j, k \in Nat : path[r][j] = path[s][k] => r = s
      /\ \A r \in 1..h : Level(see, path, r, low, key)
  BY DEF Tree, IsPath, Changed
<1>2. /\ \A r \in 1..h : r # level => path2[r] = path[r]
      /\ \A k \in Nat : path[level][k] # p => path2[level][k] = path[level][k]
      /\ \A k \in Nat : path[level][k] = p =>
            path2[level][k] = p \/ path2[level][k] \notin TreeOf(path, h)
      /\ \A t \in TreeOf(path, h) : t # p => t \in DOMAIN see2 /\ see2[t] = see[t]
  BY DEF Changed
<1>3. \A r \in 1..h : \A k \in Nat :
         /\ path[r][k] \in TreeOf(path, h)
         /\ r # level => /\ path[r][k] # p
                         /\ path[r][k] \in DOMAIN see2 /\ see2[path[r][k]] = see[path[r][k]]
  BY <1>1, <1>2, TreeOfFacts
<1> HIDE DEF p
<1>4. \A r, s \in 1..h : \A j, k \in Nat : path2[r][j] = path2[s][k] => r = s
  <2> SUFFICES ASSUME NEW r \in 1..h, NEW s \in 1..h, NEW j \in Nat, NEW k \in Nat,
                      path2[r][j] = path2[s][k], r # s
               PROVE  FALSE
    OBVIOUS
  <2>1. ASSUME NEW i \in Nat PROVE path2[level][i] = path[level][i]
                                   \/ path2[level][i] \notin TreeOf(path, h)
    BY <1>2
  <2>2. CASE r = level
    <3>1. path2[s][k] = path[s][k] /\ path[s][k] \in TreeOf(path, h) BY <2>2, <1>2, <1>3
    <3>2. path[r][j] = path[s][k] BY <3>1, <2>1, <2>2
    <3> QED BY <3>2, <1>1
  <2>3. CASE s = level
    <3>1. path2[r][j] = path[r][j] /\ path[r][j] \in TreeOf(path, h) BY <2>3, <1>2, <1>3
    <3>2. path[r][j] = path[s][k] BY <3>1, <2>1, <2>3
    <3> QED BY <3>2, <1>1
  <2>4. CASE r # level /\ s # level
    <3>1. path[r][j] = path[s][k] BY <2>4, <1>2
    <3> QED BY <3>1, <1>1
  <2> QED BY <2>2, <2>3, <2>4
<1>5. \A j, k \in Nat : path2[level][j] = path2[level][k] => path[level][j] = path[level][k]
  BY <1>2, <1>3
<1>6. ASSUME NEW r \in 1..h, r # level PROVE Level(see2, path2, r, last, key)
  <2>1. Level(see, path, r, low, key) BY <1>1
  <2>2. path2[r] = path[r] /\ \A k \in Nat : /\ path[r][k] \in DOMAIN see2
                                             /\ see2[path[r][k]] = see[path[r][k]]
    BY <1>2, <1>3, <1>6
  <2>3. CASE r = 1
    <3>1. LeafLevel(see, path) BY <2>1, <2>3 DEF Level
    <3>2. LeafLevel(see2, path2) BY <3>1, <2>2, <2>3 DEF LeafLevel
    <3> QED BY <3>2, <2>3 DEF Level
  <2>4. CASE r # 1
    <3>1. BranchLevel(see, path, r, low, key) BY <2>1, <2>4 DEF Level
    <3>2. r - 1 \in 1..h BY <1>1, <2>4
    <3>3. \A k \in Nat : IndexIn(see2, path2, r, k) = IndexIn(see, path, r, k)
      BY <2>2 DEF IndexIn
    <3>4. \A j, k \in Nat : Beside(see2, path2, r, j, k) <=> Beside(see, path, r, j, k)
      BY <2>2, <3>3 DEF Beside
    <3>5. \A j, k \in Nat : path2[r - 1][j] = path2[r - 1][k] => path[r - 1][j] = path[r - 1][k]
      BY <1>2, <1>5, <3>2
    <3>6. ASSUME NEW k \in Nat, r < last \/ ~Beside(see2, path2, r, k, key)
          PROVE  Leads(see2, path2, r, k)
      <4>1. ~Beside(see, path, r, k, key) \/ r < level
        BY <3>4, <3>6, <1>1, <1>6
      <4>2. r < low \/ ~Beside(see, path, r, k, key) BY <4>1, <1>1
      <4>3. Leads(see, path, r, k) BY <3>1, <4>2 DEF BranchLevel
      <4>4. path2[r - 1][k] = path[r - 1][k]
            /\ see2[path[r - 1][k]] = see[path[r - 1][k]]
        <5>1. CASE r - 1 # level BY <5>1, <1>2, <1>3, <3>2
        <5>2. CASE r - 1 = level
          <6>1. ~Beside(see, path, r, k, key) BY <5>2, <4>1, <1>1
          <6>2. path[r - 1][k] # path[r - 1][key] BY <3>1, <6>1 DEF BranchLevel
          <6>3. path[level][k] # p BY <6>2, <5>2 DEF p
          <6> QED BY <5>2, <6>3, <1>2, <1>3, <3>2
        <5> QED BY <5>1, <5>2
      <4> QED BY <4>3, <4>4, <2>2, <3>3 DEF Leads
    <3>7. \A k \in Nat : path2[r][k] \in DOMAIN see2 /\ IsBranch(see2[path2[r][k]])
      BY <2>2, <3>1 DEF BranchLevel
    <3>8. \A k \in Nat : \A x \in 1..Len(see2[path2[r][k]].entries) :
             \E j \in Nat : path2[r][j] = path2[r][k] /\ IndexIn(see2, path2, r, j) = x
      BY <2>2, <3>1, <3>3 DEF BranchLevel
    <3>9. \A j, k \in Nat : path2[r - 1][j] = path2[r - 1][k] => Beside(see2, path2, r, j, k)
      BY <3>1, <3>4, <3>5 DEF BranchLevel
    <3>10. BranchLevel(see2, path2, r, last, key)
      BY <3>6, <3>7, <3>8, <3>9 DEF BranchLevel
    <3> QED BY <3>10, <2>4 DEF Level
  <2> QED BY <2>3, <2>4
<1>7. \A r \in 1..h : Level(see2, path2, r, last, key) BY <1>6
<1> QED BY <1>1, <1>4, <1>7 DEF Tree

\* The numbers from sep on that came to the page p go to q.
Parted(path, level, p, sep, q) ==
    [path EXCEPT ![level] =
        [k \in Nat |-> IF path[level][k] = p /\ sep <= k THEN q ELSE path[level][k]]]

IsParted(path2, path, h, level, p, sep, q) ==
    /\ IsPath(path2, h)
    /\ \A r \in 1..h : r # level => path2[r] = path[r]
    /\ \A k \in Nat :
          path2[level][k] = IF path[level][k] = p /\ sep <= k THEN q ELSE path[level][k]

\* A path on which one page is parted into two at a separator.
LEMMA PartedPath ==
    ASSUME NEW path, NEW h, IsPath(path, h), NEW level \in 1..h, NEW p, NEW sep \in Nat,
           NEW q \in Page
    PROVE  IsParted(Parted(path, level, p, sep, q), path, h, level, p, sep, q)
<1> DEFINE path2 == Parted(path, level, p, sep, q)
<1>1. h \in Nat \ {0} /\ path \in [1..h -> [Nat -> Page]] BY DEF IsPath
<1> DEFINE f == [k \in Nat |-> IF path[level][k] = p /\ sep <= k THEN q ELSE path[level][k]]
<1>2. path2 = [path EXCEPT ![level] = f] BY DEF Parted
<1>3. f \in [Nat -> Page]
  <2>1. \A k \in Nat : path[level][k] \in Page BY <1>1
  <2> QED BY <2>1
<1>4. \A k \in Nat : f[k] = IF path[level][k] = p /\ sep <= k THEN q ELSE path[level][k]
  OBVIOUS
<1> HIDE DEF f
<1>5. path2 \in [1..h -> [Nat -> Page]] /\ path2[level] = f BY <1>1, <1>2, <1>3
<1>6. \A r \in 1..h : r # level => path2[r] = path[r] BY <1>1, <1>2
<1> HIDE DEF path2
<1>7. IsParted(path2, path, h, level, p, sep, q)
  BY <1>1, <1>4, <1>5, <1>6 DEF IsPath, IsParted
<1> QED BY <1>7 DEF path2

\* The pages of the tree, when all numbers go to the new page or some.
LEMMA PartedTree ==
    ASSUME NEW path, NEW h, IsPath(path, h), NEW level \in 1..h, NEW p, NEW sep \in Nat,
           NEW q \in Page, NEW path2, IsParted(path2, path, h, level, p, sep, q),
           NEW high \in Nat, path[level][high] = p, sep <= high,
           \A r \in 1..h : \A k \in Nat : path[r][k] = p => r = level
    PROVE  /\ (\E low \in Nat : path[level][low] = p /\ low < sep) =>
                 TreeOf(path2, h) = TreeOf(path, h) \cup {q}
           /\ sep = 0 => TreeOf(path2, h) = (TreeOf(path, h) \ {p}) \cup {q}
<1> DEFINE T == TreeOf(path, h)
           U == TreeOf(path2, h)
<1>1. /\ \A r \in 1..h : r # level => path2[r] = path[r]
      /\ \A k \in Nat :
            path2[level][k] = IF path[level][k] = p /\ sep <= k THEN q ELSE path[level][k]
  BY DEF IsParted
<1>2. /\ \A r \in 1..h : \A k \in Nat : path[r][k] \in T /\ path2[r][k] \in U
      /\ \A t \in T : \E r \in 1..h : \E k \in Nat : t = path[r][k]
      /\ \A t \in U : \E r \in 1..h : \E k \in Nat : t = path2[r][k]
  BY TreeOfFacts
<1> HIDE DEF T, U
<1>3. q \in U /\ p \in T BY <1>1, <1>2
<1>4. ASSUME NEW t \in U PROVE t = q \/ (t \in T /\ (sep = 0 => t # p))
  <2>1. PICK r \in 1..h, k \in Nat : t = path2[r][k] BY <1>2
  <2>2. CASE r = level
    <3>1. t = IF path[level][k] = p /\ sep <= k THEN q ELSE path[level][k] BY <2>1, <2>2, <1>1
    <3>2. path[level][k] \in T BY <1>2
    <3>3. sep = 0 => sep <= k OBVIOUS
    <3> QED BY <3>1, <3>2, <3>3
  <2>3. CASE r # level BY <2>1, <2>3, <1>1, <1>2
  <2> QED BY <2>2, <2>3
<1>5. ASSUME NEW t \in T, t # p PROVE t \in U
  <2>1. PICK r \in 1..h, k \in Nat : t = path[r][k] BY <1>2
  <2>2. t = path2[r][k] BY <2>1, <1>1, <1>5
  <2> QED BY <2>2, <1>2
<1>6. ASSUME NEW low \in Nat, path[level][low] = p, low < sep PROVE U = T \cup {q}
  <2>1. path2[level][low] = p BY <1>1, <1>6
  <2>2. p \in U BY <2>1, <1>2
  <2> QED BY <2>2, <1>3, <1>4, <1>5
<1>7. sep = 0 => U = (T \ {p}) \cup {q} BY <1>3, <1>4, <1>5
<1> QED BY <1>6, <1>7 DEF T, U

\* What the leaves hold.
Holds(see, path, map) == \A k \in Key : get_value(see[path[1][k]], k) = map[k]

\* What a tree has: pages on every level, none on two levels, leaves on the lowest.
LEMMA TreeFacts ==
    ASSUME NEW see, NEW path, NEW h, NEW low, NEW key, Tree(see, path, h, low, key)
    PROVE  /\ h \in Nat \ {0} /\ IsPath(path, h) /\ 1 \in 1..h
           /\ \A r \in 1..h : \A k \in Nat : path[r][k] \in Page /\ path[r][k] \in DOMAIN see
           /\ \A r, s \in 1..h : \A j, k \in Nat : path[r][j] = path[s][k] => r = s
           /\ LeafLevel(see, path)
           /\ \A r \in 2..h : r \in 1..h /\ r - 1 \in 1..h /\ BranchLevel(see, path, r, low, key)
<1>1. /\ h \in Nat \ {0} /\ IsPath(path, h) /\ 1 \in 1..h
      /\ \A r, s \in 1..h : \A j, k \in Nat : path[r][j] = path[s][k] => r = s
      /\ \A r \in 1..h : Level(see, path, r, low, key)
      /\ \A r \in 1..h : \A k \in Nat : path[r][k] \in Page
  BY DEF Tree, IsPath
<1>2. LeafLevel(see, path) BY <1>1 DEF Level
<1>3. \A r \in 2..h : r \in 1..h /\ r - 1 \in 1..h /\ r # 1 BY <1>1
<1>4. \A r \in 2..h : BranchLevel(see, path, r, low, key) BY <1>1, <1>3 DEF Level
<1>5. \A r \in 1..h : r = 1 \/ r \in 2..h BY <1>1
<1>6. \A r \in 1..h : \A k \in Nat : path[r][k] \in DOMAIN see
  BY <1>2, <1>4, <1>5 DEF LeafLevel, BranchLevel
<1> QED BY <1>1, <1>2, <1>3, <1>4, <1>6

\* A page is copied: cow_page.
LEMMA PageCopied ==
    ASSUME NEW see, NEW path, NEW h, NEW low, NEW key \in Nat, NEW level \in 1..h,
           Tree(see, path, h, low, key), low = level + 1,
           NEW q \in Page, q \notin TreeOf(path, h), NEW see2, q \in DOMAIN see2,
           see2[q] = see[path[level][key]],
           \A t \in TreeOf(path, h) : t # path[level][key] =>
              t \in DOMAIN see2 /\ see2[t] = see[t],
           NEW path2, IsParted(path2, path, h, level, path[level][key], 0, q)
    PROVE  /\ Tree(see2, path2, h, level, key)
           /\ \A map : Holds(see, path, map) => Holds(see2, path2, map)
           /\ \A r \in 1..h : \A k \in Nat : see2[path2[r][k]] = see[path[r][k]]
<1> DEFINE p == path[level][key]
<1>1. /\ h \in Nat \ {0} /\ IsPath(path, h)
      /\ \A r, s \in 1..h : \A j, k \in Nat : path[r][j] = path[s][k] => r = s
      /\ LeafLevel(see, path)
      /\ \A r \in 2..h : r \in 1..h /\ r - 1 \in 1..h /\ BranchLevel(see, path, r, low, key)
  BY TreeFacts
<1>2. /\ IsPath(path2, h)
      /\ \A r \in 1..h : r # level => path2[r] = path[r]
      /\ \A k \in Nat :
            path2[level][k] = IF path[level][k] = p THEN q ELSE path[level][k]
  <2>1. \A k \in Nat : 0 <= k OBVIOUS
  <2> QED BY <2>1 DEF IsParted
<1>3. \A r \in 1..h : \A k \in Nat : path[r][k] \in TreeOf(path, h) BY TreeOfFacts
<1>4. ASSUME NEW r \in 1..h, NEW k \in Nat
      PROVE  /\ path2[r][k] \in DOMAIN see2 /\ see2[path2[r][k]] = see[path[r][k]]
             /\ r # level => path2[r][k] = path[r][k]
  <2>1. CASE r = level BY <2>1, <1>2, <1>3
  <2>2. CASE r # level
    <3>1. path[r][k] # p BY <2>2, <1>1
    <3> QED BY <3>1, <2>2, <1>2, <1>3
  <2> QED BY <2>1, <2>2
<1>5. \A j, k \in Nat : path2[level][j] = path2[level][k] <=> path[level][j] = path[level][k]
  BY <1>2, <1>3
<1>6. Changed(see, path, h, level, key, see2, path2) BY <1>2 DEF Changed
<1>7. Level(see2, path2, level, level, key)
  <2>1. CASE level = 1
    <3>1. LeafLevel(see2, path2)
      <4> SUFFICES ASSUME NEW k \in Nat
                   PROVE  /\ path2[1][k] \in DOMAIN see2
                          /\ IsLeaf(see2[path2[1][k]])
                          /\ \A x \in Pairs(see2[path2[1][k]].entries) :
                                path2[1][x[1]] = path2[1][k]
        BY DEF LeafLevel
      <4>1. see2[path2[1][k]] = see[path[1][k]] /\ path2[1][k] \in DOMAIN see2
        BY <2>1, <1>4
      <4>2. /\ IsLeaf(see[path[1][k]])
            /\ \A x \in Pairs(see[path[1][k]].entries) : path[1][x[1]] = path[1][k]
        BY <1>1 DEF LeafLevel
      <4>3. \A x \in Pairs(see[path[1][k]].entries) : x[1] \in Nat
        <5> SUFFICES ASSUME NEW x \in Pairs(see[path[1][k]].entries) PROVE x[1] \in Nat
          OBVIOUS
        <5>1. PICK es \in Seq(LeafEntries) : es = see[path[1][k]].entries BY <4>2 DEF IsLeaf
        <5>2. PICK i \in DOMAIN es : x = <<es[i].key, es[i].value>> BY <5>1 DEF Pairs
        <5>3. es[i] \in LeafEntries BY <5>2
        <5>4. es[i].key \in Nat BY <5>3, EntrySets DEF IsEntrySet
        <5> QED BY <5>2, <5>4
      <4>4. \A x \in Pairs(see[path[1][k]].entries) : path2[1][x[1]] = path2[1][k]
        BY <4>2, <4>3, <1>5, <2>1
      <4> QED BY <4>1, <4>2, <4>4
    <3> QED BY <3>1, <2>1 DEF Level
  <2>2. CASE level # 1
    <3>1. level \in 2..h /\ level < low BY <2>2, <1>1
    <3>2. BranchLevel(see, path, level, low, key) /\ level - 1 \in 1..h /\ level - 1 # level
      BY <3>1, <1>1
    <3>3. \A k \in Nat : IndexIn(see2, path2, level, k) = IndexIn(see, path, level, k)
      BY <1>4 DEF IndexIn
    <3>4. \A j, k \in Nat : Beside(see2, path2, level, j, k) <=> Beside(see, path, level, j, k)
      BY <1>5, <3>3 DEF Beside
    <3>5. \A k \in Nat : Leads(see2, path2, level, k)
      <4>1. \A k \in Nat : Leads(see, path, level, k) BY <3>1, <3>2 DEF BranchLevel
      <4> QED BY <4>1, <3>2, <3>3, <1>4 DEF Leads
    <3>6. \A k \in Nat : path2[level][k] \in DOMAIN see2 /\ IsBranch(see2[path2[level][k]])
      BY <1>4, <3>2 DEF BranchLevel
    <3>7. ASSUME NEW k \in Nat, NEW x \in 1..Len(see2[path2[level][k]].entries)
          PROVE  \E j \in Nat : path2[level][j] = path2[level][k]
                                /\ IndexIn(see2, path2, level, j) = x
      <4>1. x \in 1..Len(see[path[level][k]].entries) BY <1>4
      <4>2. PICK j \in Nat : path[level][j] = path[level][k] /\ IndexIn(see, path, level, j) = x
        BY <4>1, <3>2 DEF BranchLevel
      <4> QED BY <4>2, <1>5, <3>3
    <3>8. \A j, k \in Nat : path2[level - 1][j] = path2[level - 1][k]
                            => Beside(see2, path2, level, j, k)
      BY <1>4, <3>2, <3>4 DEF BranchLevel
    <3>9. BranchLevel(see2, path2, level, level, key)
      BY <3>5, <3>6, <3>7, <3>8 DEF BranchLevel
    <3> QED BY <3>9, <2>2 DEF Level
  <2> QED BY <2>1, <2>2
<1>8. Tree(see2, path2, h, level, key)
  <2>1. low \in Nat /\ low >= level /\ level \in {level, level + 1} BY <1>1
  <2>2. PICK last : last = level OBVIOUS
  <2> QED BY <2>1, <2>2, <1>6, <1>7, LevelsAround
<1>9. \A map : Holds(see, path, map) => Holds(see2, path2, map)
  <2>1. 1 \in 1..h /\ \A k \in Key : k \in Nat BY <1>1, KeyAssumption
  <2> QED BY <2>1, <1>4 DEF Holds
<1> QED BY <1>4, <1>8, <1>9

-----------------------------------------------------------------------------
(* The leaf on the path of the key gets it, and may be split. *)

\* The leaves have the same pairs as before, but for the key.
PutInto(see, path, see2, path2, key, value) ==
    \A k \in Key : \A v :
        <<k, v>> \in Pairs(see2[path2[1][k]].entries) <=>
            IF k = key THEN v = value ELSE <<k, v>> \in Pairs(see[path[1][k]].entries)

\* What a leaf has.
LEMMA LeafFacts ==
    ASSUME NEW c, IsLeaf(c)
    PROVE  /\ c.kind = "leaf" /\ c.entries \in Seq(LeafEntries) /\ Ordered(c.entries)
           /\ \A q \in Pairs(c.entries) : q = <<q[1], q[2]>> /\ q[1] \in Key /\ q[1] \in Nat
<1>1. PICK es \in Seq(LeafEntries) : es = c.entries BY DEF IsLeaf
<1>2. ASSUME NEW q \in Pairs(es) PROVE q = <<q[1], q[2]>> /\ q[1] \in Key /\ q[1] \in Nat
  <2>1. PICK i \in DOMAIN es : q = <<es[i].key, es[i].value>> BY DEF Pairs
  <2>2. es[i] \in LeafEntries BY <2>1
  <2>3. es[i].key \in Key BY <2>2 DEF LeafEntries
  <2> QED BY <2>1, <2>3, KeyAssumption
<1> QED BY <1>1, <1>2 DEF IsLeaf, Laid

\* A tree whose leaf for a key got a pair holds the map with that pair.
LEMMA HeldAfterPut ==
    ASSUME NEW see, NEW path, NEW see2, NEW path2, NEW key \in Key, NEW value \in Value,
           LeafLevel(see, path), LeafLevel(see2, path2),
           PutInto(see, path, see2, path2, key, value),
           NEW map \in [Key -> Value \cup {None}], Holds(see, path, map)
    PROVE  Holds(see2, path2, [map EXCEPT ![key] = value])
<1> SUFFICES ASSUME NEW k \in Key
             PROVE  get_value(see2[path2[1][k]], k) = [map EXCEPT ![key] = value][k]
  BY DEF Holds
<1> DEFINE c == see[path[1][k]]
           d == see2[path2[1][k]]
<1>1. k \in Nat BY KeyAssumption
<1>2. IsLeaf(c) /\ IsLeaf(d) BY <1>1 DEF LeafLevel
<1>3. get_value(c, k) = map[k] BY DEF Holds
<1>4. \A v : <<k, v>> \in Pairs(d.entries) <=>
                IF k = key THEN v = value ELSE <<k, v>> \in Pairs(c.entries)
  BY DEF PutInto
<1> HIDE DEF c, d
<1>5. /\ \A v : <<k, v>> \in Pairs(c.entries) <=> get_value(c, k) = v /\ v \in Value
      /\ \A v : <<k, v>> \in Pairs(d.entries) <=> get_value(d, k) = v /\ v \in Value
      /\ get_value(d, k) \in Value \cup {None}
  BY <1>2, LeafFacts, LookupFacts
<1>6. CASE k = key
  <2>1. get_value(d, k) = value BY <1>4, <1>5, <1>6
  <2> QED BY <2>1, <1>6 DEF d
<1>7. CASE k # key
  <2>1. get_value(d, k) = map[k]
    <3>1. map[k] \in Value \cup {None} OBVIOUS
    <3>2. CASE map[k] \in Value BY <3>2, <1>3, <1>4, <1>5, <1>7
    <3>3. CASE map[k] = None /\ None \notin Value
      <4> SUFFICES ASSUME get_value(d, k) \in Value PROVE FALSE BY <3>3, <1>5
      <4>1. get_value(c, k) = get_value(d, k) BY <1>4, <1>5, <1>7
      <4> QED BY <4>1, <3>3, <1>3
    <3> QED BY <3>1, <3>2, <3>3, NoneAssumption
  <2> QED BY <2>1, <1>7 DEF d
<1> QED BY <1>6, <1>7

\* insert_into_leaf.
LEMMA LeafPut ==
    ASSUME NEW see, NEW path, NEW h, NEW key \in Key, NEW value \in Value,
           Tree(see, path, h, 1, key), NEW c, IsLeaf(c),
           Pairs(c.entries) = Put(Pairs(see[path[1][key]].entries), key, value),
           NEW see2, path[1][key] \in DOMAIN see2, see2[path[1][key]] = c,
           \A t \in TreeOf(path, h) : t # path[1][key] => t \in DOMAIN see2 /\ see2[t] = see[t]
    PROVE  /\ Tree(see2, path, h, 2, key)
           /\ \A map \in [Key -> Value \cup {None}] :
                 Holds(see, path, map) => Holds(see2, path, [map EXCEPT ![key] = value])
<1> DEFINE p == path[1][key]
<1>1. /\ h \in Nat \ {0} /\ IsPath(path, h) /\ 1 \in 1..h /\ LeafLevel(see, path)
  BY TreeFacts
<1>2. key \in Nat /\ \A k \in Key : k \in Nat BY KeyAssumption
<1>3. \A k \in Nat : path[1][k] \in TreeOf(path, h) BY <1>1, TreeOfFacts
<1>4. \A k \in Nat : /\ path[1][k] \in DOMAIN see2
                     /\ see2[path[1][k]] = IF path[1][k] = p THEN c ELSE see[path[1][k]]
  BY <1>3
<1>5. Changed(see, path, h, 1, key, see2, path) BY <1>1 DEF Changed
<1>6. IsLeaf(see[p]) /\ \A q \in Pairs(see[p].entries) : path[1][q[1]] = p
  BY <1>1, <1>2 DEF LeafLevel
<1>7. \A q \in Pairs(c.entries) : path[1][q[1]] = p BY <1>6 DEF Put
<1> HIDE DEF p
<1>8. LeafLevel(see2, path)
  <2> SUFFICES ASSUME NEW k \in Nat
               PROVE  /\ path[1][k] \in DOMAIN see2 /\ IsLeaf(see2[path[1][k]])
                      /\ \A q \in Pairs(see2[path[1][k]].entries) : path[1][q[1]] = path[1][k]
    BY DEF LeafLevel
  <2>1. CASE path[1][k] = p BY <2>1, <1>4, <1>7
  <2>2. CASE path[1][k] # p BY <2>2, <1>1, <1>4 DEF LeafLevel
  <2> QED BY <2>1, <2>2
<1>9. Tree(see2, path, h, 2, key)
  <2>1. Level(see2, path, 1, 2, key) BY <1>8 DEF Level
  <2> QED BY <2>1, <1>1, <1>2, <1>5, LevelsAround
<1>10. PutInto(see, path, see2, path, key, value)
  <2> SUFFICES ASSUME NEW k \in Key, NEW v
               PROVE  <<k, v>> \in Pairs(see2[path[1][k]].entries) <=>
                         IF k = key THEN v = value
                         ELSE <<k, v>> \in Pairs(see[path[1][k]].entries)
    BY DEF PutInto
  <2>0. k \in Nat BY <1>2
  <2>1. CASE k = key
    <3>1. <<k, v>> \in Put(Pairs(see[p].entries), key, value) <=> v = value
      BY <2>1 DEF Put
    <3> QED BY <3>1, <2>1, <1>2, <1>4 DEF p
  <2>2. CASE k # key /\ path[1][k] = p
    <3>1. <<k, v>> \in Put(Pairs(see[p].entries), key, value)
             <=> <<k, v>> \in Pairs(see[p].entries)
      BY <2>2 DEF Put
    <3>2. <<k, v>> \in Pairs(c.entries) <=> <<k, v>> \in Pairs(see[p].entries)
      BY <3>1 DEF p
    <3> QED BY <3>2, <2>0, <2>2, <1>4
  <2>3. CASE k # key /\ path[1][k] # p BY <2>0, <2>3, <1>4
  <2> QED BY <2>1, <2>2, <2>3
<1>11. ASSUME NEW map \in [Key -> Value \cup {None}], Holds(see, path, map)
       PROVE  Holds(see2, path, [map EXCEPT ![key] = value])
  BY <1>1, <1>8, <1>10, <1>11, HeldAfterPut
<1> QED BY <1>9, <1>11

\* The page p of the tree is split: it keeps c, and the new page q has d.
Divided(see, path, h, p, c, q, d, see2) ==
    /\ p \in DOMAIN see2 /\ see2[p] = c
    /\ q \in Page /\ q \notin TreeOf(path, h) /\ q \in DOMAIN see2 /\ see2[q] = d
    /\ \A t \in TreeOf(path, h) : t # p => t \in DOMAIN see2 /\ see2[t] = see[t]

\* There are numbers for both halves.
Parts(path, level, p, sep) ==
    \E j, k \in Nat : path[level][j] = p /\ j < sep /\ path[level][k] = p /\ sep <= k

\* Two leaves hold the pairs that are below sep and those that are not.
LeafParts(c, d, all, sep) ==
    /\ IsLeaf(c) /\ Pairs(c.entries) = {a \in all : a[1] < sep}
    /\ IsLeaf(d) /\ Pairs(d.entries) = {a \in all : sep <= a[1]}
    /\ \E a \in all : a[1] < sep
    /\ \E a \in all : a[1] = sep

\* split_page of a leaf: the numbers from sep on go to the new page.
LEMMA LeafDivided ==
    ASSUME NEW see, NEW path, NEW h, NEW key \in Key, NEW value \in Value,
           Tree(see, path, h, 1, key), NEW sep \in Key, NEW all,
           all = Put(Pairs(see[path[1][key]].entries), key, value),
           NEW c, NEW d, LeafParts(c, d, all, sep), NEW q, NEW see2,
           Divided(see, path, h, path[1][key], c, q, d, see2),
           NEW path2, IsParted(path2, path, h, 1, path[1][key], sep, q)
    PROVE  /\ Tree(see2, path2, h, 2, key)
           /\ \A map \in [Key -> Value \cup {None}] :
                 Holds(see, path, map) => Holds(see2, path2, [map EXCEPT ![key] = value])
           /\ Parts(path, 1, path[1][key], sep)
<1>a. /\ IsLeaf(c) /\ Pairs(c.entries) = {a \in all : a[1] < sep}
      /\ IsLeaf(d) /\ Pairs(d.entries) = {a \in all : sep <= a[1]}
      /\ \E a \in all : a[1] < sep
      /\ \E a \in all : a[1] = sep
  BY DEF LeafParts
<1>b. /\ path[1][key] \in DOMAIN see2 /\ see2[path[1][key]] = c
      /\ q \in Page /\ q \notin TreeOf(path, h) /\ q \in DOMAIN see2 /\ see2[q] = d
      /\ \A t \in TreeOf(path, h) : t # path[1][key] => t \in DOMAIN see2 /\ see2[t] = see[t]
  BY DEF Divided
<1> DEFINE p == path[1][key]
<1>1. /\ h \in Nat \ {0} /\ IsPath(path, h) /\ 1 \in 1..h /\ LeafLevel(see, path)
  BY TreeFacts
<1>2. key \in Nat /\ sep \in Nat /\ \A k \in Key : k \in Nat BY KeyAssumption
<1>3. \A k \in Nat : path[1][k] \in TreeOf(path, h) BY <1>1, TreeOfFacts
<1>4. /\ IsPath(path2, h)
      /\ \A r \in 1..h : r # 1 => path2[r] = path[r]
      /\ \A k \in Nat : path2[1][k] = IF path[1][k] = p /\ sep <= k THEN q ELSE path[1][k]
  BY DEF IsParted
<1>5. Changed(see, path, h, 1, key, see2, path2) BY <1>4, <1>b DEF Changed
<1>6. IsLeaf(see[p]) /\ \A a \in Pairs(see[p].entries) : path[1][a[1]] = p
  BY <1>1, <1>2 DEF LeafLevel
<1>7. \A a \in all : path[1][a[1]] = p BY <1>6 DEF Put
<1>8. \A a \in Pairs(c.entries) : /\ a \in all /\ a[1] < sep /\ a[1] \in Nat
                                  /\ path2[1][a[1]] = p
  BY <1>2, <1>4, <1>7, <1>a, LeafFacts
<1>9. \A a \in Pairs(d.entries) : /\ a \in all /\ sep <= a[1] /\ a[1] \in Nat
                                  /\ path2[1][a[1]] = q
  BY <1>2, <1>4, <1>7, <1>a, LeafFacts
<1>10. p \in DOMAIN see2 /\ see2[p] = c /\ q \in DOMAIN see2 /\ see2[q] = d
       /\ \A k \in Nat : path[1][k] # p =>
             path[1][k] \in DOMAIN see2 /\ see2[path[1][k]] = see[path[1][k]]
  BY <1>3, <1>b
<1>11. \A a \in all : path[1][a[1]] = path[1][key] BY <1>7
<1> HIDE DEF p
<1>12. LeafLevel(see2, path2)
  <2> SUFFICES ASSUME NEW k \in Nat
               PROVE  /\ path2[1][k] \in DOMAIN see2 /\ IsLeaf(see2[path2[1][k]])
                      /\ \A a \in Pairs(see2[path2[1][k]].entries) : path2[1][a[1]] = path2[1][k]
    BY DEF LeafLevel
  <2>1. CASE path[1][k] = p /\ sep <= k
    <3>1. path2[1][k] = q BY <2>1, <1>4
    <3> QED BY <3>1, <1>9, <1>10, <1>a
  <2>2. CASE path[1][k] = p /\ ~(sep <= k)
    <3>1. path2[1][k] = p BY <2>2, <1>4
    <3> QED BY <3>1, <1>8, <1>10, <1>a
  <2>3. CASE path[1][k] # p
    <3>1. path2[1][k] = path[1][k] BY <2>3, <1>4
    <3>2. IsLeaf(see[path[1][k]])
          /\ \A a \in Pairs(see[path[1][k]].entries) : path[1][a[1]] = path[1][k]
      BY <1>1 DEF LeafLevel
    <3>3. \A a \in Pairs(see[path[1][k]].entries) : a[1] \in Nat BY <3>2, LeafFacts
    <3>4. \A a \in Pairs(see[path[1][k]].entries) : path2[1][a[1]] = path[1][k]
      BY <3>2, <3>3, <2>3, <1>4
    <3> QED BY <3>1, <3>2, <3>4, <2>3, <1>10
  <2> QED BY <2>1, <2>2, <2>3
<1>13. Tree(see2, path2, h, 2, key)
  <2>1. Level(see2, path2, 1, 2, key) BY <1>12 DEF Level
  <2> QED BY <2>1, <1>1, <1>2, <1>5, LevelsAround
<1>14. PutInto(see, path, see2, path2, key, value)
  <2> SUFFICES ASSUME NEW k \in Key, NEW v
               PROVE  <<k, v>> \in Pairs(see2[path2[1][k]].entries) <=>
                         IF k = key THEN v = value
                         ELSE <<k, v>> \in Pairs(see[path[1][k]].entries)
    BY DEF PutInto
  <2>0. k \in Nat BY <1>2
  <2>1. ASSUME path[1][k] = p
        PROVE  <<k, v>> \in Pairs(see2[path2[1][k]].entries) <=> <<k, v>> \in all
    <3>1. CASE sep <= k
      <4>1. see2[path2[1][k]] = d BY <2>0, <2>1, <3>1, <1>4, <1>10
      <4> QED BY <4>1, <3>1, <1>a
    <3>2. CASE ~(sep <= k)
      <4>1. see2[path2[1][k]] = c /\ k < sep BY <2>0, <2>1, <3>2, <1>2, <1>4, <1>10
      <4> QED BY <4>1, <1>a
    <3> QED BY <3>1, <3>2
  <2>2. CASE k = key
    <3>1. <<k, v>> \in all <=> v = value BY <2>2 DEF Put
    <3>2. path[1][k] = p BY <2>2 DEF p
    <3> QED BY <3>1, <3>2, <2>1, <2>2
  <2>3. CASE k # key /\ path[1][k] = p
    <3>1. <<k, v>> \in all <=> <<k, v>> \in Pairs(see[p].entries) BY <2>3 DEF Put, p
    <3> QED BY <3>1, <2>1, <2>3
  <2>4. CASE k # key /\ path[1][k] # p BY <2>0, <2>4, <1>4, <1>10
  <2> QED BY <2>2, <2>3, <2>4
<1>15. ASSUME NEW map \in [Key -> Value \cup {None}], Holds(see, path, map)
       PROVE  Holds(see2, path2, [map EXCEPT ![key] = value])
  BY <1>1, <1>12, <1>14, <1>15, HeldAfterPut
<1>16. Parts(path, 1, path[1][key], sep)
  <2>1. PICK a \in all : a[1] < sep BY <1>a
  <2>2. PICK b \in all : b[1] = sep BY <1>a
  <2>3. a[1] \in Nat /\ b[1] \in Nat /\ sep <= b[1]
    <3>1. a \in Pairs(c.entries) BY <2>1, <1>a
    <3> QED BY <3>1, <2>2, <1>2, <1>8
  <2> QED BY <2>1, <2>2, <2>3, <1>11 DEF Parts
<1> QED BY <1>13, <1>15, <1>16

-----------------------------------------------------------------------------
(* The branch on the path of the key gets the pages that an insert below it *)
(* has returned, and may be split.                                          *)

\* The entries lead the numbers that come to the page p on to the level below.
Covers(es, see, path, level, p) ==
    /\ \A k \in Nat : path[level][k] = p =>
          LET e == es[Index(es, k)]
          IN  e.page = path[level - 1][k] /\ e.sum = see[path[level - 1][k]]
    /\ \A x \in 1..Len(es) : \E j \in Nat : path[level][j] = p /\ Index(es, j) = x
    /\ \A j, k \in Nat : /\ path[level][j] = p /\ path[level][k] = p
                         /\ path[level - 1][j] = path[level - 1][k]
                         => Index(es, j) = Index(es, k)

\* The branches that take the place of the one on the path of the key do.
Serve(see, path, level, key, see2, path2) ==
    /\ \A k \in Nat : path[level][k] = path[level][key] =>
          LET t == path2[level][k]
          IN  /\ t \in DOMAIN see2 /\ IsBranch(see2[t])
              /\ Covers(see2[t].entries, see, path2, level, t)
    /\ \A j, k \in Nat :
          path[level][j] = path[level][key] /\ path[level - 1][j] = path[level - 1][k]
          => path2[level][j] = path2[level][k]

\* When a branch serves what came from below, the tree is right up to its level.
LEMMA BranchesServe ==
    ASSUME NEW see, NEW path, NEW h, NEW level \in 2..h, NEW key \in Nat,
           Tree(see, path, h, level, key), NEW see2, NEW path2,
           Changed(see, path, h, level, key, see2, path2),
           Serve(see, path, level, key, see2, path2)
    PROVE  /\ Tree(see2, path2, h, level + 1, key)
           /\ \A map : Holds(see, path, map) => Holds(see2, path2, map)
<1> DEFINE p == path[level][key]
           low == level - 1
<1>1. /\ h \in Nat \ {0} /\ IsPath(path, h) /\ 1 \in 1..h
      /\ \A r, s \in 1..h : \A j, k \in Nat : path[r][j] = path[s][k] => r = s
      /\ level \in 1..h /\ low \in 1..h /\ low # level /\ level # 1 /\ level \in Nat
      /\ BranchLevel(see, path, level, level, key)
  BY TreeFacts
<1>2. /\ \A r \in 1..h : r # level => path2[r] = path[r]
      /\ \A k \in Nat : path[level][k] # p => path2[level][k] = path[level][k]
      /\ \A k \in Nat : path[level][k] = p => path2[level][k] = p
                                              \/ path2[level][k] \notin TreeOf(path, h)
      /\ \A t \in TreeOf(path, h) : t # p => t \in DOMAIN see2 /\ see2[t] = see[t]
  BY DEF Changed
<1>3. \A r \in 1..h : \A k \in Nat :
         /\ path[r][k] \in TreeOf(path, h)
         /\ r # level => /\ path[r][k] # p /\ path2[r][k] = path[r][k]
                         /\ path[r][k] \in DOMAIN see2 /\ see2[path[r][k]] = see[path[r][k]]
  BY <1>1, <1>2, TreeOfFacts
<1>4. /\ \A k \in Nat : path[level][k] \in DOMAIN see /\ IsBranch(see[path[level][k]])
      /\ \A j, k \in Nat : path[low][j] = path[low][k] => Beside(see, path, level, j, k)
      /\ \A k \in Nat : \A x \in 1..Len(see[path[level][k]].entries) :
            \E j \in Nat : path[level][j] = path[level][k] /\ IndexIn(see, path, level, j) = x
      /\ \A k \in Nat : ~Beside(see, path, level, k, key) => Leads(see, path, level, k)
  BY <1>1 DEF BranchLevel
<1>5. \A k \in Nat : path[level][k] = p =>
         /\ path2[level][k] \in DOMAIN see2 /\ IsBranch(see2[path2[level][k]])
         /\ Covers(see2[path2[level][k]].entries, see, path2, level, path2[level][k])
  BY DEF Serve
<1>6. \A j, k \in Nat : path[level][j] = p /\ path[low][j] = path[low][k]
                        => path2[level][j] = path2[level][k]
  BY DEF Serve
<1>7. \A k \in Nat : path2[low][k] = path[low][k] /\ see2[path[low][k]] = see[path[low][k]]
  BY <1>1, <1>3
<1>8. level - 1 = low OBVIOUS
<1>9. \A k \in Nat : path[level][k] = p <=> path2[level][k] = p \/ path2[level][k] \notin TreeOf(path, h)
  BY <1>1, <1>2, <1>3
<1> HIDE DEF p, low
<1>10. \A k \in Nat : path[level][k] # p =>
          /\ path2[level][k] = path[level][k] /\ path[level][k] \in DOMAIN see2
          /\ see2[path[level][k]] = see[path[level][k]]
          /\ IndexIn(see2, path2, level, k) = IndexIn(see, path, level, k)
          /\ \A j \in Nat : path2[level][j] = path2[level][k] <=> path[level][j] = path[level][k]
  <2> SUFFICES ASSUME NEW k \in Nat, path[level][k] # p
               PROVE  /\ path2[level][k] = path[level][k] /\ path[level][k] \in DOMAIN see2
                      /\ see2[path[level][k]] = see[path[level][k]]
                      /\ IndexIn(see2, path2, level, k) = IndexIn(see, path, level, k)
                      /\ \A j \in Nat :
                            path2[level][j] = path2[level][k] <=> path[level][j] = path[level][k]
    OBVIOUS
  <2>1. /\ path2[level][k] = path[level][k] /\ path[level][k] \in DOMAIN see2
        /\ see2[path[level][k]] = see[path[level][k]]
    BY <1>1, <1>2, <1>3
  <2>2. IndexIn(see2, path2, level, k) = IndexIn(see, path, level, k) BY <2>1 DEF IndexIn
  <2>3. ASSUME NEW j \in Nat
        PROVE  path2[level][j] = path2[level][k] <=> path[level][j] = path[level][k]
    <3>1. CASE path[level][j] = p
      <4>1. path2[level][j] # path[level][k] BY <3>1, <1>1, <1>2, <1>3
      <4> QED BY <4>1, <3>1, <2>1
    <3>2. CASE path[level][j] # p BY <3>2, <2>1, <1>2
    <3> QED BY <3>1, <3>2
  <2> QED BY <2>1, <2>2, <2>3
<1>11. ASSUME NEW k \in Nat, path[level][k] = p
       PROVE  LET t == path2[level][k]
                  es == see2[t].entries
              IN  /\ IndexIn(see2, path2, level, k) = Index(es, k)
                  /\ es[Index(es, k)].page = path[low][k]
                  /\ es[Index(es, k)].sum = see[path[low][k]]
                  /\ \A x \in 1..Len(es) : \E j \in Nat : path2[level][j] = t /\ Index(es, j) = x
                  /\ \A j \in Nat : path2[level][j] = t /\ path[low][j] = path[low][k]
                                    => Index(es, j) = Index(es, k)
  <2> DEFINE t == path2[level][k]
             es == see2[t].entries
  <2>1. Covers(es, see, path2, level, t) BY <1>5, <1>11
  <2>2. t = path2[level][k] OBVIOUS
  <2> HIDE DEF es, t
  <2>3. /\ es[Index(es, k)].page = path2[low][k] /\ es[Index(es, k)].sum = see[path2[low][k]]
        /\ \A x \in 1..Len(es) : \E j \in Nat : path2[level][j] = t /\ Index(es, j) = x
        /\ \A j \in Nat : path2[level][j] = t /\ path2[low][j] = path2[low][k]
                          => Index(es, j) = Index(es, k)
    BY <2>1, <2>2, <1>8 DEF Covers
  <2>4. IndexIn(see2, path2, level, k) = Index(es, k) BY DEF IndexIn, es, t
  <2> QED BY <2>3, <2>4, <1>7 DEF es, t
<1>12. BranchLevel(see2, path2, level, level + 1, key)
  <2>1. \A k \in Nat : path2[level][k] \in DOMAIN see2 /\ IsBranch(see2[path2[level][k]])
    BY <1>4, <1>5, <1>10
  <2>2. ASSUME NEW j \in Nat, NEW k \in Nat, path2[low][j] = path2[low][k]
        PROVE  Beside(see2, path2, level, j, k)
    <3>1. path[low][j] = path[low][k] BY <2>2, <1>7
    <3>2. Beside(see, path, level, j, k) BY <3>1, <1>4
    <3>3. path[level][j] = path[level][k] BY <3>2 DEF Beside
    <3>4. CASE path[level][k] # p
      <4>1. /\ IndexIn(see2, path2, level, j) = IndexIn(see, path, level, j)
            /\ IndexIn(see2, path2, level, k) = IndexIn(see, path, level, k)
            /\ path2[level][j] = path2[level][k]
        BY <3>3, <3>4, <1>10
      <4> QED BY <4>1, <3>2 DEF Beside
    <3>5. CASE path[level][k] = p
      <4>1. path2[level][j] = path2[level][k] BY <3>1, <3>3, <3>5, <1>6
      <4>2. IndexIn(see2, path2, level, j) = IndexIn(see2, path2, level, k)
        BY <4>1, <3>1, <3>3, <3>5, <1>11
      <4> QED BY <4>1, <4>2 DEF Beside
    <3> QED BY <3>4, <3>5
  <2>3. ASSUME NEW k \in Nat, NEW x \in 1..Len(see2[path2[level][k]].entries)
        PROVE  \E j \in Nat : path2[level][j] = path2[level][k]
                              /\ IndexIn(see2, path2, level, j) = x
    <3>1. CASE path[level][k] # p
      <4>1. x \in 1..Len(see[path[level][k]].entries) BY <3>1, <1>10
      <4>2. PICK j \in Nat : path[level][j] = path[level][k] /\ IndexIn(see, path, level, j) = x
        BY <4>1, <1>4
      <4> QED BY <4>2, <3>1, <1>10
    <3>2. CASE path[level][k] = p
      <4>1. PICK j \in Nat : path2[level][j] = path2[level][k]
                             /\ Index(see2[path2[level][k]].entries, j) = x
        BY <3>2, <1>11
      <4>2. IndexIn(see2, path2, level, j) = x BY <4>1 DEF IndexIn
      <4> QED BY <4>1, <4>2
    <3> QED BY <3>1, <3>2
  <2>4. ASSUME NEW k \in Nat PROVE Leads(see2, path2, level, k)
    <3>1. CASE path[level][k] # p
      <4>1. ~Beside(see, path, level, k, key) BY <3>1 DEF Beside, p
      <4>2. Leads(see, path, level, k) BY <4>1, <1>4
      <4> QED BY <4>2, <3>1, <1>7, <1>8, <1>10 DEF Leads
    <3>2. CASE path[level][k] = p BY <3>2, <1>7, <1>8, <1>11 DEF Leads
    <3> QED BY <3>1, <3>2
  <2>5. \A j, k \in Nat : path2[level - 1][j] = path2[level - 1][k]
                          => Beside(see2, path2, level, j, k)
    BY <2>2, <1>8
  <2> QED BY <2>1, <2>3, <2>4, <2>5 DEF BranchLevel
<1>13. Tree(see2, path2, h, level + 1, key)
  <2>1. Level(see2, path2, level, level + 1, key) BY <1>1, <1>12 DEF Level
  <2>2. PICK last \in Nat : last = level + 1 BY <1>1
  <2>3. last \in {level, level + 1} /\ level >= level BY <2>2, <1>1
  <2> QED BY <2>1, <2>2, <2>3, <1>1, LevelsAround
<1>14. \A map : Holds(see, path, map) => Holds(see2, path2, map)
  <2>1. \A k \in Key : k \in Nat BY KeyAssumption
  <2>2. \A k \in Key : see2[path2[1][k]] = see[path[1][k]] BY <2>1, <1>1, <1>3
  <2> QED BY <2>2 DEF Holds
<1> QED BY <1>13, <1>14

\* Entries that lead to the same pages.
Alike(fs, es) ==
    /\ Len(fs) = Len(es)
    /\ \A i \in 1..Len(es) : fs[i].page = es[i].page /\ fs[i].sum = es[i].sum
    /\ \A k \in Nat : Index(fs, k) = Index(es, k)

\* replace_child and insert_into_branch, when the branch is not split.
LEMMA BranchChanged ==
    ASSUME NEW see, NEW path, NEW h, NEW level \in 2..h, NEW key \in Nat,
           Tree(see, path, h, level, key), NEW c, IsBranch(c),
           Covers(c.entries, see, path, level, path[level][key]),
           NEW see2, path[level][key] \in DOMAIN see2, see2[path[level][key]] = c,
           \A t \in TreeOf(path, h) : t # path[level][key] =>
              t \in DOMAIN see2 /\ see2[t] = see[t]
    PROVE  /\ Tree(see2, path, h, level + 1, key)
           /\ \A map : Holds(see, path, map) => Holds(see2, path, map)
<1>1. /\ IsPath(path, h) /\ level \in 1..h
      /\ \A j, k \in Nat : path[level - 1][j] = path[level - 1][k] => path[level][j] = path[level][k]
  BY TreeFacts DEF BranchLevel, Beside
<1>2. Changed(see, path, h, level, key, see2, path) BY <1>1 DEF Changed
<1>3. ASSUME NEW k \in Nat, path[level][k] = path[level][key]
      PROVE  /\ path[level][k] \in DOMAIN see2 /\ IsBranch(see2[path[level][k]])
             /\ Covers(see2[path[level][k]].entries, see, path, level, path[level][k])
  BY <1>3
<1>4. Serve(see, path, level, key, see2, path) BY <1>1, <1>3 DEF Serve
<1> QED BY <1>2, <1>4, BranchesServe

\* Two branches lead on as the halves of the entries.
BranchParts(es, c, d, sep) ==
    /\ AreChildren(es) /\ Len(es) >= 2 /\ sep = RightHalf(es)[1].key
    /\ IsBranch(c) /\ Alike(c.entries, LeftHalf(es))
    /\ IsBranch(d) /\ Alike(d.entries, WithoutFirstKey(RightHalf(es)))

\* split_page of a branch.
LEMMA BranchDivided ==
    ASSUME NEW see, NEW path, NEW h, NEW level \in 2..h, NEW key \in Nat,
           Tree(see, path, h, level, key), NEW es, Covers(es, see, path, level, path[level][key]),
           NEW c, NEW d, NEW sep, BranchParts(es, c, d, sep), NEW q, NEW see2,
           Divided(see, path, h, path[level][key], c, q, d, see2),
           NEW path2, IsParted(path2, path, h, level, path[level][key], sep, q)
    PROVE  /\ Tree(see2, path2, h, level + 1, key)
           /\ \A map : Holds(see, path, map) => Holds(see2, path2, map)
           /\ Parts(path, level, path[level][key], sep)
<1>a. /\ AreChildren(es) /\ Len(es) >= 2 /\ sep = RightHalf(es)[1].key
      /\ IsBranch(c) /\ Alike(c.entries, LeftHalf(es))
      /\ IsBranch(d) /\ Alike(d.entries, WithoutFirstKey(RightHalf(es)))
  BY DEF BranchParts
<1>b. /\ path[level][key] \in DOMAIN see2 /\ see2[path[level][key]] = c
      /\ q \in Page /\ q \notin TreeOf(path, h) /\ q \in DOMAIN see2 /\ see2[q] = d
      /\ \A t \in TreeOf(path, h) : t # path[level][key] => t \in DOMAIN see2 /\ see2[t] = see[t]
  BY DEF Divided
<1> DEFINE p == path[level][key]
           low == level - 1
           left == LeftHalf(es)
           right == WithoutFirstKey(RightHalf(es))
           n == Len(es)
           m == n \div 2
<1>1. /\ IsPath(path, h) /\ level \in 1..h /\ low \in 1..h /\ low # level
      /\ BranchLevel(see, path, level, level, key)
  BY TreeFacts
<1>2. /\ IsPath(path2, h)
      /\ \A r \in 1..h : r # level => path2[r] = path[r]
      /\ \A k \in Nat : path2[level][k] = IF path[level][k] = p /\ sep <= k THEN q ELSE path[level][k]
  BY DEF IsParted
<1>3. Changed(see, path, h, level, key, see2, path2) BY <1>2, <1>b DEF Changed
<1>4. /\ m \in 1..(n - 1) /\ sep \in Key
      /\ Len(left) = m /\ \A i \in 1..m : left[i] = es[i]
      /\ Len(right) = n - m
      /\ \A i \in 1..(n - m) : right[i].page = es[m + i].page /\ right[i].sum = es[m + i].sum
      /\ \A k \in Nat : IF k < sep THEN Index(es, k) <= m /\ Index(left, k) = Index(es, k)
                        ELSE m < Index(es, k) /\ Index(right, k) = Index(es, k) - m
  BY <1>a, ChildHalves
<1>5. n \in Nat /\ \A k \in Nat : Index(es, k) \in 1..n BY <1>a, ChildrenFacts
<1>6. /\ \A k \in Nat : path[level][k] = p =>
            /\ es[Index(es, k)].page = path[low][k] /\ es[Index(es, k)].sum = see[path[low][k]]
      /\ \A x \in 1..n : \E j \in Nat : path[level][j] = p /\ Index(es, j) = x
      /\ \A j, k \in Nat : /\ path[level][j] = p /\ path[level][k] = p
                           /\ path[low][j] = path[low][k]
                           => Index(es, j) = Index(es, k)
  BY DEF Covers
<1>7. /\ Len(c.entries) = m
      /\ \A i \in 1..m : c.entries[i].page = left[i].page /\ c.entries[i].sum = left[i].sum
      /\ \A k \in Nat : Index(c.entries, k) = Index(left, k)
  BY <1>4, <1>a DEF Alike
<1>8. /\ Len(d.entries) = n - m
      /\ \A i \in 1..(n - m) : d.entries[i].page = right[i].page /\ d.entries[i].sum = right[i].sum
      /\ \A k \in Nat : Index(d.entries, k) = Index(right, k)
  BY <1>4, <1>a DEF Alike
<1>9. path2[low] = path[low] /\ q # p /\ level - 1 = low /\ sep \in Nat
      /\ p \in DOMAIN see2 /\ see2[p] = c
      /\ \A k \in Nat : path[level][k] # q
  <2>1. path2[low] = path[low] BY <1>1, <1>2
  <2>2. \A k \in Nat : path[level][k] \in TreeOf(path, h) BY <1>1, TreeOfFacts
  <2>3. p \in TreeOf(path, h) BY <2>2
  <2>4. q # p /\ \A k \in Nat : path[level][k] # q BY <2>2, <2>3, <1>b
  <2>5. sep \in Nat BY <1>4, KeyAssumption
  <2>6. p \in DOMAIN see2 /\ see2[p] = c BY <1>b
  <2> QED BY <2>1, <2>4, <2>5, <2>6
<1>10. \A j, k \in Nat : path[low][j] = path[low][k] => path[level][j] = path[level][k]
  BY <1>1 DEF BranchLevel, Beside
<1> HIDE DEF p, low, left, right, n, m
<1>11. \A k \in Nat : /\ path2[level][k] = p <=> path[level][k] = p /\ k < sep
                      /\ path2[level][k] = q <=> path[level][k] = p /\ sep <= k
  <2> SUFFICES ASSUME NEW k \in Nat
               PROVE  /\ path2[level][k] = p <=> path[level][k] = p /\ k < sep
                      /\ path2[level][k] = q <=> path[level][k] = p /\ sep <= k
    OBVIOUS
  <2>1. sep <= k <=> ~(k < sep) BY <1>9
  <2> QED BY <2>1, <1>2, <1>9
<1>12. ASSUME NEW k \in Nat, path2[level][k] = p
       PROVE  /\ Index(es, k) \in 1..m /\ Index(c.entries, k) = Index(es, k)
              /\ path[level][k] = p
  <2>1. path[level][k] = p /\ k < sep BY <1>11, <1>12
  <2>2. PICK i \in 1..n : i = Index(es, k) BY <1>5
  <2>3. i <= m /\ Index(c.entries, k) = i BY <2>1, <2>2, <1>4, <1>7
  <2>4. i \in 1..m BY <2>3, <1>4, <1>5
  <2> QED BY <2>1, <2>2, <2>3, <2>4
<1>13. ASSUME NEW k \in Nat, path2[level][k] = q
       PROVE  /\ Index(es, k) - m \in 1..(n - m) /\ Index(d.entries, k) = Index(es, k) - m
              /\ m + (Index(es, k) - m) = Index(es, k)
              /\ path[level][k] = p
  <2>1. ~(k < sep) /\ path[level][k] = p BY <1>9, <1>11, <1>13
  <2>2. PICK i \in 1..n : i = Index(es, k) BY <1>5
  <2>3. m < i /\ Index(d.entries, k) = i - m BY <2>1, <2>2, <1>4, <1>8
  <2>4. m \in 1..(n - 1) /\ n \in Nat BY <1>4, <1>5
  <2>5. i - m \in 1..(n - m) /\ m + (i - m) = i BY <2>3, <2>4
  <2> QED BY <2>1, <2>2, <2>3, <2>5
<1>14. ASSUME NEW x \in 1..m
       PROVE  \E j \in Nat : path2[level][j] = p /\ Index(c.entries, j) = x
  <2>1. x \in 1..n BY <1>4, <1>5
  <2>2. PICK j \in Nat : path[level][j] = p /\ Index(es, j) = x BY <2>1, <1>6
  <2>3. j < sep
    <3> SUFFICES ASSUME ~(j < sep) PROVE FALSE OBVIOUS
    <3>1. m < x BY <2>2, <1>4
    <3> QED BY <3>1, <1>4, <1>5
  <2>4. path2[level][j] = p BY <2>2, <2>3, <1>11
  <2> QED BY <2>2, <2>4, <1>12
<1>15. ASSUME NEW x \in 1..(n - m)
       PROVE  \E j \in Nat : path2[level][j] = q /\ Index(d.entries, j) = x
  <2>1. m + x \in 1..n BY <1>4, <1>5
  <2>2. PICK j \in Nat : path[level][j] = p /\ Index(es, j) = m + x BY <2>1, <1>6
  <2>3. sep <= j
    <3> SUFFICES ASSUME ~(sep <= j) PROVE FALSE OBVIOUS
    <3>1. j < sep BY <1>9
    <3>2. m + x <= m BY <3>1, <2>2, <1>4
    <3> QED BY <3>2, <1>4, <1>5
  <2>4. path2[level][j] = q BY <2>2, <2>3, <1>11
  <2>5. Index(d.entries, j) = Index(es, j) - m BY <2>4, <1>13
  <2>6. Index(d.entries, j) = x BY <2>2, <2>5, <1>4, <1>5
  <2> QED BY <2>4, <2>6
<1>16. Covers(c.entries, see, path2, level, p)
  <2>1. ASSUME NEW k \in Nat, path2[level][k] = p
        PROVE  /\ c.entries[Index(c.entries, k)].page = path2[level - 1][k]
               /\ c.entries[Index(c.entries, k)].sum = see[path2[level - 1][k]]
    <3>1. PICK i \in 1..m : i = Index(c.entries, k) /\ i = Index(es, k) /\ path[level][k] = p
      BY <2>1, <1>12
    <3>2. c.entries[i].page = es[i].page /\ c.entries[i].sum = es[i].sum BY <1>4, <1>7
    <3> QED BY <3>1, <3>2, <1>6, <1>9
  <2>2. \A x \in 1..Len(c.entries) :
           \E j \in Nat : path2[level][j] = p /\ Index(c.entries, j) = x
    BY <1>7, <1>14
  <2>3. ASSUME NEW j \in Nat, NEW k \in Nat, path2[level][j] = p, path2[level][k] = p,
               path2[level - 1][j] = path2[level - 1][k]
        PROVE  Index(c.entries, j) = Index(c.entries, k)
    BY <2>3, <1>6, <1>9, <1>12
  <2> QED BY <2>1, <2>2, <2>3 DEF Covers
<1>17. Covers(d.entries, see, path2, level, q)
  <2>1. ASSUME NEW k \in Nat, path2[level][k] = q
        PROVE  /\ d.entries[Index(d.entries, k)].page = path2[level - 1][k]
               /\ d.entries[Index(d.entries, k)].sum = see[path2[level - 1][k]]
    <3>1. PICK i \in 1..(n - m) : i = Index(d.entries, k) /\ m + i = Index(es, k)
                                  /\ path[level][k] = p
      BY <2>1, <1>13
    <3>2. d.entries[i].page = es[m + i].page /\ d.entries[i].sum = es[m + i].sum
      BY <1>4, <1>8
    <3> QED BY <3>1, <3>2, <1>6, <1>9
  <2>2. \A x \in 1..Len(d.entries) :
           \E j \in Nat : path2[level][j] = q /\ Index(d.entries, j) = x
    BY <1>8, <1>15
  <2>3. ASSUME NEW j \in Nat, NEW k \in Nat, path2[level][j] = q, path2[level][k] = q,
               path2[level - 1][j] = path2[level - 1][k]
        PROVE  Index(d.entries, j) = Index(d.entries, k)
    BY <2>3, <1>6, <1>9, <1>13
  <2> QED BY <2>1, <2>2, <2>3 DEF Covers
<1>18. ASSUME NEW k \in Nat, path[level][k] = p
       PROVE  LET t == path2[level][k]
              IN  /\ t \in DOMAIN see2 /\ IsBranch(see2[t])
                  /\ Covers(see2[t].entries, see, path2, level, t)
  <2>1. path2[level][k] = p \/ path2[level][k] = q BY <1>2, <1>18
  <2>2. CASE path2[level][k] = p BY <2>2, <1>9, <1>16, <1>a
  <2>3. CASE path2[level][k] = q BY <2>3, <1>17, <1>a, <1>b
  <2> QED BY <2>1, <2>2, <2>3
<1>19. ASSUME NEW j \in Nat, NEW k \in Nat, path[level][j] = p, path[low][j] = path[low][k]
       PROVE  path2[level][j] = path2[level][k]
  <2>1. path[level][k] = p BY <1>10, <1>19
  <2>2. Index(es, j) = Index(es, k) BY <2>1, <1>6, <1>19
  <2>3. j < sep <=> k < sep
    <3>1. CASE j < sep /\ ~(k < sep) BY <3>1, <2>2, <1>4, <1>5
    <3>2. CASE k < sep /\ ~(j < sep) BY <3>2, <2>2, <1>4, <1>5
    <3> QED BY <3>1, <3>2
  <2>4. sep <= j <=> sep <= k BY <2>3, <1>9
  <2> QED BY <2>1, <2>4, <1>2, <1>19
<1>20. Tree(see2, path2, h, level + 1, key)
       /\ \A map : Holds(see, path, map) => Holds(see2, path2, map)
  <2>1. \A k \in Nat : path[level][k] = p =>
           LET t == path2[level][k]
           IN  /\ t \in DOMAIN see2 /\ IsBranch(see2[t])
               /\ Covers(see2[t].entries, see, path2, level, t)
    BY <1>18
  <2>2. \A j, k \in Nat : path[level][j] = p /\ path[level - 1][j] = path[level - 1][k]
                          => path2[level][j] = path2[level][k]
    BY <1>9, <1>19
  <2>3. Serve(see, path, level, key, see2, path2) BY <2>1, <2>2 DEF Serve, p
  <2> QED BY <2>3, <1>3, BranchesServe
<1>21. \E j, k \in Nat : path[level][j] = p /\ path[level][k] = p /\ j < sep /\ sep <= k
  <2>1. 1 \in 1..m /\ 1 \in 1..(n - m) BY <1>4, <1>5
  <2>2. PICK j \in Nat : path2[level][j] = p BY <2>1, <1>14
  <2>3. PICK k \in Nat : path2[level][k] = q BY <2>1, <1>15
  <2> QED BY <2>2, <2>3, <1>11
<1> QED BY <1>20, <1>21 DEF Parts, p

\* The branch on the path of the key, and where it leads its numbers.
OnPath(see, path, level, key) ==
    LET p == path[level][key]
        es == see[p].entries
    IN  /\ IsBranch(see[p]) /\ AreChildren(es) /\ p \in DOMAIN see /\ p \in Page
        /\ IndexIn(see, path, level, key) = Index(es, key)
        /\ Index(es, key) \in 1..Len(es)
        /\ \A k \in Nat : path[level][k] = p => IndexIn(see, path, level, k) = Index(es, k)
        /\ \A j \in Nat : Beside(see, path, level, j, key)
                          <=> path[level][j] = p /\ Index(es, j) = Index(es, key)
        /\ \A k \in Nat : path[level][k] = p /\ Index(es, k) # Index(es, key) =>
              LET e == es[Index(es, k)]
              IN  e.page = path[level - 1][k] /\ e.sum = see[path[level - 1][k]]
        /\ \A x \in 1..Len(es) : \E j \in Nat : path[level][j] = p /\ Index(es, j) = x
        /\ \A j, k \in Nat : /\ path[level][j] = p /\ path[level][k] = p
                             /\ path[level - 1][j] = path[level - 1][k]
                             => Index(es, j) = Index(es, k)

\* On every level above the leaves there is a branch on the path of a key.
LEMMA BranchOfKey ==
    ASSUME NEW see, NEW path, NEW h, NEW level \in 2..h, NEW key \in Nat, NEW low,
           Tree(see, path, h, low, key)
    PROVE  OnPath(see, path, level, key)
<1> DEFINE p == path[level][key]
           es == see[p].entries
<1>1. BranchLevel(see, path, level, low, key) /\ p \in Page BY TreeFacts
<1>2. /\ p \in DOMAIN see /\ IsBranch(see[p])
      /\ \A j, k \in Nat : path[level - 1][j] = path[level - 1][k] => Beside(see, path, level, j, k)
      /\ \A x \in 1..Len(es) :
            \E j \in Nat : path[level][j] = p /\ IndexIn(see, path, level, j) = x
      /\ \A k \in Nat : ~Beside(see, path, level, k, key) => Leads(see, path, level, k)
  BY <1>1 DEF BranchLevel
<1>3. p = path[level][key] OBVIOUS
<1> HIDE DEF p
<1>4. \A k \in Nat : path[level][k] = p => IndexIn(see, path, level, k) = Index(es, k)
  BY DEF IndexIn
<1>5. AreChildren(es) BY <1>2, BranchFacts
<1>6. Index(es, key) \in 1..Len(es) /\ IndexIn(see, path, level, key) = Index(es, key)
  BY <1>3, <1>4, <1>5, ChildrenFacts
<1>7. \A j \in Nat : Beside(see, path, level, j, key)
                     <=> path[level][j] = p /\ Index(es, j) = Index(es, key)
  BY <1>3, <1>4, <1>6 DEF Beside
<1>8. \A k \in Nat : path[level][k] = p /\ Index(es, k) # Index(es, key) =>
         /\ es[Index(es, k)].page = path[level - 1][k]
         /\ es[Index(es, k)].sum = see[path[level - 1][k]]
  BY <1>2, <1>4, <1>7 DEF Leads
<1>9. \A x \in 1..Len(es) : \E j \in Nat : path[level][j] = p /\ Index(es, j) = x
  BY <1>2, <1>4
<1>10. \A j, k \in Nat : /\ path[level][j] = p /\ path[level][k] = p
                         /\ path[level - 1][j] = path[level - 1][k]
                         => Index(es, j) = Index(es, k)
  BY <1>2, <1>4 DEF Beside
<1> QED BY <1>1, <1>2, <1>4, <1>5, <1>6, <1>7, <1>8, <1>9, <1>10 DEF OnPath, p

\* replace_child: the child was not split.
LEMMA ChildReplaced ==
    ASSUME NEW see, NEW path, NEW h, NEW level \in 2..h, NEW key \in Nat,
           Tree(see, path, h, level, key), NEW page \in Page, NEW sum, see[page] = sum,
           \A k \in Nat : Beside(see, path, level, k, key) => path[level - 1][k] = page
    PROVE  LET p == path[level][key]
               new == set_child_at_index(see[p], IndexIn(see, path, level, key), page, sum)
           IN  IsBranch(new) /\ Covers(new.entries, see, path, level, p)
<1> DEFINE p == path[level][key]
           b == see[p]
           es == b.entries
           x == Index(es, key)
           new == set_child_at_index(b, x, page, sum)
<1>0. OnPath(see, path, level, key) BY BranchOfKey
<1>1. /\ IsBranch(b) /\ x \in 1..Len(es) /\ IndexIn(see, path, level, key) = x
      /\ \A j \in Nat : Beside(see, path, level, j, key) <=> path[level][j] = p /\ Index(es, j) = x
      /\ \A k \in Nat : path[level][k] = p /\ Index(es, k) # x =>
            LET e == es[Index(es, k)]
            IN  e.page = path[level - 1][k] /\ e.sum = see[path[level - 1][k]]
      /\ \A y \in 1..Len(es) : \E j \in Nat : path[level][j] = p /\ Index(es, j) = y
      /\ \A j, k \in Nat : /\ path[level][j] = p /\ path[level][k] = p
                           /\ path[level - 1][j] = path[level - 1][k]
                           => Index(es, j) = Index(es, k)
  BY <1>0 DEF OnPath
<1>2. AreChildren(es) BY <1>1, BranchFacts
<1>3. \A k \in Nat : Index(es, k) \in 1..Len(es) BY <1>2, ChildrenFacts
<1> HIDE DEF x
<1>4. /\ IsBranch(new) /\ Len(new.entries) = Len(es)
      /\ new.entries[x].page = page /\ new.entries[x].sum = sum
      /\ \A i \in 1..Len(es) : i # x => new.entries[i] = es[i]
      /\ \A k \in Nat : Index(new.entries, k) = Index(es, k)
  <2>1. PICK y \in 1..Len(es) : y = x BY <1>1
  <2>2. IsBranch(b) BY <1>1
  <2> HIDE DEF p
  <2>3. LET c == set_child_at_index(b, y, page, sum)
        IN  /\ IsBranch(c) /\ Len(c.entries) = Len(es)
            /\ c.entries[y].page = page /\ c.entries[y].sum = sum
            /\ \A i \in 1..Len(es) : i # y => c.entries[i] = es[i]
            /\ \A k \in Nat : Index(c.entries, k) = Index(es, k)
    BY <2>2, ChildSet
  <2> QED BY <2>1, <2>3
<1> HIDE DEF p, new
<1>5. ASSUME NEW k \in Nat, path[level][k] = p
      PROVE  /\ new.entries[Index(new.entries, k)].page = path[level - 1][k]
             /\ new.entries[Index(new.entries, k)].sum = see[path[level - 1][k]]
  <2>1. PICK i \in 1..Len(es) : i = Index(es, k) /\ i = Index(new.entries, k) BY <1>3, <1>4
  <2>2. CASE i = x
    <3>1. path[level - 1][k] = page BY <2>1, <2>2, <1>1, <1>5
    <3> QED BY <3>1, <2>1, <2>2, <1>4
  <2>3. CASE i # x
    <3>1. new.entries[i] = es[i] BY <2>3, <1>4
    <3>2. es[i].page = path[level - 1][k] /\ es[i].sum = see[path[level - 1][k]]
      BY <2>1, <2>3, <1>1, <1>5
    <3> QED BY <3>1, <3>2, <2>1
  <2> QED BY <2>2, <2>3
<1>6. Covers(new.entries, see, path, level, p) BY <1>1, <1>4, <1>5 DEF Covers
<1> QED BY <1>1, <1>4, <1>6 DEF p, new

\* The branch on the path of the key has taken a page as its child; the tree's others
\* are as they were.
HasTaken(see, path, h, level, key, page, sum, see2) ==
    /\ path[level][key] \in DOMAIN see2
    /\ see2[path[level][key]] = set_child_at_index(see[path[level][key]],
                                  IndexIn(see, path, level, key), page, sum)
    /\ \A t \in TreeOf(path, h) : t # path[level][key] =>
          t \in DOMAIN see2 /\ see2[t] = see[t]

\* The tree with this child, whose other half is still in no branch.
Pends(see, path, h, level, key, page, sum, see2) ==
    /\ Tree(see2, path, h, level, key)
    /\ \A map : Holds(see, path, map) => Holds(see2, path, map)
    /\ \A k \in Nat : IndexIn(see2, path, level, k) = IndexIn(see, path, level, k)
    /\ LET e == see2[path[level][key]].entries[IndexIn(see, path, level, key)]
       IN  e.page = page /\ e.sum = sum

\* replace_child: the child was split.
LEMMA ChildPending ==
    ASSUME NEW see, NEW path, NEW h, NEW level \in 2..h, NEW key \in Nat,
           Tree(see, path, h, level, key), NEW page \in Page, NEW sum,
           NEW see2, HasTaken(see, path, h, level, key, page, sum, see2)
    PROVE  Pends(see, path, h, level, key, page, sum, see2)
<1> SUFFICES
      ASSUME path[level][key] \in DOMAIN see2,
             see2[path[level][key]] = set_child_at_index(see[path[level][key]],
                                        IndexIn(see, path, level, key), page, sum),
             \A t \in TreeOf(path, h) : t # path[level][key] =>
                t \in DOMAIN see2 /\ see2[t] = see[t]
      PROVE  /\ Tree(see2, path, h, level, key)
             /\ \A map : Holds(see, path, map) => Holds(see2, path, map)
             /\ \A k \in Nat : IndexIn(see2, path, level, k) = IndexIn(see, path, level, k)
             /\ LET e == see2[path[level][key]].entries[IndexIn(see, path, level, key)]
                IN  e.page = page /\ e.sum = sum
  BY DEF HasTaken, Pends
<1> DEFINE p == path[level][key]
           b == see[p]
           es == b.entries
           x == Index(es, key)
           new == set_child_at_index(b, x, page, sum)
<1>1. /\ h \in Nat /\ IsPath(path, h) /\ 1 \in 1..h /\ level \in 1..h /\ level # 1 /\ level \in Nat
      /\ BranchLevel(see, path, level, level, key) /\ level - 1 \in 1..h /\ level - 1 # level
      /\ \A r, s \in 1..h : \A j, k \in Nat : path[r][j] = path[s][k] => r = s
  BY TreeFacts
<1>0. OnPath(see, path, level, key) BY BranchOfKey
<1>2. IsBranch(b) /\ x \in 1..Len(es) /\ IndexIn(see, path, level, key) = x
  BY <1>0 DEF OnPath
<1>3. /\ IsBranch(new) /\ Len(new.entries) = Len(es)
      /\ new.entries[x].page = page /\ new.entries[x].sum = sum
      /\ \A i \in 1..Len(es) : i # x => new.entries[i] = es[i]
      /\ \A k \in Nat : Index(new.entries, k) = Index(es, k)
  <2> HIDE DEF x
  <2> QED BY <1>2, ChildSet
<1>4. see2[p] = new /\ p \in DOMAIN see2 BY <1>2
<1>5. \A r \in 1..h : \A k \in Nat :
         path[r][k] # p => path[r][k] \in DOMAIN see2 /\ see2[path[r][k]] = see[path[r][k]]
  BY <1>1, TreeOfFacts
<1>6. \A r \in 1..h : \A k \in Nat : r # level => path[r][k] # p BY <1>1
<1>7. p = path[level][key] OBVIOUS
<1> HIDE DEF p, new
<1>8. \A k \in Nat : /\ path[level][k] \in DOMAIN see2 /\ IsBranch(see2[path[level][k]])
                     /\ Len(see2[path[level][k]].entries) = Len(see[path[level][k]].entries)
                     /\ IndexIn(see2, path, level, k) = IndexIn(see, path, level, k)
  <2> SUFFICES ASSUME NEW k \in Nat
               PROVE  /\ path[level][k] \in DOMAIN see2 /\ IsBranch(see2[path[level][k]])
                      /\ Len(see2[path[level][k]].entries) = Len(see[path[level][k]].entries)
                      /\ IndexIn(see2, path, level, k) = IndexIn(see, path, level, k)
    OBVIOUS
  <2>1. CASE path[level][k] = p BY <2>1, <1>3, <1>4 DEF IndexIn
  <2>2. CASE path[level][k] # p BY <2>2, <1>1, <1>5 DEF IndexIn, BranchLevel
  <2> QED BY <2>1, <2>2
<1>9. \A j, k \in Nat : Beside(see2, path, level, j, k) <=> Beside(see, path, level, j, k)
  BY <1>8 DEF Beside
<1>10. ASSUME NEW k \in Nat, ~Beside(see2, path, level, k, key)
       PROVE  Leads(see2, path, level, k)
  <2>1. Leads(see, path, level, k) BY <1>1, <1>9, <1>10 DEF BranchLevel
  <2>2. see2[path[level - 1][k]] = see[path[level - 1][k]] BY <1>1, <1>5, <1>6
  <2>3. CASE path[level][k] = p
    <3>1. IndexIn(see, path, level, k) = Index(es, k) /\ IndexIn(see2, path, level, k) = Index(es, k)
      BY <2>3, <1>8 DEF IndexIn
    <3>2. Index(es, k) # x BY <3>1, <2>3, <1>2, <1>7, <1>9, <1>10 DEF Beside
    <3>3. AreChildren(es) BY <1>2, BranchFacts
    <3>4. Index(es, k) \in 1..Len(es) BY <3>3, ChildrenFacts
    <3>5. new.entries[Index(es, k)] = es[Index(es, k)] BY <3>2, <3>4, <1>3
    <3> QED BY <3>1, <3>5, <2>1, <2>2, <2>3, <1>4 DEF Leads
  <2>4. CASE path[level][k] # p BY <2>1, <2>2, <2>4, <1>1, <1>5, <1>8 DEF Leads
  <2> QED BY <2>3, <2>4
<1>11. BranchLevel(see2, path, level, level, key)
  <2>1. ASSUME NEW k \in Nat, NEW y \in 1..Len(see2[path[level][k]].entries)
        PROVE  \E j \in Nat : path[level][j] = path[level][k] /\ IndexIn(see2, path, level, j) = y
    <3>1. y \in 1..Len(see[path[level][k]].entries) BY <1>8
    <3>2. PICK j \in Nat : path[level][j] = path[level][k] /\ IndexIn(see, path, level, j) = y
      BY <3>1, <1>1 DEF BranchLevel
    <3> QED BY <3>2, <1>8
  <2>2. \A j, k \in Nat : path[level - 1][j] = path[level - 1][k] => Beside(see2, path, level, j, k)
    BY <1>1, <1>9 DEF BranchLevel
  <2>3. \A k \in Nat : level < level \/ ~Beside(see2, path, level, k, key)
                       => Leads(see2, path, level, k)
    BY <1>1, <1>10
  <2>4. \A k \in Nat : path[level][k] \in DOMAIN see2 /\ IsBranch(see2[path[level][k]])
    BY <1>8
  <2> QED BY <2>1, <2>2, <2>3, <2>4 DEF BranchLevel
<1>12. Tree(see2, path, h, level, key)
  <2>1. Level(see2, path, level, level, key) BY <1>1, <1>11 DEF Level
  <2>2. Changed(see, path, h, level, key, see2, path) BY <1>1, <1>7 DEF Changed
  <2>3. PICK last : last = level OBVIOUS
  <2> QED BY <2>1, <2>2, <2>3, <1>1, LevelsAround
<1>13. \A map : Holds(see, path, map) => Holds(see2, path, map)
  <2>1. \A k \in Key : k \in Nat BY KeyAssumption
  <2>2. \A k \in Key : see2[path[1][k]] = see[path[1][k]] BY <2>1, <1>1, <1>5, <1>6
  <2> QED BY <2>2 DEF Holds
<1> QED BY <1>2, <1>3, <1>4, <1>8, <1>12, <1>13 DEF p

\* The numbers that go to the child for the key go to two pages, from sep on to the right one.
Forked(see, path, level, key, page, sep, right) ==
    LET e == see[path[level][key]].entries[IndexIn(see, path, level, key)]
    IN  /\ page \in Page /\ right \in Page /\ right # page /\ sep \in Key
        /\ e.page = page /\ e.sum = see[page]
        /\ \A k \in Nat : Beside(see, path, level, k, key) =>
              path[level - 1][k] = IF sep <= k THEN right ELSE page
        /\ \E low, high \in Nat : /\ Beside(see, path, level, low, key) /\ low < sep
                                  /\ Beside(see, path, level, high, key) /\ sep <= high

\* The entries of the branch b with the new child.
Enlarged(b, see, path, level, key, sep, right) ==
    LET new == branch_insert(b, sep, right, see[right])
    IN  /\ AreChildren(new.entries) /\ Covers(new.entries, see, path, level, path[level][key])
        /\ BranchBuilder(b, sep, right, see[right]) = new.entries
        /\ fits(b, KeySize[sep]) => IsBranch(new)

\* insert_into_branch, or split_page of a branch: the entries with the new child.
LEMMA ChildGrown ==
    ASSUME NEW see, NEW path, NEW h, NEW level \in 2..h, NEW key \in Nat,
           Tree(see, path, h, level, key), NEW page, NEW sep, NEW right,
           Forked(see, path, level, key, page, sep, right)
    PROVE  Enlarged(see[path[level][key]], see, path, level, key, sep, right)
<1> DEFINE p == path[level][key]
           b == see[p]
           es == b.entries
           x == Index(es, key)
           right_sum == see[right]
           new == branch_insert(b, sep, right, right_sum)
           fs == new.entries
<1>0. OnPath(see, path, level, key) BY BranchOfKey
<1>f. /\ page \in Page /\ right \in Page /\ right # page /\ sep \in Key
      /\ b.entries[IndexIn(see, path, level, key)].page = page
      /\ b.entries[IndexIn(see, path, level, key)].sum = see[page]
      /\ \A k \in Nat : Beside(see, path, level, k, key) =>
            path[level - 1][k] = IF sep <= k THEN right ELSE page
      /\ \E low, high \in Nat : /\ Beside(see, path, level, low, key) /\ low < sep
                                /\ Beside(see, path, level, high, key) /\ sep <= high
  BY DEF Forked
<1>g. PICK low \in Nat, high \in Nat :
         /\ Beside(see, path, level, low, key) /\ low < sep
         /\ Beside(see, path, level, high, key) /\ sep <= high
  BY <1>f
<1>1. /\ IsBranch(b) /\ x \in 1..Len(es) /\ IndexIn(see, path, level, key) = x
      /\ \A j \in Nat : Beside(see, path, level, j, key) <=> path[level][j] = p /\ Index(es, j) = x
      /\ \A k \in Nat : path[level][k] = p /\ Index(es, k) # x =>
            LET e == es[Index(es, k)]
            IN  e.page = path[level - 1][k] /\ e.sum = see[path[level - 1][k]]
      /\ \A y \in 1..Len(es) : \E j \in Nat : path[level][j] = p /\ Index(es, j) = y
      /\ \A j, k \in Nat : /\ path[level][j] = p /\ path[level][k] = p
                           /\ path[level - 1][j] = path[level - 1][k]
                           => Index(es, j) = Index(es, k)
  BY <1>0 DEF OnPath
<1>2. AreChildren(es) /\ sep \in Nat BY <1>1, <1>f, BranchFacts, KeyAssumption
<1>3. Len(es) \in Nat /\ \A k \in Nat : Index(es, k) \in 1..Len(es) BY <1>2, ChildrenFacts
<1>x. Len(es) \in Nat /\ x \in 1..Len(es) BY <1>1, <1>3
<1>4. es[x].page = page /\ es[x].sum = see[page] BY <1>1, <1>f
<1>5. /\ path[level][low] = p /\ Index(es, low) = x
      /\ path[level][high] = p /\ Index(es, high) = x
  BY <1>1, <1>g
<1> HIDE DEF x
<1>6. \A j, k \in Nat : j <= k => Index(es, j) <= Index(es, k) BY <1>2, IndexGrows
<1>7. Index(es, sep) = x
  <2>1. low <= sep /\ sep <= high BY <1>2, <1>g
  <2>2. Index(es, low) <= Index(es, sep) /\ Index(es, sep) <= Index(es, high)
    BY <2>1, <1>2, <1>6
  <2>3. Index(es, sep) \in 1..Len(es) BY <1>2, <1>3
  <2> QED BY <2>2, <2>3, <1>x, <1>5
<1>8. /\ BranchBuilder(b, sep, right, right_sum) = fs
      /\ Grown(fs, es, x, sep, right, right_sum)
      /\ fits(b, KeySize[sep]) => IsBranch(new)
  <2>1. Index(es, low) = Index(es, sep) /\ low < sep /\ low \in Nat BY <1>5, <1>7, <1>g
  <2>2. right \in Page /\ sep \in Key /\ IsBranch(b) BY <1>1, <1>f
  <2>3. PICK sum : sum = right_sum OBVIOUS
  <2> HIDE DEF p, right_sum
  <2>4. LET c == branch_insert(b, sep, right, sum)
        IN  /\ BranchBuilder(b, sep, right, sum) = c.entries
            /\ Grown(c.entries, es, Index(es, sep), sep, right, sum)
            /\ fits(b, KeySize[sep]) => IsBranch(c)
    BY <2>1, <2>2, ChildInserted
  <2> QED BY <2>3, <2>4, <1>7
<1> HIDE DEF fs, right_sum
<1>9. /\ AreChildren(fs) /\ Len(fs) = Len(es) + 1
      /\ fs[x + 1].page = right /\ fs[x + 1].sum = right_sum
      /\ \A i \in 1..x : fs[i].page = es[i].page /\ fs[i].sum = es[i].sum
      /\ \A i \in (x + 1)..Len(es) : fs[i + 1].page = es[i].page /\ fs[i + 1].sum = es[i].sum
      /\ \A k \in Nat : Index(fs, k) = Index(es, k) + IF sep <= k THEN 1 ELSE 0
  BY <1>8 DEF Grown
<1>10. \A k \in Nat : /\ Index(es, k) < x => ~(sep <= k)
                      /\ Index(es, k) > x => sep <= k
  <2> SUFFICES ASSUME NEW k \in Nat
               PROVE  (Index(es, k) < x => ~(sep <= k)) /\ (Index(es, k) > x => sep <= k)
    OBVIOUS
  <2>1. sep <= k => x <= Index(es, k) BY <1>2, <1>6, <1>7
  <2>2. k <= sep => Index(es, k) <= x BY <1>2, <1>6, <1>7
  <2>3. PICK i \in 1..Len(es) : i = Index(es, k) BY <1>3
  <2> QED BY <2>1, <2>2, <2>3, <1>2, <1>x
<1> HIDE DEF p, b, es
<1>11. ASSUME NEW k \in Nat, path[level][k] = p
       PROVE  /\ fs[Index(fs, k)].page = path[level - 1][k]
              /\ fs[Index(fs, k)].sum = see[path[level - 1][k]]
  <2>1. PICK i \in 1..Len(es) : i = Index(es, k) BY <1>3
  <2>2. Index(fs, k) = i + IF sep <= k THEN 1 ELSE 0 BY <2>1, <1>9
  <2>3. i # x => es[i].page = path[level - 1][k] /\ es[i].sum = see[path[level - 1][k]]
    BY <2>1, <1>1, <1>11
  <2>4. CASE i < x
    <3>0. ~(sep <= k) BY <2>1, <2>4, <1>10
    <3>1. Index(fs, k) = i /\ i \in 1..x /\ i # x BY <3>0, <2>2, <2>4, <1>x
    <3> QED BY <3>1, <2>3, <1>9
  <2>5. CASE i > x
    <3>0. sep <= k BY <2>1, <2>5, <1>10
    <3>1. Index(fs, k) = i + 1 /\ i \in (x + 1)..Len(es) /\ i # x
      BY <3>0, <2>2, <2>5, <1>x
    <3> QED BY <3>1, <2>3, <1>9
  <2>6. CASE i = x /\ sep <= k
    <3>1. Index(fs, k) = x + 1 BY <2>2, <2>6
    <3>2. path[level - 1][k] = right BY <2>1, <2>6, <1>1, <1>11, <1>f
    <3> QED BY <3>1, <3>2, <1>9 DEF right_sum
  <2>7. CASE i = x /\ ~(sep <= k)
    <3>1. Index(fs, k) = x /\ x \in 1..x BY <2>2, <2>7, <1>1, <1>3
    <3>2. path[level - 1][k] = page BY <2>1, <2>7, <1>1, <1>11, <1>f
    <3> QED BY <3>1, <3>2, <1>4, <1>9
  <2> QED BY <2>4, <2>5, <2>6, <2>7, <1>x
<1>12. ASSUME NEW y \in 1..Len(fs)
       PROVE  \E j \in Nat : path[level][j] = p /\ Index(fs, j) = y
  <2>0. y \in 1..(Len(es) + 1) BY <1>9
  <2>1. CASE y < x
    <3>1. y \in 1..Len(es) BY <2>0, <2>1, <1>x
    <3>2. PICK j \in Nat : path[level][j] = p /\ Index(es, j) = y BY <3>1, <1>1
    <3>3. Index(fs, j) = y BY <3>1, <3>2, <2>1, <1>9, <1>10
    <3> QED BY <3>2, <3>3
  <2>2. CASE y = x
    <3>1. ~(sep <= low) BY <1>2, <1>g
    <3>2. Index(fs, low) = x BY <3>1, <1>x, <1>5, <1>9
    <3> QED BY <3>2, <2>2, <1>5
  <2>3. CASE y = x + 1
    <3>1. Index(fs, high) = x + 1 BY <1>5, <1>9, <1>g
    <3> QED BY <3>1, <2>3, <1>5
  <2>4. CASE y > x + 1
    <3>1. y - 1 \in 1..Len(es) /\ y - 1 > x /\ (y - 1) + 1 = y BY <2>0, <2>4, <1>x
    <3>2. PICK j \in Nat : path[level][j] = p /\ Index(es, j) = y - 1 BY <3>1, <1>1
    <3>3. sep <= j BY <3>1, <3>2, <1>10
    <3>4. Index(fs, j) = y BY <3>1, <3>2, <3>3, <1>9
    <3> QED BY <3>2, <3>4
  <2> QED BY <2>0, <2>1, <2>2, <2>3, <2>4, <1>x
<1>13. ASSUME NEW j \in Nat, NEW k \in Nat, path[level][j] = p, path[level][k] = p,
              path[level - 1][j] = path[level - 1][k]
       PROVE  Index(fs, j) = Index(fs, k)
  <2>1. PICK i \in 1..Len(es) : i = Index(es, j) /\ i = Index(es, k) BY <1>1, <1>3, <1>13
  <2>2. Index(fs, j) = i + (IF sep <= j THEN 1 ELSE 0)
        /\ Index(fs, k) = i + (IF sep <= k THEN 1 ELSE 0)
    BY <2>1, <1>9
  <2>3. sep <= j <=> sep <= k
    <3>1. CASE i < x
      <4>1. ~(sep <= j) /\ ~(sep <= k) BY <2>1, <3>1, <1>10
      <4> QED BY <4>1
    <3>2. CASE i > x
      <4>1. sep <= j /\ sep <= k BY <2>1, <3>2, <1>10
      <4> QED BY <4>1
    <3>3. CASE i = x
      <4>1. /\ path[level - 1][j] = IF sep <= j THEN right ELSE page
            /\ path[level - 1][k] = IF sep <= k THEN right ELSE page
        BY <2>1, <3>3, <1>1, <1>13, <1>f
      <4> QED BY <4>1, <1>13, <1>f
    <3> QED BY <3>1, <3>2, <3>3, <1>x
  <2> QED BY <2>2, <2>3
<1>14. Covers(fs, see, path, level, p) BY <1>11, <1>12, <1>13 DEF Covers
<1> QED BY <1>8, <1>9, <1>14 DEF Enlarged, p, b, fs, right_sum

\* grow_root: a level more.
Raised(path, h, q) == [r \in 1..(h + 1) |-> IF r = h + 1 THEN [k \in Nat |-> q] ELSE path[r]]

\* The two pages the old root left, and the page that becomes the new one.
Topped(path, h, page, sep, right) ==
    /\ page \in Page /\ right \in Page /\ right # page /\ sep \in Key
    /\ \A k \in Nat : path[h][k] = IF sep <= k THEN right ELSE page
NewRoot(see, page, sep, right, c, es) ==
    /\ AreChildren(es) /\ IsBranch(c) /\ Alike(c.entries, es)
    /\ es = new_root(page, see[page], sep, right, see[right])
Added(see, path, h, q, c, see2) ==
    /\ q \in Page /\ q \notin TreeOf(path, h) /\ q \in DOMAIN see2 /\ see2[q] = c
    /\ \A t \in TreeOf(path, h) : t \in DOMAIN see2 /\ see2[t] = see[t]
Crowned(see, path, h, q, see2, path2, top, last, any) ==
    /\ Tree(see2, path2, top, last, any)
    /\ \A map : Holds(see, path, map) => Holds(see2, path2, map)
    /\ TreeOf(path2, top) = TreeOf(path, h) \cup {q}
    /\ \A k \in Nat : path2[top][k] = q

\* A tree under a new root of two children is a tree, one level higher.
LEMMA RootGrown ==
    ASSUME NEW see, NEW path, NEW h, NEW key \in Nat, NEW low \in Nat, low > h,
           Tree(see, path, h, low, key),
           NEW page, NEW sep, NEW right, Topped(path, h, page, sep, right),
           NEW es, NEW c, NewRoot(see, page, sep, right, c, es),
           NEW q, NEW see2, Added(see, path, h, q, c, see2),
           NEW top, top = h + 1, NEW path2, path2 = Raised(path, h, q),
           NEW last, last = top + 1, NEW any \in Nat
    PROVE  Crowned(see, path, h, q, see2, path2, top, last, any)
<1>a. /\ page \in Page /\ right \in Page /\ right # page /\ sep \in Key
      /\ \A k \in Nat : path[h][k] = IF sep <= k THEN right ELSE page
  BY DEF Topped
<1>b. /\ AreChildren(es) /\ IsBranch(c) /\ Alike(c.entries, es)
      /\ es = new_root(page, see[page], sep, right, see[right])
  BY DEF NewRoot
<1>c. /\ q \in Page /\ q \notin TreeOf(path, h) /\ q \in DOMAIN see2 /\ see2[q] = c
      /\ \A t \in TreeOf(path, h) : t \in DOMAIN see2 /\ see2[t] = see[t]
  BY DEF Added
<1>1. /\ h \in Nat \ {0} /\ IsPath(path, h) /\ 1 \in 1..h /\ h \in 1..h
      /\ \A r \in 1..h : \A k \in Nat : path[r][k] \in Page
      /\ \A r, s \in 1..h : \A j, k \in Nat : path[r][j] = path[s][k] => r = s
      /\ LeafLevel(see, path)
      /\ \A r \in 2..h : r \in 1..h /\ r - 1 \in 1..h /\ BranchLevel(see, path, r, low, key)
  BY TreeFacts
<1>2. /\ top \in 2..top /\ top - 1 = h /\ 1..top = (1..h) \cup {top} /\ top \notin 1..h
      /\ top \in Nat
  BY <1>1
<1>3. /\ \A r \in 1..h : path2[r] = path[r]
      /\ \A k \in Nat : path2[top][k] = q
      /\ path2 \in [1..top -> [Nat -> Page]]
  <2>1. path2 = [r \in 1..top |-> IF r = top THEN [k \in Nat |-> q] ELSE path[r]] BY DEF Raised
  <2>2. path \in [1..h -> [Nat -> Page]] BY <1>1 DEF IsPath
  <2>3. [k \in Nat |-> q] \in [Nat -> Page] BY <1>c
  <2>4. \A r \in 1..top : path2[r] = IF r = top THEN [k \in Nat |-> q] ELSE path[r] BY <2>1
  <2>5. \A r \in 1..h : path2[r] = path[r] BY <2>4, <1>2
  <2>6. path2[top] = [k \in Nat |-> q] BY <2>4, <1>2
  <2>7. \A r \in 1..top : path2[r] \in [Nat -> Page] BY <2>2, <2>3, <2>5, <2>6, <1>2
  <2> QED BY <2>1, <2>5, <2>6, <2>7
<1>4. \A r \in 1..h : \A k \in Nat :
         /\ path[r][k] \in TreeOf(path, h) /\ path[r][k] # q
         /\ path[r][k] \in DOMAIN see2 /\ see2[path[r][k]] = see[path[r][k]]
         /\ path2[r][k] = path[r][k]
  BY <1>3, <1>c, TreeOfFacts
<1>5. ASSUME NEW r \in 1..top, NEW s \in 1..top, NEW j \in Nat, NEW k \in Nat,
             path2[r][j] = path2[s][k]
      PROVE  r = s
  <2>1. CASE r = top /\ s = top BY <2>1
  <2>2. CASE r = top /\ s # top
    <3>1. s \in 1..h BY <2>2, <1>2
    <3>2. path2[s][k] # q BY <3>1, <1>4
    <3> QED BY <3>2, <2>2, <1>3, <1>5
  <2>3. CASE r # top /\ s = top
    <3>1. r \in 1..h BY <2>3, <1>2
    <3>2. path2[r][j] # q BY <3>1, <1>4
    <3> QED BY <3>2, <2>3, <1>3, <1>5
  <2>4. CASE r # top /\ s # top
    <3>1. r \in 1..h /\ s \in 1..h BY <2>4, <1>2
    <3>2. path[r][j] = path[s][k] BY <3>1, <1>4, <1>5
    <3> QED BY <3>1, <3>2, <1>1
  <2> QED BY <2>1, <2>2, <2>3, <2>4
<1>6. Level(see2, path2, 1, last, any)
  <2>1. LeafLevel(see2, path2)
    <3> SUFFICES ASSUME NEW k \in Nat
                 PROVE  /\ path2[1][k] \in DOMAIN see2 /\ IsLeaf(see2[path2[1][k]])
                        /\ \A a \in Pairs(see2[path2[1][k]].entries) : path2[1][a[1]] = path2[1][k]
      BY DEF LeafLevel
    <3>1. /\ path2[1][k] = path[1][k] /\ path2[1][k] \in DOMAIN see2
          /\ see2[path2[1][k]] = see[path[1][k]] /\ path2[1] = path[1]
      BY <1>1, <1>3, <1>4
    <3> QED BY <3>1, <1>1 DEF LeafLevel
  <2> QED BY <2>1 DEF Level
<1>7. ASSUME NEW r \in 2..h PROVE Level(see2, path2, r, last, any)
  <2>1. BranchLevel(see, path, r, low, key) /\ r \in 1..h /\ r - 1 \in 1..h /\ r # 1 BY <1>1
  <2>2. /\ path2[r] = path[r] /\ path2[r - 1] = path[r - 1]
        /\ \A k \in Nat : see2[path[r][k]] = see[path[r][k]] /\ path[r][k] \in DOMAIN see2
        /\ \A k \in Nat : see2[path[r - 1][k]] = see[path[r - 1][k]]
    BY <2>1, <1>3, <1>4
  <2>3. r < low BY <1>1
  <2>4. \A k \in Nat : IndexIn(see2, path2, r, k) = IndexIn(see, path, r, k)
    BY <2>2 DEF IndexIn
  <2>5. \A j, k \in Nat : Beside(see2, path2, r, j, k) <=> Beside(see, path, r, j, k)
    BY <2>2, <2>4 DEF Beside
  <2>6. \A k \in Nat : Leads(see2, path2, r, k)
    <3>1. \A k \in Nat : Leads(see, path, r, k) BY <2>1, <2>3 DEF BranchLevel
    <3> QED BY <3>1, <2>2, <2>4 DEF Leads
  <2>7. /\ \A k \in Nat : path2[r][k] \in DOMAIN see2 /\ IsBranch(see2[path2[r][k]])
        /\ \A j, k \in Nat : path2[r - 1][j] = path2[r - 1][k] => Beside(see2, path2, r, j, k)
    BY <2>1, <2>2, <2>5 DEF BranchLevel
  <2>8. ASSUME NEW k \in Nat, NEW x \in 1..Len(see2[path2[r][k]].entries)
        PROVE  \E j \in Nat : path2[r][j] = path2[r][k] /\ IndexIn(see2, path2, r, j) = x
    <3>1. x \in 1..Len(see[path[r][k]].entries) BY <2>2
    <3>2. PICK j \in Nat : path[r][j] = path[r][k] /\ IndexIn(see, path, r, j) = x
      BY <3>1, <2>1 DEF BranchLevel
    <3> QED BY <3>2, <2>2, <2>4
  <2>9. BranchLevel(see2, path2, r, last, any) BY <2>6, <2>7, <2>8 DEF BranchLevel
  <2> QED BY <2>1, <2>9 DEF Level
<1>8. Level(see2, path2, top, last, any)
  <2>1. sep \in Nat BY <1>a, KeyAssumption
  <2>2. /\ Len(es) = 2 /\ es[1].page = page /\ es[1].sum = see[page]
        /\ es[2].page = right /\ es[2].sum = see[right]
        /\ \A k \in Nat : Index(es, k) = IF sep <= k THEN 2 ELSE 1
    BY <1>a, <1>b, RootFacts
  <2>3. /\ Len(c.entries) = 2 /\ c.entries[1].page = page /\ c.entries[1].sum = see[page]
        /\ c.entries[2].page = right /\ c.entries[2].sum = see[right]
        /\ \A k \in Nat : Index(c.entries, k) = IF sep <= k THEN 2 ELSE 1
    BY <2>2, <1>b DEF Alike
  <2>4. \A k \in Nat : IndexIn(see2, path2, top, k) = IF sep <= k THEN 2 ELSE 1
    BY <2>3, <1>3, <1>c DEF IndexIn
  <2>5. \A k \in Nat : path2[top - 1][k] = IF sep <= k THEN right ELSE page
    BY <1>a, <1>1, <1>2, <1>4
  <2>6. \A k \in Nat : see2[path2[top - 1][k]] = see[path2[top - 1][k]]
    BY <1>1, <1>2, <1>4
  <2>7. \A k \in Nat : Leads(see2, path2, top, k)
    <3> SUFFICES ASSUME NEW k \in Nat PROVE Leads(see2, path2, top, k) OBVIOUS
    <3>1. see2[path2[top][k]] = c BY <1>3, <1>c
    <3>2. CASE sep <= k
      <4>1. IndexIn(see2, path2, top, k) = 2 /\ path2[top - 1][k] = right
            /\ see2[path2[top - 1][k]] = see[right]
        BY <3>2, <2>4, <2>5, <2>6
      <4> QED BY <4>1, <3>1, <2>3 DEF Leads
    <3>3. CASE ~(sep <= k)
      <4>1. IndexIn(see2, path2, top, k) = 1 /\ path2[top - 1][k] = page
            /\ see2[path2[top - 1][k]] = see[page]
        BY <3>3, <2>4, <2>5, <2>6
      <4> QED BY <4>1, <3>1, <2>3 DEF Leads
    <3> QED BY <3>2, <3>3
  <2>8. \A j, k \in Nat : path2[top - 1][j] = path2[top - 1][k] => Beside(see2, path2, top, j, k)
    <3> SUFFICES ASSUME NEW j \in Nat, NEW k \in Nat, path2[top - 1][j] = path2[top - 1][k]
                 PROVE  Beside(see2, path2, top, j, k)
      OBVIOUS
    <3>1. page # right BY <1>a
    <3>2. sep <= j <=> sep <= k BY <3>1, <2>5
    <3>3. IndexIn(see2, path2, top, j) = IndexIn(see2, path2, top, k) BY <3>2, <2>4
    <3>4. path2[top][j] = path2[top][k] BY <1>3
    <3> QED BY <3>3, <3>4 DEF Beside
  <2>9. ASSUME NEW k \in Nat, NEW x \in 1..Len(see2[path2[top][k]].entries)
        PROVE  \E j \in Nat : path2[top][j] = path2[top][k] /\ IndexIn(see2, path2, top, j) = x
    <3>1. x = 1 \/ x = 2
      <4>1. see2[path2[top][k]] = c BY <1>3, <1>c
      <4>2. x \in 1..2 BY <4>1, <2>3
      <4> QED BY <4>2
    <3>2. CASE x = 1
      <4>1. 0 \in Nat /\ ~(sep <= 0) BY <2>1, <1>a, KeyAssumption
      <4> QED BY <4>1, <3>2, <2>4, <1>3
    <3>3. CASE x = 2 BY <3>3, <2>1, <2>4, <1>3
    <3> QED BY <3>1, <3>2, <3>3
  <2>10. \A k \in Nat : path2[top][k] \in DOMAIN see2 /\ IsBranch(see2[path2[top][k]])
    BY <1>3, <1>b, <1>c
  <2>11. BranchLevel(see2, path2, top, last, any) BY <2>7, <2>8, <2>9, <2>10 DEF BranchLevel
  <2> QED BY <2>11, <1>1, <1>2 DEF Level
<1>9. Tree(see2, path2, top, last, any)
  <2>1. ASSUME NEW r \in 1..top PROVE Level(see2, path2, r, last, any)
    <3>1. r = top \/ r = 1 \/ r \in 2..h BY <1>1, <1>2
    <3> QED BY <3>1, <1>6, <1>7, <1>8
  <2>2. IsPath(path2, top) BY <1>1, <1>2, <1>3 DEF IsPath
  <2> QED BY <2>1, <2>2, <1>5 DEF Tree
<1>10. \A map : Holds(see, path, map) => Holds(see2, path2, map)
  <2>1. \A k \in Key : k \in Nat BY KeyAssumption
  <2>2. \A k \in Key : see2[path2[1][k]] = see[path[1][k]] BY <2>1, <1>1, <1>4
  <2> QED BY <2>2 DEF Holds
<1>11. TreeOf(path2, top) = TreeOf(path, h) \cup {q}
  <2>1. ASSUME NEW t \in TreeOf(path2, top) PROVE t \in TreeOf(path, h) \/ t = q
    <3>1. PICK r \in 1..top, k \in Nat : t = path2[r][k] BY TreeOfFacts
    <3> QED BY <3>1, <1>2, <1>3, <1>4
  <2>2. \A t \in TreeOf(path, h) : t \in TreeOf(path2, top)
    <3> SUFFICES ASSUME NEW t \in TreeOf(path, h) PROVE t \in TreeOf(path2, top) OBVIOUS
    <3>1. PICK r \in 1..h, k \in Nat : t = path[r][k] BY TreeOfFacts
    <3>2. t = path2[r][k] /\ r \in 1..top BY <3>1, <1>2, <1>4
    <3> QED BY <3>2, TreeOfFacts
  <2>3. q \in TreeOf(path2, top)
    <3>1. 0 \in Nat /\ path2[top][0] = q /\ top \in 1..top BY <1>2, <1>3
    <3>2. path2[top][0] \in TreeOf(path2, top) BY <3>1, TreeOfFacts
    <3> QED BY <3>1, <3>2
  <2> QED BY <2>1, <2>2, <2>3
<1> QED BY <1>3, <1>9, <1>10, <1>11 DEF Crowned

-----------------------------------------------------------------------------
(* An insert under way: its frames are the branches on the path of the key, *)
(* from the root down to the level low.                                     *)

IsCall(c) ==
    /\ DOMAIN c = {"step", "key", "value", "frames", "at", "result"}
    /\ c.step \in {"none", "enter", "leaf", "child", "branch", "root"}
    /\ c.key \in Nat
    /\ c.frames \in Seq([page : Page, index : Nat])

Low(c, h) == h + 1 - Len(c.frames)

\* All numbers go to the root.
BesideAt(see, path, h, r, k, key) == r > h \/ Beside(see, path, r, k, key)

IsFrame(see, path, dirty, key, frame, r) ==
    /\ frame.page = path[r][key] /\ frame.page \in dirty
    /\ r # 1 => frame.index = IndexIn(see, path, r, key)

Stacked(see, path, h, dirty, c) ==
    /\ Len(c.frames) \in 0..h
    /\ \A i \in 1..Len(c.frames) :
          IsFrame(see, path, dirty, c.key, c.frames[i], h + 1 - i)
    /\ \A r \in 2..(h + 1) : r > Low(c, h) \/ (r = Low(c, h) /\ c.step = "enter") =>
          \A k \in Nat : BesideAt(see, path, h, r, k, c.key) => path[r - 1][k] = path[r - 1][c.key]

\* Where the numbers go that went to the child.
Returned(res, k) == IF res.right # NoPage /\ res.key <= k THEN res.right ELSE res.page

IsResult(see, res) ==
    /\ res.page \in Page /\ res.sum = see[res.page]
    /\ res.right # NoPage =>
          /\ res.right \in Page /\ res.right # res.page
          /\ res.right_sum = see[res.right] /\ res.key \in Key

Comes(see, path, h, c) ==
    /\ IsResult(see, c.result)
    /\ \A k \in Nat : BesideAt(see, path, h, Low(c, h), k, c.key) =>
          path[Low(c, h) - 1][k] = Returned(c.result, k)
    /\ c.result.right # NoPage =>
          \E j, k \in Nat : /\ BesideAt(see, path, h, Low(c, h), j, c.key) /\ j < c.result.key
                            /\ BesideAt(see, path, h, Low(c, h), k, c.key) /\ c.result.key <= k

Stands(see, path, h, root, sum, c) ==
    /\ c.step = "none" => c = NoCall /\ (\A k \in Nat : path[h][k] = root) /\ sum = see[root]
    /\ c.step = "enter" => Low(c, h) \in 2..(h + 1) /\ c.at = path[Low(c, h) - 1][c.key]
    /\ c.step = "leaf" => Low(c, h) = 1
    /\ c.step \in {"child", "branch"} => Low(c, h) \in 2..h
    /\ c.step = "root" => Low(c, h) = h + 1
    /\ c.step \in {"child", "branch", "root"} => Comes(see, path, h, c)
    /\ c.step = "branch" =>
          LET e == see[path[Low(c, h)][c.key]].entries[IndexIn(see, path, Low(c, h), c.key)]
          IN  c.result.right # NoPage /\ e.page = c.result.page /\ e.sum = see[c.result.page]

\* The tree, with the insert under way.
Grafted(see, path, h, dirty, root, sum, c) ==
    /\ IsCall(c)
    /\ Tree(see, path, h, Low(c, h), c.key)
    /\ Stacked(see, path, h, dirty, c)
    /\ Stands(see, path, h, root, sum, c)

\* The innermost frame has put other pages in the place of its page.
Replaced(see, path, h, level, key, see2, path2, res) ==
    /\ Tree(see2, path2, h, level + 1, key)
    /\ \A r \in 1..h : r # level => path2[r] = path[r]
    /\ \A t \in TreeOf(path, h) : t # path[level][key] => see2[t] = see[t]
    /\ IsResult(see2, res)
    /\ \A k \in Nat : path[level][k] = path[level][key] => path2[level][k] = Returned(res, k)
    /\ res.right # NoPage =>
          \E j, k \in Nat : /\ path[level][j] = path[level][key] /\ j < res.key
                            /\ path[level][k] = path[level][key] /\ res.key <= k

Climbed(c, res) ==
    [c EXCEPT !.step = IF Front(c.frames) = <<>> THEN "root" ELSE "child",
              !.frames = Front(c.frames), !.result = res]

\* A stack without its last frame.
LEMMA FrontFacts ==
    ASSUME NEW S, NEW s \in Seq(S), Len(s) # 0
    PROVE  /\ Front(s) \in Seq(S) /\ Len(Front(s)) = Len(s) - 1
           /\ \A i \in 1..(Len(s) - 1) : Front(s)[i] = s[i]
           /\ Front(s) = <<>> <=> Len(s) = 1
           /\ Last(s) = s[Len(s)] /\ Len(s) \in DOMAIN s
<1> DEFINE l == Len(s)
<1>1. l \in Nat \ {0} /\ DOMAIN s = 1..l /\ \A i \in 1..l : s[i] \in S BY LenProperties
<1> HIDE DEF l
<1>2. \A i \in 1..(l - 1) : s[i] \in S BY <1>1
<1>3. /\ SubSeq(s, 1, l - 1) \in Seq(S)
      /\ Len(SubSeq(s, 1, l - 1)) = IF 1 <= l - 1 THEN (l - 1) - 1 + 1 ELSE 0
      /\ \A i \in 1..((l - 1) - 1 + 1) : SubSeq(s, 1, l - 1)[i] = s[1 + i - 1]
  BY <1>1, <1>2, SubSeqProperties
<1>4. Front(s) = SubSeq(s, 1, l - 1) BY DEF Front, l
<1>5. /\ Front(s) \in Seq(S) /\ Len(Front(s)) = l - 1
      /\ \A i \in 1..(l - 1) : Front(s)[i] = s[i]
  <2>1. Len(SubSeq(s, 1, l - 1)) = l - 1 BY <1>1, <1>3
  <2>2. \A i \in 1..(l - 1) : SubSeq(s, 1, l - 1)[i] = s[i] BY <1>1, <1>3
  <2> QED BY <2>1, <2>2, <1>3, <1>4
<1>6. Front(s) = <<>> <=> l = 1
  <2>1. PICK f \in Seq(S) : f = Front(s) BY <1>5
  <2>2. f = <<>> <=> Len(f) = 0 BY EmptySeq
  <2> QED BY <2>1, <2>2, <1>1, <1>5
<1>7. Last(s) = s[l] /\ l \in DOMAIN s BY <1>1 DEF Last, l
<1> QED BY <1>5, <1>6, <1>7 DEF l

\* The innermost frame has done its work.
FrameSteps == {"leaf", "child", "branch"}

\* Return.
LEMMA Climbs ==
    ASSUME NEW see, NEW path, NEW h, NEW dirty, NEW root, NEW sum, NEW c,
           Grafted(see, path, h, dirty, root, sum, c), c.step \in FrameSteps,
           NEW see2, NEW path2, NEW res, NEW dirty2, dirty \subseteq dirty2,
           Replaced(see, path, h, Low(c, h), c.key, see2, path2, res)
    PROVE  Grafted(see2, path2, h, dirty2, root, sum, Climbed(c, res))
<1> DEFINE key == c.key
           n == Len(c.frames)
           level == h + 1 - n
           top == Climbed(c, res)
           p == path[level][key]
<1>1. /\ IsCall(c) /\ Tree(see, path, h, level, key)
      /\ Stacked(see, path, h, dirty, c) /\ Stands(see, path, h, root, sum, c)
  BY DEF Grafted, Low
<1>2. /\ h \in Nat \ {0} /\ \A r \in 2..h : r \in 1..h /\ BranchLevel(see, path, r, level, key)
      /\ \A r, s \in 1..h : \A j, k \in Nat : path[r][j] = path[s][k] => r = s
  BY <1>1, TreeFacts
<1>3. n \in 0..h /\ c.frames \in Seq([page : Page, index : Nat]) /\ key \in Nat
  BY <1>1 DEF Stacked, IsCall
<1>4. level \in 1..h
  <2>1. c.step \in {"child", "branch"} \/ c.step = "leaf" BY DEF FrameSteps
  <2>2. level \in 2..h \/ level = 1 BY <2>1, <1>1 DEF Stands, Low
  <2> QED BY <2>2, <1>2
<1>s. /\ \A i \in 1..n : IsFrame(see, path, dirty, key, c.frames[i], h + 1 - i)
      /\ \A r \in 2..(h + 1) : r > level =>
            \A m \in Nat : BesideAt(see, path, h, r, m, key) => path[r - 1][m] = path[r - 1][key]
  BY <1>1 DEF Stacked, Low
<1>h. h \in Nat /\ 1 <= h BY <1>2
<1>n. n \in 1..h /\ n \in Nat
  <2>1. n \in 0..h /\ level \in 1..h BY <1>3, <1>4
  <2> HIDE DEF n
  <2> QED BY <2>1, <1>h
<1>5. n # 0 /\ n \in Nat BY <1>n, <1>h
<1>6. /\ Front(c.frames) \in Seq([page : Page, index : Nat]) /\ Len(Front(c.frames)) = n - 1
      /\ \A i \in 1..(n - 1) : Front(c.frames)[i] = c.frames[i]
      /\ Front(c.frames) = <<>> <=> n = 1
  BY <1>3, <1>5, FrontFacts
<1>7. /\ top.frames = Front(c.frames) /\ top.key = key /\ top.result = res
      /\ DOMAIN top = DOMAIN c
      /\ top.step = IF n = 1 THEN "root" ELSE "child"
  <2>1. DOMAIN c = {"step", "key", "value", "frames", "at", "result"} BY <1>1 DEF IsCall
  <2> HIDE DEF n
  <2> QED BY <2>1, <1>6 DEF Climbed
<1>8. /\ Tree(see2, path2, h, level + 1, key)
      /\ \A r \in 1..h : r # level => path2[r] = path[r]
      /\ \A t \in TreeOf(path, h) : t # p => see2[t] = see[t]
      /\ IsResult(see2, res)
      /\ \A k \in Nat : path[level][k] = p => path2[level][k] = Returned(res, k)
      /\ res.right # NoPage =>
            \E j, k \in Nat : /\ path[level][j] = p /\ j < res.key
                              /\ path[level][k] = p /\ res.key <= k
  BY DEF Replaced, Low
<1>9. Low(top, h) = level + 1
  <2>1. Len(top.frames) = n - 1 BY <1>6, <1>7
  <2> HIDE DEF top, n
  <2> QED BY <2>1, <1>n, <1>h DEF Low
<1> HIDE DEF top, p
<1>10. \A r \in 1..h : r # level => \A k \in Nat :
          /\ path2[r][k] = path[r][k] /\ see2[path[r][k]] = see[path[r][k]]
          /\ IndexIn(see2, path2, r, k) = IndexIn(see, path, r, k)
  <2> SUFFICES ASSUME NEW r \in 1..h, r # level, NEW k \in Nat
               PROVE  /\ path2[r][k] = path[r][k] /\ see2[path[r][k]] = see[path[r][k]]
                      /\ IndexIn(see2, path2, r, k) = IndexIn(see, path, r, k)
    OBVIOUS
  <2>1. path[r][k] \in TreeOf(path, h) BY TreeOfFacts
  <2>2. path[r][k] # p
    <3>1. PICK m \in 1..h, j \in Nat : m = level /\ j = key BY <1>3, <1>4
    <3>2. path[r][k] = path[m][j] => r = m BY <1>2
    <3> QED BY <3>1, <3>2 DEF p
  <2>3. path2[r][k] = path[r][k] /\ see2[path[r][k]] = see[path[r][k]]
    BY <2>1, <2>2, <1>8
  <2> QED BY <2>3 DEF IndexIn
<1> HIDE DEF level, n
<1>l. level = h + 1 - n /\ level \in 1..h /\ n \in 1..h /\ h \in Nat /\ 1 <= h
  BY <1>4, <1>n, <1>h DEF level
<1>11. \A r \in (level + 1)..(h + 1) : \A k \in Nat :
          BesideAt(see2, path2, h, r, k, key) <=> BesideAt(see, path, h, r, k, key)
  <2> SUFFICES ASSUME NEW r \in (level + 1)..(h + 1), NEW k \in Nat
               PROVE  BesideAt(see2, path2, h, r, k, key) <=> BesideAt(see, path, h, r, k, key)
    OBVIOUS
  <2>1. CASE r > h BY <2>1 DEF BesideAt
  <2>2. CASE ~(r > h)
    <3>1. r \in 1..h /\ r # level BY <2>2, <1>l
    <3> QED BY <3>1, <1>3, <1>10 DEF BesideAt, Beside
  <2> QED BY <2>1, <2>2
<1>12. IsCall(top) BY <1>1, <1>3, <1>6, <1>7 DEF IsCall
<1>13. Stacked(see2, path2, h, dirty2, top)
  <2>1. Len(top.frames) \in 0..h
    <3>1. Len(top.frames) = n - 1 BY <1>6, <1>7
    <3> QED BY <3>1, <1>l
  <2>2. ASSUME NEW i \in 1..Len(top.frames)
        PROVE  IsFrame(see2, path2, dirty2, top.key, top.frames[i], h + 1 - i)
    <3>1. i \in 1..(n - 1) /\ i \in 1..n /\ h + 1 - i \in 1..h /\ h + 1 - i # level
      <4>1. i \in 1..(n - 1) BY <2>2, <1>6, <1>7
      <4> QED BY <4>1, <1>l
    <3>2. top.frames[i] = c.frames[i] BY <3>1, <1>6, <1>7
    <3>3. PICK r \in 1..h : r = h + 1 - i BY <3>1
    <3>4. IsFrame(see, path, dirty, key, c.frames[i], r) BY <3>1, <3>3, <1>s
    <3>5. IsFrame(see2, path2, dirty2, key, c.frames[i], r)
      BY <3>1, <3>3, <3>4, <1>3, <1>10 DEF IsFrame
    <3> QED BY <3>2, <3>3, <3>5, <1>7
  <2>3. ASSUME NEW r \in 2..(h + 1), r > Low(top, h) \/ (r = Low(top, h) /\ top.step = "enter"),
               NEW k \in Nat, BesideAt(see2, path2, h, r, k, top.key)
        PROVE  path2[r - 1][k] = path2[r - 1][top.key]
    <3>1. top.step # "enter" BY <1>7
    <3>2. r > level + 1 BY <3>1, <2>3, <1>9
    <3>3. r \in (level + 1)..(h + 1) /\ r > level /\ r - 1 \in 1..h /\ r - 1 # level
      BY <3>2, <1>l
    <3>4. BesideAt(see, path, h, r, k, key) BY <3>3, <2>3, <1>7, <1>11
    <3>5. path[r - 1][k] = path[r - 1][key] BY <3>3, <3>4, <1>s
    <3> QED BY <3>3, <3>5, <1>3, <1>7, <1>10
  <2> QED BY <2>1, <2>2, <2>3 DEF Stacked
<1>14. \A k \in Nat : /\ BesideAt(see2, path2, h, level + 1, k, key) => path[level][k] = p
                      /\ path[level][k] = p => BesideAt(see2, path2, h, level + 1, k, key)
  <2> SUFFICES ASSUME NEW k \in Nat
               PROVE  BesideAt(see2, path2, h, level + 1, k, key) <=> path[level][k] = p
    OBVIOUS
  <2>1. level + 1 \in (level + 1)..(h + 1) /\ level + 1 \in 2..(h + 1) /\ level + 1 > level
        /\ (level + 1) - 1 = level
    BY <1>l
  <2>2. BesideAt(see2, path2, h, level + 1, k, key) <=> BesideAt(see, path, h, level + 1, k, key)
    BY <2>1, <1>11
  <2>3. ASSUME BesideAt(see, path, h, level + 1, k, key) PROVE path[level][k] = p
    <3> QED BY <2>1, <2>3, <1>s DEF p
  <2>4. ASSUME path[level][k] = p PROVE BesideAt(see, path, h, level + 1, k, key)
    <3>1. CASE level + 1 > h BY <3>1 DEF BesideAt
    <3>2. CASE ~(level + 1 > h)
      <4>1. level + 1 \in 2..h BY <3>2, <1>l
      <4>2. \A j, m \in Nat : path[(level + 1) - 1][j] = path[(level + 1) - 1][m]
                              => Beside(see, path, level + 1, j, m)
        BY <4>1, <1>2 DEF BranchLevel
      <4>3. Beside(see, path, level + 1, k, key) BY <4>2, <2>1, <2>4, <1>3 DEF p
      <4> QED BY <4>3 DEF BesideAt
    <3> QED BY <3>1, <3>2
  <2> QED BY <2>2, <2>3, <2>4
<1>15. Comes(see2, path2, h, top)
  <2>1. Low(top, h) - 1 = level BY <1>9, <1>l
  <2>2. \A k \in Nat : BesideAt(see2, path2, h, Low(top, h), k, key)
                       => path2[Low(top, h) - 1][k] = Returned(res, k)
    BY <2>1, <1>8, <1>9, <1>14
  <2>3. ASSUME res.right # NoPage
        PROVE  \E j, k \in Nat :
                  /\ BesideAt(see2, path2, h, Low(top, h), j, key) /\ j < res.key
                  /\ BesideAt(see2, path2, h, Low(top, h), k, key) /\ res.key <= k
    <3>1. PICK j \in Nat, k \in Nat : /\ path[level][j] = p /\ j < res.key
                                      /\ path[level][k] = p /\ res.key <= k
      BY <2>3, <1>8
    <3> QED BY <3>1, <1>9, <1>14
  <2> QED BY <2>2, <2>3, <1>7, <1>8 DEF Comes
<1>16. Stands(see2, path2, h, root, sum, top)
  <2>1. CASE n = 1
    <3>1. top.step = "root" /\ Low(top, h) = h + 1 BY <2>1, <1>7, <1>9, <1>l
    <3> QED BY <3>1, <1>15 DEF Stands
  <2>2. CASE n # 1
    <3>1. top.step = "child" /\ Low(top, h) \in 2..h
      <4>1. level + 1 \in 2..h BY <2>2, <1>l
      <4> QED BY <4>1, <2>2, <1>7, <1>9
    <3> QED BY <3>1, <1>15 DEF Stands
  <2> QED BY <2>1, <2>2
<1>17. Tree(see2, path2, h, Low(top, h), top.key) BY <1>7, <1>8, <1>9
<1> QED BY <1>12, <1>13, <1>16, <1>17 DEF Grafted, top

\* The next frame begins, with a page that stands where that of the tree stood.
Descended(c, page, content) ==
    LET leaf == content.kind = "leaf"
        index == IF leaf THEN 0 ELSE child_index_for_key(content, c.key)
    IN  [c EXCEPT !.step = IF leaf THEN "leaf" ELSE "enter",
                  !.frames = Append(@, [page |-> page, index |-> index]),
                  !.at = IF leaf THEN NoPage ELSE content.entries[index].page]

Copied(see, path, h, level, key, see2, path2) ==
    /\ Tree(see2, path2, h, level, key)
    /\ \A r \in 1..h : r # level => path2[r] = path[r]
    /\ \A r \in 1..h : \A k \in Nat : see2[path2[r][k]] = see[path[r][k]]
    /\ \A j, k \in Nat : path2[level][j] = path2[level][k] <=> path[level][j] = path[level][k]

\* An insert that goes down one level has one frame more, on the next page of the path.
LEMMA Descends ==
    ASSUME NEW see, NEW path, NEW h, NEW dirty, NEW root, NEW sum, NEW c,
           Grafted(see, path, h, dirty, root, sum, c), c.step = "enter",
           NEW level \in Nat, level + 1 = Low(c, h),
           NEW see2, NEW path2, Copied(see, path, h, level, c.key, see2, path2),
           NEW dirty2, dirty \subseteq dirty2,
           NEW page, page = path2[level][c.key], page \in dirty2
    PROVE  Grafted(see2, path2, h, dirty2, root, sum, Descended(c, page, see2[page]))
<1> DEFINE key == c.key
           n == Len(c.frames)
           content == see2[page]
           leaf == content.kind = "leaf"
           index == IF leaf THEN 0 ELSE child_index_for_key(content, key)
           frame == [page |-> page, index |-> index]
           d == Descended(c, page, content)
<1>1. /\ IsCall(c) /\ Tree(see, path, h, level + 1, key)
      /\ Stacked(see, path, h, dirty, c) /\ Stands(see, path, h, root, sum, c)
      /\ Low(c, h) = level + 1 /\ level \in 1..h /\ h \in Nat
  <2>1. Low(c, h) \in 2..(h + 1) BY DEF Grafted, Stands
  <2>2. h \in Nat BY TreeFacts DEF Grafted
  <2>3. Low(c, h) = level + 1 /\ level \in 1..h BY <2>1, <2>2
  <2> QED BY <2>2, <2>3 DEF Grafted
<1>2. /\ h \in Nat \ {0}
      /\ \A r \in 2..h : BranchLevel(see, path, r, level + 1, key)
  BY <1>1, TreeFacts
<1>3. c.frames \in Seq([page : Page, index : Nat]) /\ key \in Nat
      /\ DOMAIN c = {"step", "key", "value", "frames", "at", "result"}
  BY <1>1 DEF IsCall
<1>4. n \in Nat /\ n \in 0..h /\ 1 <= h /\ level = h - n
  <2>1. n \in 0..h BY <1>1 DEF Stacked
  <2>2. h + 1 - n = level + 1 BY <1>1 DEF Low
  <2> HIDE DEF n
  <2> QED BY <2>1, <2>2, <1>1, <1>2
<1>5. /\ Tree(see2, path2, h, level, key)
      /\ \A r \in 1..h : r # level => path2[r] = path[r]
      /\ \A r \in 1..h : \A k \in Nat : see2[path2[r][k]] = see[path[r][k]]
      /\ \A j, k \in Nat : path2[level][j] = path2[level][k] <=> path[level][j] = path[level][k]
  BY DEF Copied
<1>6. /\ \A r \in 1..h : \A k \in Nat : path2[r][k] \in Page
      /\ LeafLevel(see2, path2)
      /\ \A r \in 2..h : BranchLevel(see2, path2, r, level, key)
  BY <1>5, TreeFacts
<1>7. content = see2[path2[level][key]] OBVIOUS
<1>8. level = 1 => leaf
  BY <1>3, <1>6, <1>7, LeafFacts DEF LeafLevel
<1>9. level # 1 => /\ level \in 2..h /\ ~leaf /\ IsBranch(content)
                   /\ index = IndexIn(see2, path2, level, key) /\ index \in Nat
  <2> SUFFICES ASSUME level # 1
               PROVE  /\ level \in 2..h /\ ~leaf /\ IsBranch(content)
                      /\ index = IndexIn(see2, path2, level, key) /\ index \in Nat
    OBVIOUS
  <2>1. level \in 2..h BY <1>1
  <2>2. IsBranch(content) BY <2>1, <1>3, <1>6 DEF BranchLevel
  <2>3. content.kind = "branch" /\ AreChildren(content.entries) BY <2>2, BranchFacts
  <2>4. child_index_for_key(content, key) = Index(content.entries, key) BY IndexOfBranch
  <2>5. Index(content.entries, key) \in Nat
    <3>1. Index(content.entries, key) \in 1..Len(content.entries)
          /\ Len(content.entries) \in Nat
      BY <2>3, <1>3, ChildrenFacts
    <3> QED BY <3>1
  <2> QED BY <2>1, <2>2, <2>3, <2>4, <2>5 DEF IndexIn
<1>10. frame \in [page : Page, index : Nat] /\ frame.page = page /\ frame.index = index
  <2>1. index \in Nat BY <1>8, <1>9
  <2>2. page \in Page BY <1>1, <1>3, <1>6
  <2> HIDE DEF index
  <2> QED BY <2>1, <2>2
<1>11. /\ d.step = IF leaf THEN "leaf" ELSE "enter"
       /\ d.frames = Append(c.frames, frame)
       /\ d.at = IF leaf THEN NoPage ELSE content.entries[index].page
       /\ d.key = key /\ DOMAIN d = DOMAIN c
  <2> HIDE DEF content
  <2> QED BY <1>3 DEF Descended
<1> HIDE DEF d, frame, index, content
<1>12. /\ d.frames \in Seq([page : Page, index : Nat]) /\ Len(d.frames) = n + 1
       /\ \A i \in 1..n : d.frames[i] = c.frames[i]
       /\ d.frames[n + 1] = frame
  BY <1>3, <1>10, <1>11, AppendProperties
<1> HIDE DEF n
<1>13. Low(d, h) = level
  <2>1. Low(d, h) = h + 1 - (n + 1) BY <1>12 DEF Low
  <2> QED BY <2>1, <1>1, <1>4
<1>14. /\ \A i \in 1..n : IsFrame(see, path, dirty, key, c.frames[i], h + 1 - i)
       /\ \A r \in 2..(h + 1) : r >= level + 1 =>
             \A k \in Nat : BesideAt(see, path, h, r, k, key) => path[r - 1][k] = path[r - 1][key]
  <2>1. level \in Nat /\ \A r \in 2..(h + 1) : r >= level + 1 => r > level + 1 \/ r = level + 1
    BY <1>1
  <2> QED BY <2>1, <1>1 DEF Stacked, n
<1>15. \A r \in 1..h : \A k \in Nat : IndexIn(see2, path2, r, k) = IndexIn(see, path, r, k)
  BY <1>5 DEF IndexIn
<1>16. IsCall(d) BY <1>1, <1>3, <1>11, <1>12 DEF IsCall
<1>17. level \in Nat /\ h \in Nat /\ level \in 1..h /\ h + 1 - (n + 1) = level /\ n + 1 \in 1..h
  BY <1>1, <1>4
<1>18. Stacked(see2, path2, h, dirty2, d)
  <2>1. ASSUME NEW i \in 1..(n + 1)
        PROVE  IsFrame(see2, path2, dirty2, key, d.frames[i], h + 1 - i)
    <3>1. CASE i = n + 1
      <4>1. IsFrame(see2, path2, dirty2, key, frame, level) BY <1>9, <1>10 DEF IsFrame
      <4> QED BY <4>1, <3>1, <1>12, <1>17
    <3>2. CASE i # n + 1
      <4>1. i \in 1..n /\ h + 1 - i \in 1..h /\ h + 1 - i # level BY <3>2, <1>1, <1>4
      <4>2. PICK r \in 1..h : r = h + 1 - i BY <4>1
      <4>3. IsFrame(see, path, dirty, key, c.frames[i], r) BY <4>1, <4>2, <1>14
      <4>4. path2[r][key] = path[r][key] BY <4>1, <4>2, <1>5
      <4>5. IsFrame(see2, path2, dirty2, key, c.frames[i], r)
        BY <4>3, <4>4, <1>3, <1>15 DEF IsFrame
      <4> QED BY <4>1, <4>2, <4>5, <1>12
    <3> QED BY <3>1, <3>2
  <2>2. ASSUME NEW r \in 2..(h + 1), r > level \/ (r = level /\ d.step = "enter"),
               NEW k \in Nat, BesideAt(see2, path2, h, r, k, key)
        PROVE  path2[r - 1][k] = path2[r - 1][key]
    <3>1. CASE r > level
      <4>1. r >= level + 1 /\ r # level /\ r - 1 \in 1..h BY <3>1, <1>17, <1>1
      <4>2. BesideAt(see, path, h, r, k, key)
        <5>1. CASE r > h BY <5>1 DEF BesideAt
        <5>2. CASE ~(r > h)
          <6>1. r \in 1..h BY <5>2, <1>1
          <6>2. path2[r] = path[r] BY <4>1, <6>1, <1>5
          <6>3. Beside(see2, path2, r, k, key) BY <5>2, <2>2 DEF BesideAt
          <6>4. Beside(see, path, r, k, key) BY <6>1, <6>2, <6>3, <1>3, <1>15 DEF Beside
          <6> QED BY <6>4 DEF BesideAt
        <5> QED BY <5>1, <5>2
      <4>3. path[r - 1][k] = path[r - 1][key] BY <4>1, <4>2, <1>14
      <4>4. PICK s \in 1..h : s = r - 1 BY <4>1
      <4>5. CASE s = level BY <4>3, <4>4, <4>5, <1>3, <1>5
      <4>6. CASE s # level BY <4>3, <4>4, <4>6, <1>5
      <4> QED BY <4>4, <4>5, <4>6
    <3>2. CASE r = level
      <4>1. level \in 2..h /\ ~(level > h) BY <3>2, <1>17
      <4>2. Beside(see2, path2, level, k, key) BY <3>2, <4>1, <2>2 DEF BesideAt
      <4>3. Beside(see, path, level, k, key)
        BY <4>2, <1>3, <1>5, <1>15, <1>17 DEF Beside
      <4>4. \A m \in Nat : Leads(see, path, level, m) BY <4>1, <1>2 DEF BranchLevel
      <4>5. path[level - 1][k] = path[level - 1][key]
        <5>1. Leads(see, path, level, k) /\ Leads(see, path, level, key) BY <4>4, <1>3
        <5> QED BY <5>1, <4>3 DEF Leads, Beside
      <4>6. level - 1 \in 1..h /\ level - 1 # level BY <4>1, <1>1
      <4> QED BY <3>2, <4>5, <4>6, <1>5
    <3> QED BY <3>1, <3>2, <2>2, <1>17
  <2>3. n + 1 \in 0..h BY <1>17
  <2> QED BY <2>1, <2>2, <2>3, <1>11, <1>12, <1>13 DEF Stacked
<1>19. Stands(see2, path2, h, root, sum, d)
  <2>1. CASE level = 1 BY <2>1, <1>8, <1>11, <1>13 DEF Stands
  <2>2. CASE level # 1
    <3>1. d.step = "enter" /\ d.at = content.entries[index].page BY <2>2, <1>9, <1>11
    <3>2. level \in 2..(h + 1) BY <2>2, <1>1, <1>9
    <3>3. BranchLevel(see, path, level, level + 1, key) BY <2>2, <1>2, <1>9
    <3>4. level < level + 1 BY <1>17
    <3>5. Leads(see, path, level, key) BY <3>3, <3>4, <1>3 DEF BranchLevel
    <3>6. content = see[path[level][key]] BY <1>3, <1>5, <1>7, <1>17
    <3>7. index = IndexIn(see, path, level, key) BY <2>2, <1>3, <1>9, <1>15, <1>17
    <3>8. content.entries[index].page = path[level - 1][key] BY <3>5, <3>6, <3>7 DEF Leads
    <3>9. level - 1 \in 1..h /\ level - 1 # level BY <3>2, <1>17
    <3>10. d.at = path2[level - 1][key] BY <3>1, <3>8, <3>9, <1>5
    <3> QED BY <3>1, <3>2, <3>10, <1>11, <1>13 DEF Stands
  <2> QED BY <2>1, <2>2
<1>20. Tree(see2, path2, h, Low(d, h), d.key) BY <1>5, <1>11, <1>13
<1> QED BY <1>16, <1>18, <1>19, <1>20 DEF Grafted, d, content

\* The page of the innermost frame.
LEMMA FrameFacts ==
    ASSUME NEW see, NEW path, NEW h, NEW dirty, NEW root, NEW sum, NEW c,
           Grafted(see, path, h, dirty, root, sum, c), c.step \in FrameSteps
    PROVE  /\ Low(c, h) \in 1..h /\ h \in Nat
           /\ Last(c.frames).page = path[Low(c, h)][c.key]
           /\ Last(c.frames).page \in dirty
           /\ Low(c, h) # 1 => Last(c.frames).index = IndexIn(see, path, Low(c, h), c.key)
           /\ c.step = "leaf" => Low(c, h) = 1
           /\ c.step # "leaf" => Low(c, h) \in 2..h
<1>1. /\ IsCall(c) /\ Tree(see, path, h, Low(c, h), c.key)
      /\ Stacked(see, path, h, dirty, c) /\ Stands(see, path, h, root, sum, c)
  BY DEF Grafted
<1>2. h \in Nat \ {0} BY <1>1, TreeFacts
<1>3. Len(c.frames) \in 0..h /\ c.frames \in Seq([page : Page, index : Nat])
  BY <1>1 DEF Stacked, IsCall
<1>4. /\ c.step = "leaf" => Low(c, h) = 1
      /\ c.step # "leaf" => Low(c, h) \in 2..h
  BY <1>1 DEF Stands, FrameSteps
<1>5. PICK n \in 0..h : n = Len(c.frames) BY <1>3
<1>6. Low(c, h) = h + 1 - n BY <1>5 DEF Low
<1>7. Low(c, h) \in 1..h /\ n \in 1..n /\ n # 0 BY <1>2, <1>4, <1>6
<1>8. Last(c.frames) = c.frames[n] BY <1>3, <1>5, <1>7, FrontFacts
<1>9. IsFrame(see, path, dirty, c.key, c.frames[n], Low(c, h))
  <2>1. \A i \in 1..n : IsFrame(see, path, dirty, c.key, c.frames[i], h + 1 - i)
    BY <1>1, <1>5 DEF Stacked
  <2> QED BY <2>1, <1>6, <1>7
<1> QED BY <1>2, <1>4, <1>7, <1>8, <1>9 DEF IsFrame

-----------------------------------------------------------------------------
(* The pages of the store. *)

Sound(c) == IsLeaf(c) \/ IsBranch(c)

InjectiveSeq(s) == \A i, j \in 1..Len(s) : s[i] = s[j] => i = j

\* The pages that are in no other use are those of the committed tree.
CommittedPages ==
    (1..(next_page_id - 1)) \ (Range(pending_free_pages) \cup DOMAIN tx.dirty \cup lost)

Space ==
    /\ next_page_id \in 2..(MaxPages + 1)
    /\ pending_free_pages \in Seq(Page) /\ InjectiveSeq(pending_free_pages)
    /\ Range(pending_free_pages) \subseteq 1..(next_page_id - 1)
    /\ DOMAIN tx.dirty \subseteq 1..(next_page_id - 1)
    /\ lost \subseteq 1..(next_page_id - 1)
    /\ DOMAIN tx.dirty \cap lost = {}
    /\ DOMAIN tx.dirty \cap Range(pending_free_pages) = {}
    /\ lost \cap Range(pending_free_pages) = {}
    /\ DOMAIN pages \subseteq Page

\* The transaction sees its own pages, and the file's where it has none.
LEMMA SeenFacts ==
    /\ DOMAIN Seen = DOMAIN tx.dirty \cup DOMAIN pages
    /\ \A p \in DOMAIN tx.dirty : Seen[p] = tx.dirty[p]
    /\ \A p \in DOMAIN pages : p \notin DOMAIN tx.dirty => Seen[p] = pages[p]
BY DEF Seen, Over

Patched(g, f, p, c) ==
    /\ DOMAIN g = DOMAIN f \cup {p} /\ g[p] = c
    /\ \A t \in DOMAIN f : t # p => g[t] = f[t]

\* With writes one page.
LEMMA Patching == ASSUME NEW f, NEW p, NEW c PROVE Patched(With(f, p, c), f, p, c)
<1> DEFINE g == [t \in {p} |-> c]
<1>1. DOMAIN g = {p} /\ g[p] = c OBVIOUS
<1> HIDE DEF g
<1>2. With(f, p, c) = [t \in {p} \cup DOMAIN f |-> IF t \in {p} THEN g[t] ELSE f[t]]
  BY <1>1 DEF With, Over, g
<1> QED BY <1>1, <1>2 DEF Patched

\* The elements of a sequence.
LEMMA RangeFacts ==
    ASSUME NEW S, NEW s \in Seq(S)
    PROVE  /\ \A i \in 1..Len(s) : s[i] \in Range(s)
           /\ \A x \in Range(s) : \E i \in 1..Len(s) : x = s[i]
           /\ Range(s) \subseteq S
<1>1. DOMAIN s = 1..Len(s) /\ \A i \in 1..Len(s) : s[i] \in S BY LenProperties
<1> QED BY <1>1 DEF Range

\* allocate_page_id hands out a page that is in no use.
LEMMA PageTaken ==
    ASSUME Space, TakePage, DOMAIN tx'.dirty = DOMAIN tx.dirty \cup {allocated},
           lost' = lost, pages' = pages
    PROVE  /\ allocated \in Page /\ allocated \notin DOMAIN tx.dirty
           /\ allocated \notin CommittedPages /\ allocated \in 1..(next_page_id' - 1)
           /\ Space' /\ CommittedPages' = CommittedPages
<1> DEFINE q == allocated
<1>1. /\ next_page_id \in 2..(MaxPages + 1)
      /\ pending_free_pages \in Seq(Page) /\ InjectiveSeq(pending_free_pages)
      /\ Range(pending_free_pages) \subseteq 1..(next_page_id - 1)
      /\ DOMAIN tx.dirty \subseteq 1..(next_page_id - 1)
      /\ lost \subseteq 1..(next_page_id - 1)
      /\ DOMAIN tx.dirty \cap lost = {}
      /\ DOMAIN tx.dirty \cap Range(pending_free_pages) = {}
      /\ lost \cap Range(pending_free_pages) = {}
      /\ DOMAIN pages \subseteq Page
  BY DEF Space
<1>m. MaxPages \in Nat BY TreeBoundsAssumption
<1>2. CASE pending_free_pages = <<>>
  <2>1. /\ q = next_page_id /\ next_page_id <= MaxPages
        /\ next_page_id' = next_page_id + 1 /\ pending_free_pages' = pending_free_pages
    BY <1>2 DEF TakePage, allocated
  <2>2. /\ q \in Page /\ q \in 1..(next_page_id' - 1) /\ q \notin 1..(next_page_id - 1)
        /\ 1..(next_page_id' - 1) = 1..(next_page_id - 1) \cup {q}
        /\ next_page_id' \in 2..(MaxPages + 1)
    BY <2>1, <1>1, <1>m DEF Page
  <2> HIDE DEF q
  <2>3. Space'
    BY <2>1, <2>2, <1>1 DEF Space, q
  <2>4. CommittedPages' = CommittedPages
    BY <2>1, <2>2, <1>1 DEF CommittedPages, q
  <2>5. q \notin CommittedPages BY <2>2 DEF CommittedPages
  <2> QED BY <2>2, <2>3, <2>4, <2>5, <1>1 DEF q
<1>3. CASE pending_free_pages # <<>>
  <2> DEFINE s == pending_free_pages
  <2>1. q = Head(s) /\ next_page_id' = next_page_id /\ s' = Tail(s)
    BY <1>3 DEF TakePage, allocated
  <2>2. /\ Len(s) \in Nat \ {0} /\ Head(s) = s[1] /\ Tail(s) \in Seq(Page)
        /\ Len(Tail(s)) = Len(s) - 1
        /\ \A i \in 1..(Len(s) - 1) : Tail(s)[i] = s[i + 1]
    BY <1>1, <1>3, HeadTailProperties, EmptySeq
  <2>3. /\ \A i \in 1..Len(s) : s[i] \in Range(s)
        /\ \A x \in Range(s) : \E i \in 1..Len(s) : x = s[i]
        /\ Range(s) \subseteq Page
    BY <1>1, RangeFacts
  <2>4. PICK t \in Seq(Page) : t = Tail(s) BY <2>2
  <2>5. /\ \A i \in 1..Len(t) : t[i] \in Range(t)
        /\ \A x \in Range(t) : \E i \in 1..Len(t) : x = t[i]
    BY RangeFacts
  <2>6. q \in Range(s) BY <2>1, <2>2, <2>3
  <2>7. \A i \in 1..Len(t) : i \in 1..Len(s) /\ i + 1 \in 1..Len(s) /\ i + 1 # 1 /\ t[i] = s[i + 1]
    BY <2>2, <2>4
  <2>8. \A i, j \in 1..Len(s) : s[i] = s[j] => i = j BY <1>1 DEF InjectiveSeq
  <2>9. InjectiveSeq(t)
    <3> SUFFICES ASSUME NEW i \in 1..Len(t), NEW j \in 1..Len(t), t[i] = t[j] PROVE i = j
      BY DEF InjectiveSeq
    <3>1. i + 1 = j + 1 BY <2>7, <2>8
    <3> QED BY <3>1
  <2>10. Range(t) = Range(s) \ {q}
    <3>1. ASSUME NEW x \in Range(t) PROVE x \in Range(s) /\ x # q
      <4>1. PICK i \in 1..Len(t) : x = t[i] BY <2>5
      <4>2. x = s[i + 1] /\ i + 1 \in 1..Len(s) /\ i + 1 # 1 BY <4>1, <2>7
      <4>3. 1 \in 1..Len(s) BY <2>2
      <4> QED BY <4>2, <4>3, <2>1, <2>2, <2>3, <2>8
    <3>2. ASSUME NEW x \in Range(s), x # q PROVE x \in Range(t)
      <4>1. PICK i \in 1..Len(s) : x = s[i] BY <2>3
      <4>2. i # 1 BY <4>1, <3>2, <2>1, <2>2
      <4>3. i - 1 \in 1..(Len(s) - 1) /\ (i - 1) + 1 = i BY <4>2, <2>2
      <4>4. i - 1 \in 1..Len(t) /\ t[i - 1] = s[i] BY <4>3, <2>2, <2>4
      <4> QED BY <4>1, <4>4, <2>5
    <3> QED BY <3>1, <3>2
  <2>11. s' = t BY <2>1, <2>4
  <2>12. q \in 1..(next_page_id - 1) /\ q \in Page /\ q \notin DOMAIN tx.dirty /\ q \notin lost
    BY <2>3, <2>6, <1>1
  <2> HIDE DEF q
  <2>13. Space'
    BY <2>1, <2>9, <2>10, <2>11, <2>12, <1>1 DEF Space, q
  <2>14. CommittedPages' = CommittedPages
    BY <2>1, <2>6, <2>10, <2>11, <2>12, <1>1 DEF CommittedPages, q
  <2>15. q \notin CommittedPages BY <2>6 DEF CommittedPages
  <2> QED BY <2>1, <2>12, <2>13, <2>14, <2>15 DEF q
<1> QED BY <1>2, <1>3

-----------------------------------------------------------------------------
(* The inductive invariant. *)

\* What the leaves hold: the entry of the insert under way once the leaf has it.
Held(c, holds) ==
    IF c.step \in {"child", "branch", "root"} THEN [holds EXCEPT ![c.key] = c.value] ELSE holds

\* A transaction that is not open has nothing; one that has failed has no call.
Transaction ==
    /\ DOMAIN tx = {"open", "root", "sum", "dirty", "freed", "failed", "holds"}
    /\ tx.open \in BOOLEAN /\ tx.failed \in BOOLEAN
    /\ ~tx.open => tx = NoTx
    /\ ~tx.open \/ tx.failed => call = NoCall
    /\ tx.open => tx.holds \in [Key -> Value \cup {None}] /\ slot.tx < MaxTx
    /\ tx.freed \in Seq(Page) /\ InjectiveSeq(tx.freed)
    /\ Range(tx.freed) \subseteq CommittedPages

IsMap(f) == f = [p \in DOMAIN f |-> f[p]]

\* Every page, in the file or dirty, is a sound leaf or branch.
Contents ==
    /\ IsMap(pages)
    /\ \A p \in DOMAIN pages : Sound(pages[p])
    /\ \A p \in DOMAIN tx.dirty : Sound(tx.dirty[p])

\* The tree of the last commit is whole, and its pages are the committed ones.
IsCommitted(path, h) ==
    /\ Tree(pages, path, h, h + 1, NoKey)
    /\ Holds(pages, path, committed)
    /\ TreeOf(path, h) = CommittedPages
    /\ \A k \in Nat : path[h][k] = slot.root
    /\ slot.sum = pages[slot.root]

CommittedTree ==
    /\ slot.tx \in 0..MaxTx
    /\ committed \in [Key -> Value \cup {None}]
    /\ \E path, h : IsCommitted(path, h)

\* The tree of the transaction, with the insert that is under way, has the pages of
\* the last commit that it has not freed and those it has written.
IsWritten(path, h) ==
    /\ Grafted(Seen, path, h, DOMAIN tx.dirty, tx.root, tx.sum, call)
    /\ Holds(Seen, path, Held(call, tx.holds))
    /\ TreeOf(path, h) = (CommittedPages \ Range(tx.freed)) \cup DOMAIN tx.dirty

CallOK == call.step # "none" => call.key \in Key /\ call.value \in Value

WrittenTree == tx.open /\ ~tx.failed => CallOK /\ \E path, h : IsWritten(path, h)

Failures == {"none", "lone_entry", "page_overflow"}

IInv ==
    /\ Space /\ Transaction /\ Contents
    /\ CommittedTree /\ WrittenTree
    /\ failure \in Failures

\* The committed tree stays while neither the file nor the slot changes.
LEMMA CommittedTreeKept ==
    ASSUME CommittedTree, pages' = pages, slot' = slot, committed' = committed,
           CommittedPages' = CommittedPages
    PROVE  CommittedTree'
BY DEF CommittedTree, IsCommitted

\* A step of an insert keeps the invariant, when it keeps the tree.
LEMMA Inserting ==
    ASSUME IInv, tx.open, ~tx.failed,
           pages' = pages, slot' = slot, committed' = committed, failure' = failure,
           DOMAIN tx' = DOMAIN tx, tx'.open = tx.open, tx'.failed = tx.failed,
           tx'.holds \in [Key -> Value \cup {None}],
           tx'.freed \in Seq(Page), InjectiveSeq(tx'.freed),
           Range(tx'.freed) \subseteq CommittedPages,
           Space', CommittedPages' = CommittedPages,
           \A p \in DOMAIN tx'.dirty : Sound(tx'.dirty[p]),
           CallOK', NEW path, NEW h, IsWritten(path, h)'
    PROVE  IInv'
<1>1. Transaction' BY DEF Transaction, IInv
<1>2. Contents' BY DEF Contents, IInv
<1>3. CommittedTree' BY CommittedTreeKept DEF IInv
<1>4. WrittenTree' BY DEF WrittenTree
<1> QED BY <1>1, <1>2, <1>3, <1>4 DEF IInv

\* What an insert that is under way begins from.
LEMMA UnderWay ==
    ASSUME IInv, call.step # "none"
    PROVE  /\ tx.open /\ ~tx.failed /\ call.key \in Key /\ call.value \in Value
           /\ tx.holds \in [Key -> Value \cup {None}]
           /\ \E path, h : IsWritten(path, h)
           /\ call.key \in Nat
<1>1. call # NoCall BY DEF NoCall
<1>2. tx.open /\ ~tx.failed BY <1>1 DEF IInv, Transaction
<1> QED BY <1>2, KeyAssumption DEF IInv, Transaction, WrittenTree, CallOK

\* What the transaction's tree has while an insert is under way.
LEMMA WrittenPages ==
    ASSUME NEW path, NEW h, IsWritten(path, h)
    PROVE  /\ Grafted(Seen, path, h, DOMAIN tx.dirty, tx.root, tx.sum, call)
           /\ IsCall(call) /\ h \in Nat /\ IsPath(path, h)
           /\ Tree(Seen, path, h, Low(call, h), call.key)
           /\ TreeOf(path, h) = (CommittedPages \ Range(tx.freed)) \cup DOMAIN tx.dirty
           /\ \A r \in 1..h : \A k \in Nat :
                 /\ path[r][k] \in TreeOf(path, h) /\ path[r][k] \in Page
                 /\ path[r][k] \in DOMAIN tx.dirty \/ path[r][k] \in DOMAIN pages
<1>1. /\ Grafted(Seen, path, h, DOMAIN tx.dirty, tx.root, tx.sum, call)
      /\ IsCall(call) /\ Tree(Seen, path, h, Low(call, h), call.key)
      /\ TreeOf(path, h) = (CommittedPages \ Range(tx.freed)) \cup DOMAIN tx.dirty
  BY DEF IsWritten, Grafted
<1>2. /\ h \in Nat /\ IsPath(path, h)
      /\ \A r \in 1..h : \A k \in Nat : path[r][k] \in Page /\ path[r][k] \in DOMAIN Seen
  BY <1>1, TreeFacts
<1>3. \A r \in 1..h : \A k \in Nat :
         path[r][k] \in DOMAIN tx.dirty \/ path[r][k] \in DOMAIN pages
  BY <1>2, SeenFacts
<1> QED BY <1>1, <1>2, <1>3, TreeOfFacts

\* A page that is dirty already is checked out and taken up.
LEMMA CheckedOutPage == ASSUME IInv, check_out PROVE IInv'
<1>1. /\ call.step = "enter" /\ IsDirty(call.at) /\ Enter(call.at, tx.dirty[call.at])
      /\ pending_free_pages' = pending_free_pages /\ next_page_id' = next_page_id
      /\ pages' = pages /\ slot' = slot /\ tx' = tx /\ failure' = failure
      /\ committed' = committed /\ lost' = lost
  BY DEF check_out, Working, KeepPages
<1>2. /\ tx.open /\ ~tx.failed /\ call.key \in Key /\ call.value \in Value
      /\ tx.holds \in [Key -> Value \cup {None}] /\ call.key \in Nat
  BY <1>1, UnderWay
<1>3. PICK path, h : IsWritten(path, h) BY <1>1, UnderWay
<1>4. /\ Grafted(Seen, path, h, DOMAIN tx.dirty, tx.root, tx.sum, call)
      /\ Tree(Seen, path, h, Low(call, h), call.key) /\ h \in Nat
      /\ DOMAIN call = {"step", "key", "value", "frames", "at", "result"}
  BY <1>3, WrittenPages DEF IsCall
<1>5. Low(call, h) \in 2..(h + 1) /\ call.at = path[Low(call, h) - 1][call.key]
  BY <1>1, <1>4 DEF Grafted, Stands
<1>6. PICK level \in Nat : level + 1 = Low(call, h) /\ level \in 1..h
  <2>1. h \in Nat BY <1>4
  <2>2. PICK low \in 2..(h + 1) : low = Low(call, h) BY <1>5
  <2>3. low - 1 \in Nat /\ (low - 1) + 1 = low /\ low - 1 \in 1..h BY <2>1
  <2> QED BY <2>2, <2>3
<1>7. call.at = path[level][call.key]
  <2>1. PICK low \in 2..(h + 1) : low = Low(call, h) BY <1>5
  <2>2. low - 1 = level BY <2>1, <1>6
  <2> QED BY <2>1, <2>2, <1>5
<1>8. Copied(Seen, path, h, level, call.key, Seen, path)
  <2>1. Low(call, h) \in Nat /\ level <= Low(call, h) BY <1>4, <1>5, <1>6
  <2>2. Tree(Seen, path, h, level, call.key) BY <2>1, <1>4, TreeAtRest
  <2> QED BY <2>2 DEF Copied
<1>9. call' = Descended(call, call.at, Seen[call.at])
  <2>1. Seen[call.at] = tx.dirty[call.at] BY <1>1, SeenFacts DEF IsDirty
  <2> QED BY <2>1, <1>1 DEF Enter, Descended
<1>10. Grafted(Seen, path, h, DOMAIN tx.dirty, tx.root, tx.sum, call')
  <2>1. call.at \in DOMAIN tx.dirty BY <1>1 DEF IsDirty
  <2>2. PICK page : page = call.at OBVIOUS
  <2>3. Grafted(Seen, path, h, DOMAIN tx.dirty, tx.root, tx.sum,
                Descended(call, page, Seen[page]))
    BY <2>1, <2>2, <1>1, <1>4, <1>6, <1>7, <1>8, Descends
  <2> QED BY <2>2, <2>3, <1>9
<1>11. /\ call'.step \in {"leaf", "enter"} /\ call'.key = call.key /\ call'.value = call.value
  BY <1>4, <1>9 DEF Descended
<1>12. Seen' = Seen /\ CommittedPages' = CommittedPages /\ Space'
  BY <1>1 DEF Seen, CommittedPages, Space, IInv
<1>13. IsWritten(path, h)'
  <2>1. Held(call', tx.holds) = Held(call, tx.holds) BY <1>1, <1>11 DEF Held
  <2>2. IsWritten(path, h) BY <1>3
  <2> QED BY <2>1, <2>2, <1>1, <1>10, <1>12 DEF IsWritten
<1>14. CallOK' BY <1>2, <1>11 DEF CallOK
<1>15. /\ tx.freed \in Seq(Page) /\ InjectiveSeq(tx.freed) /\ Range(tx.freed) \subseteq CommittedPages
       /\ \A p \in DOMAIN tx.dirty : Sound(tx.dirty[p])
  BY DEF IInv, Transaction, Contents
<1> QED BY <1>1, <1>2, <1>12, <1>13, <1>14, <1>15, Inserting

\* The pages the transaction sees, when it has written those in S.
LEMMA SeenNext ==
    ASSUME pages' = pages, NEW S, DOMAIN tx.dirty \subseteq DOMAIN tx'.dirty,
           \A p \in DOMAIN tx.dirty : p \notin S => tx'.dirty[p] = tx.dirty[p],
           DOMAIN tx'.dirty \subseteq DOMAIN tx.dirty \cup S
    PROVE  /\ DOMAIN Seen' = DOMAIN Seen \cup DOMAIN tx'.dirty
           /\ \A p \in DOMAIN tx'.dirty : Seen'[p] = tx'.dirty[p]
           /\ \A t \in DOMAIN Seen : t \notin S => t \in DOMAIN Seen' /\ Seen'[t] = Seen[t]
<1>1. /\ DOMAIN Seen' = DOMAIN tx'.dirty \cup DOMAIN pages
      /\ \A p \in DOMAIN tx'.dirty : Seen'[p] = tx'.dirty[p]
      /\ \A p \in DOMAIN pages : p \notin DOMAIN tx'.dirty => Seen'[p] = pages[p]
  BY DEF Seen, Over
<1> QED BY <1>1, SeenFacts

\* A page that is not in a queue without repetitions may be appended to it.
LEMMA Appended ==
    ASSUME NEW s \in Seq(Page), InjectiveSeq(s), NEW p \in Page, p \notin Range(s)
    PROVE  /\ Append(s, p) \in Seq(Page) /\ InjectiveSeq(Append(s, p))
           /\ Range(Append(s, p)) = Range(s) \cup {p}
<1>1. PICK n \in Nat : n = Len(s) BY LenProperties
<1>2. PICK t \in Seq(Page) : t = Append(s, p) BY AppendProperties
<1>3. /\ Len(t) = n + 1 /\ t[n + 1] = p /\ \A i \in 1..n : t[i] = s[i]
  BY <1>1, <1>2, AppendProperties
<1>4. /\ \A i \in 1..n : s[i] \in Range(s)
      /\ \A x \in Range(s) : \E i \in 1..n : x = s[i]
  BY <1>1, RangeFacts
<1>5. /\ \A i \in 1..(n + 1) : t[i] \in Range(t)
      /\ \A x \in Range(t) : \E i \in 1..(n + 1) : x = t[i]
  BY <1>3, RangeFacts
<1>6. 1..(n + 1) = 1..n \cup {n + 1} BY <1>1
<1>7. Range(t) = Range(s) \cup {p}
  <2>1. ASSUME NEW x \in Range(t) PROVE x \in Range(s) \cup {p}
    <3>1. PICK i \in 1..(n + 1) : x = t[i] BY <1>5
    <3> QED BY <3>1, <1>3, <1>4, <1>6
  <2>2. ASSUME NEW x \in Range(s) \cup {p} PROVE x \in Range(t)
    <3>1. n + 1 \in 1..(n + 1) BY <1>6
    <3> QED BY <3>1, <1>3, <1>4, <1>5, <1>6
  <2> QED BY <2>1, <2>2
<1>8. InjectiveSeq(t)
  <2>1. \A i, j \in 1..n : s[i] = s[j] => i = j BY <1>1 DEF InjectiveSeq
  <2>2. \A i, j \in 1..(n + 1) : t[i] = t[j] => i = j
    BY <2>1, <1>3, <1>4, <1>6
  <2> QED BY <2>2, <1>3 DEF InjectiveSeq
<1> QED BY <1>2, <1>7, <1>8

\* The levels an insert that goes down has not come to.
LEMMA NextLevel ==
    ASSUME NEW path, NEW h, IsWritten(path, h), call.step = "enter"
    PROVE  \E level \in Nat : /\ level + 1 = Low(call, h) /\ level \in 1..h
                              /\ call.at = path[level][call.key]
<1>1. h \in Nat BY WrittenPages
<1>2. Low(call, h) \in 2..(h + 1) /\ call.at = path[Low(call, h) - 1][call.key]
  BY WrittenPages DEF Grafted, Stands
<1>3. PICK low \in 2..(h + 1) : low = Low(call, h) BY <1>2
<1>4. PICK level \in Nat : level = low - 1 BY <1>1
<1>5. level + 1 = low /\ level \in 1..h BY <1>1, <1>4
<1> QED BY <1>2, <1>3, <1>4, <1>5

\* A copy of a page of the tree takes its place.
LEMMA PageCowed == ASSUME IInv, cow_page PROVE IInv'
<1> DEFINE p == call.at
           q == allocated
           key == call.key
<1>1. /\ call.step = "enter" /\ p \notin DOMAIN tx.dirty /\ TakePage
      /\ tx' = [tx EXCEPT !.dirty = With(@, q, pages[p]), !.freed = Append(@, p)]
      /\ Enter(q, pages[p])
      /\ pages' = pages /\ slot' = slot /\ failure' = failure
      /\ committed' = committed /\ lost' = lost
  BY DEF cow_page, Working, IsDirty
<1>2. /\ tx.open /\ ~tx.failed /\ key \in Key /\ call.value \in Value
      /\ tx.holds \in [Key -> Value \cup {None}] /\ key \in Nat
  BY <1>1, UnderWay
<1>3. PICK path, h : IsWritten(path, h) BY <1>1, UnderWay
<1>4. /\ Grafted(Seen, path, h, DOMAIN tx.dirty, tx.root, tx.sum, call)
      /\ IsCall(call) /\ h \in Nat /\ IsPath(path, h)
      /\ Tree(Seen, path, h, Low(call, h), key)
      /\ TreeOf(path, h) = (CommittedPages \ Range(tx.freed)) \cup DOMAIN tx.dirty
      /\ \A r \in 1..h : \A k \in Nat :
            /\ path[r][k] \in TreeOf(path, h) /\ path[r][k] \in Page
            /\ path[r][k] \in DOMAIN tx.dirty \/ path[r][k] \in DOMAIN pages
  BY <1>3, WrittenPages
<1>5. PICK level \in Nat : level + 1 = Low(call, h) /\ level \in 1..h /\ p = path[level][key]
  BY <1>1, <1>3, NextLevel
<1>6. /\ DOMAIN tx = {"open", "root", "sum", "dirty", "freed", "failed", "holds"}
      /\ tx.freed \in Seq(Page) /\ InjectiveSeq(tx.freed) /\ Range(tx.freed) \subseteq CommittedPages
      /\ Space
      /\ \A t \in DOMAIN pages : Sound(pages[t])
      /\ \A t \in DOMAIN tx.dirty : Sound(tx.dirty[t])
  BY DEF IInv, Transaction, Contents
<1>7. /\ DOMAIN tx' = DOMAIN tx /\ tx'.open = tx.open /\ tx'.failed = tx.failed
      /\ tx'.holds = tx.holds /\ tx'.root = tx.root /\ tx'.sum = tx.sum
      /\ tx'.dirty = With(tx.dirty, q, pages[p]) /\ tx'.freed = Append(tx.freed, p)
  BY <1>1, <1>6
<1>8. /\ DOMAIN tx'.dirty = DOMAIN tx.dirty \cup {q} /\ tx'.dirty[q] = pages[p]
      /\ \A t \in DOMAIN tx.dirty : t # q => tx'.dirty[t] = tx.dirty[t]
  <2> HIDE DEF q, p
  <2>1. PICK c, f : c = pages[p] /\ f = tx.dirty OBVIOUS
  <2>2. Patched(With(f, q, c), f, q, c) BY Patching
  <2>3. tx'.dirty = With(f, q, c) BY <2>1, <1>7
  <2> QED BY <2>1, <2>2, <2>3 DEF Patched
<1>9. /\ q \in Page /\ q \notin DOMAIN tx.dirty /\ q \notin CommittedPages
      /\ Space' /\ CommittedPages' = CommittedPages
  BY <1>1, <1>6, <1>8, PageTaken
<1>10. /\ p \in Page /\ p \in DOMAIN pages /\ p \in CommittedPages /\ p \notin Range(tx.freed)
       /\ q \notin TreeOf(path, h)
  <2>1. p \in TreeOf(path, h) /\ p \in Page /\ (p \in DOMAIN tx.dirty \/ p \in DOMAIN pages)
    BY <1>2, <1>4, <1>5
  <2> QED BY <2>1, <1>1, <1>4, <1>9
<1> HIDE DEF p, q, key
<1>11. /\ Append(tx.freed, p) \in Seq(Page) /\ InjectiveSeq(Append(tx.freed, p))
       /\ Range(Append(tx.freed, p)) = Range(tx.freed) \cup {p}
  BY <1>6, <1>10, Appended
<1>12. /\ Seen'[q] = pages[p] /\ q \in DOMAIN Seen'
       /\ \A t \in DOMAIN Seen : t # q => t \in DOMAIN Seen' /\ Seen'[t] = Seen[t]
       /\ Seen[p] = pages[p]
  <2>1. /\ DOMAIN Seen' = DOMAIN Seen \cup DOMAIN tx'.dirty
        /\ \A t \in DOMAIN tx'.dirty : Seen'[t] = tx'.dirty[t]
        /\ \A t \in DOMAIN Seen : t \notin {q} => t \in DOMAIN Seen' /\ Seen'[t] = Seen[t]
    BY <1>1, <1>8, <1>9, SeenNext
  <2> QED BY <2>1, <1>1, <1>8, <1>10, SeenFacts
<1>13. PICK see2 : see2 = Seen' OBVIOUS
<1>14. \A t \in TreeOf(path, h) : t \in DOMAIN Seen /\ t # q
  <2>1. \A r \in 1..h : \A k \in Nat : path[r][k] \in DOMAIN Seen BY <1>4, TreeFacts
  <2> QED BY <2>1, <1>10, TreeOfFacts
<1>15. PICK path2 : IsParted(path2, path, h, level, p, 0, q)
  <2>1. 0 \in Nat OBVIOUS
  <2> QED BY <2>1, <1>4, <1>5, <1>9, PartedPath
<1>16. PICK low \in Nat : low = Low(call, h) /\ low = level + 1 BY <1>5
<1>17. /\ Tree(see2, path2, h, level, key)
       /\ \A map : Holds(Seen, path, map) => Holds(see2, path2, map)
       /\ \A r \in 1..h : \A k \in Nat : see2[path2[r][k]] = Seen[path[r][k]]
  <2>1. Tree(Seen, path, h, low, key) BY <1>4, <1>16
  <2>2. /\ q \in DOMAIN see2 /\ see2[q] = Seen[path[level][key]]
        /\ \A t \in TreeOf(path, h) : t # path[level][key] => t \in DOMAIN see2 /\ see2[t] = Seen[t]
    BY <1>5, <1>12, <1>13, <1>14
  <2>3. IsParted(path2, path, h, level, path[level][key], 0, q) BY <1>5, <1>15
  <2>4. key \in Nat /\ level \in 1..h /\ q \in Page /\ q \notin TreeOf(path, h)
    BY <1>2, <1>5, <1>9, <1>10 DEF key
  <2> QED BY <2>1, <2>2, <2>3, <2>4, <1>16, PageCopied
<1>18. /\ \A r \in 1..h : r # level => path2[r] = path[r]
       /\ \A k \in Nat : path2[level][k] = IF path[level][k] = p THEN q ELSE path[level][k]
  BY <1>15 DEF IsParted
<1>19. \A j, k \in Nat : path2[level][j] = path2[level][k] <=> path[level][j] = path[level][k]
  <2>1. \A k \in Nat : path[level][k] # q BY <1>4, <1>5, <1>10
  <2> QED BY <2>1, <1>18
<1>20. Copied(Seen, path, h, level, key, see2, path2) BY <1>17, <1>18, <1>19 DEF Copied
<1>21. path2[level][key] = q BY <1>2, <1>5, <1>18 DEF key
<1>22. TreeOf(path2, h) = (TreeOf(path, h) \ {p}) \cup {q}
  <2>1. \A r \in 1..h : \A k \in Nat : path[r][k] = p => r = level
    BY <1>2, <1>4, <1>5, TreeFacts DEF key
  <2>2. key \in Nat /\ path[level][key] = p /\ 0 <= key /\ 0 \in Nat
    BY <1>2, <1>5 DEF key
  <2> QED BY <2>1, <2>2, <1>4, <1>5, <1>9, <1>15, PartedTree
<1>23. call' = Descended(call, q, see2[q])
  BY <1>1, <1>12, <1>13 DEF Enter, Descended, p, q
<1>24. Grafted(see2, path2, h, DOMAIN tx'.dirty, tx.root, tx.sum, call')
  <2>1. q = path2[level][key] /\ q \in DOMAIN tx'.dirty /\ DOMAIN tx.dirty \subseteq DOMAIN tx'.dirty
    BY <1>8, <1>21
  <2>2. Copied(Seen, path, h, level, call.key, see2, path2) /\ q = path2[level][call.key]
    BY <2>1, <1>20 DEF key
  <2>3. PICK dirty2 : dirty2 = DOMAIN tx'.dirty OBVIOUS
  <2>4. PICK page : page = q OBVIOUS
  <2>5. Grafted(see2, path2, h, dirty2, tx.root, tx.sum, Descended(call, page, see2[page]))
    BY <2>1, <2>2, <2>3, <2>4, <1>1, <1>4, <1>5, Descends
  <2> QED BY <2>3, <2>4, <2>5, <1>23
<1>25. /\ call'.step \in {"leaf", "enter"} /\ call'.key = call.key /\ call'.value = call.value
  BY <1>4, <1>23 DEF Descended, IsCall
<1>26. IsWritten(path2, h)'
  <2>1. Held(call', tx'.holds) = Held(call, tx.holds) BY <1>1, <1>7, <1>25 DEF Held
  <2>2. Holds(Seen, path, Held(call, tx.holds)) BY <1>3 DEF IsWritten
  <2>3. Holds(see2, path2, Held(call', tx'.holds)) BY <2>1, <2>2, <1>17
  <2>4. TreeOf(path2, h) = (CommittedPages' \ Range(tx'.freed)) \cup DOMAIN tx'.dirty
    <3>1. Range(tx'.freed) = Range(tx.freed) \cup {p} BY <1>7, <1>11
    <3> QED BY <3>1, <1>1, <1>4, <1>8, <1>9, <1>10, <1>22 DEF p
  <2> QED BY <2>3, <2>4, <1>7, <1>13, <1>24 DEF IsWritten
<1>27. CallOK' BY <1>2, <1>25 DEF CallOK, key
<1>28. \A t \in DOMAIN tx'.dirty : Sound(tx'.dirty[t]) BY <1>6, <1>8, <1>10
<1>29. /\ tx'.holds \in [Key -> Value \cup {None}] /\ tx'.freed \in Seq(Page) /\ InjectiveSeq(tx'.freed)
       /\ Range(tx'.freed) \subseteq CommittedPages
  BY <1>2, <1>6, <1>7, <1>10, <1>11
<1> QED BY <1>1, <1>2, <1>7, <1>9, <1>26, <1>27, <1>28, <1>29, Inserting

-----------------------------------------------------------------------------
(* The innermost frame does its work and returns. *)

TxKept ==
    /\ DOMAIN tx' = DOMAIN tx /\ tx'.open = tx.open /\ tx'.failed = tx.failed
    /\ tx'.holds = tx.holds /\ tx'.root = tx.root /\ tx'.sum = tx.sum /\ tx'.freed = tx.freed

StoreKept ==
    /\ pages' = pages /\ slot' = slot /\ committed' = committed
    /\ failure' = failure /\ lost' = lost

\* The page p of the tree has the content c, and the others what they had.
Rewritten(path, h, p, c) ==
    /\ TxKept /\ StoreKept
    /\ DOMAIN tx.dirty \subseteq DOMAIN tx'.dirty
    /\ p \in DOMAIN Seen' /\ Seen'[p] = c
    /\ \A t \in TreeOf(path, h) : t # p => t \in DOMAIN Seen' /\ Seen'[t] = Seen[t]
    /\ Space' /\ CommittedPages' = CommittedPages
    /\ \A t \in DOMAIN tx'.dirty : Sound(tx'.dirty[t])

InFrame(path, h, level) ==
    /\ level \in 1..h /\ level \in Nat /\ h \in Nat /\ Low(call, h) = level
    /\ tx.open /\ ~tx.failed /\ call.key \in Key /\ call.value \in Value /\ call.key \in Nat
    /\ tx.holds \in [Key -> Value \cup {None}]
    /\ IsPath(path, h) /\ Tree(Seen, path, h, level, call.key)
    /\ Frame.page = path[level][call.key] /\ Frame.page \in DOMAIN tx.dirty /\ Frame.page \in Page
    /\ Content = Seen[path[level][call.key]]
    /\ call.step = "leaf" => level = 1
    /\ call.step # "leaf" => level \in 2..h /\ Frame.index = IndexIn(Seen, path, level, call.key)

\* The innermost frame is at some level.
LEMMA FrameAt ==
    ASSUME IInv, NEW path, NEW h, IsWritten(path, h), call.step \in FrameSteps
    PROVE  \E level \in Nat : InFrame(path, h, level)
<1>1. /\ Grafted(Seen, path, h, DOMAIN tx.dirty, tx.root, tx.sum, call)
      /\ h \in Nat /\ IsPath(path, h) /\ Tree(Seen, path, h, Low(call, h), call.key)
  BY WrittenPages
<1>2. /\ tx.open /\ ~tx.failed /\ call.key \in Key /\ call.value \in Value /\ call.key \in Nat
      /\ tx.holds \in [Key -> Value \cup {None}]
  BY UnderWay DEF FrameSteps
<1>3. /\ Low(call, h) \in 1..h
      /\ Frame.page = path[Low(call, h)][call.key] /\ Frame.page \in DOMAIN tx.dirty
      /\ Low(call, h) # 1 => Frame.index = IndexIn(Seen, path, Low(call, h), call.key)
      /\ call.step = "leaf" => Low(call, h) = 1
      /\ call.step # "leaf" => Low(call, h) \in 2..h
  BY <1>1, FrameFacts DEF Frame
<1>4. PICK level \in 1..h : level = Low(call, h) BY <1>3
<1>5. level \in Nat BY <1>1
<1>6. Frame.page \in Page BY <1>1, <1>2, <1>3, TreeFacts
<1>7. Content = Seen[path[level][call.key]] BY <1>3, <1>4, SeenFacts DEF Content
<1>8. call.step # "leaf" => level # 1
  <2>1. level \in 2..h => level # 1 BY <1>5
  <2> QED BY <2>1, <1>3, <1>4
<1>9. InFrame(path, h, level)
  BY <1>1, <1>2, <1>3, <1>4, <1>5, <1>6, <1>7, <1>8 DEF InFrame
<1> QED BY <1>5, <1>9

\* The page of the frame is changed.
LEMMA PageWritten ==
    ASSUME IInv, NEW path, NEW h, IsWritten(path, h), NEW p \in DOMAIN tx.dirty,
           NEW c, Sound(c), tx' = [tx EXCEPT !.dirty[p] = c], KeepPages, StoreKept
    PROVE  Rewritten(path, h, p, c) /\ DOMAIN tx'.dirty = DOMAIN tx.dirty
<1>1. /\ DOMAIN tx = {"open", "root", "sum", "dirty", "freed", "failed", "holds"}
      /\ Space /\ \A t \in DOMAIN tx.dirty : Sound(tx.dirty[t])
  BY DEF IInv, Transaction, Contents
<1>2. /\ TxKept /\ DOMAIN tx'.dirty = DOMAIN tx.dirty /\ tx'.dirty[p] = c
      /\ \A t \in DOMAIN tx.dirty : t # p => tx'.dirty[t] = tx.dirty[t]
  BY <1>1 DEF TxKept
<1>3. pages' = pages /\ lost' = lost /\ pending_free_pages' = pending_free_pages
      /\ next_page_id' = next_page_id
  BY DEF StoreKept, KeepPages
<1>4. /\ DOMAIN Seen' = DOMAIN Seen \cup DOMAIN tx'.dirty
      /\ \A t \in DOMAIN tx'.dirty : Seen'[t] = tx'.dirty[t]
      /\ \A t \in DOMAIN Seen : t \notin {p} => t \in DOMAIN Seen' /\ Seen'[t] = Seen[t]
  BY <1>2, <1>3, SeenNext
<1>5. \A t \in TreeOf(path, h) : t \in DOMAIN Seen
  <2>1. \A r \in 1..h : \A k \in Nat : path[r][k] \in DOMAIN Seen BY WrittenPages, TreeFacts
  <2> QED BY <2>1, TreeOfFacts
<1>6. Space' /\ CommittedPages' = CommittedPages
  BY <1>1, <1>2, <1>3 DEF Space, CommittedPages
<1>7. \A t \in DOMAIN tx'.dirty : Sound(tx'.dirty[t]) BY <1>1, <1>2
<1> QED BY <1>2, <1>4, <1>5, <1>6, <1>7 DEF Rewritten

\* A step of an insert that takes the frame for done.
LEMMA FrameDone ==
    ASSUME IInv, NEW path, NEW h, IsWritten(path, h), call.step \in FrameSteps,
           NEW level, InFrame(path, h, level), NEW p, NEW c, Rewritten(path, h, p, c),
           NEW path2, NEW res, Replaced(Seen, path, h, level, call.key, Seen', path2, res),
           Return(res), Holds(Seen', path2, Held(call', tx.holds)),
           TreeOf(path2, h) = TreeOf(path, h) \cup DOMAIN tx'.dirty
    PROVE  IInv'
<1>1. /\ Grafted(Seen, path, h, DOMAIN tx.dirty, tx.root, tx.sum, call) /\ IsCall(call)
      /\ TreeOf(path, h) = (CommittedPages \ Range(tx.freed)) \cup DOMAIN tx.dirty
  BY WrittenPages
<1>2. /\ TxKept /\ StoreKept /\ DOMAIN tx.dirty \subseteq DOMAIN tx'.dirty
      /\ Space' /\ CommittedPages' = CommittedPages
      /\ \A t \in DOMAIN tx'.dirty : Sound(tx'.dirty[t])
  BY DEF Rewritten
<1>3. call' = Climbed(call, res) BY DEF Return, Climbed, Outer
<1>4. Low(call, h) = level /\ tx.open /\ ~tx.failed /\ call.key \in Key /\ call.value \in Value
      /\ tx.holds \in [Key -> Value \cup {None}]
  BY DEF InFrame
<1>5. Grafted(Seen', path2, h, DOMAIN tx'.dirty, tx.root, tx.sum, call')
  <2>1. PICK see2, dirty2 : see2 = Seen' /\ dirty2 = DOMAIN tx'.dirty OBVIOUS
  <2>2. Replaced(Seen, path, h, Low(call, h), call.key, see2, path2, res) BY <2>1, <1>4
  <2>3. Grafted(see2, path2, h, dirty2, tx.root, tx.sum, Climbed(call, res))
    BY <2>1, <2>2, <1>1, <1>2, Climbs
  <2> QED BY <2>1, <2>3, <1>3
<1>6. call'.key = call.key /\ call'.value = call.value
  BY <1>1, <1>3 DEF Climbed, IsCall
<1>7. IsWritten(path2, h)'
  <2>1. TreeOf(path2, h) = (CommittedPages' \ Range(tx'.freed)) \cup DOMAIN tx'.dirty
    BY <1>1, <1>2 DEF TxKept
  <2> QED BY <2>1, <1>2, <1>5 DEF IsWritten, TxKept
<1>8. CallOK' BY <1>4, <1>6 DEF CallOK
<1>9. /\ tx.freed \in Seq(Page) /\ InjectiveSeq(tx.freed) /\ Range(tx.freed) \subseteq CommittedPages
  BY DEF IInv, Transaction
<1> QED BY <1>2, <1>4, <1>7, <1>8, <1>9, Inserting DEF TxKept, StoreKept

\* Once a frame has returned, the entry of the insert counts as held.
LEMMA HeldAfter ==
    ASSUME IsCall(call), call.step \in FrameSteps, NEW res, Return(res)
    PROVE  Held(call', tx.holds) = [tx.holds EXCEPT ![call.key] = call.value]
<1>1. call'.step \in {"root", "child"} /\ call'.key = call.key /\ call'.value = call.value
  BY DEF Return, IsCall
<1> QED BY <1>1 DEF Held

\* A leaf that has room gets the entry.
LEMMA LeafWritten == ASSUME IInv, insert_into_leaf PROVE IInv'
<1> DEFINE c == leaf_insert(Content, call.key, call.value)
           p == Frame.page
           key == call.key
<1>1. /\ call.step = "leaf" /\ Fits /\ tx' = [tx EXCEPT !.dirty[p] = c]
      /\ Return(Unsplit(p, c)) /\ KeepPages /\ StoreKept
  BY DEF insert_into_leaf, Working, StoreKept
<1>2. call.step \in FrameSteps /\ call.step # "none" BY <1>1 DEF FrameSteps
<1>3. PICK path, h : IsWritten(path, h) BY <1>2, UnderWay
<1>4. PICK level \in Nat : InFrame(path, h, level) BY <1>2, <1>3, FrameAt
<1>5. /\ level = 1 /\ 1 \in 1..h /\ p = path[1][key] /\ p \in DOMAIN tx.dirty /\ p \in Page
      /\ Tree(Seen, path, h, 1, key) /\ Content = Seen[path[1][key]]
      /\ key \in Key /\ key \in Nat /\ call.value \in Value
      /\ tx.holds \in [Key -> Value \cup {None}]
  BY <1>1, <1>4 DEF InFrame
<1>6. IsLeaf(Content) BY <1>5, TreeFacts DEF LeafLevel
<1>7. fits(Content, KeySize[key] + ValueSize[call.value]) BY <1>1 DEF Fits, Working
<1>8. IsLeaf(c) /\ Pairs(c.entries) = Put(Pairs(Content.entries), key, call.value)
  BY <1>5, <1>6, <1>7, LeafInserted
<1> HIDE DEF c, p
<1>9. Rewritten(path, h, p, c) /\ DOMAIN tx'.dirty = DOMAIN tx.dirty
  <2>1. Sound(c) BY <1>8 DEF Sound
  <2> QED BY <2>1, <1>1, <1>3, <1>5, PageWritten
<1>10. PICK see2 : see2 = Seen' OBVIOUS
<1>11. /\ Tree(see2, path, h, 2, key)
       /\ Holds(Seen, path, tx.holds) => Holds(see2, path, [tx.holds EXCEPT ![key] = call.value])
  <2>1. /\ path[1][key] \in DOMAIN see2 /\ see2[path[1][key]] = c
        /\ \A t \in TreeOf(path, h) : t # path[1][key] => t \in DOMAIN see2 /\ see2[t] = Seen[t]
    BY <1>5, <1>9, <1>10 DEF Rewritten
  <2>2. PICK value \in Value : value = call.value BY <1>5
  <2>3. Pairs(c.entries) = Put(Pairs(Seen[path[1][key]].entries), key, value)
    BY <2>2, <1>5, <1>8
  <2>4. /\ Tree(see2, path, h, 2, key)
        /\ \A map \in [Key -> Value \cup {None}] :
              Holds(Seen, path, map) => Holds(see2, path, [map EXCEPT ![key] = value])
    BY <2>1, <2>3, <1>5, <1>8, LeafPut
  <2> QED BY <2>2, <2>4, <1>5
<1>12. Replaced(Seen, path, h, level, key, see2, path, Unsplit(p, c))
  <2> DEFINE res == Unsplit(p, c)
  <2>1. res.page = p /\ res.sum = c /\ res.right = NoPage BY DEF Unsplit, checksum_page
  <2> HIDE DEF res
  <2>2. IsResult(see2, res) BY <2>1, <1>5, <1>9, <1>10 DEF IsResult, Rewritten
  <2>3. \A k \in Nat : Returned(res, k) = p BY <2>1 DEF Returned
  <2>4. \A t \in TreeOf(path, h) : t # path[1][key] => see2[t] = Seen[t]
    BY <1>5, <1>9, <1>10 DEF Rewritten
  <2>5. level + 1 = 2 BY <1>5
  <2>6. Tree(see2, path, h, level + 1, key) BY <2>5, <1>11
  <2> QED BY <2>1, <2>2, <2>3, <2>4, <2>6, <1>5 DEF Replaced, res
<1>13. Holds(Seen', path, Held(call', tx.holds))
  <2>1. Held(call, tx.holds) = tx.holds BY <1>1 DEF Held
  <2>2. Held(call', tx.holds) = [tx.holds EXCEPT ![key] = call.value]
    BY <1>1, <1>2, <1>3, WrittenPages, HeldAfter
  <2> QED BY <2>1, <2>2, <1>3, <1>10, <1>11 DEF IsWritten
<1>14. TreeOf(path, h) = TreeOf(path, h) \cup DOMAIN tx'.dirty
  BY <1>3, <1>9, WrittenPages
<1> HIDE DEF key
<1>15. Replaced(Seen, path, h, level, call.key, Seen', path, Unsplit(p, c)) BY <1>10, <1>12 DEF key
<1> QED BY <1>1, <1>2, <1>3, <1>4, <1>9, <1>13, <1>14, <1>15, FrameDone
\* What the call for the child has returned.
Came(path, h, level) ==
    LET res == call.result
        key == call.key
    IN  /\ IsResult(Seen, res)
        /\ \A k \in Nat : Beside(Seen, path, level, k, key) => path[level - 1][k] = Returned(res, k)
        /\ res.right # NoPage =>
              \E j, k \in Nat : /\ Beside(Seen, path, level, j, key) /\ j < res.key
                                /\ Beside(Seen, path, level, k, key) /\ res.key <= k
        /\ call.step = "branch" =>
              LET e == Seen[path[level][key]].entries[IndexIn(Seen, path, level, key)]
              IN  res.right # NoPage /\ e.page = res.page /\ e.sum = Seen[res.page]

\* A frame above the leaves waits for its child's result.
LEMMA ChildCame ==
    ASSUME NEW path, NEW h, IsWritten(path, h), NEW level, InFrame(path, h, level),
           call.step \in {"child", "branch"}
    PROVE  Came(path, h, level) /\ level \in 2..h
<1>1. /\ Low(call, h) = level /\ level \in 2..h /\ h \in Nat
  BY DEF InFrame
<1>2. ~(level > h) BY <1>1
<1>3. \A k \in Nat : BesideAt(Seen, path, h, level, k, call.key)
                     <=> Beside(Seen, path, level, k, call.key)
  BY <1>2 DEF BesideAt
<1>4. Stands(Seen, path, h, tx.root, tx.sum, call) BY WrittenPages DEF Grafted
<1>5. Comes(Seen, path, h, call) BY <1>4 DEF Stands
<1>6. call.step = "branch" =>
         LET e == Seen[path[level][call.key]].entries[IndexIn(Seen, path, level, call.key)]
         IN  call.result.right # NoPage /\ e.page = call.result.page
             /\ e.sum = Seen[call.result.page]
  BY <1>1, <1>4 DEF Stands
<1>7. /\ IsResult(Seen, call.result)
      /\ \A k \in Nat : BesideAt(Seen, path, h, level, k, call.key) =>
            path[level - 1][k] = Returned(call.result, k)
      /\ call.result.right # NoPage =>
            \E j, k \in Nat : /\ BesideAt(Seen, path, h, level, j, call.key) /\ j < call.result.key
                              /\ BesideAt(Seen, path, h, level, k, call.key) /\ call.result.key <= k
  BY <1>1, <1>5 DEF Comes
<1> QED BY <1>1, <1>3, <1>6, <1>7 DEF Came

\* The branch of the frame is changed, and the frame returns.
LEMMA BranchReturned ==
    ASSUME IInv, NEW path, NEW h, IsWritten(path, h), call.step \in {"child", "branch"},
           NEW level \in Nat, InFrame(path, h, level), NEW c, IsBranch(c),
           Covers(c.entries, Seen, path, level, path[level][call.key]),
           NEW p, p = Frame.page, tx' = [tx EXCEPT !.dirty[p] = c],
           Return(Unsplit(p, c)), KeepPages, StoreKept
    PROVE  IInv'
<1> DEFINE key == call.key
<1>1. call.step \in FrameSteps BY DEF FrameSteps
<1>2. /\ level \in 1..h /\ level \in 2..h /\ p = path[level][key] /\ p \in DOMAIN tx.dirty
      /\ p \in Page /\ Tree(Seen, path, h, level, key) /\ key \in Nat
  BY DEF InFrame
<1>3. Rewritten(path, h, p, c) /\ DOMAIN tx'.dirty = DOMAIN tx.dirty
  <2>1. Sound(c) BY DEF Sound
  <2> QED BY <2>1, <1>2, PageWritten
<1>4. PICK see2 : see2 = Seen' OBVIOUS
<1>5. /\ path[level][key] \in DOMAIN see2 /\ see2[path[level][key]] = c
      /\ \A t \in TreeOf(path, h) : t # path[level][key] => t \in DOMAIN see2 /\ see2[t] = Seen[t]
  BY <1>2, <1>3, <1>4 DEF Rewritten
<1>6. /\ Tree(see2, path, h, level + 1, key)
      /\ \A map : Holds(Seen, path, map) => Holds(see2, path, map)
  <2>1. Covers(c.entries, Seen, path, level, path[level][key]) OBVIOUS
  <2> HIDE DEF key
  <2> QED BY <2>1, <1>2, <1>5, BranchChanged
<1>7. Replaced(Seen, path, h, level, key, see2, path, Unsplit(p, c))
  <2> DEFINE res == Unsplit(p, c)
  <2>1. res.page = p /\ res.sum = c /\ res.right = NoPage BY DEF Unsplit, checksum_page
  <2> HIDE DEF res
  <2>2. IsResult(see2, res) BY <2>1, <1>2, <1>5 DEF IsResult
  <2>3. \A k \in Nat : Returned(res, k) = p BY <2>1 DEF Returned
  <2> QED BY <2>1, <2>2, <2>3, <1>2, <1>5, <1>6 DEF Replaced, res
<1>8. Holds(Seen', path, Held(call', tx.holds))
  <2>1. Held(call, tx.holds) = [tx.holds EXCEPT ![key] = call.value] BY DEF Held
  <2>2. Held(call', tx.holds) = [tx.holds EXCEPT ![key] = call.value]
    BY <1>1, WrittenPages, HeldAfter
  <2> QED BY <2>1, <2>2, <1>4, <1>6 DEF IsWritten
<1>9. TreeOf(path, h) = TreeOf(path, h) \cup DOMAIN tx'.dirty
  BY <1>3, WrittenPages
<1>10. Replaced(Seen, path, h, level, call.key, Seen', path, Unsplit(p, c)) BY <1>4, <1>7
<1> QED BY <1>1, <1>3, <1>8, <1>9, <1>10, FrameDone

\* A child that was not split replaces the old one in its branch, and the branch
\* returns.
LEMMA ChildTaken ==
    ASSUME IInv, replace_child, call.result.right = NoPage PROVE IInv'
<1> DEFINE c == set_child_at_index(Content, Frame.index, call.result.page, call.result.sum)
           p == Frame.page
<1>1. /\ call.step = "child" /\ tx' = [tx EXCEPT !.dirty[p] = c]
      /\ Return(Unsplit(p, c)) /\ KeepPages /\ StoreKept
  BY DEF replace_child, Working, StoreKept
<1>2. call.step \in FrameSteps /\ call.step # "none" BY <1>1 DEF FrameSteps
<1>3. PICK path, h : IsWritten(path, h) BY <1>2, UnderWay
<1>4. PICK level \in Nat : InFrame(path, h, level) BY <1>2, <1>3, FrameAt
<1>5. Came(path, h, level) /\ level \in 2..h BY <1>1, <1>3, <1>4, ChildCame
<1>6. PICK page, sum : page = call.result.page /\ sum = call.result.sum OBVIOUS
<1>7. page \in Page /\ Seen[page] = sum BY <1>5, <1>6 DEF Came, IsResult
<1>8. PICK key \in Nat : key = call.key BY <1>4 DEF InFrame
<1>9. \A k \in Nat : Beside(Seen, path, level, k, key) => path[level - 1][k] = page
  BY <1>5, <1>6, <1>8 DEF Came, Returned
<1>10. /\ Tree(Seen, path, h, level, key) /\ Content = Seen[path[level][key]]
       /\ Frame.index = IndexIn(Seen, path, level, key)
  BY <1>1, <1>4, <1>8 DEF InFrame
<1>11. LET new == set_child_at_index(Seen[path[level][key]], IndexIn(Seen, path, level, key),
                                     page, sum)
       IN  IsBranch(new) /\ Covers(new.entries, Seen, path, level, path[level][key])
  BY <1>5, <1>7, <1>9, <1>10, ChildReplaced
<1>12. IsBranch(c) /\ Covers(c.entries, Seen, path, level, path[level][call.key])
  BY <1>6, <1>8, <1>10, <1>11
<1> HIDE DEF c
<1> QED BY <1>1, <1>3, <1>4, <1>12, BranchReturned

\* The new entry that a split has left for the branch.
LEMMA NewEntry ==
    ASSUME NEW path, NEW h, NEW level, InFrame(path, h, level), Came(path, h, level),
           call.step = "branch", level \in 2..h
    PROVE  Enlarged(Content, Seen, path, level, call.key, call.result.key, call.result.right)
           /\ call.result.right_sum = Seen[call.result.right]
<1>1. PICK page, sep, right :
         page = call.result.page /\ sep = call.result.key /\ right = call.result.right
  OBVIOUS
<1>2. PICK key \in Nat : key = call.key BY DEF InFrame
<1>3. /\ call.result.right # NoPage /\ IsResult(Seen, call.result) BY DEF Came
<1>4. Forked(Seen, path, level, key, page, sep, right)
  BY <1>1, <1>2, <1>3 DEF Came, Returned, IsResult, Forked
<1>5. Tree(Seen, path, h, level, key) /\ Content = Seen[path[level][key]]
  BY <1>2 DEF InFrame
<1>6. PICK see : see = Seen OBVIOUS
<1>7. Enlarged(see[path[level][key]], see, path, level, key, sep, right)
  BY <1>4, <1>5, <1>6, ChildGrown
<1>8. call.result.right_sum = Seen[call.result.right] BY <1>3 DEF IsResult
<1> QED BY <1>1, <1>2, <1>5, <1>6, <1>7, <1>8

\* A branch that has room gets the right half of its child.
LEMMA ChildInsertedInto == ASSUME IInv, insert_into_branch PROVE IInv'
<1> DEFINE c == branch_insert(Content, call.result.key, call.result.right, call.result.right_sum)
           p == Frame.page
<1>1. /\ call.step = "branch" /\ Fits /\ tx' = [tx EXCEPT !.dirty[p] = c]
      /\ Return(Unsplit(p, c)) /\ KeepPages /\ StoreKept
  BY DEF insert_into_branch, Working, StoreKept
<1>2. call.step \in FrameSteps /\ call.step # "none" BY <1>1 DEF FrameSteps
<1>3. PICK path, h : IsWritten(path, h) BY <1>2, UnderWay
<1>4. PICK level \in Nat : InFrame(path, h, level) BY <1>2, <1>3, FrameAt
<1>5. Came(path, h, level) /\ level \in 2..h BY <1>1, <1>3, <1>4, ChildCame
<1>6. fits(Content, KeySize[call.result.key]) BY <1>1 DEF Fits, Working
<1>7. IsBranch(c) /\ Covers(c.entries, Seen, path, level, path[level][call.key])
  <2>1. /\ Enlarged(Content, Seen, path, level, call.key, call.result.key, call.result.right)
        /\ call.result.right_sum = Seen[call.result.right]
    BY <1>1, <1>4, <1>5, NewEntry
  <2> QED BY <2>1, <1>6 DEF Enlarged
<1> HIDE DEF c
<1> QED BY <1>1, <1>3, <1>4, <1>7, BranchReturned

\* The child was split: its left half takes its place, and the frame goes on.
LEMMA ChildAwaits ==
    ASSUME IInv, replace_child, call.result.right # NoPage PROVE IInv'
<1> DEFINE c == set_child_at_index(Content, Frame.index, call.result.page, call.result.sum)
           p == Frame.page
           res == call.result
<1>1. /\ call.step = "child" /\ tx' = [tx EXCEPT !.dirty[p] = c]
      /\ call' = [call EXCEPT !.step = "branch"] /\ KeepPages /\ StoreKept
  BY DEF replace_child, Working, StoreKept
<1>2. call.step \in FrameSteps /\ call.step # "none" BY <1>1 DEF FrameSteps
<1>3. PICK path, h : IsWritten(path, h) BY <1>2, UnderWay
<1>4. PICK level \in Nat : InFrame(path, h, level) BY <1>2, <1>3, FrameAt
<1>5. Came(path, h, level) /\ level \in 2..h BY <1>1, <1>3, <1>4, ChildCame
<1>6. PICK page, sum : page = res.page /\ sum = res.sum OBVIOUS
<1>7. page \in Page /\ Seen[page] = sum BY <1>5, <1>6 DEF Came, IsResult
<1>8. PICK key \in Nat : key = call.key BY <1>4 DEF InFrame
<1>9. /\ Tree(Seen, path, h, level, key) /\ Content = Seen[path[level][key]]
      /\ Frame.index = IndexIn(Seen, path, level, key) /\ p = path[level][key]
      /\ p \in DOMAIN tx.dirty /\ Low(call, h) = level /\ level \in 1..h /\ h \in Nat
      /\ tx.open /\ ~tx.failed /\ call.key \in Key /\ call.value \in Value
      /\ tx.holds \in [Key -> Value \cup {None}]
  BY <1>1, <1>4, <1>8 DEF InFrame
<1>10. OnPath(Seen, path, level, key) BY <1>5, <1>9, BranchOfKey
<1>11. IsBranch(c)
  <2>1. /\ IsBranch(Content) /\ IndexIn(Seen, path, level, key) \in 1..Len(Content.entries)
    BY <1>9, <1>10 DEF OnPath
  <2>2. PICK x \in 1..Len(Content.entries) : x = Frame.index BY <2>1, <1>9
  <2>3. IsBranch(set_child_at_index(Content, x, page, sum)) BY <2>1, <1>7, ChildSet
  <2> QED BY <2>2, <2>3, <1>6
<1>12. c = set_child_at_index(Seen[path[level][key]], IndexIn(Seen, path, level, key), page, sum)
  BY <1>6, <1>9
<1> HIDE DEF c, p
<1>13. Rewritten(path, h, p, c) /\ DOMAIN tx'.dirty = DOMAIN tx.dirty
  <2>1. Sound(c) BY <1>11 DEF Sound
  <2>2. tx' = [tx EXCEPT !.dirty[p] = c] BY <1>1
  <2> QED BY <2>1, <2>2, <1>1, <1>3, <1>9, PageWritten
<1>14. PICK see2 : see2 = Seen' OBVIOUS
<1>15. /\ path[level][key] \in DOMAIN see2 /\ see2[path[level][key]] = c
       /\ \A t \in TreeOf(path, h) : t # path[level][key] => t \in DOMAIN see2 /\ see2[t] = Seen[t]
  BY <1>9, <1>13, <1>14 DEF Rewritten
<1>16. /\ Tree(see2, path, h, level, key)
       /\ \A map : Holds(Seen, path, map) => Holds(see2, path, map)
       /\ \A k \in Nat : IndexIn(see2, path, level, k) = IndexIn(Seen, path, level, k)
       /\ LET e == see2[path[level][key]].entries[IndexIn(Seen, path, level, key)]
          IN  e.page = page /\ e.sum = sum
  <2>1. PICK see : see = Seen OBVIOUS
  <2>2. Tree(see, path, h, level, key) BY <2>1, <1>9
  <2>3. path[level][key] \in DOMAIN see2 BY <1>15
  <2>4. see2[path[level][key]] = set_child_at_index(see[path[level][key]],
                                   IndexIn(see, path, level, key), page, sum)
    BY <2>1, <1>12, <1>15
  <2>5. \A t \in TreeOf(path, h) : t # path[level][key] => t \in DOMAIN see2 /\ see2[t] = see[t]
    BY <2>1, <1>15
  <2>6. Pends(see, path, h, level, key, page, sum, see2)
    <3>1. level \in 2..h /\ key \in Nat BY <1>5
    <3>2. page \in Page BY <1>7
    <3>3. HasTaken(see, path, h, level, key, page, sum, see2)
      BY <2>3, <2>4, <2>5 DEF HasTaken
    <3> QED BY <2>2, <3>1, <3>2, <3>3, ChildPending
  <2> QED BY <2>1, <2>6 DEF Pends
<1>17. /\ \A r \in 1..h : \A k \in Nat : path[r][k] \in TreeOf(path, h)
       /\ \A r \in 1..h : \A k \in Nat : r # level => path[r][k] # p
  BY <1>3, <1>9, WrittenPages, TreeFacts
<1>18. \A r \in 1..h : \A k \in Nat : IndexIn(see2, path, r, k) = IndexIn(Seen, path, r, k)
  <2> SUFFICES ASSUME NEW r \in 1..h, NEW k \in Nat
               PROVE  IndexIn(see2, path, r, k) = IndexIn(Seen, path, r, k)
    OBVIOUS
  <2>1. CASE r = level BY <2>1, <1>16
  <2>2. CASE r # level
    <3>1. see2[path[r][k]] = Seen[path[r][k]] BY <2>2, <1>9, <1>15, <1>17
    <3> QED BY <3>1 DEF IndexIn
  <2> QED BY <2>1, <2>2
<1>19. \A r \in 2..(h + 1) : \A j, k \in Nat :
          BesideAt(see2, path, h, r, j, k) <=> BesideAt(Seen, path, h, r, j, k)
  <2> SUFFICES ASSUME NEW r \in 2..(h + 1), NEW j \in Nat, NEW k \in Nat
               PROVE  BesideAt(see2, path, h, r, j, k) <=> BesideAt(Seen, path, h, r, j, k)
    OBVIOUS
  <2>1. r > h \/ r \in 1..h BY <1>9
  <2> QED BY <2>1, <1>18 DEF BesideAt, Beside
<1>20. /\ Grafted(Seen, path, h, DOMAIN tx.dirty, tx.root, tx.sum, call) /\ IsCall(call)
       /\ Stacked(Seen, path, h, DOMAIN tx.dirty, call)
       /\ Stands(Seen, path, h, tx.root, tx.sum, call)
  BY <1>3, WrittenPages DEF Grafted
<1>21. PICK d : d = call' OBVIOUS
<1>22. /\ d.step = "branch" /\ d.key = key /\ d.value = call.value /\ d.frames = call.frames
       /\ d.result = res /\ IsCall(d) /\ Low(d, h) = level
  <2>1. /\ d.step = "branch" /\ d.key = key /\ d.value = call.value /\ d.frames = call.frames
        /\ d.result = res /\ DOMAIN d = DOMAIN call
    BY <1>1, <1>8, <1>20, <1>21 DEF IsCall
  <2>2. IsCall(d) BY <2>1, <1>20, <1>8 DEF IsCall
  <2> QED BY <2>1, <2>2, <1>9 DEF Low
<1>23. Stacked(see2, path, h, DOMAIN tx'.dirty, d)
  <2>1. /\ Len(d.frames) \in 0..h
        /\ \A i \in 1..Len(d.frames) : IsFrame(Seen, path, DOMAIN tx.dirty, key, d.frames[i], h + 1 - i)
        /\ \A r \in 2..(h + 1) : r > level =>
              \A k \in Nat : BesideAt(Seen, path, h, r, k, key) => path[r - 1][k] = path[r - 1][key]
    BY <1>8, <1>9, <1>20, <1>22 DEF Stacked
  <2>2. ASSUME NEW i \in 1..Len(d.frames)
        PROVE  IsFrame(see2, path, DOMAIN tx'.dirty, key, d.frames[i], h + 1 - i)
    <3>1. PICK n \in 0..h : n = Len(d.frames) BY <2>1
    <3>2. i \in 1..n BY <3>1
    <3>3. h + 1 - i \in 1..h BY <3>2, <1>9
    <3>4. PICK r \in 1..h : r = h + 1 - i BY <3>3
    <3>5. IsFrame(Seen, path, DOMAIN tx.dirty, key, d.frames[i], r) BY <2>1, <3>4
    <3>6. IsFrame(see2, path, DOMAIN tx'.dirty, key, d.frames[i], r)
      BY <3>5, <1>13, <1>18 DEF IsFrame
    <3> QED BY <3>4, <3>6
  <2>3. \A r \in 2..(h + 1) : r > level =>
           \A k \in Nat : BesideAt(see2, path, h, r, k, key) => path[r - 1][k] = path[r - 1][key]
    BY <2>1, <1>19
  <2>4. d.step # "enter" /\ Low(d, h) = level /\ d.key = key BY <1>22
  <2> QED BY <2>1, <2>2, <2>3, <2>4 DEF Stacked
<1>24. /\ \A k \in Nat : BesideAt(Seen, path, h, level, k, key) => path[level - 1][k] = Returned(res, k)
       /\ \E j, k \in Nat : /\ BesideAt(Seen, path, h, level, j, key) /\ j < res.key
                            /\ BesideAt(Seen, path, h, level, k, key) /\ res.key <= k
       /\ IsResult(Seen, res) /\ res.right # NoPage
  <2>1. Comes(Seen, path, h, call) BY <1>1, <1>20 DEF Stands
  <2> QED BY <2>1, <1>8, <1>9 DEF Comes
<1>25. level \in 2..(h + 1) /\ level - 1 \in 1..h /\ level - 1 # level
  BY <1>5, <1>9
<1>26. see2[res.page] = Seen[res.page] /\ see2[res.right] = Seen[res.right]
  <2>1. PICK j \in Nat, k \in Nat : /\ BesideAt(Seen, path, h, level, j, key) /\ j < res.key
                                    /\ BesideAt(Seen, path, h, level, k, key) /\ res.key <= k
    BY <1>24
  <2>2. res.key \in Nat BY <1>24, KeyAssumption DEF IsResult
  <2>3. ~(res.key <= j) BY <2>1, <2>2
  <2>4. path[level - 1][j] = res.page /\ path[level - 1][k] = res.right
    BY <2>1, <2>3, <1>24 DEF Returned
  <2>5. /\ path[level - 1][j] \in TreeOf(path, h) /\ path[level - 1][j] # p
        /\ path[level - 1][k] \in TreeOf(path, h) /\ path[level - 1][k] # p
    BY <1>17, <1>25
  <2> QED BY <2>4, <2>5, <1>9, <1>15
<1>27. Stands(see2, path, h, tx.root, tx.sum, d)
  <2>1. IsResult(see2, res) BY <1>24, <1>26 DEF IsResult
  <2>2. Comes(see2, path, h, d) BY <2>1, <1>19, <1>22, <1>24, <1>25 DEF Comes
  <2>3. LET e == see2[path[level][key]].entries[IndexIn(see2, path, level, key)]
        IN  e.page = res.page /\ e.sum = see2[res.page]
    BY <1>6, <1>7, <1>16, <1>26
  <2> QED BY <2>2, <2>3, <1>5, <1>22, <1>24 DEF Stands
<1>28. Grafted(see2, path, h, DOMAIN tx'.dirty, tx.root, tx.sum, d)
  BY <1>16, <1>22, <1>23, <1>27 DEF Grafted
<1>29. IsWritten(path, h)'
  <2>1. Held(call', tx.holds) = Held(call, tx.holds) BY <1>1, <1>8, <1>21, <1>22 DEF Held
  <2>2. TreeOf(path, h) = (CommittedPages \ Range(tx.freed)) \cup DOMAIN tx.dirty
    BY <1>3, WrittenPages
  <2>3. Holds(Seen, path, Held(call, tx.holds)) BY <1>3 DEF IsWritten
  <2>4. /\ TxKept /\ CommittedPages' = CommittedPages BY <1>13 DEF Rewritten
  <2>5. Holds(see2, path, Held(call', tx'.holds)) BY <2>1, <2>3, <2>4, <1>16 DEF TxKept
  <2>6. TreeOf(path, h) = (CommittedPages' \ Range(tx'.freed)) \cup DOMAIN tx'.dirty
    BY <2>2, <2>4, <1>13 DEF TxKept
  <2> QED BY <2>4, <2>5, <2>6, <1>14, <1>21, <1>28 DEF IsWritten, TxKept
<1>30. CallOK' BY <1>8, <1>9, <1>21, <1>22 DEF CallOK
<1>31. /\ tx.freed \in Seq(Page) /\ InjectiveSeq(tx.freed) /\ Range(tx.freed) \subseteq CommittedPages
  BY DEF IInv, Transaction
<1>32. /\ TxKept /\ StoreKept /\ Space' /\ CommittedPages' = CommittedPages
       /\ \A t \in DOMAIN tx'.dirty : Sound(tx'.dirty[t])
  BY <1>13 DEF Rewritten
<1> QED BY <1>9, <1>29, <1>30, <1>31, <1>32, Inserting DEF TxKept, StoreKept
\* The page of the frame is split.
PageDivided(p, c, q, d) ==
    /\ q = allocated /\ TakePage /\ StoreKept
    /\ tx' = [tx EXCEPT !.dirty = With(With(@, q, d), p, c)]

\* A split writes the page of the frame and a new one, which was in no tree.
LEMMA PagesWritten ==
    ASSUME IInv, NEW path, NEW h, IsWritten(path, h), NEW p \in DOMAIN tx.dirty,
           NEW q, NEW c, Sound(c), NEW d, Sound(d), PageDivided(p, c, q, d)
    PROVE  /\ Rewritten(path, h, p, c) /\ DOMAIN tx'.dirty = DOMAIN tx.dirty \cup {q}
           /\ q \in Page /\ q \notin TreeOf(path, h) /\ q # p
           /\ q \in DOMAIN Seen' /\ Seen'[q] = d
<1>1. /\ DOMAIN tx = {"open", "root", "sum", "dirty", "freed", "failed", "holds"}
      /\ Space /\ \A t \in DOMAIN tx.dirty : Sound(tx.dirty[t])
  BY DEF IInv, Transaction, Contents
<1>2. TxKept /\ tx'.dirty = With(With(tx.dirty, q, d), p, c) BY <1>1 DEF PageDivided, TxKept
<1>3. PICK f, g, f2 : f = tx.dirty /\ g = With(f, q, d) /\ f2 = With(g, p, c) OBVIOUS
<1>4. Patched(g, f, q, d) /\ Patched(f2, g, p, c) BY <1>3, Patching
<1>5. tx'.dirty = f2 BY <1>2, <1>3
<1>6. /\ DOMAIN f2 = DOMAIN f \cup {q} /\ f2[p] = c /\ (q # p => f2[q] = d)
      /\ \A t \in DOMAIN f : t # p /\ t # q => f2[t] = f[t]
  BY <1>3, <1>4 DEF Patched
<1>7. pages' = pages /\ lost' = lost /\ q = allocated /\ TakePage /\ StoreKept
  BY DEF PageDivided, StoreKept
<1>8. /\ q \in Page /\ q \notin DOMAIN tx.dirty /\ q \notin CommittedPages
      /\ Space' /\ CommittedPages' = CommittedPages
  BY <1>1, <1>3, <1>5, <1>6, <1>7, PageTaken
<1>9. q # p BY <1>8
<1>10. /\ \A r \in 1..h : \A k \in Nat : path[r][k] \in DOMAIN Seen
       /\ TreeOf(path, h) = (CommittedPages \ Range(tx.freed)) \cup DOMAIN tx.dirty
  BY WrittenPages, TreeFacts
<1>11. q \notin TreeOf(path, h) BY <1>8, <1>10
<1>12. /\ DOMAIN tx.dirty \subseteq DOMAIN tx'.dirty
       /\ DOMAIN tx'.dirty \subseteq DOMAIN tx.dirty \cup {p, q}
       /\ \A t \in DOMAIN tx.dirty : t \notin {p, q} => tx'.dirty[t] = tx.dirty[t]
  BY <1>3, <1>5, <1>6
<1>13. /\ DOMAIN Seen' = DOMAIN Seen \cup DOMAIN tx'.dirty
       /\ \A t \in DOMAIN tx'.dirty : Seen'[t] = tx'.dirty[t]
       /\ \A t \in DOMAIN Seen : t \notin {p, q} => t \in DOMAIN Seen' /\ Seen'[t] = Seen[t]
  BY <1>7, <1>12, SeenNext
<1>14. \A t \in TreeOf(path, h) : t \in DOMAIN Seen BY <1>10, TreeOfFacts
<1>15. \A t \in DOMAIN tx'.dirty : Sound(tx'.dirty[t]) BY <1>1, <1>3, <1>5, <1>6, <1>9
<1>16. Rewritten(path, h, p, c)
  BY <1>2, <1>3, <1>5, <1>6, <1>8, <1>7, <1>11, <1>12, <1>13, <1>14, <1>15 DEF Rewritten
<1> QED BY <1>3, <1>5, <1>6, <1>8, <1>9, <1>11, <1>13, <1>16

\* A frame that returns two halves keeps the invariant, if they part its page at the
\* separator.
LEMMA SplitDone ==
    ASSUME IInv, NEW path, NEW h, IsWritten(path, h), call.step \in FrameSteps,
           NEW level, InFrame(path, h, level), NEW p, p = Frame.page, NEW c, NEW d, NEW q,
           Rewritten(path, h, p, c), DOMAIN tx'.dirty = DOMAIN tx.dirty \cup {q},
           q \in Page, q \notin TreeOf(path, h), q # p, Seen'[q] = d,
           NEW sep \in Key, NEW path2, IsParted(path2, path, h, level, p, sep, q),
           Parts(path, level, p, sep), Tree(Seen', path2, h, level + 1, call.key),
           \A map \in [Key -> Value \cup {None}] : Holds(Seen, path, map) =>
              Holds(Seen', path2, IF call.step = "leaf" THEN [map EXCEPT ![call.key] = call.value]
                                  ELSE map),
           Return(Split(p, c, sep, q, d))
    PROVE  IInv'
<1> DEFINE key == call.key
           res == Split(p, c, sep, q, d)
<1>1. /\ level \in 1..h /\ p = path[level][key] /\ p \in Page /\ Tree(Seen, path, h, level, key)
      /\ key \in Nat /\ key \in Key /\ call.value \in Value
      /\ tx.holds \in [Key -> Value \cup {None}] /\ sep \in Nat
  BY KeyAssumption DEF InFrame
<1>2. /\ res.page = p /\ res.sum = c /\ res.right = q /\ res.right_sum = d /\ res.key = sep
  BY DEF Split, checksum_page
<1>3. q # NoPage BY DEF Page, NoPage
<1> HIDE DEF res
<1>4. PICK j \in Nat, k \in Nat : /\ path[level][j] = p /\ j < sep
                                  /\ path[level][k] = p /\ sep <= k
  BY DEF Parts
<1>5. TreeOf(path2, h) = TreeOf(path, h) \cup {q}
  <2>1. \A r \in 1..h : \A m \in Nat : path[r][m] = p => r = level
    BY <1>1, TreeFacts
  <2>2. \E low \in Nat : path[level][low] = p /\ low < sep BY <1>4
  <2>3. IsPath(path, h) BY WrittenPages
  <2>4. (\E low \in Nat : path[level][low] = p /\ low < sep) =>
           TreeOf(path2, h) = TreeOf(path, h) \cup {q}
    BY <2>1, <2>3, <1>1, <1>4, PartedTree
  <2> QED BY <2>2, <2>4
<1>6. PICK see2 : see2 = Seen' OBVIOUS
<1>7. Replaced(Seen, path, h, level, key, see2, path2, res)
  <2>1. see2[p] = c /\ see2[q] = d /\ \A t \in TreeOf(path, h) : t # p => see2[t] = Seen[t]
    BY <1>6 DEF Rewritten
  <2>2. IsResult(see2, res) BY <2>1, <1>1, <1>2, <1>3 DEF IsResult
  <2>3. /\ \A r \in 1..h : r # level => path2[r] = path[r]
        /\ \A m \in Nat : path2[level][m] = IF path[level][m] = p /\ sep <= m THEN q
                                            ELSE path[level][m]
    BY DEF IsParted
  <2>4. \A m \in Nat : path[level][m] = path[level][key] => path2[level][m] = Returned(res, m)
    BY <2>3, <1>1, <1>2, <1>3 DEF Returned
  <2>5. \E i, m \in Nat : /\ path[level][i] = path[level][key] /\ i < res.key
                          /\ path[level][m] = path[level][key] /\ res.key <= m
    BY <1>1, <1>2, <1>4
  <2>6. \A t \in TreeOf(path, h) : t # path[level][key] => see2[t] = Seen[t] BY <2>1, <1>1
  <2>7. Tree(see2, path2, h, level + 1, key) BY <1>6
  <2> QED BY <2>2, <2>3, <2>4, <2>5, <2>6, <2>7 DEF Replaced
<1>8. Holds(Seen', path2, Held(call', tx.holds))
  <2>1. Held(call', tx.holds) = [tx.holds EXCEPT ![key] = call.value]
    BY WrittenPages, HeldAfter DEF res
  <2>2. Holds(Seen, path, Held(call, tx.holds)) BY DEF IsWritten
  <2>3. CASE call.step = "leaf"
    <3>1. Held(call, tx.holds) = tx.holds BY <2>3 DEF Held
    <3> QED BY <3>1, <2>1, <2>2, <2>3, <1>1
  <2>4. CASE call.step # "leaf"
    <3>1. Held(call, tx.holds) = [tx.holds EXCEPT ![key] = call.value]
      BY <2>4 DEF Held, FrameSteps
    <3>2. [tx.holds EXCEPT ![key] = call.value] \in [Key -> Value \cup {None}] BY <1>1
    <3> QED BY <3>1, <3>2, <2>1, <2>2, <2>4
  <2> QED BY <2>3, <2>4
<1>9. TreeOf(path2, h) = TreeOf(path, h) \cup DOMAIN tx'.dirty
  BY <1>5, WrittenPages
<1>10. Replaced(Seen, path, h, level, call.key, Seen', path2, res) BY <1>6, <1>7
<1>11. Return(res) BY DEF res
<1> QED BY <1>8, <1>9, <1>10, <1>11, FrameDone

\* A leaf is split.
LEMMA LeafSplit == ASSUME IInv, split_page, call.step = "leaf" PROVE IInv'
<1> DEFINE es == LeafBuilder(Content, call.key, call.value)
           left == LeftHalf(es)
           right == RightHalf(es)
           sep == RightHalf(es)[1].key
           c == build_entries_at_buf("leaf", left)
           d == build_entries_at_buf("leaf", right)
           p == Frame.page
           q == allocated
           key == call.key
<1>1. call.step \in FrameSteps /\ call.step # "none" BY DEF FrameSteps
<1>2. PICK path, h : IsWritten(path, h) BY <1>1, UnderWay
<1>3. PICK level \in Nat : InFrame(path, h, level) BY <1>1, <1>2, FrameAt
<1>4. /\ level = 1 /\ 1 \in 1..h /\ p = path[1][key] /\ p \in DOMAIN tx.dirty /\ p \in Page
      /\ Tree(Seen, path, h, 1, key) /\ Content = Seen[path[1][key]]
      /\ key \in Key /\ key \in Nat /\ call.value \in Value /\ IsPath(path, h)
  BY <1>3 DEF InFrame
<1>5. IsLeaf(Content) /\ Content.kind = "leaf" BY <1>4, TreeFacts, LeafFacts DEF LeafLevel
<1>6. Entries = es /\ Left = left /\ Right = right
  BY DEF Entries, Left, Right, Working
<1>7. /\ Len(es) >= 2 /\ BuildFits("leaf", left) /\ BuildFits("leaf", right)
      /\ PageDivided(p, c, q, d) /\ Return(Split(p, c, sep, q, d))
  BY <1>5, <1>6 DEF split_page, HalvesFit, PageDivided, StoreKept
<1>8. PICK value \in Value : value = call.value BY <1>4
<1>9. PICK all : all = Put(Pairs(Content.entries), key, value) OBVIOUS
<1>10. es \in Seq(LeafEntries) /\ Ordered(es) /\ Pairs(es) = all
  BY <1>4, <1>5, <1>8, <1>9, LeafBuilderFacts
<1> HIDE DEF es
<1>11. /\ sep \in Key
       /\ left \in Seq(LeafEntries) /\ Ordered(left)
       /\ right \in Seq(LeafEntries) /\ Ordered(right)
       /\ Pairs(left) = {a \in all : a[1] < sep}
       /\ Pairs(right) = {a \in all : sep <= a[1]}
       /\ \E a \in all : a[1] < sep
       /\ \E a \in all : a[1] = sep
  BY <1>7, <1>10, LeafHalves
<1> HIDE DEF left, right, sep
<1>12. LeafParts(c, d, all, sep)
  BY <1>7, <1>11, LeafBuilt DEF LeafParts
<1> HIDE DEF c, d, p, q
<1>13. /\ Rewritten(path, h, p, c) /\ DOMAIN tx'.dirty = DOMAIN tx.dirty \cup {q}
       /\ q \in Page /\ q \notin TreeOf(path, h) /\ q # p
       /\ q \in DOMAIN Seen' /\ Seen'[q] = d
  <2>1. Sound(c) /\ Sound(d) BY <1>12 DEF Sound, LeafParts
  <2>2. PageDivided(p, c, q, d) BY <1>7
  <2>3. p \in DOMAIN tx.dirty BY <1>4
  <2> QED BY <2>1, <2>2, <2>3, <1>2, PagesWritten
<1>14. sep \in Nat BY <1>11, KeyAssumption
<1>15. PICK path2 : IsParted(path2, path, h, 1, p, sep, q)
  BY <1>4, <1>13, <1>14, PartedPath
<1>16. PICK see, see2 : see = Seen /\ see2 = Seen' OBVIOUS
<1>17. /\ Tree(see2, path2, h, 2, key)
       /\ \A map \in [Key -> Value \cup {None}] :
             Holds(see, path, map) => Holds(see2, path2, [map EXCEPT ![key] = value])
       /\ Parts(path, 1, path[1][key], sep)
  <2>1. Tree(see, path, h, 1, key) BY <1>4, <1>16
  <2>2. all = Put(Pairs(see[path[1][key]].entries), key, value) BY <1>4, <1>9, <1>16
  <2>3. Divided(see, path, h, path[1][key], c, q, d, see2)
    BY <1>4, <1>13, <1>16 DEF Rewritten, Divided
  <2>4. IsParted(path2, path, h, 1, path[1][key], sep, q) BY <1>4, <1>15
  <2>5. PICK k \in Key : k = key BY <1>4
  <2> HIDE DEF key
  <2>6. /\ Tree(see2, path2, h, 2, k)
        /\ \A map \in [Key -> Value \cup {None}] :
              Holds(see, path, map) => Holds(see2, path2, [map EXCEPT ![k] = value])
        /\ Parts(path, 1, path[1][k], sep)
    BY <2>1, <2>2, <2>3, <2>4, <2>5, <1>11, <1>12, LeafDivided
  <2> QED BY <2>5, <2>6
<1>18. Parts(path, 1, p, sep) BY <1>4, <1>17
<1>19. level + 1 = 2 BY <1>4
<1>20. Tree(Seen', path2, h, level + 1, call.key) BY <1>16, <1>17, <1>19
<1>21. \A map \in [Key -> Value \cup {None}] : Holds(Seen, path, map) =>
          Holds(Seen', path2, IF call.step = "leaf" THEN [map EXCEPT ![call.key] = call.value]
                              ELSE map)
  BY <1>8, <1>16, <1>17
<1>22. IsParted(path2, path, h, level, p, sep, q) /\ Parts(path, level, p, sep) /\ p = Frame.page
  BY <1>4, <1>15, <1>18 DEF p
<1> QED BY <1>1, <1>2, <1>3, <1>7, <1>11, <1>13, <1>20, <1>21, <1>22, SplitDone

\* A branch is split.
LEMMA BranchSplit == ASSUME IInv, split_page, call.step = "branch" PROVE IInv'
<1> DEFINE es == BranchBuilder(Content, call.result.key, call.result.right, call.result.right_sum)
           left == LeftHalf(es)
           right == WithoutFirstKey(RightHalf(es))
           sep == RightHalf(es)[1].key
           c == build_entries_at_buf("branch", left)
           d == build_entries_at_buf("branch", right)
           p == Frame.page
           q == allocated
           key == call.key
<1>1. call.step \in FrameSteps /\ call.step # "none" BY DEF FrameSteps
<1>2. PICK path, h : IsWritten(path, h) BY <1>1, UnderWay
<1>3. PICK level \in Nat : InFrame(path, h, level) BY <1>1, <1>2, FrameAt
<1>4. Came(path, h, level) /\ level \in 2..h BY <1>2, <1>3, ChildCame
<1>5. /\ level \in 1..h /\ p = path[level][key] /\ p \in DOMAIN tx.dirty /\ p \in Page
      /\ Tree(Seen, path, h, level, key) /\ Content = Seen[path[level][key]]
      /\ key \in Key /\ key \in Nat /\ call.value \in Value /\ IsPath(path, h)
  BY <1>3 DEF InFrame
<1>6. Content.kind = "branch"
  <2>1. IsBranch(Content) BY <1>4, <1>5, BranchOfKey DEF OnPath
  <2> QED BY <2>1, BranchFacts
<1>7. Entries = es /\ Left = left /\ Right = right
  BY DEF Entries, Left, Right, Working
<1>8. /\ Len(es) >= 2 /\ BuildFits("branch", left) /\ BuildFits("branch", right)
      /\ PageDivided(p, c, q, d) /\ Return(Split(p, c, sep, q, d))
  BY <1>6, <1>7 DEF split_page, HalvesFit, PageDivided, StoreKept
<1>9. AreChildren(es) /\ Covers(es, Seen, path, level, p)
  <2>1. /\ Enlarged(Content, Seen, path, level, key, call.result.key, call.result.right)
        /\ call.result.right_sum = Seen[call.result.right]
    BY <1>3, <1>4, NewEntry
  <2> QED BY <2>1, <1>5 DEF Enlarged
<1> HIDE DEF es
<1>10. /\ sep \in Key /\ AreChildren(left) /\ AreChildren(right)
  BY <1>8, <1>9, ChildHalves
<1> HIDE DEF left, right, sep
<1>11. BranchParts(es, c, d, sep)
  <2>1. IsBranch(c) /\ Alike(c.entries, left) /\ IsBranch(d) /\ Alike(d.entries, right)
    BY <1>8, <1>10, BranchBuilt DEF Alike
  <2> HIDE DEF c, d
  <2> QED BY <2>1, <1>8, <1>9 DEF BranchParts, left, right, sep
<1> HIDE DEF c, d, p, q
<1>12. /\ Rewritten(path, h, p, c) /\ DOMAIN tx'.dirty = DOMAIN tx.dirty \cup {q}
       /\ q \in Page /\ q \notin TreeOf(path, h) /\ q # p
       /\ q \in DOMAIN Seen' /\ Seen'[q] = d
  <2>1. Sound(c) /\ Sound(d) BY <1>11 DEF Sound, BranchParts
  <2>2. PageDivided(p, c, q, d) BY <1>8
  <2>3. p \in DOMAIN tx.dirty BY <1>5
  <2> QED BY <2>1, <2>2, <2>3, <1>2, PagesWritten
<1>13. sep \in Nat BY <1>10, KeyAssumption
<1>14. PICK path2 : IsParted(path2, path, h, level, p, sep, q)
  BY <1>5, <1>12, <1>13, PartedPath
<1>15. PICK see, see2 : see = Seen /\ see2 = Seen' OBVIOUS
<1>16. PICK k \in Nat : k = key BY <1>5
<1> HIDE DEF key
<1>17. /\ Tree(see2, path2, h, level + 1, k)
       /\ \A map : Holds(see, path, map) => Holds(see2, path2, map)
       /\ Parts(path, level, path[level][k], sep)
  <2>1. Tree(see, path, h, level, k) /\ Covers(es, see, path, level, path[level][k])
    BY <1>5, <1>9, <1>15, <1>16
  <2>2. Divided(see, path, h, path[level][k], c, q, d, see2)
    BY <1>5, <1>12, <1>15, <1>16 DEF Rewritten, Divided
  <2>3. IsParted(path2, path, h, level, path[level][k], sep, q) BY <1>5, <1>14, <1>16
  <2> QED BY <2>1, <2>2, <2>3, <1>4, <1>11, BranchDivided
<1>18. Parts(path, level, p, sep) BY <1>5, <1>16, <1>17
<1>19. Tree(Seen', path2, h, level + 1, call.key) BY <1>15, <1>16, <1>17 DEF key
<1>20. \A map \in [Key -> Value \cup {None}] : Holds(Seen, path, map) =>
          Holds(Seen', path2, IF call.step = "leaf" THEN [map EXCEPT ![call.key] = call.value]
                              ELSE map)
  BY <1>15, <1>17
<1>21. p = Frame.page BY DEF p
<1> QED BY <1>1, <1>2, <1>3, <1>8, <1>10, <1>12, <1>14, <1>18, <1>19, <1>20, <1>21, SplitDone

-----------------------------------------------------------------------------
(* The root is set, and a transaction begins, ends or fails. *)

\* A tree that no insert is under way in.
LEMMA Resting ==
    ASSUME NEW see, NEW path, NEW h, NEW key, Tree(see, path, h, h + 1, key),
           NEW root, \A k \in Nat : path[h][k] = root, NEW sum, sum = see[root], NEW dirty
    PROVE  Grafted(see, path, h, dirty, root, sum, NoCall)
<1>1. h \in Nat \ {0} BY TreeFacts
<1>2. /\ DOMAIN NoCall = {"step", "key", "value", "frames", "at", "result"}
      /\ NoCall.step = "none" /\ NoCall.key = 0 /\ NoCall.frames = <<>>
  BY DEF NoCall, NoKey
<1>3. Len(NoCall.frames) = 0 /\ NoCall.frames \in Seq([page : Page, index : Nat])
  BY <1>2, EmptySeq
<1> HIDE DEF NoCall
<1>4. IsCall(NoCall) BY <1>2, <1>3 DEF IsCall
<1>5. Low(NoCall, h) = h + 1 BY <1>1, <1>3 DEF Low
<1>6. Tree(see, path, h, h + 1, NoCall.key) BY <1>1, TreeAtRest
<1>7. Stacked(see, path, h, dirty, NoCall)
  <2>1. \A r \in 2..(h + 1) : ~(r > h + 1) BY <1>1
  <2>2. 0 \in 0..h /\ 1..0 = {} BY <1>1
  <2> QED BY <2>1, <2>2, <1>2, <1>3, <1>5 DEF Stacked
<1>8. Stands(see, path, h, root, sum, NoCall) BY <1>2 DEF Stands
<1> QED BY <1>4, <1>5, <1>6, <1>7, <1>8 DEF Grafted

\* At rest the tree is that of the transaction's root.
LEMMA RestFacts ==
    ASSUME NEW see, NEW path, NEW h, NEW dirty, NEW root, NEW sum, NEW c, c.step = "none",
           Grafted(see, path, h, dirty, root, sum, c)
    PROVE  /\ c = NoCall /\ Tree(see, path, h, h + 1, NoKey) /\ h \in Nat \ {0}
           /\ (\A k \in Nat : path[h][k] = root) /\ sum = see[root]
<1>1. /\ Tree(see, path, h, Low(c, h), c.key) /\ c = NoCall
      /\ (\A k \in Nat : path[h][k] = root) /\ sum = see[root]
  BY DEF Grafted, Stands
<1>2. h \in Nat \ {0} BY <1>1, TreeFacts
<1>3. c.frames = <<>> /\ c.key = NoKey BY <1>1 DEF NoCall
<1>4. Len(c.frames) = 0 BY <1>3, EmptySeq
<1>5. Low(c, h) = h + 1 BY <1>2, <1>4 DEF Low
<1> QED BY <1>1, <1>2, <1>3, <1>5

\* The call of the whole insert has returned.
LEMMA RootCame ==
    ASSUME NEW path, NEW h, IsWritten(path, h), call.step = "root"
    PROVE  /\ IsResult(Seen, call.result) /\ h \in Nat \ {0}
           /\ Tree(Seen, path, h, h + 1, call.key)
           /\ \A k \in Nat : path[h][k] = Returned(call.result, k)
<1>1. /\ Tree(Seen, path, h, Low(call, h), call.key)
      /\ Stands(Seen, path, h, tx.root, tx.sum, call)
  BY WrittenPages DEF Grafted
<1>2. h \in Nat \ {0} BY <1>1, TreeFacts
<1>3. Low(call, h) = h + 1 /\ Comes(Seen, path, h, call) BY <1>1 DEF Stands
<1>4. (h + 1) - 1 = h /\ h + 1 > h BY <1>2
<1>5. /\ IsResult(Seen, call.result)
      /\ \A k \in Nat : BesideAt(Seen, path, h, h + 1, k, call.key) =>
            path[(h + 1) - 1][k] = Returned(call.result, k)
  BY <1>3 DEF Comes
<1>6. \A k \in Nat : path[h][k] = Returned(call.result, k)
  BY <1>4, <1>5 DEF BesideAt
<1> QED BY <1>1, <1>2, <1>3, <1>5, <1>6

\* The frame of the root has returned one page, which becomes the root.
LEMMA RootSet == ASSUME IInv, set_root_page PROVE IInv'
<1> DEFINE root == call.result.page
           sum == call.result.sum
<1>1. /\ call.step = "root" /\ call.result.right = NoPage /\ KeepPages /\ StoreKept
      /\ tx' = [tx EXCEPT !.root = root, !.sum = sum, !.dirty = tx.dirty,
                          !.holds[call.key] = call.value]
      /\ call' = NoCall
  BY DEF set_root_page, SetRoot, Working, StoreKept
<1>2. /\ tx.open /\ ~tx.failed /\ call.key \in Key /\ call.value \in Value
      /\ tx.holds \in [Key -> Value \cup {None}]
  BY <1>1, UnderWay
<1>3. PICK path, h : IsWritten(path, h) BY <1>1, UnderWay
<1>4. /\ IsResult(Seen, call.result) /\ h \in Nat \ {0} /\ Tree(Seen, path, h, h + 1, call.key)
      /\ \A k \in Nat : path[h][k] = Returned(call.result, k)
  BY <1>1, <1>3, RootCame
<1>5. (\A k \in Nat : path[h][k] = root) /\ sum = Seen[root]
  BY <1>1, <1>4 DEF Returned, IsResult
<1>6. /\ DOMAIN tx = {"open", "root", "sum", "dirty", "freed", "failed", "holds"}
      /\ tx.freed \in Seq(Page) /\ InjectiveSeq(tx.freed) /\ Range(tx.freed) \subseteq CommittedPages
      /\ Space /\ \A t \in DOMAIN tx.dirty : Sound(tx.dirty[t])
  BY DEF IInv, Transaction, Contents
<1> HIDE DEF root, sum
<1>7. /\ DOMAIN tx' = DOMAIN tx /\ tx'.open = tx.open /\ tx'.failed = tx.failed
      /\ tx'.root = root /\ tx'.sum = sum /\ tx'.dirty = tx.dirty /\ tx'.freed = tx.freed
      /\ tx'.holds = [tx.holds EXCEPT ![call.key] = call.value]
  BY <1>1, <1>6
<1>8. /\ pages' = pages /\ slot' = slot /\ committed' = committed /\ failure' = failure
      /\ lost' = lost /\ pending_free_pages' = pending_free_pages /\ next_page_id' = next_page_id
  BY <1>1 DEF StoreKept, KeepPages
<1>9. Seen' = Seen /\ CommittedPages' = CommittedPages /\ Space'
  BY <1>6, <1>7, <1>8 DEF Seen, CommittedPages, Space
<1>10. Grafted(Seen, path, h, DOMAIN tx.dirty, root, sum, NoCall)
  BY <1>4, <1>5, Resting
<1>11. Held(call', tx'.holds) = Held(call, tx.holds) BY <1>1, <1>7 DEF Held, NoCall
<1>12. IsWritten(path, h)'
  BY <1>1, <1>3, <1>7, <1>9, <1>10, <1>11 DEF IsWritten
<1>13. CallOK' BY <1>1 DEF CallOK, NoCall
<1>14. tx'.holds \in [Key -> Value \cup {None}] BY <1>2, <1>7
<1> QED BY <1>2, <1>6, <1>7, <1>8, <1>9, <1>12, <1>13, <1>14, Inserting

\* A transaction begins with the committed tree.
LEMMA BeginsWrite == ASSUME IInv, begin_write PROVE IInv'
<1>1. /\ ~tx.open /\ slot.tx < MaxTx
      /\ tx' = [NoTx EXCEPT !.open = TRUE, !.root = slot.root, !.sum = slot.sum,
                            !.holds = committed]
      /\ pages' = pages /\ slot' = slot /\ pending_free_pages' = pending_free_pages
      /\ next_page_id' = next_page_id /\ call' = call /\ failure' = failure
      /\ committed' = committed /\ lost' = lost
  BY DEF begin_write
<1>2. tx = NoTx /\ call = NoCall BY <1>1 DEF IInv, Transaction
<1>3. tx.dirty = <<>> BY <1>2 DEF NoTx
<1>4. /\ DOMAIN tx' = {"open", "root", "sum", "dirty", "freed", "failed", "holds"}
      /\ tx'.open = TRUE /\ tx'.failed = FALSE /\ tx'.root = slot.root /\ tx'.sum = slot.sum
      /\ tx'.dirty = <<>> /\ tx'.freed = <<>> /\ tx'.holds = committed
  BY <1>1 DEF NoTx
<1>5. DOMAIN tx.dirty = {} /\ DOMAIN tx'.dirty = {} BY <1>3, <1>4, EmptySeq
<1>6. CommittedPages' = CommittedPages BY <1>1, <1>5 DEF CommittedPages
<1>7. Space' BY <1>1, <1>5 DEF IInv, Space
<1>8. Contents' BY <1>1, <1>5 DEF IInv, Contents
<1>9. CommittedTree' BY <1>1, <1>6, CommittedTreeKept DEF IInv
<1>10. /\ committed \in [Key -> Value \cup {None}] /\ \E path, h : IsCommitted(path, h)
  BY DEF IInv, CommittedTree
<1>11. tx'.freed \in Seq(Page) /\ Len(tx'.freed) = 0 /\ Range(tx'.freed) = {}
  <2>1. <<>> \in Seq(Page) /\ Len(<<>>) = 0 /\ DOMAIN <<>> = {} BY EmptySeq
  <2>2. Range(<<>>) = {} BY <2>1 DEF Range
  <2> QED BY <2>1, <2>2, <1>4
<1>12. InjectiveSeq(tx'.freed) BY <1>11 DEF InjectiveSeq
<1>13. Transaction' BY <1>1, <1>4, <1>10, <1>11, <1>12 DEF Transaction
<1>14. PICK path, h : IsCommitted(path, h) BY <1>10
<1>15. Seen' = pages
  <2>1. DOMAIN <<>> = {} BY EmptySeq
  <2>2. IsMap(pages) BY DEF IInv, Contents
  <2>3. Over(<<>>, pages) = [p \in DOMAIN pages |-> pages[p]] BY <2>1 DEF Over
  <2> QED BY <2>2, <2>3, <1>1, <1>4 DEF Seen, IsMap
<1>16. Grafted(pages, path, h, {}, slot.root, slot.sum, NoCall)
  BY <1>14, Resting DEF IsCommitted
<1>17. Held(call', tx'.holds) = committed BY <1>1, <1>2, <1>4 DEF Held, NoCall
<1>18. IsWritten(path, h)'
  <2>1. Grafted(Seen', path, h, DOMAIN tx'.dirty, tx'.root, tx'.sum, call')
    BY <1>1, <1>2, <1>4, <1>5, <1>15, <1>16
  <2>2. Holds(Seen', path, Held(call', tx'.holds)) BY <1>14, <1>15, <1>17 DEF IsCommitted
  <2>3. TreeOf(path, h) = (CommittedPages' \ Range(tx'.freed)) \cup DOMAIN tx'.dirty
    BY <1>5, <1>6, <1>11, <1>14 DEF IsCommitted
  <2> QED BY <2>1, <2>2, <2>3 DEF IsWritten
<1>19. WrittenTree' BY <1>1, <1>2, <1>18 DEF WrittenTree, CallOK, NoCall
<1> QED BY <1>1, <1>7, <1>8, <1>9, <1>13, <1>19 DEF IInv

\* An insert begins at the root.
LEMMA InsertBegins ==
    ASSUME IInv, NEW key \in Key, NEW value \in Value, insert(key, value) PROVE IInv'
<1>1. /\ tx.open /\ ~tx.failed /\ call.step = "none"
      /\ call' = [NoCall EXCEPT !.step = "enter", !.key = key, !.value = value, !.at = tx.root]
      /\ pages' = pages /\ slot' = slot /\ pending_free_pages' = pending_free_pages
      /\ next_page_id' = next_page_id /\ tx' = tx /\ failure' = failure
      /\ committed' = committed /\ lost' = lost
  BY DEF insert, Working
<1>2. PICK path, h : IsWritten(path, h) BY <1>1 DEF IInv, WrittenTree
<1>3. /\ call = NoCall /\ Tree(Seen, path, h, h + 1, NoKey) /\ h \in Nat \ {0}
      /\ (\A k \in Nat : path[h][k] = tx.root) /\ tx.sum = Seen[tx.root]
  BY <1>1, <1>2, WrittenPages, RestFacts
<1>4. key \in Nat BY KeyAssumption
<1>5. PICK d : d = call' OBVIOUS
<1>6. /\ DOMAIN d = {"step", "key", "value", "frames", "at", "result"}
      /\ d.step = "enter" /\ d.key = key /\ d.value = value /\ d.at = tx.root /\ d.frames = <<>>
  BY <1>1, <1>5 DEF NoCall
<1>7. Len(d.frames) = 0 /\ d.frames \in Seq([page : Page, index : Nat]) BY <1>6, EmptySeq
<1>8. IsCall(d) /\ Low(d, h) = h + 1 BY <1>3, <1>4, <1>6, <1>7 DEF IsCall, Low
<1>9. Tree(Seen, path, h, h + 1, key) BY <1>3, <1>4, TreeAtRest
<1>10. Stacked(Seen, path, h, DOMAIN tx.dirty, d)
  <2>1. \A r \in 2..(h + 1) : r > h + 1 \/ r = h + 1 => r - 1 = h BY <1>3
  <2>2. 0 \in 0..h /\ 1..0 = {} BY <1>3
  <2>3. \A k \in Nat : path[h][k] = path[h][key] BY <1>3, <1>4
  <2> QED BY <2>1, <2>2, <2>3, <1>6, <1>7, <1>8 DEF Stacked
<1>11. Stands(Seen, path, h, tx.root, tx.sum, d)
  <2>1. h + 1 \in 2..(h + 1) /\ (h + 1) - 1 = h BY <1>3
  <2>2. tx.root = path[h][key] BY <1>3, <1>4
  <2> QED BY <2>1, <2>2, <1>6, <1>8 DEF Stands
<1>12. Grafted(Seen, path, h, DOMAIN tx.dirty, tx.root, tx.sum, d)
  BY <1>6, <1>8, <1>9, <1>10, <1>11 DEF Grafted
<1>13. Seen' = Seen /\ CommittedPages' = CommittedPages /\ Space'
  BY <1>1 DEF IInv, Seen, CommittedPages, Space
<1>14. IsWritten(path, h)'
  <2>1. Held(call', tx.holds) = Held(call, tx.holds) BY <1>1, <1>5, <1>6 DEF Held
  <2> QED BY <2>1, <1>1, <1>2, <1>5, <1>12, <1>13 DEF IsWritten
<1>15. CallOK' BY <1>5, <1>6 DEF CallOK
<1>16. /\ tx.freed \in Seq(Page) /\ InjectiveSeq(tx.freed) /\ Range(tx.freed) \subseteq CommittedPages
       /\ \A p \in DOMAIN tx.dirty : Sound(tx.dirty[p])
       /\ tx.holds \in [Key -> Value \cup {None}]
  BY <1>1 DEF IInv, Transaction, Contents
<1> QED BY <1>1, <1>13, <1>14, <1>15, <1>16, Inserting

\* The frame of the root has returned two pages, and a new root goes over them.
LEMMA RootGrows == ASSUME IInv, grow_root PROVE IInv'
<1> DEFINE es == RootEntries
           c == build_entries_at_buf("branch", es)
           q == allocated
           res == call.result
<1>1. /\ call.step = "root" /\ res.right # NoPage /\ BuildFits("branch", es) /\ TakePage
      /\ StoreKept
      /\ tx' = [tx EXCEPT !.root = q, !.sum = c, !.dirty = With(tx.dirty, q, c),
                          !.holds[call.key] = call.value]
      /\ call' = NoCall
  BY DEF grow_root, SetRoot, Grows, Working, StoreKept, checksum_page
<1>2. /\ tx.open /\ ~tx.failed /\ call.key \in Key /\ call.value \in Value /\ call.key \in Nat
      /\ tx.holds \in [Key -> Value \cup {None}]
  BY <1>1, UnderWay
<1>3. PICK path, h : IsWritten(path, h) BY <1>1, UnderWay
<1>4. /\ IsResult(Seen, res) /\ h \in Nat \ {0} /\ Tree(Seen, path, h, h + 1, call.key)
      /\ \A k \in Nat : path[h][k] = Returned(res, k)
  BY <1>1, <1>3, RootCame
<1>5. PICK page, sep, right : page = res.page /\ sep = res.key /\ right = res.right OBVIOUS
<1>6. /\ page \in Page /\ right \in Page /\ sep \in Key /\ right # page
      /\ res.sum = Seen[page] /\ res.right_sum = Seen[right]
      /\ \A k \in Nat : path[h][k] = IF sep <= k THEN right ELSE page
  BY <1>1, <1>4, <1>5 DEF IsResult, Returned
<1>7. es = new_root(page, Seen[page], sep, right, Seen[right]) BY <1>5, <1>6 DEF RootEntries
<1>8. AreChildren(es)
  <2>1. PICK a, b : a = Seen[page] /\ b = Seen[right] OBVIOUS
  <2>2. AreChildren(new_root(page, a, sep, right, b)) BY <1>6, RootFacts
  <2> QED BY <2>1, <2>2, <1>7
<1> HIDE DEF es
<1>9. IsBranch(c) /\ Alike(c.entries, es) BY <1>1, <1>8, BranchBuilt DEF Alike
<1> HIDE DEF c, q, res
<1>10. /\ DOMAIN tx = {"open", "root", "sum", "dirty", "freed", "failed", "holds"}
       /\ tx.freed \in Seq(Page) /\ InjectiveSeq(tx.freed) /\ Range(tx.freed) \subseteq CommittedPages
       /\ Space /\ \A t \in DOMAIN tx.dirty : Sound(tx.dirty[t])
  BY DEF IInv, Transaction, Contents
<1>11. /\ DOMAIN tx' = DOMAIN tx /\ tx'.open = tx.open /\ tx'.failed = tx.failed
       /\ tx'.root = q /\ tx'.sum = c /\ tx'.freed = tx.freed
       /\ tx'.holds = [tx.holds EXCEPT ![call.key] = call.value]
       /\ tx'.dirty = With(tx.dirty, q, c)
  BY <1>1, <1>10
<1>12. /\ DOMAIN tx'.dirty = DOMAIN tx.dirty \cup {q} /\ tx'.dirty[q] = c
       /\ \A t \in DOMAIN tx.dirty : t # q => tx'.dirty[t] = tx.dirty[t]
  <2>1. PICK f : f = tx.dirty OBVIOUS
  <2>2. Patched(With(f, q, c), f, q, c) BY Patching
  <2> QED BY <2>1, <2>2, <1>11 DEF Patched
<1>13. /\ pages' = pages /\ slot' = slot /\ committed' = committed /\ failure' = failure
       /\ lost' = lost
  BY <1>1 DEF StoreKept
<1>14. /\ q \in Page /\ q \notin DOMAIN tx.dirty /\ q \notin CommittedPages
       /\ Space' /\ CommittedPages' = CommittedPages
  BY <1>1, <1>10, <1>12, <1>13, PageTaken DEF q
<1>15. /\ TreeOf(path, h) = (CommittedPages \ Range(tx.freed)) \cup DOMAIN tx.dirty
       /\ \A t \in TreeOf(path, h) : t \in DOMAIN Seen /\ t # q
  <2>1. TreeOf(path, h) = (CommittedPages \ Range(tx.freed)) \cup DOMAIN tx.dirty
    BY <1>3, WrittenPages
  <2>2. \A r \in 1..h : \A k \in Nat : path[r][k] \in DOMAIN Seen BY <1>4, TreeFacts
  <2> QED BY <2>1, <2>2, <1>14, TreeOfFacts
<1>16. /\ q \in DOMAIN Seen' /\ Seen'[q] = c
       /\ \A t \in TreeOf(path, h) : t \in DOMAIN Seen' /\ Seen'[t] = Seen[t]
  <2>1. /\ DOMAIN Seen' = DOMAIN Seen \cup DOMAIN tx'.dirty
        /\ \A t \in DOMAIN tx'.dirty : Seen'[t] = tx'.dirty[t]
        /\ \A t \in DOMAIN Seen : t \notin {q} => t \in DOMAIN Seen' /\ Seen'[t] = Seen[t]
    BY <1>12, <1>13, <1>14, SeenNext
  <2> QED BY <2>1, <1>12, <1>15
<1>17. PICK see, see2 : see = Seen /\ see2 = Seen' OBVIOUS
<1>18. PICK top \in Nat : top = h + 1 BY <1>4
<1>19. PICK last \in Nat : last = top + 1 OBVIOUS
<1>20. PICK path2 : path2 = Raised(path, h, q) OBVIOUS
<1>21. PICK any \in Nat : any = NoKey BY DEF NoKey
<1>22. /\ Tree(see2, path2, top, last, any)
       /\ \A map : Holds(see, path, map) => Holds(see2, path2, map)
       /\ TreeOf(path2, top) = TreeOf(path, h) \cup {q}
       /\ \A k \in Nat : path2[top][k] = q
  <2>1. PICK key \in Nat : key = call.key BY <1>2
  <2>2. PICK low \in Nat : low = h + 1 /\ low > h BY <1>4
  <2>3. Tree(see, path, h, low, key) BY <2>1, <2>2, <1>4, <1>17
  <2>4. PICK fs, b, p : fs = es /\ b = c /\ p = q OBVIOUS
  <2>5. Topped(path, h, page, sep, right) BY <1>6 DEF Topped
  <2>6. NewRoot(see, page, sep, right, b, fs)
    BY <2>4, <1>7, <1>8, <1>9, <1>17 DEF NewRoot
  <2>7. Added(see, path, h, p, b, see2)
    BY <2>4, <1>14, <1>15, <1>16, <1>17 DEF Added
  <2>8. path2 = Raised(path, h, p) BY <2>4, <1>20
  <2>9. Crowned(see, path, h, p, see2, path2, top, last, any)
    BY <2>2, <2>3, <2>5, <2>6, <2>7, <2>8, <1>18, <1>19, RootGrown
  <2> QED BY <2>4, <2>9 DEF Crowned
<1>23. Grafted(see2, path2, top, DOMAIN tx'.dirty, q, c, NoCall)
  <2>1. Tree(see2, path2, top, top + 1, any) BY <1>19, <1>22
  <2>2. c = see2[q] BY <1>16, <1>17
  <2> QED BY <2>1, <2>2, <1>22, Resting
<1>24. Held(call', tx'.holds) = Held(call, tx.holds) BY <1>1, <1>11 DEF Held, NoCall
<1>25. IsWritten(path2, top)'
  <2>1. Grafted(Seen', path2, top, DOMAIN tx'.dirty, tx'.root, tx'.sum, call')
    BY <1>1, <1>11, <1>17, <1>23
  <2>2. Holds(Seen', path2, Held(call', tx'.holds)) BY <1>3, <1>17, <1>22, <1>24 DEF IsWritten
  <2>3. TreeOf(path2, top) = (CommittedPages' \ Range(tx'.freed)) \cup DOMAIN tx'.dirty
    BY <1>11, <1>12, <1>14, <1>15, <1>22
  <2> QED BY <2>1, <2>2, <2>3 DEF IsWritten
<1>26. CallOK' BY <1>1 DEF CallOK, NoCall
<1>27. tx'.holds \in [Key -> Value \cup {None}] BY <1>2, <1>11
<1>28. \A t \in DOMAIN tx'.dirty : Sound(tx'.dirty[t]) BY <1>9, <1>10, <1>12 DEF Sound
<1> QED BY <1>2, <1>10, <1>11, <1>13, <1>14, <1>25, <1>26, <1>27, <1>28, Inserting

\* The transaction is gone: its pages are lost.
LEMMA Gone ==
    ASSUME IInv, tx' = NoTx, call' = NoCall, lost' = lost \cup DOMAIN tx.dirty,
           failure' \in Failures, pages' = pages, slot' = slot, committed' = committed,
           pending_free_pages' = pending_free_pages, next_page_id' = next_page_id
    PROVE  IInv'
<1>1. /\ tx'.dirty = <<>> /\ tx'.freed = <<>> /\ tx'.open = FALSE /\ tx'.failed = FALSE
      /\ DOMAIN tx' = {"open", "root", "sum", "dirty", "freed", "failed", "holds"}
  BY DEF NoTx
<1>2. /\ DOMAIN tx'.dirty = {} /\ tx'.freed \in Seq(Page) /\ Len(tx'.freed) = 0
      /\ Range(tx'.freed) = {}
  <2>1. <<>> \in Seq(Page) /\ Len(<<>>) = 0 /\ DOMAIN <<>> = {} BY EmptySeq
  <2>2. Range(<<>>) = {} BY <2>1 DEF Range
  <2> QED BY <2>1, <2>2, <1>1
<1>3. Space' BY <1>2 DEF IInv, Space
<1>4. CommittedPages' = CommittedPages BY <1>2 DEF CommittedPages
<1>5. InjectiveSeq(tx'.freed) BY <1>2 DEF InjectiveSeq
<1>6. Transaction' BY <1>1, <1>2, <1>5 DEF Transaction
<1>7. Contents' BY <1>2 DEF IInv, Contents
<1>8. CommittedTree' BY <1>4, CommittedTreeKept DEF IInv
<1>9. WrittenTree' BY <1>1 DEF WrittenTree
<1> QED BY <1>3, <1>6, <1>7, <1>8, <1>9 DEF IInv

\* After a panic of a builder nothing is written.
LEMMA Panics ==
    ASSUME IInv, split_lone_entry \/ build_overflows PROVE IInv'
<1>1. PICK what \in Failures : Panic(what) BY DEF split_lone_entry, build_overflows, Failures
<1>2. failure' \in Failures BY <1>1 DEF Panic
<1> QED BY <1>1, <1>2, Gone DEF Panic

\* A transaction that is dropped or has failed loses its pages and frees none.
LEMMA Abandoned == ASSUME IInv, abandon PROVE IInv'
<1>1. call' = NoCall
  <2>1. tx.open /\ call.step = "none" /\ call' = call BY DEF abandon, Working
  <2>2. ~tx.failed => call = NoCall
    <3> SUFFICES ASSUME ~tx.failed PROVE call = NoCall OBVIOUS
    <3>1. PICK path, h : IsWritten(path, h) BY <2>1 DEF IInv, WrittenTree
    <3> QED BY <3>1, <2>1, WrittenPages, RestFacts
  <2>3. tx.failed => call = NoCall BY DEF IInv, Transaction
  <2> QED BY <2>1, <2>2, <2>3
<1>2. /\ tx' = NoTx /\ lost' = lost \cup DOMAIN tx.dirty
      /\ pages' = pages /\ slot' = slot /\ committed' = committed /\ failure' = failure
      /\ pending_free_pages' = pending_free_pages /\ next_page_id' = next_page_id
  BY DEF abandon
<1>3. failure' \in Failures BY <1>2 DEF IInv
<1> QED BY <1>1, <1>2, <1>3, Gone

\* An error marks the transaction.
LEMMA Fails == ASSUME IInv, read_fails \/ allocation_fails PROVE IInv'
<1>1. call.step # "none"
  BY DEF read_fails, allocation_fails, Allocates, Splits, Grows, Working
<1>2. tx.open BY <1>1, UnderWay
<1>3. /\ tx' = [tx EXCEPT !.failed = TRUE] /\ call' = NoCall
      /\ pages' = pages /\ slot' = slot /\ committed' = committed /\ failure' = failure
      /\ pending_free_pages' = pending_free_pages
  BY DEF read_fails, allocation_fails, Fail
<1>4. /\ DOMAIN tx' = DOMAIN tx /\ tx'.open = tx.open /\ tx'.failed = TRUE
      /\ tx'.dirty = tx.dirty /\ tx'.freed = tx.freed /\ tx'.holds = tx.holds
  BY <1>3 DEF IInv, Transaction
<1>5. \/ next_page_id' = next_page_id /\ lost' = lost
      \/ /\ pending_free_pages = <<>> /\ next_page_id <= MaxPages
         /\ next_page_id' = next_page_id + 1 /\ lost' = lost \cup {next_page_id}
  BY DEF read_fails, allocation_fails
<1>6. Space' /\ CommittedPages' = CommittedPages
  <2>1. CASE next_page_id' = next_page_id /\ lost' = lost
    BY <2>1, <1>3, <1>4 DEF IInv, Space, CommittedPages
  <2>2. CASE /\ pending_free_pages = <<>> /\ next_page_id <= MaxPages
             /\ next_page_id' = next_page_id + 1 /\ lost' = lost \cup {next_page_id}
    <3>1. next_page_id \in 2..(MaxPages + 1) /\ MaxPages \in Nat
      BY TreeBoundsAssumption DEF IInv, Space
    <3>2. PICK n \in Nat : n = next_page_id BY <3>1
    <3>3. /\ n \in 2..MaxPages /\ n + 1 \in 2..(MaxPages + 1)
          /\ 1..((n + 1) - 1) = 1..(n - 1) \cup {n} /\ n \notin 1..(n - 1)
      BY <3>1, <3>2, <2>2
    <3>4. Range(pending_free_pages) = {}
      <4>1. DOMAIN <<>> = {} BY EmptySeq
      <4> QED BY <4>1, <2>2 DEF Range
    <3>5. next_page_id' = n + 1 /\ lost' = lost \cup {n} BY <3>2, <2>2
    <3>6. Space'
      BY <3>2, <3>3, <3>4, <3>5, <1>3, <1>4 DEF IInv, Space
    <3>7. CommittedPages' = CommittedPages
      <4>1. DOMAIN tx.dirty \subseteq 1..(n - 1) BY <3>2 DEF IInv, Space
      <4> QED BY <4>1, <3>2, <3>3, <3>5, <1>3, <1>4 DEF CommittedPages
    <3> QED BY <3>6, <3>7
  <2> QED BY <2>1, <2>2, <1>5
<1>7. Transaction' BY <1>2, <1>3, <1>4, <1>6 DEF IInv, Transaction
<1>8. Contents' BY <1>3, <1>4 DEF IInv, Contents
<1>9. CommittedTree' BY <1>3, <1>6, CommittedTreeKept DEF IInv
<1>10. WrittenTree' BY <1>4 DEF WrittenTree
<1>11. failure' \in Failures BY <1>3 DEF IInv
<1> QED BY <1>6, <1>7, <1>8, <1>9, <1>10, <1>11 DEF IInv

\* Two queues of pages, one after the other.
LEMMA Joined ==
    ASSUME NEW s \in Seq(Page), NEW t \in Seq(Page), InjectiveSeq(s), InjectiveSeq(t),
           Range(s) \cap Range(t) = {}
    PROVE  /\ s \o t \in Seq(Page) /\ InjectiveSeq(s \o t)
           /\ Range(s \o t) = Range(s) \cup Range(t)
<1>1. PICK m \in Nat, n \in Nat : m = Len(s) /\ n = Len(t) BY LenProperties
<1>2. PICK u \in Seq(Page) : u = s \o t BY ConcatProperties
<1>3. /\ Len(u) = m + n
      /\ \A i \in 1..(m + n) : u[i] = IF i <= m THEN s[i] ELSE t[i - m]
  BY <1>1, <1>2, ConcatProperties
<1>4. /\ \A i \in 1..m : s[i] \in Range(s)
      /\ \A x \in Range(s) : \E i \in 1..m : x = s[i]
      /\ \A i \in 1..n : t[i] \in Range(t)
      /\ \A x \in Range(t) : \E i \in 1..n : x = t[i]
  BY <1>1, RangeFacts
<1>5. /\ \A i \in 1..(m + n) : u[i] \in Range(u)
      /\ \A x \in Range(u) : \E i \in 1..(m + n) : x = u[i]
  BY <1>3, RangeFacts
<1>6. \A i \in 1..(m + n) : \/ i \in 1..m /\ u[i] = s[i]
                            \/ i - m \in 1..n /\ u[i] = t[i - m]
  BY <1>3
<1>7. Range(u) = Range(s) \cup Range(t)
  <2>1. ASSUME NEW x \in Range(u) PROVE x \in Range(s) \cup Range(t)
    <3>1. PICK i \in 1..(m + n) : x = u[i] BY <1>5
    <3> QED BY <3>1, <1>4, <1>6
  <2>2. ASSUME NEW x \in Range(s) PROVE x \in Range(u)
    <3>1. PICK i \in 1..m : x = s[i] BY <1>4
    <3>2. i \in 1..(m + n) /\ i <= m OBVIOUS
    <3> QED BY <3>1, <3>2, <1>3, <1>5
  <2>3. ASSUME NEW x \in Range(t) PROVE x \in Range(u)
    <3>1. PICK i \in 1..n : x = t[i] BY <1>4
    <3>2. i + m \in 1..(m + n) /\ ~(i + m <= m) /\ (i + m) - m = i OBVIOUS
    <3>3. u[i + m] = t[i] BY <3>2, <1>3
    <3> QED BY <3>1, <3>2, <3>3, <1>5
  <2> QED BY <2>1, <2>2, <2>3
<1>8. InjectiveSeq(u)
  <2> SUFFICES ASSUME NEW i \in 1..(m + n), NEW j \in 1..(m + n), u[i] = u[j] PROVE i = j
    BY <1>3 DEF InjectiveSeq
  <2>1. /\ \A x, y \in 1..m : s[x] = s[y] => x = y
        /\ \A x, y \in 1..n : t[x] = t[y] => x = y
    BY <1>1 DEF InjectiveSeq
  <2>2. CASE i \in 1..m /\ u[i] = s[i]
    <3>1. ~(j - m \in 1..n /\ u[j] = t[j - m]) BY <2>2, <1>4
    <3>2. j \in 1..m /\ u[j] = s[j] BY <3>1, <1>6
    <3> QED BY <2>1, <2>2, <3>2
  <2>3. CASE i - m \in 1..n /\ u[i] = t[i - m]
    <3>1. ~(j \in 1..m /\ u[j] = s[j]) BY <2>3, <1>4
    <3>2. j - m \in 1..n /\ u[j] = t[j - m] BY <3>1, <1>6
    <3>3. i - m = j - m BY <2>1, <2>3, <3>2
    <3> QED BY <3>3
  <2> QED BY <2>2, <2>3, <1>6
<1> QED BY <1>2, <1>7, <1>8

\* A commit makes the transaction's tree the committed one and queues what it freed.
LEMMA Commits == ASSUME IInv, commit PROVE IInv'
<1>1. /\ tx.open /\ ~tx.failed /\ call.step = "none"
      /\ pages' = Over(tx.dirty, pages)
      /\ slot' = [tx |-> slot.tx + 1, root |-> tx.root, sum |-> tx.sum]
      /\ pending_free_pages' = pending_free_pages \o tx.freed
      /\ committed' = tx.holds /\ tx' = NoTx
      /\ next_page_id' = next_page_id /\ call' = call /\ failure' = failure /\ lost' = lost
  BY DEF commit, Working
<1>2. PICK path, h : IsWritten(path, h) BY <1>1 DEF IInv, WrittenTree
<1>3. /\ Grafted(Seen, path, h, DOMAIN tx.dirty, tx.root, tx.sum, call)
      /\ TreeOf(path, h) = (CommittedPages \ Range(tx.freed)) \cup DOMAIN tx.dirty
  BY <1>2, WrittenPages
<1>4. /\ call = NoCall /\ Tree(Seen, path, h, h + 1, NoKey) /\ h \in Nat \ {0}
      /\ (\A k \in Nat : path[h][k] = tx.root) /\ tx.sum = Seen[tx.root]
  BY <1>1, <1>3, RestFacts
<1>5. pages' = Seen BY <1>1 DEF Seen
<1>6. /\ tx.holds \in [Key -> Value \cup {None}] /\ slot.tx < MaxTx
      /\ tx.freed \in Seq(Page) /\ InjectiveSeq(tx.freed)
      /\ Range(tx.freed) \subseteq CommittedPages
      /\ slot.tx \in 0..MaxTx /\ Space /\ Contents /\ failure \in Failures
  BY <1>1 DEF IInv, Transaction, CommittedTree
<1>7. /\ tx'.dirty = <<>> /\ tx'.freed = <<>> /\ tx'.open = FALSE /\ tx'.failed = FALSE
      /\ DOMAIN tx' = {"open", "root", "sum", "dirty", "freed", "failed", "holds"}
  BY <1>1 DEF NoTx
<1>8. /\ DOMAIN tx'.dirty = {} /\ tx'.freed \in Seq(Page) /\ Len(tx'.freed) = 0
      /\ Range(tx'.freed) = {}
  <2>1. <<>> \in Seq(Page) /\ Len(<<>>) = 0 /\ DOMAIN <<>> = {} BY EmptySeq
  <2>2. Range(<<>>) = {} BY <2>1 DEF Range
  <2> QED BY <2>1, <2>2, <1>7
<1>9. /\ pending_free_pages' \in Seq(Page) /\ InjectiveSeq(pending_free_pages')
      /\ Range(pending_free_pages') = Range(pending_free_pages) \cup Range(tx.freed)
  <2>1. PICK s, t : s = pending_free_pages /\ t = tx.freed OBVIOUS
  <2>2. s \in Seq(Page) /\ t \in Seq(Page) /\ InjectiveSeq(s) /\ InjectiveSeq(t)
        /\ Range(s) \cap Range(t) = {}
    BY <2>1, <1>6 DEF Space, CommittedPages
  <2>3. /\ s \o t \in Seq(Page) /\ InjectiveSeq(s \o t)
        /\ Range(s \o t) = Range(s) \cup Range(t)
    BY <2>2, Joined
  <2> QED BY <2>1, <2>3, <1>1
<1>10. /\ DOMAIN Seen = DOMAIN tx.dirty \cup DOMAIN pages
       /\ \A p \in DOMAIN tx.dirty : Seen[p] = tx.dirty[p]
       /\ \A p \in DOMAIN pages : p \notin DOMAIN tx.dirty => Seen[p] = pages[p]
  BY SeenFacts
<1>11. Space'
  <2>1. DOMAIN tx.dirty \subseteq Page
    <3>1. DOMAIN tx.dirty \subseteq 1..(next_page_id - 1) /\ next_page_id \in 2..(MaxPages + 1)
      BY <1>6 DEF Space
    <3>2. 1..(next_page_id - 1) \subseteq Page BY <3>1, TreeBoundsAssumption DEF Page
    <3> QED BY <3>1, <3>2
  <2>2. DOMAIN pages' \subseteq Page BY <2>1, <1>5, <1>6, <1>10 DEF Space
  <2>3. Range(tx.freed) \subseteq 1..(next_page_id - 1) /\ lost \cap Range(tx.freed) = {}
    BY <1>6 DEF CommittedPages
  <2> QED BY <2>2, <2>3, <1>1, <1>6, <1>8, <1>9 DEF Space
<1>12. CommittedPages' = TreeOf(path, h)
  <2>1. CommittedPages' = (CommittedPages \ Range(tx.freed)) \cup DOMAIN tx.dirty
    <3>1. /\ DOMAIN tx.dirty \subseteq 1..(next_page_id - 1)
          /\ DOMAIN tx.dirty \cap lost = {}
          /\ DOMAIN tx.dirty \cap Range(pending_free_pages) = {}
      BY <1>6 DEF Space
    <3>2. DOMAIN tx.dirty \cap Range(tx.freed) = {} BY <1>6 DEF CommittedPages
    <3> QED BY <3>1, <3>2, <1>1, <1>8, <1>9 DEF CommittedPages
  <2> QED BY <2>1, <1>3
<1>13. Transaction'
  <2>1. InjectiveSeq(tx'.freed) BY <1>8 DEF InjectiveSeq
  <2>2. call' = NoCall BY <1>1, <1>4
  <2> QED BY <2>1, <2>2, <1>1, <1>7, <1>8 DEF Transaction
<1>14. Contents'
  <2>1. IsMap(pages') BY <1>1 DEF IsMap, Over
  <2>2. \A p \in DOMAIN pages' : Sound(pages'[p]) BY <1>5, <1>6, <1>10 DEF Contents
  <2> QED BY <2>1, <2>2, <1>8 DEF Contents
<1>15. CommittedTree'
  <2>1. IsCommitted(path, h)'
    <3>1. Holds(Seen, path, tx.holds)
      <4>1. Held(call, tx.holds) = tx.holds BY <1>1 DEF Held
      <4> QED BY <4>1, <1>2 DEF IsWritten
    <3>2. slot'.root = tx.root /\ slot'.sum = tx.sum BY <1>1
    <3> QED BY <3>1, <3>2, <1>1, <1>4, <1>5, <1>12 DEF IsCommitted
  <2>2. slot'.tx \in 0..MaxTx
    <3>1. slot'.tx = slot.tx + 1 /\ MaxTx \in Nat BY <1>1, TreeBoundsAssumption
    <3> QED BY <3>1, <1>6
  <2>3. committed' \in [Key -> Value \cup {None}] BY <1>1, <1>6
  <2> QED BY <2>1, <2>2, <2>3 DEF CommittedTree
<1>16. WrittenTree' BY <1>7 DEF WrittenTree
<1> QED BY <1>1, <1>6, <1>11, <1>13, <1>14, <1>15, <1>16 DEF IInv

\* The page of the empty store.
LEMMA EmptyPage == IsLeaf(EmptyLeaf) /\ \A k \in Key : get_value(EmptyLeaf, k) = None
<1>1. /\ <<>> \in Seq(LeafEntries) /\ Len(<<>>) = 0 /\ DOMAIN <<>> = {}
  BY EmptySeq
<1>2. Ordered(<<>>) /\ BuildFits("leaf", <<>>) BY <1>1 DEF Ordered, BuildFits
<1>3. IsLeaf(EmptyLeaf) BY <1>1, <1>2, LeafBuilt DEF EmptyLeaf
<1>4. DOMAIN EmptyLeaf.entries = {} BY <1>1 DEF EmptyLeaf, build_entries_at_buf
<1>5. \A k \in Key : ~HasKey(EmptyLeaf.entries, k) BY <1>4 DEF HasKey
<1> QED BY <1>3, <1>5 DEF get_value

\* In the empty store all numbers go to the one leaf.
LEMMA EmptyTree ==
    ASSUME NEW see, DOMAIN see = {1}, NEW leaf, see[1] = leaf, IsLeaf(leaf),
           leaf.entries = <<>>, NEW path, path = [r \in 1..1 |-> [k \in Nat |-> 1]]
    PROVE  Tree(see, path, 1, 2, NoKey) /\ TreeOf(path, 1) = {1} /\ \A k \in Nat : path[1][k] = 1
<1>1. 1..1 = {1} /\ 1 \in Page BY TreeBoundsAssumption DEF Page
<1>2. \A k \in Nat : path[1][k] = 1 BY <1>1
<1>3. IsPath(path, 1) BY <1>1 DEF IsPath
<1>4. DOMAIN leaf.entries = {} BY EmptySeq
<1>5. LeafLevel(see, path) BY <1>2, <1>4 DEF LeafLevel, Pairs
<1>6. Tree(see, path, 1, 2, NoKey) BY <1>1, <1>3, <1>5 DEF Tree, Level
<1>7. TreeOf(path, 1) = {1}
  <2>1. 1 \in TreeOf(path, 1)
    <3>1. 1 \in 1..1 /\ 0 \in Nat /\ path[1][0] = 1 BY <1>1, <1>2
    <3>2. path[1][0] \in TreeOf(path, 1) BY <3>1, TreeOfFacts
    <3> QED BY <3>1, <3>2
  <2>2. ASSUME NEW t \in TreeOf(path, 1) PROVE t = 1
    <3>1. PICK r \in 1..1, k \in Nat : t = path[r][k] BY TreeOfFacts
    <3> QED BY <3>1, <1>1, <1>2
  <2> QED BY <2>1, <2>2
<1> QED BY <1>2, <1>6, <1>7

\* The invariant holds in a new file: one empty leaf.
LEMMA InitInv == ASSUME Init PROVE IInv
<1>1. /\ pages = [p \in {1} |-> EmptyLeaf]
      /\ slot = [tx |-> 0, root |-> 1, sum |-> EmptyLeaf]
      /\ pending_free_pages = <<>> /\ next_page_id = 2 /\ tx = NoTx /\ call = NoCall
      /\ failure = "none" /\ committed = [k \in Key |-> None] /\ lost = {}
  BY DEF Init, checksum_page
<1>2. MaxPages \in Nat \ {0} /\ MaxTx \in Nat BY TreeBoundsAssumption
<1>3. <<>> \in Seq(Page) /\ Len(<<>>) = 0 /\ DOMAIN <<>> = {} /\ Range(<<>>) = {}
  <2>1. <<>> \in Seq(Page) /\ Len(<<>>) = 0 /\ DOMAIN <<>> = {} BY EmptySeq
  <2> QED BY <2>1 DEF Range
<1>4. InjectiveSeq(<<>>) BY <1>3 DEF InjectiveSeq
<1>5. /\ DOMAIN tx = {"open", "root", "sum", "dirty", "freed", "failed", "holds"}
      /\ tx.open = FALSE /\ tx.failed = FALSE /\ tx.dirty = <<>> /\ tx.freed = <<>>
  BY <1>1 DEF NoTx
<1>6. 2 - 1 = 1 /\ 1..1 = {1} /\ 1 \in Page /\ 2 \in 2..(MaxPages + 1) BY <1>2 DEF Page
<1>7. Space BY <1>1, <1>3, <1>4, <1>5, <1>6 DEF Space
<1>8. CommittedPages = {1} BY <1>1, <1>3, <1>5, <1>6 DEF CommittedPages
<1>9. Transaction BY <1>1, <1>3, <1>4, <1>5 DEF Transaction
<1>10. Contents BY <1>1, <1>3, <1>5, EmptyPage DEF Contents, IsMap, Sound
<1>11. CommittedTree
  <2>1. PICK path : path = [r \in 1..1 |-> [k \in Nat |-> 1]] OBVIOUS
  <2>2. DOMAIN pages = {1} /\ pages[1] = EmptyLeaf BY <1>1
  <2>3. EmptyLeaf.entries = <<>> BY EmptySeq DEF EmptyLeaf, build_entries_at_buf
  <2>4. /\ Tree(pages, path, 1, 2, NoKey) /\ TreeOf(path, 1) = {1}
        /\ \A k \in Nat : path[1][k] = 1
    <3>1. PICK see, leaf : see = pages /\ leaf = EmptyLeaf OBVIOUS
    <3>2. /\ Tree(see, path, 1, 2, NoKey) /\ TreeOf(path, 1) = {1}
          /\ \A k \in Nat : path[1][k] = 1
      BY <2>1, <2>2, <2>3, <3>1, EmptyPage, EmptyTree
    <3> QED BY <3>1, <3>2
  <2>5. Holds(pages, path, committed)
    <3>1. \A k \in Key : k \in Nat BY KeyAssumption
    <3> QED BY <3>1, <2>2, <2>4, <1>1, EmptyPage DEF Holds
  <2>6. IsCommitted(path, 1) BY <2>2, <2>4, <2>5, <1>1, <1>8 DEF IsCommitted
  <2> QED BY <2>6, <1>1, <1>2 DEF CommittedTree
<1>12. WrittenTree BY <1>5 DEF WrittenTree
<1> QED BY <1>1, <1>7, <1>9, <1>10, <1>11, <1>12 DEF IInv, Failures

\* Nothing the invariant reads has changed.
LEMMA InvKept == ASSUME IInv, UNCHANGED vars PROVE IInv'
<1>1. /\ pages' = pages /\ slot' = slot /\ pending_free_pages' = pending_free_pages
      /\ next_page_id' = next_page_id /\ tx' = tx /\ call' = call /\ failure' = failure
      /\ committed' = committed /\ lost' = lost
  BY DEF vars
<1>2. Seen' = Seen /\ CommittedPages' = CommittedPages BY <1>1 DEF Seen, CommittedPages
<1>3. Space' /\ Transaction' /\ Contents'
  BY <1>1, <1>2 DEF IInv, Space, Transaction, Contents
<1>4. CommittedTree' BY <1>1, <1>2, CommittedTreeKept DEF IInv
<1>5. WrittenTree' BY <1>1, <1>2 DEF IInv, WrittenTree, IsWritten, CallOK
<1> QED BY <1>1, <1>3, <1>4, <1>5 DEF IInv

\* Every step keeps the invariant.
LEMMA NextKeepsInv == ASSUME IInv, Next PROVE IInv'
<1>1. CASE begin_write BY <1>1, BeginsWrite
<1>2. CASE commit BY <1>2, Commits
<1>3. CASE abandon BY <1>3, Abandoned
<1>4. CASE \E key \in Key, value \in Value : insert(key, value) BY <1>4, InsertBegins
<1>5. CASE insert_recursive
  <2>1. CASE check_out BY <2>1, CheckedOutPage
  <2>2. CASE cow_page BY <2>2, PageCowed
  <2>3. CASE insert_into_leaf BY <2>3, LeafWritten
  <2>4. CASE replace_child BY <2>4, ChildTaken, ChildAwaits
  <2>5. CASE insert_into_branch BY <2>5, ChildInsertedInto
  <2>6. CASE split_page
    <3>1. call.step = "leaf" \/ call.step = "branch" BY <2>6 DEF split_page, Splits, Working
    <3> QED BY <2>6, <3>1, LeafSplit, BranchSplit
  <2>7. CASE split_lone_entry BY <2>7, Panics
  <2>8. CASE build_overflows BY <2>8, Panics
  <2> QED BY <1>5, <2>1, <2>2, <2>3, <2>4, <2>5, <2>6, <2>7, <2>8 DEF insert_recursive
<1>6. CASE set_root_page BY <1>6, RootSet
<1>7. CASE grow_root BY <1>7, RootGrows
<1>8. CASE read_fails BY <1>8, Fails
<1>9. CASE allocation_fails BY <1>9, Fails
<1> QED BY <1>1, <1>2, <1>3, <1>4, <1>5, <1>6, <1>7, <1>8, <1>9 DEF Next

\* The inductive invariant: the committed tree is whole, the transaction's tree is whole
\* but for the branches on the path of the insert that is under way, and every page is
\* in one of them, free or lost.
THEOREM InductiveInv == Spec => []IInv
<1>1. IInv /\ [Next]_vars => IInv' BY NextKeepsInv, InvKept
<1> QED BY <1>1, InitInv, PTL DEF Spec

-----------------------------------------------------------------------------
(* What follows from it. *)

\* Entries that are laid out, below which the metadata ends, make a sound page.
LEMMA LaidIsSound ==
    ASSUME NEW c, Laid(c.entries, c.end), MetadataEnd(c.kind, Len(c.entries)) <= c.end
    PROVE  SoundPage(c)
BY DEF Laid, Ordered, Disjoint, SoundPage

\* A leaf is a sound page.
LEMMA SoundLeaf == ASSUME NEW c, IsLeaf(c) PROVE SoundPage(c)
<1>1. c.kind = "leaf" BY DEF IsLeaf
<1> QED BY <1>1, LaidIsSound DEF IsLeaf

\* A branch is a sound page.
LEMMA SoundBranch == ASSUME NEW c, IsBranch(c) PROVE SoundPage(c)
<1>1. c.kind = "branch" BY DEF IsBranch
<1> QED BY <1>1, LaidIsSound DEF IsBranch

\* The layout of every page the store or the transaction has is sound.
THEOREM TheLayoutIsSound == Spec => []LayoutIsSound
<1>1. ASSUME IInv PROVE LayoutIsSound
  <2> SUFFICES ASSUME NEW p \in DOMAIN Seen PROVE SoundPage(Seen[p]) BY DEF LayoutIsSound
  <2>1. Sound(Seen[p]) BY <1>1, SeenFacts DEF IInv, Contents
  <2> QED BY <2>1, SoundLeaf, SoundBranch DEF Sound
<1> QED BY <1>1, InductiveInv, PTL

\* Without a call there are no frames.
LEMMA NoFrames == NoCall.step = "none" /\ DOMAIN NoCall.frames = {}
BY EmptySeq DEF NoCall

\* Pages, slot, queue, transaction and frames stay well-typed, whatever fails.
THEOREM TypeCorrect == Spec => []TypeOK
<1>1. ASSUME IInv PROVE TypeOK
  <2>1. /\ Space /\ Transaction /\ CommittedTree /\ failure \in Failures BY <1>1 DEF IInv
  <2>2. next_page_id \in 2..(MaxPages + 1) /\ 1..(next_page_id - 1) \subseteq Page
    BY <2>1, TreeBoundsAssumption DEF Space, Page
  <2>3. /\ DOMAIN pages \subseteq Page /\ DOMAIN tx.dirty \subseteq Page /\ lost \subseteq Page
        /\ Range(pending_free_pages) \subseteq Page /\ Range(tx.freed) \subseteq Page
    BY <2>1, <2>2, RangeFacts DEF Space, Transaction
  <2>4. slot.tx \in 0..MaxTx /\ committed \in [Key -> Value \cup {None}]
    BY <2>1 DEF CommittedTree
  <2>5. slot.root \in DOMAIN pages
    <3>1. PICK path, h : IsCommitted(path, h) BY <2>1 DEF CommittedTree
    <3>2. Tree(pages, path, h, h + 1, NoKey) /\ \A k \in Nat : path[h][k] = slot.root
      BY <3>1 DEF IsCommitted
    <3>3. h \in 1..h /\ 0 \in Nat BY <3>2, TreeFacts
    <3>4. path[h][0] \in DOMAIN pages BY <3>2, <3>3, TreeFacts
    <3> QED BY <3>2, <3>3, <3>4
  <2>6. /\ call.step \in {"none", "enter", "leaf", "child", "branch", "root"}
        /\ \A i \in DOMAIN call.frames : call.frames[i].page \in DOMAIN tx.dirty
    <3>1. CASE ~tx.open \/ tx.failed BY <3>1, <2>1, NoFrames DEF Transaction
    <3>2. CASE tx.open /\ ~tx.failed
      <4>1. PICK path, h : IsWritten(path, h) BY <1>1, <3>2 DEF IInv, WrittenTree
      <4>2. /\ IsCall(call) /\ Stacked(Seen, path, h, DOMAIN tx.dirty, call)
        BY <4>1, WrittenPages DEF Grafted
      <4>3. DOMAIN call.frames = 1..Len(call.frames) BY <4>2, LenProperties DEF IsCall
      <4> QED BY <4>2, <4>3 DEF IsCall, Stacked, IsFrame
    <3> QED BY <3>1, <3>2, <2>1 DEF Transaction
  <2> QED BY <2>1, <2>2, <2>3, <2>4, <2>5, <2>6 DEF TypeOK, Failures
<1> QED BY <1>1, InductiveInv, PTL

\* No assertion of DirtyPageTracker fails.
THEOREM TrackerIsQuiet == Spec => []TrackerNeverPanics
<1>1. ASSUME IInv PROVE TrackerNeverPanics
  <2>1. ASSUME Working("enter"), call.at \in CheckedOut PROVE FALSE
    <3>1. PICK path, h : IsWritten(path, h) BY <1>1, <2>1, UnderWay DEF Working
    <3>2. /\ IsCall(call) /\ Stacked(Seen, path, h, DOMAIN tx.dirty, call) /\ h \in Nat
          /\ Tree(Seen, path, h, Low(call, h), call.key)
      BY <3>1, WrittenPages DEF Grafted
    <3>3. PICK level \in Nat : /\ level + 1 = Low(call, h) /\ level \in 1..h
                               /\ call.at = path[level][call.key]
      BY <2>1, <3>1, NextLevel DEF Working
    <3>4. PICK n \in 0..h : n = Len(call.frames) BY <3>2 DEF Stacked
    <3>5. PICK i \in 1..n : call.at = call.frames[i].page
      <4>1. DOMAIN call.frames = 1..n BY <3>2, <3>4, LenProperties DEF IsCall
      <4> QED BY <4>1, <2>1 DEF CheckedOut
    <3>6. call.at = path[h + 1 - i][call.key] BY <3>2, <3>4, <3>5 DEF Stacked, IsFrame
    <3>7. level = h - n BY <3>2, <3>3, <3>4 DEF Low
    <3>8. h + 1 - i \in 1..h /\ h + 1 - i # level BY <3>2, <3>4, <3>5, <3>7
    <3>9. call.key \in Nat BY <3>2 DEF IsCall
    <3>10. \A r, s \in 1..h : \A j, k \in Nat : path[r][j] = path[s][k] => r = s
      BY <3>2, TreeFacts
    <3>11. PICK above \in 1..h : above = h + 1 - i BY <3>8
    <3>12. path[above][call.key] = path[level][call.key] BY <3>3, <3>6, <3>11
    <3>13. above = level BY <3>3, <3>9, <3>10, <3>12
    <3> QED BY <3>8, <3>11, <3>13
  <2>2. ~IsDirty(allocated)
    <3>1. Space BY <1>1 DEF IInv
    <3>2. CASE pending_free_pages = <<>>
      <4>1. allocated = next_page_id BY <3>2 DEF allocated
      <4>2. next_page_id \notin 1..(next_page_id - 1) BY <3>1 DEF Space
      <4> QED BY <3>1, <4>1, <4>2 DEF Space, IsDirty
    <3>3. CASE pending_free_pages # <<>>
      <4>1. PICK s \in Seq(Page) : s = pending_free_pages BY <3>1 DEF Space
      <4>2. Len(s) \in Nat \ {0} /\ Head(s) = s[1] BY <3>3, <4>1, HeadTailProperties, EmptySeq
      <4>3. Head(s) \in Range(s) BY <4>2, RangeFacts
      <4> QED BY <3>1, <3>3, <4>1, <4>3 DEF Space, IsDirty, allocated
    <3> QED BY <3>2, <3>3
  <2> QED BY <2>1, <2>2 DEF TrackerNeverPanics
<1> QED BY <1>1, InductiveInv, PTL

\* Every level of a tree has pages of its own: there are no more levels than pages.
LEMMA HeightIsBounded ==
    ASSUME NEW see, NEW path, NEW h, NEW low, NEW key, Tree(see, path, h, low, key)
    PROVE  h \in 1..MaxPages
<1>1. h \in Nat \ {0} /\ MaxPages \in Nat BY TreeFacts, TreeBoundsAssumption
<1>2. \A r \in 1..h : path[r][0] \in Page BY TreeFacts
<1>3. \A r, s \in 1..h : path[r][0] = path[s][0] => r = s BY TreeFacts
<1> DEFINE f == [r \in 1..h |-> path[r][0]]
<1>4. f \in [1..h -> Page] BY <1>2
<1>5. \A r, s \in 1..h : f[r] = f[s] => r = s BY <1>3
<1> HIDE DEF f
<1>6. f \in Injection(1..h, Page) BY <1>4, <1>5 DEF Injection, IsInjective
<1>7. IsFiniteSet(Page) /\ Cardinality(Page) = MaxPages BY <1>1, FS_Interval DEF Page
<1>8. Cardinality(1..h) = h BY <1>1, FS_Interval
<1>9. h <= MaxPages BY <1>6, <1>7, <1>8, FS_Injection
<1> QED BY <1>1, <1>9

\* Each entry of a branch is on the path of some number.
LeadsDown(see, path, r, k) ==
    LET c == see[path[r][k]]
        y == IndexIn(see, path, r, k)
    IN  /\ c.kind = "branch"
        /\ child_page_id_for_key(c, k) = path[r - 1][k]
        /\ y \in DOMAIN c.entries /\ c.entries[y].page = path[r - 1][k]
        /\ \A x \in DOMAIN c.entries : \E j \in Nat :
              c.entries[x].page = path[r - 1][j] /\ c.entries[x].sum = see[path[r - 1][j]]

\* On a whole tree each branch leads to the next page of every path.
LEMMA EntriesLead ==
    ASSUME NEW see, NEW path, NEW h, NEW key, Tree(see, path, h, h + 1, key), NEW r \in 2..h
    PROVE  r - 1 \in 1..h /\ \A k \in Nat : LeadsDown(see, path, r, k)
<1>1. r - 1 \in 1..h /\ BranchLevel(see, path, r, h + 1, key) /\ h \in Nat BY TreeFacts
<1>2. r < h + 1 BY <1>1
<1>3. \A k \in Nat : Leads(see, path, r, k) BY <1>1, <1>2 DEF BranchLevel
<1>4. \A k \in Nat : IsBranch(see[path[r][k]]) BY <1>1 DEF BranchLevel
<1> SUFFICES ASSUME NEW k \in Nat PROVE LeadsDown(see, path, r, k) BY <1>1
<1>5. PICK c : c = see[path[r][k]] OBVIOUS
<1>6. c.kind = "branch" /\ AreChildren(c.entries) BY <1>4, <1>5 DEF IsBranch
<1>7. PICK es : es = c.entries OBVIOUS
<1>8. /\ DOMAIN es = 1..Len(es) /\ Index(es, k) \in 1..Len(es) BY <1>6, <1>7, ChildrenFacts
<1>9. es[Index(es, k)].page = path[r - 1][k]
  BY <1>3, <1>5, <1>7 DEF Leads, IndexIn
<1>10. child_page_id_for_key(c, k) = path[r - 1][k]
  BY <1>7, <1>9, IndexOfBranch DEF child_page_id_for_key
<1>11. ASSUME NEW x \in DOMAIN es
       PROVE  \E j \in Nat : es[x].page = path[r - 1][j] /\ es[x].sum = see[path[r - 1][j]]
  <2>1. x \in 1..Len(see[path[r][k]].entries) BY <1>5, <1>7, <1>8
  <2>2. PICK j \in Nat : path[r][j] = path[r][k] /\ IndexIn(see, path, r, j) = x
    BY <2>1, <1>1 DEF BranchLevel
  <2>3. Leads(see, path, r, j) BY <1>3
  <2>4. es[x].page = path[r - 1][j] /\ es[x].sum = see[path[r - 1][j]]
    BY <2>2, <2>3, <1>5, <1>7 DEF Leads
  <2> QED BY <2>4
<1>12. IndexIn(see, path, r, k) = Index(es, k) BY <1>5, <1>7 DEF IndexIn
<1> QED BY <1>5, <1>6, <1>7, <1>8, <1>9, <1>10, <1>11, <1>12 DEF LeadsDown

\* Tree::get comes to the leaf of the key.
Search(see, root, key, f) ==
    f = [n \in 1..MaxPages |->
            IF n = 1 THEN root
            ELSE IF see[f[n - 1]].kind = "branch" THEN child_page_id_for_key(see[f[n - 1]], key)
                 ELSE f[n - 1]]

\* Tree::get comes to the leaf at the end of the path.
LEMMA GetFinds ==
    ASSUME NEW see, NEW path, NEW h, NEW any, Tree(see, path, h, h + 1, any),
           NEW root, \A k \in Nat : path[h][k] = root, NEW key \in Nat
    PROVE  Get(see, root, key) = get_value(see[path[1][key]], key)
<1> DEFINE N == MaxPages
           went(n) == IF n <= h THEN path[h + 1 - n][key] ELSE path[1][key]
           next(p) == IF see[p].kind = "branch" THEN child_page_id_for_key(see[p], key) ELSE p
           g == [n \in 1..N |-> went(n)]
           f == CHOOSE f : Search(see, root, key, f)
<1>1. N \in Nat /\ h \in 1..N /\ h >= 1 BY HeightIsBounded, TreeBoundsAssumption
<1>2. Get(see, root, key) = get_value(see[f[N]], key) BY DEF Get, Search
<1> HIDE DEF f
<1>3. went(1) = root
  <2>1. 1 <= h /\ h + 1 - 1 = h BY <1>1
  <2> QED BY <2>1
<1>4. ASSUME NEW n \in 2..N PROVE went(n) = next(went(n - 1))
  <2>1. CASE n <= h
    <3>1. PICK r \in 2..h : r = h + 2 - n BY <1>1, <2>1
    <3>2. h + 1 - n = r - 1 /\ h + 1 - (n - 1) = r /\ n - 1 <= h BY <1>1, <2>1, <3>1
    <3>3. went(n) = path[r - 1][key] /\ went(n - 1) = path[r][key] BY <2>1, <3>2
    <3>4. /\ see[path[r][key]].kind = "branch"
          /\ child_page_id_for_key(see[path[r][key]], key) = path[r - 1][key]
      <4>1. LeadsDown(see, path, r, key) BY EntriesLead
      <4> QED BY <4>1 DEF LeadsDown
    <3> HIDE DEF went
    <3> QED BY <3>3, <3>4
  <2>2. CASE ~(n <= h)
    <3>1. went(n) = path[1][key] BY <2>2
    <3>2. went(n - 1) = path[1][key]
      <4>1. CASE n - 1 <= h
        <5>1. h + 1 - (n - 1) = 1 BY <4>1, <2>2, <1>1
        <5> QED BY <4>1, <5>1
      <4>2. CASE ~(n - 1 <= h) BY <4>2
      <4> QED BY <4>1, <4>2
    <3>3. see[path[1][key]].kind = "leaf"
      <4>1. LeafLevel(see, path) BY TreeFacts
      <4> QED BY <4>1 DEF LeafLevel, IsLeaf
    <3> HIDE DEF went
    <3> QED BY <3>1, <3>2, <3>3
  <2> QED BY <2>1, <2>2
<1>5. went(N) = path[1][key]
  <2>1. CASE N <= h
    <3>1. h + 1 - N = 1 BY <1>1, <2>1
    <3> QED BY <3>1, <2>1
  <2>2. CASE ~(N <= h) BY <2>2
  <2> QED BY <2>1, <2>2
<1> HIDE DEF went
<1>6. \A n \in 1..N : n = 1 \/ (n \in 2..N /\ n - 1 \in 1..N /\ n - 1 < n) BY <1>1
<1>7. Search(see, root, key, g)
  <2>1. \A n \in 1..N : g[n] = IF n = 1 THEN root ELSE next(g[n - 1])
    BY <1>3, <1>4, <1>6
  <2>2. g = [n \in 1..N |-> g[n]] OBVIOUS
  <2> HIDE DEF g
  <2> QED BY <2>1, <2>2 DEF Search
<1> HIDE DEF g
<1>8. Search(see, root, key, f) BY <1>7 DEF f
<1>9. \A n \in 1..N : f[n] = IF n = 1 THEN root ELSE next(f[n - 1]) BY <1>8 DEF Search
<1> HIDE DEF next
<1>10. \A n \in 1..N : f[n] = went(n)
  <2> DEFINE Bad == {n \in 1..N : f[n] # went(n)}
  <2> SUFFICES ASSUME Bad # {} PROVE FALSE OBVIOUS
  <2>1. Bad \in SUBSET Nat OBVIOUS
  <2> DEFINE m == Min(Bad)
  <2>2. m \in Bad /\ \A y \in Bad : m <= y
    <3> HIDE DEF Bad
    <3> QED BY <2>1, LeastOfNaturals
  <2> HIDE DEF m
  <2>3. m \in 1..N /\ f[m] # went(m) BY <2>2
  <2>4. m # 1 BY <2>3, <1>3, <1>9
  <2>5. m \in 2..N /\ m - 1 \in 1..N /\ ~(m <= m - 1) BY <2>3, <2>4, <1>6
  <2>6. m - 1 \notin Bad BY <2>2, <2>5
  <2>7. f[m - 1] = went(m - 1) BY <2>5, <2>6
  <2> QED BY <2>3, <2>4, <2>5, <2>7, <1>4, <1>9
<1>11. N \in 1..N BY <1>1
<1> QED BY <1>2, <1>5, <1>10, <1>11
\* The pages that are reached level by level are those of the paths.
Children(see, S) ==
    UNION {{e.page : e \in Range(see[p].entries)} : p \in {q \in S : see[q].kind = "branch"}}

\* The children of some pages are what their branches name.
LEMMA ChildrenOf ==
    ASSUME NEW see, NEW S
    PROVE  /\ \A t \in Children(see, S) : \E p \in S : \E x \in DOMAIN see[p].entries :
                 see[p].kind = "branch" /\ t = see[p].entries[x].page
           /\ \A p \in S : see[p].kind = "branch" =>
                 \A x \in DOMAIN see[p].entries : see[p].entries[x].page \in Children(see, S)
<1> DEFINE B == {q \in S : see[q].kind = "branch"}
<1>1. ASSUME NEW t \in Children(see, S)
      PROVE  \E p \in S : \E x \in DOMAIN see[p].entries :
                 see[p].kind = "branch" /\ t = see[p].entries[x].page
  <2>1. PICK p \in B : t \in {e.page : e \in Range(see[p].entries)} BY DEF Children
  <2>2. PICK e \in Range(see[p].entries) : t = e.page BY <2>1
  <2>3. PICK x \in DOMAIN see[p].entries : e = see[p].entries[x] BY DEF Range
  <2> QED BY <2>2, <2>3
<1>2. ASSUME NEW p \in S, see[p].kind = "branch", NEW x \in DOMAIN see[p].entries
      PROVE  see[p].entries[x].page \in Children(see, S)
  <2>1. p \in B BY <1>2
  <2>2. see[p].entries[x] \in Range(see[p].entries) BY DEF Range
  <2>3. see[p].entries[x].page \in {e.page : e \in Range(see[p].entries)} BY <2>2
  <2> QED BY <2>1, <2>3 DEF Children
<1> QED BY <1>1, <1>2

Rows(see, root, f) ==
    f = [n \in 1..MaxPages |-> IF n = 1 THEN {root} ELSE Children(see, f[n - 1])]

\* The pages that Tree::verify_pages visits are those of the paths.
LEMMA PagesOfTree ==
    ASSUME NEW see, NEW path, NEW h, NEW any, Tree(see, path, h, h + 1, any),
           NEW root, \A k \in Nat : path[h][k] = root
    PROVE  TreePages(see, root) = TreeOf(path, h)
<1> DEFINE N == MaxPages
           row(r) == {path[r][k] : k \in Nat}
           went(n) == IF n <= h THEN row(h + 1 - n) ELSE {}
           g == [n \in 1..N |-> went(n)]
           f == CHOOSE f : Rows(see, root, f)
<1>1. N \in Nat /\ h \in 1..N /\ h >= 1 BY HeightIsBounded, TreeBoundsAssumption
<1>2. TreePages(see, root) = UNION {f[n] : n \in 1..N} BY DEF TreePages, Rows, Children
<1> HIDE DEF f
<1>3. went(1) = {root}
  <2>1. 1 <= h /\ h + 1 - 1 = h /\ 0 \in Nat BY <1>1
  <2>2. row(h) = {root} BY <2>1
  <2> QED BY <2>1, <2>2
<1>4. ASSUME NEW n \in 2..N PROVE went(n) = Children(see, went(n - 1))
  <2>1. CASE n <= h
    <3>1. PICK r \in 2..h : r = h + 2 - n BY <1>1, <2>1
    <3>2. h + 1 - n = r - 1 /\ h + 1 - (n - 1) = r /\ n - 1 <= h BY <1>1, <2>1, <3>1
    <3>3. went(n) = row(r - 1) /\ went(n - 1) = row(r) BY <2>1, <3>2
    <3>4. ASSUME NEW t \in Children(see, row(r)) PROVE t \in row(r - 1)
      <4>1. PICK p \in row(r) : \E x \in DOMAIN see[p].entries : t = see[p].entries[x].page
        <5> HIDE DEF row
        <5> QED BY ChildrenOf
      <4>2. PICK k \in Nat : p = path[r][k] OBVIOUS
      <4>3. PICK x \in DOMAIN see[path[r][k]].entries : t = see[path[r][k]].entries[x].page
        BY <4>1, <4>2
      <4>4. PICK j \in Nat : see[path[r][k]].entries[x].page = path[r - 1][j]
        <5>1. LeadsDown(see, path, r, k) BY EntriesLead
        <5> QED BY <5>1 DEF LeadsDown
      <4> QED BY <4>3, <4>4
    <3>5. ASSUME NEW t \in row(r - 1) PROVE t \in Children(see, row(r))
      <4>1. PICK k \in Nat : t = path[r - 1][k] OBVIOUS
      <4>0. LeadsDown(see, path, r, k) BY EntriesLead
      <4>2. see[path[r][k]].kind = "branch" BY <4>0 DEF LeadsDown
      <4>3. PICK x \in DOMAIN see[path[r][k]].entries :
                 see[path[r][k]].entries[x].page = path[r - 1][k]
        <5>1. PICK x : x = IndexIn(see, path, r, k) OBVIOUS
        <5>2. /\ x \in DOMAIN see[path[r][k]].entries
              /\ see[path[r][k]].entries[x].page = path[r - 1][k]
          BY <5>1, <4>0 DEF LeadsDown
        <5> QED BY <5>2
      <4>4. path[r][k] \in row(r) OBVIOUS
      <4> HIDE DEF row
      <4>5. PICK S : S = row(r) OBVIOUS
      <4>6. see[path[r][k]].entries[x].page \in Children(see, S)
        BY <4>2, <4>3, <4>4, <4>5, ChildrenOf
      <4> QED BY <4>1, <4>3, <4>5, <4>6
    <3> HIDE DEF went, row
    <3>6. Children(see, row(r)) = row(r - 1) BY <3>4, <3>5
    <3> QED BY <3>3, <3>6
  <2>2. CASE ~(n <= h)
    <3>1. went(n) = {} BY <2>2
    <3>2. ASSUME NEW p \in went(n - 1) PROVE see[p].kind # "branch"
      <4>1. n - 1 <= h /\ p \in row(h + 1 - (n - 1)) BY <3>2
      <4>2. h + 1 - (n - 1) = 1 BY <4>1, <2>2, <1>1
      <4>3. PICK k \in Nat : p = path[1][k] BY <4>1, <4>2
      <4>4. LeafLevel(see, path) BY TreeFacts
      <4> QED BY <4>3, <4>4 DEF LeafLevel, IsLeaf
    <3> HIDE DEF went
    <3>3. Children(see, went(n - 1)) = {} BY <3>2, ChildrenOf
    <3> QED BY <3>1, <3>3
  <2> QED BY <2>1, <2>2
<1>5. UNION {went(n) : n \in 1..N} = TreeOf(path, h)
  <2>1. ASSUME NEW n \in 1..N, NEW t \in went(n) PROVE t \in TreeOf(path, h)
    <3>1. n <= h /\ t \in row(h + 1 - n) BY <2>1
    <3>2. h + 1 - n \in 1..h BY <3>1, <1>1
    <3>3. PICK k \in Nat : t = path[h + 1 - n][k] BY <3>1
    <3> QED BY <3>2, <3>3, TreeOfFacts
  <2>2. ASSUME NEW t \in TreeOf(path, h) PROVE \E n \in 1..N : t \in went(n)
    <3>1. PICK r \in 1..h, k \in Nat : t = path[r][k] BY TreeOfFacts
    <3>2. PICK n \in 1..h : n = h + 1 - r BY <1>1
    <3>3. n \in 1..N /\ n <= h /\ h + 1 - n = r BY <3>2, <1>1
    <3>4. t \in row(r) BY <3>1
    <3> QED BY <3>3, <3>4
  <2> HIDE DEF went
  <2> QED BY <2>1, <2>2
<1> HIDE DEF went
<1>6. \A n \in 1..N : n = 1 \/ (n \in 2..N /\ n - 1 \in 1..N /\ n - 1 < n) BY <1>1
<1>7. Rows(see, root, g)
  <2>1. \A n \in 1..N : g[n] = IF n = 1 THEN {root} ELSE Children(see, g[n - 1])
    BY <1>3, <1>4, <1>6
  <2>2. g = [n \in 1..N |-> g[n]] OBVIOUS
  <2> HIDE DEF g
  <2> QED BY <2>1, <2>2 DEF Rows
<1> HIDE DEF g
<1>8. Rows(see, root, f) BY <1>7 DEF f
<1>9. \A n \in 1..N : f[n] = IF n = 1 THEN {root} ELSE Children(see, f[n - 1])
  BY <1>8 DEF Rows
<1>10. \A n \in 1..N : f[n] = went(n)
  <2> DEFINE Bad == {n \in 1..N : f[n] # went(n)}
  <2> SUFFICES ASSUME Bad # {} PROVE FALSE OBVIOUS
  <2>1. Bad \in SUBSET Nat OBVIOUS
  <2> DEFINE m == Min(Bad)
  <2>2. m \in Bad /\ \A y \in Bad : m <= y
    <3> HIDE DEF Bad
    <3> QED BY <2>1, LeastOfNaturals
  <2> HIDE DEF m
  <2>3. m \in 1..N /\ f[m] # went(m) BY <2>2
  <2>4. m # 1 BY <2>3, <1>3, <1>9
  <2>5. m \in 2..N /\ m - 1 \in 1..N /\ ~(m <= m - 1) BY <2>3, <2>4, <1>6
  <2>6. m - 1 \notin Bad BY <2>2, <2>5
  <2>7. f[m - 1] = went(m - 1) BY <2>5, <2>6
  <2> QED BY <2>3, <2>4, <2>5, <2>7, <1>4, <1>9
<1>11. {f[n] : n \in 1..N} = {went(n) : n \in 1..N} BY <1>10
<1> QED BY <1>2, <1>5, <1>11

\* The trees of the last commit and, between two inserts, of the transaction.
LEMMA CommittedTreeIs ==
    ASSUME IInv
    PROVE  \E path, h : /\ IsCommitted(path, h) /\ Tree(pages, path, h, h + 1, NoKey)
                        /\ (\A k \in Nat : path[h][k] = slot.root)
                        /\ Holds(pages, path, committed) /\ TreeOf(path, h) = CommittedPages
                        /\ slot.sum = pages[slot.root]
BY DEF IInv, CommittedTree, IsCommitted

\* Between two inserts the transaction's tree is whole.
LEMMA RestingTreeIs ==
    ASSUME IInv, AtRest
    PROVE  \E path, h : /\ Tree(Seen, path, h, h + 1, NoKey)
                        /\ (\A k \in Nat : path[h][k] = tx.root)
                        /\ Holds(Seen, path, tx.holds)
                        /\ tx.sum = Seen[tx.root]
<1>1. tx.open /\ ~tx.failed /\ call.step = "none" BY DEF AtRest, Working
<1>2. PICK path, h : IsWritten(path, h) BY <1>1 DEF IInv, WrittenTree
<1>3. Grafted(Seen, path, h, DOMAIN tx.dirty, tx.root, tx.sum, call) BY <1>2, WrittenPages
<1>4. /\ Tree(Seen, path, h, h + 1, NoKey) /\ (\A k \in Nat : path[h][k] = tx.root)
      /\ tx.sum = Seen[tx.root]
  BY <1>1, <1>3, RestFacts
<1>5. Held(call, tx.holds) = tx.holds BY <1>1 DEF Held
<1>6. Holds(Seen, path, tx.holds) BY <1>2, <1>5 DEF IsWritten
<1> QED BY <1>4, <1>6

\* Tree::get finds in a whole tree what it holds.
LEMMA TreeHolds ==
    ASSUME NEW see, NEW path, NEW h, Tree(see, path, h, h + 1, NoKey),
           NEW root, \A k \in Nat : path[h][k] = root, NEW map, Holds(see, path, map),
           NEW key \in Key
    PROVE  Get(see, root, key) = map[key]
<1>1. key \in Nat BY KeyAssumption
<1>2. Get(see, root, key) = get_value(see[path[1][key]], key) BY <1>1, GetFinds
<1> QED BY <1>2 DEF Holds

\* A key is found where Tree::get looks for it, with the value last inserted, after any
\* splits, and in the committed tree whatever an insert under way has done.
THEOREM EveryKeyIsFound == Spec => []KeysAreFound
<1>1. ASSUME IInv PROVE KeysAreFound
  <2> SUFFICES ASSUME NEW k \in Key
               PROVE  /\ Get(pages, slot.root, k) = committed[k]
                      /\ AtRest => Get(Seen, tx.root, k) = tx.holds[k]
    BY DEF KeysAreFound
  <2>1. Get(pages, slot.root, k) = committed[k]
    <3>1. PICK path, h : /\ Tree(pages, path, h, h + 1, NoKey)
                         /\ (\A n \in Nat : path[h][n] = slot.root)
                         /\ Holds(pages, path, committed)
      BY <1>1, CommittedTreeIs
    <3>2. PICK see, root, map : see = pages /\ root = slot.root /\ map = committed OBVIOUS
    <3>3. Get(see, root, k) = map[k] BY <3>1, <3>2, TreeHolds
    <3> QED BY <3>2, <3>3
  <2>2. ASSUME AtRest PROVE Get(Seen, tx.root, k) = tx.holds[k]
    <3>1. PICK path, h : /\ Tree(Seen, path, h, h + 1, NoKey)
                         /\ (\A n \in Nat : path[h][n] = tx.root)
                         /\ Holds(Seen, path, tx.holds)
      BY <1>1, <2>2, RestingTreeIs
    <3>2. PICK see, root, map : see = Seen /\ root = tx.root /\ map = tx.holds OBVIOUS
    <3>3. Get(see, root, k) = map[k] BY <3>1, <3>2, TreeHolds
    <3> QED BY <3>2, <3>3
  <2> QED BY <2>1, <2>2
<1> QED BY <1>1, InductiveInv, PTL

\* What Tree::verify_pages checks of a tree.
Verified(see, root, sum) ==
    /\ checksum_page(see[root]) = sum
    /\ \A p \in TreePages(see, root) :
         see[p].kind = "branch" => \A e \in Range(see[p].entries) :
                                      checksum_page(see[e.page]) = e.sum

\* Every checksum in a whole tree is that of the page it is for.
LEMMA TreeVerifies ==
    ASSUME NEW see, NEW path, NEW h, Tree(see, path, h, h + 1, NoKey),
           NEW root, \A k \in Nat : path[h][k] = root, NEW sum, sum = see[root]
    PROVE  Verified(see, root, sum)
<1>1. ASSUME NEW p \in TreePages(see, root), see[p].kind = "branch",
             NEW e \in Range(see[p].entries)
      PROVE  see[e.page] = e.sum
  <2>1. p \in TreeOf(path, h) BY PagesOfTree
  <2>2. PICK r \in 1..h, k \in Nat : p = path[r][k] BY <2>1, TreeOfFacts
  <2>3. PICK x \in DOMAIN see[p].entries : e = see[p].entries[x] BY DEF Range
  <2>4. CASE r = 1
    <3>1. LeafLevel(see, path) BY TreeFacts
    <3>2. see[p].kind = "leaf" BY <3>1, <2>2, <2>4 DEF LeafLevel, IsLeaf
    <3> QED BY <3>2, <1>1
  <2>5. CASE r # 1
    <3>1. r \in 2..h /\ h \in Nat BY <2>5, TreeFacts
    <3>2. LeadsDown(see, path, r, k) BY <3>1, EntriesLead
    <3>3. x \in DOMAIN see[path[r][k]].entries BY <2>2
    <3>4. PICK j \in Nat : /\ see[path[r][k]].entries[x].page = path[r - 1][j]
                           /\ see[path[r][k]].entries[x].sum = see[path[r - 1][j]]
      BY <3>2, <3>3 DEF LeadsDown
    <3>5. e.page = path[r - 1][j] /\ e.sum = see[path[r - 1][j]] BY <3>4, <2>2, <2>3
    <3> QED BY <3>5
  <2> QED BY <2>4, <2>5
<1> QED BY <1>1 DEF Verified, checksum_page

\* Tree::verify_pages accepts the committed tree, and the one a commit would publish.
THEOREM TheChecksumsMatch == Spec => []ChecksumsMatch
<1>1. ASSUME IInv PROVE ChecksumsMatch
  <2>1. Verified(pages, slot.root, slot.sum)
    <3>1. PICK path, h : /\ Tree(pages, path, h, h + 1, NoKey)
                         /\ (\A n \in Nat : path[h][n] = slot.root)
                         /\ slot.sum = pages[slot.root]
      BY <1>1, CommittedTreeIs
    <3>2. PICK see, root, sum : see = pages /\ root = slot.root /\ sum = slot.sum OBVIOUS
    <3>3. Verified(see, root, sum) BY <3>1, <3>2, TreeVerifies
    <3> QED BY <3>2, <3>3
  <2>2. ASSUME AtRest PROVE Verified(Seen, tx.root, tx.sum)
    <3>1. PICK path, h : /\ Tree(Seen, path, h, h + 1, NoKey)
                         /\ (\A n \in Nat : path[h][n] = tx.root)
                         /\ tx.sum = Seen[tx.root]
      BY <1>1, <2>2, RestingTreeIs
    <3>2. PICK see, root, sum : see = Seen /\ root = tx.root /\ sum = tx.sum OBVIOUS
    <3>3. Verified(see, root, sum) BY <3>1, <3>2, TreeVerifies
    <3> QED BY <3>2, <3>3
  <2> QED BY <2>1, <2>2 DEF ChecksumsMatch, Verified
<1> QED BY <1>1, InductiveInv, PTL

\* A queue without repetitions has as many pages as its length says.
LEMMA QueueCount ==
    ASSUME NEW s \in Seq(Page), InjectiveSeq(s)
    PROVE  IsFiniteSet(Range(s)) /\ Cardinality(Range(s)) = Len(s)
<1>1. PICK n \in Nat : n = Len(s) /\ DOMAIN s = 1..n BY LenProperties
<1>2. s \in [1..n -> Range(s)]
  <2>1. s \in [1..n -> Page] BY <1>1, LenProperties
  <2>2. \A i \in 1..n : s[i] \in Range(s) BY <1>1, RangeFacts
  <2> QED BY <2>1, <2>2
<1>3. \A i, j \in 1..n : s[i] = s[j] => i = j BY <1>1 DEF InjectiveSeq
<1>4. \A x \in Range(s) : \E i \in 1..n : s[i] = x BY <1>1, RangeFacts
<1>5. s \in Bijection(1..n, Range(s))
  BY <1>2, <1>3, <1>4 DEF Bijection, Injection, Surjection, IsInjective
<1>6. IsFiniteSet(1..n) /\ Cardinality(1..n) = IF 1 > n THEN 0 ELSE n - 1 + 1 BY FS_Interval
<1>7. IsFiniteSet(Range(s)) /\ Cardinality(Range(s)) = Cardinality(1..n)
  BY <1>5, <1>6, FS_Bijection DEF ExistsBijection
<1> QED BY <1>1, <1>6, <1>7

\* The sizes of sets that share nothing add up.
LEMMA DisjointCount ==
    ASSUME NEW S, NEW T, IsFiniteSet(S), IsFiniteSet(T), S \cap T = {}
    PROVE  IsFiniteSet(S \cup T) /\ Cardinality(S \cup T) = Cardinality(S) + Cardinality(T)
<1>1. /\ IsFiniteSet(S \cup T)
      /\ Cardinality(S \cup T) = Cardinality(S) + Cardinality(T) - Cardinality(S \cap T)
  BY FS_Union
<1>2. Cardinality(S \cap T) = 0 BY FS_EmptySet
<1>3. Cardinality(S) \in Nat /\ Cardinality(T) \in Nat BY FS_CardinalityType
<1> QED BY <1>1, <1>2, <1>3

\* Every page has one use, so that a commit frees exactly the pages its tree has no more.
THEOREM EveryPageIsAccountedFor == Spec => []PagesAreAccountedFor
<1>1. ASSUME IInv PROVE PagesAreAccountedFor
  <2>1. TreePages(pages, slot.root) = CommittedPages
    <3>1. PICK path, h : /\ Tree(pages, path, h, h + 1, NoKey)
                         /\ (\A n \in Nat : path[h][n] = slot.root)
                         /\ TreeOf(path, h) = CommittedPages
      BY <1>1, CommittedTreeIs
    <3>2. PICK see, root : see = pages /\ root = slot.root OBVIOUS
    <3>3. TreePages(see, root) = TreeOf(path, h) BY <3>1, <3>2, PagesOfTree
    <3> QED BY <3>1, <3>2, <3>3
  <2>2. PICK tree, free, dirty, all :
           /\ tree = CommittedPages /\ free = Range(pending_free_pages)
           /\ dirty = DOMAIN tx.dirty /\ all = 1..(next_page_id - 1)
    OBVIOUS
  <2>3. Space BY <1>1 DEF IInv
  <2>4. /\ tree = all \ (free \cup dirty \cup lost)
        /\ free \subseteq all /\ dirty \subseteq all /\ lost \subseteq all
        /\ dirty \cap lost = {} /\ dirty \cap free = {} /\ lost \cap free = {}
    BY <2>2, <2>3 DEF Space, CommittedPages
  <2>5. PICK n \in Nat : n = next_page_id - 1
    BY <2>3, TreeBoundsAssumption DEF Space
  <2>6. IsFiniteSet(all) /\ Cardinality(all) = n BY <2>2, <2>5, FS_Interval
  <2>7. IsFiniteSet(tree) /\ IsFiniteSet(free) /\ IsFiniteSet(dirty) /\ IsFiniteSet(lost)
    BY <2>4, <2>6, FS_Subset
  <2>8. IsFiniteSet(tree \cup free) /\ Cardinality(tree \cup free) = Cardinality(tree) + Cardinality(free)
    BY <2>4, <2>7, DisjointCount
  <2>9. /\ IsFiniteSet((tree \cup free) \cup dirty)
        /\ Cardinality((tree \cup free) \cup dirty) = Cardinality(tree \cup free) + Cardinality(dirty)
    <3>1. (tree \cup free) \cap dirty = {} BY <2>4
    <3> QED BY <3>1, <2>7, <2>8, DisjointCount
  <2>10. Cardinality(((tree \cup free) \cup dirty) \cup lost)
            = Cardinality((tree \cup free) \cup dirty) + Cardinality(lost)
    <3>1. ((tree \cup free) \cup dirty) \cap lost = {} BY <2>4
    <3> QED BY <3>1, <2>7, <2>9, DisjointCount
  <2>11. ((tree \cup free) \cup dirty) \cup lost = all BY <2>4
  <2>12. Cardinality(free) = Len(pending_free_pages)
    <3>1. PICK s \in Seq(Page) : s = pending_free_pages /\ InjectiveSeq(s) BY <2>3 DEF Space
    <3>2. Cardinality(Range(s)) = Len(s) BY <3>1, QueueCount
    <3> QED BY <2>2, <3>1, <3>2
  <2>13. Cardinality(tree) + Len(pending_free_pages) + Cardinality(dirty) + Cardinality(lost) = n
    BY <2>6, <2>8, <2>9, <2>10, <2>11, <2>12
  <2> QED BY <2>1, <2>2, <2>5, <2>11, <2>13 DEF PagesAreAccountedFor
<1> QED BY <1>1, InductiveInv, PTL
=============================================================================
