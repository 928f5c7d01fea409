-------------------------- MODULE KvSnapshotProofs --------------------------
(***************************************************************************)
(* The kv store is the map of KvSnapshots.  An insert into a tree of one   *)
(* or two levels puts one entry into the map that the tree holds, whatever *)
(* is split; the maps that the history remembers are those of the trees,   *)
(* and what recovery comes back to is the current map or one in doubt.     *)
(***************************************************************************)
EXTENDS KvStoreProofs

-----------------------------------------------------------------------------
(* The way to a key: how many separators of a branch are at or below it. *)

\* The children of b whose keys a search for key passes.
Passed(b, key) == {i \in 2..Len(b.children) : b.children[i].key <= key}

\* Room made at x changes no count.
Shifted(S, x, l) == {i \in 1..(l + 1) : i # x /\ (IF i < x THEN i ELSE i - 1) \in S}

\* Indices of which some are moved by one stay as many.
LEMMA ShiftedSet ==
    ASSUME NEW l \in Nat, NEW x \in Nat, NEW S \in SUBSET (1..l)
    PROVE  /\ IsFiniteSet(S) /\ IsFiniteSet(Shifted(S, x, l))
           /\ Cardinality(Shifted(S, x, l)) = Cardinality(S)
<1> DEFINE T == {i \in 1..(l + 1) : i # x /\ (IF i < x THEN i ELSE i - 1) \in S}
<1>1. IsFiniteSet(1..l) BY FS_Interval
<1>2. IsFiniteSet(S) BY <1>1, FS_Subset
<1> DEFINE f == [i \in S |-> IF i < x THEN i ELSE i + 1]
<1>3. \A i \in S : i \in 1..l OBVIOUS
<1>4. \A i \in S : f[i] = IF i < x THEN i ELSE i + 1 OBVIOUS
<1>5. ASSUME NEW i \in S PROVE f[i] \in T
  <2>1. i \in 1..l /\ f[i] = IF i < x THEN i ELSE i + 1 BY <1>3, <1>4
  <2> HIDE DEF f
  <2>2. f[i] \in 1..(l + 1) /\ f[i] # x /\ (IF f[i] < x THEN f[i] ELSE f[i] - 1) = i BY <2>1
  <2> QED BY <2>2
<1>6. ASSUME NEW i \in S, NEW j \in S, f[i] = f[j] PROVE i = j
  <2>1. /\ i \in 1..l /\ f[i] = IF i < x THEN i ELSE i + 1
        /\ j \in 1..l /\ f[j] = IF j < x THEN j ELSE j + 1
    BY <1>3, <1>4
  <2>2. f[i] = f[j] BY <1>6
  <2> HIDE DEF f
  <2> QED BY <2>1, <2>2
<1>7. ASSUME NEW t \in T PROVE \E i \in S : f[i] = t
  <2>1. PICK i \in S : i = IF t < x THEN t ELSE t - 1 OBVIOUS
  <2>2. i \in 1..l /\ f[i] = IF i < x THEN i ELSE i + 1 BY <1>3, <1>4
  <2>3. t \in 1..(l + 1) /\ t # x OBVIOUS
  <2> HIDE DEF f
  <2>4. f[i] = t BY <2>1, <2>2, <2>3
  <2> QED BY <2>4
<1>8. f \in [S -> T] BY <1>5
<1> HIDE DEF f
<1>9. f \in Bijection(S, T)
  BY <1>6, <1>7, <1>8 DEF Bijection, Injection, Surjection, IsInjective
<1>10. T = Shifted(S, x, l) BY DEF Shifted
<1> HIDE DEF T
<1> QED BY <1>2, <1>9, <1>10, FS_Bijection DEF ExistsBijection

\* The child for a key comes after the separators that the key has passed.
LEMMA PassedFacts ==
    ASSUME NEW b \in Branches, NEW key \in Key
    PROVE  /\ Passed(b, key) \in SUBSET (2..Len(b.children)) /\ IsFiniteSet(Passed(b, key))
           /\ child_index_for_key(b, key) = 1 + Cardinality(Passed(b, key))
           /\ Cardinality(Passed(b, key)) \in Nat /\ Len(b.children) \in Nat
           /\ \A i \in 1..Len(b.children) : b.children[i].key \in Nat
<1>1. Len(b.children) \in Nat /\ \A i \in 1..Len(b.children) : b.children[i] \in Children
  BY BranchFacts, CapacityAssumption
<1>2. \A i \in 1..Len(b.children) : b.children[i].key \in Nat
  <2>1. \A k \in Key \cup {0} : k \in Nat BY KeyAssumption
  <2>2. \A e \in Children : e.key \in Key \cup {0} BY DEF Children
  <2> QED BY <1>1, <2>1, <2>2
<1>3. IsFiniteSet(2..Len(b.children)) BY <1>1, FS_Interval
<1>4. Passed(b, key) \in SUBSET (2..Len(b.children)) BY DEF Passed
<1>5. IsFiniteSet(Passed(b, key)) BY <1>3, <1>4, FS_Subset
<1>6. Cardinality(Passed(b, key)) \in Nat BY <1>5, FS_CardinalityType
<1> QED BY <1>1, <1>2, <1>4, <1>5, <1>6 DEF child_index_for_key, Passed

\* A larger key is not further left; two keys of one child have no separator between them.
LEMMA RoutesAreOrdered ==
    ASSUME NEW b \in Branches, NEW j \in Key, NEW k \in Key, j <= k
    PROVE  /\ child_index_for_key(b, j) <= child_index_for_key(b, k)
           /\ child_index_for_key(b, j) = child_index_for_key(b, k)
                => Passed(b, j) = Passed(b, k)
<1>1. Passed(b, j) \in SUBSET Passed(b, k)
  <2>1. ASSUME NEW i \in 2..Len(b.children), b.children[i].key <= j
        PROVE  b.children[i].key <= k
    <3>1. Len(b.children) \in Nat BY PassedFacts
    <3>2. b.children[i].key \in Nat BY <3>1, PassedFacts
    <3> QED BY <2>1, <3>2, KeyAssumption
  <2> QED BY <2>1 DEF Passed
<1> DEFINE p == Cardinality(Passed(b, j))
           q == Cardinality(Passed(b, k))
<1>2. /\ p \in Nat /\ q \in Nat /\ IsFiniteSet(Passed(b, k))
      /\ child_index_for_key(b, j) = 1 + p /\ child_index_for_key(b, k) = 1 + q
  BY PassedFacts
<1>3. p <= q /\ (p = q => Passed(b, j) = Passed(b, k)) BY <1>1, <1>2, FS_Subset
<1> HIDE DEF p, q
<1> QED BY <1>2, <1>3

\* A branch with one more child, of a separator, a page and a summary, to the right of x.
OneMore(b, x, sep, page, sum, c) ==
    /\ c \in Branches /\ Len(c.children) = Len(b.children) + 1
    /\ c.children[x + 1] = Child(sep, page, sum)
    /\ \A i \in 1..x : c.children[i] = b.children[i]
    /\ \A i \in (x + 1)..Len(b.children) : c.children[i + 1] = b.children[i]
    /\ \A key \in Key : child_index_for_key(c, key)
         = child_index_for_key(b, key) + IF sep <= key THEN 1 ELSE 0

\* A leaf that has some of the keys of a child and a separator above one of them: the new
\* child is to the right of it.
LEMMA SplitRoutes ==
    ASSUME NEW b \in Branches, NEW low \in Key, NEW sep \in Key, low < sep,
           NEW x \in 1..Len(b.children),
           child_index_for_key(b, low) = x, child_index_for_key(b, sep) = x,
           NEW page \in Page, NEW sum \in Leaves, branch_fits(b),
           NEW c, c = InsertChild(b, sep, page, sum)
    PROVE  OneMore(b, x, sep, page, sum, c)
<1> DEFINE l == Len(b.children)
           S == {i \in 2..l : b.children[i].key < sep}
           e == Child(sep, page, sum)
           s == InsertAt(b.children, x + 1, e)
<1>1. /\ b.children \in Seq(Children) /\ l \in 2..BranchCapacity
      /\ BranchCapacity \in Nat /\ l \in Nat /\ x \in Nat \ {0}
      /\ \A i \in 1..l : b.children[i].key \in Nat
  BY BranchFacts, CapacityAssumption, PassedFacts
<1>2. low \in Nat /\ sep \in Nat BY KeyAssumption
<1>3. Passed(b, low) = Passed(b, sep) BY <1>2, RoutesAreOrdered
<1>4. \A i \in 2..l : b.children[i].key # sep /\ b.children[i].key \in Nat
  <2>1. ASSUME NEW i \in 2..l, b.children[i].key = sep PROVE FALSE
    <3>1. i \in Passed(b, sep) BY <1>2, <2>1 DEF Passed
    <3>2. i \in Passed(b, low) BY <1>3, <3>1
    <3>3. b.children[i].key <= low BY <3>2 DEF Passed
    <3> QED BY <1>2, <2>1, <3>3
  <2>2. \A i \in 2..l : i \in 1..l BY <1>1
  <2> QED BY <1>1, <2>1, <2>2
<1>5. S = Passed(b, sep) BY <1>2, <1>4 DEF Passed
<1>6. 1 + Cardinality(S) = x /\ Cardinality(S) \in Nat BY <1>5, PassedFacts
<1>7. c = Branch(s)
  <2> DEFINE y == 2 + Cardinality(S)
  <2>1. y = x + 1 BY <1>1, <1>6
  <2>2. ~(y <= l /\ b.children[y].key = sep)
    <3> HIDE DEF y, S
    <3>1. y <= l => y \in 2..l BY <1>1, <2>1
    <3> QED BY <1>4, <3>1
  <2>3. c = IF y <= l /\ b.children[y].key = sep
            THEN set_child_at_index(b, y, page, sum)
            ELSE Branch(InsertAt(b.children, y, e))
    BY DEF InsertChild
  <2> HIDE DEF y
  <2> QED BY <2>1, <2>2, <2>3
<1>8. e \in Children BY DEF Child, Children
<1>9. /\ s \in Seq(Children) /\ Len(s) = l + 1
      /\ \A i \in 1..(l + 1) :
            s[i] = IF i < x + 1 THEN b.children[i] ELSE IF i = x + 1 THEN e ELSE b.children[i - 1]
  <2>1. b.children \in Seq(Children) BY <1>1
  <2>2. PICK k \in Seq(Children) : k = b.children BY <2>1
  <2>3. x + 1 \in 1..(Len(k) + 1) BY <1>1, <2>2
  <2> HIDE DEF e
  <2>4. PICK z \in 1..(Len(k) + 1) : z = x + 1 BY <2>3
  <2>5. /\ InsertAt(k, z, e) \in Seq(Children) /\ Len(InsertAt(k, z, e)) = Len(k) + 1
        /\ \A i \in 1..(Len(k) + 1) :
              InsertAt(k, z, e)[i] = IF i < z THEN k[i] ELSE IF i = z THEN e ELSE k[i - 1]
    BY <1>8, InsertedAt
  <2> QED BY <2>2, <2>4, <2>5
<1>10. c.children = s BY <1>7 DEF Branch
<1> HIDE DEF s, S
<1>11. c \in Branches
  <2>1. Len(s) \in 2..BranchCapacity BY <1>1, <1>9 DEF branch_fits
  <2> QED BY <1>7, <1>9, <2>1, BranchType
<1>12. /\ c.children[x + 1] = e
       /\ \A i \in 1..x : c.children[i] = b.children[i]
       /\ \A i \in (x + 1)..l : c.children[i + 1] = b.children[i]
  <2>1. x + 1 \in 1..(l + 1) /\ ~(x + 1 < x + 1) BY <1>1
  <2>2. s[x + 1] = e BY <1>9, <2>1
  <2>3. \A i \in 1..x : i \in 1..(l + 1) /\ i < x + 1 BY <1>1
  <2>4. \A i \in 1..x : s[i] = b.children[i] BY <1>9, <2>3
  <2>5. \A i \in (x + 1)..l : /\ i + 1 \in 1..(l + 1) /\ ~(i + 1 < x + 1) /\ i + 1 # x + 1
                              /\ (i + 1) - 1 = i
    BY <1>1
  <2>6. \A i \in (x + 1)..l : s[i + 1] = b.children[i] BY <1>9, <2>5
  <2> QED BY <1>10, <2>2, <2>4, <2>6
<1>13. ASSUME NEW key \in Key
       PROVE  child_index_for_key(c, key)
                = child_index_for_key(b, key) + IF sep <= key THEN 1 ELSE 0
  <2> DEFINE P == Passed(b, key)
             T == {i \in 1..(l + 1) : i # x + 1 /\ (IF i < x + 1 THEN i ELSE i - 1) \in P}
  <2>1. P \in SUBSET (1..l)
    <3>1. P \in SUBSET (2..l) BY PassedFacts
    <3>2. \A i \in 2..l : i \in 1..l BY <1>1
    <3> QED BY <3>1, <3>2
  <2>2. IsFiniteSet(T) /\ Cardinality(T) = Cardinality(P) /\ Cardinality(P) \in Nat
    <3>1. x + 1 \in Nat BY <1>1
    <3>2. T = Shifted(P, x + 1, l) BY DEF Shifted
    <3> HIDE DEF P, T, l
    <3>3. /\ IsFiniteSet(P) /\ IsFiniteSet(Shifted(P, x + 1, l))
          /\ Cardinality(Shifted(P, x + 1, l)) = Cardinality(P)
      BY <1>1, <2>1, <3>1, ShiftedSet
    <3> QED BY <3>2, <3>3, FS_CardinalityType
  <2>3. Passed(c, key) = IF sep <= key THEN T \cup {x + 1} ELSE T
    <3>1. ASSUME NEW i \in 1..(l + 1), i # x + 1
          PROVE  i \in Passed(c, key) <=> i \in T
      <4> DEFINE m == IF i < x + 1 THEN i ELSE i - 1
      <4>1. m \in 1..l /\ (i \in 2..(l + 1) <=> m \in 2..l)
        BY <1>1, <3>1
      <4>2. c.children[i] = b.children[m] BY <1>9, <1>10, <3>1
      <4>3. Len(c.children) = l + 1 BY <1>9, <1>10
      <4>4. i \in Passed(c, key) <=> m \in Passed(b, key)
        <5> HIDE DEF m, l
        <5>1. i \in Passed(c, key) <=> i \in 2..(l + 1) /\ c.children[i].key <= key
          BY <4>3 DEF Passed
        <5>2. m \in Passed(b, key) <=> m \in 2..l /\ b.children[m].key <= key
          BY DEF Passed, l
        <5> QED BY <4>1, <4>2, <5>1, <5>2
      <4> QED BY <3>1, <4>4
    <3>2. x + 1 \in Passed(c, key) <=> sep <= key
      <4>1. c.children[x + 1].key = sep BY <1>12 DEF Child
      <4>2. x + 1 \in 2..Len(c.children) BY <1>1, <1>9, <1>10
      <4> QED BY <4>1, <4>2 DEF Passed
    <3>3. x + 1 \notin T OBVIOUS
    <3>4. Passed(c, key) \in SUBSET (1..(l + 1)) /\ T \in SUBSET (1..(l + 1))
          /\ x + 1 \in 1..(l + 1)
      <4>1. Passed(c, key) \in SUBSET (2..(l + 1)) BY <1>9, <1>10 DEF Passed
      <4>2. \A i \in 2..(l + 1) : i \in 1..(l + 1) BY <1>1
      <4>3. x + 1 \in 1..(l + 1) BY <1>1
      <4> QED BY <4>1, <4>2, <4>3
    <3> HIDE DEF T
    <3>5. \A i \in Passed(c, key) \cup T : i \in 1..(l + 1) BY <3>4
    <3>6. CASE sep <= key
      <4>1. Passed(c, key) = T \cup {x + 1} BY <3>1, <3>2, <3>4, <3>5, <3>6
      <4> QED BY <3>6, <4>1
    <3>7. CASE ~(sep <= key)
      <4>1. x + 1 \notin Passed(c, key) BY <3>2, <3>7
      <4>2. \A i \in Passed(c, key) : i \in T BY <3>1, <3>5, <4>1
      <4>3. \A i \in T : i \in Passed(c, key) BY <3>1, <3>3, <3>5
      <4>4. Passed(c, key) = T BY <4>2, <4>3
      <4> QED BY <3>7, <4>4
    <3> QED BY <3>6, <3>7
  <2>4. x + 1 \notin T OBVIOUS
  <2> HIDE DEF T
  <2>5. Cardinality(Passed(c, key)) = Cardinality(P) + IF sep <= key THEN 1 ELSE 0
    <3>1. CASE sep <= key
      <4>1. Cardinality(T \cup {x + 1}) = Cardinality(T) + 1 BY <2>2, <2>4, FS_AddElement
      <4> QED BY <2>2, <2>3, <3>1, <4>1
    <3>2. CASE ~(sep <= key) BY <2>2, <2>3, <3>2
    <3> QED BY <3>1, <3>2
  <2>6. /\ child_index_for_key(c, key) = 1 + Cardinality(Passed(c, key))
        /\ child_index_for_key(b, key) = 1 + Cardinality(P)
    BY <1>11, PassedFacts
  <2> HIDE DEF P
  <2> QED BY <2>2, <2>5, <2>6
<1> QED BY <1>9, <1>10, <1>11, <1>12, <1>13 DEF OneMore
-----------------------------------------------------------------------------
(* What an insert puts into a tree. *)

\* A leaf with one more entry, and its two halves.
Halved(leaf, key, value, e, sep) ==
    /\ DOMAIN e = DOMAIN leaf.entries \cup {key} /\ DOMAIN e \in SUBSET Key
    /\ \A k \in Key : get_value(Leaf(e), k)
                        = IF k = key THEN value ELSE get_value(leaf, k)
    /\ sep \in DOMAIN e /\ sep \in Key
    /\ \A k \in DOMAIN LeftEntries(e) : k \in DOMAIN e /\ k < sep
    /\ \A k \in DOMAIN RightEntries(e) : k \in DOMAIN e /\ sep <= k
    /\ \A k \in Key : /\ k < sep => get_value(Leaf(LeftEntries(e)), k)
                                      = get_value(Leaf(e), k)
                      /\ sep <= k => get_value(Leaf(RightEntries(e)), k)
                                       = get_value(Leaf(e), k)
    /\ ~fits(leaf) => \E low \in DOMAIN e : low < sep

\* The two halves of a leaf with a new entry have its entries, parted at the separator.
LEMMA EntryIsInserted ==
    ASSUME NEW leaf \in Leaves, NEW key \in Key, NEW value \in Value
    PROVE  Halved(leaf, key, value, InsertEntry(leaf, key, value),
                  SeparatorKey(InsertEntry(leaf, key, value)))
<1> DEFINE e == InsertEntry(leaf, key, value)
           S == DOMAIN leaf.entries
           sep == SeparatorKey(e)
           below == {j \in DOMAIN e : j < sep}
<1>1. leaf.entries \in Entries /\ \A x : Leaf(x).entries = x BY LeafFacts DEF Leaf
<1>2. S \in SUBSET Key /\ IsFiniteSet(S) BY <1>1, EntriesAreFinite
<1>3. /\ DOMAIN e = S \cup {key} /\ DOMAIN e \in SUBSET Key
      /\ \A k \in DOMAIN e : e[k] = IF k = key THEN value ELSE leaf.entries[k]
  BY <1>2 DEF InsertEntry
<1>4. e \in Entries BY LeavesSplit
<1>5. DOMAIN e # {} BY <1>3
<1> HIDE DEF e
<1>6. sep \in DOMAIN e /\ Cardinality(below) = Cardinality(DOMAIN e) \div 2
  BY <1>4, <1>5, SeparatorExists
<1>7. \A k \in Key : get_value(Leaf(e), k) = IF k = key THEN value ELSE get_value(leaf, k)
  BY <1>1, <1>3 DEF get_value
<1>8. sep \in Key BY <1>3, <1>6
<1>9. \A k \in Key : k \in Nat BY KeyAssumption
<1> HIDE DEF sep
<1>10. DOMAIN LeftEntries(e) = below /\ \A k \in below : LeftEntries(e)[k] = e[k]
  BY DEF LeftEntries, sep
<1>11. /\ DOMAIN RightEntries(e) = {k \in DOMAIN e : k >= sep}
       /\ \A k \in {k \in DOMAIN e : k >= sep} : RightEntries(e)[k] = e[k]
  BY DEF RightEntries, sep
<1>12. \A k \in Key : k < sep =>
          get_value(Leaf(LeftEntries(e)), k) = get_value(Leaf(e), k)
  BY <1>1, <1>10 DEF get_value
<1>13. \A k \in Key : sep <= k =>
          get_value(Leaf(RightEntries(e)), k) = get_value(Leaf(e), k)
  <2>1. \A k \in Key : sep <= k <=> k >= sep BY <1>8, <1>9
  <2> QED BY <1>1, <1>11, <2>1 DEF get_value
<1>14. ASSUME ~fits(leaf) PROVE \E low \in DOMAIN e : low < sep
  <2>1. Cardinality(S) \in Nat /\ Cardinality(S) >= 2
    <3>1. Cardinality(S) \in Nat BY <1>2, FS_CardinalityType
    <3>2. LeafCapacity \in Nat /\ LeafCapacity >= 2 BY CapacityAssumption
    <3>3. ~(Cardinality(S) < LeafCapacity) BY <1>14 DEF fits
    <3> QED BY <3>1, <3>2, <3>3
  <2>2. Cardinality(DOMAIN e) \in Nat /\ Cardinality(DOMAIN e) >= 2
    <3>1. Cardinality(S \cup {key}) = IF key \in S THEN Cardinality(S) ELSE Cardinality(S) + 1
      BY <1>2, FS_AddElement
    <3> QED BY <1>3, <2>1, <3>1
  <2>3. Cardinality(below) # 0
    <3>1. \A n \in Nat : n >= 2 => n \div 2 >= 1 OBVIOUS
    <3>2. Cardinality(DOMAIN e) \div 2 # 0 BY <2>2
    <3> QED BY <1>6, <3>2
  <2>4. below # {} BY <2>3, FS_EmptySet
  <2> QED BY <2>4
<1>15. \A k \in {k \in DOMAIN e : k >= sep} : sep <= k BY <1>3, <1>8, <1>9
<1> QED BY <1>3, <1>6, <1>7, <1>8, <1>10, <1>11, <1>12, <1>13, <1>14, <1>15 DEF e, sep, Halved

\* How the holdings of a tree follow from those of its leaves.
LEMMA HoldingFacts ==
    ASSUME NEW sum \in Leaves \cup Branches
    PROVE  /\ sum \in Leaves => Sorted(sum) /\ \A k : LeafOf(sum, k) = sum
           /\ sum \in Branches =>
                 /\ \A k \in Key : /\ LeafOf(sum, k) = sum.children[child_index_for_key(sum, k)].sum
                                   /\ child_index_for_key(sum, k) \in 1..Len(sum.children)
                 /\ Sorted(sum) <=>
                       \A i \in 1..Len(sum.children) :
                          \A k \in DOMAIN sum.children[i].sum.entries :
                             child_index_for_key(sum, k) = i
           /\ \A k \in Key : LeafOf(sum, k) \in Leaves
           /\ Holding(sum) \in [Key -> Value \cup {None}]
<1>1. sum \in Leaves => Sorted(sum) /\ \A k : LeafOf(sum, k) = sum
  BY LeafFacts DEF Sorted, LeafOf
<1>2. ASSUME sum \in Branches
      PROVE  /\ \A k \in Key : /\ LeafOf(sum, k) = sum.children[child_index_for_key(sum, k)].sum
                               /\ child_index_for_key(sum, k) \in 1..Len(sum.children)
             /\ Sorted(sum) <=>
                   \A i \in 1..Len(sum.children) :
                      \A k \in DOMAIN sum.children[i].sum.entries :
                         child_index_for_key(sum, k) = i
  <2>1. sum.kind = "branch" /\ DOMAIN sum.children = 1..Len(sum.children)
    BY <1>2, BranchFacts
  <2> QED BY <1>2, <2>1, ChildIndex DEF Sorted, LeafOf
<1>3. ASSUME NEW k \in Key PROVE LeafOf(sum, k) \in Leaves
  <2>1. CASE sum \in Leaves BY <1>1, <2>1
  <2>2. CASE sum \in Branches
    <3>1. \A i \in 1..Len(sum.children) : sum.children[i] \in Children BY <2>2, BranchFacts
    <3> QED BY <1>2, <2>2, <3>1 DEF Children
  <2> QED BY <2>1, <2>2
<1>4. ASSUME NEW k \in Key, NEW leaf \in Leaves
      PROVE  get_value(leaf, k) \in Value \cup {None}
  <2>1. leaf.entries \in [DOMAIN leaf.entries -> Value] BY LeafFacts, EntriesAreFinite
  <2> QED BY <2>1 DEF get_value
<1>5. Holding(sum) \in [Key -> Value \cup {None}]
  <2>1. \A k \in Key : get_value(LeafOf(sum, k), k) \in Value \cup {None} BY <1>3, <1>4
  <2> QED BY <2>1 DEF Holding
<1> QED BY <1>1, <1>2, <1>3, <1>5

\* A branch is sorted if a search for every key in a leaf ends at that leaf.
LEMMA BranchIsSorted ==
    ASSUME NEW b \in Branches,
           \A i \in 1..Len(b.children) : \A k \in DOMAIN b.children[i].sum.entries :
              child_index_for_key(b, k) = i
    PROVE  Sorted(b)
BY BranchFacts DEF Sorted

\* A child that is replaced keeps its key: no search goes elsewhere.
LEMMA RoutesStay ==
    ASSUME NEW b \in Branches, NEW x \in 1..Len(b.children), NEW page \in Page,
           NEW sum \in Leaves, NEW c, c = set_child_at_index(b, x, page, sum)
    PROVE  /\ c \in Branches /\ Len(c.children) = Len(b.children) /\ c.children[x].sum = sum
           /\ \A i \in 1..Len(b.children) : i # x => c.children[i] = b.children[i]
           /\ \A k \in Key : child_index_for_key(c, k) = child_index_for_key(b, k)
<1>1. /\ c \in Branches /\ Len(c.children) = Len(b.children)
      /\ c.children[x] = Child(b.children[x].key, page, sum)
      /\ \A i \in 1..Len(b.children) : i # x => c.children[i] = b.children[i]
  BY ChildIsSet
<1>2. \A i \in 1..Len(b.children) : c.children[i].key = b.children[i].key
  BY <1>1 DEF Child
<1>3. \A i \in 2..Len(b.children) : i \in 1..Len(b.children)
  <2>1. Len(b.children) \in Nat BY BranchFacts, CapacityAssumption
  <2> QED BY <2>1
<1>4. ASSUME NEW k \in Key PROVE child_index_for_key(c, k) = child_index_for_key(b, k)
  <2>1. Passed(c, k) = Passed(b, k) BY <1>1, <1>2, <1>3 DEF Passed
  <2> QED BY <1>1, <2>1, PassedFacts
<1> QED BY <1>1, <1>4 DEF Child

\* The new tree holds what the old one does and the entry.
Takes(sum, key, value, new) ==
    /\ new \in Leaves \cup Branches /\ Sorted(new)
    /\ \A k \in Key : get_value(LeafOf(new, k), k)
                        = IF k = key THEN value ELSE get_value(LeafOf(sum, k), k)

\* An insert into a root that is a leaf adds the entry.
LEMMA RootLeafTakes ==
    ASSUME NEW sum \in Leaves, NEW key \in Key, NEW value \in Value, NEW new,
           Grown(sum, key, value, new)
    PROVE  Takes(sum, key, value, new)
<1> DEFINE e == InsertEntry(sum, key, value)
           sep == SeparatorKey(e)
<1>1. /\ e \in Entries /\ Leaf(e) \in Leaves /\ sep \in Key
      /\ Leaf(LeftEntries(e)) \in Leaves /\ Leaf(RightEntries(e)) \in Leaves
  BY LeavesSplit
<1>2. /\ \A k \in Key : get_value(Leaf(e), k) = IF k = key THEN value ELSE get_value(sum, k)
      /\ \A k \in DOMAIN LeftEntries(e) : k \in DOMAIN e /\ k < sep
      /\ \A k \in DOMAIN RightEntries(e) : k \in DOMAIN e /\ sep <= k
      /\ \A k \in Key : /\ k < sep => get_value(Leaf(LeftEntries(e)), k)
                                        = get_value(Leaf(e), k)
                        /\ sep <= k => get_value(Leaf(RightEntries(e)), k)
                                         = get_value(Leaf(e), k)
      /\ DOMAIN e \in SUBSET Key
  <2>1. Halved(sum, key, value, e, sep) BY EntryIsInserted
  <2> HIDE DEF e, sep
  <2> QED BY <2>1 DEF Halved
<1>3. \A k : LeafOf(sum, k) = sum BY HoldingFacts
<1>4. sum \notin Branches BY LeafFacts, BranchFacts
<1> HIDE DEF e, sep
<1>5. CASE new = Leaf(e)
  <2>1. new \in Leaves /\ Sorted(new) /\ \A k : LeafOf(new, k) = new
    BY <1>1, <1>5, HoldingFacts
  <2> QED BY <1>2, <1>3, <1>5, <2>1 DEF Takes
<1>6. CASE \E left, right \in Page :
              new = new_root(left, Leaf(LeftEntries(e)), sep, right, Leaf(RightEntries(e)))
  <2>1. PICK left \in Page, right \in Page :
           new = new_root(left, Leaf(LeftEntries(e)), sep, right, Leaf(RightEntries(e)))
    BY <1>6
  <2>2. PICK low \in Leaves, high \in Leaves :
           low = Leaf(LeftEntries(e)) /\ high = Leaf(RightEntries(e))
    BY <1>1
  <2>3. new = new_root(left, low, sep, right, high) BY <2>1, <2>2
  <2>4. /\ new \in Branches /\ Len(new.children) = 2
        /\ new.children[1].sum = low /\ new.children[2].sum = high
    BY SMTT(30), <1>1, <2>3, NewRoot
  <2>5. new.children[2].key = sep
    <3>1. new.children = <<Child(0, left, low), Child(sep, right, high)>>
      BY <2>3 DEF new_root, Branch
    <3> QED BY <3>1 DEF Child
  <2>6. ASSUME NEW k \in Key
        PROVE  child_index_for_key(new, k) = IF sep <= k THEN 2 ELSE 1
    <3>1. \A i \in 2..2 : i = 2 OBVIOUS
    <3>2. Passed(new, k) = IF sep <= k THEN {2} ELSE {}
      <4>1. 2 \in 2..2 OBVIOUS
      <4>2. CASE sep <= k BY <2>4, <2>5, <3>1, <4>1, <4>2 DEF Passed
      <4>3. CASE ~(sep <= k) BY <2>4, <2>5, <3>1, <4>1, <4>3 DEF Passed
      <4> QED BY <4>2, <4>3
    <3>3. Cardinality({2}) = 1 /\ Cardinality({}) = 0 BY FS_Singleton, FS_EmptySet
    <3>4. child_index_for_key(new, k) = 1 + Cardinality(Passed(new, k))
      BY <2>4, PassedFacts
    <3>5. CASE sep <= k
      <4>1. Cardinality(Passed(new, k)) = 1 BY <3>2, <3>3, <3>5
      <4> QED BY <3>4, <3>5, <4>1
    <3>6. CASE ~(sep <= k)
      <4>1. Cardinality(Passed(new, k)) = 0 BY <3>2, <3>3, <3>6
      <4> QED BY <3>4, <3>6, <4>1
    <3> QED BY <3>5, <3>6
  <2>7. \A k \in Key : k \in Nat /\ sep \in Nat /\ (~(sep <= k) => k < sep)
    BY <1>1, KeyAssumption
  <2>8. Sorted(new)
    <3>1. ASSUME NEW i \in 1..2, NEW k \in DOMAIN new.children[i].sum.entries
          PROVE  child_index_for_key(new, k) = i
      <4>1. low.entries = LeftEntries(e) /\ high.entries = RightEntries(e)
        BY <2>2 DEF Leaf
      <4>2. CASE i = 1
        <5>1. k \in DOMAIN LeftEntries(e) BY <2>4, <3>1, <4>1, <4>2
        <5>2. k \in Key /\ k < sep BY <1>2, <5>1
        <5>3. ~(sep <= k) BY <2>7, <5>2
        <5> QED BY <2>6, <4>2, <5>2, <5>3
      <4>3. CASE i = 2
        <5>1. k \in DOMAIN RightEntries(e) BY <2>4, <3>1, <4>1, <4>3
        <5>2. k \in Key /\ sep <= k BY <1>2, <5>1
        <5> QED BY <2>6, <4>3, <5>2
      <4> QED BY <4>2, <4>3
    <3> QED BY <2>4, <3>1, HoldingFacts
  <2>9. ASSUME NEW k \in Key PROVE get_value(LeafOf(new, k), k) = get_value(Leaf(e), k)
    <3>1. LeafOf(new, k) = new.children[child_index_for_key(new, k)].sum
      BY <2>4, HoldingFacts
    <3>2. CASE sep <= k
      <4>1. LeafOf(new, k) = high BY <2>4, <2>6, <3>1, <3>2
      <4> QED BY <1>2, <2>2, <3>2, <4>1
    <3>3. CASE ~(sep <= k)
      <4>1. LeafOf(new, k) = low BY <2>4, <2>6, <3>1, <3>3
      <4> QED BY <1>2, <2>2, <2>7, <3>3, <4>1
    <3> QED BY <3>2, <3>3
  <2> QED BY <1>2, <1>3, <2>4, <2>8, <2>9 DEF Takes
<1> QED BY <1>4, <1>5, <1>6 DEF Grown, e, sep
\* The leaf below the branch has room.
Fills(b, x, page, leaf, key, value, whole, new) ==
    /\ whole = Leaf(InsertEntry(leaf, key, value))
    /\ new = set_child_at_index(b, x, page, whole)

\* An insert into a leaf that has room, under a branch, adds the entry.
LEMMA ChildTakes ==
    ASSUME NEW b \in Branches, Sorted(b), NEW key \in Key, NEW value \in Value,
           NEW x \in 1..Len(b.children), x = child_index_for_key(b, key),
           NEW leaf \in Leaves, leaf = b.children[x].sum, NEW page \in Page,
           NEW whole, NEW new, Fills(b, x, page, leaf, key, value, whole, new)
    PROVE  Takes(b, key, value, new)
<1> DEFINE e == InsertEntry(leaf, key, value)
<1>1. Halved(leaf, key, value, e, SeparatorKey(e)) BY EntryIsInserted
<1>2. whole = Leaf(e) /\ whole \in Leaves BY LeavesSplit DEF Fills
<1> HIDE DEF e
<1>3. /\ DOMAIN e = DOMAIN leaf.entries \cup {key} /\ DOMAIN e \in SUBSET Key
      /\ \A k \in Key : get_value(whole, k) = IF k = key THEN value ELSE get_value(leaf, k)
  BY <1>1, <1>2 DEF Halved
<1>4. /\ new \in Branches /\ Len(new.children) = Len(b.children)
      /\ new.children[x].sum = whole
      /\ \A i \in 1..Len(b.children) : i # x => new.children[i] = b.children[i]
      /\ \A k \in Key : child_index_for_key(new, k) = child_index_for_key(b, k)
  BY <1>2, RoutesStay DEF Fills
<1>5. /\ \A k \in Key : /\ LeafOf(b, k) = b.children[child_index_for_key(b, k)].sum
                        /\ child_index_for_key(b, k) \in 1..Len(b.children)
      /\ \A i \in 1..Len(b.children) : \A k \in DOMAIN b.children[i].sum.entries :
            child_index_for_key(b, k) = i
      /\ \A i \in 1..Len(b.children) : DOMAIN b.children[i].sum.entries \in SUBSET Key
  <2>1. \A i \in 1..Len(b.children) : b.children[i] \in Children BY BranchFacts
  <2>2. \A i \in 1..Len(b.children) : DOMAIN b.children[i].sum.entries \in SUBSET Key
    BY <2>1, LeafFacts, EntriesAreFinite DEF Children
  <2> QED BY <2>2, HoldingFacts
<1>6. Sorted(new)
  <2>1. ASSUME NEW i \in 1..Len(b.children), NEW k \in DOMAIN new.children[i].sum.entries
        PROVE  child_index_for_key(new, k) = i
    <3>1. CASE i # x
      <4>1. k \in DOMAIN b.children[i].sum.entries BY <1>4, <2>1, <3>1
      <4> QED BY <1>4, <1>5, <4>1
    <3>2. CASE i = x
      <4>1. k \in DOMAIN e BY <1>2, <1>4, <2>1, <3>2 DEF Leaf
      <4>2. k \in Key /\ (k = key \/ k \in DOMAIN b.children[x].sum.entries)
        BY <1>3, <4>1
      <4>3. child_index_for_key(b, k) = x BY <1>5, <4>2
      <4> QED BY <1>4, <3>2, <4>2, <4>3
    <3> QED BY <3>1, <3>2
  <2>2. Len(new.children) = Len(b.children) BY <1>4
  <2> QED BY SMTT(30), <1>4, <2>1, <2>2, BranchIsSorted
<1>7. ASSUME NEW k \in Key
      PROVE  get_value(LeafOf(new, k), k) = IF k = key THEN value ELSE get_value(LeafOf(b, k), k)
  <2>1. PICK i \in 1..Len(b.children) : i = child_index_for_key(b, k) BY <1>5
  <2>2. LeafOf(new, k) = new.children[i].sum /\ LeafOf(b, k) = b.children[i].sum
    BY SMTT(30), <1>4, <1>5, <2>1, HoldingFacts
  <2>3. CASE i # x BY <1>4, <2>1, <2>2, <2>3
  <2>4. CASE i = x BY <1>3, <1>4, <2>2, <2>4
  <2> QED BY <2>3, <2>4
<1> QED BY <1>4, <1>6, <1>7 DEF Takes

\* The leaf below the branch is split.
Divides(b, x, page, right, leaf, key, value, e, sep, low, high, new) ==
    /\ e = InsertEntry(leaf, key, value) /\ sep = SeparatorKey(e)
    /\ low = Leaf(LeftEntries(e)) /\ high = Leaf(RightEntries(e))
    /\ new = InsertChild(set_child_at_index(b, x, page, low), sep, right, high)

\* An insert that splits a leaf under a branch with room adds the entry.
LEMMA SplitChildTakes ==
    ASSUME NEW b \in Branches, Sorted(b), NEW key \in Key, NEW value \in Value,
           NEW x \in 1..Len(b.children), x = child_index_for_key(b, key),
           NEW leaf \in Leaves, leaf = b.children[x].sum, NEW page \in Page,
           ~fits(leaf), branch_fits(b), NEW right \in Page,
           NEW e, NEW sep, NEW low, NEW high, NEW new,
           Divides(b, x, page, right, leaf, key, value, e, sep, low, high, new)
    PROVE  Takes(b, key, value, new)
<1>1. Halved(leaf, key, value, e, sep) BY EntryIsInserted DEF Divides
<1>2. low \in Leaves /\ high \in Leaves
  <2>1. /\ Leaf(LeftEntries(InsertEntry(leaf, key, value))) \in Leaves
        /\ Leaf(RightEntries(InsertEntry(leaf, key, value))) \in Leaves
    BY LeavesSplit
  <2> QED BY <2>1 DEF Divides
<1>3. /\ DOMAIN e = DOMAIN leaf.entries \cup {key} /\ DOMAIN e \in SUBSET Key
      /\ \A k \in Key : get_value(Leaf(e), k) = IF k = key THEN value ELSE get_value(leaf, k)
      /\ sep \in DOMAIN e /\ sep \in Key
      /\ \A k \in DOMAIN low.entries : k \in DOMAIN e /\ k < sep
      /\ \A k \in DOMAIN high.entries : k \in DOMAIN e /\ sep <= k
      /\ \A k \in Key : /\ k < sep => get_value(low, k) = get_value(Leaf(e), k)
                        /\ sep <= k => get_value(high, k) = get_value(Leaf(e), k)
  <2>1. low = Leaf(LeftEntries(e)) /\ high = Leaf(RightEntries(e)) BY DEF Divides
  <2>2. low.entries = LeftEntries(e) /\ high.entries = RightEntries(e) BY <2>1 DEF Leaf
  <2> QED BY <1>1, <2>1, <2>2 DEF Halved
<1>4. PICK least \in DOMAIN e : least < sep BY <1>1 DEF Halved
<1>5. /\ \A k \in Key : /\ LeafOf(b, k) = b.children[child_index_for_key(b, k)].sum
                        /\ child_index_for_key(b, k) \in 1..Len(b.children)
      /\ \A i \in 1..Len(b.children) : \A k \in DOMAIN b.children[i].sum.entries :
            child_index_for_key(b, k) = i
      /\ \A i \in 1..Len(b.children) : DOMAIN b.children[i].sum.entries \in SUBSET Key
  <2>1. \A i \in 1..Len(b.children) : b.children[i] \in Children BY BranchFacts
  <2>2. \A i \in 1..Len(b.children) : DOMAIN b.children[i].sum.entries \in SUBSET Key
    BY <2>1, LeafFacts, EntriesAreFinite DEF Children
  <2> QED BY <2>2, HoldingFacts
<1>6. \A k \in DOMAIN e : k \in Key /\ child_index_for_key(b, k) = x BY <1>3, <1>5
<1> DEFINE c == set_child_at_index(b, x, page, low)
<1>7. new = InsertChild(c, sep, right, high) BY DEF Divides
<1>8. /\ c \in Branches /\ Len(c.children) = Len(b.children) /\ c.children[x].sum = low
      /\ \A i \in 1..Len(b.children) : i # x => c.children[i] = b.children[i]
      /\ \A k \in Key : child_index_for_key(c, k) = child_index_for_key(b, k)
  BY <1>2, RoutesStay, SMTT(30)
<1> HIDE DEF c
<1>9. branch_fits(c) BY <1>8 DEF branch_fits
<1>10. /\ new \in Branches /\ Len(new.children) = Len(c.children) + 1
       /\ new.children[x + 1] = Child(sep, right, high)
       /\ \A i \in 1..x : new.children[i] = c.children[i]
       /\ \A i \in (x + 1)..Len(c.children) : new.children[i + 1] = c.children[i]
       /\ \A k \in Key : child_index_for_key(new, k)
            = child_index_for_key(c, k) + IF sep <= k THEN 1 ELSE 0
  <2>1. PICK first \in Key, second \in Key :
           /\ second = sep /\ first < second
           /\ child_index_for_key(c, first) = x /\ child_index_for_key(c, second) = x
    BY <1>3, <1>4, <1>6, <1>8
  <2>2. x \in 1..Len(c.children) BY <1>8
  <2>3. new = InsertChild(c, second, right, high) BY <1>7, <2>1
  <2>4. PICK z \in 1..Len(c.children) : z = x BY <2>2
  <2>5. /\ child_index_for_key(c, first) = z /\ child_index_for_key(c, second) = z
        /\ first < second
    BY <2>1, <2>4
  <2>6. c \in Branches /\ high \in Leaves BY <1>2, <1>8
  <2>7. OneMore(c, z, second, right, high, new)
    BY <1>9, <2>3, <2>5, <2>6, SplitRoutes
  <2>8. OneMore(c, x, sep, right, high, new) BY <2>1, <2>4, <2>7
  <2> QED BY <2>8 DEF OneMore
<1>b. new \in Branches BY <1>10
<1>h. new.children[x + 1].sum = high
  <2>1. new.children[x + 1] = Child(sep, right, high) BY <1>10
  <2> QED BY <2>1 DEF Child
<1>l. \A i \in 1..x : new.children[i] = c.children[i] BY <1>10
<1>r. \A i \in (x + 1)..Len(c.children) : new.children[i + 1] = c.children[i] BY <1>10
<1>11. /\ x \in Nat \ {0} /\ Len(b.children) \in Nat /\ x <= Len(b.children)
       /\ \A k \in Key : k \in Nat /\ child_index_for_key(b, k) \in Nat
  <2>1. Len(b.children) \in Nat BY PassedFacts
  <2> QED BY <1>5, <2>1, KeyAssumption
<1>x. x \in 1..x BY <1>11
\* Keys of other children stay where they are, or one place to the right of it.
<1>12. ASSUME NEW k \in Key
       PROVE  /\ child_index_for_key(b, k) < x =>
                    ~(sep <= k) /\ child_index_for_key(new, k) = child_index_for_key(b, k)
              /\ child_index_for_key(b, k) > x =>
                    sep <= k /\ child_index_for_key(new, k) = child_index_for_key(b, k) + 1
              /\ child_index_for_key(b, k) = x =>
                    child_index_for_key(new, k) = IF sep <= k THEN x + 1 ELSE x
  <2>1. PICK r \in Nat : r = child_index_for_key(b, k) BY <1>11
  <2>2. child_index_for_key(new, k) = r + IF sep <= k THEN 1 ELSE 0 BY <1>8, <1>10, <2>1
  <2>3. sep \in Key /\ child_index_for_key(b, sep) = x BY <1>3, <1>6
  <2>4. sep <= k => x <= r BY <2>1, <2>3, RoutesAreOrdered
  <2>5. k <= sep => r <= x BY <2>1, <2>3, RoutesAreOrdered
  <2>6. k \in Nat /\ sep \in Nat BY <1>11, <2>3
  <2> QED BY <1>11, <2>1, <2>2, <2>4, <2>5, <2>6
<1>13. Sorted(new)
  <2> SUFFICES ASSUME NEW i \in DOMAIN new.children, NEW k \in DOMAIN new.children[i].sum.entries
               PROVE  child_index_for_key(new, k) = i
    BY DEF Sorted
  <2>1. i \in 1..Len(new.children) /\ k \in DOMAIN new.children[i].sum.entries
    BY <1>b, BranchFacts
  <2>2. child_index_for_key(new, k) = i
    <3>1. i \in 1..(Len(b.children) + 1) BY <1>8, <1>10, <2>1
    <3>2. CASE i < x
      <4>1. i \in 1..x /\ i \in 1..Len(b.children) /\ i # x BY <1>11, <3>1, <3>2
      <4>2. k \in DOMAIN b.children[i].sum.entries BY <1>8, <1>10, <2>1, <4>1
      <4>3. k \in Key /\ child_index_for_key(b, k) = i BY <1>5, <4>1, <4>2
      <4> QED BY <1>12, <3>2, <4>3
    <3>3. CASE i = x
      <4>1. x \in 1..x BY <1>x
      <4>2. k \in DOMAIN low.entries BY <1>8, <1>10, <2>1, <3>3, <4>1
      <4>3. k \in DOMAIN e /\ k < sep BY <1>3, <4>2
      <4>4. k \in Key /\ child_index_for_key(b, k) = x BY <1>6, <4>3
      <4>5. ~(sep <= k)
        <5>1. k \in Nat /\ sep \in Nat BY <1>3, <1>11, <4>4
        <5> QED BY <4>3, <5>1
      <4> QED BY <1>12, <3>3, <4>4, <4>5
    <3>4. CASE i = x + 1
      <4>1. k \in DOMAIN high.entries BY <1>h, <2>1, <3>4, LeafFacts DEF Leaf
      <4>2. k \in DOMAIN e /\ sep <= k BY <1>3, <4>1
      <4>3. k \in Key /\ child_index_for_key(b, k) = x BY <1>6, <4>2
      <4> QED BY <1>12, <3>4, <4>2, <4>3
    <3>5. CASE i > x + 1
      <4>1. PICK j \in (x + 1)..Len(b.children) : i = j + 1
        <5>1. i - 1 \in (x + 1)..Len(b.children) /\ i = (i - 1) + 1 BY <1>11, <3>1, <3>5
        <5> QED BY <5>1
      <4>2. j \in 1..Len(b.children) /\ j # x /\ j > x BY <1>11, <4>1
      <4>3. j \in (x + 1)..Len(c.children) BY <1>8
      <4>4. new.children[i] = b.children[j] BY <1>8, <1>10, <4>1, <4>2, <4>3
      <4>5. k \in DOMAIN b.children[j].sum.entries BY <2>1, <4>4
      <4>6. k \in Key /\ child_index_for_key(b, k) = j BY <1>5, <4>2, <4>5
      <4> QED BY <1>12, <4>1, <4>2, <4>6
    <3> QED BY <1>11, <3>1, <3>2, <3>3, <3>4, <3>5
  <2> QED BY <2>2
<1>14. ASSUME NEW k \in Key
       PROVE  get_value(LeafOf(new, k), k) = IF k = key THEN value ELSE get_value(LeafOf(b, k), k)
  <2>1. PICK i \in 1..Len(b.children) : i = child_index_for_key(b, k) BY <1>5
  <2>2. LeafOf(new, k) = new.children[child_index_for_key(new, k)].sum
        /\ LeafOf(b, k) = b.children[i].sum
    BY <1>b, <1>5, <2>1, HoldingFacts
  <2>3. CASE i < x
    <3>1. i \in 1..x /\ i # x BY <1>11, <2>3
    <3>2. child_index_for_key(new, k) = i BY <1>12, <2>1, <2>3
    <3>3. LeafOf(new, k) = b.children[i].sum BY <1>8, <1>l, <2>1, <2>2, <3>1, <3>2
    <3>4. k # key BY <2>1, <3>1
    <3> QED BY <2>2, <3>3, <3>4
  <2>4. CASE i > x
    <3>1. i \in (x + 1)..Len(c.children) /\ i # x BY <1>8, <1>11, <2>4
    <3>2. child_index_for_key(new, k) = i + 1 BY <1>12, <2>1, <2>4
    <3>3. LeafOf(new, k) = b.children[i].sum BY <1>8, <1>r, <2>1, <2>2, <3>1, <3>2
    <3>4. k # key BY <2>1, <3>1
    <3> QED BY <2>2, <3>3, <3>4
  <2>5. CASE i = x
    <3>1. get_value(Leaf(e), k) = IF k = key THEN value ELSE get_value(LeafOf(b, k), k)
      BY <1>3, <2>2, <2>5
    <3>2. CASE sep <= k
      <4>2. child_index_for_key(new, k) = x + 1 BY <1>12, <2>1, <2>5, <3>2
      <4>1. LeafOf(new, k) = high BY <1>h, <2>2, <4>2
      <4> QED BY <1>3, <3>1, <3>2, <4>1
    <3>3. CASE ~(sep <= k)
      <4>1. x \in 1..x BY <1>x
      <4>4. child_index_for_key(new, k) = x BY <1>12, <2>1, <2>5, <3>3
      <4>2. LeafOf(new, k) = low BY <1>8, <1>l, <2>2, <4>1, <4>4
      <4>3. k < sep BY <1>3, <1>11, <3>3
      <4> QED BY <1>3, <3>1, <4>2, <4>3
    <3> QED BY <3>2, <3>3
  <2> QED BY <1>11, <2>3, <2>4, <2>5
<1> QED BY <1>10, <1>13, <1>14 DEF Takes

\* Every way an insert can go adds the entry and keeps all others.
LEMMA GrownTakes ==
    ASSUME NEW sum \in Leaves \cup Branches, Sorted(sum), NEW key \in Key, NEW value \in Value,
           NEW new, Grown(sum, key, value, new)
    PROVE  /\ new \in Leaves \cup Branches /\ Sorted(new)
           /\ Holding(new) = [Holding(sum) EXCEPT ![key] = value]
<1>1. Takes(sum, key, value, new)
  <2>1. CASE sum \in Leaves BY <2>1, RootLeafTakes
  <2>2. CASE sum \in Branches
    <3>1. sum \notin Leaves BY <2>2, LeafFacts, BranchFacts
    <3>2. PICK x \in 1..Len(sum.children), page \in Page :
             LET leaf == sum.children[x].sum
                 e == InsertEntry(leaf, key, value)
             IN  /\ x = child_index_for_key(sum, key)
                 /\ \/ new = set_child_at_index(sum, x, page, Leaf(e))
                    \/ /\ ~fits(leaf) /\ branch_fits(sum)
                       /\ \E right \in Page :
                             new = InsertChild(set_child_at_index(sum, x, page,
                                                                  Leaf(LeftEntries(e))),
                                               SeparatorKey(e), right, Leaf(RightEntries(e)))
      BY <3>1 DEF Grown
    <3>3. \A i \in 1..Len(sum.children) : sum.children[i].sum \in Leaves
      BY <2>2, BranchFacts DEF Children
    <3>4. PICK leaf \in Leaves : leaf = sum.children[x].sum BY <3>3
    <3>5. PICK e : e = InsertEntry(leaf, key, value) OBVIOUS
    <3>6. CASE new = set_child_at_index(sum, x, page, Leaf(e))
      <4>1. PICK whole : whole = Leaf(e) OBVIOUS
      <4>2. Fills(sum, x, page, leaf, key, value, whole, new)
        BY <3>5, <3>6, <4>1 DEF Fills
      <4> QED BY <2>2, <3>2, <3>4, <4>2, ChildTakes
    <3>7. CASE /\ ~fits(leaf) /\ branch_fits(sum)
               /\ \E right \in Page :
                     new = InsertChild(set_child_at_index(sum, x, page, Leaf(LeftEntries(e))),
                                       SeparatorKey(e), right, Leaf(RightEntries(e)))
      <4>1. PICK right \in Page :
               new = InsertChild(set_child_at_index(sum, x, page, Leaf(LeftEntries(e))),
                                 SeparatorKey(e), right, Leaf(RightEntries(e)))
        BY <3>7
      <4>2. PICK low, high : low = Leaf(LeftEntries(e)) /\ high = Leaf(RightEntries(e))
        OBVIOUS
      <4>3. Divides(sum, x, page, right, leaf, key, value, e, SeparatorKey(e), low, high, new)
        BY <3>5, <4>1, <4>2 DEF Divides
      <4> QED BY <2>2, <3>2, <3>4, <3>7, <4>3, SplitChildTakes
    <3> QED BY <3>2, <3>4, <3>5, <3>6, <3>7
  <2> QED BY <2>1, <2>2
<1>2. /\ new \in Leaves \cup Branches /\ Sorted(new)
      /\ \A k \in Key : get_value(LeafOf(new, k), k)
                          = IF k = key THEN value ELSE get_value(LeafOf(sum, k), k)
  BY <1>1 DEF Takes
<1>3. Holding(new) = [Holding(sum) EXCEPT ![key] = value] BY <1>2 DEF Holding
<1> QED BY <1>2, <1>3

-----------------------------------------------------------------------------
(* The maps that the history remembers. *)

\* What is read from the pages of a tree is what its checksum says.
LEMMA HeldHolding ==
    ASSUME NEW root, NEW sum, NEW next \in Nat, WellFormed(root, sum, next),
           NEW pages, Held(pages, root, sum)
    PROVE  Contents(pages, root) = Holding(sum)
<1>1. sum \in Leaves \cup Branches BY DEF WellFormed
<1>2. ASSUME NEW key \in Key
      PROVE  pages[LeafPage(pages, root, key)] = LeafOf(sum, key)
  <2>1. pages[root] = sum BY DEF Held
  <2>2. CASE sum \in Leaves
    <3>1. sum.kind # "branch" BY <2>2, LeafFacts
    <3> QED BY <2>1, <2>2, <3>1, HoldingFacts DEF LeafPage
  <2>3. CASE sum \in Branches
    <3>1. PICK i \in 1..Len(sum.children) : i = child_index_for_key(sum, key)
      BY <2>3, ChildIndex
    <3>2. sum.kind = "branch" BY <2>3, BranchFacts
    <3>3. LeafPage(pages, root, key) = sum.children[i].page
      BY <2>1, <3>1, <3>2 DEF LeafPage, child_page_id_for_key
    <3>4. pages[sum.children[i].page] = sum.children[i].sum
      BY <2>3, <3>1, BranchFacts DEF Held
    <3> QED BY <2>3, <3>1, <3>3, <3>4, HoldingFacts
  <2> QED BY <1>1, <2>2, <2>3
<1>3. \A key \in Key : Contents(pages, root)[key] = Holding(sum)[key]
  <2>1. \A key \in Key : Holding(sum)[key] = get_value(LeafOf(sum, key), key) BY DEF Holding
  <2>2. \A key \in Key : Contents(pages, root)[key]
                           = get_value(pages[LeafPage(pages, root, key)], key)
    BY TreeIsRead
  <2> QED BY <1>2, <2>1, <2>2
<1>4. /\ Contents(pages, root) = [key \in Key |-> Contents(pages, root)[key]]
      /\ Holding(sum) = [key \in Key |-> Holding(sum)[key]]
  BY DEF Contents, Holding
<1> QED BY <1>3, <1>4

\* The current tree holds what is stored, the transaction's tree what it would leave.
LEMMA CurrentHolds ==
    ASSUME ContentInv
    PROVE  status = "up" =>
              /\ Contents(file.pages, Current.root_page_id) = stored
              /\ stored = Holding(Current.root_page_checksum)
              /\ Sorted(Current.root_page_checksum)
<1> SUFFICES ASSUME status = "up"
             PROVE  /\ Contents(file.pages, Current.root_page_id) = stored
                    /\ stored = Holding(Current.root_page_checksum)
                    /\ Sorted(Current.root_page_checksum)
  OBVIOUS
<1>1. StoreInv /\ HistoryHolds /\ TreesAreSorted BY DEF ContentInv, DurableInv
<1>2. /\ header \in Headers /\ header.active_slot \in 0..1
      /\ Current = header.commit_slots[header.active_slot]
      /\ Current.next_page_id \in 2..MaxPages /\ SlotOK(Current)
  BY <1>1, CurrentFacts
<1>3. Current.next_page_id \in Nat BY <1>2, StoreAssumption
<1>4. Held(file.pages, Current.root_page_id, Current.root_page_checksum)
  BY <1>1 DEF StoreInv, CurrentIsHeld
<1>5. Contents(file.pages, Current.root_page_id) = Holding(Current.root_page_checksum)
  BY <1>2, <1>3, <1>4, HeldHolding DEF SlotOK
<1>6. header # None BY <1>2, NoHeaderAssumption
<1>7. Sorted(Current.root_page_checksum) BY <1>1, <1>2, <1>6 DEF TreesAreSorted
<1> QED BY <1>1, <1>5, <1>7 DEF HistoryHolds

\* A step that leaves the current tree alone, and the headers.
LEMMA ContentRests ==
    ASSUME ContentInv, DurableInv', UNCHANGED <<synced, status, header, stored>>,
           file'.header = file.header, written'[HEADER_PAGE_ID] = written[HEADER_PAGE_ID],
           \A p \in CurrentTree : written'[p] = written[p] /\ file'.pages[p] = file.pages[p],
           attempted \subseteq attempted',
           writer'.phase # "none" =>
              Sorted(writer'.sum) /\ writer'.holds = Holding(writer'.sum),
           writer'.phase \in {"writing", "syncing", "publishing"} => writer'.holds \in attempted'
    PROVE  ContentInv'
<1>1. TreesAreSorted /\ HistoryHolds /\ HeadersAreKnown BY DEF ContentInv
<1>2. Current' = Current /\ CurrentTree' = CurrentTree
  BY DEF Current, CurrentTree, active_slot
<1>3. TreesAreSorted' BY <1>1 DEF TreesAreSorted
<1>4. HistoryHolds' BY <1>1, <1>2 DEF HistoryHolds
<1>5. HeadersAreKnown' BY <1>1, <1>2 DEF HeadersAreKnown
<1> QED BY <1>3, <1>4, <1>5 DEF ContentInv

\* A step of the transaction alone, or of nobody's but the readers'.
LEMMA ContentStays ==
    ASSUME ContentInv, DurableInv', UNCHANGED <<disk_vars, memory_vars, stored>>,
           attempted \subseteq attempted',
           \/ UNCHANGED writer
           \/ writer'.phase = "none"
           \/ /\ writer'.phase = "open" /\ Sorted(writer'.sum)
              /\ writer'.holds = Holding(writer'.sum)
           \/ /\ writer.phase # "none" /\ writer'.sum = writer.sum
              /\ writer'.holds = writer.holds /\ writer.holds \in attempted'
    PROVE  ContentInv'
<1>1. UNCHANGED <<file, synced, written, status, header>> BY DEF disk_vars, memory_vars
<1>2. /\ writer.phase # "none" => Sorted(writer.sum) /\ writer.holds = Holding(writer.sum)
      /\ writer.phase \in {"writing", "syncing", "publishing"} => writer.holds \in attempted
  BY DEF ContentInv, TreesAreSorted, HistoryHolds
<1>3. writer'.phase # "none" => Sorted(writer'.sum) /\ writer'.holds = Holding(writer'.sum)
  BY <1>2
<1>4. writer'.phase \in {"writing", "syncing", "publishing"} => writer'.holds \in attempted'
  BY <1>2
<1> QED BY <1>1, <1>3, <1>4, ContentRests

\* An insert puts one entry into the map of the transaction's tree.
LEMMA InsertHolds ==
    ASSUME ContentInv, PreemptedBegin = FALSE, DurableInv', NEW key \in Key, NEW value \in Value,
           insert(key, value)
    PROVE  /\ ContentInv'
           /\ writer'.holds = [writer.holds EXCEPT ![key] = value]
           /\ writer.phase = "open" /\ writer'.phase = "open"
           /\ UNCHANGED <<status, reader, history_vars>>
<1>1. writer.phase = "open" BY DEF insert, WriterIn
<1>2. StoreInv /\ StoreInv' BY DEF ContentInv, DurableInv
<1>3. \E old, a, dirty, root : Modify(old, a, dirty, root)
  <2>1. CASE insert_root_leaf(key, value) BY <2>1 DEF insert_root_leaf
  <2>2. CASE insert_below_branch(key, value)
    <3>1. PICK content, leaf : insert_below(content, leaf, key, value)
      BY <2>2 DEF insert_below_branch
    <3> QED BY <3>1 DEF insert_below
  <2> QED BY <2>1, <2>2 DEF insert
<1>4. PICK old, a, dirty, root : Modify(old, a, dirty, root) BY <1>3
<1>5. UNCHANGED <<synced, written, status, header, reader, stored, attempted, acked>>
  BY <1>4 DEF Modify, history_vars
<1>6. PICK length : file' = [file EXCEPT !.length = length] BY <1>4 DEF Modify
<1>7. file'.pages = file.pages /\ file'.header = file.header
  <2>1. file = [header |-> file.header, length |-> file.length, pages |-> file.pages]
    BY <1>2, Types DEF StoreInv
  <2> QED BY <1>6, <2>1
<1>8. /\ writer'.phase = "open" /\ writer'.root = root
      /\ writer'.holds = Contents(Over(writer'.dirty, file'.pages), writer'.root)
  <2>1. writer \in [phase : {"none", "open", "writing", "syncing", "publishing"},
                   tx : 0..MaxTx, root : Page \cup {0}, sum : Content,
                   dirty : [DOMAIN writer.dirty -> Content],
                   freed : Seq(Page), todo : SUBSET Page, holds : Maps]
    BY <1>2 DEF StoreInv, TypeOK
  <2>2. PICK d : d = Over(dirty, writer.dirty) OBVIOUS
  <2>3. PICK holds : holds = Contents(Over(d, file.pages), root) OBVIOUS
  <2>4. PICK f, s : writer' = [writer EXCEPT !.dirty = d, !.freed = f, !.root = root,
                                             !.sum = s, !.holds = holds]
    BY <1>4, <2>2, <2>3 DEF Modify
  <2>5. writer'.phase = writer.phase /\ writer'.root = root /\ writer'.dirty = d
        /\ writer'.holds = holds
    BY <2>1, <2>4
  <2> QED BY <1>1, <1>7, <2>3, <2>5
<1>9. next_page_id \in Nat /\ next_page_id' \in Nat
  <2>1. next_page_id \in 2..MaxPages /\ next_page_id' \in 2..MaxPages
    BY <1>2 DEF StoreInv, TypeOK
  <2> QED BY <2>1, StoreAssumption
<1>10. /\ WellFormed(writer'.root, writer'.sum, next_page_id')
       /\ Held(Over(writer'.dirty, file'.pages), writer'.root, writer'.sum)
  BY <1>2, <1>8 DEF StoreInv, DraftIsHeld
<1>11. writer'.holds = Holding(writer'.sum)
  <2>1. PICK r, s, next, pages :
           r = writer'.root /\ s = writer'.sum /\ next = next_page_id'
           /\ pages = Over(writer'.dirty, file'.pages)
    OBVIOUS
  <2>2. Contents(pages, r) = Holding(s) BY <1>9, <1>10, <2>1, HeldHolding
  <2> QED BY <1>8, <2>1, <2>2
<1>12. /\ writer.sum \in Leaves \cup Branches /\ Sorted(writer.sum)
       /\ writer.holds = Holding(writer.sum)
  <2>1. WellFormed(writer.root, writer.sum, next_page_id)
    BY <1>1, <1>2 DEF StoreInv, DraftIsHeld
  <2> QED BY <1>1, <2>1 DEF WellFormed, ContentInv, TreesAreSorted, HistoryHolds
<1>13. Grown(writer.sum, key, value, writer'.sum) BY <1>2, Inserted
<1>14. Sorted(writer'.sum) /\ Holding(writer'.sum) = [Holding(writer.sum) EXCEPT ![key] = value]
  <2>1. PICK s : s = writer'.sum OBVIOUS
  <2>2. Sorted(s) /\ Holding(s) = [Holding(writer.sum) EXCEPT ![key] = value]
    BY <1>12, <1>13, <2>1, GrownTakes
  <2> QED BY <2>1, <2>2
<1>15. ContentInv' BY <1>5, <1>7, <1>8, <1>11, <1>14, ContentRests
<1> QED BY <1>1, <1>5, <1>8, <1>11, <1>12, <1>14, <1>15 DEF history_vars

\* begin_write takes the tree that is stored, and the map with it.
LEMMA WriteHolds ==
    ASSUME ContentInv, DurableInv', begin_write
    PROVE  /\ ContentInv'
           /\ writer.phase = "none" /\ writer'.phase = "open" /\ writer'.holds = stored
           /\ status = "up" /\ UNCHANGED <<status, reader, history_vars>>
<1>1. /\ status = "up" /\ writer.phase = "none"
      /\ UNCHANGED <<disk_vars, memory_vars, reader, history_vars>>
  BY DEF begin_write, WriterIn
<1>2. PICK tx, holds :
         /\ holds = Contents(file.pages, Current.root_page_id)
         /\ writer' = [NoWriter EXCEPT !.phase = "open", !.tx = tx,
                                       !.root = Current.root_page_id,
                                       !.sum = Current.root_page_checksum, !.holds = holds]
  BY DEF begin_write, Current
<1>3. /\ writer'.phase = "open" /\ writer'.sum = Current.root_page_checksum
      /\ writer'.holds = holds
  BY <1>2, NoWriterType
<1>4. holds = stored /\ stored = Holding(Current.root_page_checksum)
      /\ Sorted(Current.root_page_checksum)
  BY <1>1, <1>2, CurrentHolds
<1>5. UNCHANGED <<stored, attempted>> BY <1>1 DEF history_vars
<1>6. ContentInv' BY <1>1, <1>3, <1>4, <1>5, ContentStays
<1> QED BY <1>1, <1>3, <1>4, <1>6 DEF memory_vars

\* A transaction that fails or is dropped leaves no trace.
LEMMA AbandonHolds ==
    ASSUME ContentInv, DurableInv', abandon \/ commit_fails
    PROVE  /\ ContentInv'
           /\ writer.phase # "none" /\ writer'.phase = "none"
           /\ UNCHANGED <<reader, history_vars>>
<1>1. /\ writer.phase # "none" /\ writer' = NoWriter
      /\ UNCHANGED <<disk_vars, memory_vars, reader, history_vars>>
  BY DEF abandon, commit_fails, WriterIn
<1>2. writer'.phase = "none" BY <1>1, NoWriterType
<1>3. UNCHANGED <<stored, attempted>> BY <1>1 DEF history_vars
<1>4. ContentInv' BY <1>1, <1>2, <1>3, ContentStays
<1> QED BY <1>1, <1>2, <1>4

\* A commit that starts is in doubt from then on.
LEMMA CommitHolds ==
    ASSUME ContentInv, DurableInv', commit
    PROVE  /\ ContentInv'
           /\ writer.phase = "open" /\ writer'.phase = "writing"
           /\ writer'.holds = writer.holds /\ attempted' = attempted \cup {writer.holds}
           /\ UNCHANGED <<reader, stored, acked>>
<1>1. /\ writer.phase = "open" /\ attempted' = attempted \cup {writer.holds}
      /\ writer' = [writer EXCEPT !.phase = "writing", !.todo = DOMAIN writer.dirty]
      /\ UNCHANGED <<disk_vars, memory_vars, reader, stored, acked>>
  BY DEF commit, WriterIn
<1>2. writer'.phase = "writing" /\ writer'.sum = writer.sum /\ writer'.holds = writer.holds
  <2>1. writer \in [phase : {"none", "open", "writing", "syncing", "publishing"},
                   tx : 0..MaxTx, root : Page \cup {0}, sum : Content,
                   dirty : [DOMAIN writer.dirty -> Content],
                   freed : Seq(Page), todo : SUBSET Page, holds : Maps]
    BY DEF ContentInv, DurableInv, StoreInv, TypeOK
  <2> QED BY <1>1, <2>1
<1>3. ContentInv' BY <1>1, <1>2, ContentStays
<1> QED BY <1>1, <1>2, <1>3

\* What a step of commit keeps of the transaction.
LEMMA CommitGoesOn ==
    ASSUME TypeOK, NEW phase, NEW todo,
           writer' = [writer EXCEPT !.phase = phase, !.todo = todo]
    PROVE  /\ writer'.phase = phase /\ writer'.root = writer.root /\ writer'.sum = writer.sum
           /\ writer'.tx = writer.tx /\ writer'.holds = writer.holds
<1>1. writer \in [phase : {"none", "open", "writing", "syncing", "publishing"},
                  tx : 0..MaxTx, root : Page \cup {0}, sum : Content,
                  dirty : [DOMAIN writer.dirty -> Content],
                  freed : Seq(Page), todo : SUBSET Page, holds : Maps]
  BY DEF TypeOK
<1> QED BY <1>1

\* The writer's pages are not those of the current tree.
LEMMA PageHolds ==
    ASSUME ContentInv, DurableInv', NEW p \in writer.todo, write_page(p)
    PROVE  /\ ContentInv'
           /\ writer.phase = "writing" /\ writer'.phase = "writing"
           /\ writer'.holds = writer.holds
           /\ UNCHANGED <<reader, history_vars>>
<1>1. PICK d : d = writer.dirty[p] OBVIOUS
<1>2. /\ writer.phase = "writing" /\ file' = [file EXCEPT !.pages[p] = d]
      /\ written' = [written EXCEPT ![p] = written[p] \cup {d}]
      /\ writer' = [writer EXCEPT !.todo = writer.todo \ {p}]
      /\ UNCHANGED <<synced, status, header, reader, history_vars>>
  BY <1>1 DEF write_page, WriterIn, memory_vars
<1>3. StoreInv /\ TypeOK BY DEF ContentInv, DurableInv, StoreInv
<1>4. p \in Page /\ p \notin CurrentTree
  BY <1>3 DEF StoreInv, TypeOK, DirtyIsWritten, PagesAreApart, Dirty
<1>5. file'.header = file.header /\ \A q : q # p => file'.pages[q] = file.pages[q]
  <2>1. file = [header |-> file.header, length |-> file.length, pages |-> file.pages]
        /\ file.pages \in [Page -> Content]
    BY <1>3, Types
  <2>2. file' = [header |-> file.header, length |-> file.length,
                 pages |-> [file.pages EXCEPT ![p] = d]]
    BY <1>2, <2>1
  <2> QED BY <2>1, <2>2
<1>6. \A q : q # p => written'[q] = written[q] BY <1>2
<1>7. HEADER_PAGE_ID # p BY <1>4 DEF HEADER_PAGE_ID, Page
<1>8. /\ writer'.phase = "writing" /\ writer'.sum = writer.sum /\ writer'.holds = writer.holds
  <2>1. writer \in [phase : {"none", "open", "writing", "syncing", "publishing"},
                   tx : 0..MaxTx, root : Page \cup {0}, sum : Content,
                   dirty : [DOMAIN writer.dirty -> Content],
                   freed : Seq(Page), todo : SUBSET Page, holds : Maps]
    BY <1>3 DEF TypeOK
  <2> QED BY <1>2, <2>1
<1>9. UNCHANGED <<stored, attempted>> BY <1>2 DEF history_vars
<1>10. /\ Sorted(writer.sum) /\ writer.holds = Holding(writer.sum)
       /\ writer.holds \in attempted
  BY <1>2 DEF ContentInv, TreesAreSorted, HistoryHolds
<1>11. ContentInv' BY <1>2, <1>4, <1>5, <1>6, <1>7, <1>8, <1>9, <1>10, ContentRests
<1> QED BY <1>2, <1>8, <1>11

\* The header offers the tree of a commit in doubt first, and the current one after it.
LEMMA HeaderHolds ==
    ASSUME ContentInv, DurableInv', write_header
    PROVE  /\ ContentInv'
           /\ writer.phase = "writing" /\ writer'.phase = "syncing"
           /\ writer'.holds = writer.holds
           /\ UNCHANGED <<reader, history_vars>>
<1>1. PICK h : h = NewHeader OBVIOUS
<1>2. /\ writer.phase = "writing" /\ file' = [file EXCEPT !.header = h]
      /\ written' = [written EXCEPT ![HEADER_PAGE_ID] = written[HEADER_PAGE_ID] \cup {h}]
      /\ writer' = [writer EXCEPT !.phase = "syncing", !.todo = writer.todo]
      /\ UNCHANGED <<synced, status, header, reader, history_vars>>
  <2>1. writer.todo = {} /\ writer' = [writer EXCEPT !.phase = "syncing"] BY DEF write_header
  <2>2. writer \in [phase : {"none", "open", "writing", "syncing", "publishing"},
                   tx : 0..MaxTx, root : Page \cup {0}, sum : Content,
                   dirty : [DOMAIN writer.dirty -> Content],
                   freed : Seq(Page), todo : SUBSET Page, holds : Maps]
    BY DEF ContentInv, DurableInv, StoreInv, TypeOK
  <2>3. writer' = [writer EXCEPT !.phase = "syncing", !.todo = writer.todo] BY <2>1, <2>2
  <2> QED BY <1>1, <2>3 DEF write_header, WriterIn, memory_vars
<1>3. StoreInv /\ TypeOK BY DEF ContentInv, DurableInv, StoreInv
<1>4. file'.header = h /\ file'.pages = file.pages
  <2>1. file = [header |-> file.header, length |-> file.length, pages |-> file.pages]
    BY <1>3, Types
  <2> QED BY <1>2, <2>1
<1>5. writer'.phase = "syncing" /\ writer'.sum = writer.sum /\ writer'.holds = writer.holds
  BY <1>2, <1>3, CommitGoesOn
<1>6. /\ h # None /\ header.active_slot \in 0..1 /\ h \in Headers
      /\ inactive_slot(h) = Current
      /\ active_slot(h).root_page_checksum = writer.sum
  BY <1>1, <1>2, <1>3, NewHeaderFacts, NewHeaderSlots DEF CommitSlot
<1>7. /\ TreesAreSorted /\ HistoryHolds /\ HeadersAreKnown
      /\ Sorted(writer.sum) /\ writer.holds = Holding(writer.sum)
      /\ writer.holds \in attempted
  BY <1>2 DEF ContentInv, TreesAreSorted, HistoryHolds
<1>8. UNCHANGED <<stored, attempted>> BY <1>2 DEF history_vars
<1>9. /\ \A p : p # HEADER_PAGE_ID => written'[p] = written[p]
      /\ \A x \in written'[HEADER_PAGE_ID] : x \in written[HEADER_PAGE_ID] \/ x = h
  BY <1>2
<1>10. Current' = Current /\ CurrentTree' = CurrentTree
  BY <1>2 DEF Current, CurrentTree, active_slot
<1>11. status = "up" => \A p \in CurrentTree : p # HEADER_PAGE_ID
  BY <1>3, CurrentFacts DEF Page, HEADER_PAGE_ID
<1>12. \A s \in 0..1 : Sorted(h.commit_slots[s].root_page_checksum)
  <2>1. header.active_slot \in 0..1 /\ header # None /\ h.active_slot \in 0..1
    BY <1>3, <1>6, CurrentFacts, NoHeaderAssumption DEF Headers
  <2>2. Sorted(active_slot(h).root_page_checksum) BY <1>6, <1>7
  <2>3. Sorted(inactive_slot(h).root_page_checksum)
    <3>1. Sorted(Current.root_page_checksum)
      BY <1>7, <2>1 DEF TreesAreSorted, Current, active_slot
    <3> QED BY <1>6, <3>1
  <2>4. ASSUME NEW s \in 0..1 PROVE s = h.active_slot \/ s = 1 - h.active_slot BY <2>1
  <2> QED BY <2>2, <2>3, <2>4 DEF active_slot, inactive_slot
<1>13. TreesAreSorted' BY <1>2, <1>4, <1>5, <1>7, <1>9, <1>12 DEF TreesAreSorted
<1>14. HistoryHolds' BY <1>2, <1>5, <1>7, <1>8, <1>10 DEF HistoryHolds
<1>15. HeadersAreKnown'
  <2> SUFFICES ASSUME status = "up", NEW x \in ({synced.header} \cup written'[HEADER_PAGE_ID]) \ {None}
               PROVE  \/ /\ Current = active_slot(x)
                         /\ \/ \A p \in CurrentTree : written'[p] = {} /\ synced.pages[p] = file'.pages[p]
                            \/ inactive_slot(x) = active_slot(x)
                      \/ /\ Current = inactive_slot(x)
                         /\ Holding(active_slot(x).root_page_checksum) \in attempted
    BY <1>2, <1>8, <1>10 DEF HeadersAreKnown
  <2>1. CASE x = h
    BY <1>6, <1>7, <2>1
  <2>2. CASE x # h
    <3>1. x \in ({synced.header} \cup written[HEADER_PAGE_ID]) \ {None} BY <1>9, <2>2
    <3>2. \/ /\ Current = active_slot(x)
             /\ \/ \A p \in CurrentTree : written[p] = {} /\ synced.pages[p] = file.pages[p]
                \/ inactive_slot(x) = active_slot(x)
          \/ /\ Current = inactive_slot(x)
             /\ Holding(active_slot(x).root_page_checksum) \in attempted
      BY <1>7, <3>1 DEF HeadersAreKnown
    <3> QED BY <1>4, <1>9, <1>11, <3>2
  <2> QED BY <2>1, <2>2
<1>16. ContentInv' BY <1>13, <1>14, <1>15 DEF ContentInv
<1> QED BY <1>2, <1>5, <1>16

\* The sync changes no map.
LEMMA SyncHolds ==
    ASSUME ContentInv, DurableInv', sync_data
    PROVE  /\ ContentInv'
           /\ writer.phase = "syncing" /\ writer'.phase = "publishing"
           /\ writer'.holds = writer.holds
           /\ UNCHANGED <<reader, history_vars>>
<1>1. /\ writer.phase = "syncing" /\ synced' = file /\ written' = NothingWritten
      /\ writer' = [writer EXCEPT !.phase = "publishing", !.todo = writer.todo]
      /\ UNCHANGED <<file, status, header, reader, history_vars>>
  <2>1. writer' = [writer EXCEPT !.phase = "publishing"] BY DEF sync_data
  <2>2. writer \in [phase : {"none", "open", "writing", "syncing", "publishing"},
                   tx : 0..MaxTx, root : Page \cup {0}, sum : Content,
                   dirty : [DOMAIN writer.dirty -> Content],
                   freed : Seq(Page), todo : SUBSET Page, holds : Maps]
    BY DEF ContentInv, DurableInv, StoreInv, TypeOK
  <2>3. writer' = [writer EXCEPT !.phase = "publishing", !.todo = writer.todo] BY <2>1, <2>2
  <2> QED BY <2>3 DEF sync_data, WriterIn, memory_vars
<1>2. StoreInv /\ TypeOK BY DEF ContentInv, DurableInv, StoreInv
<1>3. writer'.phase = "publishing" /\ writer'.sum = writer.sum /\ writer'.holds = writer.holds
  BY <1>1, <1>2, CommitGoesOn
<1>4. file.header = NewHeader BY <1>1 DEF ContentInv, DurableInv, DiskIsAhead
<1>5. /\ NewHeader # None /\ inactive_slot(NewHeader) = Current
      /\ active_slot(NewHeader).root_page_checksum = writer.sum
  BY <1>1, <1>2, NewHeaderFacts, NewHeaderSlots DEF CommitSlot
<1>6. /\ TreesAreSorted /\ HistoryHolds
      /\ Sorted(writer.sum) /\ writer.holds = Holding(writer.sum)
      /\ writer.holds \in attempted
  BY <1>1 DEF ContentInv, TreesAreSorted, HistoryHolds
<1>7. UNCHANGED <<stored, attempted>> BY <1>1 DEF history_vars
<1>8. written'[HEADER_PAGE_ID] = {} BY <1>1 DEF NothingWritten
<1>9. Current' = Current BY <1>1 DEF Current
<1>10. TreesAreSorted' BY <1>1, <1>3, <1>6, <1>8 DEF TreesAreSorted
<1>11. HistoryHolds' BY <1>1, <1>3, <1>6, <1>7, <1>9 DEF HistoryHolds
<1>12. HeadersAreKnown' BY <1>1, <1>4, <1>5, <1>6, <1>7, <1>8, <1>9 DEF HeadersAreKnown
<1>13. ContentInv' BY <1>10, <1>11, <1>12 DEF ContentInv
<1> QED BY <1>1, <1>3, <1>13

\* Commit returns: the transaction's map is stored, and no commit is in doubt.
LEMMA PublishHolds ==
    ASSUME ContentInv, DurableInv', publish
    PROVE  /\ ContentInv'
           /\ writer.phase # "none" /\ writer'.phase = "none"
           /\ writer.holds \in attempted /\ stored' = writer.holds
           /\ attempted' = {} /\ acked' = TRUE /\ UNCHANGED reader
<1>1. /\ writer.phase = "publishing" /\ header' = NewHeader /\ writer' = NoWriter
      /\ stored' = Contents(file.pages, writer.root) /\ attempted' = {} /\ acked' = TRUE
      /\ UNCHANGED <<file, synced, written, status, reader>>
  BY DEF publish, WriterIn, disk_vars
<1>2. StoreInv BY DEF ContentInv, DurableInv
<1>3. /\ file.header = NewHeader /\ synced = file
      /\ \A p \in Page \cup {HEADER_PAGE_ID} : written[p] = {}
  BY <1>1 DEF ContentInv, DurableInv, DiskIsAhead
<1>4. /\ status = "up" /\ WellFormed(writer.root, writer.sum, next_page_id)
      /\ Held(Over(writer.dirty, file.pages), writer.root, writer.sum)
      /\ \A p \in Draft : p \in Page
  BY <1>1, <1>2, DraftFacts
<1>5. Over(writer.dirty, file.pages) = file.pages
  <2>1. \A p \in Dirty : file.pages[p] = writer.dirty[p]
    BY <1>1, <1>2 DEF StoreInv, DirtyIsWritten
  <2>2. file.pages \in [Page -> Content] /\ Dirty \in SUBSET Page BY <1>2, Types DEF StoreInv
  <2> QED BY <2>1, <2>2 DEF Over, Dirty
<1>6. next_page_id \in Nat BY <1>2, Types DEF StoreInv
<1>7. stored' = Holding(writer.sum)
  <2>1. Held(file.pages, writer.root, writer.sum) BY <1>4, <1>5
  <2>2. Contents(file.pages, writer.root) = Holding(writer.sum)
    BY <1>4, <1>6, <2>1, HeldHolding
  <2> QED BY <1>1, <2>2
<1>8. /\ TreesAreSorted /\ writer.holds = Holding(writer.sum) /\ writer.holds \in attempted
  BY <1>1 DEF ContentInv, HistoryHolds
<1>9. /\ NewHeader # None
      /\ active_slot(NewHeader).root_page_checksum = writer.sum
      /\ active_slot(NewHeader).root_page_id = writer.root
  BY <1>1, <1>2, NewHeaderFacts, NewHeaderSlots DEF CommitSlot
<1>10. /\ Current' = active_slot(NewHeader) /\ CurrentTree' = Draft
  BY <1>1, <1>9 DEF Current, CurrentTree, Draft
<1>11. writer'.phase = "none" BY <1>1, NoWriterType
<1>12. written[HEADER_PAGE_ID] = {} BY <1>3
<1>13. TreesAreSorted' BY <1>1, <1>3, <1>8, <1>11 DEF TreesAreSorted
<1>14. HistoryHolds' BY <1>1, <1>4, <1>7, <1>9, <1>10, <1>11 DEF HistoryHolds
<1>15. HeadersAreKnown' BY <1>1, <1>3, <1>4, <1>10, <1>12 DEF HeadersAreKnown
<1>16. ContentInv' BY <1>13, <1>14, <1>15 DEF ContentInv
<1> QED BY <1>1, <1>7, <1>8, <1>11, <1>16

-----------------------------------------------------------------------------
(* What recovery comes back to. *)

\* A tree no write is in doubt about is there after a crash.
LEMMA WholeTreeStays ==
    ASSUME DurableInv, LengthFirst, status = "up", NEW image \in Images,
           \A p \in CurrentTree : written[p] = {} /\ synced.pages[p] = file.pages[p]
    PROVE  Held(image.pages, Current.root_page_id, Current.root_page_checksum)
<1>1. /\ file.length \in Nat
      /\ \A p \in Page : p < file.length /\ written[p] = {} => image.pages[p] = synced.pages[p]
  BY ImageIsLong
<1>2. StoreInv /\ next_page_id <= file.length BY DEF DurableInv, FileIsLong
<1>3. next_page_id \in Nat BY <1>2, Types DEF StoreInv
<1>4. \A p \in CurrentTree : p \in Page /\ p < next_page_id BY <1>2, CurrentFacts
<1>5. \A p \in Page : p < next_page_id => p < file.length BY <1>1, <1>2, <1>3 DEF Page
<1>6. \A p \in CurrentTree : image.pages[p] = file.pages[p] BY <1>1, <1>4, <1>5
<1>7. /\ Held(file.pages, Current.root_page_id, Current.root_page_checksum)
      /\ SlotOK(Current) /\ Current.next_page_id \in Nat
  BY <1>2, CurrentFacts, StoreAssumption DEF StoreInv, CurrentIsHeld
<1> QED BY <1>6, <1>7, TreeStays DEF SlotOK, CurrentTree

\* Recovery takes the active slot, or the other one if the tree of the first is not there.
LEMMA RecoveryTakes ==
    ASSUME NEW image \in Files, image.header \in Headers,
           \A s \in 0..1 : /\ SlotOK(image.header.commit_slots[s])
                           /\ image.header.commit_slots[s].next_page_id <= image.length,
           recover_header(image).status = "up"
    PROVE  LET h == image.header
               taken == recover_header(image).header
           IN  \/ taken = h
               \/ /\ active_slot(taken) = inactive_slot(h)
                  /\ ~Held(image.pages, active_slot(h).root_page_id,
                           active_slot(h).root_page_checksum)
<1> DEFINE h == image.header
           other == switch_to_inactive_slot(h)
           active == verify_pages(image, active_slot(h))
           inactive == verify_pages(image, inactive_slot(h))
           outcome == recover_header(image)
<1>1. /\ h = [active_slot |-> h.active_slot, commit_slots |-> h.commit_slots]
      /\ h.active_slot \in 0..1 /\ h.commit_slots \in [0..1 -> Slots]
  BY DEF Headers, Slots
<1>2. MaxPages \in Nat BY StoreAssumption
<1>3. \A s \in 0..1 : /\ SlotOK(h.commit_slots[s]) /\ h.commit_slots[s].next_page_id \in Nat
                      /\ h.commit_slots[s].next_page_id <= image.length
  BY <1>1, <1>2 DEF Slots
<1> HIDE DEF h
<1>4. other = [active_slot |-> 1 - h.active_slot, commit_slots |-> h.commit_slots]
  BY <1>1 DEF switch_to_inactive_slot
<1>5. active_slot(other) = inactive_slot(h) BY <1>4 DEF active_slot, inactive_slot
<1> HIDE DEF other
<1>6. PICK slot : slot = active_slot(h) OBVIOUS
<1>7. SlotOK(slot) /\ slot.next_page_id \in Nat /\ slot.next_page_id <= image.length
  BY <1>1, <1>3, <1>6 DEF active_slot
<1>8. /\ active \in {"ok", "corrupt"}
      /\ Held(image.pages, slot.root_page_id, slot.root_page_checksum) => active = "ok"
  BY <1>6, <1>7, LongFileIsVerified
<1>9. outcome = CASE active = "ok" -> [status |-> "up", header |-> h]
                  [] active # "ok" /\ active # "corrupt" -> [status |-> active, header |-> h]
                  [] active = "corrupt" /\ inactive = "ok" -> [status |-> "up", header |-> other]
                  [] OTHER -> [status |-> inactive, header |-> h]
  BY DEF recover_header, h, other
<1> HIDE DEF active, inactive
<1>10. outcome.status = "up" OBVIOUS
<1> HIDE DEF outcome
<1>11. outcome.header = h \/ (outcome.header = other /\ active = "corrupt")
  <2>1. CASE active = "ok"
    <3>1. outcome = [status |-> "up", header |-> h] BY <1>9, <2>1
    <3> QED BY <3>1
  <2>2. CASE active = "corrupt" /\ inactive = "ok"
    <3>1. outcome = [status |-> "up", header |-> other] BY <1>9, <2>2
    <3> QED BY <2>2, <3>1
  <2>3. CASE active = "corrupt" /\ inactive # "ok"
    <3>1. outcome = [status |-> inactive, header |-> h] BY <1>9, <2>3
    <3> QED BY <3>1
  <2> QED BY <1>8, <2>1, <2>2, <2>3
<1> QED BY <1>5, <1>6, <1>8, <1>11 DEF outcome, h

\* After a crash the store holds what it held or what a commit in doubt would have left,
\* or it is lost; not after the first commit that has returned.
LEMMA CrashHolds ==
    ASSUME ContentInv, LengthFirst, DurableInv', crash
    PROVE  /\ ContentInv'
           /\ stored' \in {stored} \cup attempted \cup (IF acked THEN {} ELSE {None})
           /\ writer'.phase = "none" /\ reader' = [r \in Reader |-> NoReader]
           /\ UNCHANGED <<attempted, acked>>
<1>1. PICK image \in Images : open_existing(image) BY DEF crash
<1>2. /\ status = "up" /\ writer'.phase = "none" /\ reader' = [r \in Reader |-> NoReader]
      /\ UNCHANGED <<attempted, acked>>
  BY NoWriterType DEF crash
<1>3. DurableInv /\ StoreInv /\ FileIsLong /\ TreesAreSorted /\ HistoryHolds /\ HeadersAreKnown
  BY DEF ContentInv, DurableInv
<1>4. /\ image \in Files
      /\ image.header # None =>
            image.header \in Headers /\ \A s \in 0..1 : SlotOK(image.header.commit_slots[s])
  BY <1>3, ImageFacts
<1>5. /\ image.length = file.length
      /\ image.header \in {synced.header} \cup written[HEADER_PAGE_ID]
  BY <1>3, ImageIsLong
<1> DEFINE outcome == IF image.header = None
                      THEN [status |-> "no header", header |-> header]
                      ELSE recover_header(image)
           slot == active_slot(outcome.header)
<1>6. /\ file' = image /\ synced' = image /\ written' = NothingWritten
      /\ status' = outcome.status /\ header' = outcome.header
      /\ stored' = IF outcome.status = "up" THEN Contents(image.pages, slot.root_page_id)
                   ELSE None
  BY <1>1 DEF open_existing
<1>7. Current' = slot BY <1>6 DEF Current
<1>8. image.header # None =>
         /\ outcome = recover_header(image)
         /\ outcome.header.commit_slots = image.header.commit_slots
         /\ \A s \in 0..1 : image.header.commit_slots[s].next_page_id <= image.length
  <2> SUFFICES ASSUME image.header # None
               PROVE  /\ outcome = recover_header(image)
                      /\ outcome.header.commit_slots = image.header.commit_slots
                      /\ \A s \in 0..1 : image.header.commit_slots[s].next_page_id <= image.length
    OBVIOUS
  <2>1. outcome = recover_header(image) OBVIOUS
  <2>2. \A s \in 0..1 : image.header.commit_slots[s].next_page_id <= image.length
    BY <1>3, <1>5 DEF FileIsLong
  <2> HIDE DEF outcome
  <2> QED BY <1>4, <2>1, <2>2, RecoveryFinds
<1>9. image.header = None => outcome.header = header /\ outcome.status = "no header" OBVIOUS
<1> HIDE DEF outcome
<1>10. written'[HEADER_PAGE_ID] = {} /\ \A p \in Page : written'[p] = {}
  BY <1>6 DEF NothingWritten
<1>11. header # None BY <1>3, CurrentFacts, NoHeaderAssumption
<1>12. TreesAreSorted'
  <2>1. \A s \in 0..1 : Sorted(outcome.header.commit_slots[s].root_page_checksum)
    BY <1>3, <1>5, <1>8, <1>9, <1>11 DEF TreesAreSorted
  <2>2. image.header # None =>
           \A s \in 0..1 : Sorted(image.header.commit_slots[s].root_page_checksum)
    BY <1>3, <1>5 DEF TreesAreSorted
  <2> QED BY <1>2, <1>6, <1>10, <2>1, <2>2 DEF TreesAreSorted
<1>13. CASE status' # "up"
  <2>1. stored' = None /\ ~acked
    BY <1>2, <1>6, <1>13 DEF DurableInv, CurrentIsDurable
  <2>2. HistoryHolds' /\ HeadersAreKnown'
    BY <1>2, <1>13, <2>1 DEF HistoryHolds, HeadersAreKnown
  <2> QED BY <1>2, <1>12, <2>1, <2>2 DEF ContentInv
<1>14. CASE status' = "up"
  <2>1. PICK h : h = image.header OBVIOUS
  <2>2. h # None /\ outcome.status = "up" /\ outcome = recover_header(image)
    BY <1>6, <1>8, <1>9, <1>14, <2>1
  <2>3. /\ \A s \in 0..1 : SlotOK(outcome.header.commit_slots[s])
        /\ outcome.header \in Headers
        /\ Held(image.pages, slot.root_page_id, slot.root_page_checksum)
    BY <1>4, <2>1, <2>2, RecoveredHeader
  <2>4. stored' = Holding(slot.root_page_checksum)
    <3>1. PICK root, sum : root = slot.root_page_id /\ sum = slot.root_page_checksum OBVIOUS
    <3>2. SlotOK(slot) /\ slot.next_page_id \in Nat
      BY <2>3, StoreAssumption DEF active_slot, Headers
    <3>3. Contents(image.pages, root) = Holding(sum)
      BY <2>3, <3>1, <3>2, HeldHolding DEF SlotOK
    <3> QED BY <1>6, <2>2, <3>1, <3>3
  <2>5. HistoryHolds' BY <1>2, <1>7, <1>14, <2>4 DEF HistoryHolds
  <2>6. \/ outcome.header = h
        \/ /\ slot = inactive_slot(h)
           /\ ~Held(image.pages, active_slot(h).root_page_id, active_slot(h).root_page_checksum)
    BY <1>4, <1>8, <2>1, <2>2, RecoveryTakes
  <2>7. \/ /\ Current = active_slot(h)
           /\ \/ \A p \in CurrentTree : written[p] = {} /\ synced.pages[p] = file.pages[p]
              \/ inactive_slot(h) = active_slot(h)
        \/ /\ Current = inactive_slot(h)
           /\ Holding(active_slot(h).root_page_checksum) \in attempted
    BY <1>2, <1>3, <1>5, <2>1, <2>2 DEF HeadersAreKnown
  <2>8. stored = Holding(Current.root_page_checksum) BY <1>2, <1>3 DEF HistoryHolds
  <2>9. \A x : x \in ({synced'.header} \cup written'[HEADER_PAGE_ID]) \ {None} => x = h
    BY <1>6, <1>10, <2>1
  <2>10. CASE outcome.header = h
    <3>1. slot = active_slot(h) BY <2>10
    <3>2. stored' \in {stored} \cup attempted BY <2>4, <2>7, <2>8, <3>1
    <3>3. \A p \in CurrentTree' : written'[p] = {} /\ synced'.pages[p] = file'.pages[p]
      <4>1. \A p \in CurrentTree' : p \in Page
        <5>1. SlotOK(slot) /\ slot.next_page_id \in 2..MaxPages
          BY <2>3 DEF active_slot, Headers
        <5>2. PICK next \in Nat : next = slot.next_page_id BY <5>1, StoreAssumption
        <5>3. PICK root, sum : root = slot.root_page_id /\ sum = slot.root_page_checksum
          OBVIOUS
        <5>4. \A p \in Tree(root, sum) : p \in 1..(next - 1)
          BY <5>1, <5>2, <5>3, TreeIsBelow DEF SlotOK
        <5>5. CurrentTree' = Tree(root, sum) BY <1>7, <5>3 DEF CurrentTree
        <5> QED BY <5>1, <5>2, <5>4, <5>5, StoreAssumption DEF Page
      <4> QED BY <1>6, <1>10, <4>1
    <3>4. HeadersAreKnown' BY <1>7, <2>9, <3>1, <3>3 DEF HeadersAreKnown
    <3> QED BY <1>2, <1>12, <2>5, <3>2, <3>4 DEF ContentInv
  <2>11. CASE outcome.header # h
    <3>1. Current = inactive_slot(h) /\ Holding(active_slot(h).root_page_checksum) \in attempted
      <4>1. ~(Current = active_slot(h) /\ inactive_slot(h) = active_slot(h))
        BY <2>3, <2>6, <2>11
      <4>2. ~(/\ Current = active_slot(h)
              /\ \A p \in CurrentTree : written[p] = {} /\ synced.pages[p] = file.pages[p])
        BY <1>2, <1>3, <2>6, <2>11, WholeTreeStays
      <4> QED BY <2>7, <4>1, <4>2
    <3>2. stored' = stored BY <2>4, <2>6, <2>8, <2>11, <3>1
    <3>3. HeadersAreKnown' BY <1>2, <1>7, <2>6, <2>9, <2>11, <3>1 DEF HeadersAreKnown
    <3> QED BY <1>2, <1>12, <2>5, <3>2, <3>3 DEF ContentInv
  <2> QED BY <2>10, <2>11
<1> QED BY <1>13, <1>14

-----------------------------------------------------------------------------
(* The invariant. *)

\* The invariant of the maps holds in a new store.
LEMMA ContentInit ==
    ASSUME Init
    PROVE  ContentInv
<1>1. DurableInv BY DurableInit
<1>2. /\ file.header = initial /\ synced.header = None /\ header = initial
      /\ written[HEADER_PAGE_ID] \subseteq {initial}
      /\ writer = NoWriter /\ status = "up" /\ stored = [k \in Key |-> None]
  BY DEF Init, NothingWritten, HEADER_PAGE_ID, INITIAL_ROOT_PAGE_ID
<1>3. /\ \A s \in 0..1 : initial.commit_slots[s].root_page_checksum = EmptyLeaf
      /\ active_slot(initial) = inactive_slot(initial)
      /\ active_slot(initial).root_page_checksum = EmptyLeaf
  BY DEF initial, CommitSlot, checksum_page, active_slot, inactive_slot
<1>4. EmptyLeaf \in Leaves /\ EmptyLeaf.entries = <<>>
  BY LeafFacts DEF EmptyLeaf, Leaf
<1>5. Sorted(EmptyLeaf) /\ Holding(EmptyLeaf) = [k \in Key |-> None]
  <2>1. Sorted(EmptyLeaf) /\ \A k : LeafOf(EmptyLeaf, k) = EmptyLeaf BY <1>4, HoldingFacts
  <2>2. DOMAIN EmptyLeaf.entries = {} BY <1>4
  <2> QED BY <2>1, <2>2 DEF Holding, get_value
<1>6. \A h \in ({header, file.header, synced.header} \cup written[HEADER_PAGE_ID]) \ {None} :
         h = initial
  BY <1>2
<1>7. writer.phase = "none" BY <1>2, NoWriterType
<1>8. Current = active_slot(initial) BY <1>2 DEF Current
<1>9. TreesAreSorted BY <1>3, <1>5, <1>6, <1>7 DEF TreesAreSorted
<1>10. HistoryHolds BY <1>2, <1>3, <1>5, <1>7, <1>8 DEF HistoryHolds
<1>11. HeadersAreKnown BY <1>3, <1>6, <1>8 DEF HeadersAreKnown
<1> QED BY <1>1, <1>9, <1>10, <1>11 DEF ContentInv

\* Every step keeps the invariant of the maps.
LEMMA ContentStep ==
    ASSUME ContentInv, PreemptedBegin = FALSE, LengthFirst = TRUE, [Next]_vars
    PROVE  ContentInv'
<1>1. DurableInv' BY DurableStep DEF ContentInv
<1>2. ASSUME write_transaction PROVE ContentInv'
  <2>1. CASE begin_write BY <1>1, <2>1, WriteHolds
  <2>2. CASE abandon \/ commit_fails BY <1>1, <2>2, AbandonHolds
  <2>3. CASE commit BY <1>1, <2>3, CommitHolds
  <2>4. CASE write_header BY <1>1, <2>4, HeaderHolds
  <2>5. CASE sync_data BY <1>1, <2>5, SyncHolds
  <2>6. CASE publish BY <1>1, <2>6, PublishHolds
  <2>7. ASSUME NEW key \in Key, NEW value \in Value, insert(key, value) PROVE ContentInv'
    BY <1>1, <2>7, InsertHolds
  <2>8. ASSUME NEW p \in writer.todo, write_page(p) PROVE ContentInv'
    BY <1>1, <2>8, PageHolds
  <2> QED BY <1>2, <2>1, <2>2, <2>3, <2>4, <2>5, <2>6, <2>7, <2>8 DEF write_transaction
<1>3. ASSUME NEW r \in Reader, read_transaction(r) PROVE ContentInv'
  <2>1. UNCHANGED <<disk_vars, memory_vars, stored, attempted, writer>>
    BY <1>3 DEF read_transaction, begin_read, register, read_cached, read_file, fill_cache,
                end_read, history_vars
  <2> QED BY <1>1, <2>1, ContentStays
<1>4. ASSUME crash PROVE ContentInv' BY <1>1, <1>4, CrashHolds
<1>5. ASSUME UNCHANGED vars PROVE ContentInv'
  <2>1. UNCHANGED <<disk_vars, memory_vars, stored, attempted, writer>>
    BY <1>5 DEF vars, history_vars
  <2> QED BY <1>1, <2>1, ContentStays
<1> QED BY <1>2, <1>3, <1>4, <1>5 DEF Next

\* Every tree of every header has each key where a search for it comes to; the store holds
\* what its tree holds, and every header on the disk offers the current tree or, first,
\* that of a commit in doubt.
THEOREM StoreHoldsItsTrees ==
    ASSUME PreemptedBegin = FALSE, LengthFirst = TRUE PROVE Spec => []ContentInv
<1>1. Init => ContentInv BY ContentInit
<1>2. ContentInv /\ [Next]_vars => ContentInv' BY ContentStep
<1> QED BY <1>1, <1>2, PTL DEF Spec

-----------------------------------------------------------------------------
(* The store implements KvSnapshots. *)

\* What the refinement takes for draft, snapshot and answer.
Drafted == IF writer.phase = "none" THEN None ELSE writer.holds
Seen == [r \in Reader |-> IF reader[r].phase = "idle" THEN None ELSE reader[r].sees]
Answered == [r \in Reader |-> IF reader[r].phase # "done" THEN None
                              ELSE <<reader[r].key, get_value(reader[r].data, reader[r].key)>>]

Rests == UNCHANGED <<attempted, acked, Seen, Answered, stored, Drafted>>

\* Which changes of the mapped variables are steps of the abstract writer or of a
\* crash.
LEMMA AbstractSteps ==
    /\ UNCHANGED Snapshots!vars <=> Rests
    /\ Drafted = None /\ stored # None /\ Drafted' = stored
       /\ UNCHANGED <<attempted, acked, Seen, Answered, stored>> => Snapshots!BeginWrite
    /\ Drafted # None /\ attempted' # attempted /\ attempted' = attempted \cup {Drafted}
       /\ UNCHANGED <<acked, Seen, Answered, stored, Drafted>> => Snapshots!StartCommit
    /\ acked' /\ attempted' = {} /\ Drafted \in attempted /\ stored' = Drafted
       /\ Drafted' = None /\ UNCHANGED <<Seen, Answered>> => Snapshots!Commit
    /\ Drafted # None /\ Drafted' = None
       /\ UNCHANGED <<attempted, acked, Seen, Answered, stored>> => Snapshots!Abort
    /\ Drafted' = None /\ Seen' = [r \in Reader |-> None] /\ Answered' = [r \in Reader |-> None]
       /\ stored' \in {stored} \cup attempted \cup (IF acked THEN {} ELSE {None})
       /\ UNCHANGED <<attempted, acked>> => Snapshots!Crash
<1>1. UNCHANGED Snapshots!vars <=> Rests
  BY DEF Snapshots!vars, Rests, Drafted, Seen, Answered
<1>2. Drafted = None /\ stored # None /\ Drafted' = stored
      /\ UNCHANGED <<attempted, acked, Seen, Answered, stored>> => Snapshots!BeginWrite
  BY DEF Snapshots!BeginWrite, Drafted, Seen, Answered
<1>3. Drafted # None /\ attempted' # attempted /\ attempted' = attempted \cup {Drafted}
      /\ UNCHANGED <<acked, Seen, Answered, stored, Drafted>> => Snapshots!StartCommit
  BY DEF Snapshots!StartCommit, Drafted, Seen, Answered
<1>4. acked' /\ attempted' = {} /\ Drafted \in attempted /\ stored' = Drafted
      /\ Drafted' = None /\ UNCHANGED <<Seen, Answered>> => Snapshots!Commit
  BY DEF Snapshots!Commit, Drafted, Seen, Answered
<1>5. Drafted # None /\ Drafted' = None
      /\ UNCHANGED <<attempted, acked, Seen, Answered, stored>> => Snapshots!Abort
  BY DEF Snapshots!Abort, Drafted, Seen, Answered
<1>6. Drafted' = None /\ Seen' = [r \in Reader |-> None] /\ Answered' = [r \in Reader |-> None]
      /\ stored' \in {stored} \cup attempted \cup (IF acked THEN {} ELSE {None})
      /\ UNCHANGED <<attempted, acked>> => Snapshots!Crash
  BY DEF Snapshots!Crash, Drafted, Seen, Answered
<1> QED BY <1>1, <1>2, <1>3, <1>4, <1>5, <1>6

\* An insert of the value that is there already changes nothing.
LEMMA AbstractPut ==
    ASSUME NEW key \in Key, Drafted # None, Drafted' # None, Drafted'[key] \in Value,
           Drafted' = [Drafted EXCEPT ![key] = Drafted'[key]],
           UNCHANGED <<attempted, acked, Seen, Answered, stored>>
    PROVE  Snapshots!Put \/ Rests
<1>1. CASE Drafted' = Drafted BY <1>1 DEF Rests
<1>2. CASE Drafted' # Drafted
  <2>1. /\ Drafted # None
        /\ Drafted' \notin {None, Drafted}
        /\ \E k \in Key : /\ Drafted'[k] \in Value
                          /\ Drafted' = [Drafted EXCEPT ![k] = Drafted'[k]]
        /\ UNCHANGED <<attempted, acked, Seen, Answered, stored>>
    BY <1>2
  <2> QED BY <2>1 DEF Snapshots!Put, Drafted, Seen, Answered
<1> QED BY <1>1, <1>2

\* An answer from the reader's snapshot is a read of the abstract store.
LEMMA AbstractRead ==
    ASSUME NEW r \in Reader, NEW k \in Key, UNCHANGED <<attempted, acked, stored, Drafted>>,
           Seen[r] # None, Seen' = Seen,
           Answered' = [Answered EXCEPT ![r] = <<k, Seen[r][k]>>]
    PROVE  Snapshots!Read(r, k)
BY DEF Snapshots!Read, Drafted, Seen, Answered

\* Which changes of the mapped variables are a reader's begin, answer and end.
LEMMA AbstractReads ==
    ASSUME NEW r \in Reader, UNCHANGED <<attempted, acked, stored, Drafted>>
    PROVE  /\ Seen[r] = None /\ Seen'[r] # None /\ stored # None
              /\ Seen' = [Seen EXCEPT ![r] = stored] /\ Answered' = Answered
                 => Snapshots!BeginRead(r)
           /\ Answered[r] # None /\ Seen' = Seen /\ Answered' = [Answered EXCEPT ![r] = None]
                 => Snapshots!Forget(r)
           /\ Seen[r] # None /\ Seen' = [Seen EXCEPT ![r] = None]
              /\ Answered' = [Answered EXCEPT ![r] = None]
                 => Snapshots!EndRead(r)
BY DEF Snapshots!BeginRead, Snapshots!Forget, Snapshots!EndRead, Drafted, Seen, Answered

\* A new store is a new map.
LEMMA RefineInit ==
    ASSUME Init
    PROVE  Snapshots!Init
<1>1. /\ stored = [k \in Key |-> None] /\ attempted = {} /\ acked = FALSE
      /\ writer.phase = "none" /\ reader = [r \in Reader |-> NoReader]
  BY NoWriterType DEF Init
<1>2. \A r \in Reader : reader[r].phase = "idle" BY <1>1, NoReaderType
<1> QED BY <1>1, <1>2 DEF Snapshots!Init

\* Nothing that is stored, seen or drafted is taken for nothing.
LEMMA MapsAreThere ==
    ASSUME ContentInv
    PROVE  /\ status = "up" => stored # None
           /\ writer.phase # "none" =>
                 writer.holds # None /\ writer.holds \in [Key -> Value \cup {None}]
           /\ \A r \in Reader : reader[r].sees # None
<1>1. TypeOK /\ StoreInv BY DEF ContentInv, DurableInv, StoreInv
<1>2. writer.holds # None /\ \A r \in Reader : reader[r].sees # None
  BY <1>1, Types, NoMapAssumption
<1>3. status = "up" => stored # None
  <2>1. status = "up" => stored = Holding(Current.root_page_checksum) BY CurrentHolds
  <2>2. Current.root_page_checksum \in Leaves \cup Branches
    BY <1>1, CurrentFacts DEF SlotOK, WellFormed
  <2>3. Holding(Current.root_page_checksum) \in Maps BY <2>2, HoldingFacts DEF Maps
  <2> QED BY <2>1, <2>3, NoMapAssumption
<1>4. writer.phase # "none" => writer.holds \in [Key -> Value \cup {None}]
  <2>1. writer.phase # "none" => writer.holds = Holding(writer.sum)
    BY DEF ContentInv, HistoryHolds
  <2>2. writer.phase # "none" => writer.sum \in Leaves \cup Branches
    BY <1>1, DraftFacts DEF WellFormed
  <2> QED BY <2>1, <2>2, HoldingFacts
<1> QED BY <1>2, <1>3, <1>4

\* A step of the writer is one of the abstract store, or none.
LEMMA WriterRefines ==
    ASSUME ContentInv, ContentInv', PreemptedBegin = FALSE, write_transaction
    PROVE  Snapshots!Next \/ Rests
<1>1. DurableInv' BY DEF ContentInv
<1>2. /\ status = "up" => stored # None
      /\ writer.phase # "none" =>
            writer.holds # None /\ writer.holds \in [Key -> Value \cup {None}]
      /\ writer'.phase # "none" => writer'.holds # None
  <2>1. writer'.phase # "none" => writer'.holds # None
    <3>1. writer'.holds \in Maps BY DEF ContentInv, DurableInv, StoreInv, TypeOK
    <3> QED BY <3>1, NoMapAssumption
  <2> QED BY <2>1, MapsAreThere
<1>3. UNCHANGED reader => UNCHANGED <<Seen, Answered>> BY DEF Seen, Answered
<1>4. CASE begin_write
  <2>1. /\ writer.phase = "none" /\ writer'.phase = "open" /\ writer'.holds = stored
        /\ status = "up" /\ UNCHANGED <<reader, stored, attempted, acked>>
    BY <1>1, <1>4, WriteHolds DEF history_vars
  <2>2. Snapshots!BeginWrite BY <1>2, <1>3, <2>1, AbstractSteps DEF Drafted
  <2> QED BY <2>2 DEF Snapshots!Next
<1>5. CASE abandon \/ commit_fails
  <2>1. /\ writer.phase # "none" /\ writer'.phase = "none"
        /\ UNCHANGED <<reader, stored, attempted, acked>>
    BY <1>1, <1>5, AbandonHolds DEF history_vars
  <2>2. Snapshots!Abort BY <1>2, <1>3, <2>1, AbstractSteps DEF Drafted
  <2> QED BY <2>2 DEF Snapshots!Next
<1>6. CASE commit
  <2>1. /\ writer.phase = "open" /\ writer'.phase = "writing" /\ writer'.holds = writer.holds
        /\ attempted' = attempted \cup {writer.holds} /\ UNCHANGED <<reader, stored, acked>>
    BY <1>1, <1>6, CommitHolds
  <2>2. Drafted = writer.holds /\ Drafted' = Drafted /\ Drafted # None
    BY <1>2, <2>1 DEF Drafted
  <2>3. CASE attempted' = attempted BY <1>3, <2>1, <2>2, <2>3 DEF Rests
  <2>4. CASE attempted' # attempted
    <3>1. Snapshots!StartCommit BY <1>3, <2>1, <2>2, <2>4, AbstractSteps
    <3> QED BY <3>1 DEF Snapshots!Next
  <2> QED BY <2>3, <2>4
<1>7. CASE publish
  <2>1. /\ writer.phase # "none" /\ writer'.phase = "none" /\ writer.holds \in attempted
        /\ stored' = writer.holds /\ attempted' = {} /\ acked' = TRUE /\ UNCHANGED reader
    BY <1>1, <1>7, PublishHolds
  <2>2. Snapshots!Commit BY <1>3, <2>1, AbstractSteps DEF Drafted
  <2> QED BY <2>2 DEF Snapshots!Next
<1>8. ASSUME NEW key \in Key, NEW value \in Value, insert(key, value)
      PROVE  Snapshots!Next \/ Rests
  <2>1. /\ writer.phase = "open" /\ writer'.phase = "open"
        /\ writer'.holds = [writer.holds EXCEPT ![key] = value]
        /\ UNCHANGED <<reader, stored, attempted, acked>>
    BY <1>1, <1>8, InsertHolds DEF history_vars
  <2>2. Drafted = writer.holds /\ Drafted' = writer'.holds /\ Drafted # None /\ Drafted' # None
    BY <1>2, <2>1 DEF Drafted
  <2>3. Drafted \in [Key -> Value \cup {None}] BY <1>2, <2>1, <2>2
  <2>4. Drafted' = [Drafted EXCEPT ![key] = value] BY <2>1, <2>2
  <2>5. Drafted'[key] = value BY <2>3, <2>4
  <2>6. Snapshots!Put \/ Rests BY <1>3, <2>1, <2>2, <2>4, <2>5, AbstractPut
  <2> QED BY <2>6 DEF Snapshots!Next
<1>9. ASSUME \/ write_header \/ sync_data \/ \E p \in writer.todo : write_page(p)
      PROVE  Snapshots!Next \/ Rests
  <2>1. /\ writer.phase # "none" /\ writer'.phase # "none" /\ writer'.holds = writer.holds
        /\ UNCHANGED <<reader, stored, attempted, acked>>
    BY <1>1, <1>9, HeaderHolds, SyncHolds, PageHolds DEF history_vars
  <2> QED BY <1>3, <2>1 DEF Drafted, Rests
<1> QED BY <1>4, <1>5, <1>6, <1>7, <1>8, <1>9 DEF write_transaction

\* A reader that has begun goes on, and answers or turns to another key.
LEMMA ReaderAnswers ==
    ASSUME ContentInv, SnapshotIsolation', NEW r \in Reader,
           \A s \in Reader : s # r => reader'[s] = reader[s],
           reader[r].phase # "idle", reader'[r].phase # "idle",
           reader'[r].sees = reader[r].sees,
           reader'[r].phase = "done" => reader'[r].key \in Key,
           UNCHANGED <<writer, history_vars>>
    PROVE  Snapshots!Next \/ Rests
<1>1. UNCHANGED <<stored, attempted, acked, Drafted>> BY DEF history_vars, Drafted
<1>2. Seen' = Seen BY DEF Seen
<1>3. Seen[r] = reader[r].sees /\ Seen[r] # None BY MapsAreThere DEF Seen
<1>4. Answered' = [Answered EXCEPT ![r] = Answered'[r]] BY DEF Answered
<1>5. CASE reader'[r].phase = "done"
  <2>1. PICK k \in Key : k = reader'[r].key BY <1>5
  <2>2. Answered'[r] = <<k, get_value(reader'[r].data, reader'[r].key)>>
    BY <1>5, <2>1 DEF Answered
  <2>3. get_value(reader'[r].data, reader'[r].key) = reader'[r].sees[reader'[r].key]
    BY <1>5 DEF SnapshotIsolation
  <2>4. Answered' = [Answered EXCEPT ![r] = <<k, Seen[r][k]>>]
    BY <1>3, <1>4, <2>1, <2>2, <2>3
  <2>5. Snapshots!Read(r, k) BY <1>1, <1>2, <1>3, <2>4, AbstractRead
  <2> QED BY <2>5 DEF Snapshots!Next
<1>6. CASE reader'[r].phase # "done"
  <2>1. Answered'[r] = None BY <1>6 DEF Answered
  <2>2. CASE Answered[r] = None
    <3>1. Answered' = Answered BY <1>4, <2>1, <2>2 DEF Answered
    <3> QED BY <1>1, <1>2, <3>1 DEF Rests
  <2>3. CASE Answered[r] # None
    <3>1. Answered' = [Answered EXCEPT ![r] = None] BY <1>4, <2>1
    <3>2. Snapshots!Forget(r) BY <1>1, <1>2, <2>3, <3>1, AbstractReads
    <3> QED BY <3>2 DEF Snapshots!Next
  <2> QED BY <2>2, <2>3
<1> QED BY <1>5, <1>6

\* A step of a reader is one of the abstract store, or none.
LEMMA ReaderRefines ==
    ASSUME ContentInv, SnapshotIsolation', StoreInv', NEW r \in Reader, read_transaction(r)
    PROVE  Snapshots!Next \/ Rests
<1>1. UNCHANGED <<writer, disk_vars, history_vars>>
  BY DEF read_transaction, begin_read, register, read_cached, read_file, fill_cache, end_read
<1>2. UNCHANGED <<file, stored, attempted, acked, Drafted>>
  BY <1>1 DEF disk_vars, history_vars, Drafted
<1>3. StoreInv /\ TypeOK /\ reader \in [Reader -> ReaderType]
  BY DEF ContentInv, DurableInv, StoreInv, TypeOK, ReaderType
<1>4. ASSUME NEW phase, NEW key, NEW page, NEW data, phase # "idle",
             reader' = [reader EXCEPT ![r].phase = phase, ![r].key = key, ![r].page = page,
                                      ![r].data = data],
             reader[r].phase # "idle", phase = "done" => key \in Key
      PROVE  Snapshots!Next \/ Rests
  <2>1. /\ \A s \in Reader : s # r => reader'[s] = reader[s]
        /\ reader'[r].phase = phase /\ reader'[r].sees = reader[r].sees
        /\ reader'[r].key = key
    BY <1>3, <1>4 DEF ReaderType
  <2> QED BY <1>1, <1>4, <2>1, ReaderAnswers
<1>5. CASE begin_read(r)
  <2>1. PICK sees, tx : /\ sees = Contents(file.pages, Current.root_page_id)
                        /\ status = "up" /\ reader[r].phase = "idle"
                        /\ reader' = [reader EXCEPT ![r].phase = "begun", ![r].tx = tx,
                                                    ![r].root = Current.root_page_id,
                                                    ![r].sees = sees]
    BY <1>5 DEF begin_read, Current
  <2>2. sees = stored /\ stored # None BY <2>1, CurrentHolds, MapsAreThere
  <2>3. /\ \A s \in Reader : s # r => reader'[s] = reader[s]
        /\ reader'[r].phase = "begun" /\ reader'[r].sees = sees
    BY <1>3, <2>1 DEF ReaderType
  <2>4. Seen[r] = None /\ Seen'[r] = stored BY <2>1, <2>2, <2>3 DEF Seen
  <2>5. Seen' = [Seen EXCEPT ![r] = Seen'[r]] BY <2>3 DEF Seen
  <2>6. Answered' = Answered
    <3>1. Answered[r] = None /\ Answered'[r] = None BY <2>1, <2>3 DEF Answered
    <3>2. Answered' = [Answered EXCEPT ![r] = Answered'[r]] BY <2>3 DEF Answered
    <3> QED BY <3>1, <3>2 DEF Answered
  <2>7. Snapshots!BeginRead(r) BY <1>2, <2>2, <2>4, <2>5, <2>6, AbstractReads
  <2> QED BY <2>7 DEF Snapshots!Next
<1>6. CASE register(r)
  <2>1. reader[r].phase = "begun" /\ reader' = [reader EXCEPT ![r].phase = "open"]
    BY <1>6 DEF register
  <2>2. /\ \A s \in Reader : s # r => reader'[s] = reader[s]
        /\ reader'[r].phase = "open" /\ reader'[r].sees = reader[r].sees
    BY <1>3, <2>1 DEF ReaderType
  <2> QED BY <1>1, <2>1, <2>2, ReaderAnswers
<1>7. ASSUME NEW key \in Key, NEW content, Visit(r, key, content), reader[r].phase # "idle"
      PROVE  Snapshots!Next \/ Rests
  <2>1. PICK phase, page, data :
           /\ phase = IF content.kind = "branch" THEN "reading" ELSE "done"
           /\ page = IF content.kind = "branch" THEN child_page_id_for_key(content, key) ELSE 0
           /\ data = IF content.kind = "branch" THEN Zero ELSE content
    OBVIOUS
  <2>2. reader' = [reader EXCEPT ![r].phase = phase, ![r].key = key, ![r].page = page,
                                 ![r].data = data]
    BY <1>7, <2>1 DEF Visit
  <2>3. phase # "idle" BY <2>1
  <2> QED BY <1>4, <1>7, <2>2, <2>3
<1>8. CASE read_cached(r)
  <2>1. reader[r].phase \in {"open", "done", "reading"} BY <1>8 DEF read_cached
  <2>2. PICK key \in Keys(r) : Visit(r, key, cache[At(r)]) BY <1>8 DEF read_cached
  <2>3. key \in Key BY <1>3, <2>1, AtFacts
  <2> QED BY <1>7, <2>1, <2>2, <2>3
<1>9. CASE read_file(r)
  <2>1. reader[r].phase \in {"open", "done", "reading"} BY <1>9 DEF read_file
  <2>2. PICK page, data : page = At(r) /\ data = file.pages[At(r)] OBVIOUS
  <2>3. PICK key \in Keys(r) :
           reader' = [reader EXCEPT ![r].phase = "read", ![r].key = key, ![r].page = page,
                                    ![r].data = data]
    BY <1>9, <2>2 DEF read_file
  <2>4. PICK phase : phase = "read" OBVIOUS
  <2>5. reader' = [reader EXCEPT ![r].phase = phase, ![r].key = key, ![r].page = page,
                                 ![r].data = data]
    BY <2>3, <2>4
  <2>6. phase # "idle" /\ phase # "done" /\ reader[r].phase # "idle" BY <2>1, <2>4
  <2> QED BY <1>4, <2>5, <2>6
<1>10. CASE fill_cache(r)
  <2>1. reader[r].phase = "read" /\ Visit(r, reader[r].key, reader[r].data)
    BY <1>10 DEF fill_cache
  <2>2. reader[r].key \in Key BY <1>3, <2>1, SnapshotFacts DEF ReaderIsAt
  <2> QED BY <1>7, <2>1, <2>2
<1>11. CASE end_read(r)
  <2>1. reader[r].phase \in {"open", "done"} /\ reader' = [reader EXCEPT ![r] = NoReader]
    BY <1>11 DEF end_read
  <2>2. reader'[r].phase = "idle" /\ \A s \in Reader : s # r => reader'[s] = reader[s]
    BY <1>3, <2>1, NoReaderType
  <2>3. Seen[r] # None BY <2>1, MapsAreThere DEF Seen
  <2>4. Seen' = [Seen EXCEPT ![r] = None] BY <2>2 DEF Seen
  <2>5. Answered' = [Answered EXCEPT ![r] = None] BY <2>2 DEF Answered
  <2>6. Snapshots!EndRead(r) BY <1>2, <2>3, <2>4, <2>5, AbstractReads
  <2> QED BY <2>6 DEF Snapshots!Next
<1> QED BY <1>5, <1>6, <1>8, <1>9, <1>10, <1>11 DEF read_transaction

\* Every step of the store is one of the abstract store, or none.
LEMMA StepRefines ==
    ASSUME ContentInv, ContentInv', SnapshotIsolation', PreemptedBegin = FALSE,
           LengthFirst = TRUE, [Next]_vars
    PROVE  [Snapshots!Next]_(Snapshots!vars)
<1>1. Rests => UNCHANGED Snapshots!vars BY AbstractSteps
<1>2. CASE write_transaction BY <1>1, <1>2, WriterRefines
<1>3. ASSUME NEW r \in Reader, read_transaction(r) PROVE [Snapshots!Next]_(Snapshots!vars)
  <2>1. StoreInv' BY DEF ContentInv, DurableInv
  <2> QED BY <1>1, <1>3, <2>1, ReaderRefines
<1>4. CASE crash
  <2>1. DurableInv' BY DEF ContentInv
  <2>2. /\ stored' \in {stored} \cup attempted \cup (IF acked THEN {} ELSE {None})
        /\ writer'.phase = "none" /\ reader' = [r \in Reader |-> NoReader]
        /\ UNCHANGED <<attempted, acked>>
    BY <1>4, <2>1, CrashHolds
  <2>3. \A r \in Reader : reader'[r].phase = "idle" BY <2>2, NoReaderType
  <2>4. Seen' = [r \in Reader |-> None] /\ Answered' = [r \in Reader |-> None]
    BY <2>3 DEF Seen, Answered
  <2>5. Drafted' = None BY <2>2 DEF Drafted
  <2>6. Snapshots!Crash BY <2>2, <2>4, <2>5, AbstractSteps
  <2> QED BY <2>6 DEF Snapshots!Next
<1>5. CASE UNCHANGED vars
  <2>1. Rests BY <1>5 DEF vars, history_vars, Rests, Drafted, Seen, Answered
  <2> QED BY <1>1, <2>1
<1> QED BY <1>2, <1>3, <1>4, <1>5 DEF Next

\* The store is the map of KvSnapshots: every commit takes effect at one moment and as a
\* whole, a read transaction answers from the map that was there when it began, and a crash
\* leaves the last map that was committed or one in doubt, never a mixture.
THEOREM StoreIsSnapshots ==
    ASSUME PreemptedBegin = FALSE, LengthFirst = TRUE PROVE Spec => ImplementsSnapshots
<1>1. Init => Snapshots!Init BY RefineInit
<1>2. ContentInv /\ ContentInv' /\ SnapshotIsolation' /\ [Next]_vars
        => [Snapshots!Next]_(Snapshots!vars)
  BY StepRefines
<1>3. Spec => [](ContentInv /\ SnapshotIsolation)
  BY StoreHoldsItsTrees, SnapshotsAreIsolated, PTL
<1> QED BY <1>1, <1>2, <1>3, PTL DEF Spec, ImplementsSnapshots, Snapshots!Spec
=============================================================================
