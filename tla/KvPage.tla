------------------------------- MODULE KvPage -------------------------------
(***************************************************************************)
(* The pages of the kv store as values: a leaf with its entries, a branch  *)
(* with its children, and what the tree does to them.  Keys are naturals,  *)
(* so that they are ordered.  All entries have the same size, LeafCapacity *)
(* of them fill a leaf and BranchCapacity children a branch; pages of      *)
(* entries of any size are in module KvTree.                               *)
(*                                                                         *)
(* The checksum of a page is its content: a checksum that never collides.  *)
(***************************************************************************)
EXTENDS Naturals, Sequences, FiniteSets, FiniteSetsExt, SequencesExt

CONSTANTS Key, Value,
          None,            \* no value, and no cached page
          LeafCapacity,    \* entries that fill a leaf
          BranchCapacity   \* bound: children of the one branch page of a tree

ASSUME KeyAssumption == Key \subseteq Nat /\ IsFiniteSet(Key)
ASSUME NoneAssumption == None \notin Value
ASSUME CapacityAssumption ==
    LeafCapacity \in Nat \ {0, 1} /\ BranchCapacity \in Nat \ {0, 1}

Leaf(entries) == [kind |-> "leaf", entries |-> entries]
Branch(children) == [kind |-> "branch", children |-> children]
Child(key, page, sum) == [key |-> key, page |-> page, sum |-> sum]

\* A page that was preallocated and never written, and one of which a crash
\* left a part.
Zero == [kind |-> "zero"]
Torn == [kind |-> "torn"]

checksum_page(content) == content

\* These pages and, where there are none, those.
Over(these, those) ==
    [p \in DOMAIN these \cup DOMAIN those |-> IF p \in DOMAIN these THEN these[p] ELSE those[p]]

EmptyLeaf == Leaf(<<>>)

-----------------------------------------------------------------------------
(* Leaves: entries is a function on the keys the leaf holds. *)

\* fits asks for room for one more entry, even for a key the leaf has.
fits(leaf) == Cardinality(DOMAIN leaf.entries) < LeafCapacity

InsertEntry(leaf, key, value) ==
    [k \in DOMAIN leaf.entries \cup {key} |->
        IF k = key THEN value ELSE leaf.entries[k]]

\* The first key of the upper half.
SeparatorKey(entries) ==
    CHOOSE k \in DOMAIN entries :
        Cardinality({j \in DOMAIN entries : j < k})
          = Cardinality(DOMAIN entries) \div 2

LeftEntries(entries) ==
    [k \in {k \in DOMAIN entries : k < SeparatorKey(entries)} |-> entries[k]]

RightEntries(entries) ==
    [k \in {k \in DOMAIN entries : k >= SeparatorKey(entries)} |-> entries[k]]

get_value(leaf, key) ==
    IF key \in DOMAIN leaf.entries THEN leaf.entries[key] ELSE None

-----------------------------------------------------------------------------
(* Branches: the key of the first child is not looked at. *)

\* Mutant: a key equal to a separator is looked for on its left.
child_index_before_key(branch, key) ==
    1 + Cardinality({i \in 2..Len(branch.children) : branch.children[i].key < key})

child_index_for_key(branch, key) ==
    1 + Cardinality({i \in 2..Len(branch.children) : branch.children[i].key <= key})

child_page_id_for_key(branch, key) ==
    branch.children[child_index_for_key(branch, key)].page

set_child_at_index(branch, index, page, sum) ==
    Branch([branch.children EXCEPT ![index] = Child(@.key, page, sum)])

branch_fits(branch) == Len(branch.children) < BranchCapacity

\* A separator the branch already has gets the new child.
InsertChild(branch, key, page, sum) ==
    LET index == 2 + Cardinality({i \in 2..Len(branch.children) :
                                    branch.children[i].key < key})
        found == index <= Len(branch.children) /\ branch.children[index].key = key
    IN  IF found THEN set_child_at_index(branch, index, page, sum)
        ELSE Branch(InsertAt(branch.children, index, Child(key, page, sum)))

new_root(left, left_sum, separator, right, right_sum) ==
    Branch(<<Child(0, left, left_sum), Child(separator, right, right_sum)>>)

\* The children of a page, none for a leaf.
ChildrenOf(content) == IF content.kind = "branch" THEN content.children ELSE <<>>

\* The pages of the tree under root.
TreePages(pages, root) ==
    {root} \cup {child.page : child \in Range(ChildrenOf(pages[root]))}

\* What a store holds, key by key, when its tree is read from these pages.  A
\* page that is no leaf where a leaf should be holds no value of any key.
Contents(pages, root) ==
    [k \in Key |->
        LET leaf == IF pages[root].kind = "branch"
                    THEN pages[child_page_id_for_key(pages[root], k)] ELSE pages[root]
        IN  IF leaf.kind = "leaf" THEN get_value(leaf, k) ELSE leaf.kind]
=============================================================================
