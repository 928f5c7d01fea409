------------------------------- MODULE KvTree ------------------------------
(***************************************************************************)
(* The b-tree of the kv store with its pages as they are laid out: entries *)
(* and keys of any size, trees of any height.  One write transaction at a  *)
(* time inserts into copies of the pages; Tree::insert_recursive is a      *)
(* stack of frames, one per level, and every frame is taken up once on the *)
(* way down and once on the way back.                                      *)
(*                                                                         *)
(* There are no readers here and a commit is one step: module KvStore has  *)
(* readers, caches, crashes and the steps of a commit, on small trees.     *)
(***************************************************************************)
EXTENDS Integers, Sequences, FiniteSets, FiniteSetsExt, SequencesExt, TLC

CONSTANTS
    Key, Value,
    None,                \* no value
    KeySize, ValueSize,  \* bytes of each key and value
    PageSize,            \* bytes of a page
    MaxPages,            \* bound: page ids
    MaxTx,               \* bound: committed transactions
    MaxInserts,          \* bound: inserts of all transactions
    MaxFaults            \* bound: errors of reads and of set_len

MIN_PAGE_SIZE == 4096

ASSUME KeyAssumption == Key \subseteq Nat \ {0} /\ IsFiniteSet(Key)
ASSUME NoneAssumption == None \notin Value
ASSUME SizeAssumption ==
    /\ KeySize \in [Key -> Nat] /\ ValueSize \in [Value -> Nat]
    /\ PageSize \in Nat /\ PageSize >= MIN_PAGE_SIZE
ASSUME TreeBoundsAssumption ==
    /\ MaxPages \in Nat \ {0} /\ MaxTx \in Nat
    /\ MaxInserts \in Nat /\ MaxFaults \in Nat

-----------------------------------------------------------------------------
(* The layout both kinds of pages share: a header, an array of metadata    *)
(* that grows upwards, and the bytes of the entries that grow downwards    *)
(* from the end of the page to `end' (kv_pairs_end_offset,                 *)
(* key_data_end_offset).  An entry has its bytes at offset, size of them.  *)

HeaderSize == 24
MetadataSize(kind) == IF kind = "leaf" THEN 32 ELSE 40

MetadataEnd(kind, count) == HeaderSize + count * MetadataSize(kind)

\* Room for one more entry, also when the key is there already.
fits(page, size) ==
    /\ size <= page.end
    /\ MetadataEnd(page.kind, Len(page.entries) + 1) <= page.end - size

\* Where build_entries_at_buf puts the i-th entry of a new page.
BuiltOffset(entries, i) ==
    LET cursor[j \in 0..Len(entries)] ==
            IF j = 0 THEN PageSize ELSE cursor[j - 1] - entries[j].size
    IN  cursor[i]

build_entries_at_buf(kind, entries) ==
    [kind |-> kind,
     entries |-> [i \in DOMAIN entries |->
                    [entries[i] EXCEPT !.offset = BuiltOffset(entries, i)]],
     end |-> BuiltOffset(entries, Len(entries))]

\* The debug_asserts of build_entries_at_buf: the metadata stays below the bytes.
BuildFits(kind, entries) ==
    \A i \in DOMAIN entries : MetadataEnd(kind, i) <= BuiltOffset(entries, i)

\* split_at(len / 2)
LeftHalf(entries) == SubSeq(entries, 1, Len(entries) \div 2)
RightHalf(entries) == SubSeq(entries, Len(entries) \div 2 + 1, Len(entries))

-----------------------------------------------------------------------------
(* Leaves. *)

LeafEntry(key, value, offset) ==
    [key |-> key, value |-> value, offset |-> offset,
     size |-> KeySize[key] + ValueSize[value]]

EmptyLeaf == build_entries_at_buf("leaf", <<>>)

\* binary_search_by: where the key is, or where it would be inserted.
search_entry_index(entries, key) ==
    1 + Cardinality({i \in DOMAIN entries : entries[i].key < key})

HasKey(entries, key) == \E i \in DOMAIN entries : entries[i].key = key

get_value(leaf, key) ==
    IF HasKey(leaf.entries, key)
    THEN leaf.entries[search_entry_index(leaf.entries, key)].value ELSE None

\* LeafPageMutator::insert.  An update stays in place when it is not larger.
\* Mutant: it always does.
leaf_insert_in_place(leaf, key, value) ==
    LET index == search_entry_index(leaf.entries, key)
        entry == LeafEntry(key, value, leaf.end - KeySize[key] - ValueSize[value])
    IN  IF HasKey(leaf.entries, key)
        THEN [leaf EXCEPT !.entries[index] =
                 LeafEntry(key, value, leaf.entries[index].offset)]
        ELSE [leaf EXCEPT !.entries = InsertAt(@, index, entry),
                          !.end = entry.offset]

leaf_insert(leaf, key, value) ==
    LET index == search_entry_index(leaf.entries, key)
        entry == LeafEntry(key, value, leaf.end - KeySize[key] - ValueSize[value])
    IN  CASE ~HasKey(leaf.entries, key) ->
                [leaf EXCEPT !.entries = InsertAt(@, index, entry),
                             !.end = entry.offset]
          [] HasKey(leaf.entries, key) /\ leaf.entries[index].size >= entry.size ->
                [leaf EXCEPT !.entries[index] =
                    [entry EXCEPT !.offset = leaf.entries[index].offset]]
          [] OTHER ->
                [leaf EXCEPT !.entries[index] = entry, !.end = entry.offset]

\* LeafBuilder::from_page and insert; the builder sets the offsets.
LeafBuilder(leaf, key, value) ==
    LET index == search_entry_index(leaf.entries, key)
    IN  IF HasKey(leaf.entries, key)
        THEN [leaf.entries EXCEPT ![index] = LeafEntry(key, value, 0)]
        ELSE InsertAt(leaf.entries, index, LeafEntry(key, value, 0))

-----------------------------------------------------------------------------
(* Branches.  Entry 1 is the leftmost child; its key is empty. *)

NoKey == 0

BranchEntry(key, page, sum, offset) ==
    [key |-> key, page |-> page, sum |-> sum, offset |-> offset,
     size |-> IF key = NoKey THEN 0 ELSE KeySize[key]]

checksum_page(content) == content

\* partition_point over the entries after the first.
child_index_for_key(branch, key) ==
    1 + Cardinality({i \in 2..Len(branch.entries) : branch.entries[i].key <= key})

child_page_id_for_key(branch, key) ==
    branch.entries[child_index_for_key(branch, key)].page

\* Mutant: the checksum is left as it was.
set_child_page_only(branch, index, page, sum) ==
    [branch EXCEPT !.entries[index].page = page]

set_child_at_index(branch, index, page, sum) ==
    [branch EXCEPT !.entries[index].page = page, !.entries[index].sum = sum]

\* BranchPageMutator::insert.
branch_insert(branch, key, page, sum) ==
    LET index == search_entry_index(branch.entries, key)
        entry == BranchEntry(key, page, sum, branch.end - KeySize[key])
    IN  IF HasKey(branch.entries, key)
        THEN set_child_at_index(branch, index, page, sum)
        ELSE [branch EXCEPT !.entries = InsertAt(@, index, entry),
                            !.end = entry.offset]

\* BranchBuilder::from_page and insert.
BranchBuilder(branch, key, page, sum) ==
    branch_insert(branch, key, page, sum).entries

\* The first entry of a page that is built loses its key.
WithoutFirstKey(entries) ==
    [entries EXCEPT ![1] = BranchEntry(NoKey, @.page, @.sum, 0)]

new_root(left, left_sum, key, right, right_sum) ==
    <<BranchEntry(NoKey, left, left_sum, 0), BranchEntry(key, right, right_sum, 0)>>

-----------------------------------------------------------------------------
VARIABLES
    pages,               \* the file: what was written under each page id
    slot,                \* the commit the store is at: transaction, root, checksum
    pending_free_pages, next_page_id,  \* PageAllocator; nobody reads, so the
                         \* front of the queue can always be reused
    tx,                  \* the write transaction
    call,                \* the insert it is in
    failure,             \* the assertion that has failed, if any
    inserts, faults      \* how many inserts and errors there were

(* History: read by properties only. *)
VARIABLES
    committed,           \* what the store should hold
    lost                 \* pages taken by transactions that did not commit

vars == <<pages, slot, pending_free_pages, next_page_id, tx, call, failure,
          inserts, faults, committed, lost>>

Page == 1..MaxPages
NoPage == 0

\* Pages laid over others, and one page written.
Over(these, those) ==
    [p \in DOMAIN these \cup DOMAIN those |-> IF p \in DOMAIN these THEN these[p] ELSE those[p]]

With(those, page, content) == Over([p \in {page} |-> content], those)

\* A WriteTransaction; holds is history.
NoTx == [open |-> FALSE, root |-> NoPage, sum |-> EmptyLeaf, dirty |-> <<>>,
         freed |-> <<>>, failed |-> FALSE, holds |-> <<>>]

\* InsertionResult; there is a split when right is a page.
Unsplit(page, content) ==
    [page |-> page, sum |-> checksum_page(content), key |-> NoKey,
     right |-> NoPage, right_sum |-> EmptyLeaf]

Split(page, content, key, right, right_content) ==
    [page |-> page, sum |-> checksum_page(content), key |-> key,
     right |-> right, right_sum |-> checksum_page(right_content)]

NoResult == Unsplit(NoPage, EmptyLeaf)

\* insert_recursive: its frames, innermost last, each with its page and, for a
\* branch, the index of the child that the next frame is about.  `at' is the page
\* the next frame will be about.
NoCall == [step |-> "none", key |-> NoKey, value |-> None, frames |-> <<>>,
           at |-> NoPage, result |-> NoResult]

Init ==
    /\ pages = [p \in {1} |-> EmptyLeaf]
    /\ slot = [tx |-> 0, root |-> 1, sum |-> checksum_page(EmptyLeaf)]
    /\ pending_free_pages = <<>>
    /\ next_page_id = 2
    /\ tx = NoTx
    /\ call = NoCall
    /\ failure = "none"
    /\ inserts = 0
    /\ faults = 0
    /\ committed = [k \in Key |-> None]
    /\ lost = {}

-----------------------------------------------------------------------------
(* The transaction's pages. *)

IsDirty(p) == p \in DOMAIN tx.dirty
CheckedOut == {call.frames[i].page : i \in DOMAIN call.frames}

\* The page allocate_page_id hands out.
allocated == IF pending_free_pages = <<>> THEN next_page_id
             ELSE Head(pending_free_pages)

\* Mutant: the page stays in the queue.
TakePageAndLeaveIt ==
    /\ next_page_id <= MaxPages
    /\ next_page_id' = IF pending_free_pages = <<>> THEN next_page_id + 1
                       ELSE next_page_id
    /\ UNCHANGED pending_free_pages

TakePage ==
    IF pending_free_pages = <<>>
    THEN /\ next_page_id <= MaxPages
         /\ next_page_id' = next_page_id + 1
         /\ UNCHANGED pending_free_pages
    ELSE /\ pending_free_pages' = Tail(pending_free_pages)
         /\ UNCHANGED next_page_id

KeepPages == UNCHANGED <<pending_free_pages, next_page_id>>

\* An assertion fails: the transaction is gone and the writer's lock poisoned.  The
\* page that was allocated for the right half is lost with it; nothing is allocated
\* any more, so that is left out.
Panic(what) ==
    /\ failure' = what
    /\ tx' = NoTx
    /\ call' = NoCall
    /\ lost' = lost \cup DOMAIN tx.dirty
    /\ UNCHANGED <<pages, slot, pending_free_pages, next_page_id, inserts,
                   faults, committed>>

Working(step) == call.step = step
Frame == Last(call.frames)
Outer == Front(call.frames)

\* The innermost frame returns.
Return(result) ==
    call' = [call EXCEPT !.step = IF Outer = <<>> THEN "root" ELSE "child",
                         !.frames = Outer, !.result = result]

-----------------------------------------------------------------------------
(* Tree::insert. *)

begin_write ==
    /\ failure = "none"
    /\ ~tx.open
    /\ slot.tx < MaxTx
    /\ tx' = [NoTx EXCEPT !.open = TRUE, !.root = slot.root, !.sum = slot.sum,
                          !.holds = committed]
    /\ UNCHANGED <<pages, slot, pending_free_pages, next_page_id, call, failure,
                   inserts, faults, committed, lost>>

insert(key, value) ==
    /\ tx.open
    /\ ~tx.failed
    /\ Working("none")
    /\ inserts < MaxInserts
    /\ inserts' = inserts + 1
    /\ call' = [NoCall EXCEPT !.step = "enter", !.key = key, !.value = value,
                              !.at = tx.root]
    /\ UNCHANGED <<pages, slot, pending_free_pages, next_page_id, tx, failure,
                   faults, committed, lost>>

\* A frame begins: its page is checked out, or copied, and a branch goes on to
\* the child for the key.
Enter(page, content) ==
    LET leaf == content.kind = "leaf"
        index == IF leaf THEN 0 ELSE child_index_for_key(content, call.key)
    IN  call' = [call EXCEPT !.step = IF leaf THEN "leaf" ELSE "enter",
                             !.frames = Append(@, [page |-> page, index |-> index]),
                             !.at = IF leaf THEN NoPage ELSE content.entries[index].page]

check_out ==
    /\ Working("enter")
    /\ IsDirty(call.at)
    /\ call.at \notin CheckedOut
    /\ Enter(call.at, tx.dirty[call.at])
    /\ KeepPages
    /\ UNCHANGED <<pages, slot, tx, failure, inserts, faults, committed, lost>>

\* Mutant: the copied page is not freed.
cow_page_keeping ==
    /\ Working("enter")
    /\ ~IsDirty(call.at)
    /\ ~IsDirty(allocated)
    /\ TakePage
    /\ tx' = [tx EXCEPT !.dirty = With(@, allocated, pages[call.at])]
    /\ Enter(allocated, pages[call.at])
    /\ UNCHANGED <<pages, slot, failure, inserts, faults, committed, lost>>

cow_page ==
    /\ Working("enter")
    /\ ~IsDirty(call.at)
    /\ ~IsDirty(allocated)
    /\ TakePage
    /\ tx' = [tx EXCEPT !.dirty = With(@, allocated, pages[call.at]),
                        !.freed = Append(@, call.at)]
    /\ Enter(allocated, pages[call.at])
    /\ UNCHANGED <<pages, slot, failure, inserts, faults, committed, lost>>

\* The page of the innermost frame, and what must get into it: the entry, or the
\* right half of the child that was split.
Content == tx.dirty[Frame.page]

Fits ==
    fits(Content, IF Working("leaf") THEN KeySize[call.key] + ValueSize[call.value]
                                     ELSE KeySize[call.result.key])

\* There is no room for it, and the page is split.
Splits == (Working("leaf") \/ Working("branch")) /\ ~Fits

Entries ==
    IF Working("leaf") THEN LeafBuilder(Content, call.key, call.value)
    ELSE BranchBuilder(Content, call.result.key, call.result.right, call.result.right_sum)

Left == LeftHalf(Entries)
Right == IF Working("leaf") THEN RightHalf(Entries)
         ELSE WithoutFirstKey(RightHalf(Entries))

insert_into_leaf ==
    LET leaf == leaf_insert(Content, call.key, call.value)
    IN  /\ Working("leaf")
        /\ Fits
        /\ tx' = [tx EXCEPT !.dirty[Frame.page] = leaf]
        /\ Return(Unsplit(Frame.page, leaf))
        /\ KeepPages
        /\ UNCHANGED <<pages, slot, failure, inserts, faults, committed, lost>>

\* build_split_pages: the upper half of the entries goes to a new page.
HalvesFit == BuildFits(Content.kind, Left) /\ BuildFits(Content.kind, Right)

split_page ==
    LET left_page == build_entries_at_buf(Content.kind, Left)
        right_page == build_entries_at_buf(Content.kind, Right)
    IN  /\ Splits
        /\ Len(Entries) >= 2
        /\ HalvesFit
        /\ ~IsDirty(allocated)
        /\ TakePage
        /\ tx' = [tx EXCEPT !.dirty = With(With(@, allocated, right_page),
                                             Frame.page, left_page)]
        /\ Return(Split(Frame.page, left_page, RightHalf(Entries)[1].key,
                        allocated, right_page))
        /\ UNCHANGED <<pages, slot, failure, inserts, faults, committed, lost>>

\* The root was split.
Grows == Working("root") /\ call.result.right # NoPage
RootEntries == new_root(call.result.page, call.result.sum, call.result.key,
                        call.result.right, call.result.right_sum)

\* assert!(self.kv_pairs.len() >= 2)
split_lone_entry ==
    /\ Splits
    /\ Len(Entries) < 2
    /\ Panic("lone_entry")

\* The entries are divided by number, not by size, and a new root takes a key of
\* any size.  A page that gets more than it has room for fails a debug_assert; a
\* release build goes on with a page whose metadata is written over its last entry,
\* or fails on an index outside the page.  What such a page leads to is not followed.
build_overflows ==
    /\ IF Splits THEN Len(Entries) >= 2 /\ ~HalvesFit
       ELSE Grows /\ ~BuildFits("branch", RootEntries)
    /\ Panic("page_overflow")

\* The call for the child has returned: its page replaces the old one.
replace_child ==
    LET branch == set_child_at_index(Content, Frame.index,
                                     call.result.page, call.result.sum)
    IN  /\ Working("child")
        /\ tx' = [tx EXCEPT !.dirty[Frame.page] = branch]
        /\ IF call.result.right = NoPage
           THEN Return(Unsplit(Frame.page, branch))
           ELSE call' = [call EXCEPT !.step = "branch"]
        /\ KeepPages
        /\ UNCHANGED <<pages, slot, failure, inserts, faults, committed, lost>>

\* The child was split: its right half becomes a child of the branch.
insert_into_branch ==
    LET branch == branch_insert(Content, call.result.key,
                                call.result.right, call.result.right_sum)
    IN  /\ Working("branch")
        /\ Fits
        /\ tx' = [tx EXCEPT !.dirty[Frame.page] = branch]
        /\ Return(Unsplit(Frame.page, branch))
        /\ KeepPages
        /\ UNCHANGED <<pages, slot, failure, inserts, faults, committed, lost>>

SetRoot(root, sum, dirty) ==
    /\ tx' = [tx EXCEPT !.root = root, !.sum = sum, !.dirty = dirty,
                        !.holds[call.key] = call.value]
    /\ call' = NoCall
    /\ UNCHANGED <<pages, slot, failure, inserts, faults, committed, lost>>

set_root_page ==
    /\ Working("root")
    /\ call.result.right = NoPage
    /\ SetRoot(call.result.page, call.result.sum, tx.dirty)
    /\ KeepPages

grow_root ==
    LET root == build_entries_at_buf("branch", RootEntries)
    IN  /\ Grows
        /\ BuildFits("branch", RootEntries)
        /\ ~IsDirty(allocated)
        /\ TakePage
        /\ SetRoot(allocated, checksum_page(root), With(tx.dirty, allocated, root))

-----------------------------------------------------------------------------
(* Errors and assertions on the way. *)

\* The next step takes a page from the allocator.
Allocates ==
    \/ Working("enter") /\ ~IsDirty(call.at)
    \/ Splits
    \/ Grows

\* An error: `?' leaves all frames, their pages are returned to the tracker as
\* they are, and the transaction is marked.
Fail ==
    /\ faults < MaxFaults
    /\ faults' = faults + 1
    /\ tx' = [tx EXCEPT !.failed = TRUE]
    /\ call' = NoCall
    /\ UNCHANGED <<pages, slot, pending_free_pages, failure, inserts, committed>>

\* read_page fails in cow_page.
read_fails ==
    /\ Working("enter")
    /\ ~IsDirty(call.at)
    /\ Fail
    /\ UNCHANGED <<next_page_id, lost>>

\* preallocate_pages fails after next_page_id was moved on.  Which new page
\* begins a batch depends on the length of the file: any may.
allocation_fails ==
    /\ Allocates
    /\ pending_free_pages = <<>>
    /\ next_page_id <= MaxPages
    /\ Fail
    /\ next_page_id' = next_page_id + 1
    /\ lost' = lost \cup {next_page_id}

-----------------------------------------------------------------------------
\* Mutant: the pages are not written.
commit_without_pages ==
    /\ tx.open
    /\ ~tx.failed
    /\ Working("none")
    /\ slot' = [tx |-> slot.tx + 1, root |-> tx.root, sum |-> tx.sum]
    /\ pending_free_pages' = pending_free_pages \o tx.freed
    /\ committed' = tx.holds
    /\ tx' = NoTx
    /\ UNCHANGED <<pages, next_page_id, call, failure, inserts, faults, lost>>

\* Mutant: a transaction with a failed insert can be committed.
commit_failed_too ==
    /\ tx.open
    /\ Working("none")
    /\ pages' = Over(tx.dirty, pages)
    /\ slot' = [tx |-> slot.tx + 1, root |-> tx.root, sum |-> tx.sum]
    /\ pending_free_pages' = pending_free_pages \o tx.freed
    /\ committed' = tx.holds
    /\ tx' = NoTx
    /\ UNCHANGED <<next_page_id, call, failure, inserts, faults, lost>>

commit ==
    /\ tx.open
    /\ ~tx.failed
    /\ Working("none")
    /\ pages' = Over(tx.dirty, pages)
    /\ slot' = [tx |-> slot.tx + 1, root |-> tx.root, sum |-> tx.sum]
    /\ pending_free_pages' = pending_free_pages \o tx.freed
    /\ committed' = tx.holds
    /\ tx' = NoTx
    /\ UNCHANGED <<next_page_id, call, failure, inserts, faults, lost>>

\* The transaction is dropped, or commit returns TransactionFailed.
abandon ==
    /\ tx.open
    /\ Working("none")
    /\ tx' = NoTx
    /\ lost' = lost \cup DOMAIN tx.dirty
    /\ UNCHANGED <<pages, slot, pending_free_pages, next_page_id, call, failure,
                   inserts, faults, committed>>

insert_recursive ==
    \/ check_out \/ cow_page
    \/ insert_into_leaf \/ replace_child \/ insert_into_branch
    \/ split_page \/ split_lone_entry \/ build_overflows

Next ==
    \/ begin_write \/ commit \/ abandon
    \/ \E key \in Key, value \in Value : insert(key, value)
    \/ insert_recursive
    \/ set_root_page \/ grow_root
    \/ read_fails \/ allocation_fails

Spec == Init /\ [][Next]_vars

-----------------------------------------------------------------------------
(* Properties. *)

TypeOK ==
    /\ DOMAIN pages \subseteq Page
    /\ slot.tx \in 0..MaxTx /\ slot.root \in DOMAIN pages
    /\ next_page_id \in 2..(MaxPages + 1)
    /\ Range(pending_free_pages) \subseteq Page
    /\ DOMAIN tx.dirty \subseteq Page /\ Range(tx.freed) \subseteq Page
    /\ call.step \in {"none", "enter", "leaf", "child", "branch", "root"}
    /\ \A i \in DOMAIN call.frames : call.frames[i].page \in DOMAIN tx.dirty
    /\ failure \in {"none", "lone_entry", "page_overflow"}
    /\ committed \in [Key -> Value \cup {None}]
    /\ lost \subseteq Page

\* The pages as the transaction sees them.
Seen == Over(tx.dirty, pages)

\* The pages of the tree under root, level by level: there are no more levels than pages.
TreePages(see, root) ==
    LET level[n \in 1..MaxPages] ==
            IF n = 1 THEN {root}
            ELSE LET branches == {p \in level[n - 1] : see[p].kind = "branch"}
                 IN  UNION {{e.page : e \in Range(see[p].entries)} : p \in branches}
    IN  UNION {level[n] : n \in 1..MaxPages}

\* Tree::get.
Get(see, root, key) ==
    LET at[n \in 1..MaxPages] ==
            IF n = 1 THEN root
            ELSE LET p == at[n - 1]
                 IN  IF see[p].kind = "branch" THEN child_page_id_for_key(see[p], key)
                     ELSE p
    IN  get_value(see[at[MaxPages]], key)

\* The transaction's tree is complete: no insert is under way or has failed.
AtRest == tx.open /\ ~tx.failed /\ Working("none")

\* Whatever splits there were, every key is found where Tree::get looks for it,
\* with the value last inserted, in the transaction's tree; and the committed
\* tree is not touched by an insert that is under way, fails or is dropped.
KeysAreFound ==
    \A k \in Key :
        /\ Get(pages, slot.root, k) = committed[k]
        /\ AtRest => Get(Seen, tx.root, k) = tx.holds[k]

\* The bytes of two entries, or of an entry and the metadata, never overlap and
\* lie inside the page, and keys are in order: also after entries have been
\* replaced by larger ones, which leaves gaps, and after splits.
SoundPage(page) ==
    LET e == page.entries
    IN  /\ MetadataEnd(page.kind, Len(e)) <= page.end
        /\ \A i \in DOMAIN e :
             /\ page.end <= e[i].offset
             /\ e[i].offset + e[i].size <= PageSize
        /\ \A i, j \in DOMAIN e : i < j =>
             /\ e[i].key < e[j].key
             /\ \/ e[i].offset + e[i].size <= e[j].offset
                \/ e[j].offset + e[j].size <= e[i].offset

LayoutIsSound == \A p \in DOMAIN Seen : SoundPage(Seen[p])

\* Tree::verify_pages accepts the committed tree and the one a commit would
\* publish: every copy of a page has its checksum in its parent's copy.
ChecksumsMatch ==
    LET Verifies(see, root, sum) ==
            /\ checksum_page(see[root]) = sum
            /\ \A p \in TreePages(see, root) :
                 see[p].kind = "branch" => \A e \in Range(see[p].entries) :
                                              checksum_page(see[e.page]) = e.sum
    IN  /\ Verifies(pages, slot.root, slot.sum)
        /\ AtRest => Verifies(Seen, tx.root, tx.sum)

\* Every page has one use: it is in the committed tree, free, dirty, or lost with
\* a transaction that failed or was dropped.  So a commit frees exactly the pages
\* its tree no longer has, and no insert leaves behind a page it does not need.
PagesAreAccountedFor ==
    LET tree == TreePages(pages, slot.root)
        free == Range(pending_free_pages)
        dirty == DOMAIN tx.dirty
    IN  /\ tree \cup free \cup dirty \cup lost = 1..(next_page_id - 1)
        /\ Cardinality(tree) + Len(pending_free_pages) + Cardinality(dirty)
             + Cardinality(lost) = next_page_id - 1

\* No assertion of DirtyPageTracker fails: an insert never comes back to a page
\* it has checked out, and no page is allocated that is dirty.
TrackerNeverPanics ==
    /\ Working("enter") => call.at \notin CheckedOut
    /\ Allocates => ~IsDirty(allocated)

\* The assertions of the page builders: a page is split only when it has entries
\* for two halves, and each half fits into a page.
SplitAssertionsHold == failure = "none"
=============================================================================
