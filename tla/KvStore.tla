------------------------------ MODULE KvStore ------------------------------
(***************************************************************************)
(* The kv store: a copy-on-write tree in a file of pages, one write        *)
(* transaction at a time, any number of read transactions on the snapshot  *)
(* they began with, and recovery after a crash.                            *)
(*                                                                         *)
(* A tree is a leaf or one branch over leaves.  The calls that touch the   *)
(* file, the page cache, the header or the read tracker are steps of their *)
(* own; an insert works on pages that only the writer sees and is one      *)
(* step.                                                                   *)
(***************************************************************************)
EXTENDS KvPage

CONSTANTS
    Reader,          \* threads that read
    MaxPages,        \* bound: pages of the file
    Batch,           \* PAGE_ALLOCATION_BATCH
    MaxTx,           \* bound: transaction ids
    MaxCrashes,      \* bound: crashes
    PreemptedBegin,  \* whether the writer may run between the two steps of
                     \* begin_read
    LengthFirst,     \* whether the file system makes a new file length durable
                     \* before any write that follows it; recovery needs it
    MaxFaults        \* bound: errors of writes and syncs

ASSUME StoreAssumption ==
    /\ IsFiniteSet(Reader) /\ MaxPages \in Nat \ {0, 1} /\ Batch \in Nat \ {0} /\ MaxTx \in Nat
    /\ MaxCrashes \in Nat /\ PreemptedBegin \in BOOLEAN
    /\ LengthFirst \in BOOLEAN /\ MaxFaults \in Nat

VARIABLES
    file,      \* the file as the process sees it: header, pages and length
    synced,    \* the file as of the last sync
    written,   \* per page, what was written since then; headers under 0
    status,    \* "up", or how open_existing failed
    header,    \* CommitState: the header in memory
    next_page_id, pending_free_pages,  \* PageAllocator
    cache,     \* PageCache
    active_readers,                    \* ReadTracker
    writer,    \* the write transaction
    reader,    \* the read transactions
    crashes,   \* how many crashes there were
    faults     \* how many errors the file system has returned

(* History: read by properties, never by an action's guard.  What a tree holds is *)
(* read from its pages whenever one comes into use: `stored' by publish and by    *)
(* recovery, writer.holds by begin_write and insert, reader.sees by begin_read.   *)
VARIABLES
    stored,    \* what the store holds, None if it is not open
    attempted, \* what the commits in doubt since the last success would hold
    acked      \* whether any commit has ever returned Ok

disk_vars == <<file, synced, written>>
memory_vars == <<status, header, next_page_id, pending_free_pages>>
history_vars == <<stored, attempted, acked>>
vars == <<disk_vars, memory_vars, cache, active_readers, writer, reader,
          crashes, faults, history_vars>>

HEADER_PAGE_ID == 0
INITIAL_ROOT_PAGE_ID == 1

Page == 1..(MaxPages - 1)

Leaves == {Leaf(e) : e \in UNION {[S -> Value] : S \in SUBSET Key}}

Branches ==
    {branch \in [kind : {"branch"},
                 children : Seq([key : Key \cup {0}, page : Page, sum : Leaves])] :
        Len(branch.children) \in 2..BranchCapacity}

Content == Leaves \cup Branches \cup {Zero, Torn}

CommitSlot(root, sum, tx, next) ==
    [root_page_id |-> root, root_page_checksum |-> sum,
     transaction_id |-> tx, next_page_id |-> next]

-----------------------------------------------------------------------------
(* The header. *)

Headers ==
    [active_slot : 0..1,
     commit_slots : [0..1 -> [root_page_id : Page, root_page_checksum : Content,
                              transaction_id : 0..MaxTx, next_page_id : 2..MaxPages]]]

ASSUME NoHeaderAssumption == None \notin Headers   \* a file without a header

active_slot(h) == h.commit_slots[h.active_slot]
inactive_slot(h) == h.commit_slots[1 - h.active_slot]
switch_to_inactive_slot(h) == [h EXCEPT !.active_slot = 1 - @]

initial ==
    LET slot == CommitSlot(INITIAL_ROOT_PAGE_ID, checksum_page(EmptyLeaf), 0,
                           INITIAL_ROOT_PAGE_ID + 1)
    IN  [active_slot |-> 0, commit_slots |-> [s \in 0..1 |-> slot]]

\* Mutant: a commit overwrites the slot in use.
with_commit_in_place(h, root, sum, tx, next) ==
    [h EXCEPT !.commit_slots[h.active_slot] = CommitSlot(root, sum, tx, next)]

with_commit(h, root, sum, tx, next) ==
    switch_to_inactive_slot(
        [h EXCEPT !.commit_slots[1 - h.active_slot] =
                      CommitSlot(root, sum, tx, next)])

-----------------------------------------------------------------------------
\* A WriteTransaction.
NoWriter == [phase |-> "none", tx |-> 0, root |-> 0, sum |-> Zero,
             dirty |-> <<>>, freed |-> <<>>, todo |-> {}, holds |-> <<>>]

\* A ReadTransaction.
NoReader == [phase |-> "idle", tx |-> 0, root |-> 0, key |-> None,
             page |-> 0, data |-> Zero, sees |-> <<>>]

NoCache == [p \in Page |-> None]
NothingWritten == [p \in Page \cup {HEADER_PAGE_ID} |-> {}]

\* open_new: new_file writes the header and an empty leaf and syncs nothing.
Init ==
    /\ file = [header |-> initial, length |-> 2,
               pages |-> [p \in Page |->
                   IF p = INITIAL_ROOT_PAGE_ID THEN EmptyLeaf ELSE Zero]]
    /\ synced = [header |-> None, length |-> 0, pages |-> [p \in Page |-> Zero]]
    /\ written = [NothingWritten EXCEPT ![HEADER_PAGE_ID] = {initial},
                                        ![INITIAL_ROOT_PAGE_ID] = {EmptyLeaf}]
    /\ status = "up"
    /\ header = initial
    /\ next_page_id = 2
    /\ pending_free_pages = <<>>
    /\ cache = [NoCache EXCEPT ![INITIAL_ROOT_PAGE_ID] = EmptyLeaf]
    /\ active_readers = [t \in 0..MaxTx |-> 0]
    /\ writer = NoWriter
    /\ reader = [r \in Reader |-> NoReader]
    /\ crashes = 0
    /\ faults = 0
    /\ stored = [k \in Key |-> None]
    /\ attempted = {}
    /\ acked = FALSE

-----------------------------------------------------------------------------
(* Pages. *)

\* What read_page may return: the cached copy, or, if there is none or it has
\* been evicted, what is in the file.
Reads(p) ==
    {file.pages[p]} \cup (IF cache[p] = None THEN {} ELSE {cache[p]})

\* u64::MAX when nobody reads.
oldest_active_transaction ==
    LET active == {t \in 0..MaxTx : active_readers[t] > 0}
    IN  IF active = {} THEN MaxTx + 1 ELSE Min(active)

\* Mutant: readers are not looked at.
reusable_always(freed) == TRUE

reusable(freed) == freed.transaction_id < oldest_active_transaction

\* The next n pages of allocate_page_id: freed pages from the front of the
\* queue while its head can be reused, then new ones.
Reused(n) ==
    LET prefix == {i \in DOMAIN pending_free_pages :
                     \A j \in 1..i : reusable(pending_free_pages[j])}
    IN  Min({n, Cardinality(prefix)})

allocate(n) ==
    [i \in 1..n |-> IF i <= Reused(n) THEN pending_free_pages[i].page_id
                    ELSE next_page_id + i - Reused(n) - 1]

\* Whole batches are added to the file when it gets too short.
preallocate(next) ==
    IF next <= file.length THEN file.length
    ELSE file.length + Batch * ((next - file.length + Batch - 1) \div Batch)

-----------------------------------------------------------------------------
(* The write transaction. *)

\* The write transaction has come this far and goes on.  Unless begins may be
\* preempted, it does not run between the two steps of a begin_read.
WriterIn(phase) ==
    /\ writer.phase = phase
    /\ PreemptedBegin \/ \A r \in Reader : reader[r].phase # "begun"

begin_write ==
    LET slot == active_slot(header)
    IN  /\ status = "up"
        /\ WriterIn("none")
        /\ slot.transaction_id < MaxTx
        /\ writer' = [NoWriter EXCEPT !.phase = "open",
                                      !.tx = slot.transaction_id + 1,
                                      !.root = slot.root_page_id,
                                      !.sum = slot.root_page_checksum,
                                      !.holds = Contents(file.pages, slot.root_page_id)]
        /\ UNCHANGED <<disk_vars, memory_vars, cache, active_readers, reader,
                       crashes, faults, history_vars>>

IsDirty(p) == p \in DOMAIN writer.dirty
Sees(p) == IF IsDirty(p) THEN {writer.dirty[p]} ELSE Reads(p)

\* Pages `old' are copied and freed, pages `a' are allocated, `dirty' is what
\* the insert leaves in the transaction's pages and root its new root page.
Modify(old, a, dirty, root) ==
    /\ next_page_id' = next_page_id + Len(a) - Reused(Len(a))
    /\ next_page_id' <= MaxPages
    /\ pending_free_pages' =
          SubSeq(pending_free_pages, Reused(Len(a)) + 1, Len(pending_free_pages))
    /\ file' = [file EXCEPT !.length = preallocate(next_page_id')]
    /\ writer' = [writer EXCEPT !.dirty = Over(dirty, @), !.freed = @ \o old,
                                !.root = root, !.sum = checksum_page(dirty[root]),
                                !.holds = Contents(Over(Over(dirty, writer.dirty),
                                                        file.pages), root)]
    /\ UNCHANGED <<synced, written, status, header, active_readers, reader,
                   crashes, faults, history_vars>>

\* What cow_page must copy of a page: nothing, if the transaction has copied it before.
Copied(p) == IF IsDirty(p) THEN <<>> ELSE <<p>>

\* cow_page reads the pages it copies through the cache; allocate_page removes
\* the new ones from it.
CacheAfter(old, seen, a) ==
    [p \in Page |-> CASE p \in Range(a) -> None
                      [] p \in Range(old) \ Range(a) -> seen[p]
                      [] OTHER -> cache[p]]

\* The tree is one leaf.
insert_root_leaf(key, value) ==
    \E content \in Sees(writer.root) :
        LET old == Copied(writer.root)
            entries == InsertEntry(content, key, value)
            a == allocate(Len(old) + (IF fits(content) THEN 0 ELSE 2))
            page == IF IsDirty(writer.root) THEN writer.root ELSE a[1]
            right == a[Len(a) - 1]
            top == a[Len(a)]
            left_leaf == Leaf(LeftEntries(entries))
            right_leaf == Leaf(RightEntries(entries))
            split == new_root(page, checksum_page(left_leaf), SeparatorKey(entries),
                              right, checksum_page(right_leaf))
        IN  /\ content.kind = "leaf"
            /\ cache' = CacheAfter(old, [p \in {writer.root} |-> content], a)
            /\ \/ /\ fits(content)
                  /\ Modify(old, a, [p \in {page} |-> Leaf(entries)], page)
               \/ /\ ~fits(content)
                  /\ Modify(old, a, [p \in {page, right, top} |->
                                       CASE p = page -> left_leaf
                                         [] p = right -> right_leaf
                                         [] OTHER -> split],
                            top)

\* The leaf below the branch takes the entry; a leaf that is full is split, and the
\* branch has room for one more child.
insert_below(content, leaf, key, value) ==
    LET index == child_index_for_key(content, key)
        child == child_page_id_for_key(content, key)
        old == Copied(writer.root) \o Copied(child)
        entries == InsertEntry(leaf, key, value)
        a == allocate(Len(old) + (IF fits(leaf) THEN 0 ELSE 1))
        root == IF IsDirty(writer.root) THEN writer.root ELSE a[1]
        page == IF IsDirty(child) THEN child ELSE a[Len(old)]
        right == a[Len(a)]
        left_leaf == Leaf(LeftEntries(entries))
        right_leaf == Leaf(RightEntries(entries))
        changed(sum) == set_child_at_index(content, index, page, checksum_page(sum))
    IN  /\ cache' = CacheAfter(old, [p \in {writer.root, child} |->
                                       IF p = child THEN leaf ELSE content], a)
        /\ \/ /\ fits(leaf)
              /\ Modify(old, a, [p \in {page, root} |->
                                   IF p = page THEN Leaf(entries)
                                   ELSE changed(Leaf(entries))],
                        root)
           \/ /\ ~fits(leaf)
              /\ branch_fits(content)
              /\ Modify(old, a, [p \in {page, right, root} |->
                                   CASE p = page -> left_leaf
                                     [] p = right -> right_leaf
                                     [] OTHER -> InsertChild(changed(left_leaf),
                                                             SeparatorKey(entries), right,
                                                             checksum_page(right_leaf))],
                        root)

insert_below_branch(key, value) ==
    \E content \in Sees(writer.root) :
        /\ content.kind = "branch"
        /\ \E leaf \in Sees(child_page_id_for_key(content, key)) :
              leaf.kind = "leaf" /\ insert_below(content, leaf, key, value)

insert(key, value) ==
    /\ WriterIn("open")
    /\ \/ insert_root_leaf(key, value)
       \/ insert_below_branch(key, value)

\* The tag of a page the transaction has freed.  Mutant: the tag is that of the
\* snapshot the transaction started from.
FreedBefore(tx) == [i \in DOMAIN writer.freed |->
                      [page_id |-> writer.freed[i], transaction_id |-> tx - 1]]

Freed(tx) == [i \in DOMAIN writer.freed |->
                [page_id |-> writer.freed[i], transaction_id |-> tx]]

\* Mutant: a dropped transaction frees the pages it has copied.
abandon_freeing ==
    /\ WriterIn("open")
    /\ writer' = NoWriter
    /\ pending_free_pages' = pending_free_pages \o Freed(writer.tx)
    /\ UNCHANGED <<disk_vars, status, header, next_page_id, cache,
                   active_readers, reader, crashes, faults, history_vars>>

\* The transaction is dropped, or an insert has failed and commit returns
\* TransactionFailed.  The pages it took from the allocator are lost until the
\* file is opened again.
abandon ==
    /\ WriterIn("open")
    /\ writer' = NoWriter
    /\ UNCHANGED <<disk_vars, memory_vars, cache, active_readers, reader,
                   crashes, faults, history_vars>>

\* commit: the dirty pages will be written in any order.
commit ==
    /\ WriterIn("open")
    /\ writer' = [writer EXCEPT !.phase = "writing", !.todo = DOMAIN writer.dirty]
    /\ attempted' = attempted \cup {writer.holds}
    /\ UNCHANGED <<disk_vars, memory_vars, cache, active_readers, reader,
                   crashes, faults, stored, acked>>

write_page(p) ==
    /\ WriterIn("writing")
    /\ p \in writer.todo
    /\ file' = [file EXCEPT !.pages[p] = writer.dirty[p]]
    /\ written' = [written EXCEPT ![p] = @ \cup {writer.dirty[p]}]
    /\ cache' = [cache EXCEPT ![p] = writer.dirty[p]]
    /\ writer' = [writer EXCEPT !.todo = @ \ {p}]
    /\ UNCHANGED <<synced, memory_vars, active_readers, reader, crashes,
                   faults, history_vars>>

NewHeader ==
    with_commit(header, writer.root, writer.sum, writer.tx, next_page_id)

\* publish, first part: the header is written after all pages.
write_header ==
    /\ WriterIn("writing")
    /\ writer.todo = {}
    /\ file' = [file EXCEPT !.header = NewHeader]
    /\ written' = [written EXCEPT ![HEADER_PAGE_ID] = @ \cup {NewHeader}]
    /\ writer' = [writer EXCEPT !.phase = "syncing"]
    /\ UNCHANGED <<synced, memory_vars, cache, active_readers, reader, crashes,
                   faults, history_vars>>

\* Mutant: nothing is synced.
sync_nothing ==
    /\ WriterIn("syncing")
    /\ writer' = [writer EXCEPT !.phase = "publishing"]
    /\ UNCHANGED <<disk_vars, memory_vars, cache, active_readers, reader,
                   crashes, faults, history_vars>>

sync_data ==
    /\ WriterIn("syncing")
    /\ synced' = file
    /\ written' = NothingWritten
    /\ writer' = [writer EXCEPT !.phase = "publishing"]
    /\ UNCHANGED <<file, memory_vars, cache, active_readers, reader, crashes,
                   faults, history_vars>>

\* Readers that begin from here on see the new snapshot; then the pages it no
\* longer needs are freed, and commit returns.
publish ==
    /\ WriterIn("publishing")
    /\ header' = NewHeader
    /\ pending_free_pages' = pending_free_pages \o Freed(writer.tx)
    /\ stored' = Contents(file.pages, writer.root)
    /\ attempted' = {}
    /\ acked' = TRUE
    /\ writer' = NoWriter
    /\ UNCHANGED <<disk_vars, status, next_page_id, cache, active_readers,
                   reader, crashes, faults>>

\* Mutant: so does one whose commit fails.
commit_fails_freeing ==
    /\ faults < MaxFaults
    /\ faults' = faults + 1
    /\ WriterIn("writing") \/ WriterIn("syncing")
    /\ writer' = NoWriter
    /\ pending_free_pages' = pending_free_pages \o Freed(writer.tx)
    /\ UNCHANGED <<disk_vars, status, header, next_page_id, cache,
                   active_readers, reader, crashes, history_vars>>

\* A write or the sync returns an error and commit with it.
commit_fails ==
    /\ faults < MaxFaults
    /\ faults' = faults + 1
    /\ WriterIn("writing") \/ WriterIn("syncing")
    /\ writer' = NoWriter
    /\ UNCHANGED <<disk_vars, memory_vars, cache, active_readers, reader,
                   crashes, history_vars>>

write_transaction ==
    \/ begin_write \/ abandon \/ commit \/ write_header \/ sync_data \/ publish
    \/ commit_fails
    \/ \E key \in Key, value \in Value : insert(key, value)
    \/ \E p \in writer.todo : write_page(p)

-----------------------------------------------------------------------------
(* Read transactions. *)

\* begin_read copies the snapshot ...
begin_read(r) ==
    LET slot == active_slot(header)
    IN  /\ status = "up"
        /\ reader[r].phase = "idle"
        /\ reader' = [reader EXCEPT ![r].phase = "begun",
                                    ![r].tx = slot.transaction_id,
                                    ![r].root = slot.root_page_id,
                                    ![r].sees = Contents(file.pages, slot.root_page_id)]
        /\ UNCHANGED <<disk_vars, memory_vars, cache, active_readers, writer,
                       crashes, faults, history_vars>>

\* ... and only then tells the tracker.
register(r) ==
    /\ reader[r].phase = "begun"
    /\ reader' = [reader EXCEPT ![r].phase = "open"]
    /\ active_readers' = [active_readers EXCEPT ![reader[r].tx] = @ + 1]
    /\ UNCHANGED <<disk_vars, memory_vars, cache, writer, crashes, faults, history_vars>>

\* Tree::get looks for a key, at the root or, inside the loop, at a child.
Keys(r) == IF reader[r].phase = "reading" THEN {reader[r].key} ELSE Key
At(r) == IF reader[r].phase = "reading" THEN reader[r].page ELSE reader[r].root

\* The reader has a page: go on to the child, or be done.
Visit(r, key, content) ==
    LET branch == content.kind = "branch"
    IN  reader' = [reader EXCEPT
            ![r].phase = IF branch THEN "reading" ELSE "done",
            ![r].key = key,
            ![r].page = IF branch THEN child_page_id_for_key(content, key) ELSE 0,
            ![r].data = IF branch THEN Zero ELSE content]

read_cached(r) ==
    /\ reader[r].phase \in {"open", "done", "reading"}
    /\ cache[At(r)] # None
    /\ \E key \in Keys(r) : Visit(r, key, cache[At(r)])
    /\ UNCHANGED <<disk_vars, memory_vars, cache, active_readers, writer,
                   crashes, faults, history_vars>>

\* The page is not cached (any more): it is read from the file ...
read_file(r) ==
    /\ reader[r].phase \in {"open", "done", "reading"}
    /\ \E key \in Keys(r) :
          reader' = [reader EXCEPT ![r].phase = "read", ![r].key = key,
                                   ![r].page = At(r), ![r].data = file.pages[At(r)]]
    /\ cache' = [cache EXCEPT ![At(r)] = None]
    /\ UNCHANGED <<disk_vars, memory_vars, active_readers, writer, crashes,
                   faults, history_vars>>

\* ... and put into the cache in another step.
fill_cache(r) ==
    /\ reader[r].phase = "read"
    /\ cache' = [cache EXCEPT ![reader[r].page] = reader[r].data]
    /\ Visit(r, reader[r].key, reader[r].data)
    /\ UNCHANGED <<disk_vars, memory_vars, active_readers, writer, crashes,
                   faults, history_vars>>

\* Mutant: the entry is removed although others read the same snapshot.
untrack_all(tx) == [active_readers EXCEPT ![tx] = 0]

untrack(tx) == [active_readers EXCEPT ![tx] = @ - 1]

\* The ReadGuard is dropped.
end_read(r) ==
    /\ reader[r].phase \in {"open", "done"}
    /\ active_readers' = untrack(reader[r].tx)
    /\ reader' = [reader EXCEPT ![r] = NoReader]
    /\ UNCHANGED <<disk_vars, memory_vars, cache, writer, crashes, faults, history_vars>>

read_transaction(r) ==
    \/ begin_read(r) \/ register(r) \/ read_cached(r) \/ read_file(r)
    \/ fill_cache(r) \/ end_read(r)

-----------------------------------------------------------------------------
(* Crash and recovery. *)

\* verify_pages: "ok", or the error met first.
VerifyPage(image, page, sum) ==
    CASE page > image.length -> "past_end"
      [] page = image.length -> "io"
      [] image.pages[page] # sum -> "corrupt"
      [] OTHER -> "ok"

verify_pages(image, slot) ==
    LET root == VerifyPage(image, slot.root_page_id, slot.root_page_checksum)
        children == ChildrenOf(slot.root_page_checksum)
        child(i) == VerifyPage(image, children[i].page, children[i].sum)
        bad == {i \in DOMAIN children : child(i) # "ok"}
    IN  CASE root # "ok" -> root
          [] bad # {} -> child(Min(bad))
          [] OTHER -> "ok"

\* Mutant: only the active slot is tried.
recover_active(image) ==
    [status |-> IF verify_pages(image, active_slot(image.header)) = "ok"
                THEN "up" ELSE verify_pages(image, active_slot(image.header)),
     header |-> image.header]

\* Only a checksum that does not match makes recovery try the other slot.
recover_header(image) ==
    LET active == verify_pages(image, active_slot(image.header))
        inactive == verify_pages(image, inactive_slot(image.header))
    IN  CASE active = "ok" -> [status |-> "up", header |-> image.header]
          [] active # "ok" /\ active # "corrupt" ->
                [status |-> active, header |-> image.header]
          [] active = "corrupt" /\ inactive = "ok" ->
                [status |-> "up", header |-> switch_to_inactive_slot(image.header)]
          [] OTHER -> [status |-> inactive, header |-> image.header]

\* The pages that verify_pages reads, and so caches, up to the first bad one.
VerifiedPages(image, slot) ==
    LET children == ChildrenOf(slot.root_page_checksum)
        child(i) == VerifyPage(image, children[i].page, children[i].sum)
        root == VerifyPage(image, slot.root_page_id, slot.root_page_checksum)
    IN  {slot.root_page_id} \cup
        {children[i].page : i \in {i \in DOMAIN children : root = "ok" /\
                                    \A j \in 1..(i - 1) : child(j) = "ok"}}

CacheAfterRecovery(image) ==
    LET active == active_slot(image.header)
        tried == VerifiedPages(image, active) \cup
                 (IF verify_pages(image, active) = "ok" THEN {}
                  ELSE VerifiedPages(image, inactive_slot(image.header)))
    IN  [p \in Page |-> IF p \in tried THEN image.pages[p] ELSE None]

\* The file is opened again: everything in memory is new, the free pages are
\* forgotten, and nothing is written.
open_existing(image) ==
    LET outcome == IF image.header = None
                   THEN [status |-> "no header", header |-> header]
                   ELSE recover_header(image)
        slot == active_slot(outcome.header)
        up == outcome.status = "up"
    IN  /\ file' = image
        /\ synced' = image
        /\ written' = NothingWritten
        /\ status' = outcome.status
        /\ header' = outcome.header
        /\ next_page_id' = slot.next_page_id
        /\ pending_free_pages' = <<>>
        /\ cache' = IF up THEN CacheAfterRecovery(image) ELSE NoCache
        /\ active_readers' = [t \in 0..MaxTx |-> 0]
        /\ stored' = IF up THEN Contents(image.pages, slot.root_page_id) ELSE None

\* What a crash may leave in a page: what was synced, any later write, or a
\* part of one.
Survivors(p) ==
    {synced.pages[p]} \cup written[p] \cup (IF written[p] = {} THEN {} ELSE {Torn})

\* The header fits into one sector and is never torn.
HeaderSurvivors == {synced.header} \cup written[HEADER_PAGE_ID]

LengthSurvivors == {file.length} \cup (IF LengthFirst THEN {} ELSE {synced.length})

\* The files a crash may leave behind; beyond its length a file holds nothing.
Images ==
    LET doubt == {p \in Page : written[p] # {}}
        kept == {f \in [doubt -> UNION {Survivors(p) : p \in doubt}] :
                   \A p \in doubt : f[p] \in Survivors(p)}
    IN  {[header |-> IF length = 0 THEN None ELSE h,
          length |-> length,
          pages |-> [p \in Page |-> IF p >= length THEN Zero
                                    ELSE IF p \in doubt THEN f[p]
                                    ELSE synced.pages[p]]] :
            h \in HeaderSurvivors, length \in LengthSurvivors, f \in kept}

\* The machine stops at any moment and the file is opened again.
crash ==
    /\ status = "up"
    /\ crashes < MaxCrashes
    /\ crashes' = crashes + 1
    /\ \E image \in Images : open_existing(image)
    /\ writer' = NoWriter
    /\ reader' = [r \in Reader |-> NoReader]
    /\ UNCHANGED <<faults, attempted, acked>>

-----------------------------------------------------------------------------
Next ==
    \/ write_transaction
    \/ \E r \in Reader : read_transaction(r)
    \/ crash

Spec == Init /\ [][Next]_vars

-----------------------------------------------------------------------------
(* Properties. *)

Files == [header : Headers \cup {None}, length : Nat, pages : [Page -> Content]]

\* What a tree holds; nothing while there is no transaction.
Maps == [Key -> Value \cup {None}] \cup {<<>>}

ASSUME NoMapAssumption == None \notin Maps   \* nothing is stored, or read

TypeOK ==
    /\ file \in Files /\ synced \in Files
    /\ \A p \in Page : written[p] \subseteq Content
    /\ written[HEADER_PAGE_ID] \subseteq Headers
    /\ status \in {"up", "no header", "corrupt", "io", "past_end"}
    /\ header \in Headers
    /\ next_page_id \in 2..MaxPages
    /\ pending_free_pages \in Seq([page_id : Page, transaction_id : 1..MaxTx])
    /\ cache \in [Page -> Content \cup {None}]
    /\ active_readers \in [0..MaxTx -> 0..Cardinality(Reader)]
    /\ DOMAIN writer.dirty \subseteq Page
    /\ writer \in [phase : {"none", "open", "writing", "syncing", "publishing"},
                   tx : 0..MaxTx, root : Page \cup {0}, sum : Content,
                   dirty : [DOMAIN writer.dirty -> Content],
                   freed : Seq(Page), todo : SUBSET Page, holds : Maps]
    /\ reader \in [Reader ->
                   [phase : {"idle", "begun", "open", "reading", "read", "done"},
                    tx : 0..MaxTx, root : Page \cup {0}, key : Key \cup {None},
                    page : Page \cup {0}, data : Content, sees : Maps]]

\* A read transaction finds, for every key and however long it stays open, what
\* the store held when it began: no page of the snapshot is reused before its
\* ReadGuard is dropped.
SnapshotIsolation ==
    \A r \in Reader :
        reader[r].phase = "done"
          => /\ reader[r].data.kind = "leaf"
             /\ get_value(reader[r].data, reader[r].key)
                  = reader[r].sees[reader[r].key]

\* A cached page is the page in the file, although read_page fills the cache
\* after it has read the file and pages are reused under their old ids.
CacheIsCurrent ==
    \A p \in Page : cache[p] # None => cache[p] = file.pages[p]

\* The write transaction never works on a page of the tree a crash would fall
\* back to, and no page is handed out twice: no page is free and in the current
\* tree, free and dirty, or twice in the queue (the assertion "is already dirty
\* in this transaction" of DirtyPageTracker::add).
AllocatedPagesAreUnused ==
    LET tree == TreePages(file.pages, active_slot(header).root_page_id)
        free == {pending_free_pages[i].page_id : i \in DOMAIN pending_free_pages}
    IN  status = "up" =>
          /\ DOMAIN writer.dirty \cap tree = {}
          /\ free \cap (tree \cup DOMAIN writer.dirty) = {}
          /\ Cardinality(free) = Len(pending_free_pages)
          /\ \A p \in free \cup tree \cup DOMAIN writer.dirty : p < next_page_id

\* Once a commit has returned Ok, the file can always be opened again: a crash
\* at any point of a later commit leaves the tree of one of the two slots whole.
StaysOpenable == acked => status = "up"

Snapshots == INSTANCE KvSnapshots WITH
    store <- stored,
    draft <- IF writer.phase = "none" THEN None ELSE writer.holds,
    doubt <- attempted,
    durable <- acked,
    snapshot <- [r \in Reader |-> IF reader[r].phase = "idle" THEN None
                                  ELSE reader[r].sees],
    answer <- [r \in Reader |-> IF reader[r].phase # "done" THEN None
                                ELSE <<reader[r].key,
                                       get_value(reader[r].data, reader[r].key)>>]

\* The store is the map of KvSnapshots.  What trees hold is what the inserts have
\* put into them, a commit takes effect at one moment and as a
\* whole, a read transaction finds what the store held when it began, and after a
\* crash the store holds the last commit that has returned, or one in doubt: never
\* less, and never a mixture.
ImplementsSnapshots == Snapshots!Spec
=============================================================================
