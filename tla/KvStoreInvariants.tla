------------------------- MODULE KvStoreInvariants -------------------------
(***************************************************************************)
(* The inductive invariant of the kv store: which pages belong to whom.    *)
(* Every page below next_page_id is in the current tree, free, dirty, or   *)
(* lost; a page of the tree that some reader still sees is not handed out  *)
(* before the reader is gone.                                              *)
(***************************************************************************)
EXTENDS KvStore

-----------------------------------------------------------------------------
(* Trees.  The checksum of a page is its content, so that the root and its  *)
(* checksum name the whole tree.                                            *)

Tree(root, sum) == {root} \cup {child.page : child \in Range(ChildrenOf(sum))}

\* A leaf, or a branch over leaves of their own; all pages are below `next'.
WellFormed(root, sum, next) ==
    LET children == ChildrenOf(sum)
    IN  /\ root \in 1..(next - 1)
        /\ sum \in Leaves \cup Branches
        /\ \A i \in DOMAIN children :
              /\ children[i].page \in 1..(next - 1)
              /\ children[i].page # root
              /\ \A j \in DOMAIN children : children[j].page = children[i].page => j = i

\* The pages are those of the tree.
Held(pages, root, sum) ==
    LET children == ChildrenOf(sum)
    IN  /\ pages[root] = sum
        /\ \A i \in DOMAIN children : pages[children[i].page] = children[i].sum

\* The page of the leaf that has the key.
LeafPage(pages, root, key) ==
    IF pages[root].kind = "branch" THEN child_page_id_for_key(pages[root], key) ELSE root

-----------------------------------------------------------------------------
(* The allocator and the write transaction. *)

Current == active_slot(header)
CurrentTree == Tree(Current.root_page_id, Current.root_page_checksum)
Draft == Tree(writer.root, writer.sum)
Free == {pending_free_pages[i].page_id : i \in DOMAIN pending_free_pages}
Dirty == DOMAIN writer.dirty

SlotOK(slot) ==
    WellFormed(slot.root_page_id, slot.root_page_checksum, slot.next_page_id)

\* Both slots of any header that memory or the disk has are trees.
SlotsAreTrees ==
    /\ \A s \in 0..1 : SlotOK(header.commit_slots[s])
    /\ \A h \in ({file.header, synced.header} \cup written[HEADER_PAGE_ID]) \ {None} :
          \A s \in 0..1 : SlotOK(h.commit_slots[s])

CurrentIsHeld ==
    status = "up" =>
        /\ Held(file.pages, Current.root_page_id, Current.root_page_checksum)
        /\ Current.next_page_id <= next_page_id

\* No page has two uses.
PagesAreApart ==
    /\ \A i, j \in DOMAIN pending_free_pages :
          pending_free_pages[i].page_id = pending_free_pages[j].page_id => i = j
    /\ \A p \in Free : p < next_page_id /\ p \notin CurrentTree /\ p \notin Dirty
    /\ \A p \in Dirty : p < next_page_id /\ p \notin CurrentTree

\* The transaction's tree is made of its own pages and of those of the current tree;
\* what it frees is of the current tree and no more of its own.
DraftIsHeld ==
    /\ writer.phase = "none" => writer = NoWriter
    /\ writer.phase # "none" =>
          /\ status = "up"
          /\ writer.tx = Current.transaction_id + 1
          /\ WellFormed(writer.root, writer.sum, next_page_id)
          /\ Held(Over(writer.dirty, file.pages), writer.root, writer.sum)
          /\ \A p \in Draft : p \in CurrentTree \/ p \in Dirty
          /\ \A i \in DOMAIN writer.freed :
                /\ writer.freed[i] \in CurrentTree /\ writer.freed[i] \notin Draft
                /\ \A j \in DOMAIN writer.freed : writer.freed[j] = writer.freed[i] => j = i

\* The pages that commit has written, all of them before the header is.
DirtyIsWritten ==
    /\ writer.phase \in {"writing", "syncing", "publishing"} =>
          \A p \in Dirty : p \in writer.todo \/ file.pages[p] = writer.dirty[p]
    /\ writer.phase \in {"syncing", "publishing"} => writer.todo = {}
    /\ writer.todo \subseteq Dirty

-----------------------------------------------------------------------------
(* The read transactions. *)

Snapshot(r) == TreePages(file.pages, reader[r].root)

Registered == {r \in Reader : reader[r].phase \notin {"idle", "begun"}}

ReadersAreTracked ==
    active_readers = [t \in 0..MaxTx |-> Cardinality({r \in Registered : reader[r].tx = t})]

\* The pages of a snapshot are not dirty, and in the queue only behind the reader.
SnapshotIsKept(r) ==
    /\ status = "up"
    /\ reader[r].tx <= Current.transaction_id
    /\ WellFormed(reader[r].root, file.pages[reader[r].root], next_page_id)
    /\ Held(file.pages, reader[r].root, file.pages[reader[r].root])
    /\ \A p \in Snapshot(r) : p \notin Dirty
    /\ \A i \in DOMAIN pending_free_pages :
          pending_free_pages[i].page_id \in Snapshot(r)
            => pending_free_pages[i].transaction_id > reader[r].tx
    /\ reader[r].phase = "begun" => reader[r].root = Current.root_page_id
    /\ reader[r].sees = Contents(file.pages, reader[r].root)

\* A reader is at a page of its snapshot, on the way to its key or there.
ReaderIsAt(r) ==
    LET way == LeafPage(file.pages, reader[r].root, reader[r].key)
    IN  /\ reader[r].phase \in {"reading", "read", "done"} => reader[r].key \in Key
        /\ reader[r].phase = "reading" => reader[r].page = way
        /\ reader[r].phase = "read" => /\ reader[r].page \in {reader[r].root, way}
                                       /\ reader[r].data = file.pages[reader[r].page]
        /\ reader[r].phase = "done" => reader[r].data = file.pages[way]

SnapshotsAreKept ==
    \A r \in Reader : reader[r].phase # "idle" => SnapshotIsKept(r) /\ ReaderIsAt(r)

StoreInv ==
    /\ TypeOK
    /\ SlotsAreTrees /\ CurrentIsHeld /\ PagesAreApart /\ DraftIsHeld /\ DirtyIsWritten
    /\ CacheIsCurrent /\ ReadersAreTracked /\ SnapshotsAreKept

-----------------------------------------------------------------------------
(* What a crash leaves.  A new length is on the disk before any write that follows    *)
(* it; without that (LengthFirst) a slot may name pages past the end of the file.     *)

\* The file has all pages that any slot names.
FileIsLong ==
    /\ next_page_id <= file.length
    /\ \A h \in ({header, file.header, synced.header} \cup written[HEADER_PAGE_ID]) \ {None} :
          \A s \in 0..1 : h.commit_slots[s].next_page_id <= file.length

\* Between the sync and the switch in memory the disk is ahead.
DiskIsAhead ==
    /\ writer.phase \in {"syncing", "publishing"} => file.header = NewHeader
    /\ writer.phase = "publishing" =>
          synced = file /\ \A p \in Page \cup {HEADER_PAGE_ID} : written[p] = {}

\* Once a commit has returned, the current tree is on the disk, no write touches it,
\* and one slot of every header that may be there names it.
CurrentIsDurable ==
    acked =>
        /\ status = "up"
        /\ \A p \in CurrentTree : written[p] = {} /\ synced.pages[p] = file.pages[p]
        /\ \A h \in {synced.header} \cup written[HEADER_PAGE_ID] :
              /\ h # None
              /\ \/ writer.phase = "publishing"
                 \/ Current = active_slot(h) \/ Current = inactive_slot(h)

DurableInv == StoreInv /\ FileIsLong /\ DiskIsAhead /\ CurrentIsDurable

-----------------------------------------------------------------------------
(* What trees hold.  A checksum names the whole tree and so all that it holds. *)

LeafOf(sum, key) ==
    IF sum.kind = "branch" THEN sum.children[child_index_for_key(sum, key)].sum ELSE sum

Holding(sum) == [k \in Key |-> get_value(LeafOf(sum, k), k)]

\* Every key is in the leaf that a search for it comes to.
Sorted(sum) ==
    sum.kind = "branch" =>
        \A i \in DOMAIN sum.children : \A k \in DOMAIN sum.children[i].sum.entries :
            child_index_for_key(sum, k) = i

TreesAreSorted ==
    /\ \A h \in ({header, file.header, synced.header} \cup written[HEADER_PAGE_ID]) \ {None} :
          \A s \in 0..1 : Sorted(h.commit_slots[s].root_page_checksum)
    /\ writer.phase # "none" => Sorted(writer.sum)

\* The maps that the history remembers are those of the trees.
HistoryHolds ==
    /\ stored = IF status = "up" THEN Holding(Current.root_page_checksum) ELSE None
    /\ writer.phase # "none" => writer.holds = Holding(writer.sum)
    /\ writer.phase \in {"writing", "syncing", "publishing"} => writer.holds \in attempted

\* The tree that a header on the disk offers is the current one or that of a commit
\* in doubt; where recovery would go on to the other slot, that one is the current one,
\* or the current one is there as a whole.
HeadersAreKnown ==
    status = "up" =>
        \A h \in ({synced.header} \cup written[HEADER_PAGE_ID]) \ {None} :
            \/ /\ Current = active_slot(h)
               /\ \/ \A p \in CurrentTree : written[p] = {} /\ synced.pages[p] = file.pages[p]
                  \/ inactive_slot(h) = active_slot(h)
            \/ /\ Current = inactive_slot(h)
               /\ Holding(active_slot(h).root_page_checksum) \in attempted

ContentInv == DurableInv /\ TreesAreSorted /\ HistoryHolds /\ HeadersAreKnown
=============================================================================
