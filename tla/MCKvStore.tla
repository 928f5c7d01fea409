----------------------------- MODULE MCKvStore -----------------------------
(* The kv store on a few keys, pages and transactions. *)
EXTENDS KvStoreInvariants

Symmetry == Permutations(Value) \cup Permutations(Reader)

\* Pages that somebody can still come to from a root or is about to read; the
\* others are written before they are read again.
Live ==
    LET trees == {active_slot(header).root_page_id} \cup
                 {reader[r].root : r \in {r \in Reader : reader[r].phase # "idle"}}
        under(p) == IF file.pages[p].kind = "branch" THEN TreePages(file.pages, p)
                    ELSE {p}
    IN  UNION {under(p) : p \in trees} \cup DOMAIN writer.dirty
          \cup {reader[r].page : r \in {r \in Reader : reader[r].phase = "reading"}}

\* A page may be evicted at any moment, and then to read it from the file and to
\* cache it does what to read the cached copy does: that a page is cached makes a
\* difference only when the copy is stale.
Pages == [p \in Page |->
            <<IF p \in Live THEN file.pages[p] ELSE Zero,
              IF cache[p] = file.pages[p] THEN None ELSE cache[p]>>]

\* A reader that was answered rightly can do what it could do before.
Answered(r) ==
    /\ reader[r].phase = "done"
    /\ reader[r].data.kind = "leaf"
    /\ get_value(reader[r].data, reader[r].key) = reader[r].sees[reader[r].key]

Readers ==
    [r \in Reader |->
        IF Answered(r) THEN [reader[r] EXCEPT !.phase = "open", !.key = None,
                                              !.page = 0, !.data = Zero]
        ELSE reader[r]]

Shared == <<status, next_page_id, pending_free_pages, active_readers, writer,
            Readers, crashes, faults, acked>>

\* Once no crash is left, nobody reads what is durable, the header in the file
\* or the inactive slot.
View == IF crashes < MaxCrashes
        THEN <<Shared, header, disk_vars, cache, attempted>>
        ELSE <<Shared, active_slot(header), file.length, Pages>>
=============================================================================
