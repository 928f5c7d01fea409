---------------------------- MODULE KvSnapshots ----------------------------
(***************************************************************************)
(* What the kv store promises: a map that one write transaction at a time  *)
(* replaces as a whole, readers that see the map as it was when they       *)
(* began, and crashes that lose no commit that has returned.               *)
(***************************************************************************)
CONSTANTS Key, Value, Reader,
          None   \* no value, no transaction, no answer, no store

VARIABLES
    store,     \* what the last commit has left
    draft,     \* what the write transaction would leave
    doubt,     \* what commits may have left that were under way or have failed
    durable,   \* whether a commit has returned
    snapshot,  \* what each read transaction sees
    answer     \* the last answer of each read transaction

vars == <<doubt, durable, snapshot, answer, store, draft>>

Init ==
    /\ store = [k \in Key |-> None]
    /\ draft = None
    /\ doubt = {}
    /\ durable = FALSE
    /\ snapshot = [r \in Reader |-> None]
    /\ answer = [r \in Reader |-> None]

-----------------------------------------------------------------------------
BeginWrite ==
    /\ draft = None
    /\ store # None
    /\ draft' = store
    /\ UNCHANGED <<doubt, durable, snapshot, answer, store>>

Put ==
    /\ draft # None
    /\ draft' \notin {None, draft}
    /\ \E k \in Key : /\ draft'[k] \in Value
                      /\ draft' = [draft EXCEPT ![k] = draft'[k]]
    /\ UNCHANGED <<doubt, durable, snapshot, answer, store>>

\* From here on a crash may keep the draft.
StartCommit ==
    /\ doubt' # doubt
    /\ draft # None
    /\ doubt' = doubt \cup {draft}
    /\ UNCHANGED <<durable, snapshot, answer, store, draft>>

Commit ==
    /\ durable'
    /\ doubt' = {}
    /\ draft \in doubt
    /\ store' = draft
    /\ draft' = None
    /\ UNCHANGED <<snapshot, answer>>

Abort ==
    /\ draft # None
    /\ draft' = None
    /\ UNCHANGED <<doubt, durable, snapshot, answer, store>>

BeginRead(r) ==
    /\ snapshot[r] = None /\ snapshot'[r] # None
    /\ store # None
    /\ snapshot' = [snapshot EXCEPT ![r] = store]
    /\ UNCHANGED <<doubt, durable, answer, store, draft>>

Read(r, k) ==
    /\ snapshot[r] # None
    /\ answer' = [answer EXCEPT ![r] = <<k, snapshot[r][k]>>]
    /\ UNCHANGED <<doubt, durable, snapshot, store, draft>>

\* The reader turns to another key.
Forget(r) ==
    /\ answer[r] # None
    /\ answer' = [answer EXCEPT ![r] = None]
    /\ UNCHANGED <<doubt, durable, snapshot, store, draft>>

EndRead(r) ==
    /\ snapshot[r] # None
    /\ snapshot' = [snapshot EXCEPT ![r] = None]
    /\ answer' = [answer EXCEPT ![r] = None]
    /\ UNCHANGED <<doubt, durable, store, draft>>

\* A commit that has returned stays.  One in doubt may come back at any crash until
\* the next commit returns, also when an earlier crash had undone it: recovery
\* leaves its header in the file.  A store to which nothing was ever committed may
\* be lost.
Crash ==
    /\ draft' = None
    /\ snapshot' = [r \in Reader |-> None]
    /\ answer' = [r \in Reader |-> None]
    /\ store' \in {store} \cup doubt \cup (IF durable THEN {} ELSE {None})
    /\ UNCHANGED <<doubt, durable>>

Next ==
    \/ BeginWrite \/ Put \/ StartCommit \/ Commit \/ Abort \/ Crash
    \/ \E r \in Reader :
          BeginRead(r) \/ Forget(r) \/ EndRead(r) \/ \E k \in Key : Read(r, k)

Spec == Init /\ [][Next]_vars
=============================================================================
