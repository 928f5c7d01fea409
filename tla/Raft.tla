------------------------------- MODULE Raft --------------------------------
(***************************************************************************)
(* A raft-rs cluster: the nodes, what each of them has saved, the messages *)
(* between them and the clients of RaftHandle::apply.                      *)
(*                                                                         *)
(* Every action is one branch of the select! loop of RaftNode::launch run  *)
(* to completion: the loop awaits nothing but its own events, so handlers  *)
(* of one node never interleave.                                           *)
(*                                                                         *)
(* A message in msgs has been accepted by the sender's worker channel and  *)
(* not yet been handled.  The transport may lose it and may reorder it; it *)
(* never delivers what was sent once twice.  Periodic heartbeats, however, *)
(* put identical AppendRequests in flight, so delivering append traffic    *)
(* may leave an identical copy behind.                                     *)
(***************************************************************************)
EXTENDS RaftNode

CONSTANTS
    ChannelCapacity, \* bound: messages per worker channel (128 in the code)
    MaxInFlight,     \* bound: messages in flight in the whole cluster
    Lossy,           \* whether the transport loses and repeats messages
    MaxTerm,         \* bound: no election beyond this term
    MaxRestarts,     \* bound: crashes of any node
    StorageFaults    \* whether save_state may fail

ASSUME BoundsAssumption == /\ ChannelCapacity \in Nat /\ MaxTerm \in Nat
                           /\ MaxInFlight \in Nat /\ MaxRestarts \in Nat
                           /\ Lossy \in BOOLEAN
                           /\ StorageFaults \in BOOLEAN

VARIABLES
    node,     \* the RaftNode of each id
    disk,     \* what each node's RaftStorage holds
    msgs,     \* the messages in flight
    client,   \* what the submitter of each command knows
    restarts  \* how many crashes there were

(* History: read by properties, never by an action's guard. *)
VARIABLES
    votes,    \* every vote cast, [voter, term, candidate]
    counted,  \* the voters a candidate has counted so far
    decided   \* the longest sequence of entries any node has ever applied

vars == <<node, disk, msgs, client, restarts, votes, counted, decided>>

Vote(voter, term, candidate) ==
    [voter |-> voter, term |-> term, candidate |-> candidate]

Outcome == [status : {"idle", "waiting", "ok", "rejected", "dropped"},
            output : Command \cup {Nil}]

Status(s) == [status |-> s, output |-> Nil]

TypeOK ==
    /\ node \in [Node -> NodeState]
    /\ disk \in [Node -> Saved]
    /\ msgs \subseteq Message
    /\ client \in [Command -> Outcome]
    /\ restarts \in Nat
    /\ votes \subseteq [voter : Node, term : Nat, candidate : Node]
    /\ counted \in [Node -> SUBSET Node]
    /\ decided \in Seq(Entry)

Init ==
    /\ node = [i \in Node |-> restore_state(Fresh)]
    /\ disk = [i \in Node |-> Fresh]
    /\ msgs = {}
    /\ client = [c \in Command |-> Status("idle")]
    /\ restarts = 0
    /\ votes = {}
    /\ counted = [i \in Node |-> {}]
    /\ decided = <<>>

-----------------------------------------------------------------------------
(* The pieces handlers share. *)

Peers(i) == Node \ {i}

\* try_send: a message for a full worker channel is dropped.
Accepted(rest, out) ==
    {m \in out : Cardinality({q \in rest : q.from = m.from /\ q.to = m.to})
                    < ChannelCapacity}

\* `out' is sent.  What the transport loses, it loses at once: a message that
\* is lost later is one that was never put in flight.
send_message(rest, out) ==
    \E kept \in (IF Lossy THEN SUBSET Accepted(rest, out)
                 ELSE {Accepted(rest, out)}) :
        /\ Cardinality(rest \cup kept) <= MaxInFlight
        /\ msgs' = rest \cup kept

\* m is handled and `out' is sent; a copy of m may be on its way.
Receive(m, out) ==
    \/ send_message(msgs \ {m}, out)
    \/ /\ Lossy
       /\ m.type \in {"AppendRequest", "AppendResponse"}
       /\ send_message(msgs, out)

\* The handler's last save is of n, after saves of the states in `earlier'.
\* persist_state only logs a failing save_state and goes on.
persist_state(i, n, earlier) ==
    \E saved \in {PersistentState(n)} \cup
                 (IF StorageFaults
                  THEN {disk[i]} \cup {PersistentState(e) : e \in earlier}
                  ELSE {}) :
        disk' = [disk EXCEPT ![i] = saved]

on_heartbeat(i, n) == {AppendRequest(i, j, n) : j \in Peers(i)}

\* The oneshot senders of these pending requests are dropped.
Drop(cl, lost) ==
    [c \in Command |-> IF \E p \in lost : p.request = c
                       THEN Status("dropped") ELSE cl[c]]

Answer(cl, answers) ==
    [c \in Command |->
        IF \E r \in answers : r.request = c
        THEN [status |-> "ok",
              output |-> (CHOOSE r \in answers : r.request = c).output]
        ELSE cl[c]]

\* Node i ends its handler in state n, its clients in cl.
Finish(i, n, cl, voters) ==
    /\ node' = [node EXCEPT ![i] = n]
    /\ client' = cl
    /\ counted' = [counted EXCEPT ![i] = voters]
    /\ decided' = IF Len(n.applied) > Len(decided) THEN n.applied ELSE decided

\* advance_commit and apply_committed after n's log or match_index changed.
Commit(n) == apply_committed(advance_commit(n))
CommitReplies(n) == replies(advance_commit(n))

-----------------------------------------------------------------------------
(* Elections. *)

\* The election deadline passes.
become_candidate(i) ==
    LET n == start_election(i, node[i])
        l == become_leader(n)
    IN  /\ node[i].role # "Leader"
        /\ node[i].current_term < MaxTerm
        /\ votes' = votes \cup {Vote(i, n.current_term, i)}
        /\ UNCHANGED restarts
        /\ \/ /\ has_majority(1, ClusterSize)
              /\ persist_state(i, l, {})
              /\ Finish(i, Commit(l), Answer(client, CommitReplies(l)), {})
              /\ send_message(msgs, on_heartbeat(i, Commit(l)))
           \/ /\ ~has_majority(1, ClusterSize)
              /\ persist_state(i, n, {})
              /\ Finish(i, n, client, {i})
              /\ send_message(msgs, {VoteRequest(i, j, n) : j \in Peers(i)})

\* A vote request of an older term.
vote_request_stale(m) ==
    LET i == m.to
        n == node[i]
    IN  /\ m.term < n.current_term
        /\ Receive(m, {VoteResponse(i, m.from, n.current_term, FALSE)})
        /\ UNCHANGED <<node, disk, client, restarts, votes, counted, decided>>

\* The node as it decides on a request: a later term makes it a follower.
Observed(n, term) ==
    IF term > n.current_term THEN become_follower(n, term) ELSE n

\* A candidacy ends when a later term is observed.
VotersKept(m) == IF m.term > node[m.to].current_term THEN {} ELSE counted[m.to]

\* Mutant: the vote already cast in this term is not looked at.
GrantsVoteAgain(n, m) == UpToDate(m.last_log_term, m.last_log_index, n.log)

GrantsVote(n, m) ==
    /\ n.voted_for \in {Nil, m.from}
    /\ UpToDate(m.last_log_term, m.last_log_index, n.log)

vote_request_grant(m) ==
    LET i == m.to
        o == Observed(node[i], m.term)
        n == [o EXCEPT !.voted_for = m.from]
    IN  /\ m.term >= node[i].current_term
        /\ GrantsVote(o, m)
        /\ persist_state(i, n, {o})
        /\ Receive(m, {VoteResponse(i, m.from, n.current_term, TRUE)})
        /\ Finish(i, n, client, VotersKept(m))
        /\ votes' = votes \cup {Vote(i, n.current_term, m.from)}
        /\ UNCHANGED restarts

vote_request_reject(m) ==
    LET i == m.to
        n == Observed(node[i], m.term)
    IN  /\ m.term >= node[i].current_term
        /\ ~GrantsVote(n, m)
        /\ IF m.term > node[i].current_term
           THEN persist_state(i, n, {})
           ELSE UNCHANGED disk
        /\ Receive(m, {VoteResponse(i, m.from, n.current_term, FALSE)})
        /\ Finish(i, n, client, VotersKept(m))
        /\ UNCHANGED <<restarts, votes>>

vote_request(m) ==
    /\ m.type = "VoteRequest"
    /\ vote_request_stale(m) \/ vote_request_grant(m) \/ vote_request_reject(m)

\* A response of a later term: step down and do nothing else.
step_down(m) ==
    LET n == become_follower(node[m.to], m.term)
    IN  /\ m.term > node[m.to].current_term
        /\ persist_state(m.to, n, {})
        /\ Receive(m, {})
        /\ Finish(m.to, n, client, {})
        /\ UNCHANGED <<restarts, votes>>

\* A response nothing is done with.
ignore(m) ==
    /\ Receive(m, {})
    /\ UNCHANGED <<node, disk, client, restarts, votes, counted, decided>>

\* One more vote; votes_received is a number, not a set of voters.
count_vote(m) ==
    LET i == m.to
        n == [node[i] EXCEPT !.votes_received = @ + 1]
        l == become_leader(n)
    IN  /\ node[i].role = "Candidate" /\ m.vote_granted
        /\ \/ /\ has_majority(n.votes_received, ClusterSize)
              /\ persist_state(i, l, {})
              /\ Finish(i, Commit(l), Answer(client, CommitReplies(l)), {})
              /\ Receive(m, on_heartbeat(i, Commit(l)))
           \/ /\ ~has_majority(n.votes_received, ClusterSize)
              /\ Finish(i, n, client, counted[i] \cup {m.from})
              /\ Receive(m, {})
              /\ UNCHANGED disk
        /\ UNCHANGED <<restarts, votes>>

vote_response(m) ==
    /\ m.type = "VoteResponse"
    /\ \/ m.term < node[m.to].current_term /\ ignore(m)
       \/ step_down(m)
       \/ m.term = node[m.to].current_term /\ count_vote(m)
       \/ /\ m.term = node[m.to].current_term
          /\ ~(node[m.to].role = "Candidate" /\ m.vote_granted)
          /\ ignore(m)
-----------------------------------------------------------------------------
(* Replication. *)

\* The leader's interval timer ticks.
heartbeat(i) ==
    /\ node[i].role = "Leader"
    /\ send_message(msgs, on_heartbeat(i, node[i]))
    /\ UNCHANGED <<node, disk, client, restarts, votes, counted, decided>>

append_request_stale(m) ==
    LET i == m.to
        n == node[i]
    IN  /\ m.term < n.current_term
        /\ Receive(m, {AppendResponse(i, m.from, n.current_term, 0, FALSE)})
        /\ UNCHANGED <<node, disk, client, restarts, votes, counted, decided>>

StepsDown(n, m) == m.term > n.current_term \/ n.role = "Candidate"

\* The follower that checks the request, its leader known.
Following(n, m) ==
    LET f == IF StepsDown(n, m) THEN become_follower(n, m.term) ELSE n
    IN  [f EXCEPT !.current_leader_id = IF @ = Nil THEN m.from ELSE @]

\* Mutant: prev_log_term is not compared.
HoldsPreviousIndex(log, m) == m.prev_log_index <= Len(log)

HoldsPrevious(log, m) ==
    /\ m.prev_log_index <= Len(log)
    /\ TermAt(log, m.prev_log_index) = m.prev_log_term

\* The entry before the request's entries is missing or of another term.
append_request_mismatch(m) ==
    LET i == m.to
        n == Following(node[i], m)
        hint == IF m.prev_log_index > Len(n.log) THEN Len(n.log)
                ELSE m.prev_log_index
    IN  /\ ~HoldsPrevious(n.log, m)
        /\ IF StepsDown(node[i], m) THEN persist_state(i, n, {})
                                    ELSE UNCHANGED disk
        /\ Receive(m, {AppendResponse(i, m.from, n.current_term, hint, FALSE)})
        /\ Finish(i, n, client, {})

\* What the follower tells the leader it holds: what this request covered.
last_match_index(m, log) == m.prev_log_index + Len(m.entries)

append_request_accept(m) ==
    LET i == m.to
        f == Following(node[i], m)
        log == AppendEntries(f.log, m.prev_log_index, m.entries)
        n == [f EXCEPT !.log = log,
                       !.commit_index = IF m.leader_commit > @
                                        THEN Min({m.leader_commit, Len(log)})
                                        ELSE @]
    IN  /\ HoldsPrevious(f.log, m)
        /\ persist_state(i, n, {f})
        /\ Receive(m, {AppendResponse(i, m.from, n.current_term,
                                    last_match_index(m, log), TRUE)})
        /\ Finish(i, apply_committed(n), Answer(client, replies(n)), {})

\* A leader that receives a request of its own term panics ("two leaders
\* detected in the same term"): no step, and ElectionSafety says never.
append_request(m) ==
    /\ m.type = "AppendRequest"
    /\ \/ append_request_stale(m)
       \/ /\ m.term >= node[m.to].current_term
          /\ ~(node[m.to].role = "Leader" /\ m.term = node[m.to].current_term)
          /\ append_request_mismatch(m) \/ append_request_accept(m)
          /\ UNCHANGED <<restarts, votes>>

\* Mutants: without max(1), without the saturation, and trying the same index
\* again.
backoff_to_zero(match_index) == Max({match_index - 1, 0})
backoff_unsaturated(match_index) == match_index - 1
backoff_never(match_index) == match_index + 1

\* match_index.saturating_sub(1).max(1)
backoff(match_index) == Max({match_index - 1, 1})

\* The leader learns what a peer holds, or where to try next.
append_response_handled(m) ==
    LET i == m.to
        n == IF m.success
             THEN [node[i] EXCEPT !.match_index[m.from] = m.match_index,
                                  !.next_index[m.from] = m.match_index + 1]
             ELSE [node[i] EXCEPT !.next_index[m.from] = backoff(m.match_index)]
    IN  /\ node[i].role = "Leader"
        /\ Finish(i, Commit(n), Answer(client, CommitReplies(n)), {})
        /\ Receive(m, {})
        /\ UNCHANGED <<disk, restarts, votes>>

append_response(m) ==
    /\ m.type = "AppendResponse"
    /\ \/ m.term < node[m.to].current_term /\ ignore(m)
       \/ step_down(m)
       \/ m.term = node[m.to].current_term /\ append_response_handled(m)
       \/ /\ m.term = node[m.to].current_term
          /\ node[m.to].role # "Leader"
          /\ ignore(m)

-----------------------------------------------------------------------------
(* Clients. *)

\* Mutant: log.len() is read after the push.
index_after_push(log) == Len(log) + 2

\* The index under which the client's reply channel is kept.
apply_index(log) == Len(log) + 1

\* The leader takes a command of a client; a request still pending at the new
\* index, left from an earlier leadership of this node, loses its sender.
client_command_accept(i, c) ==
    LET index == apply_index(node[i].log)
        stale == {p \in node[i].pending_applies : p.index = index}
        n == [node[i] EXCEPT
                !.log = Append(@, [term |-> node[i].current_term, command |-> c]),
                !.pending_applies =
                    (@ \ stale) \cup {[index |-> index, request |-> c]}]
        waiting == [Drop(client, stale) EXCEPT ![c] = Status("waiting")]
    IN  /\ node[i].role = "Leader"
        /\ persist_state(i, n, {})
        /\ Finish(i, Commit(n), Answer(waiting, CommitReplies(n)), {})
        /\ send_message(msgs, on_heartbeat(i, Commit(n)))
        /\ UNCHANGED <<restarts, votes>>

\* Any other node answers NotLeader or NoLeader.
client_command_refuse(i, c) ==
    /\ node[i].role # "Leader"
    /\ client' = [client EXCEPT ![c] = Status("rejected")]
    /\ UNCHANGED <<node, disk, msgs, restarts, votes, counted, decided>>

\* A client that was refused may try again.
client_command(i, c) ==
    /\ client[c].status \in {"idle", "rejected"}
    /\ client_command_accept(i, c) \/ client_command_refuse(i, c)

-----------------------------------------------------------------------------
(* The environment: crashes and the transport. *)

\* The node stops between two handlers and is created again from its storage.
\* Its state machine starts empty and its clients' reply channels are gone.
restart(i) ==
    /\ node[i] # restore_state(disk[i])
    /\ restarts < MaxRestarts
    /\ restarts' = restarts + 1
    /\ Finish(i, restore_state(disk[i]), Drop(client, node[i].pending_applies), {})
    /\ UNCHANGED <<disk, msgs, votes>>

\* The node stops inside the handler of a request of a later term, after
\* become_follower has saved the term and before the handler saves again.
crash_after_step_down(m) ==
    LET i == m.to
        n == become_follower(node[i], m.term)
    IN  /\ m.type \in {"VoteRequest", "AppendRequest"}
        /\ m.term > node[i].current_term
        /\ restarts < MaxRestarts
        /\ restarts' = restarts + 1
        /\ disk' = [disk EXCEPT ![i] = PersistentState(n)]
        /\ Receive(m, {})
        /\ Finish(i, restore_state(PersistentState(n)),
                  Drop(client, node[i].pending_applies), {})
        /\ UNCHANGED votes

handle_message(m) ==
    vote_request(m) \/ vote_response(m) \/ append_request(m) \/ append_response(m)

Next ==
    \/ \E i \in Node : become_candidate(i) \/ heartbeat(i) \/ restart(i)
    \/ \E m \in msgs : handle_message(m) \/ crash_after_step_down(m)
    \/ \E i \in Node, c \in Command : client_command(i, c)

Spec == Init /\ [][Next]_vars

-----------------------------------------------------------------------------
(* Safety. *)

Leader(i) == node[i].role = "Leader"

\* At most one node leads in a term, and no leader ever has an AppendRequest of
\* its own term on the way to it: the unreachable!("two leaders detected in the
\* same term") of append_request is unreachable.
ElectionSafety ==
    /\ \A i, j \in Node :
          Leader(i) /\ Leader(j) /\ node[i].current_term = node[j].current_term
            => i = j
    /\ \A m \in msgs :
          m.type = "AppendRequest" /\ Leader(m.to)
            => m.term # node[m.to].current_term

\* Two logs that hold an entry of the same term at an index are identical up to
\* it: the check of prev_log_term and the cut at the first conflict in
\* append_request keep this although heartbeats are reordered and repeated.
LogMatching ==
    \A i, j \in Node :
        \A k \in DOMAIN node[i].log \cap DOMAIN node[j].log :
            node[i].log[k].term = node[j].log[k].term
              => SubSeq(node[i].log, 1, k) = SubSeq(node[j].log, 1, k)

\* For every request in flight, however late, that its receiver's log matches,
\* AppendEntries, which cuts at the first conflict, computes what the loop of
\* append_request does round by round, and a repetition changes nothing.
AppendEntriesIsTheLoop ==
    \A m \in msgs :
        m.type = "AppendRequest" /\ HoldsPrevious(node[m.to].log, m) =>
            LET log == node[m.to].log
                merged == AppendEntries(log, m.prev_log_index, m.entries)
            IN  /\ merged = AppendLoop(log, m.prev_log_index, m.entries)
                /\ AppendEntries(merged, m.prev_log_index, m.entries) = merged

\* A leader of the term an entry was decided in, or of a later one, has every
\* decided entry: the votes vote_request grants only reach such candidates.
LeaderCompleteness ==
    \A i \in Node : Leader(i) /\ node[i].current_term >= LastTerm(decided)
                      => IsPrefix(decided, node[i].log)

\* What apply_committed gave to any state machine is a prefix of one sequence.
StateMachineSafety == \A i \in Node : IsPrefix(node[i].applied, decided)

\* The slices of on_heartbeat, log[next_index - 1] and log[next_index..], never
\* panic, and a leader never believes a peer holds more than it has itself.
HeartbeatInBounds ==
    \A i \in Node : Leader(i) =>
        \A j \in Peers(i) : /\ node[i].next_index[j] \in 1..(Len(node[i].log) + 1)
                            /\ node[i].match_index[j] <= Len(node[i].log)

\* What a leader counts as replicated in advance_commit is saved by the peer, as
\* long as the peer has not seen a later term: persist_state comes before the
\* response, and match_index only speaks of entries the request compared.
MatchIsSaved ==
    \A i \in Node : Leader(i) =>
        \A j \in Peers(i) :
            \/ disk[j].current_term > node[i].current_term
            \/ \A k \in 1..node[i].match_index[j] :
                  k \in DOMAIN disk[j].log /\ disk[j].log[k] = node[i].log[k]

\* No granted vote is on its way to a candidate unless the voter has saved it:
\* after a restart the voter still knows whom it voted for.
GrantedVoteIsSaved ==
    \A m \in msgs :
        m.type = "VoteResponse" /\ m.vote_granted
          => \/ disk[m.from].current_term > m.term
             \/ /\ disk[m.from].current_term = m.term
                /\ disk[m.from].voted_for = m.to

\* A client that is told Ok is given the output of an entry that is decided for
\* good: no later leader can undo what the client saw.
ReplyIsDecided ==
    \A c \in Command :
        client[c].status = "ok"
          => \E k \in DOMAIN decided : decided[k].command = client[c].output

\* A client that is told Ok is given the output of its own command.
ReplyIsOwnOutput ==
    \A c \in Command : client[c].status = "ok" => client[c].output = c

\* The leader a follower names in NotLeader is never wrong about its own term:
\* a hint left from an earlier term would be kept, since append_request sets it
\* only when there is none.
LeaderHintIsRight ==
    \A i, j \in Node :
        Leader(j) /\ node[i].current_term = node[j].current_term
          => node[i].current_leader_id \in {Nil, j}

\* Across handlers, crashes and restarts a saved term never goes back and a
\* saved vote never changes within its term.
SavedVoteIsFinal ==
    [][\A i \in Node :
         /\ disk'[i].current_term >= disk[i].current_term
         /\ disk'[i].current_term = disk[i].current_term /\ disk[i].voted_for # Nil
              => disk'[i].voted_for = disk[i].voted_for]_vars

\* No handler cuts or rewrites an entry its node has already committed: the
\* truncation in append_request stays above commit_index.
CommittedIsKept ==
    [][\A i \in Node :
         /\ node[i].commit_index <= Len(node'[i].log)
         /\ \A k \in 1..node[i].commit_index :
               node'[i].log[k] = node[i].log[k]]_vars

-----------------------------------------------------------------------------
(* Progress. *)

\* Node j's loop takes a message of node i out of its channel.
deliver(i, j) == \E m \in msgs : m.from = i /\ m.to = j /\ handle_message(m)

\* The loop of launch keeps running: the heartbeat interval of a leader ticks
\* again and again, and a message that reached a node is handled.
Fairness ==
    \A i \in Node :
        /\ WF_vars(heartbeat(i))
        /\ \A j \in Peers(i) : WF_vars(deliver(i, j))

FairSpec == Spec /\ Fairness

\* A leader that nobody deposes brings every log to its own and commits all of
\* it everywhere, however far the logs had diverged: backing next_index off
\* reaches a common entry, and advance_commit reaches the end of the log.
StableLeaderReplicates ==
    \A i \in Node :
        <>[](Leader(i) /\ node[i].current_term = MaxTerm)
          => <>[](\A j \in Node : /\ node[j].log = node[i].log
                                  /\ node[j].commit_index = Len(node[i].log)
                                  /\ node[j].applied = node[i].log)

-----------------------------------------------------------------------------
\* The cluster implements one growing log of which every state machine has been
\* given a prefix (module ReplicatedLog).
Log == INSTANCE ReplicatedLog WITH
            chosen <- decided, learned <- [i \in Node |-> node[i].applied]

ImplementsReplicatedLog == Log!Spec
=============================================================================
