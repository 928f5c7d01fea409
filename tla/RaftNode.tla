----------------------------- MODULE RaftNode ------------------------------
(***************************************************************************)
(* The state of one RaftNode and the steps its handlers are made of, as    *)
(* functions from a node state to a node state, and the messages a node    *)
(* builds.  Module Raft runs them in the handlers' order.                  *)
(*                                                                         *)
(* The fields keep the names of the struct.  The payload of the Role enum  *)
(* is flattened into the record and reset whenever the role changes.       *)
(* `applied' is what the state machine was given, NoOp entries included,   *)
(* so that Len(applied) is last_applied.  Timers are not state: a node     *)
(* that is not the leader may time out at any moment.                      *)
(***************************************************************************)
EXTENDS RaftLog

CONSTANTS Node,      \* the ids of the cluster, this node's own included
          Nil        \* None

ASSUME NodeAssumption == IsFiniteSet(Node) /\ Node # {} /\ Nil \notin Node
ASSUME NilAssumption == Nil \notin Command

Roles == {"Follower", "Candidate", "Leader"}

\* pending_applies: log index -> reply channel of the client's request.
Pending == [index : Nat, request : Command]

NodeState ==
    [current_term : Nat, voted_for : Node \cup {Nil}, log : Seq(Entry),
     role : Roles, current_leader_id : Node \cup {Nil}, votes_received : Nat,
     next_index : [Node -> Nat], match_index : [Node -> Nat],
     commit_index : Nat, applied : Seq(Entry),
     pending_applies : SUBSET Pending]

\* What storage.rs saves.
Saved == [current_term : Nat, voted_for : Node \cup {Nil}, log : Seq(Entry)]

\* Mutants: the vote, or the log, is not part of what is saved.
TermAndLog(n) ==
    [current_term |-> n.current_term, voted_for |-> Nil, log |-> n.log]
TermAndVote(n) ==
    [current_term |-> n.current_term, voted_for |-> n.voted_for, log |-> <<>>]

PersistentState(n) ==
    [current_term |-> n.current_term, voted_for |-> n.voted_for, log |-> n.log]

\* Indexes of a node that is not the leader; a peer's own entry is not used.
NoIndex == [j \in Node |-> 0]

ClusterSize == Cardinality(Node)

\* Mutant: half of the cluster is enough.
has_half(count, total) == count >= total \div 2

has_majority(count, total) == count > total \div 2

\* A node as RaftNode::new leaves it: everything but the saved state is fresh.
restore_state(saved) ==
    [current_term |-> saved.current_term, voted_for |-> saved.voted_for,
     log |-> saved.log, role |-> "Follower", current_leader_id |-> Nil,
     votes_received |-> 0, next_index |-> NoIndex, match_index |-> NoIndex,
     commit_index |-> 0, applied |-> <<>>, pending_applies |-> {}]

\* The state of a node that finds nothing in its storage.
Fresh == [current_term |-> 0, voted_for |-> Nil, log |-> <<>>]

\* Mutants: the vote is forgotten whenever a node steps down, and the known
\* leader survives a change of term.
become_follower_unvoted(n, term) ==
    [n EXCEPT !.current_term = IF term > n.current_term THEN term ELSE @,
              !.voted_for = Nil, !.role = "Follower",
              !.current_leader_id = Nil, !.votes_received = 0,
              !.next_index = NoIndex, !.match_index = NoIndex]

become_follower_hinted(n, term) ==
    [n EXCEPT !.current_term = IF term > n.current_term THEN term ELSE @,
              !.voted_for = IF term > n.current_term THEN Nil ELSE @,
              !.role = "Follower", !.votes_received = 0,
              !.next_index = NoIndex, !.match_index = NoIndex]

become_follower(n, term) ==
    [n EXCEPT !.current_term = IF term > n.current_term THEN term ELSE @,
              !.voted_for = IF term > n.current_term THEN Nil ELSE @,
              !.role = "Follower", !.current_leader_id = Nil,
              !.votes_received = 0,
              !.next_index = NoIndex, !.match_index = NoIndex]

\* The candidate's vote for itself, before it knows whether it is alone.
start_election(i, n) ==
    [n EXCEPT !.current_term = @ + 1, !.voted_for = i, !.role = "Candidate",
              !.current_leader_id = Nil, !.votes_received = 1]

\* The new leader's NoOp and its view of the peers, up to persist_state.
become_leader(n) ==
    LET log == Append(n.log, [term |-> n.current_term, command |-> NoOp])
    IN  [n EXCEPT !.log = log, !.role = "Leader", !.votes_received = 0,
                  !.next_index = [j \in Node |-> Len(log) + 1],
                  !.match_index = NoIndex]

\* The highest index of the current term that a majority holds.
advance_commit(n) ==
    LET replicated(index) ==
            Cardinality({j \in Node : n.match_index[j] >= index}) + 1
        committable ==
            {index \in (n.commit_index + 1)..Len(n.log) :
                /\ n.log[index].term = n.current_term
                /\ has_majority(replicated(index), ClusterSize)}
    IN  IF n.role = "Leader" /\ committable # {}
        THEN [n EXCEPT !.commit_index = Max(committable)]
        ELSE n

\* Where apply_committed stops.  Past the end of the log the code would panic:
\* CommittedIsKept (module Raft) says that commit_index is never left there.
ApplyUpTo(n) == Min({n.commit_index, Len(n.log)})

\* The pending requests apply_committed answers: only entries that carry a
\* command look into pending_applies.
Answered(n) ==
    {p \in n.pending_applies : /\ p.index \in (Len(n.applied) + 1)..ApplyUpTo(n)
                               /\ n.log[p.index].command # NoOp}

apply_committed(n) ==
    [n EXCEPT !.applied = @ \o SubSeq(n.log, Len(n.applied) + 1, ApplyUpTo(n)),
              !.pending_applies = @ \ Answered(n)]

\* The replies sent on the way; the output of the state machine is named by
\* the command that produced it.
replies(n) ==
    {[request |-> p.request, output |-> n.log[p.index].command] :
        p \in Answered(n)}

-----------------------------------------------------------------------------
(* Messages.  candidate_id and leader_id are always the sender's id.       *)

VoteRequest(i, j, n) ==
    [type |-> "VoteRequest", from |-> i, to |-> j, term |-> n.current_term,
     last_log_index |-> Len(n.log), last_log_term |-> LastTerm(n.log)]

VoteResponse(i, j, term, granted) ==
    [type |-> "VoteResponse", from |-> i, to |-> j, term |-> term,
     vote_granted |-> granted]

\* Mutant: one entry per heartbeat.
AppendRequestOfOne(i, j, n) ==
    LET prev == n.next_index[j] - 1
    IN  [type |-> "AppendRequest", from |-> i, to |-> j, term |-> n.current_term,
         prev_log_index |-> prev, prev_log_term |-> TermAt(n.log, prev),
         entries |-> SubSeq(n.log, prev + 1, Min({prev + 1, Len(n.log)})),
         leader_commit |-> n.commit_index]

\* Every heartbeat carries the whole log from the peer's next_index on.
AppendRequest(i, j, n) ==
    LET prev == n.next_index[j] - 1
    IN  [type |-> "AppendRequest", from |-> i, to |-> j, term |-> n.current_term,
         prev_log_index |-> prev, prev_log_term |-> TermAt(n.log, prev),
         entries |-> SubSeq(n.log, prev + 1, Len(n.log)),
         leader_commit |-> n.commit_index]

AppendResponse(i, j, term, match_index, success) ==
    [type |-> "AppendResponse", from |-> i, to |-> j, term |-> term,
     match_index |-> match_index, success |-> success]

Message ==
    [type : {"VoteRequest"}, from : Node, to : Node, term : Nat,
     last_log_index : Nat, last_log_term : Nat]
    \cup
    [type : {"VoteResponse"}, from : Node, to : Node, term : Nat,
     vote_granted : BOOLEAN]
    \cup
    [type : {"AppendRequest"}, from : Node, to : Node, term : Nat,
     prev_log_index : Nat, prev_log_term : Nat, entries : Seq(Entry),
     leader_commit : Nat]
    \cup
    [type : {"AppendResponse"}, from : Node, to : Node, term : Nat,
     match_index : Nat, success : BOOLEAN]
=============================================================================
