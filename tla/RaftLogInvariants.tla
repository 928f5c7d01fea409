------------------------- MODULE RaftLogInvariants -------------------------
(***************************************************************************)
(* The inductive invariant behind the safety of the replicated log.  It    *)
(* speaks of two pieces of history that no handler keeps:                  *)
(*   led[t]  the log of the leader of term t, as it was last (of the term) *)
(*           or is now; <<>> as long as nobody has led in t;               *)
(*   acks    [node, term, index]: node held the first `index' entries of   *)
(*           the leader of `term', while it was in that term.              *)
(* No module keeps them as variables: the proofs show that at every state  *)
(* of Raft there are such led and acks.                                    *)
(***************************************************************************)
EXTENDS RaftInvariants

Ack(j, t, k) == [node |-> j, term |-> t, index |-> k]

\* a and b both have k entries, the same ones.
Agree(a, b, k) == k <= Len(a) /\ k <= Len(b) /\ \A x \in 1..k : a[x] = b[x]

\* Up to each of its entries, the log is what the leader of the entry's term had.
Backed(log, led) == \A k \in 1..Len(log) : Agree(log, led[log[k].term], k)

\* The election restriction would let a node with this log win over one whose
\* log ends with entry k of term t.
AtLeast(log, t, k) ==
    LastTerm(log) > t \/ (LastTerm(log) = t /\ Len(log) >= k)

Carries(log, t, k) == k <= Len(log) /\ log[k].term = t

Majority(Q) == has_majority(Cardinality(Q), ClusterSize)

\* A majority has held the entry at k in term t: it stays for good.
Chosen(t, k, acks) ==
    \E Q \in SUBSET Node :
        /\ Majority(Q)
        /\ \A j \in Q : \E a \in acks : a.node = j /\ a.term = t /\ a.index >= k

\* A majority has left term t without holding the entry at k.
Blocked(t, k, acks) ==
    \E Q \in SUBSET Node :
        /\ Majority(Q)
        /\ \A j \in Q : /\ node[j].current_term > t
                        /\ \A a \in acks : a.node = j /\ a.term = t => a.index < k

\* Every entry of the log was written in term t or before.
WrittenBy(log, t) == \A k \in 1..Len(log) : log[k].term <= t

Elections(t) == {i \in Node : Elected(votes, i, t) /\ Holds(node[i], t, 0)}

\* A leader's log ends in an entry of its own term, and it was elected.
LeaderLog(t, led) ==
    /\ Backed(led[t], led) /\ WrittenBy(led[t], t)
    /\ led[t] # <<>> => LastTerm(led[t]) = t /\ Elections(t) # {}

LeadersLogs(led) == \A t \in DOMAIN led : LeaderLog(t, led)

NodeLog(n, led) ==
    /\ Backed(n.log, led) /\ WrittenBy(n.log, n.current_term)
    /\ n.role = "Leader" => n.log = led[n.current_term] /\ n.log # <<>>

NodesLogs(led) == \A i \in Node : NodeLog(node[i], led)

Covers(m) == m.prev_log_index + Len(m.entries)

\* However old, a request speaks of the log of the leader of its term, from
\* prev_log_index up to an entry of that term.
Quotes(m, log) ==
    /\ Carries(log, m.term, Covers(m)) /\ Covers(m) > 0
    /\ m.prev_log_term = TermAt(log, m.prev_log_index)
    /\ \A x \in 1..Len(m.entries) : m.entries[x] = log[m.prev_log_index + x]

RequestsQuoteTheLeader(led) ==
    \A m \in msgs : m.type = "AppendRequest" => Quotes(m, led[m.term])

\* What a node has acknowledged in a term it keeps until it has seen a later
\* one, and even then its log stays as good in any election.
AckIsKept(a, n, led) ==
    /\ Carries(led[a.term], a.term, a.index) /\ a.index > 0
    /\ n.current_term >= a.term
    /\ AtLeast(n.log, a.term, a.index)

AcksAreKept(led, acks) == \A a \in acks : AckIsKept(a, node[a.node], led)

\* A leader counts nothing in match_index that was not acknowledged.
Acknowledged(i, n, acks) ==
    n.role = "Leader" =>
        /\ Ack(i, n.current_term, Len(n.log)) \in acks
        /\ n.match_index[i] = 0
        /\ \A j \in Node : \/ n.match_index[j] = 0
                           \/ Ack(j, n.current_term, n.match_index[j]) \in acks

AnswerIsAcknowledged(m, acks) ==
    m.type = "AppendResponse" /\ m.success
      => Ack(m.from, m.term, m.match_index) \in acks

MatchIsAcknowledged(acks) ==
    /\ \A m \in msgs : AnswerIsAcknowledged(m, acks)
    /\ \A i \in Node : Acknowledged(i, node[i], acks)

\* A later leader has every entry an earlier leader wrote, except the ones no
\* majority can acknowledge any more.
LaterLeadersKnow(led, acks) ==
    \A t, u \in DOMAIN led :
        t < u /\ led[u] # <<>> =>
            \A k \in 1..Len(led[t]) :
                led[t][k].term = t => \/ Carries(led[u], t, k)
                                      \/ Blocked(t, k, acks)

\* A voter's acknowledgements are matched by the log of the candidate it voted
\* for: a vote compares logs as they still are when the votes are counted.
VoteCompares(v, n, acks) ==
    /\ v.term <= n.current_term
    /\ n.role = "Candidate" /\ n.current_term = v.term =>
          \A a \in acks : a.node = v.voter /\ a.term < v.term
              => AtLeast(n.log, a.term, a.index)

\* A vote request of a candidacy that still runs speaks of the candidate's log.
ShowsLog(m, n) ==
    m.type = "VoteRequest" /\ n.role = "Candidate" /\ n.current_term = m.term
      => m.last_log_index = Len(n.log) /\ m.last_log_term = LastTerm(n.log)

VotesCompareLogs(acks) ==
    /\ \A v \in votes : VoteCompares(v, node[v.candidate], acks)
    /\ \A m \in msgs : ShowsLog(m, node[m.from])

\* What every handler keeps true of the logs, the leaders' logs and the
\* acknowledgements, whatever is committed.
LogInv(led, acks) ==
    /\ LeadersLogs(led) /\ NodesLogs(led) /\ RequestsQuoteTheLeader(led)
    /\ AcksAreKept(led, acks) /\ MatchIsAcknowledged(acks)
    /\ LaterLeadersKnow(led, acks) /\ VotesCompareLogs(acks)

-----------------------------------------------------------------------------
(* Commitment. *)

\* The last of the first c entries was acknowledged by a majority in the very
\* term that wrote it.
Committed(log, c, acks) ==
    c = 0 \/ (c \in 1..Len(log) /\ Chosen(log[c].term, c, acks))

\* Every commit_index, and every leader_commit on its way, is committed, and
\* the state machines are exactly as far.
CommitsAreChosen(led, acks) ==
    /\ \A i \in Node :
          /\ Committed(node[i].log, node[i].commit_index, acks)
          /\ node[i].applied = SubSeq(node[i].log, 1, node[i].commit_index)
          /\ node[i].commit_index <= Len(decided)
    /\ \A m \in msgs : m.type = "AppendRequest" =>
          /\ m.leader_commit <= Covers(m)
          /\ Committed(led[m.term], m.leader_commit, acks)
    /\ Backed(decided, led) /\ Committed(decided, Len(decided), acks)

CommitInv(led, acks) == CommitsAreChosen(led, acks) /\ ReplyIsDecided

Led == [Nat -> Seq(Entry)]
Acks == [node : Node, term : Nat, index : Nat]

\* A history that explains the logs and the commits exists at every state.
\* LogMatching, LeaderCompleteness, StateMachineSafety, MatchIsSaved and
\* ReplyIsDecided rest on it.
LogSafe ==
    \E led \in Led, acks \in SUBSET Acks : LogInv(led, acks) /\ CommitInv(led, acks)

-----------------------------------------------------------------------------
(* Commands.  A third piece of history, place[c], is the index at which a    *)
(* leader has accepted the command c.                                        *)

\* A leader has accepted the command.
Taken(cl, c) == cl[c].status \notin {"idle", "rejected"}

\* The entries that follow index `prev' of a log hold commands that were taken,
\* each at its place.
InPlace(entries, prev, cl, place) ==
    \A x \in 1..Len(entries) :
        LET c == entries[x].command
        IN  c # NoOp => Taken(cl, c) /\ place[c] = prev + x

\* A pending request still waits, at the place of its command and at one node.
PendingInPlace(place) ==
    \A i \in Node : \A p \in node[i].pending_applies :
        /\ client[p.request].status = "waiting" /\ p.index = place[p.request]
        /\ \A j \in Node \ {i} :
              \A q \in node[j].pending_applies : q.request # p.request

\* An Ok carries the output of what was decided at the command's place.
AnswersInPlace(place) ==
    \A c \in Command : client[c].status = "ok" =>
        /\ place[c] \in 1..Len(decided)
        /\ client[c].output = decided[place[c]].command

PlaceInv(place) ==
    /\ \A i \in Node : InPlace(node[i].log, 0, client, place)
    /\ \A m \in msgs : m.type = "AppendRequest"
                         => InPlace(m.entries, m.prev_log_index, client, place)
    /\ InPlace(decided, 0, client, place)
    /\ PendingInPlace(place) /\ AnswersInPlace(place)

\* Every command has one place in all logs, and who is told Ok is told of it.
CommandsInPlace == \E place \in [Command -> Nat] : PlaceInv(place)
=============================================================================
