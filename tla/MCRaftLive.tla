----------------------------- MODULE MCRaftLive ----------------------------
(***************************************************************************)
(* Replication after an election: three nodes whose logs have diverged and *)
(* a leader that was just elected in the last term the bounds allow, from  *)
(* which no further election starts.                                       *)
(*                                                                         *)
(* The logs are the ones three elections leave behind.  n1, elected in     *)
(* term 3, held the NoOp of term 1 and has added its own.  n2 voted for    *)
(* it, so n2's log is no longer.  n3 refused: it led term 1 and still      *)
(* holds a client's command, or led term 2 and holds entries of term 2,    *)
(* or is behind.                                                           *)
(***************************************************************************)
EXTENDS RaftInvariants

CONSTANTS n1, n2, n3, c1

e(term, command) == [term |-> term, command |-> command]

LeaderLog == <<e(1, NoOp), e(3, NoOp)>>
VoterLogs == {<<>>, <<e(1, NoOp)>>}
OtherLogs == VoterLogs \cup
    {<<e(1, NoOp), e(1, c1)>>, <<e(1, NoOp), e(2, NoOp)>>,
     <<e(1, NoOp), e(2, NoOp), e(2, c1)>>}

Saves(log, vote) == [current_term |-> 3, voted_for |-> vote, log |-> log]

\* n3's client still waits for its command.
WaitingAt(log) ==
    {[index |-> k, request |-> c1] : k \in {k \in DOMAIN log : log[k].command = c1}}

DivergedInit ==
    \E log2 \in VoterLogs, log3 \in OtherLogs :
        LET saves == [i \in Node |->
                        CASE i = n1 -> Saves(LeaderLog, n1)
                          [] i = n2 -> Saves(log2, n1)
                          [] i = n3 -> Saves(log3, Nil)]
        IN  /\ disk = saves
            /\ node = [i \in Node |->
                    CASE i = n1 -> [restore_state(saves[n1]) EXCEPT
                                      !.role = "Leader",
                                      !.next_index = [j \in Node |-> 3]]
                      [] i = n2 -> restore_state(saves[n2])
                      [] i = n3 -> [restore_state(saves[n3]) EXCEPT
                                      !.pending_applies = WaitingAt(log3)]]
            /\ client = [c \in Command |->
                    IF c = c1 /\ WaitingAt(log3) # {} THEN Status("waiting")
                                                     ELSE Status("idle")]
            /\ msgs = on_heartbeat(n1, node[n1])
            /\ votes = {Vote(n1, 3, n1), Vote(n2, 3, n1)}
            /\ counted = [i \in Node |-> {}]
            /\ restarts = 0
            /\ decided = <<>>

DivergedSpec == DivergedInit /\ [][Next]_vars /\ Fairness
=============================================================================
