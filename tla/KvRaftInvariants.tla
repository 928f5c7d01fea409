-------------------------- MODULE KvRaftInvariants --------------------------
(***************************************************************************)
(* The inductive invariant behind the properties of the example cluster:   *)
(* how the program's progress, the databases and the results it was given  *)
(* hang together with the log.                                             *)
(***************************************************************************)
EXTENDS KvRaft, RaftLogInvariants

\* The program is at a command of its script, or has sent them all, and knows a
\* leader whenever it uses one.
MainInv ==
    /\ nodes \subseteq Node
    /\ main \in [step : {"wait_for_leader", "call", "await", "kill_node", "done", "failed"},
                 at : 1..(Len(Script) + 1), leader : Node \cup {Nil}]
    /\ main.step # "done" => main.at <= Len(Script)
    /\ main.step \in {"call", "await", "kill_node"} => main.leader \in Node

\* Only commands that main has sent are taken, and it sends one when all before it
\* were answered with Ok.
SentInOrder ==
    /\ \A c \in Command : Taken(client, c) =>
          \E n \in DOMAIN Script :
              /\ c = Script[n] /\ n <= main.at
              /\ n = main.at => main.step \in {"await", "failed"}
    /\ \A n \in DOMAIN Script : n < main.at => Done(n)
    /\ main.step = "await" => client[Request].status # "idle"

Puts(log, n) == {k \in 1..n : log[k].command \in Put}

\* The value of the key after the first n entries of a log.
Value(log, n) ==
    IF Puts(log, n) = {} THEN Nil ELSE log[Max(Puts(log, n))].command

\* A database has the value its state machine was brought to.
DatabasesFollow ==
    databases = [i \in Node |-> Value(node[i].applied, Len(node[i].applied))]

\* A command that is answered with its own output was decided at some place, and a
\* read has returned what the entries before that place leave.
ResultsFollow ==
    \A c \in Command :
        client[c].status = "ok" /\ client[c].output = c /\ c \notin Put =>
            \E x \in DOMAIN decided :
                decided[x].command = c /\ results[c] = Value(decided, x - 1)

KvInv ==
    /\ MainInv /\ SentInOrder /\ DecidedInOrder /\ DatabasesFollow /\ ResultsFollow
    /\ results \in [Command -> Put \cup {Nil}]
=============================================================================
