------------------------------- MODULE KvRaft -------------------------------
(***************************************************************************)
(* The example cluster: raft nodes whose state machines keep a kv database *)
(* and whose transport is a network in memory, and a program that writes   *)
(* and reads one key through the leader, kills the leader and goes on with *)
(* the next one.                                                           *)
(*                                                                         *)
(* Reads are commands of the log like writes.  A put is named by the       *)
(* command that carries it, and the databases hold that name.              *)
(***************************************************************************)
EXTENDS Raft

CONSTANTS
    Script,          \* the commands main sends, in order
    Put,             \* those that write the key; the others read it
    KillAfter        \* how many of them it sends before it kills the leader

ASSUME ScriptAssumption ==
    /\ Script \in Seq(Command) /\ Script # <<>>
    /\ \A a, b \in DOMAIN Script : Script[a] = Script[b] => a = b
    /\ Put \subseteq Command
    /\ KillAfter \in Nat

VARIABLES
    nodes,      \* MemoryNetwork.nodes: the nodes that have not been killed
    databases,  \* the value of the key in each node's database
    main,       \* how far the program has come, and the leader it knows
    results     \* what each command has returned to it

cluster_vars == <<nodes, databases, main, results>>
kv_vars == <<vars, cluster_vars>>

\* The key is not in the database; no result yet.
KvInit ==
    /\ Init
    /\ nodes = Node
    /\ databases = [i \in Node |-> Nil]
    /\ main = [step |-> "wait_for_leader", at |-> 1, leader |-> Nil]
    /\ results = [c \in Command |-> Nil]

-----------------------------------------------------------------------------
(* KvStateMachine. *)

\* Mutant: whatever the command, it is put into the database.
apply_any(value, entry) == IF entry.command = NoOp THEN value ELSE entry.command

\* The database after an entry: a put is one write transaction, a read and a NoOp
\* leave it alone.
apply(value, entry) == IF entry.command \in Put THEN entry.command ELSE value

\* What apply returns for the k-th of the entries, to which the database came with
\* this value: a read finds what the entries before it have left.
Output(value, entries, k) ==
    IF entries[k].command \in Put THEN Nil
    ELSE FoldLeft(apply, value, SubSeq(entries, 1, k - 1))

\* The entries a step gives to the state machine of node i.
Applied(i) ==
    SubSeq(node'[i].applied, Len(node[i].applied) + 1, Len(node'[i].applied))

\* A client that is answered in this step is given the output of the entry that
\* its node has applied.
Returned(c) ==
    IF client'[c].status = "ok" /\ client[c].status # "ok"
    THEN LET by == CHOOSE x \in {<<i, k>> : i \in Node, k \in 1..Len(decided')} :
                        /\ x[2] \in DOMAIN Applied(x[1])
                        /\ Applied(x[1])[x[2]].command = client'[c].output
         IN  Output(databases[by[1]], Applied(by[1]), by[2])
    ELSE results[c]

StateMachines ==
    /\ databases' = [i \in Node |-> FoldLeft(apply, databases[i], Applied(i))]
    /\ results' = [c \in Command |-> Returned(c)]

-----------------------------------------------------------------------------
(* The nodes and the network. *)

\* The tasks of the nodes that have not been killed.
launch ==
    /\ \/ \E i \in nodes : become_candidate(i) \/ heartbeat(i)
       \/ \E m \in {m \in msgs : m.to \in nodes} : handle_message(m)
    /\ StateMachines
    /\ UNCHANGED <<nodes, main>>

\* A worker gives up a message: its destination is not in MemoryNetwork.nodes any
\* more, or has not taken the message within transport_timeout_ms.
send_fails ==
    /\ \E m \in msgs : msgs' = msgs \ {m}
    /\ UNCHANGED <<node, disk, client, restarts, votes, counted, decided,
                   cluster_vars>>

-----------------------------------------------------------------------------
(* The program. *)

Request == Script[main.at]

\* The status of one node after the other is asked for, until one leads: which of
\* them is asked first, and when, is open.
wait_for_leader ==
    /\ main.step = "wait_for_leader"
    /\ \E i \in nodes : /\ node[i].role = "Leader"
                        /\ main' = [main EXCEPT !.step = "call", !.leader = i]
    /\ UNCHANGED <<vars, nodes, databases, results>>

\* put, read: the command reaches the node, which may not lead any more.
call ==
    /\ main.step = "call"
    /\ client_command(main.leader, Request)
    /\ StateMachines
    /\ main' = [main EXCEPT !.step = "await"]
    /\ UNCHANGED nodes

\* The program goes on with the next command, or kills the leader before it.
After(at) ==
    CASE at = Len(Script) -> "done"
      [] at = KillAfter /\ at < Len(Script) -> "kill_node"
      [] OTHER -> "call"

\* The call has returned.  An error ends the program: NotLeader, a dropped reply, or
\* KeyNotFound for a read.
return ==
    LET outcome == client[Request].status
        failed == \/ outcome \in {"rejected", "dropped"}
                  \/ Request \notin Put /\ results[Request] = Nil
    IN  /\ main.step = "await"
        /\ outcome # "waiting"
        /\ main' = IF failed THEN [main EXCEPT !.step = "failed"]
                   ELSE [main EXCEPT !.step = After(main.at), !.at = @ + 1]
        /\ UNCHANGED <<vars, nodes, databases, results>>

\* The leader's task is aborted between two handlers, and its handle removed.
kill_node ==
    /\ main.step = "kill_node"
    /\ nodes' = nodes \ {main.leader}
    /\ main' = [main EXCEPT !.step = "wait_for_leader", !.leader = Nil]
    /\ UNCHANGED <<vars, databases, results>>

KvNext ==
    \/ launch \/ send_fails
    \/ wait_for_leader \/ call \/ return \/ kill_node

KvSpec == KvInit /\ [][KvNext]_kv_vars

-----------------------------------------------------------------------------
(* Properties. *)

KvTypeOK ==
    /\ nodes \subseteq Node
    /\ databases \in [Node -> Put \cup {Nil}]
    /\ main.step \in {"wait_for_leader", "call", "await", "kill_node", "done", "failed"}
    /\ main.at \in 1..(Len(Script) + 1)
    /\ main.leader \in Node \cup {Nil}
    /\ results \in [Command -> Put \cup {Nil}]

\* Command k has returned Ok; it is answered with the output of its own entry.
Done(k) == client[Script[k]].status = "ok"
Own(k) == Done(k) /\ client[Script[k]].output = Script[k]

\* The last put that had been done before the k-th command.
LastPut(k, done(_)) ==
    LET before == {j \in 1..(k - 1) : Script[j] \in Put /\ done(j)}
    IN  IF before = {} THEN Nil ELSE Script[Max(before)]

\* A read that is given its own output finds the last put that was given its own,
\* across the death of the leader and whatever elections, late messages and deposed
\* leaders there were: that put is in the log of every later leader, and a leader
\* answers a read only when a majority has it, after all that was decided before.
ReadsFindTheLastPut ==
    \A k \in DOMAIN Script :
        Own(k) /\ Script[k] \notin Put => results[Script[k]] = LastPut(k, Own)

\* A read that returns finds the last put that has returned.
EveryReadFindsTheLastPut ==
    \A k \in DOMAIN Script :
        Done(k) /\ Script[k] \notin Put => results[Script[k]] = LastPut(k, Done)

\* The program's commands are decided in its order and at most once, also when one
\* was lost with its leader and the program was told that it was done: what
\* a stale leader was given is never decided after the commands that followed it.
DecidedInOrder ==
    LET commands == {k \in DOMAIN decided : decided[k].command # NoOp}
        position(k) == CHOOSE n \in DOMAIN Script : Script[n] = decided[k].command
    IN  \A j, k \in commands : j < k => position(j) < position(k)
=============================================================================
