------------------------------ MODULE RaftLog ------------------------------
(***************************************************************************)
(* The replicated log of raft-rs as a value: what an entry is and what the *)
(* handlers of raft.rs compute from a log.                                 *)
(*                                                                         *)
(* The code's Vec starts with a dummy NoOp entry of term 0 at index 0 that *)
(* no handler truncates or overwrites.  Here a log is a sequence without   *)
(* the dummy, so index k of the model is index k of the code, the code's   *)
(* log.len() - 1 is Len(log), and TermAt(log, 0) = 0 stands for the dummy. *)
(***************************************************************************)
EXTENDS Integers, Sequences, FiniteSets, FiniteSetsExt, SequencesExt

CONSTANTS Command,   \* the commands of clients, each accepted at most once
          NoOp       \* the entry a new leader writes

ASSUME NoOpAssumption == NoOp \notin Command

Entry == [term : Nat, command : Command \cup {NoOp}]

TermAt(log, k) == IF k = 0 THEN 0 ELSE log[k].term

LastTerm(log) == TermAt(log, Len(log))

\* Mutant: only the lengths of the logs are compared.
AsLong(last_log_term, last_log_index, log) == last_log_index >= Len(log)

\* The election restriction: the candidate's log ends in a later term, or in
\* the same term and is at least as long.
UpToDate(last_log_term, last_log_index, log) ==
    \/ last_log_term > LastTerm(log)
    \/ last_log_term = LastTerm(log) /\ last_log_index >= Len(log)

\* Positions of the request's entries that the log lacks or holds with
\* another term.
Conflicts(log, prev, entries) ==
    {k \in 1..Len(entries) : \/ prev + k > Len(log)
                             \/ log[prev + k].term # entries[k].term}

\* Mutants: the entries are appended whatever the log has, entries of another term
\* are left in place, and everything after the previous entry is replaced.
AppendAgain(log, prev, entries) == log \o entries

AppendMissing(log, prev, entries) ==
    log \o SubSeq(entries, Len(log) - prev + 1, Len(entries))

AppendAfterCut(log, prev, entries) == SubSeq(log, 1, prev) \o entries

\* The append loop, in one step: entries already held are kept; from the first conflict on,
\* the log is cut and the rest of the request is pushed.
AppendEntries(log, prev, entries) ==
    LET conflicts == Conflicts(log, prev, entries)
    IN  IF conflicts = {}
        THEN log
        ELSE SubSeq(log, 1, prev + Min(conflicts) - 1)
               \o SubSeq(entries, Min(conflicts), Len(entries))

\* One round of the append loop, for the k-th entry of the request.
AppendOne(log, prev, entries, k) ==
    IF prev + k <= Len(log)
    THEN IF log[prev + k].term # entries[k].term
         THEN Append(SubSeq(log, 1, prev + k - 1), entries[k])
         ELSE log
    ELSE Append(log, entries[k])

\* The append loop as the code has it, entry by entry.
AppendLoop(log, prev, entries) ==
    LET after[k \in 0..Len(entries)] ==
            IF k = 0 THEN log ELSE AppendOne(after[k - 1], prev, entries, k)
    IN  after[Len(entries)]
=============================================================================
