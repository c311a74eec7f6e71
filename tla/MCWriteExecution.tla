---- MODULE MCWriteExecution ----
\* A patch of two files, a command that shares a file with it and may run at the
\* same time, and a later patch of the other file.
EXTENDS WriteExecution, FiniteSets

CONSTANTS f1, f2, w1, w2, w3

MCDeclared ==
    [w \in Writes |-> CASE w = w1 -> <<f1, f2>>
                        [] w = w2 -> <<f1>>
                        [] w = w3 -> <<f2>>]

\* Bounds: at most two writes or rollbacks run at a time, one change is
\* overwritten, and two writes fail or are restored.
Running == {w \in Writes : at[w] \notin {"new", "ended"}}
Failed == {w \in Writes : told[w] \in {"refused", "stuck", "timed_out", "no_diff", "crashed"}}
Restored == {w \in Writes : RolledBack(w) \/ Restoring(w)}

Bounded ==
    /\ Cardinality(Running) <= 2
    /\ Cardinality(lost) <= 1
    /\ Cardinality(Failed \cup Restored) <= 2
    /\ at[w3] # "new" => at[w1] = "ended"

MCNext == WriteNext /\ Bounded'
MCSpec == WriteInit /\ [][MCNext]_writeVars
====
