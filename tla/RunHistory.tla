---- MODULE RunHistory ----
(***************************************************************************)
(* What the trace database promises of a run (the TraceStore protocol of   *)
(* coding_rag/storage/sqlite.py): the revision it holds only grows, and    *)
(* with it the history of events, of which no recorded part ever changes.  *)
(***************************************************************************)
EXTENDS Naturals, Sequences, SequencesExt

CONSTANT Runs

VARIABLES
    revision,  \* the newest revision the database holds, 0 for none
    history    \* the run's events on record

\* An earlier release may have saved some of the runs.
Init ==
    \A r \in Runs : revision[r] \in Nat /\ (revision[r] = 0 => history[r] = <<>>)

\* A newer snapshot of one run arrives.
Advance(r) ==
    /\ revision'[r] > revision[r]
    /\ IsPrefix(history[r], history'[r])
    /\ \A other \in Runs \ {r} :
        /\ revision'[other] = revision[other]
        /\ history'[other] = history[other]

Next == \E r \in Runs : Advance(r)

Spec == Init /\ [][Next]_<<revision, history>>
====
