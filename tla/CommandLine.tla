---------------------------- MODULE CommandLine -----------------------------
(***************************************************************************)
(* main.py: one turn, the interactive loop of turns in one chat session,   *)
(* the approvals it asks for at the prompt, and --rollback.  A run and its *)
(* writes are what run_unified_query and resume_unified_query return       *)
(* (modules AgentGraph and ApprovalFlow): a status, and the snapshot ids   *)
(* that the events of the run report.  The chat history of the session is  *)
(* the sizes of its turns, of which a run is sent what fits                *)
(* (history_messages, coding_rag/agent/conversation.py); another process   *)
(* may use the same session.                                               *)
(***************************************************************************)
EXTENDS Integers, Sequences, FiniteSets, Numbers

CONSTANTS
    None,
    Sizes,        \* what a question and its answer may measure
    MaxChars,     \* max_history_chars
    MaxTurns,     \* bound: turns in the session
    MaxWrites,    \* bound: approved writes of the process
    MaxRuns       \* bound: runs of the process

VARIABLES
    mode,       \* "alone" (one turn without a session), "single", "interactive", "rollback"
    pc,
    turns,      \* the sizes of the session's turns, oldest first
    base,       \* how many of them the run has loaded
    sent,       \* which of them its model is sent
    run,        \* the UnifiedRun: status, and the snapshots its events report
    writes,     \* how many approved writes have been executed
    reported,   \* the snapshots that the results of the writes have named
    printed,    \* the snapshots that have been printed
    failed,     \* some run has ended as failed
    runs,       \* how many runs were started
    exit        \* the exit code, and what it was for

vars == <<mode, pc, turns, base, sent, run, writes, reported, printed, failed, runs, exit>>

NoRun == [status |-> None, snapshots |-> {}, omitted |-> 0]

Init ==
    /\ mode \in {"alone", "single", "interactive", "rollback"}
    /\ pc = "start"
    /\ turns \in UNION {[1 .. n -> Sizes] : n \in 0 .. MaxTurns - 1}
    /\ base = 0
    /\ sent = {}
    /\ run = NoRun
    /\ writes = 0
    /\ reported = {}
    /\ printed = {}
    /\ failed = FALSE
    /\ runs = 0
    /\ exit = None

Chat == mode # "alone"

Leave(code, why) == pc' = "exit" /\ exit' = [code |-> code, why |-> why]
-----------------------------------------------------------------------------
\* One turn of history_messages: the first is passed over when it does not
\* fit, any other ends the search.
Fit(history, chosen, i) ==
    IF ~chosen.more THEN chosen
    ELSE IF history[i] > chosen.left
    THEN [left |-> chosen.left, turns |-> chosen.turns, more |-> i = 1]
    ELSE [left |-> chosen.left - history[i], turns |-> chosen.turns \cup {i}, more |-> TRUE]

\* What has been chosen after the first turn, then the latest ones, newest first.
Choices(history) ==
    LET chosen[n \in 0 .. Len(history)] ==
          IF n = 0 THEN [left |-> MaxChars, turns |-> {}, more |-> TRUE]
          ELSE Fit(history, chosen[n - 1], IF n = 1 THEN 1 ELSE Len(history) + 2 - n)
    IN  chosen

HistoryMessages(history) ==
    Choices(history)[Len(history)].turns
-----------------------------------------------------------------------------
\* The provider has no key, or the arguments are refused.
BadConfiguration ==
    /\ pc = "start" /\ mode # "rollback"
    /\ Leave(2, "configuration")
    /\ UNCHANGED <<mode, turns, base, sent, run, writes, reported, printed, failed, runs>>

Start ==
    /\ pc = "start" /\ mode # "rollback"
    /\ pc' = IF mode = "interactive" THEN "prompt" ELSE "run"
    /\ UNCHANGED <<mode, turns, base, sent, run, writes, reported, printed, failed, runs, exit>>

\* --rollback restores a snapshot without a model, or says why not.
Rollback ==
    /\ pc = "start" /\ mode = "rollback"
    /\ \/ Leave(0, "restored") \/ Leave(2, "no repository") \/ Leave(3, "not restored")
    /\ UNCHANGED <<mode, turns, base, sent, run, writes, reported, printed, failed, runs>>

\* A line at the prompt of the loop; a blank one changes nothing.
Enter ==
    /\ pc = "prompt"
    /\ \/ pc' = "run" /\ UNCHANGED exit
       \/ Leave(0, "quit")
    /\ UNCHANGED <<mode, turns, base, sent, run, writes, reported, printed, failed, runs>>

\* run_unified_query: read the history, under the lock of the session.
Load ==
    /\ pc = "run" /\ runs < MaxRuns
    /\ pc' = "graph"
    /\ base' = IF Chat THEN Len(turns) ELSE 0
    /\ sent' = IF Chat THEN HistoryMessages(turns) ELSE {}
    /\ run' = [NoRun EXCEPT !.omitted = base' - Cardinality(sent')]
    /\ runs' = runs + 1
    /\ UNCHANGED <<mode, turns, writes, reported, printed, failed, exit>>

\* The chat database cannot be read: RuntimeError.
LoadFails ==
    /\ pc = "run" /\ Chat
    /\ Leave(3, "history")
    /\ UNCHANGED <<mode, turns, base, sent, run, writes, reported, printed, failed, runs>>

\* The graph returns and persist_unified_run appends the turn of a finished
\* run, unless another process has appended one.
Return(status) ==
    /\ pc = "graph"
    /\ pc' = IF status = "approval_required" THEN "pending" ELSE "returned"
    /\ failed' = (failed \/ status = "failed")
    /\ LET finished == status \in {"success", "partial"}
           saves == Chat /\ finished /\ Len(turns) = base
       IN  /\ run' = [run EXCEPT !.status = status]
           /\ IF saves THEN Len(turns) < MaxTurns /\ \E size \in Sizes : turns' = Append(turns, size)
              ELSE UNCHANGED turns
    /\ UNCHANGED <<mode, base, sent, writes, reported, printed, runs, exit>>

\* Mutant: the prompt shows the pending call and not the run so far.
Ask_ShowsCallOnly ==
    /\ pc = "pending"
    /\ pc' = "asked"
    /\ UNCHANGED <<mode, turns, base, sent, run, writes, reported, printed, failed, runs, exit>>

\* render_unified_run before each question: the pending call, and the snapshot
\* ids of the run's earlier writes.
Ask ==
    /\ pc = "pending"
    /\ pc' = "asked"
    /\ printed' = printed \cup run.snapshots
    /\ UNCHANGED <<mode, turns, base, sent, run, writes, reported, failed, runs, exit>>

\* Anything but yes, the end of the input included, ends the program.
Deny ==
    /\ pc = "asked"
    /\ Leave(4, "denied")
    /\ UNCHANGED <<mode, turns, base, sent, run, writes, reported, printed, failed, runs>>

\* resume_unified_query executes the write; its result names a snapshot, or
\* the write failed and none is named.
Approve ==
    /\ pc = "asked" /\ writes < MaxWrites
    /\ Chat => Len(turns) = base
    /\ pc' = "graph"
    /\ writes' = writes + 1
    /\ \/ /\ run' = [run EXCEPT !.snapshots = @ \cup {writes'}]
          /\ reported' = reported \cup {writes'}
       \/ UNCHANGED <<run, reported>>
    /\ UNCHANGED <<mode, turns, base, sent, printed, failed, runs, exit>>

\* The chat has changed: ValueError.
ResumeRefused ==
    /\ pc = "asked" /\ Chat /\ Len(turns) # base
    /\ Leave(2, "changed")
    /\ UNCHANGED <<mode, turns, base, sent, run, writes, reported, printed, failed, runs>>

\* sqlite3 raises while resume_unified_query reads the revision: no handler.
ResumeCrashes ==
    /\ pc = "asked" /\ Chat
    /\ Leave(1, "uncaught")
    /\ UNCHANGED <<mode, turns, base, sent, run, writes, reported, printed, failed, runs>>

\* --trace-out is written first; an OSError there has no handler either.
TraceOutFails ==
    /\ pc = "returned"
    /\ Leave(1, "uncaught")
    /\ UNCHANGED <<mode, turns, base, sent, run, writes, reported, printed, failed, runs>>

\* The run is printed; the loop goes on only after a run that did not fail.
Report ==
    /\ pc = "returned"
    /\ printed' = printed \cup run.snapshots
    /\ \/ run.status = "failed" /\ Leave(3, "failed")
       \/ run.status # "failed" /\ mode # "interactive" /\ Leave(0, "answered")
       \/ run.status # "failed" /\ mode = "interactive" /\ pc' = "prompt" /\ UNCHANGED exit
    /\ UNCHANGED <<mode, turns, base, sent, run, writes, reported, failed, runs>>

\* The browser or another CLI saves a turn of the same session.
Elsewhere ==
    /\ Len(turns) < MaxTurns
    /\ \E size \in Sizes : turns' = Append(turns, size)
    /\ UNCHANGED <<mode, pc, base, sent, run, writes, reported, printed, failed, runs, exit>>

Next ==
    \/ BadConfiguration \/ Start \/ Rollback \/ Enter \/ Load \/ LoadFails
    \/ \E status \in {"success", "partial", "failed", "approval_required"} : Return(status)
    \/ Ask \/ Deny \/ Approve \/ ResumeRefused \/ ResumeCrashes
    \/ TraceOutFails \/ Report \/ Elsewhere

Spec == Init /\ [][Next]_vars
-----------------------------------------------------------------------------
\* A user can undo whatever was executed: when the loop asks for the next
\* question, and when the program ends other than by an uncaught exception,
\* the snapshot id of each write of each run has been printed, also when a
\* later write is denied, refused or fails.
SnapshotsAreShown ==
    pc = "prompt" \/ (pc = "exit" /\ exit.why # "uncaught") => reported \subseteq printed

\* 0 means that no run of the process failed.
ExitTellsFailures == pc = "exit" /\ exit.code = 0 => ~failed

\* What a model is sent of the session fits, is its first turn and an unbroken
\* end of the rest, leaves out no turn for which there was room, and the
\* number left out is the one that is shown.
HistoryIsUnbroken ==
    pc = "graph" /\ Chat /\ base = Len(turns) =>
        LET size == Sum([i \in DOMAIN turns |-> IF i \in sent THEN turns[i] ELSE 0])
            left == (2 .. base) \ sent
        IN  /\ size <= MaxChars
            /\ \A i \in left, j \in sent \ {1} : i < j
            /\ left # {} => size + turns[Greatest(left)] > MaxChars
            /\ 1 \in DOMAIN turns => (1 \in sent <=> turns[1] <= MaxChars)
            /\ run.omitted = Cardinality((1 .. base) \ sent)
-----------------------------------------------------------------------------
\* What carries the two properties of the exit: a snapshot that is not printed
\* yet is in the run that will be printed, and no run has failed while the
\* program goes on.
ExitInv ==
    /\ pc \in {"start", "prompt", "run", "graph", "pending", "asked", "returned", "exit"}
    /\ DOMAIN run = {"status", "snapshots", "omitted"}
    /\ reported \subseteq printed \cup run.snapshots
    /\ pc \in {"start", "prompt", "run", "asked"} => reported \subseteq printed
    /\ pc = "exit" /\ exit.why # "uncaught" => reported \subseteq printed
    /\ pc = "exit" /\ exit.code = 0 => ~failed
    /\ pc = "returned" /\ failed => run.status = "failed"
    /\ failed => pc \in {"returned", "exit"}

\* What carries the history: until the session has another turn, the run has
\* what was chosen of the turns that it loaded.
HistoryInv ==
    /\ turns \in Seq(Sizes)
    /\ pc \in {"graph", "pending", "asked"} /\ Chat =>
         /\ base \in 0 .. Len(turns)
         /\ base = Len(turns) => /\ sent = HistoryMessages(turns)
                                 /\ run.omitted = base - Cardinality(sent)

CliInv == ExitInv /\ HistoryInv
=============================================================================
