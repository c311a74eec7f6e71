---- MODULE TraceStore ----
(***************************************************************************)
(* Saving the trace of a run: SQLiteTraceStore.save_trace                  *)
(* (coding_rag/storage/sqlite.py), the spool of persist_trace and the      *)
(* replay of spooled snapshots (coding_rag/storage/persistence.py,         *)
(* scripts/replay_trace_pending.py), fed by the runs of                    *)
(* coding_rag/agent/runtime.py, which save once per return.                *)
(*                                                                         *)
(* An event is a model value that tells whether it carries an llm_call     *)
(* observation.  A transaction is one step: BEGIN IMMEDIATE serialises the *)
(* writers and everything is rolled back when it raises.  The identity of  *)
(* a run (source, repository, mode, query, start) never changes here.      *)
(***************************************************************************)
EXTENDS Naturals, Sequences, FiniteSets, SequencesExt

CONSTANTS
    Runs,
    CallEvents,    \* events that carry an llm_call observation
    OtherEvents,
    Invocations,   \* what one graph.invoke may add to the events of its run
    MaxCalls,      \* MAX_LLM_CALLS_PER_RUN
    MaxRevision    \* bound: how often one run returns

Events == CallEvents \cup OtherEvents

ASSUME EventsAssumption ==
    /\ CallEvents \cap OtherEvents = {}
    /\ Invocations \subseteq Seq(Events)

ASSUME LimitsAssumption == MaxCalls \in Nat /\ MaxRevision \in Nat

VARIABLES
    live,      \* the run in the memory of its process: revision and events
    phase,     \* what that process does with it
    stored,    \* trace_runs: revision and trace_json; revision 0 for no row
    rows,      \* trace_events, by seq
    calls,     \* llm_calls: the call_index and event_seq of each row
    version,   \* PRAGMA user_version; 0 for a database not yet created
    unobserved, \* how many events of each run were stored before llm_calls existed
    spool,     \* the files in trace_pending
    answers    \* the storage status of each return of a run

tables == <<stored, rows, calls, version, unobserved>>
vars == <<live, phase, tables, spool, answers>>

Trace(revision, events) == [revision |-> revision, events |-> events]

\* _llm_call_records: where in the events the call observations are.
CallRecords(events) == {i \in DOMAIN events : events[i] \in CallEvents}

\* The rows of llm_calls for some of them, in the order of the events, numbered
\* on from those that the table has.
NumberedFrom(count, records) ==
    {[call_index |-> count + Cardinality({j \in records : j <= i}), event_seq |-> i] :
        i \in records}

TooManyCalls(trace) == Cardinality(CallRecords(trace.events)) > MaxCalls

NoTrace == Trace(0, <<>>)

\* An older release may have left a database: of schema 1, without llm_calls,
\* or of schema 2.  Each of its runs is over and was saved once; of some, a
\* second revision is in the spool.
Init ==
    /\ version \in 0 .. 2
    /\ \E old \in SUBSET Runs, first \in Invocations, more \in Invocations \cup {<<>>} :
        LET saved == Trace(1, first)
            later == IF more = <<>> THEN saved ELSE Trace(2, first \o more)
            Of(value, default) == [r \in Runs |-> IF r \in old THEN value ELSE default]
        IN  /\ version = 0 => old = {} /\ more = <<>>
            /\ version = 2 => ~TooManyCalls(saved)
            /\ live = Of(later, NoTrace)
            /\ phase = Of("over", "waiting")
            /\ stored = Of(saved, NoTrace)
            /\ rows = Of(first, <<>>)
            /\ calls = Of(IF version = 1 THEN {} ELSE NumberedFrom(0, CallRecords(first)), {})
            /\ unobserved = Of(IF version = 1 THEN Len(first) ELSE 0, 0)
            /\ spool = IF later = saved THEN {} ELSE [run : old, trace : {later}]
            /\ answers = Of(IF later = saved THEN <<"saved">> ELSE <<"saved", "pending">>, <<>>)
----
\* graph.invoke returns, first or after an approval: persist_unified_run counts
\* the revision, and the events are those of all its invokes.
Return(r) ==
    /\ phase[r] = "waiting"
    /\ live[r].revision < MaxRevision
    /\ \E new \in Invocations :
        live' = [live EXCEPT ![r] = Trace(@.revision + 1, @.events \o new)]
    /\ phase' = [phase EXCEPT ![r] = "saving"]
    /\ UNCHANGED <<tables, spool, answers>>
----
\* Mutant: an old snapshot is not told from a new one.
Stale_Never(r, trace) == FALSE

Stale(r, trace) == trace.revision <= stored[r].revision

\* save_trace raises a ValueError for the trace itself.
Invalid(r, trace) ==
    \/ TooManyCalls(trace)
    \/ trace.revision = stored[r].revision /\ trace # stored[r]
    \/ ~Stale(r, trace) /\ ~IsPrefix(stored[r].events, trace.events)

\* Mutant: as many call records as the table has are skipped, not those of the
\* events that the stored snapshot had.
Insert_SkipsByCount(r, trace) ==
    LET kept == Len(stored[r].events)
        added == SubSeq(trace.events, kept + 1, Len(trace.events))
        Later(count) == {row \in NumberedFrom(0, CallRecords(trace.events)) : row.call_index > count}
    IN  /\ stored' = [stored EXCEPT ![r] = trace]
        /\ rows' = [rows EXCEPT ![r] = @ \o added]
        /\ calls' = [calls EXCEPT ![r] = @ \cup Later(Cardinality(@))]

\* Mutant: the event rows of the run are replaced by the new ones.
Insert_ReplacesRows(r, trace) ==
    LET kept == Len(stored[r].events)
        added == SubSeq(trace.events, kept + 1, Len(trace.events))
        later == {i \in CallRecords(trace.events) : i > kept}
    IN  /\ stored' = [stored EXCEPT ![r] = trace]
        /\ rows' = [rows EXCEPT ![r] = added]
        /\ calls' = [calls EXCEPT ![r] = @ \cup NumberedFrom(Cardinality(@), later)]

\* The transaction: the row of the run, and the rows of the events and calls
\* that the stored snapshot did not have.
Insert(r, trace) ==
    LET kept == Len(stored[r].events)
        added == SubSeq(trace.events, kept + 1, Len(trace.events))
        later == {i \in CallRecords(trace.events) : i > kept}
    IN  /\ stored' = [stored EXCEPT ![r] = trace]
        /\ rows' = [rows EXCEPT ![r] = @ \o added]
        /\ calls' = [calls EXCEPT ![r] = @ \cup NumberedFrom(Cardinality(@), later)]

\* A write transaction creates the tables that its database lacks, in the same
\* transaction as what it writes; llm_calls starts empty.
Migrate ==
    /\ version' = 3
    /\ UNCHANGED unobserved

\* save_trace returns: TRUE for a newer snapshot, FALSE for an old one.  An
\* error rolls the migration back with the rest.
SaveTrace(r, trace) ==
    /\ ~Invalid(r, trace)
    /\ Migrate
    /\ IF Stale(r, trace) THEN UNCHANGED <<stored, rows, calls>>
       ELSE Insert(r, trace)
----
\* persist_trace has returned; only a run that waits for an approval goes on.
Answer(r, answer) ==
    /\ phase[r] = "saving"
    /\ \E next \in {"waiting", "over"} : phase' = [phase EXCEPT ![r] = next]
    /\ answers' = [answers EXCEPT ![r] = Append(@, answer)]
    /\ UNCHANGED live

Persist(r) ==
    /\ Answer(r, IF Stale(r, live[r]) THEN "unchanged" ELSE "saved")
    /\ SaveTrace(r, live[r])
    /\ UNCHANGED spool

\* Mutant: the failure is reported without spooling the snapshot.
PersistSpools_Not(r) ==
    /\ Answer(r, "pending")
    /\ UNCHANGED <<tables, spool>>

\* save_trace raises (the trace is invalid, the database is busy or cannot be
\* written) and the sanitised snapshot goes to a file of its own.
PersistSpools(r) ==
    /\ Answer(r, "pending")
    /\ spool' = spool \cup {[run |-> r, trace |-> live[r]]}
    /\ UNCHANGED tables

\* Writing that file raises too.
PersistFails(r) ==
    /\ Answer(r, "failed")
    /\ UNCHANGED <<tables, spool>>

\* The process ends: what only its memory holds is gone.
Crash(r) ==
    /\ phase[r] \in {"saving", "waiting"}
    /\ live[r].revision > 0
    /\ phase' = [phase EXCEPT ![r] = "over"]
    /\ UNCHANGED <<live, tables, spool, answers>>

\* replay_pending of one file: in any order, as often as someone runs the
\* script, also while the run goes on; the file stays.
Replay(snapshot) ==
    /\ SaveTrace(snapshot.run, snapshot.trace)
    /\ UNCHANGED <<live, phase, spool, answers>>

\* get_llm_calls: a reader migrates nothing, and schema 1 has no call table.
GetLlmCalls(r) == IF version < 2 THEN {} ELSE calls[r]

Next ==
    \/ \E r \in Runs : \/ Return(r) \/ Persist(r) \/ PersistSpools(r)
                       \/ PersistFails(r) \/ Crash(r)
    \/ \E snapshot \in spool : Replay(snapshot)

Spec == Init /\ [][Next]_vars
----
Traces == [revision : Nat, events : Seq(Events)]

TypeOK ==
    /\ live \in [Runs -> Traces]
    /\ phase \in [Runs -> {"waiting", "saving", "over"}]
    /\ stored \in [Runs -> Traces]
    /\ rows \in [Runs -> Seq(Events)]
    /\ calls \in [Runs -> SUBSET [call_index : 1 .. MaxCalls, event_seq : Nat]]
    /\ version \in 0 .. 3
    /\ unobserved \in [Runs -> Nat]
    /\ spool \subseteq [run : Runs, trace : Traces]
    /\ answers \in [Runs -> Seq({"saved", "unchanged", "pending", "failed"})]

\* In whatever order snapshots arrive, whichever are skipped or repeated, and
\* whatever release wrote the first of them, the event table holds exactly the
\* events of the stored snapshot, and the call table exactly the observations
\* of those that were stored since it exists, numbered 1, 2, ... in their order:
\* a migration infers none, and no later snapshot of an old run loses, repeats,
\* backfills or misnumbers one.
TablesAgree ==
    \A r \in Runs :
        LET since == {i \in CallRecords(stored[r].events) : i > unobserved[r]}
        IN  /\ rows[r] = stored[r].events
            /\ GetLlmCalls(r) = NumberedFrom(0, since)

\* What the caller was told is kept: a saved revision is in the database, in
\* this or a newer form, and a pending one is in the spool.
AnswersAreKept ==
    \A r \in Runs : \A k \in DOMAIN answers[r] :
        /\ answers[r][k] = "saved" => stored[r].revision >= k
        /\ answers[r][k] = "pending" =>
            \E s \in spool : s.run = r /\ s.trace.revision = k

\* No snapshot that a run produced, in memory or in the spool, conflicts with
\* the database: save_trace can only refuse it for its number of calls.
SnapshotsAgree ==
    /\ \A r \in Runs : Invalid(r, live[r]) => TooManyCalls(live[r])
    /\ \A s \in spool : Invalid(s.run, s.trace) => TooManyCalls(s.trace)

\* The tables implement the promise of the protocol.
StoredRevisions == [r \in Runs |-> stored[r].revision]
Promised == INSTANCE RunHistory WITH revision <- StoredRevisions, history <- rows
PromisedHistory == Promised!Spec
====
