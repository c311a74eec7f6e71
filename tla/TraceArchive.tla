---------------------------- MODULE TraceArchive ----------------------------
(***************************************************************************)
(* What else works on the trace database beside the runs that save in it   *)
(* (module TraceStore): the archive of JSON and JSONL files                *)
(* (SQLiteTraceStore.save_json_file, coding_rag/storage/artifacts.py), the *)
(* script that imports files and converts the archived traces              *)
(* (scripts/import_json_artifacts.py, coding_rag/storage/legacy.py), and   *)
(* the history of /api/traces, read a page at a time (list_traces).        *)
(*                                                                         *)
(* Every operation has a connection of its own, so the script's steps, the *)
(* pages of a reader and the saves of a run interleave.  A file is what    *)
(* the code tells of it: its format, its records, whether it can be        *)
(* parsed.  A record is a snapshot with a run_id ("native"), a trace from  *)
(* before there were any ("legacy": its id is the hash of its content), a  *)
(* summary that is no trace ("other"), or one that fails validation        *)
(* ("invalid").  U+2028 and its like end a line for str.splitlines, and    *)
(* json.dumps(ensure_ascii=False) writes them as they are: "breaks".       *)
(***************************************************************************)
EXTENDS Integers, Sequences, Numbers

CONSTANTS
    None,
    Run,          \* the run_id of a run of the server that goes on meanwhile
    Ids,          \* every run_id, in the order of the strings
    Paths,
    Settings,     \* what there may be to work on, see "setting"
    Limit,        \* the page size of a reader
    MaxScripts    \* bound: how often the script is started

VARIABLES
    setting,   \* the contents that files may have beside snapshots of Run, the
               \* selections of files the script may be called with, the filters
               \* of a reader (a source, or None); and the bounds maxRevision
               \* (saves of Run) and maxArchives (archived versions of files)
    schema,    \* the database: "none", "old" (1 or 2), "current", "refused"
    rows,      \* trace_runs: a function of the run_ids it has
    archive,   \* json_files, in the order of saved_at
    now,
    made,      \* when each revision of Run was returned
    script,    \* the process of import_json_artifacts.py
    reader,    \* a client that follows the pages of /api/traces
    fixed,     \* the rows that have not changed since its first page
    quiet,     \* no one else wrote since the script began to convert
    busy       \* the database has failed the script for a moment

vars == <<setting, schema, rows, archive, now, made, script, reader, fixed, quiet, busy>>

Native(id, revision, updated, text, context) ==
    [kind |-> "native", id |-> id, revision |-> revision, updated |-> updated,
     text |-> text, context |-> context, breaks |-> FALSE]

\* The snapshot of a revision of Run, bare or in the wrapper of its spool file.
Snapshot(k, context) == Native(Run, k, made[k], "own", context)

Exports ==
    {[format |-> "json", parses |-> TRUE, escaped |-> TRUE, records |-> <<Snapshot(k, context)>>] :
        k \in DOMAIN made, context \in {None, "server"}}

Idle == [pc |-> "idle", todo |-> <<>>, seen |-> {}, convert |-> FALSE, upto |-> 0,
         file |-> 0, record |-> 0, existing |-> None, source |-> None,
         failed |-> {}, started |-> 0]
NotReading == [pc |-> "idle", source |-> None, cursor |-> None, shown |-> <<>>]

Init ==
    /\ setting \in Settings
    /\ schema \in {"none", "old", "current", "refused"}
    /\ rows = [id \in {} |-> None]
    /\ archive = <<>>
    /\ now = 1
    /\ made = <<>>
    /\ script = Idle
    /\ reader = NotReading
    /\ fixed = {}
    /\ quiet = FALSE
    /\ busy = FALSE
-----------------------------------------------------------------------------
Has(id) == id \in DOMAIN rows

\* save_trace of a record raises: another source, another snapshot of the same
\* revision, or one that does not continue the stored events.
Conflicts(trace, source) ==
    /\ Has(trace.id)
    /\ LET row == rows[trace.id]
       IN  \/ source # row.source
           \/ trace.revision = row.revision /\ <<trace.updated, trace.text>> # <<row.updated, row.text>>
           \/ trace.revision > row.revision /\ trace.text # row.text

IsOld(trace) == Has(trace.id) /\ trace.revision <= rows[trace.id].revision

Put(trace, source) ==
    /\ rows' = [id \in DOMAIN rows \cup {trace.id} |->
                  IF id = trace.id THEN [revision |-> trace.revision, updated |-> trace.updated,
                                         text |-> trace.text, source |-> source]
                  ELSE rows[id]]
    /\ fixed' = fixed \ {trace.id}

\* save_trace in its transaction, which also creates what the schema lacks.
SaveTrace(trace, source) ==
    /\ schema # "refused"
    /\ ~Conflicts(trace, source)
    /\ schema' = "current"
    /\ IF IsOld(trace) THEN UNCHANGED <<rows, fixed>> ELSE Put(trace, source)

\* Run returns, for the first time or again after an approval.
Return ==
    /\ Len(made) < setting.maxRevision
    /\ made' = Append(made, now)
    /\ now' = now + 1
    /\ UNCHANGED <<setting, schema, rows, archive, script, reader, fixed, quiet, busy>>

\* persist_trace, or replay_pending of a spooled snapshot at any later time.
Persist(k) ==
    /\ SaveTrace(Snapshot(k, "server"), "server")
    /\ quiet' = FALSE
    /\ UNCHANGED <<setting, archive, now, made, script, reader, busy>>
-----------------------------------------------------------------------------
Splits(content) ==
    content.format = "jsonl" /\ \E i \in DOMAIN content.records : content.records[i].breaks

\* Every line of a JSONL file must parse; one that does not, and none is kept.
IsReadable(content) == content.parses /\ (Splits(content) => content.escaped)

\* The transaction of save_json_file: a path keeps one copy of each content.
\* The archive holds what was parsed, written anew without escapes.
Store(path, content) ==
    LET clean == [content EXCEPT !.escaped = FALSE]
    IN  IF \E i \in DOMAIN archive : archive[i].path = path /\ archive[i].content = clean
        THEN UNCHANGED <<archive, now>>
        ELSE /\ Len(archive) < setting.maxArchives
             /\ archive' = Append(archive, [path |-> path, content |-> clean, at |-> now])
             /\ now' = now + 1

SaveJsonFile(path, content) ==
    /\ schema # "refused"
    /\ IsReadable(content)
    /\ schema' = "current"
    /\ Store(path, content)

\* Another program writes a file and archives it; when that fails, it goes on.
WriteJsonArtifact(path, content) ==
    /\ SaveJsonFile(path, content)
    /\ UNCHANGED <<setting, rows, made, script, reader, fixed, quiet, busy>>
-----------------------------------------------------------------------------
Failure(why, kind) == [why |-> why, kind |-> kind]

\* The script is called with files, or for what is archived already.
Call(selection, convert) ==
    /\ script.pc = "idle" /\ script.started < MaxScripts
    /\ selection = <<>> => convert
    /\ IF schema = "refused"
       THEN script' = [script EXCEPT !.failed = {Failure("database", None)}, !.pc = "exit"] /\ UNCHANGED schema
       ELSE /\ schema' = "current"
            /\ script' = [Idle EXCEPT !.pc = "files", !.todo = selection, !.convert = convert,
                                      !.started = script.started]
    /\ UNCHANGED <<setting, rows, archive, now, made, reader, fixed, quiet, busy>>

NextFile == [script EXCEPT !.todo = Tail(@), !.seen = @ \cup {Head(script.todo)}]

\* A path that was given twice is imported once.
SkipFile ==
    /\ script.pc = "files" /\ script.todo # <<>>
    /\ Head(script.todo) \in script.seen
    /\ script' = NextFile
    /\ UNCHANGED <<setting, schema, rows, archive, now, made, reader, fixed, quiet, busy>>

ImportFile(content) ==
    /\ script.pc = "files" /\ script.todo # <<>>
    /\ Head(script.todo) \notin script.seen
    /\ IF IsReadable(content)
       THEN SaveJsonFile(Head(script.todo), content) /\ script' = NextFile
       ELSE /\ script' = [NextFile EXCEPT !.failed = @ \cup {Failure("file", None)}]
            /\ UNCHANGED <<schema, archive, now>>
    /\ UNCHANGED <<setting, rows, made, reader, fixed, quiet, busy>>

\* The query of iter_json_files: a snapshot of the archive, oldest first.
Convert ==
    /\ script.pc = "files" /\ script.todo = <<>>
    /\ IF script.convert
       THEN script' = [script EXCEPT !.pc = "record", !.upto = Len(archive), !.file = 1, !.record = 1]
       ELSE script' = [script EXCEPT !.pc = "exit"]
    /\ quiet' = script.convert
    /\ UNCHANGED <<setting, schema, rows, archive, now, made, reader, fixed, busy>>

Archived == archive[script.file]
Current == Archived.content.records[script.record]
NextRecord == [script EXCEPT !.pc = "record", !.record = @ + 1, !.existing = None, !.source = None]
Failed(why) == [NextRecord EXCEPT !.failed = @ \cup {Failure(why, Current.kind)}]

EndOfFile ==
    /\ script.pc = "record" /\ script.file <= script.upto
    /\ Splits(Archived.content) \/ script.record > Len(Archived.content.records)
    /\ script' = [script EXCEPT !.file = @ + 1, !.record = 1,
                                !.failed = IF Splits(Archived.content) THEN @ \cup {Failure("breaks", None)} ELSE @]
    /\ UNCHANGED <<setting, schema, rows, archive, now, made, reader, fixed, quiet, busy>>

\* normalize_legacy_trace passes over what is no trace; else get_trace.
GetTrace ==
    /\ script.pc = "record" /\ script.file <= script.upto
    /\ ~Splits(Archived.content) /\ script.record <= Len(Archived.content.records)
    /\ script' = CASE Current.kind = "other" -> NextRecord
                   [] Current.kind = "invalid" -> Failed("invalid")
                   [] OTHER -> [script EXCEPT
                        !.pc = "existing", !.existing = IF Has(Current.id) THEN rows[Current.id] ELSE None]
    /\ UNCHANGED <<setting, schema, rows, archive, now, made, reader, fixed, quiet, busy>>

\* Mutant: a record without a date has the date of the copy at hand.
Dated_ByCopy(record, existing, archived) ==
    [record EXCEPT !.updated = IF @ = None THEN archived.at ELSE @]

\* A record without a date keeps the one it was first saved with.
Dated(record, existing, archived) ==
    [record EXCEPT !.updated =
        IF @ # None THEN @ ELSE IF existing # None THEN existing.updated ELSE archived.at]

\* An equal or an older copy leaves the existing run alone.
IsKnown(trace, existing) ==
    /\ existing # None
    /\ \/ trace.revision < existing.revision
       \/ <<trace.revision, trace.updated, trace.text>> = <<existing.revision, existing.updated, existing.text>>

Incoming == Dated(Current, script.existing, Archived)

\* The context of the wrapper, or get_trace_context, or none that is known.
SourceOf(record) ==
    IF record.context # None THEN record.context
    ELSE IF Has(record.id) THEN rows[record.id].source ELSE "legacy_import"

GetTraceContext ==
    /\ script.pc = "existing"
    /\ script' = IF IsKnown(Incoming, script.existing) THEN NextRecord
                 ELSE [script EXCEPT !.pc = "save", !.source = SourceOf(Current)]
    /\ UNCHANGED <<setting, schema, rows, archive, now, made, reader, fixed, quiet, busy>>

SaveRecord ==
    /\ script.pc = "save"
    /\ IF Conflicts(Incoming, script.source)
       THEN script' = Failed("conflict") /\ UNCHANGED <<schema, rows, fixed>>
       ELSE script' = NextRecord /\ SaveTrace(Incoming, script.source)
    /\ UNCHANGED <<setting, archive, now, made, reader, quiet, busy>>

\* sqlite3.Error: this file or record is counted as failed, the next is tried.
DatabaseFails ==
    /\ ~busy
    /\ busy' = TRUE
    /\ \/ /\ script.pc = "files" /\ script.todo # <<>> /\ Head(script.todo) \notin script.seen
          /\ script' = [NextFile EXCEPT !.failed = @ \cup {Failure("database", None)}]
       \/ /\ script.pc \in {"existing", "save"}
          /\ script' = Failed("database")
    /\ UNCHANGED <<setting, schema, rows, archive, now, made, reader, fixed, quiet>>

Finish ==
    /\ script.pc = "record" /\ script.file > script.upto
    /\ script' = [script EXCEPT !.pc = "exit"]
    /\ UNCHANGED <<setting, schema, rows, archive, now, made, reader, fixed, quiet, busy>>

\* 1 when a file or a record failed.
ExitCode == IF script.failed = {} THEN 0 ELSE 1

Exit ==
    /\ script.pc = "exit"
    /\ script' = [Idle EXCEPT !.started = script.started + 1]
    /\ quiet' = FALSE
    /\ UNCHANGED <<setting, schema, rows, archive, now, made, reader, fixed, busy>>
-----------------------------------------------------------------------------
Rank(id) == CHOOSE i \in DOMAIN Ids : Ids[i] = id

\* The order of a page: updated_at DESC, run_id DESC.
Precedes(a, b) == a[1] > b[1] \/ (a[1] = b[1] /\ Rank(a[2]) > Rank(b[2]))

Position(id) == <<rows[id].updated, id>>

Matching(source) == {id \in DOMAIN rows : source \in {None, rows[id].source}}

\* Where a page may go on: the rows behind the cursor.
Behind(source, cursor) ==
    {id \in Matching(source) : cursor = None \/ Precedes(cursor, Position(id))}

\* The first of some runs, and the first n of them.
First(S) == CHOOSE id \in S : \A other \in S : other = id \/ Precedes(Position(id), Position(other))

Firsts(S) ==
    LET first[n \in 0 .. Limit + 1] ==
          IF n = 0 THEN <<>>
          ELSE LET left == S \ {first[n - 1][i] : i \in DOMAIN first[n - 1]}
               IN  IF left = {} THEN first[n - 1] ELSE Append(first[n - 1], First(left))
    IN  first

\* list_traces asks for one row more than the limit, to know of a next page.
ListTraces ==
    LET found == Firsts(Behind(reader.source, reader.cursor))[Limit + 1]
        items == SubSeq(found, 1, Lesser(Limit, Len(found)))
        more == Len(found) > Limit
    IN  [reader EXCEPT
           !.pc = IF more THEN "next" ELSE "done", !.shown = @ \o items,
           !.cursor = IF more THEN Position(items[Limit]) ELSE None]

Open(source) ==
    /\ reader.pc = "idle" /\ schema # "refused"
    /\ reader' = [reader EXCEPT !.pc = "next", !.source = source]
    /\ fixed' = Matching(source)
    /\ UNCHANGED <<setting, schema, rows, archive, now, made, script, quiet, busy>>

Page ==
    /\ reader.pc = "next"
    /\ reader' = ListTraces
    /\ UNCHANGED <<setting, schema, rows, archive, now, made, script, fixed, quiet, busy>>
-----------------------------------------------------------------------------
Next ==
    \/ Return
    \/ \E k \in DOMAIN made : Persist(k)
    \/ \E path \in Paths, content \in setting.contents \cup Exports : WriteJsonArtifact(path, content)
    \/ \E selection \in setting.selections, convert \in BOOLEAN : Call(selection, convert)
    \/ SkipFile
    \/ \E content \in setting.contents \cup Exports : ImportFile(content)
    \/ Convert \/ EndOfFile \/ GetTrace \/ GetTraceContext \/ SaveRecord
    \/ DatabaseFails \/ Finish \/ Exit
    \/ \E source \in setting.filters : Open(source)
    \/ Page

Spec == Init /\ [][Next]_vars
-----------------------------------------------------------------------------
\* The archived files of which an import would still save a record.
Unsettled(upto) ==
    {i \in 1 .. upto : ~Splits(archive[i].content) /\ \E j \in DOMAIN archive[i].content.records :
        LET record == archive[i].content.records[j]
            existing == IF Has(record.id) THEN rows[record.id] ELSE None
            trace == Dated(record, existing, archive[i])
        IN  /\ record.kind \in {"native", "legacy"}
            /\ ~IsKnown(trace, existing) /\ ~Conflicts(trace, SourceOf(record)) /\ ~IsOld(trace)}

\* An import may be repeated: once it is over, and if nobody else wrote, doing
\* it again would save nothing; a legacy record, however many copies of it
\* there are, is never in conflict with itself.
ImportsAreRepeatable ==
    /\ script.pc = "exit" /\ quiet /\ ~busy => Unsettled(script.upto) = {}
    /\ Failure("conflict", "legacy") \notin script.failed

\* The record of a legacy run, and the archived files that have a copy of it.
IsOf(record, id) == record.kind = "legacy" /\ record.id = id

Copies(id) ==
    {i \in DOMAIN archive : /\ ~Splits(archive[i].content)
                           /\ \E j \in DOMAIN archive[i].content.records : IsOf(archive[i].content.records[j], id)}

\* A legacy run has the date of the first copy that could be imported, in
\* whatever order copies were archived, imported and imported again.
LegacyKeepsItsDate ==
    busy \/ \A id \in DOMAIN rows : rows[id].text = "legacy" =>
        LET first == archive[Least(Copies(id))]
        IN  \E j \in DOMAIN first.content.records :
              /\ IsOf(first.content.records[j], id)
              /\ rows[id].updated = Dated(first.content.records[j], None, first).updated

\* The archived files that have a copy of Run without its context.
BareCopies ==
    {i \in DOMAIN archive : \E j \in DOMAIN archive[i].content.records :
        \E k \in DOMAIN made : archive[i].content.records[j] = Snapshot(k, None)}

\* The database refuses a snapshot of the run for one reason only: a copy of it
\* that says nothing of its context was imported when the run itself was not
\* stored yet, and gave it another source for good (legacy.py:163, sqlite.py:277).
RunsAreAccepted ==
    \A k \in DOMAIN made : Conflicts(Snapshot(k, "server"), "server") =>
        rows[Run].source = "legacy_import" /\ BareCopies # {}

\* A client that follows next_cursor to the end sees no run twice, and misses
\* none that was there at the first page and has not been saved since.
PagesAreComplete ==
    LET seen == reader.shown
    IN  /\ \A i, j \in DOMAIN seen : seen[i] = seen[j] => i = j
        /\ reader.pc = "done" => fixed \subseteq {seen[i] : i \in DOMAIN seen}

\* Copies, imports, saves and pages do not disturb each other.
HistoryIsKept ==
    ImportsAreRepeatable /\ LegacyKeepsItsDate /\ RunsAreAccepted /\ PagesAreComplete
-----------------------------------------------------------------------------
\* What holds of the settings.  A record that is a trace is dated or not; a
\* legacy record, whose id is the hash of its content, is the same in every
\* copy; revisions of a run have its id and the dates of their order.
Traces == {"native", "legacy"}

Ranked == {Ids[i] : i \in DOMAIN Ids}

Outside(s) == UNION {{content.records[j] : j \in DOMAIN content.records} : content \in s.contents}

Texts(s) == {"own"} \cup {record.text : record \in Outside(s)}
Sources(s) == {"server", "legacy_import"} \cup {record.context : record \in Outside(s)}
Row(s) == [revision : Nat, updated : Nat, text : Texts(s), source : Sources(s)]

IsSetting(s) ==
    /\ None \notin Row(s)
    /\ \A content \in s.contents :
         /\ DOMAIN content = {"format", "parses", "escaped", "records"}
         /\ content.records \in Seq(Outside(s))
    /\ \A a \in Outside(s) :
         /\ DOMAIN a = {"kind", "id", "revision", "updated", "text", "context", "breaks"}
         /\ a.kind \in Traces \cup {"other", "invalid"}
         /\ a.kind \in Traces => /\ a.id \in Ranked \ {Run} /\ a.revision \in Nat
                                 /\ a.updated \in Nat \cup {None}
                                 /\ a.kind = "legacy" <=> a.text = "legacy"
    /\ \A a, b \in Outside(s) : a.kind \in Traces /\ b.kind \in Traces /\ a.id = b.id =>
         /\ a.kind = "legacy" => b.kind = "legacy" /\ b.revision = a.revision /\ b.updated = a.updated
         /\ a.revision < b.revision => a.updated # None /\ b.updated # None /\ a.updated <= b.updated

\* The files: what is archived are records of the setting and snapshots of Run,
\* which are dated in the order of their revisions.
Known == Outside(setting) \cup {Snapshot(k, context) : k \in DOMAIN made, context \in {None, "server"}}

FilesInv ==
    /\ setting \in Settings
    /\ now \in Nat /\ made \in Seq(Nat)
    /\ \A k \in DOMAIN made : made[k] < now /\ \A l \in DOMAIN made : k < l => made[k] < made[l]
    /\ archive \in Seq({archive[i] : i \in DOMAIN archive})
    /\ \A i \in DOMAIN archive : archive[i].at \in Nat /\ archive[i].content.records \in Seq(Known)

\* A row is of a record.
RowsInv ==
    \A id \in DOMAIN rows :
        /\ rows[id] \in Row(setting)
        /\ \E record \in Known :
             /\ record.kind \in Traces /\ record.id = id
             /\ record.revision = rows[id].revision /\ record.text = rows[id].text
             /\ record.updated \in {None, rows[id].updated}

\* The script and the record at hand: only saves of Run change what it has read.
Undisturbed(record) == quiet \/ record.id # Run

ScriptInv ==
    /\ DOMAIN script = DOMAIN Idle
    /\ script.pc \in {"idle", "files", "record", "existing", "save", "exit"}
    /\ script.upto \in 0 .. Len(archive) /\ script.file \in Nat /\ script.record \in Nat
    /\ Failure("conflict", "legacy") \notin script.failed
    /\ quiet => script.pc \in {"record", "existing", "save", "exit"}
    /\ quiet /\ script.pc = "exit" => script.file > script.upto
    /\ script.pc \in {"record", "existing", "save"} => script.file > 0 /\ script.record > 0
    /\ script.pc \in {"existing", "save"} =>
         /\ script.file <= script.upto /\ ~Splits(Archived.content)
         /\ script.record <= Len(Archived.content.records)
         /\ Current.kind \in Traces
         /\ Undisturbed(Current) =>
              script.existing = IF Has(Current.id) THEN rows[Current.id] ELSE None
    /\ script.pc = "save" =>
         /\ ~IsKnown(Incoming, script.existing)
         /\ script.source \in Sources(setting)
         /\ Undisturbed(Current) => script.source = SourceOf(Current)

\* Saving the record again would change nothing; that remains so.
Settled(record) ==
    /\ Has(record.id)
    /\ \/ record.revision <= rows[record.id].revision
       \/ record.context \notin {None, rows[record.id].source}
       \/ record.text # rows[record.id].text

\* The script settles what it has passed.
Passed(i, j) == i < script.file \/ (i = script.file /\ j < script.record)

ProgressInv ==
    ~busy /\ (script.pc \in {"record", "existing", "save"} \/ (script.pc = "exit" /\ quiet)) =>
        \A i \in 1 .. script.upto : ~Splits(archive[i].content) =>
            \A j \in DOMAIN archive[i].content.records :
                LET record == archive[i].content.records[j]
                IN  Passed(i, j) /\ record.kind \in Traces /\ Undisturbed(record) => Settled(record)

\* Run has its own source, unless a bare copy of it is imported before it.
SourceInv ==
    /\ Has(Run) => \/ rows[Run].source = "server"
                   \/ rows[Run].source = "legacy_import" /\ BareCopies # {}
    /\ script.pc = "save" /\ Current.id = Run =>
         \/ script.source = "server"
         \/ script.source = "legacy_import" /\ BareCopies # {}

\* The date of a legacy run is of the first copy.
DatesInv ==
    busy \/ \A id \in DOMAIN rows : rows[id].text = "legacy" =>
        \E i \in Copies(id) :
            /\ \A k \in Copies(id) : i <= k
            /\ \E j \in DOMAIN archive[i].content.records :
                 /\ IsOf(archive[i].content.records[j], id)
                 /\ rows[id].updated = Dated(archive[i].content.records[j], None, archive[i]).updated

\* What the reader has been shown is not behind its cursor, and stays there,
\* since a row that is saved again moves to the front.
PagesInv ==
    LET seen == reader.shown
    IN  /\ DOMAIN reader = DOMAIN NotReading
        /\ seen \in Seq(DOMAIN rows)
        /\ \A i, j \in DOMAIN seen : seen[i] = seen[j] => i = j
        /\ reader.pc \in {"idle", "next", "done"}
        /\ reader.pc = "idle" => seen = <<>> /\ reader.cursor = None /\ fixed = {}
        /\ reader.pc = "next" =>
             /\ reader.cursor = None => seen = <<>>
             /\ reader.cursor # None => /\ reader.cursor \in Nat \X Ranked
                                       /\ \A i \in DOMAIN seen : ~Precedes(reader.cursor, Position(seen[i]))
             /\ fixed \subseteq {seen[i] : i \in DOMAIN seen} \cup Behind(reader.source, reader.cursor)
        /\ reader.pc = "done" => fixed \subseteq {seen[i] : i \in DOMAIN seen}

ArchiveInv ==
    FilesInv /\ RowsInv /\ SourceInv /\ ScriptInv /\ ProgressInv /\ DatesInv /\ PagesInv
=============================================================================
