---- MODULE IndexRegistry ----
(***************************************************************************)
(* RepositoryIndexRegistry.get (coding_rag/repository/search_index.py):    *)
(* the search index of a repository whose files change while it is         *)
(* scanned, read and verified, with the LRU of one process, the lock per   *)
(* key, and the disk cache that all processes of the user share.           *)
(*                                                                         *)
(* A file is a number, in the order of the walk.  Its version stands for   *)
(* both its text and the size and mtime that a manifest records; version 0 *)
(* is no such file.  All keys index the same tree, with other settings.    *)
(***************************************************************************)
EXTENDS Naturals, Sequences, SequencesExt

CONSTANTS
    Threads,
    Processes,
    ProcessOf,    \* the process of each thread
    Keys,         \* RepositoryIndexKeys of one repository
    NumFiles,
    MaxEntries,   \* max_entries
    Unreadable,   \* may opening an existing file fail for a moment?
    None,         \* the Python None
    MaxEdits,     \* bound: changes of the tree
    MaxCalls      \* bound: calls of get per thread

ASSUME ThreadsAssumption ==
    /\ ProcessOf \in [Threads -> Processes]
    /\ None \notin Keys

ASSUME SizesAssumption ==
    /\ NumFiles \in Nat \ {0}
    /\ MaxEntries \in Nat \ {0}
    /\ Unreadable \in BOOLEAN
    /\ MaxEdits \in Nat
    /\ MaxCalls \in Nat

VARIABLES
    history,   \* all states of the working tree so far; the last is the present
    memory,    \* _entries of each process, the least recently used first
    disk,      \* the cache file of each key, None for none
    at,        \* where the thread is in get
    key,       \* the key it looks up, whose lock it holds
    tries,     \* attempts that the loop has used up
    manifest,  \* the first scan, as far as it has come
    baseline,  \* the index an incremental build starts from
    content,   \* the files read so far
    again,     \* the second scan, as far as it has come
    since,     \* when the call began, as a position in history
    answer,    \* the index the last call returned, None if it raised
    callsMade

fileVars == <<history, disk>>
scanVars == <<manifest, baseline, content, again>>
callVars == <<key, since, callsMade>>
vars == <<fileVars, memory, at, tries, scanVars, callVars, answer>>

Files == 1..NumFiles
Versions == 0..(MaxEdits + 1)
tree == Last(history)
Indexes == [manifest : [Files -> Versions], content : [Files -> Versions]]

Candidate(t) == [manifest |-> manifest[t], content |-> content[t]]
Entries(p) == ToSet(memory[p])
Cached(p, k) == \E e \in Entries(p) : e.key = k
EntryOf(p, k) == (CHOOSE e \in Entries(p) : e.key = k).index

Init ==
    /\ \E first \in [Files -> {0, 1}] : history = <<first>>
    /\ memory = [p \in Processes |-> <<>>]
    /\ disk = [k \in Keys |-> None]
    /\ at = [t \in Threads |-> "idle"]
    /\ key = [t \in Threads |-> None]
    /\ tries = [t \in Threads |-> 0]
    /\ manifest = [t \in Threads |-> <<>>]
    /\ baseline = [t \in Threads |-> None]
    /\ content = [t \in Threads |-> <<>>]
    /\ again = [t \in Threads |-> <<>>]
    /\ since = [t \in Threads |-> 1]
    /\ answer = [t \in Threads |-> None]
    /\ callsMade = [t \in Threads |-> 0]

Clear(var, t, value) == [var EXCEPT ![t] = value]

\* Start an attempt of t, or leave get, with nothing scanned yet.
Fresh(t, place) ==
    /\ at' = Clear(at, t, place)
    /\ manifest' = Clear(manifest, t, <<>>)
    /\ baseline' = Clear(baseline, t, None)
    /\ content' = Clear(content, t, <<>>)
    /\ again' = Clear(again, t, <<>>)

\* The call is over; all that stays of it is its result.
Leave(t, result) ==
    /\ Fresh(t, "idle")
    /\ tries' = Clear(tries, t, 0)
    /\ key' = Clear(key, t, None)
    /\ since' = Clear(since, t, 1)
    /\ answer' = Clear(answer, t, result)
    /\ UNCHANGED callsMade

Raise(t) == Leave(t, None)

\* "continue" in the loop: the third attempt ends in a RuntimeError.
Retry(t) ==
    IF tries[t] = 2 THEN Raise(t)
    ELSE /\ Fresh(t, "scan")
         /\ tries' = [tries EXCEPT ![t] = @ + 1]
         /\ UNCHANGED <<callVars, answer>>
----
\* Someone edits, creates or deletes a file.  An edit gives it a version it
\* never had: that an old mtime comes back is left out.
EditTree ==
    /\ Len(history) <= MaxEdits
    /\ \E f \in Files, v \in Versions :
        /\ v # tree[f]
        /\ v \in {0, Len(history) + 1}
        /\ history' = Append(history, [tree EXCEPT ![f] = v])
    /\ UNCHANGED <<disk, memory, at, tries, scanVars, callVars, answer>>

Begins(t, k) ==
    /\ at[t] = "idle"
    /\ callsMade[t] < MaxCalls
    /\ Fresh(t, "scan")
    /\ key' = [key EXCEPT ![t] = k]
    /\ since' = [since EXCEPT ![t] = Len(history)]
    /\ callsMade' = [callsMade EXCEPT ![t] = @ + 1]
    /\ answer' = [answer EXCEPT ![t] = None]
    /\ UNCHANGED <<fileVars, memory, tries>>

\* Mutant: the lock of the key is not taken.
Enter_Unlocked(t) == \E k \in Keys : Begins(t, k)

\* get has the lock of its key: no other thread of the process is in get for it.
Enter(t) ==
    \E k \in Keys :
        /\ \A u \in Threads : ProcessOf[u] = ProcessOf[t] => key[u] # k
        /\ Begins(t, k)

\* build_manifest takes down one file after the other.
Scan(t) ==
    /\ at[t] = "scan"
    /\ Len(manifest[t]) < NumFiles
    /\ manifest' = [manifest EXCEPT ![t] = Append(@, tree[Len(@) + 1])]
    /\ UNCHANGED <<fileVars, memory, at, tries, baseline, content, again, callVars, answer>>

\* The root of the repository has gone, so that a scan raises.
ScanRaises(t) ==
    /\ \/ at[t] = "scan" /\ manifest[t] = <<>>
       \/ at[t] = "verify" /\ again[t] = <<>>
    /\ Raise(t)
    /\ UNCHANGED <<fileVars, memory>>

Scanned(t) == at[t] = "scan" /\ Len(manifest[t]) = NumFiles

\* The entries of p but that of k.
Others(p, k) ==
    IF Cached(p, k)
    THEN RemoveAt(memory[p], CHOOSE i \in DOMAIN memory[p] : memory[p][i].key = k)
    ELSE memory[p]

\* _publish: the entry becomes the most recently used one and the oldest go.
Published(p, k, index) ==
    LET all == Append(Others(p, k), [key |-> k, index |-> index])
        excess == IF Len(all) > MaxEntries THEN Len(all) - MaxEntries ELSE 0
    IN  SubSeq(all, excess + 1, Len(all))

Publish(t, index) ==
    LET p == ProcessOf[t]
    IN  memory' = [memory EXCEPT ![p] = Published(p, key[t], index)]

\* The entry in memory has the manifest just scanned.
MemoryHit(t) ==
    /\ Scanned(t)
    /\ Cached(ProcessOf[t], key[t])
    /\ LET previous == EntryOf(ProcessOf[t], key[t])
       IN  /\ previous.manifest = manifest[t]
           /\ Publish(t, previous)
           /\ Leave(t, previous)
    /\ UNCHANGED fileVars

\* parse_sources refuses a cache file with the text of a file that is not in its
\* manifest.
Readable(k) ==
    /\ disk[k] # None
    /\ \A f \in Files : disk[k].manifest[f] = 0 => disk[k].content[f] = 0

\* Mutant: a readable cache file is used whatever its manifest.
DiskHit_Unchecked(t) ==
    /\ Scanned(t)
    /\ ~Cached(ProcessOf[t], key[t])
    /\ Readable(key[t])
    /\ Publish(t, disk[key[t]])
    /\ Leave(t, disk[key[t]])
    /\ UNCHANGED fileVars

\* Nothing in memory, but the cache file has the manifest just scanned.
DiskHit(t) ==
    /\ Scanned(t)
    /\ ~Cached(ProcessOf[t], key[t])
    /\ Readable(key[t])
    /\ disk[key[t]].manifest = manifest[t]
    /\ Publish(t, disk[key[t]])
    /\ Leave(t, disk[key[t]])
    /\ UNCHANGED fileVars

\* The index to start from: the stale entry in memory, else the cache file,
\* unless there is none or it is refused or cannot be read.
Baselines(t) ==
    IF Cached(ProcessOf[t], key[t]) THEN {EntryOf(ProcessOf[t], key[t])}
    ELSE {None} \cup (IF Readable(key[t]) THEN {disk[key[t]]} ELSE {})

BeginBuild(t) ==
    /\ Scanned(t)
    /\ \E start \in Baselines(t) :
        /\ start # None => start.manifest # manifest[t]
        /\ baseline' = [baseline EXCEPT ![t] = start]
    /\ at' = [at EXCEPT ![t] = "build"]
    /\ UNCHANGED <<fileVars, memory, tries, manifest, content, again, callVars, answer>>
----
\* The text the build has for file f.  A full build walks the tree itself and
\* reads whatever is there now, in the manifest or not; an incremental one takes
\* what the baseline has for an unchanged entry of the manifest, else what the
\* file holds now.  read_source_text has no text for a file that has gone, or
\* that it cannot open.
Texts(t, f) ==
    LET start == baseline[t]
        now == {tree[f]} \cup (IF Unreadable THEN {0} ELSE {})
    IN  IF start = None THEN now
        ELSE IF manifest[t][f] = 0 THEN {0}
        ELSE IF start.manifest[f] = manifest[t][f] THEN {start.content[f]}
        ELSE now

\* build_repository_index or build_incremental_repository_index goes on to the
\* next file.
ReadFile(t) ==
    /\ at[t] = "build"
    /\ Len(content[t]) < NumFiles
    /\ \E text \in Texts(t, Len(content[t]) + 1) :
        content' = [content EXCEPT ![t] = Append(@, text)]
    /\ UNCHANGED <<fileVars, memory, at, tries, manifest, baseline, again, callVars, answer>>

NoChunks(t) == \A f \in Files : content[t][f] = 0

\* The build has read every file, and found some text.
Built(t) ==
    /\ at[t] = "build"
    /\ Len(content[t]) = NumFiles
    /\ ~NoChunks(t)
    /\ at' = [at EXCEPT ![t] = "verify"]
    /\ UNCHANGED <<fileVars, memory, tries, scanVars, callVars, answer>>

\* ValueError: no source code chunks found.
BuildRaises(t) ==
    /\ at[t] = "build"
    /\ Len(content[t]) = NumFiles
    /\ NoChunks(t)
    /\ Raise(t)
    /\ UNCHANGED <<fileVars, memory>>

\* FileNotFoundError: the root has gone when a full build starts to walk it.
BuildRetries(t) ==
    /\ at[t] = "build"
    /\ baseline[t] = None
    /\ content[t] = <<>>
    /\ Retry(t)
    /\ UNCHANGED <<fileVars, memory>>

\* The second build_manifest.
Verify(t) ==
    /\ at[t] = "verify"
    /\ Len(again[t]) < NumFiles
    /\ again' = [again EXCEPT ![t] = Append(@, tree[Len(@) + 1])]
    /\ UNCHANGED <<fileVars, memory, at, tries, manifest, baseline, content, callVars, answer>>

\* Mutant: the second scan is not compared with the first.
Verified_Unchecked(t) ==
    /\ at[t] = "verify"
    /\ Len(again[t]) = NumFiles
    /\ at' = [at EXCEPT ![t] = "write"]
    /\ UNCHANGED <<fileVars, memory, tries, scanVars, callVars, answer>>

Verified(t) ==
    /\ at[t] = "verify"
    /\ again[t] = manifest[t]
    /\ at' = [at EXCEPT ![t] = "write"]
    /\ UNCHANGED <<fileVars, memory, tries, scanVars, callVars, answer>>

\* The tree has changed since the first scan.
Refuted(t) ==
    /\ at[t] = "verify"
    /\ Len(again[t]) = NumFiles
    /\ again[t] # manifest[t]
    /\ Retry(t)
    /\ UNCHANGED <<fileVars, memory>>

\* _write_disk_snapshot replaces the cache file atomically, or fails and
\* leaves it as it is.
WriteDisk(t) ==
    /\ at[t] = "write"
    /\ \/ UNCHANGED disk
       \/ disk' = [disk EXCEPT ![key[t]] = Candidate(t)]
    /\ at' = [at EXCEPT ![t] = "publish"]
    /\ UNCHANGED <<history, memory, tries, scanVars, callVars, answer>>

PublishBuild(t) ==
    /\ at[t] = "publish"
    /\ Publish(t, Candidate(t))
    /\ Leave(t, Candidate(t))
    /\ UNCHANGED fileVars
----
Get(t) ==
    \/ Enter(t) \/ Scan(t) \/ ScanRaises(t) \/ MemoryHit(t) \/ DiskHit(t)
    \/ BeginBuild(t) \/ ReadFile(t) \/ Built(t) \/ BuildRaises(t) \/ BuildRetries(t)
    \/ Verify(t) \/ Verified(t) \/ Refuted(t) \/ WriteDisk(t) \/ PublishBuild(t)

Next == EditTree \/ \E t \in Threads : Get(t)

Spec == Init /\ [][Next]_vars
----
Places == {"idle", "scan", "build", "verify", "write", "publish"}

TypeOK ==
    /\ history \in Seq([Files -> Versions]) /\ history # <<>>
    /\ memory \in [Processes -> Seq([key : Keys, index : Indexes])]
    /\ \A p \in Processes :
        /\ Len(memory[p]) <= MaxEntries
        /\ \A i, j \in DOMAIN memory[p] : memory[p][i].key = memory[p][j].key => i = j
    /\ disk \in [Keys -> Indexes \cup {None}]
    /\ at \in [Threads -> Places]
    /\ key \in [Threads -> Keys \cup {None}]
    /\ \A t \in Threads : at[t] # "idle" => key[t] \in Keys
    /\ tries \in [Threads -> 0..2]
    /\ manifest \in [Threads -> Seq(Versions)]
    /\ baseline \in [Threads -> Indexes \cup {None}]
    /\ content \in [Threads -> Seq(Versions)]
    /\ again \in [Threads -> Seq(Versions)]
    /\ \A t \in Threads :
        /\ \A scan \in {manifest[t], content[t], again[t]} : Len(scan) <= NumFiles
        /\ at[t] \notin {"idle", "scan"} => Len(manifest[t]) = NumFiles
        /\ at[t] \in {"verify", "write", "publish"} => Len(content[t]) = NumFiles
    /\ since \in [Threads -> 1..Len(history)]
    /\ answer \in [Threads -> Indexes \cup {None}]
    /\ callsMade \in [Threads -> 0..MaxCalls]

\* At position i of history every file that the manifest of the index lists was
\* there, with the text that the index has.
Fits(index, i) ==
    \A f \in Files : index.manifest[f] # 0 => history[i][f] = index.content[f]

\* At some moment of the call of t, file f was not there.
WasMissing(t, f) == \E i \in since[t]..Len(history) : history[i][f] = 0

Current(t, index) ==
    /\ \E i \in since[t]..Len(history) : Fits(index, i)
    /\ \A f \in Files : index.manifest[f] = 0 => WasMissing(t, f)

\* "Return a current index": whatever get returns, from memory, from the disk
\* or from a build, its listed files were all there with these texts at one
\* moment of the call, and each file it does not list was missing at some
\* moment, although scans and reads go file by file while others edit.
IndexIsCurrent ==
    [][\A t \in Threads :
        answer'[t] \notin {None, answer[t]} => Current(t, answer'[t])]_vars

Stored == {e.index : e \in UNION {Entries(p) : p \in Processes}}
          \cup ({disk[k] : k \in Keys} \ {None})

\* "Return a current index", for the calls that find it in memory or on the disk
\* and therefore read no file: false with Unreadable, since a file that could not be
\* opened during the build stays out of the index until it is edited.
HitsAreCurrent ==
    [][\A t \in Threads :
        at[t] = "scan" /\ answer'[t] \notin {None, answer[t]} => Current(t, answer'[t])]_vars

\* No index in memory or on the disk holds, for a file that its manifest lists,
\* another text than the one the manifest vouches for; it would be returned again
\* and again.
Coherent(index) ==
    \A f \in Files : index.manifest[f] # 0 => index.content[f] = index.manifest[f]
SnapshotsAreCoherent == \A index \in Stored : Coherent(index)

\* In the memory of one process a newer index is never replaced by an older
\* one: the lock of the key outlasts the publication.
MemoryAdvances ==
    [][\A p \in Processes : \A old \in Entries(p), new \in ToSet(memory'[p]) :
        old.key = new.key =>
            \E i, j \in DOMAIN history :
                i <= j /\ Fits(old.index, i) /\ Fits(new.index, j)]_vars
====
