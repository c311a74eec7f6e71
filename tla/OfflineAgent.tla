---------------------------- MODULE OfflineAgent ----------------------------
(***************************************************************************)
(* The programming interface run_code_agent of agent/workflow.py with its  *)
(* long-term memory, agent/memory.py.  Several processes may run it over   *)
(* one memory file and one run log, and any of them may die; the files are *)
(* appended to, and nothing locks them.                                    *)
(*                                                                         *)
(* A memory file is a sequence of lines: a record, or Torn, a line that    *)
(* json.loads refuses.  A record keeps, besides its task and files, the    *)
(* run that wrote it and whether the file grew between that run's check    *)
(* for a duplicate and its write ("blind", history only).                  *)
(***************************************************************************)
EXTENDS Integers, Sequences, FiniteSets, Functions

CONSTANTS
  Runs,      \* invocations of run_code_agent
  Tasks,     \* normalized task texts
  Hits,      \* candidate files a search may return, in order of rank
  Torn,
  None

VARIABLES
  pc,        \* [Runs -> step]
  config,    \* [Runs -> task, safe_mode, run_log_path and client of the run]
  files,     \* [Runs -> prioritized_result_files]
  checked,   \* [Runs -> lines of the memory file when it was checked]
  written,   \* [Runs -> memory_written]
  memory,    \* the memory file
  log        \* the run log

vars == <<pc, config, files, checked, written, memory, log>>

\* load_all raises on a line it cannot read.
Readable == Torn \notin Range(memory)

\* memory_identity: the task and the sorted files.
X_Identity(m) == <<m.task, m.files>>
Identity(m) == <<m.task, Range(m.files)>>

Configs == [task : Tasks, safe : BOOLEAN, logs : BOOLEAN]

Goto(p, step) == pc' = [pc EXCEPT ![p] = step]

-----------------------------------------------------------------------------
Init ==
  /\ pc = [p \in Runs |-> "idle"]
  /\ config = [p \in Runs |-> None] /\ files = [p \in Runs |-> <<>>]
  /\ checked = [p \in Runs |-> 0] /\ written = [p \in Runs |-> FALSE]
  /\ memory = <<>> /\ log = <<>>

\* memory_store.search.
SearchMemory(p) == \E c \in Configs :
  /\ pc[p] = "idle"
  /\ config' = [config EXCEPT ![p] = c]
  /\ Goto(p, IF Readable THEN "retrieve" ELSE "failed")
  /\ UNCHANGED <<files, checked, written, memory, log>>

\* retrieve_agent_context finds no code and raises, or returns its files.
Retrieve(p) ==
  /\ pc[p] = "retrieve"
  /\ \/ Goto(p, "failed") /\ UNCHANGED files
     \/ \E hit \in Hits : files' = [files EXCEPT ![p] = hit] /\ Goto(p, "draft")
  /\ UNCHANGED <<config, checked, written, memory, log>>

\* The draft: the client may raise.  A safe run writes no memory.
Draft(p) ==
  /\ pc[p] = "draft"
  /\ \/ Goto(p, "failed")
     \/ Goto(p, IF config[p].safe THEN "done" ELSE "check")
  /\ UNCHANGED <<config, files, checked, written, memory, log>>

AfterMemory(p) == IF config[p].logs THEN "log" ELSE "done"

\* append_if_new, up to the result of has_duplicate.
CheckDuplicate(p) ==
  /\ pc[p] = "check"
  /\ checked' = [checked EXCEPT ![p] = Len(memory)]
  /\ LET mine == [task |-> config[p].task, files |-> files[p]]
     IN IF ~Readable THEN Goto(p, "failed")
        ELSE IF \E i \in DOMAIN memory : Identity(memory[i]) = Identity(mine)
             THEN Goto(p, AfterMemory(p))
             ELSE Goto(p, "append")
  /\ UNCHANGED <<config, files, written, memory, log>>

\* A record written after half a line becomes part of that line.
AppendMemory(p) ==
  /\ pc[p] = "append"
  /\ memory' = IF memory # <<>> /\ memory[Len(memory)] = Torn THEN memory
               ELSE Append(memory, [task |-> config[p].task, files |-> files[p],
                                    run |-> p, blind |-> Len(memory) > checked[p]])
  /\ written' = [written EXCEPT ![p] = TRUE]
  /\ Goto(p, AfterMemory(p))
  /\ UNCHANGED <<config, files, checked, log>>

LogRecord(p) == [run |-> p, written |-> written[p]]

\* append_agent_run_log.
AppendLog(p) ==
  /\ pc[p] = "log"
  /\ log' = Append(log, LogRecord(p))
  /\ Goto(p, "done")
  /\ UNCHANGED <<config, files, checked, written, memory>>

\* The process dies, with half of the record it was writing on disk.
Crash(p) ==
  /\ pc[p] \notin {"idle", "failed", "done", "dead"}
  /\ \/ UNCHANGED memory
     \/ pc[p] = "append" /\ memory' = Append(memory, Torn)
  /\ Goto(p, "dead")
  /\ UNCHANGED <<config, files, checked, written, log>>

Next == \E p \in Runs :
  \/ SearchMemory(p) \/ Retrieve(p) \/ Draft(p)
  \/ CheckDuplicate(p) \/ AppendMemory(p) \/ AppendLog(p) \/ Crash(p)

Spec == Init /\ [][Next]_vars

-----------------------------------------------------------------------------
(***************************************************************************)
(* A task is remembered once for one set of files, in whatever order the   *)
(* search ranked them, unless another run wrote between this run's look at *)
(* the file and its own record (memory.py:57).                             *)
(***************************************************************************)
RemembersOnce ==
  \A i, j \in DOMAIN memory :
    /\ i < j /\ Torn \notin {memory[i], memory[j]}
    /\ memory[i].task = memory[j].task
    /\ Range(memory[i].files) = Range(memory[j].files)
    => memory[j].blind

(***************************************************************************)
(* The run log tells of memory what is so: a run it says has written one   *)
(* has its record in the file, unless a crash has torn the file, and a run *)
(* it says has not is nowhere in it; a safe run is in neither file         *)
(* (workflow.py:119).                                                      *)
(***************************************************************************)
LogTellsTheMemory ==
  /\ \A i \in DOMAIN log :
       LET kept == \E j \in DOMAIN memory : memory[j] # Torn /\ memory[j].run = log[i].run
       IN /\ kept => log[i].written
          /\ log[i].written => kept \/ ~Readable
          /\ ~config[log[i].run].safe
  /\ \A j \in DOMAIN memory : memory[j] # Torn => ~config[memory[j].run].safe

\* The memory has each experience once, and the run log is true about it
\* (memory.py:57, workflow.py:119).
MemoryIsHonest == RemembersOnce /\ LogTellsTheMemory

-----------------------------------------------------------------------------
Records == [task : Tasks, files : Hits, run : Runs, blind : BOOLEAN]

\* Who has a record in the file.
Kept(p) == \E j \in DOMAIN memory : memory[j] # Torn /\ memory[j].run = p

\* What carries it.
TypeOK ==
  /\ pc \in [Runs -> {"idle", "retrieve", "draft", "check", "append", "log",
                      "failed", "done", "dead"}]
  /\ config \in [Runs -> Configs \cup {None}]
  /\ files \in [Runs -> Hits \cup {<<>>}]
  /\ checked \in [Runs -> Nat] /\ written \in [Runs -> BOOLEAN]
  /\ memory \in Seq(Records \cup {Torn})
  /\ log \in Seq([run : Runs, written : BOOLEAN])

\* A run that is about to write has seen, in the lines that were there when it
\* looked, neither its experience nor a torn line.
HasLooked(p) ==
  pc[p] = "append" => checked[p] <= Len(memory) /\ \A i \in 1 .. checked[p] :
    /\ memory[i] # Torn
    /\ Identity(memory[i]) # Identity([task |-> config[p].task, files |-> files[p]])

\* What is fixed by the time a run leaves a trace, and the trace it leaves.
Trail(p) ==
  /\ pc[p] # "idle" => config[p] \in Configs
  /\ pc[p] \in {"draft", "check", "append"} => files[p] \in Hits
  /\ pc[p] \in {"check", "append", "log"} => ~config[p].safe
  /\ Kept(p) => written[p]
  /\ written[p] => /\ pc[p] \in {"log", "done", "dead"} /\ ~config[p].safe
                   /\ Kept(p) \/ ~Readable

Logged(entry) == LET p == entry.run IN
  pc[p] = "done" /\ ~config[p].safe /\ entry.written = written[p]

MemoryInv ==
  /\ TypeOK
  /\ \A p \in Runs : HasLooked(p) /\ Trail(p)
  /\ \A i \in DOMAIN log : Logged(log[i])
  /\ RemembersOnce
=============================================================================
