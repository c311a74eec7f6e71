---- MODULE WriteExecution ----
(***************************************************************************)
(* Approved writes on one working tree: AgentExecutor.apply_patch and      *)
(* run_command (coding_rag/agent/executor.py) around the snapshots of      *)
(* SnapshotStore (coding_rag/agent/snapshots.py), and the user's rollbacks *)
(* of those snapshots (POST /api/rollback and --rollback).                 *)
(*                                                                         *)
(* Every write runs in an executor of its own, in any thread or process;   *)
(* nothing serialises the executors of different sessions.  What a file    *)
(* holds is told by the writes whose change is in it: one that has created *)
(* or edited it, or deleted it, if nobody has overwritten that since.      *)
(* Writing back a backup and removing a created file are both a Restore.   *)
(* A process reads and writes a file in one step: that it writes back what *)
(* it has read long before, or into another file, is outside the model.    *)
(***************************************************************************)
EXTENDS Naturals, Sequences, SequencesExt

CONSTANTS
    Files,     \* the repository's files
    Writes,    \* the approved write calls, each with an executor of its own
    Patches,   \* the calls of apply_patch; the others are calls of run_command
    Declared   \* the normalised list of affected files of each call

ASSUME WritesAssumption ==
    /\ Patches \subseteq Writes
    /\ Declared \in [Writes -> Seq(Files)]
    /\ \A w \in Writes : Declared[w] # <<>> /\ IsInjective(Declared[w])

VARIABLES
    repo,      \* the changes each file of the working tree carries
    at,        \* where the executor of a write is
    backups,   \* files/0000.bin, ...: the declared files copied so far
    manifest,  \* does the snapshot's manifest.json exist?
    cursor,    \* the next declared file a rollback restores
    told,      \* what the caller of the write, or of its rollback, was told
    wrote      \* the files that git apply has dealt with

\* History: what the executors cannot know of each other.
VARIABLES
    lost,      \* <<w, f>>: the process of another write has overwritten w's change of f
    before     \* the writes that had ended when a write began

history == <<lost, before>>
writeVars == <<repo, at, backups, manifest, cursor, told, wrote, history>>

Content == SUBSET Writes
Stages == {"new", "backup", "write", "restore", "diff", "undo", "ended"}
Answers == {"nothing", "refused", "done", "restored", "stuck", "timed_out",
            "no_diff", "crashed", "undone"}

Affected(w) == ToSet(Declared[w])

WriteInit ==
    /\ repo = [f \in Files |-> {}]
    /\ at = [w \in Writes |-> "new"]
    /\ backups = [w \in Writes |-> <<>>]
    /\ manifest = [w \in Writes |-> FALSE]
    /\ cursor = [w \in Writes |-> 1]
    /\ told = [w \in Writes |-> "nothing"]
    /\ wrote = [w \in Writes |-> {}]
    /\ lost = {}
    /\ before = [w \in Writes |-> {}]

Move(w, from, to) ==
    /\ at[w] = from
    /\ at' = [at EXCEPT ![w] = to]

Tell(w, answer) == told' = [told EXCEPT ![w] = answer]
----
\* The policy, git apply --check or the approval check raises.
Refuse(w) ==
    /\ Move(w, "new", "ended")
    /\ Tell(w, "refused")
    /\ UNCHANGED <<repo, backups, manifest, cursor, wrote, history>>

\* The checks pass and the approval is consumed: SnapshotStore.create begins.
Begin(w) ==
    /\ Move(w, "new", "backup")
    /\ before' = [before EXCEPT ![w] = {v \in Writes : at[v] = "ended"}]
    /\ UNCHANGED <<repo, backups, manifest, cursor, told, wrote, lost>>

\* Mutant: create copies the file as it was at first, in HEAD.
Backup_OfHead(w) ==
    /\ at[w] = "backup"
    /\ Len(backups[w]) < Len(Declared[w])
    /\ backups' = [backups EXCEPT ![w] = Append(@, {})]
    /\ UNCHANGED <<repo, at, manifest, cursor, told, wrote, history>>

\* create copies the next declared file.
Backup(w) ==
    /\ at[w] = "backup"
    /\ Len(backups[w]) < Len(Declared[w])
    /\ LET f == Declared[w][Len(backups[w]) + 1]
       IN  backups' = [backups EXCEPT ![w] = Append(@, repo[f])]
    /\ UNCHANGED <<repo, at, manifest, cursor, told, wrote, history>>

\* Mutant: an error in create is swallowed and the write goes on.
BackupFails_GoesOn(w) ==
    /\ Move(w, "backup", "write")
    /\ backups' = [backups EXCEPT ![w] = <<>>]
    /\ UNCHANGED <<repo, manifest, cursor, told, wrote, history>>

\* create raises and removes the snapshot directory.
BackupFails(w) ==
    /\ Move(w, "backup", "ended")
    /\ backups' = [backups EXCEPT ![w] = <<>>]
    /\ Tell(w, "refused")
    /\ UNCHANGED <<repo, manifest, cursor, wrote, history>>

WriteManifest(w) ==
    /\ Move(w, "backup", "write")
    /\ Len(backups[w]) = Len(Declared[w])
    /\ manifest' = [manifest EXCEPT ![w] = TRUE]
    /\ UNCHANGED <<repo, backups, cursor, told, wrote, history>>
----
\* What a process can change: a patch each file of its diff once, whereas a
\* command is only believed to keep to what it declares.
Reach(w) == IF w \in Patches THEN Affected(w) \ wrote[w] ELSE Files

\* What it can leave in a file.  The lines of a patch, or what a command writes,
\* may replace what others have changed; a command may also take back its own
\* change, or nothing but the changes of others.
Outcomes(w, f) ==
    IF w \in Patches THEN {kept \cup {w} : kept \in SUBSET repo[f]}
    ELSE SUBSET (repo[f] \cup {w})

\* git apply, or the command, changes a file.
ChangeFile(w) ==
    /\ at[w] = "write"
    /\ \E f \in Reach(w) : \E content \in Outcomes(w, f) :
        /\ repo' = [repo EXCEPT ![f] = content]
        /\ wrote' = [wrote EXCEPT ![w] = IF w \in Patches THEN @ \cup {f} ELSE @]
        /\ lost' = lost \cup (repo[f] \ content) \X {f}
    /\ UNCHANGED <<at, backups, manifest, cursor, told, before>>

\* The process ends: git apply with exit code 0, having changed every file of
\* the patch, or the command with any exit code.
WriteEnds(w) ==
    /\ Move(w, "write", "diff")
    /\ w \in Patches => wrote[w] = Affected(w)
    /\ UNCHANGED <<repo, backups, manifest, cursor, told, wrote, history>>

\* git apply ends with another exit code, or running the command raises
\* (it timed out): _rollback_failed_write begins.
WriteFails(w) ==
    /\ Move(w, "write", "restore")
    /\ cursor' = [cursor EXCEPT ![w] = 1]
    /\ UNCHANGED <<repo, backups, manifest, told, wrote, history>>

\* Running git apply raises: apply_patch has no handler around it.
ApplyTimesOut(w) ==
    /\ w \in Patches
    /\ Move(w, "write", "ended")
    /\ Tell(w, "timed_out")
    /\ UNCHANGED <<repo, backups, manifest, cursor, wrote, history>>

\* The post-change diff is computed and the caller gets it with the snapshot's id.
ReturnDiff(w) ==
    /\ Move(w, "diff", "ended")
    /\ Tell(w, "done")
    /\ UNCHANGED <<repo, backups, manifest, cursor, wrote, history>>

\* SnapshotStore.diff raises; the snapshot's id is lost with the result.
DiffFails(w) ==
    /\ Move(w, "diff", "ended")
    /\ Tell(w, "no_diff")
    /\ UNCHANGED <<repo, backups, manifest, cursor, wrote, history>>
----
\* The user rolls back a snapshot whose id the executor returned.
Undo(w) ==
    /\ told[w] \in {"done", "stuck", "undone"}
    /\ Move(w, "ended", "undo")
    /\ cursor' = [cursor EXCEPT ![w] = 1]
    /\ UNCHANGED <<repo, backups, manifest, told, wrote, history>>

Restoring(w) == at[w] \in {"restore", "undo"}

\* Mutant: files are restored from the second one on.
Restore_SkipsFirst(w) ==
    /\ Restoring(w)
    /\ cursor[w] <= Len(Declared[w])
    /\ repo' = IF cursor[w] = 1 THEN repo
               ELSE [repo EXCEPT ![Declared[w][cursor[w]]] = backups[w][cursor[w]]]
    /\ cursor' = [cursor EXCEPT ![w] = @ + 1]
    /\ UNCHANGED <<at, backups, manifest, told, wrote, history>>

\* SnapshotStore.rollback restores the next file of the manifest.
Restore(w) ==
    /\ Restoring(w)
    /\ cursor[w] <= Len(Declared[w])
    /\ repo' = [repo EXCEPT ![Declared[w][cursor[w]]] = backups[w][cursor[w]]]
    /\ cursor' = [cursor EXCEPT ![w] = @ + 1]
    /\ UNCHANGED <<at, backups, manifest, told, wrote, history>>

\* All files are restored and rollback has computed the remaining diff.
RestoreEnds(w) ==
    /\ Restoring(w)
    /\ cursor[w] > Len(Declared[w])
    /\ at' = [at EXCEPT ![w] = "ended"]
    /\ Tell(w, IF at[w] = "restore" THEN "restored" ELSE "undone")
    /\ UNCHANGED <<repo, backups, manifest, cursor, wrote, history>>

\* rollback raises at some file, or computing the remaining diff: the message
\* names the snapshot for manual recovery.
RestoreFails(w) ==
    /\ Restoring(w)
    /\ at' = [at EXCEPT ![w] = "ended"]
    /\ Tell(w, "stuck")
    /\ UNCHANGED <<repo, backups, manifest, cursor, wrote, history>>

\* The process dies; what is on the disk stays.
Crash(w) ==
    /\ at[w] \notin {"new", "ended"}
    /\ at' = [at EXCEPT ![w] = "ended"]
    /\ Tell(w, IF at[w] = "undo" THEN "stuck" ELSE "crashed")
    /\ UNCHANGED <<repo, backups, manifest, cursor, wrote, history>>
----
Snapshot(w) == Begin(w) \/ Backup(w) \/ BackupFails(w) \/ WriteManifest(w)
Execute(w) == ChangeFile(w) \/ WriteEnds(w) \/ WriteFails(w) \/ ApplyTimesOut(w)
Report(w) == Refuse(w) \/ ReturnDiff(w) \/ DiffFails(w)
Rollback(w) == Undo(w) \/ Restore(w) \/ RestoreEnds(w) \/ RestoreFails(w)

WriteNext == \E w \in Writes : Snapshot(w) \/ Execute(w) \/ Report(w) \/ Rollback(w) \/ Crash(w)

WriteSpec == WriteInit /\ [][WriteNext]_writeVars
----
WriteTypeOK ==
    /\ repo \in [Files -> Content]
    /\ at \in [Writes -> Stages]
    /\ backups \in [Writes -> Seq(Content)]
    /\ manifest \in [Writes -> BOOLEAN]
    /\ cursor \in [Writes -> Nat \ {0}]
    /\ told \in [Writes -> Answers]
    /\ wrote \in [Writes -> SUBSET Files]
    /\ lost \subseteq Writes \X Files
    /\ before \in [Writes -> SUBSET Writes]

\* The snapshot of v was restored, in whole or in part, or may have been.
RolledBack(v) == cursor[v] > 1 \/ told[v] \in {"restored", "stuck", "undone"}

\* No other write that declares file f has been rolled back.
OthersStay(w, f) == \A v \in Writes \ {w} : f \in Affected(v) => ~RolledBack(v)

\* As long as a change of w is anywhere in the working tree, whatever crashed,
\* failed or was rolled back, a complete snapshot of w with its manifest is on
\* the disk, its backups are free of w, and a change outside the declared files
\* is the doing of a command.
ChangesAreRecoverable ==
    \A w \in Writes, f \in Files :
        w \in repo[f] =>
            /\ manifest[w]
            /\ f \in Affected(w) \/ w \notin Patches
            /\ Len(backups[w]) = Len(Declared[w])
            /\ \A i \in DOMAIN backups[w] : w \notin backups[w][i]

\* When the executor says that the declared files were restored, or a rollback
\* reports success, nothing of the write is left in a file it declares, unless
\* another write that declares the file has been rolled back too.
RestoredLeavesNoTrace ==
    \A w \in Writes : \A f \in Affected(w) :
        /\ at[w] = "ended" /\ told[w] \in {"restored", "undone"}
        /\ OthersStay(w, f)
        => w \notin repo[f]

\* The caller of w knows that it took effect, or only that no diff could be
\* taken, in which case it has no snapshot to roll back.
Reported(w) == at[w] = "ended" /\ told[w] \in {"done", "no_diff"}

\* Whoever has restored file f since began after w had ended.
Undisturbed(w, f) ==
    \A v \in Writes \ {w} :
        f \in Affected(v) /\ RolledBack(v) => w \in before[v]

\* A patch that has been reported, be it with the loss of its diff and of its
\* snapshot's id, is whole and stays in every file it declares until it is rolled
\* back itself.  Nobody takes it away but the process of another write that
\* overwrites it, and rollbacks of writes that ran at the same time or earlier:
\* later writes of the same file can fail, crash and be rolled back.
AppliedStaysApplied ==
    \A w \in Patches : \A f \in Affected(w) :
        Reported(w) /\ Undisturbed(w, f) => w \in repo[f] \/ <<w, f>> \in lost

\* "Restore declared files after an execution exception": a write whose
\* execution raised has left nothing behind.
ExceptionRestores ==
    \A w \in Writes :
        told[w] = "timed_out" => \A f \in Files : w \notin repo[f]
====
