---------------------------- MODULE ClaudeGuard ----------------------------
(***************************************************************************)
(* scripts/run_claude_guarded.py: a wrapper that starts the child          *)
(* `claude -p`, forwards its stdout, adds up the usage it reports and      *)
(* stops it.  Wrapper and child are two processes joined by two pipes of   *)
(* bounded capacity.                                                       *)
(*                                                                         *)
(* The prompt fits the stdin pipe, and no grandchild inherits the pipes.   *)
(***************************************************************************)
EXTENDS Integers, Sequences, Functions

CONSTANTS
  Capacity,       \* lines a pipe holds before its writer blocks
  Reports,        \* the usage events the child may print: a direct usage, None
                  \* without one, and the usages of its modelUsage map
  MaxLines,       \* bound: lines the child writes on each of its pipes
  MaxTaskTokens, MaxCacheMissTokens, MinCacheInputTokens,
  MaxCacheMissPercent,                     \* the limits of parse_args
  None

Fields == {"input", "output", "cacheRead", "cacheCreation"}

VARIABLES
  child,    \* "running", "terminated" (SIGTERM is on its way) or "ended"
  open,     \* the child still has its stdout open
  stdout,   \* unread events in the stdout pipe
  stderr,   \* unread lines in the stderr pipe
  written,  \* lines the child wrote so far, per pipe
  wrapper,  \* where main is
  usage,    \* ClaudeUsage
  stopped,  \* stopped_reason
  guardLog, \* the events written to the JSONL log
  late      \* --timeout seconds have passed since the child was started

vars == <<child, open, stdout, stderr, written, wrapper, usage, stopped, guardLog, late>>

TypeOK ==
  /\ child \in {"running", "terminated", "ended"}
  /\ wrapper \in {"reading", "grace", "waiting", "draining", "done"}
  /\ Len(stdout) <= Capacity /\ stderr \in 0 .. Capacity
  /\ usage \in [Fields -> Nat]
  /\ stopped \in {"task_tokens", "cache_miss_tokens", "cache_miss_ratio", "timeout", None}

-----------------------------------------------------------------------------
TaskTokens(u) == u.input + u.output + u.cacheRead + u.cacheCreation
CacheMissTokens(u) == u.input + u.cacheCreation
CacheInputTokens(u) == u.input + u.cacheRead + u.cacheCreation

Peak(u, v) == [f \in Fields |-> IF v[f] > u[f] THEN v[f] ELSE u[f]]

\* update_usage_from_event: each field keeps its highest value, of the direct
\* usage first and of the sum over the models then.
UpdateUsage(u, report) ==
  LET total == [f \in Fields |-> SumFunction([i \in DOMAIN report.models |-> report.models[i][f]])]
  IN Peak(IF report.direct = None THEN u ELSE Peak(u, report.direct), total)

\* guard_reason: the first limit that is exceeded.  A ratio is compared
\* without dividing, and has no value when nothing was read.
GuardReason(u) ==
  CASE TaskTokens(u) > MaxTaskTokens -> "task_tokens"
    [] CacheMissTokens(u) > MaxCacheMissTokens -> "cache_miss_tokens"
    [] /\ CacheInputTokens(u) >= MinCacheInputTokens
       /\ CacheInputTokens(u) > 0
       /\ CacheMissTokens(u) * 100 > MaxCacheMissPercent * CacheInputTokens(u)
                               -> "cache_miss_ratio"
    [] OTHER -> None

-----------------------------------------------------------------------------
Init ==
  /\ child = "running" /\ open = TRUE
  /\ stdout = <<>> /\ stderr = 0
  /\ written = [p \in {"out", "err"} |-> 0]
  /\ wrapper = "reading"
  /\ usage = [f \in Fields |-> 0]
  /\ stopped = None
  /\ guardLog = <<>>
  /\ late = FALSE

\* ---- the child; it writes only while there is room in the pipe ----
Report(r) ==
  /\ child = "running" /\ open /\ written["out"] < MaxLines /\ Len(stdout) < Capacity
  /\ stdout' = Append(stdout, r)
  /\ written' = [written EXCEPT !["out"] = @ + 1]
  /\ UNCHANGED <<child, open, stderr, wrapper, usage, stopped, guardLog, late>>

Complain ==
  /\ child = "running" /\ written["err"] < MaxLines /\ stderr < Capacity
  /\ stderr' = stderr + 1
  /\ written' = [written EXCEPT !["err"] = @ + 1]
  /\ UNCHANGED <<child, open, stdout, wrapper, usage, stopped, guardLog, late>>

CloseStdout ==
  /\ child = "running" /\ open
  /\ open' = FALSE
  /\ UNCHANGED <<child, stdout, stderr, written, wrapper, usage, stopped, guardLog, late>>

\* It finishes, or it obeys the SIGTERM.
Exit ==
  /\ child # "ended"
  /\ child' = "ended" /\ open' = FALSE
  /\ UNCHANGED <<stdout, stderr, written, wrapper, usage, stopped, guardLog, late>>

\* ---- the wrapper ----
\* readline returns a line: forward it, add it up, and stop the child when a
\* limit is exceeded.
ReadLine ==
  /\ wrapper = "reading" /\ stdout # <<>>
  /\ stdout' = Tail(stdout)
  /\ usage' = UpdateUsage(usage, Head(stdout))
  /\ stopped' = GuardReason(usage')
  /\ IF stopped' = None
     THEN UNCHANGED <<child, wrapper, guardLog>>
     ELSE /\ guardLog' = Append(guardLog, "guard_stop")
          /\ child' = IF child = "running" THEN "terminated" ELSE child
          /\ wrapper' = "grace"
  /\ UNCHANGED <<open, stderr, written, late>>

\* readline returns "": every writer has closed stdout.
ReadEof ==
  /\ wrapper = "reading" /\ stdout = <<>> /\ ~open
  /\ wrapper' = "waiting"
  /\ UNCHANGED <<child, open, stdout, stderr, written, usage, stopped, guardLog, late>>

\* wait(timeout=5) after terminate; kill when it expires.
GraceOver ==
  /\ wrapper = "grace"
  /\ child' = "ended" /\ open' = FALSE
  /\ wrapper' = "waiting"
  /\ UNCHANGED <<stdout, stderr, written, usage, stopped, guardLog, late>>

\* wait(timeout=args.timeout): only here is the timeout looked at.
WaitOver ==
  /\ wrapper = "waiting" /\ child = "ended"
  /\ wrapper' = "draining"
  /\ UNCHANGED <<child, open, stdout, stderr, written, usage, stopped, guardLog, late>>

WaitExpires ==
  /\ wrapper = "waiting" /\ child # "ended"
  /\ stopped' = "timeout"
  /\ guardLog' = Append(guardLog, "guard_stop")
  /\ child' = "ended" /\ open' = FALSE
  /\ wrapper' = "draining"
  /\ UNCHANGED <<stdout, stderr, written, usage, late>>

\* The `finally`: read stderr to its end, write the last record, return.
Drain ==
  /\ wrapper = "draining"
  /\ stderr' = 0
  /\ guardLog' = Append(guardLog, "finished")
  /\ wrapper' = "done"
  /\ UNCHANGED <<child, open, stdout, written, usage, stopped, late>>

\* Time passes.
Tick ==
  /\ ~late /\ child # "ended"
  /\ late' = TRUE
  /\ UNCHANGED <<child, open, stdout, stderr, written, wrapper, usage, stopped, guardLog>>

Wrapper == ReadLine \/ ReadEof \/ GraceOver \/ WaitOver \/ WaitExpires \/ Drain

Next ==
  \/ Wrapper \/ Tick
  \/ Complain \/ CloseStdout \/ Exit \/ \E r \in Reports : Report(r)

Spec == Init /\ [][Next]_vars

\* The wrapper runs and time passes; of the child nothing can be assumed,
\* which is why it has a guard.
FairSpec == Spec /\ WF_vars(Wrapper) /\ WF_vars(Tick)

-----------------------------------------------------------------------------
\* main returns 124 exactly when a guard stopped the child, and the last usage
\* it logs exceeds a limit whenever one of the three token guards did; a child
\* is never left running, and each stop is in the log once.
ExitIsExplained == wrapper = "done" =>
  /\ child = "ended"
  /\ guardLog = IF stopped = None THEN <<"finished">> ELSE <<"guard_stop", "finished">>
  /\ stopped \notin {None, "timeout"} => GuardReason(usage) = stopped
  /\ GuardReason(usage) # None => stopped # None

\* What carries it: a reason is found with the line that brings it, and never
\* again; "waiting" is reached by the end of stdout or after the grace time.
GuardInv ==
  /\ child \in {"running", "terminated", "ended"}
  /\ wrapper \in {"reading", "grace", "waiting", "draining", "done"}
  /\ stopped \notin {None, "timeout"} => GuardReason(usage) = stopped
  /\ stopped \in {None, "timeout"} => GuardReason(usage) = None
  /\ wrapper = "reading" => stopped = None
  /\ wrapper = "grace" => stopped \notin {None, "timeout"}
  /\ wrapper = "waiting" => stopped # "timeout" /\ (stopped = None \/ child = "ended")
  /\ wrapper \in {"draining", "done"} => child = "ended"
  /\ LET stop == IF stopped = None THEN <<>> ELSE <<"guard_stop">>
     IN guardLog = IF wrapper = "done" THEN stop \o <<"finished">> ELSE stop

\* Help of --timeout, "Stop Claude Code after this many seconds.": once the
\* time is over the child ends.
TimeoutStopsTheChild == late ~> (child = "ended")
=============================================================================
