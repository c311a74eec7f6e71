---- MODULE ApprovalFlow ----
(***************************************************************************)
(* The browser server's runs: run_frontend_query and PendingApprovalStore  *)
(* (frontend.py) around run_unified_query, resume_unified_query and        *)
(* persist_unified_run (coding_rag/agent/runtime.py), on the chat history  *)
(* of ConversationStore (coding_rag/agent/conversation.py).                *)
(*                                                                         *)
(* One HTTP request is one thread of the server.  A run is named by the    *)
(* request that started it, an approval handle by its run and the revision *)
(* of the run that offers it.  What the graph does between the lock and    *)
(* the save is one step here; module AgentGraph has it in detail.  Another *)
(* process (the CLI or the desktop UI) may use the same chat database.     *)
(***************************************************************************)
EXTENDS Naturals, Sequences, FiniteSets

CONSTANTS
    Requests,     \* the HTTP requests, each handled by a thread
    Sessions,     \* chat sessions of one repository
    Slots,        \* the lock pool SESSION_LOCKS
    LockOf,       \* the lock of each session
    Elsewhere,    \* a turn that another process saved
    None,         \* the Python None
    MaxTurns,     \* bound: turns another process may bring a session to
    MaxRestarts   \* bound: how often the server is restarted

ASSUME SessionsAssumption ==
    /\ LockOf \in [Sessions -> Slots]
    /\ Elsewhere \notin Requests
    /\ None \notin Requests \cup Sessions

ASSUME BoundsAssumption == MaxTurns \in Nat /\ MaxRestarts \in Nat

VARIABLES
    turns,      \* chat_turns: the runs whose answers a session holds, in order
    lock,       \* the thread that holds each lock of the pool
    pending,    \* PendingApprovalStore._items: the handles that can be used
    at,         \* where the thread of a request is
    run,        \* the run a thread works on
    revision,   \* the revision of that run this thread produces
    status,     \* the run's status once its graph has returned
    session,    \* of each run: its config.session_id
    base,       \* of each run: trace["conversation"]["revision"]
    offered,    \* the handles that responses have offered to the browser
    executed,   \* the handles whose write was executed
    restarts

threadVars == <<run, revision, status>>
runVars == <<session, base>>
vars == <<turns, lock, pending, at, threadVars, runVars, offered, executed, restarts>>

Handles == [run : Requests, revision : Nat]
Places == {"new", "start", "resume", "graph", "save", "reply", "answered", "error", "dead"}
Statuses == {"success", "partial", "failed", "approval_required"}

Init ==
    /\ turns = [s \in Sessions |-> <<>>]
    /\ lock = [l \in Slots |-> None]
    /\ pending = {}
    /\ at = [t \in Requests |-> "new"]
    /\ run = [t \in Requests |-> None]
    /\ revision = [t \in Requests |-> 0]
    /\ status = [t \in Requests |-> None]
    /\ session = [r \in Requests |-> None]
    /\ base = [r \in Requests |-> 0]
    /\ offered = {}
    /\ executed = {}
    /\ restarts = 0

Move(t, from, to) ==
    /\ at[t] = from
    /\ at' = [at EXCEPT ![t] = to]

SessionOf(t) == session[run[t]]
Slot(t) == LockOf[SessionOf(t)]

Acquire(t) == lock[Slot(t)] = None /\ lock' = [lock EXCEPT ![Slot(t)] = t]
Release(t) == lock' = [lock EXCEPT ![Slot(t)] = None]
----
\* A request with a query: the thread begins a run and waits for the lock.
Ask(t) ==
    /\ Move(t, "new", "start")
    /\ run' = [run EXCEPT ![t] = t]
    /\ revision' = [revision EXCEPT ![t] = 1]
    /\ \E s \in Sessions : session' = [session EXCEPT ![t] = s]
    /\ UNCHANGED <<turns, lock, pending, status, base, offered, executed, restarts>>

\* run_unified_query has the lock and loads the history.
LoadHistory(t) ==
    /\ Move(t, "start", "graph")
    /\ Acquire(t)
    /\ base' = [base EXCEPT ![t] = Len(turns[SessionOf(t)])]
    /\ UNCHANGED <<turns, pending, threadVars, session, offered, executed, restarts>>

\* Reading the chat database raises; leaving the with block frees the lock.
LoadFails(t) ==
    /\ at[t] \in {"start", "resume"}
    /\ lock[Slot(t)] = None
    /\ at' = [at EXCEPT ![t] = "error"]
    /\ UNCHANGED <<turns, lock, pending, threadVars, runVars, offered, executed, restarts>>

\* Mutant: the store looks a handle up without removing it.
Approve_Keeps(t, h) ==
    /\ h \in pending
    /\ Move(t, "new", "resume")
    /\ run' = [run EXCEPT ![t] = h.run]
    /\ revision' = [revision EXCEPT ![t] = h.revision + 1]
    /\ UNCHANGED <<turns, lock, pending, status, runVars, offered, executed, restarts>>

\* A request with an approval handle pops the pending run.
Approve(t, h) ==
    /\ h \in pending
    /\ Move(t, "new", "resume")
    /\ pending' = pending \ {h}
    /\ run' = [run EXCEPT ![t] = h.run]
    /\ revision' = [revision EXCEPT ![t] = h.revision + 1]
    /\ UNCHANGED <<turns, lock, status, runVars, offered, executed, restarts>>

\* The handle was used before, or the server has been restarted since.
ApproveAgain(t, h) ==
    /\ h \in offered \ pending
    /\ Move(t, "new", "error")
    /\ UNCHANGED <<turns, lock, pending, threadVars, runVars, offered, executed, restarts>>

\* Mutant: the revision of the chat is not compared.
EnterResume_Unchecked(t) ==
    /\ Move(t, "resume", "graph")
    /\ Acquire(t)
    /\ UNCHANGED <<turns, pending, threadVars, runVars, offered, executed, restarts>>

\* Mutant: the resume does not take the lock of the session.
EnterResume_Unlocked(t) ==
    /\ Move(t, "resume", "graph")
    /\ Len(turns[SessionOf(t)]) = base[run[t]]
    /\ UNCHANGED <<turns, lock, pending, threadVars, runVars, offered, executed, restarts>>

\* resume_unified_query has the lock and the chat is as the run knows it.
EnterResume(t) ==
    /\ Move(t, "resume", "graph")
    /\ Acquire(t)
    /\ Len(turns[SessionOf(t)]) = base[run[t]]
    /\ UNCHANGED <<turns, pending, threadVars, runVars, offered, executed, restarts>>

\* Mutant: the lock is kept when the resume is refused.
RefuseResume_KeepsLock(t) ==
    /\ Move(t, "resume", "error")
    /\ Acquire(t)
    /\ Len(turns[SessionOf(t)]) # base[run[t]]
    /\ UNCHANGED <<turns, pending, threadVars, runVars, offered, executed, restarts>>

\* The chat has changed: ValueError, and the handle is spent.
RefuseResume(t) ==
    /\ Move(t, "resume", "error")
    /\ lock[Slot(t)] = None
    /\ Len(turns[SessionOf(t)]) # base[run[t]]
    /\ UNCHANGED <<turns, lock, pending, threadVars, runVars, offered, executed, restarts>>
----
\* The handle whose approval the thread executes, if it resumes a run.
HandleOf(t) == [run |-> run[t], revision |-> revision[t] - 1]

\* The approved write takes effect, or the executor refuses or restores it.
\* Only a resumed run has an approval to execute.
MayExecute(t) ==
    \/ UNCHANGED executed
    \/ /\ revision[t] > 1
       /\ executed' = executed \cup {HandleOf(t)}

\* run_unified_graph_query returns.
GraphReturns(t) ==
    /\ Move(t, "graph", "save")
    /\ \E result \in Statuses : status' = [status EXCEPT ![t] = result]
    /\ MayExecute(t)
    /\ UNCHANGED <<turns, lock, pending, run, revision, runVars, offered, restarts>>

\* It raises; leaving the with block frees the lock.
GraphRaises(t) ==
    /\ Move(t, "graph", "error")
    /\ MayExecute(t)
    /\ Release(t)
    /\ UNCHANGED <<turns, pending, threadVars, runVars, offered, restarts>>

Saved(t) == \E i \in DOMAIN turns[SessionOf(t)] : turns[SessionOf(t)][i] = run[t]

\* Mutant: the number of turns is not compared with the revision.
Appends_Unchecked(t) ==
    status[t] \in {"success", "partial"} /\ ~Saved(t)

\* persist_unified_run and ConversationStore.append insert a turn.
Appends(t) ==
    /\ status[t] \in {"success", "partial"}
    /\ ~Saved(t)
    /\ Len(turns[SessionOf(t)]) = base[run[t]]

\* The turn is inserted, in a transaction of its own.
SaveTurn(t) ==
    /\ Move(t, "save", "reply")
    /\ Appends(t)
    /\ turns' = [turns EXCEPT ![SessionOf(t)] = Append(@, run[t])]
    /\ Release(t)
    /\ UNCHANGED <<pending, threadVars, runVars, offered, executed, restarts>>

\* Nothing is to be saved, the chat has changed, or the database raises.
SaveNothing(t) ==
    /\ Move(t, "save", "reply")
    /\ Release(t)
    /\ UNCHANGED <<turns, pending, threadVars, runVars, offered, executed, restarts>>

\* prepare_frontend_run_response: a run that waits gets a new handle.
Reply(t) ==
    /\ Move(t, "reply", "answered")
    /\ LET handle == [run |-> run[t], revision |-> revision[t]]
           new == IF status[t] = "approval_required" THEN {handle} ELSE {}
       IN  /\ pending' = pending \cup new
           /\ offered' = offered \cup new
    /\ UNCHANGED <<turns, lock, threadVars, runVars, executed, restarts>>
----
\* Another process saves a turn: its lock is not the server's.
SavedElsewhere(s) ==
    /\ Len(turns[s]) < MaxTurns
    /\ turns' = [turns EXCEPT ![s] = Append(@, Elsewhere)]
    /\ UNCHANGED <<lock, pending, at, threadVars, runVars, offered, executed, restarts>>

\* The server is restarted: threads, locks and pending approvals are gone.
Restart ==
    /\ restarts < MaxRestarts
    /\ restarts' = restarts + 1
    /\ lock' = [l \in Slots |-> None]
    /\ pending' = {}
    /\ at' = [t \in Requests |->
                IF at[t] \in {"new", "answered", "error"} THEN at[t] ELSE "dead"]
    /\ UNCHANGED <<turns, threadVars, runVars, offered, executed>>

\* The steps of a thread that no user has to ask for.
Serve(t) ==
    \/ LoadHistory(t) \/ LoadFails(t)
    \/ EnterResume(t) \/ RefuseResume(t)
    \/ GraphReturns(t) \/ GraphRaises(t)
    \/ SaveTurn(t) \/ SaveNothing(t)
    \/ Reply(t)

Next ==
    \/ \E t \in Requests :
        \/ Ask(t)
        \/ \E h \in offered : Approve(t, h) \/ ApproveAgain(t, h)
        \/ Serve(t)
    \/ \E s \in Sessions : SavedElsewhere(s)
    \/ Restart

Spec == Init /\ [][Next]_vars
FairSpec == Spec /\ \A t \in Requests : WF_vars(Serve(t))
----
TypeOK ==
    /\ turns \in [Sessions -> Seq(Requests \cup {Elsewhere})]
    /\ lock \in [Slots -> Requests \cup {None}]
    /\ pending \subseteq Handles
    /\ at \in [Requests -> Places]
    /\ run \in [Requests -> Requests \cup {None}]
    /\ revision \in [Requests -> Nat]
    /\ status \in [Requests -> Statuses \cup {None}]
    /\ session \in [Requests -> Sessions \cup {None}]
    /\ base \in [Requests -> Nat]
    /\ offered \subseteq Handles
    /\ executed \subseteq Handles
    /\ restarts \in Nat

\* Every turn in a chat was answered on exactly the turns before it, so no
\* answer rests on a history that another request or process has changed, and
\* a run is saved once, however often it was approved and resumed.
TurnsFollowTheirHistory ==
    \A s \in Sessions : \A i \in DOMAIN turns[s] :
        turns[s][i] # Elsewhere =>
            /\ session[turns[s][i]] = s
            /\ base[turns[s][i]] = i - 1

Inside(t) == at[t] \in {"graph", "save"}

\* The requests of one session, new ones and resumed ones, run one at a time.
SessionsAreSerial ==
    \A t, u \in Requests :
        t # u /\ Inside(t) /\ Inside(u) => SessionOf(t) # SessionOf(u)

\* An approved run goes on only when its chat holds exactly the turns it was
\* computed on, and when its write is executed no turn that this server saved
\* has come since.  What another process saves between the two goes unnoticed:
\* nothing compares the chat again (runtime.py:191), and its lock is not ours.
WritesKnowTheChat ==
    [][/\ \A t \in Requests :
            at[t] = "resume" /\ at'[t] = "graph" => Len(turns[SessionOf(t)]) = base[run[t]]
       /\ \A h \in executed' \ executed :
            \A i \in (base[h.run] + 1)..Len(turns[session[h.run]]) :
                turns[session[h.run]][i] = Elsewhere]_vars

\* Every request is answered, with a result or an error, or dies in a restart:
\* no thread waits for a session lock for ever.
EveryRequestEnds ==
    \A t \in Requests : at[t] # "new" ~> at[t] \in {"answered", "error", "dead"}

\* The life of each handle, for the promise of one-shot approvals.
Working(h) == \E t \in Requests : /\ revision[t] > 1 /\ HandleOf(t) = h
                                  /\ at[t] \in {"resume", "graph"}
Life(h) ==
    CASE h \in executed -> "executed"
      [] h \notin executed /\ h \in pending -> "offered"
      [] h \notin executed /\ h \notin pending /\ Working(h) -> "used"
      [] h \notin offered -> "unborn"
      [] OTHER -> "void"

\* Handles whose revision no run can exceed: each resume takes a request.
BoundedHandles == [run : Requests, revision : 1..Cardinality(Requests)]

Lives == [h \in BoundedHandles |-> Life(h)]

Promised == INSTANCE OneShotApproval WITH
    Handles <- BoundedHandles,
    life <- Lives
OneShot == Promised!Spec
====
