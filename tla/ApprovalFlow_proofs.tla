---- MODULE ApprovalFlow_proofs ----
(***************************************************************************)
(* Proofs about ApprovalFlow for every set of requests, sessions and       *)
(* locks, any assignment of locks to sessions, and any number of restarts. *)
(***************************************************************************)
EXTENDS ApprovalFlow, TLAPS

\* The thread of a run that goes on.
Active(t) == at[t] \in {"start", "resume", "graph", "save", "reply"}

\* The run of a request that has asked something.
Started(r) ==
    /\ r \in Requests
    /\ at[r] # "new"
    /\ run[r] = r
    /\ session[r] \in Sessions

\* Whatever names a run names one that has begun.
RunsHaveBegun ==
    /\ \A t \in Requests : run[t] # None => Started(run[t])
    /\ \A t \in Requests : at[t] = "new" => run[t] = None
    /\ \A t \in Requests : Active(t) => run[t] # None /\ revision[t] >= 1
    /\ \A h \in offered : Started(h.run)
    /\ \A s \in Sessions : \A i \in DOMAIN turns[s] :
        turns[s][i] # Elsewhere => Started(turns[s][i])

\* A run that still waits to load its history is known to nobody else.
BeginsAlone ==
    \A t \in Requests : at[t] = "start" =>
        /\ run[t] = t
        /\ revision[t] = 1
        /\ \A u \in Requests : u # t => run[u] # t
        /\ \A h \in offered : h.run # t
        /\ \A s \in Sessions : \A i \in DOMAIN turns[s] : turns[s][i] # t

\* A thread between its lock and its release has the lock of its session.
HoldsItsLock == \A t \in Requests : Inside(t) => lock[Slot(t)] = t

\* While a graph runs, only another process has added to its session.
GraphKnowsTheChat ==
    \A t \in Requests : at[t] = "graph" =>
        \A i \in (base[run[t]] + 1)..Len(turns[SessionOf(t)]) :
            turns[SessionOf(t)][i] = Elsewhere

\* A run goes on in one place at a time: in a thread or as a pending handle.
OneContinuation ==
    /\ \A t, u \in Requests : Active(t) /\ Active(u) /\ run[t] = run[u] => t = u
    /\ \A t \in Requests, h \in pending : Active(t) => h.run # run[t]
    /\ \A g, h \in pending : g.run = h.run => g = h

\* That place has the latest revision of the run, and no handle is executed
\* that is still pending or in use.
RevisionsAdvance ==
    /\ pending \subseteq offered
    /\ executed \subseteq offered
    /\ \A h \in offered : h.revision >= 1
    /\ \A t \in Requests : at[t] = "resume" => revision[t] > 1
    /\ \A t \in Requests, h \in offered :
        Active(t) /\ h.run = run[t] => h.revision < revision[t]
    /\ \A h \in pending, g \in offered : g.run = h.run => g.revision <= h.revision
    /\ \A t \in Requests : at[t] \in {"resume", "graph"} /\ revision[t] > 1 =>
        HandleOf(t) \in offered \ executed
    /\ pending \cap executed = {}

AInv ==
    /\ TypeOK
    /\ RunsHaveBegun /\ BeginsAlone /\ HoldsItsLock /\ GraphKnowsTheChat
    /\ OneContinuation /\ RevisionsAdvance
    /\ TurnsFollowTheirHistory

USE SessionsAssumption, BoundsAssumption

\* Every step keeps the types.
LEMMA TypeStep == AInv /\ Next => TypeOK'
<1> SUFFICES ASSUME AInv, Next PROVE TypeOK'
  OBVIOUS
<1>1. ASSUME NEW t \in Requests, Ask(t) PROVE TypeOK'
  BY <1>1 DEF AInv, TypeOK, RunsHaveBegun, Active, Started, Move, Acquire,
         Release, SessionOf, Slot, Handles, Places, Statuses, MayExecute,
         HandleOf, threadVars, runVars, Ask
<1>2. ASSUME NEW t \in Requests, NEW h \in offered, Approve(t, h) PROVE TypeOK'
  BY <1>2 DEF AInv, TypeOK, RunsHaveBegun, Active, Started, Move, Acquire,
         Release, SessionOf, Slot, Handles, Places, Statuses, MayExecute,
         HandleOf, threadVars, runVars, Approve
<1>3. ASSUME NEW t \in Requests, NEW h \in offered, ApproveAgain(t, h) PROVE TypeOK'
  BY <1>3 DEF AInv, TypeOK, RunsHaveBegun, Active, Started, Move, Acquire,
         Release, SessionOf, Slot, Handles, Places, Statuses, MayExecute,
         HandleOf, threadVars, runVars, ApproveAgain
<1>4. ASSUME NEW t \in Requests, LoadHistory(t) PROVE TypeOK'
  BY <1>4 DEF AInv, TypeOK, RunsHaveBegun, Active, Started, Move, Acquire,
         Release, SessionOf, Slot, Handles, Places, Statuses, MayExecute,
         HandleOf, threadVars, runVars, LoadHistory
<1>5. ASSUME NEW t \in Requests, LoadFails(t) PROVE TypeOK'
  BY <1>5 DEF AInv, TypeOK, RunsHaveBegun, Active, Started, Move, Acquire,
         Release, SessionOf, Slot, Handles, Places, Statuses, MayExecute,
         HandleOf, threadVars, runVars, LoadFails
<1>6. ASSUME NEW t \in Requests, EnterResume(t) PROVE TypeOK'
  BY <1>6 DEF AInv, TypeOK, RunsHaveBegun, Active, Started, Move, Acquire,
         Release, SessionOf, Slot, Handles, Places, Statuses, MayExecute,
         HandleOf, threadVars, runVars, EnterResume
<1>7. ASSUME NEW t \in Requests, RefuseResume(t) PROVE TypeOK'
  BY <1>7 DEF AInv, TypeOK, RunsHaveBegun, Active, Started, Move, Acquire,
         Release, SessionOf, Slot, Handles, Places, Statuses, MayExecute,
         HandleOf, threadVars, runVars, RefuseResume
<1>8. ASSUME NEW t \in Requests, GraphReturns(t) PROVE TypeOK'
  BY <1>8 DEF AInv, TypeOK, RunsHaveBegun, Active, Started, Move, Acquire,
         Release, SessionOf, Slot, Handles, Places, Statuses, MayExecute,
         HandleOf, threadVars, runVars, GraphReturns
<1>9. ASSUME NEW t \in Requests, GraphRaises(t) PROVE TypeOK'
  BY <1>9 DEF AInv, TypeOK, RunsHaveBegun, Active, Started, Move, Acquire,
         Release, SessionOf, Slot, Handles, Places, Statuses, MayExecute,
         HandleOf, threadVars, runVars, GraphRaises
<1>10. ASSUME NEW t \in Requests, SaveTurn(t) PROVE TypeOK'
  BY <1>10 DEF AInv, TypeOK, RunsHaveBegun, Active, Started, Move, Acquire,
         Release, SessionOf, Slot, Handles, Places, Statuses, MayExecute,
         HandleOf, threadVars, runVars, SaveTurn
<1>11. ASSUME NEW t \in Requests, SaveNothing(t) PROVE TypeOK'
  BY <1>11 DEF AInv, TypeOK, RunsHaveBegun, Active, Started, Move, Acquire,
         Release, SessionOf, Slot, Handles, Places, Statuses, MayExecute,
         HandleOf, threadVars, runVars, SaveNothing
<1>12. ASSUME NEW t \in Requests, Reply(t) PROVE TypeOK'
  BY <1>12 DEF AInv, TypeOK, RunsHaveBegun, Active, Started, Move, Acquire,
         Release, SessionOf, Slot, Handles, Places, Statuses, MayExecute,
         HandleOf, threadVars, runVars, Reply
<1>13. ASSUME NEW s \in Sessions, SavedElsewhere(s) PROVE TypeOK'
  BY <1>13 DEF AInv, TypeOK, RunsHaveBegun, Active, Started, Move, Acquire,
         Release, SessionOf, Slot, Handles, Places, Statuses, MayExecute,
         HandleOf, threadVars, runVars, SavedElsewhere
<1>14. CASE Restart
  BY <1>14 DEF AInv, TypeOK, RunsHaveBegun, Active, Started, Move, Acquire,
         Release, SessionOf, Slot, Handles, Places, Statuses, MayExecute,
         HandleOf, threadVars, runVars, Restart
<1>15. QED
  BY <1>1, <1>2, <1>3, <1>4, <1>5, <1>6, <1>7, <1>8, <1>9, <1>10, <1>11, <1>12,
     <1>13, <1>14 DEF Next, Serve

\* No step names a run that has not begun.
LEMMA BegunStep == AInv /\ Next => RunsHaveBegun'
<1> SUFFICES ASSUME AInv, Next PROVE RunsHaveBegun'
  OBVIOUS
<1>1. ASSUME NEW t \in Requests, Ask(t) PROVE RunsHaveBegun'
  BY <1>1 DEF AInv, TypeOK, Active, Started, Move, threadVars, runVars,
         RunsHaveBegun, SessionOf, Handles, MayExecute, Ask
<1>2. ASSUME NEW t \in Requests, NEW h \in offered, Approve(t, h)
      PROVE  RunsHaveBegun'
  BY <1>2 DEF AInv, TypeOK, Active, Started, Move, threadVars, runVars,
         RunsHaveBegun, SessionOf, Handles, MayExecute, Approve
<1>3. ASSUME NEW t \in Requests, NEW h \in offered, ApproveAgain(t, h)
      PROVE  RunsHaveBegun'
  BY <1>3 DEF AInv, TypeOK, Active, Started, Move, threadVars, runVars,
         RunsHaveBegun, SessionOf, Handles, MayExecute, ApproveAgain
<1>4. ASSUME NEW t \in Requests, LoadHistory(t) PROVE RunsHaveBegun'
  BY <1>4 DEF AInv, TypeOK, Active, Started, Move, threadVars, runVars,
         RunsHaveBegun, SessionOf, Handles, MayExecute, LoadHistory
<1>5. ASSUME NEW t \in Requests, LoadFails(t) PROVE RunsHaveBegun'
  BY <1>5 DEF AInv, TypeOK, Active, Started, Move, threadVars, runVars,
         RunsHaveBegun, SessionOf, Handles, MayExecute, LoadFails
<1>6. ASSUME NEW t \in Requests, EnterResume(t) PROVE RunsHaveBegun'
  BY <1>6 DEF AInv, TypeOK, Active, Started, Move, threadVars, runVars,
         RunsHaveBegun, SessionOf, Handles, MayExecute, EnterResume
<1>7. ASSUME NEW t \in Requests, RefuseResume(t) PROVE RunsHaveBegun'
  BY <1>7 DEF AInv, TypeOK, Active, Started, Move, threadVars, runVars,
         RunsHaveBegun, SessionOf, Handles, MayExecute, RefuseResume
<1>8. ASSUME NEW t \in Requests, GraphReturns(t) PROVE RunsHaveBegun'
  BY <1>8 DEF AInv, TypeOK, Active, Started, Move, threadVars, runVars,
         RunsHaveBegun, SessionOf, Handles, MayExecute, GraphReturns
<1>9. ASSUME NEW t \in Requests, GraphRaises(t) PROVE RunsHaveBegun'
  BY <1>9 DEF AInv, TypeOK, Active, Started, Move, threadVars, runVars,
         RunsHaveBegun, SessionOf, Handles, MayExecute, GraphRaises
<1>10. ASSUME NEW t \in Requests, SaveTurn(t) PROVE RunsHaveBegun'
  BY <1>10 DEF AInv, TypeOK, Active, Started, Move, threadVars, runVars,
         RunsHaveBegun, SessionOf, Handles, MayExecute, SaveTurn
<1>11. ASSUME NEW t \in Requests, SaveNothing(t) PROVE RunsHaveBegun'
  BY <1>11 DEF AInv, TypeOK, Active, Started, Move, threadVars, runVars,
         RunsHaveBegun, SessionOf, Handles, MayExecute, SaveNothing
<1>12. ASSUME NEW t \in Requests, Reply(t) PROVE RunsHaveBegun'
  BY <1>12 DEF AInv, TypeOK, Active, Started, Move, threadVars, runVars,
         RunsHaveBegun, SessionOf, Handles, MayExecute, Reply
<1>13. ASSUME NEW s \in Sessions, SavedElsewhere(s) PROVE RunsHaveBegun'
  BY <1>13 DEF AInv, TypeOK, Active, Started, Move, threadVars, runVars,
         RunsHaveBegun, SessionOf, Handles, MayExecute, SavedElsewhere
<1>14. CASE Restart
  BY <1>14 DEF AInv, TypeOK, Active, Started, Move, threadVars, runVars,
         RunsHaveBegun, SessionOf, Handles, MayExecute, Restart
<1>15. QED
  BY <1>1, <1>2, <1>3, <1>4, <1>5, <1>6, <1>7, <1>8, <1>9, <1>10, <1>11, <1>12,
     <1>13, <1>14 DEF Next, Serve

\* Nobody learns of a run before it has loaded its history.
LEMMA AloneStep == AInv /\ Next => BeginsAlone'
<1> SUFFICES ASSUME AInv, Next PROVE BeginsAlone'
  OBVIOUS
<1>1. ASSUME NEW t \in Requests, Ask(t) PROVE BeginsAlone'
  BY <1>1 DEF AInv, TypeOK, Active, Started, Move, threadVars, runVars,
         BeginsAlone, RunsHaveBegun, SessionOf, Ask
<1>2. ASSUME NEW t \in Requests, NEW h \in offered, Approve(t, h) PROVE BeginsAlone'
  BY <1>2 DEF AInv, TypeOK, Active, Started, Move, threadVars, runVars,
         BeginsAlone, RunsHaveBegun, SessionOf, Approve
<1>3. ASSUME NEW t \in Requests, NEW h \in offered, ApproveAgain(t, h)
      PROVE  BeginsAlone'
  BY <1>3 DEF AInv, TypeOK, Active, Started, Move, threadVars, runVars,
         BeginsAlone, RunsHaveBegun, SessionOf, ApproveAgain
<1>4. ASSUME NEW t \in Requests, LoadHistory(t) PROVE BeginsAlone'
  BY <1>4 DEF AInv, TypeOK, Active, Started, Move, threadVars, runVars,
         BeginsAlone, RunsHaveBegun, SessionOf, LoadHistory
<1>5. ASSUME NEW t \in Requests, LoadFails(t) PROVE BeginsAlone'
  BY <1>5 DEF AInv, TypeOK, Active, Started, Move, threadVars, runVars,
         BeginsAlone, RunsHaveBegun, SessionOf, LoadFails
<1>6. ASSUME NEW t \in Requests, EnterResume(t) PROVE BeginsAlone'
  BY <1>6 DEF AInv, TypeOK, Active, Started, Move, threadVars, runVars,
         BeginsAlone, RunsHaveBegun, SessionOf, EnterResume
<1>7. ASSUME NEW t \in Requests, RefuseResume(t) PROVE BeginsAlone'
  BY <1>7 DEF AInv, TypeOK, Active, Started, Move, threadVars, runVars,
         BeginsAlone, RunsHaveBegun, SessionOf, RefuseResume
<1>8. ASSUME NEW t \in Requests, GraphReturns(t) PROVE BeginsAlone'
  BY <1>8 DEF AInv, TypeOK, Active, Started, Move, threadVars, runVars,
         BeginsAlone, RunsHaveBegun, SessionOf, GraphReturns
<1>9. ASSUME NEW t \in Requests, GraphRaises(t) PROVE BeginsAlone'
  BY <1>9 DEF AInv, TypeOK, Active, Started, Move, threadVars, runVars,
         BeginsAlone, RunsHaveBegun, SessionOf, GraphRaises
<1>10. ASSUME NEW t \in Requests, SaveTurn(t) PROVE BeginsAlone'
  BY <1>10 DEF AInv, TypeOK, Active, Started, Move, threadVars, runVars,
         BeginsAlone, RunsHaveBegun, SessionOf, SaveTurn
<1>11. ASSUME NEW t \in Requests, SaveNothing(t) PROVE BeginsAlone'
  BY <1>11 DEF AInv, TypeOK, Active, Started, Move, threadVars, runVars,
         BeginsAlone, RunsHaveBegun, SessionOf, SaveNothing
<1>12. ASSUME NEW t \in Requests, Reply(t) PROVE BeginsAlone'
  BY <1>12 DEF AInv, TypeOK, Active, Started, Move, threadVars, runVars,
         BeginsAlone, RunsHaveBegun, SessionOf, Reply
<1>13. ASSUME NEW s \in Sessions, SavedElsewhere(s) PROVE BeginsAlone'
  BY <1>13 DEF AInv, TypeOK, Active, Started, Move, threadVars, runVars,
         BeginsAlone, RunsHaveBegun, SessionOf, SavedElsewhere
<1>14. CASE Restart
  BY <1>14 DEF AInv, TypeOK, Active, Started, Move, threadVars, runVars,
         BeginsAlone, RunsHaveBegun, SessionOf, Restart
<1>15. QED
  BY <1>1, <1>2, <1>3, <1>4, <1>5, <1>6, <1>7, <1>8, <1>9, <1>10, <1>11, <1>12,
     <1>13, <1>14 DEF Next, Serve

\* No step takes a lock that another thread holds.
LEMMA LockStep == AInv /\ Next => HoldsItsLock'
<1> SUFFICES ASSUME AInv, Next PROVE HoldsItsLock'
  OBVIOUS
<1>1. ASSUME NEW t \in Requests, Ask(t) PROVE HoldsItsLock'
  BY <1>1 DEF AInv, TypeOK, Active, Started, Move, threadVars, runVars,
         HoldsItsLock, RunsHaveBegun, BeginsAlone, SessionOf, Slot, Inside,
         Acquire, Release, Ask
<1>2. ASSUME NEW t \in Requests, NEW h \in offered, Approve(t, h)
      PROVE  HoldsItsLock'
  BY <1>2 DEF AInv, TypeOK, Active, Started, Move, threadVars, runVars,
         HoldsItsLock, RunsHaveBegun, BeginsAlone, SessionOf, Slot, Inside,
         Acquire, Release, Approve
<1>3. ASSUME NEW t \in Requests, NEW h \in offered, ApproveAgain(t, h)
      PROVE  HoldsItsLock'
  BY <1>3 DEF AInv, TypeOK, Active, Started, Move, threadVars, runVars,
         HoldsItsLock, RunsHaveBegun, BeginsAlone, SessionOf, Slot, Inside,
         Acquire, Release, ApproveAgain
<1>4. ASSUME NEW t \in Requests, LoadHistory(t) PROVE HoldsItsLock'
  BY <1>4 DEF AInv, TypeOK, Active, Started, Move, threadVars, runVars,
         HoldsItsLock, RunsHaveBegun, BeginsAlone, SessionOf, Slot, Inside,
         Acquire, Release, LoadHistory
<1>5. ASSUME NEW t \in Requests, LoadFails(t) PROVE HoldsItsLock'
  BY <1>5 DEF AInv, TypeOK, Active, Started, Move, threadVars, runVars,
         HoldsItsLock, RunsHaveBegun, BeginsAlone, SessionOf, Slot, Inside,
         Acquire, Release, LoadFails
<1>6. ASSUME NEW t \in Requests, EnterResume(t) PROVE HoldsItsLock'
  BY <1>6 DEF AInv, TypeOK, Active, Started, Move, threadVars, runVars,
         HoldsItsLock, RunsHaveBegun, BeginsAlone, SessionOf, Slot, Inside,
         Acquire, Release, EnterResume
<1>7. ASSUME NEW t \in Requests, RefuseResume(t) PROVE HoldsItsLock'
  BY <1>7 DEF AInv, TypeOK, Active, Started, Move, threadVars, runVars,
         HoldsItsLock, RunsHaveBegun, BeginsAlone, SessionOf, Slot, Inside,
         Acquire, Release, RefuseResume
<1>8. ASSUME NEW t \in Requests, GraphReturns(t) PROVE HoldsItsLock'
  BY <1>8 DEF AInv, TypeOK, Active, Started, Move, threadVars, runVars,
         HoldsItsLock, RunsHaveBegun, BeginsAlone, SessionOf, Slot, Inside,
         Acquire, Release, GraphReturns
<1>9. ASSUME NEW t \in Requests, GraphRaises(t) PROVE HoldsItsLock'
  BY <1>9 DEF AInv, TypeOK, Active, Started, Move, threadVars, runVars,
         HoldsItsLock, RunsHaveBegun, BeginsAlone, SessionOf, Slot, Inside,
         Acquire, Release, GraphRaises
<1>10. ASSUME NEW t \in Requests, SaveTurn(t) PROVE HoldsItsLock'
  BY <1>10 DEF AInv, TypeOK, Active, Started, Move, threadVars, runVars,
         HoldsItsLock, RunsHaveBegun, BeginsAlone, SessionOf, Slot, Inside,
         Acquire, Release, SaveTurn
<1>11. ASSUME NEW t \in Requests, SaveNothing(t) PROVE HoldsItsLock'
  BY <1>11 DEF AInv, TypeOK, Active, Started, Move, threadVars, runVars,
         HoldsItsLock, RunsHaveBegun, BeginsAlone, SessionOf, Slot, Inside,
         Acquire, Release, SaveNothing
<1>12. ASSUME NEW t \in Requests, Reply(t) PROVE HoldsItsLock'
  BY <1>12 DEF AInv, TypeOK, Active, Started, Move, threadVars, runVars,
         HoldsItsLock, RunsHaveBegun, BeginsAlone, SessionOf, Slot, Inside,
         Acquire, Release, Reply
<1>13. ASSUME NEW s \in Sessions, SavedElsewhere(s) PROVE HoldsItsLock'
  BY <1>13 DEF AInv, TypeOK, Active, Started, Move, threadVars, runVars,
         HoldsItsLock, RunsHaveBegun, BeginsAlone, SessionOf, Slot, Inside,
         Acquire, Release, SavedElsewhere
<1>14. CASE Restart
  BY <1>14 DEF AInv, TypeOK, Active, Started, Move, threadVars, runVars,
         HoldsItsLock, RunsHaveBegun, BeginsAlone, SessionOf, Slot, Inside,
         Acquire, Release, Restart
<1>15. QED
  BY <1>1, <1>2, <1>3, <1>4, <1>5, <1>6, <1>7, <1>8, <1>9, <1>10, <1>11, <1>12,
     <1>13, <1>14 DEF Next, Serve

\* The lock keeps the server's other threads from adding to the session.
LEMMA KnowsStep == AInv /\ Next => GraphKnowsTheChat'
<1> SUFFICES ASSUME AInv, Next PROVE GraphKnowsTheChat'
  OBVIOUS
<1>1. ASSUME NEW t \in Requests, Ask(t) PROVE GraphKnowsTheChat'
  BY <1>1 DEF AInv, TypeOK, Active, Started, Move, threadVars, runVars,
         GraphKnowsTheChat, HoldsItsLock, RunsHaveBegun, BeginsAlone, SessionOf,
         Slot, Inside, Acquire, Release, OneContinuation, Ask
<1>2. ASSUME NEW t \in Requests, NEW h \in offered, Approve(t, h)
      PROVE  GraphKnowsTheChat'
  BY <1>2 DEF AInv, TypeOK, Active, Started, Move, threadVars, runVars,
         GraphKnowsTheChat, HoldsItsLock, RunsHaveBegun, BeginsAlone, SessionOf,
         Slot, Inside, Acquire, Release, OneContinuation, Approve
<1>3. ASSUME NEW t \in Requests, NEW h \in offered, ApproveAgain(t, h)
      PROVE  GraphKnowsTheChat'
  BY <1>3 DEF AInv, TypeOK, Active, Started, Move, threadVars, runVars,
         GraphKnowsTheChat, HoldsItsLock, RunsHaveBegun, BeginsAlone, SessionOf,
         Slot, Inside, Acquire, Release, OneContinuation, ApproveAgain
<1>4. ASSUME NEW t \in Requests, LoadHistory(t) PROVE GraphKnowsTheChat'
  BY <1>4 DEF AInv, TypeOK, Active, Started, Move, threadVars, runVars,
         GraphKnowsTheChat, HoldsItsLock, RunsHaveBegun, BeginsAlone, SessionOf,
         Slot, Inside, Acquire, Release, OneContinuation, LoadHistory
<1>5. ASSUME NEW t \in Requests, LoadFails(t) PROVE GraphKnowsTheChat'
  BY <1>5 DEF AInv, TypeOK, Active, Started, Move, threadVars, runVars,
         GraphKnowsTheChat, HoldsItsLock, RunsHaveBegun, BeginsAlone, SessionOf,
         Slot, Inside, Acquire, Release, OneContinuation, LoadFails
<1>6. ASSUME NEW t \in Requests, EnterResume(t) PROVE GraphKnowsTheChat'
  BY <1>6 DEF AInv, TypeOK, Active, Started, Move, threadVars, runVars,
         GraphKnowsTheChat, HoldsItsLock, RunsHaveBegun, BeginsAlone, SessionOf,
         Slot, Inside, Acquire, Release, OneContinuation, EnterResume
<1>7. ASSUME NEW t \in Requests, RefuseResume(t) PROVE GraphKnowsTheChat'
  BY <1>7 DEF AInv, TypeOK, Active, Started, Move, threadVars, runVars,
         GraphKnowsTheChat, HoldsItsLock, RunsHaveBegun, BeginsAlone, SessionOf,
         Slot, Inside, Acquire, Release, OneContinuation, RefuseResume
<1>8. ASSUME NEW t \in Requests, GraphReturns(t) PROVE GraphKnowsTheChat'
  BY <1>8 DEF AInv, TypeOK, Active, Started, Move, threadVars, runVars,
         GraphKnowsTheChat, HoldsItsLock, RunsHaveBegun, BeginsAlone, SessionOf,
         Slot, Inside, Acquire, Release, OneContinuation, GraphReturns
<1>9. ASSUME NEW t \in Requests, GraphRaises(t) PROVE GraphKnowsTheChat'
  BY <1>9 DEF AInv, TypeOK, Active, Started, Move, threadVars, runVars,
         GraphKnowsTheChat, HoldsItsLock, RunsHaveBegun, BeginsAlone, SessionOf,
         Slot, Inside, Acquire, Release, OneContinuation, GraphRaises
<1>10. ASSUME NEW t \in Requests, SaveTurn(t) PROVE GraphKnowsTheChat'
  BY <1>10 DEF AInv, TypeOK, Active, Started, Move, threadVars, runVars,
         GraphKnowsTheChat, HoldsItsLock, RunsHaveBegun, BeginsAlone, SessionOf,
         Slot, Inside, Acquire, Release, OneContinuation, SaveTurn
<1>11. ASSUME NEW t \in Requests, SaveNothing(t) PROVE GraphKnowsTheChat'
  BY <1>11 DEF AInv, TypeOK, Active, Started, Move, threadVars, runVars,
         GraphKnowsTheChat, HoldsItsLock, RunsHaveBegun, BeginsAlone, SessionOf,
         Slot, Inside, Acquire, Release, OneContinuation, SaveNothing
<1>12. ASSUME NEW t \in Requests, Reply(t) PROVE GraphKnowsTheChat'
  BY <1>12 DEF AInv, TypeOK, Active, Started, Move, threadVars, runVars,
         GraphKnowsTheChat, HoldsItsLock, RunsHaveBegun, BeginsAlone, SessionOf,
         Slot, Inside, Acquire, Release, OneContinuation, Reply
<1>13. ASSUME NEW s \in Sessions, SavedElsewhere(s) PROVE GraphKnowsTheChat'
  BY <1>13 DEF AInv, TypeOK, Active, Started, Move, threadVars, runVars,
         GraphKnowsTheChat, HoldsItsLock, RunsHaveBegun, BeginsAlone, SessionOf,
         Slot, Inside, Acquire, Release, OneContinuation, SavedElsewhere
<1>14. CASE Restart
  BY <1>14 DEF AInv, TypeOK, Active, Started, Move, threadVars, runVars,
         GraphKnowsTheChat, HoldsItsLock, RunsHaveBegun, BeginsAlone, SessionOf,
         Slot, Inside, Acquire, Release, OneContinuation, Restart
<1>15. QED
  BY <1>1, <1>2, <1>3, <1>4, <1>5, <1>6, <1>7, <1>8, <1>9, <1>10, <1>11, <1>12,
     <1>13, <1>14 DEF Next, Serve

\* A handle turns into a thread and a thread into a handle.
LEMMA ContinuationStep == AInv /\ Next => OneContinuation'
<1> SUFFICES ASSUME AInv, Next PROVE OneContinuation'
  OBVIOUS
<1>1. ASSUME NEW t \in Requests, Ask(t) PROVE OneContinuation'
  BY <1>1 DEF AInv, TypeOK, Active, Started, Move, threadVars, runVars,
         OneContinuation, RunsHaveBegun, BeginsAlone, RevisionsAdvance, Ask
<1>2. ASSUME NEW t \in Requests, NEW h \in offered, Approve(t, h)
      PROVE  OneContinuation'
  BY <1>2 DEF AInv, TypeOK, Active, Started, Move, threadVars, runVars,
         OneContinuation, RunsHaveBegun, BeginsAlone, RevisionsAdvance, Approve
<1>3. ASSUME NEW t \in Requests, NEW h \in offered, ApproveAgain(t, h)
      PROVE  OneContinuation'
  BY <1>3 DEF AInv, TypeOK, Active, Started, Move, threadVars, runVars,
         OneContinuation, RunsHaveBegun, BeginsAlone, RevisionsAdvance,
         ApproveAgain
<1>4. ASSUME NEW t \in Requests, LoadHistory(t) PROVE OneContinuation'
  BY <1>4 DEF AInv, TypeOK, Active, Started, Move, threadVars, runVars,
         OneContinuation, RunsHaveBegun, BeginsAlone, RevisionsAdvance,
         LoadHistory
<1>5. ASSUME NEW t \in Requests, LoadFails(t) PROVE OneContinuation'
  BY <1>5 DEF AInv, TypeOK, Active, Started, Move, threadVars, runVars,
         OneContinuation, RunsHaveBegun, BeginsAlone, RevisionsAdvance, LoadFails
<1>6. ASSUME NEW t \in Requests, EnterResume(t) PROVE OneContinuation'
  BY <1>6 DEF AInv, TypeOK, Active, Started, Move, threadVars, runVars,
         OneContinuation, RunsHaveBegun, BeginsAlone, RevisionsAdvance,
         EnterResume
<1>7. ASSUME NEW t \in Requests, RefuseResume(t) PROVE OneContinuation'
  BY <1>7 DEF AInv, TypeOK, Active, Started, Move, threadVars, runVars,
         OneContinuation, RunsHaveBegun, BeginsAlone, RevisionsAdvance,
         RefuseResume
<1>8. ASSUME NEW t \in Requests, GraphReturns(t) PROVE OneContinuation'
  BY <1>8 DEF AInv, TypeOK, Active, Started, Move, threadVars, runVars,
         OneContinuation, RunsHaveBegun, BeginsAlone, RevisionsAdvance,
         GraphReturns
<1>9. ASSUME NEW t \in Requests, GraphRaises(t) PROVE OneContinuation'
  BY <1>9 DEF AInv, TypeOK, Active, Started, Move, threadVars, runVars,
         OneContinuation, RunsHaveBegun, BeginsAlone, RevisionsAdvance,
         GraphRaises
<1>10. ASSUME NEW t \in Requests, SaveTurn(t) PROVE OneContinuation'
  BY <1>10 DEF AInv, TypeOK, Active, Started, Move, threadVars, runVars,
         OneContinuation, RunsHaveBegun, BeginsAlone, RevisionsAdvance, SaveTurn
<1>11. ASSUME NEW t \in Requests, SaveNothing(t) PROVE OneContinuation'
  BY <1>11 DEF AInv, TypeOK, Active, Started, Move, threadVars, runVars,
         OneContinuation, RunsHaveBegun, BeginsAlone, RevisionsAdvance,
         SaveNothing
<1>12. ASSUME NEW t \in Requests, Reply(t) PROVE OneContinuation'
  BY <1>12 DEF AInv, TypeOK, Active, Started, Move, threadVars, runVars,
         OneContinuation, RunsHaveBegun, BeginsAlone, RevisionsAdvance, Reply
<1>13. ASSUME NEW s \in Sessions, SavedElsewhere(s) PROVE OneContinuation'
  BY <1>13 DEF AInv, TypeOK, Active, Started, Move, threadVars, runVars,
         OneContinuation, RunsHaveBegun, BeginsAlone, RevisionsAdvance,
         SavedElsewhere
<1>14. CASE Restart
  BY <1>14 DEF AInv, TypeOK, Active, Started, Move, threadVars, runVars,
         OneContinuation, RunsHaveBegun, BeginsAlone, RevisionsAdvance, Restart
<1>15. QED
  BY <1>1, <1>2, <1>3, <1>4, <1>5, <1>6, <1>7, <1>8, <1>9, <1>10, <1>11, <1>12,
     <1>13, <1>14 DEF Next, Serve

\* Each continuation is one revision later.
LEMMA RevisionStep == AInv /\ Next => RevisionsAdvance'
<1> SUFFICES ASSUME AInv, Next PROVE RevisionsAdvance'
  OBVIOUS
<1>1. ASSUME NEW t \in Requests, Ask(t) PROVE RevisionsAdvance'
  BY <1>1 DEF AInv, TypeOK, Active, Started, Move, threadVars, runVars,
         OneContinuation, RunsHaveBegun, BeginsAlone, RevisionsAdvance, Handles,
         HandleOf, MayExecute, Ask
<1>2. ASSUME NEW t \in Requests, NEW h \in offered, Approve(t, h)
      PROVE  RevisionsAdvance'
  <2> USE <1>2 DEF AInv, TypeOK, Active, Started, Move, threadVars, runVars, Handles, HandleOf, Approve
  <2>1. /\ h \in Handles /\ h \in pending /\ h \notin executed
        /\ run[t] = None /\ at[t] = "new"
        /\ run' = [run EXCEPT ![t] = h.run] /\ revision' = [revision EXCEPT ![t] = h.revision + 1]
    BY DEF RunsHaveBegun, RevisionsAdvance
  <2>2. HandleOf(t)' = h
    BY <2>1
  <2>3. \A u \in Requests : u # t => HandleOf(u)' = HandleOf(u) /\ Active(u)' = Active(u)
    BY <2>1
  <2>4. \A u \in Requests, g \in offered' :
            Active(u)' /\ g.run = run'[u] => g.revision < revision'[u]
    <3>1. \A g \in offered : g.run = h.run => g.revision <= h.revision /\ g.revision \in Nat
      BY <2>1 DEF RevisionsAdvance
    <3>2. QED
      BY <2>1, <3>1 DEF RevisionsAdvance
  <2>5. \A u \in Requests : at'[u] \in {"resume", "graph"} /\ revision'[u] > 1 =>
            HandleOf(u)' \in offered' \ executed'
    BY <2>1, <2>2, <2>3 DEF RevisionsAdvance
  <2>6. \A u \in Requests : at'[u] = "resume" => revision'[u] > 1
    BY <2>1 DEF RevisionsAdvance
  <2>7. QED
    BY <2>1, <2>4, <2>5, <2>6 DEF RevisionsAdvance
<1>3. ASSUME NEW t \in Requests, NEW h \in offered, ApproveAgain(t, h)
      PROVE  RevisionsAdvance'
  BY <1>3 DEF AInv, TypeOK, Active, Started, Move, threadVars, runVars,
         OneContinuation, RunsHaveBegun, BeginsAlone, RevisionsAdvance, Handles,
         HandleOf, MayExecute, ApproveAgain
<1>4. ASSUME NEW t \in Requests, LoadHistory(t) PROVE RevisionsAdvance'
  BY <1>4 DEF AInv, TypeOK, Active, Started, Move, threadVars, runVars,
         OneContinuation, RunsHaveBegun, BeginsAlone, RevisionsAdvance, Handles,
         HandleOf, MayExecute, LoadHistory
<1>5. ASSUME NEW t \in Requests, LoadFails(t) PROVE RevisionsAdvance'
  BY <1>5 DEF AInv, TypeOK, Active, Started, Move, threadVars, runVars,
         OneContinuation, RunsHaveBegun, BeginsAlone, RevisionsAdvance, Handles,
         HandleOf, MayExecute, LoadFails
<1>6. ASSUME NEW t \in Requests, EnterResume(t) PROVE RevisionsAdvance'
  BY <1>6 DEF AInv, TypeOK, Active, Started, Move, threadVars, runVars,
         OneContinuation, RunsHaveBegun, BeginsAlone, RevisionsAdvance, Handles,
         HandleOf, MayExecute, EnterResume
<1>7. ASSUME NEW t \in Requests, RefuseResume(t) PROVE RevisionsAdvance'
  BY <1>7 DEF AInv, TypeOK, Active, Started, Move, threadVars, runVars,
         OneContinuation, RunsHaveBegun, BeginsAlone, RevisionsAdvance, Handles,
         HandleOf, MayExecute, RefuseResume
<1>8. ASSUME NEW t \in Requests, GraphReturns(t) PROVE RevisionsAdvance'
  BY <1>8 DEF AInv, TypeOK, Active, Started, Move, threadVars, runVars,
         OneContinuation, RunsHaveBegun, BeginsAlone, RevisionsAdvance, Handles,
         HandleOf, MayExecute, GraphReturns
<1>9. ASSUME NEW t \in Requests, GraphRaises(t) PROVE RevisionsAdvance'
  BY <1>9 DEF AInv, TypeOK, Active, Started, Move, threadVars, runVars,
         OneContinuation, RunsHaveBegun, BeginsAlone, RevisionsAdvance, Handles,
         HandleOf, MayExecute, GraphRaises
<1>10. ASSUME NEW t \in Requests, SaveTurn(t) PROVE RevisionsAdvance'
  BY <1>10 DEF AInv, TypeOK, Active, Started, Move, threadVars, runVars,
         OneContinuation, RunsHaveBegun, BeginsAlone, RevisionsAdvance, Handles,
         HandleOf, MayExecute, SaveTurn
<1>11. ASSUME NEW t \in Requests, SaveNothing(t) PROVE RevisionsAdvance'
  BY <1>11 DEF AInv, TypeOK, Active, Started, Move, threadVars, runVars,
         OneContinuation, RunsHaveBegun, BeginsAlone, RevisionsAdvance, Handles,
         HandleOf, MayExecute, SaveNothing
<1>12. ASSUME NEW t \in Requests, Reply(t) PROVE RevisionsAdvance'
  BY <1>12 DEF AInv, TypeOK, Active, Started, Move, threadVars, runVars,
         OneContinuation, RunsHaveBegun, BeginsAlone, RevisionsAdvance, Handles,
         HandleOf, MayExecute, Reply
<1>13. ASSUME NEW s \in Sessions, SavedElsewhere(s) PROVE RevisionsAdvance'
  BY <1>13 DEF AInv, TypeOK, Active, Started, Move, threadVars, runVars,
         OneContinuation, RunsHaveBegun, BeginsAlone, RevisionsAdvance, Handles,
         HandleOf, MayExecute, SavedElsewhere
<1>14. CASE Restart
  BY <1>14 DEF AInv, TypeOK, Active, Started, Move, threadVars, runVars,
         OneContinuation, RunsHaveBegun, BeginsAlone, RevisionsAdvance, Handles,
         HandleOf, MayExecute, Restart
<1>15. QED
  BY <1>1, <1>2, <1>3, <1>4, <1>5, <1>6, <1>7, <1>8, <1>9, <1>10, <1>11, <1>12,
     <1>13, <1>14 DEF Next, Serve

\* A turn is saved only where its history ends.
LEMMA TurnsStep == AInv /\ Next => TurnsFollowTheirHistory'
<1> SUFFICES ASSUME AInv, Next PROVE TurnsFollowTheirHistory'
  OBVIOUS
<1>1. ASSUME NEW t \in Requests, Ask(t) PROVE TurnsFollowTheirHistory'
  BY <1>1 DEF AInv, TypeOK, Active, Started, Move, threadVars, runVars,
         TurnsFollowTheirHistory, RunsHaveBegun, BeginsAlone, SessionOf, Appends,
         Saved, Ask
<1>2. ASSUME NEW t \in Requests, NEW h \in offered, Approve(t, h)
      PROVE  TurnsFollowTheirHistory'
  BY <1>2 DEF AInv, TypeOK, Active, Started, Move, threadVars, runVars,
         TurnsFollowTheirHistory, RunsHaveBegun, BeginsAlone, SessionOf, Appends,
         Saved, Approve
<1>3. ASSUME NEW t \in Requests, NEW h \in offered, ApproveAgain(t, h)
      PROVE  TurnsFollowTheirHistory'
  BY <1>3 DEF AInv, TypeOK, Active, Started, Move, threadVars, runVars,
         TurnsFollowTheirHistory, RunsHaveBegun, BeginsAlone, SessionOf, Appends,
         Saved, ApproveAgain
<1>4. ASSUME NEW t \in Requests, LoadHistory(t) PROVE TurnsFollowTheirHistory'
  BY <1>4 DEF AInv, TypeOK, Active, Started, Move, threadVars, runVars,
         TurnsFollowTheirHistory, RunsHaveBegun, BeginsAlone, SessionOf, Appends,
         Saved, LoadHistory
<1>5. ASSUME NEW t \in Requests, LoadFails(t) PROVE TurnsFollowTheirHistory'
  BY <1>5 DEF AInv, TypeOK, Active, Started, Move, threadVars, runVars,
         TurnsFollowTheirHistory, RunsHaveBegun, BeginsAlone, SessionOf, Appends,
         Saved, LoadFails
<1>6. ASSUME NEW t \in Requests, EnterResume(t) PROVE TurnsFollowTheirHistory'
  BY <1>6 DEF AInv, TypeOK, Active, Started, Move, threadVars, runVars,
         TurnsFollowTheirHistory, RunsHaveBegun, BeginsAlone, SessionOf, Appends,
         Saved, EnterResume
<1>7. ASSUME NEW t \in Requests, RefuseResume(t) PROVE TurnsFollowTheirHistory'
  BY <1>7 DEF AInv, TypeOK, Active, Started, Move, threadVars, runVars,
         TurnsFollowTheirHistory, RunsHaveBegun, BeginsAlone, SessionOf, Appends,
         Saved, RefuseResume
<1>8. ASSUME NEW t \in Requests, GraphReturns(t) PROVE TurnsFollowTheirHistory'
  BY <1>8 DEF AInv, TypeOK, Active, Started, Move, threadVars, runVars,
         TurnsFollowTheirHistory, RunsHaveBegun, BeginsAlone, SessionOf, Appends,
         Saved, GraphReturns
<1>9. ASSUME NEW t \in Requests, GraphRaises(t) PROVE TurnsFollowTheirHistory'
  BY <1>9 DEF AInv, TypeOK, Active, Started, Move, threadVars, runVars,
         TurnsFollowTheirHistory, RunsHaveBegun, BeginsAlone, SessionOf, Appends,
         Saved, GraphRaises
<1>10. ASSUME NEW t \in Requests, SaveTurn(t) PROVE TurnsFollowTheirHistory'
  BY <1>10 DEF AInv, TypeOK, Active, Started, Move, threadVars, runVars,
         TurnsFollowTheirHistory, RunsHaveBegun, BeginsAlone, SessionOf, Appends,
         Saved, SaveTurn
<1>11. ASSUME NEW t \in Requests, SaveNothing(t) PROVE TurnsFollowTheirHistory'
  BY <1>11 DEF AInv, TypeOK, Active, Started, Move, threadVars, runVars,
         TurnsFollowTheirHistory, RunsHaveBegun, BeginsAlone, SessionOf, Appends,
         Saved, SaveNothing
<1>12. ASSUME NEW t \in Requests, Reply(t) PROVE TurnsFollowTheirHistory'
  BY <1>12 DEF AInv, TypeOK, Active, Started, Move, threadVars, runVars,
         TurnsFollowTheirHistory, RunsHaveBegun, BeginsAlone, SessionOf, Appends,
         Saved, Reply
<1>13. ASSUME NEW s \in Sessions, SavedElsewhere(s) PROVE TurnsFollowTheirHistory'
  BY <1>13 DEF AInv, TypeOK, Active, Started, Move, threadVars, runVars,
         TurnsFollowTheirHistory, RunsHaveBegun, BeginsAlone, SessionOf, Appends,
         Saved, SavedElsewhere
<1>14. CASE Restart
  BY <1>14 DEF AInv, TypeOK, Active, Started, Move, threadVars, runVars,
         TurnsFollowTheirHistory, RunsHaveBegun, BeginsAlone, SessionOf, Appends,
         Saved, Restart
<1>15. QED
  BY <1>1, <1>2, <1>3, <1>4, <1>5, <1>6, <1>7, <1>8, <1>9, <1>10, <1>11, <1>12,
     <1>13, <1>14 DEF Next, Serve

\* The server begins in the invariant.
LEMMA InitInv == Init => AInv
<1> SUFFICES ASSUME Init PROVE AInv
  OBVIOUS
<1>1. TypeOK
  BY DEF Init, TypeOK, Places, Statuses, Handles
<1>2. RunsHaveBegun /\ BeginsAlone /\ HoldsItsLock /\ GraphKnowsTheChat
  BY DEF Init, RunsHaveBegun, BeginsAlone, HoldsItsLock, GraphKnowsTheChat,
         Active, Inside
<1>3. OneContinuation /\ RevisionsAdvance /\ TurnsFollowTheirHistory
  BY DEF Init, OneContinuation, RevisionsAdvance, TurnsFollowTheirHistory, Active
<1>4. QED
  BY <1>1, <1>2, <1>3 DEF AInv

LEMMA Inductive == Spec => []AInv
<1>1. AInv /\ UNCHANGED vars => AInv'
  BY DEF AInv, vars, threadVars, runVars, TypeOK, RunsHaveBegun, Started,
         BeginsAlone,
         HoldsItsLock, GraphKnowsTheChat, OneContinuation, RevisionsAdvance,
         TurnsFollowTheirHistory, Active, Inside, Slot, SessionOf, HandleOf
<1>2. AInv /\ [Next]_vars => AInv'
  BY <1>1, TypeStep, BegunStep, AloneStep, LockStep, KnowsStep, ContinuationStep,
     RevisionStep, TurnsStep DEF AInv
<1>3. QED
  BY InitInv, <1>2, PTL DEF Spec

\* Every variable keeps its type.
THEOREM TypeCorrect == Spec => []TypeOK
<1>1. AInv => TypeOK
  BY DEF AInv
<1>2. QED
  BY Inductive, <1>1, PTL

\* Two requests of one session are never between the lock and its release at
\* once, whichever sessions share a lock of the pool.
THEOREM SerialSessions == Spec => []SessionsAreSerial
<1>1. AInv => SessionsAreSerial
  BY DEF AInv, HoldsItsLock, SessionsAreSerial, Slot
<1>2. QED
  BY Inductive, <1>1, PTL

\* Every saved turn was answered on exactly the turns before it, and once.
THEOREM TurnsFollow == Spec => []TurnsFollowTheirHistory
<1>1. AInv => TurnsFollowTheirHistory
  BY DEF AInv
<1>2. QED
  BY Inductive, <1>1, PTL

\* A resume is refused when any process has continued the chat before the
\* check; and nothing is executed for a chat that this server has continued,
\* before it or after it.  Turns that another process saves after the check are
\* the exemption.
THEOREM WritesKnow == Spec => WritesKnowTheChat
<1> DEFINE Known(h) ==
        \A i \in (base[h.run] + 1)..Len(turns[session[h.run]]) :
            turns[session[h.run]][i] = Elsewhere
           Checked == \A t \in Requests :
             at[t] = "resume" /\ at'[t] = "graph" => Len(turns[SessionOf(t)]) = base[run[t]]
           Kept == \A h \in executed' \ executed : Known(h)
<1>1. AInv /\ Next => Kept
  <2> SUFFICES ASSUME AInv, Next PROVE Kept
    OBVIOUS
  <2>1. ASSUME NEW t \in Requests, at[t] = "graph", MayExecute(t) PROVE Kept
    <3>1. Known(HandleOf(t))
      BY <2>1 DEF AInv, GraphKnowsTheChat, HandleOf, SessionOf
    <3>2. executed' \ executed \subseteq {HandleOf(t)}
      BY <2>1 DEF MayExecute
    <3>3. QED
      BY <3>1, <3>2
  <2>2. ASSUME NEW t \in Requests, GraphReturns(t) \/ GraphRaises(t) PROVE Kept
    BY <2>1, <2>2 DEF GraphReturns, GraphRaises, Move
  <2>3. ASSUME UNCHANGED executed PROVE Kept
    BY <2>3
  <2>4. QED
    BY <2>2, <2>3 DEF Next, Serve, Ask, Approve, ApproveAgain, LoadHistory,
           LoadFails,
       EnterResume, RefuseResume, SaveTurn, SaveNothing, Reply, SavedElsewhere, Restart
<1>2. AInv /\ Next => Checked
  <2> SUFFICES ASSUME AInv, Next, NEW t \in Requests, at[t] = "resume", at'[t] = "graph"
               PROVE  Len(turns[SessionOf(t)]) = base[run[t]]
    OBVIOUS
  <2>1. at \in [Requests -> Places]
    BY DEF AInv, TypeOK
  <2>2. EnterResume(t)
    BY <2>1 DEF Next, Serve, Move, Ask, Approve, ApproveAgain, LoadHistory, LoadFails,
       EnterResume, RefuseResume, GraphReturns, GraphRaises, SaveTurn, SaveNothing, Reply,
       SavedElsewhere, Restart
  <2>3. QED
    BY <2>2 DEF EnterResume
<1>3. Spec => [][Checked /\ Kept]_vars
  BY Inductive, <1>1, <1>2, PTL DEF Spec
<1>4. QED
  BY <1>3, PTL DEF WritesKnowTheChat
----
\* The five lives of a handle exclude each other.
LEMMA LifeIs ==
    ASSUME AInv, NEW h
    PROVE  /\ Working(h) => h \in offered \ executed /\ h \notin pending
           /\ h \in executed => Life(h) = "executed"
           /\ h \in pending => Life(h) = "offered"
           /\ Working(h) => Life(h) = "used"
           /\ h \notin offered => Life(h) = "unborn"
           /\ h \in offered \ (executed \cup pending) /\ ~Working(h) => Life(h) = "void"
<1>1. ASSUME Working(h) PROVE h \in offered \ executed /\ h \notin pending
  <2>1. PICK t \in Requests : /\ revision[t] > 1 /\ HandleOf(t) = h
                              /\ at[t] \in {"resume", "graph"}
    BY <1>1 DEF Working
  <2>2. h \in offered \ executed
    BY <2>1 DEF AInv, RevisionsAdvance
  <2>3. h \notin pending
    BY <2>1 DEF AInv, OneContinuation, Active, HandleOf
  <2>4. QED
    BY <2>2, <2>3
<1>2. executed \subseteq offered /\ pending \subseteq offered /\ pending \cap executed = {}
  BY DEF AInv, RevisionsAdvance
<1>3. QED
  BY <1>1, <1>2 DEF Life

\* A handle whose membership does not change and that nobody uses before or
\* after keeps its life; so does one that stays in use.
LEMMA LifeStays ==
    ASSUME NEW h, UNCHANGED <<pending, offered, executed>>, Working(h)' = Working(h)
    PROVE  Life(h)' = Life(h)
BY DEF Life

\* A step in the life of one handle.
LEMMA OneLifeMoves ==
    ASSUME NEW g, NEW from, NEW to, Life(g) \in from, Life(g)' = to,
           \A h : h # g => Life(h)' = Life(h)
    PROVE  \/ Lives' = Lives
           \/ g \in BoundedHandles /\ Promised!Becomes(g, from, to)
<1>1. CASE g \in BoundedHandles
  <2>1. Lives' = [Lives EXCEPT ![g] = to]
    BY <1>1 DEF Lives
  <2>2. QED
    BY <1>1, <2>1 DEF Lives, Promised!Becomes
<1>2. CASE g \notin BoundedHandles
  BY <1>2 DEF Lives
<1>3. QED
  BY <1>1, <1>2

\* A thread that has no approval to execute uses no handle, wherever it goes.
LEMMA WorkStays ==
    ASSUME NEW t \in Requests, ~(revision'[t] > 1) \/ at'[t] \notin {"resume", "graph"},
           ~(revision[t] > 1) \/ at[t] \notin {"resume", "graph"},
           \A u \in Requests : u # t =>
               at'[u] = at[u] /\ run'[u] = run[u] /\ revision'[u] = revision[u]
    PROVE  \A h : Working(h)' = Working(h)
<1> SUFFICES ASSUME NEW h PROVE Working(h)' <=> Working(h)
  BY DEF Working
<1>1. ASSUME Working(h) PROVE Working(h)'
  <2>1. PICK u \in Requests : revision[u] > 1 /\ HandleOf(u) = h /\ at[u] \in {"resume", "graph"}
    BY <1>1 DEF Working
  <2>2. u # t
    BY <2>1
  <2>3. QED
    BY <2>1, <2>2 DEF Working, HandleOf
<1>2. ASSUME Working(h)' PROVE Working(h)
  <2>1. PICK u \in Requests :
            revision'[u] > 1 /\ HandleOf(u)' = h /\ at'[u] \in {"resume", "graph"}
    BY <1>2 DEF Working
  <2>2. u # t
    BY <2>1
  <2>3. QED
    BY <2>1, <2>2 DEF Working, HandleOf
<1>3. QED
  BY <1>1, <1>2

\* Whatever becomes of handles that were neither offered anew nor executed,
\* they keep their life if they stay in use as they were.
LEMMA LivesStay ==
    ASSUME UNCHANGED <<pending, offered, executed>>, \A h : Working(h)' = Working(h)
    PROVE  Lives' = Lives
BY LifeStays DEF Lives

\* The thread of a resumed run stops working on its handle: it has executed
\* the handle or not, and no other thread has it.
LEMMA WorkEnds ==
    ASSUME AInv, AInv', NEW t \in Requests,
           at[t] \in {"resume", "graph"}, revision[t] > 1,
           at'[t] \notin {"resume", "graph"}, UNCHANGED <<run, revision, pending, offered>>,
           \A u \in Requests : u # t => at'[u] = at[u],
           executed' = executed \/ executed' = executed \cup {HandleOf(t)}
    PROVE  Lives' = Lives \/ Promised!Next
<1> PICK g : g = HandleOf(t)
  OBVIOUS
<1> HandleOf(t)' = g
  BY DEF HandleOf
<1>1. Working(g) /\ Life(g) = "used" /\ g \in offered \ executed /\ g \notin pending
  BY LifeIs DEF Working
<1>2. \A u \in Requests :
        HandleOf(u) = g /\ revision[u] > 1 /\ at[u] \in {"resume", "graph"} => u = t
  BY DEF AInv, OneContinuation, Active, HandleOf
<1>3. ~Working(g)'
  BY <1>2 DEF Working, HandleOf
<1>4. ASSUME NEW h, h # g PROVE Life(h)' = Life(h)
  <2>1. Working(h)' = Working(h)
    BY <1>4 DEF Working, HandleOf
  <2>2. h \in executed' <=> h \in executed
    BY <1>4
  <2>3. QED
    BY <2>1, <2>2 DEF Life
<1>5. CASE g \in executed'
  <2>1. Life(g)' = "executed"
    BY <1>1, <1>5 DEF Life
  <2>2. Lives' = Lives \/ (g \in BoundedHandles /\ Promised!Becomes(g, {"used"}, "executed"))
    BY <1>1, <1>4, <2>1, OneLifeMoves
  <2>3. QED
    BY <2>2 DEF Promised!Next, Promised!Execute
<1>6. CASE g \notin executed'
  <2>1. Life(g)' = "void"
    BY <1>1, <1>3, <1>6 DEF Life
  <2>2. Lives' = Lives
           \/ (g \in BoundedHandles /\ Promised!Becomes(g, {"offered", "used"}, "void"))
    BY <1>1, <1>4, <2>1, OneLifeMoves
  <2>3. QED
    BY <2>2 DEF Promised!Next, Promised!Void
<1>7. QED
  BY <1>5, <1>6

\* Each step of the server is a step of at most one handle's life, or a restart.
LEMMA StepsAreLives == AInv /\ AInv' /\ Next => Lives' = Lives \/ Promised!Next
<1> SUFFICES ASSUME AInv, AInv', Next PROVE Lives' = Lives \/ Promised!Next
  OBVIOUS
<1>1. \A t \in Requests : revision[t] \in Nat /\ t \in DOMAIN at /\ t \in DOMAIN run /\ t \in DOMAIN revision
  BY DEF AInv, TypeOK
<1>2. ASSUME NEW t \in Requests, Ask(t) PROVE Lives' = Lives
  <2>1. \A h : Working(h)' = Working(h)
    BY <1>1, <1>2, WorkStays DEF Ask, Move, AInv, TypeOK
  <2>2. QED
    BY <1>2, <2>1, LivesStay DEF Ask
<1>3. ASSUME NEW t \in Requests, LoadHistory(t) PROVE Lives' = Lives
  <2>1. /\ at[t] = "start" /\ revision[t] = 1 /\ UNCHANGED <<run, revision>>
        /\ \A u \in Requests : u # t => at'[u] = at[u]
    BY <1>1, <1>3 DEF LoadHistory, Move, AInv, TypeOK, BeginsAlone, threadVars
  <2>2. \A h : Working(h)' = Working(h)
    BY <2>1, WorkStays
  <2>3. QED
    BY <1>3, <2>2, LivesStay DEF LoadHistory
<1>4. ASSUME NEW t \in Requests, EnterResume(t) PROVE Lives' = Lives
  <2>1. \A h : Working(h)' = Working(h)
    BY <1>1, <1>4 DEF EnterResume, Move, AInv, TypeOK, Working, HandleOf, threadVars
  <2>2. QED
    BY <1>4, <2>1, LivesStay DEF EnterResume
<1>5. ASSUME NEW t \in Requests,
             \/ SaveTurn(t) \/ SaveNothing(t)
             \/ \E h \in offered : ApproveAgain(t, h)
             \/ LoadFails(t) /\ at[t] = "start"
      PROVE  Lives' = Lives
  <2>1. /\ UNCHANGED <<run, revision, pending, offered, executed>>
        /\ at[t] \notin {"resume", "graph"} /\ at'[t] \notin {"resume", "graph"}
        /\ \A u \in Requests : u # t => at'[u] = at[u]
    BY <1>1, <1>5 DEF SaveTurn, SaveNothing, ApproveAgain, LoadFails, Move,
           threadVars, AInv, TypeOK
  <2>2. \A h : Working(h)' = Working(h)
    BY <2>1, WorkStays
  <2>3. QED
    BY <2>1, <2>2, LivesStay
<1>6. ASSUME NEW t \in Requests,
             \/ RefuseResume(t) \/ GraphReturns(t) \/ GraphRaises(t)
             \/ LoadFails(t) /\ at[t] = "resume"
      PROVE  Lives' = Lives \/ Promised!Next
  <2>1. /\ UNCHANGED <<run, revision, pending, offered>>
        /\ at[t] \in {"resume", "graph"} /\ at'[t] \notin {"resume", "graph"}
        /\ \A u \in Requests : u # t => at'[u] = at[u]
    BY <1>1, <1>6 DEF RefuseResume, GraphReturns, GraphRaises, LoadFails, Move,
           threadVars, AInv, TypeOK
  <2>2. executed' = executed \/ (revision[t] > 1 /\ executed' = executed \cup {HandleOf(t)})
    BY <1>6 DEF RefuseResume, GraphReturns, GraphRaises, LoadFails, MayExecute
  <2>3. CASE revision[t] > 1
    BY <2>1, <2>2, <2>3, WorkEnds
  <2>4. CASE ~(revision[t] > 1)
    <3>1. \A h : Working(h)' = Working(h)
      BY <2>1, <2>4, WorkStays
    <3>2. QED
      BY <2>1, <2>2, <2>4, <3>1, LivesStay
  <2>5. QED
    BY <2>3, <2>4
<1>7. ASSUME NEW t \in Requests, NEW h \in offered, Approve(t, h)
      PROVE  Lives' = Lives \/ Promised!Next
  <2>1. /\ h \in Handles /\ h \in pending /\ h \notin executed /\ h.revision >= 1
        /\ Life(h) = "offered"
    BY <1>7, LifeIs DEF Approve, AInv, TypeOK, RevisionsAdvance
  <2>2. Working(h)'
    <3>1. at'[t] = "resume" /\ run'[t] = h.run /\ revision'[t] = h.revision + 1
      BY <1>1, <1>7 DEF Approve, Move, AInv, TypeOK
    <3>2. revision'[t] > 1 /\ HandleOf(t)' = h
      BY <2>1, <3>1 DEF HandleOf, Handles
    <3>3. QED
      BY <3>1, <3>2 DEF Working
  <2>3. Life(h)' = "used"
    <3>1. h \notin pending' /\ h \notin executed'
      BY <1>7, <2>1 DEF Approve
    <3>2. QED
      BY <2>1, <2>2, <3>1, <1>7 DEF Life, Approve
  <2>4. ASSUME NEW g, g # h PROVE Life(g)' = Life(g)
    <3>1. HandleOf(t)' = h /\ at[t] = "new"
      BY <1>1, <1>7, <2>1 DEF Approve, Move, HandleOf, Handles, AInv, TypeOK
    <3>2. \A u \in Requests : u # t =>
              at'[u] = at[u] /\ revision'[u] = revision[u] /\ HandleOf(u)' = HandleOf(u)
      BY <1>1, <1>7 DEF Approve, Move, HandleOf, AInv, TypeOK
    <3>3. Working(g)' = Working(g)
      BY <2>4, <3>1, <3>2 DEF Working
    <3>4. /\ g \in pending' <=> g \in pending
          /\ offered' = offered /\ executed' = executed
      BY <1>7, <2>4 DEF Approve
    <3>5. QED
      BY <3>3, <3>4 DEF Life
  <2>5. Lives' = Lives \/ (h \in BoundedHandles /\ Promised!Becomes(h, {"offered"}, "used"))
    BY <2>1, <2>3, <2>4, OneLifeMoves
  <2>6. QED
    BY <2>5 DEF Promised!Next, Promised!Use
<1>8. ASSUME NEW t \in Requests, Reply(t) PROVE Lives' = Lives \/ Promised!Next
  <2> PICK h : h = [run |-> run[t], revision |-> revision[t]]
    OBVIOUS
  <2>1. /\ UNCHANGED <<run, revision, executed>> /\ at[t] = "reply" /\ at'[t] = "answered"
        /\ \A u \in Requests : u # t => at'[u] = at[u]
    BY <1>1, <1>8 DEF Reply, Move, threadVars, AInv, TypeOK
  <2>2. \A g : Working(g)' = Working(g)
    BY <2>1, WorkStays
  <2>3. CASE status[t] # "approval_required"
    BY <1>8, <2>1, <2>2, <2>3, LivesStay DEF Reply
  <2>4. CASE status[t] = "approval_required"
    <3>1. pending' = pending \cup {h} /\ offered' = offered \cup {h}
      BY <1>8, <2>4 DEF Reply
    <3>2. h \notin offered
      BY <1>1, <2>1 DEF AInv, RevisionsAdvance, Active
    <3>3. Life(h) = "unborn" /\ Life(h)' = "offered"
      <4>1. h \notin executed /\ ~Working(h) /\ h \notin pending
        BY <3>2, LifeIs DEF AInv, RevisionsAdvance
      <4>2. h \notin executed' /\ h \in pending'
        BY <2>1, <3>1, <4>1
      <4>3. QED
        BY <3>1, <3>2, <4>1, <4>2 DEF Life
    <3>4. \A g : g # h => Life(g)' = Life(g)
      BY <2>1, <2>2, <3>1 DEF Life
    <3>5. Lives' = Lives \/ (h \in BoundedHandles /\ Promised!Becomes(h, {"unborn"}, "offered"))
      BY <3>3, <3>4, OneLifeMoves
    <3>6. QED
      BY <3>5 DEF Promised!Next, Promised!Offer
  <2>5. QED
    BY <2>3, <2>4
<1>9. ASSUME NEW s \in Sessions, SavedElsewhere(s) PROVE Lives' = Lives
  <2>1. \A h : Working(h)' = Working(h)
    BY <1>9 DEF SavedElsewhere, Working, HandleOf, threadVars
  <2>2. QED
    BY <1>9, <2>1, LivesStay DEF SavedElsewhere
<1>10. ASSUME Restart PROVE Promised!Next
  <2>1. /\ pending' = {} /\ UNCHANGED <<offered, executed>>
        /\ \A t \in Requests : at'[t] \notin {"resume", "graph"}
    BY <1>10 DEF Restart
  <2>2. \A h : ~Working(h)'
    BY <2>1 DEF Working
  <2>3. ASSUME NEW h
        PROVE  /\ Life(h)' \in {"unborn", "void", "executed"}
               /\ Life(h)' # Life(h) => Life(h) \in {"offered", "used"} /\ Life(h)' = "void"
    <3>1. CASE h \in executed
      BY <2>1, <3>1, LifeIs DEF Life
    <3>2. CASE h \notin offered
      BY <2>1, <2>2, <3>2, LifeIs DEF Life, AInv, RevisionsAdvance
    <3>3. CASE h \in offered \ executed
      <4>1. Life(h)' = "void"
        BY <2>1, <2>2, <3>3 DEF Life
      <4>2. Life(h) \in {"offered", "used", "void"}
        BY <3>3, LifeIs
      <4>3. QED
        BY <4>1, <4>2
    <3>4. QED
      BY <3>1, <3>2, <3>3
  <2>4. Promised!Restart
    BY <2>3 DEF Promised!Restart, Lives
  <2>5. QED
    BY <2>4 DEF Promised!Next
<1>11. ASSUME NEW t \in Requests, Serve(t) PROVE Lives' = Lives \/ Promised!Next
  BY <1>3, <1>4, <1>5, <1>6, <1>8, <1>11 DEF Serve, LoadFails
<1>12. QED
  BY <1>2, <1>5, <1>7, <1>9, <1>10, <1>11 DEF Next

\* The server keeps the promise of the handles: each is used at most once,
\* only its use executes the write it stands for, and nothing brings a handle
\* back that was used, refused or lost in a restart.
THEOREM HandlesAreOneShot == Spec => OneShot
<1>1. Init => Promised!Init
  BY DEF Init, Promised!Init, Lives, Life, Working
<1>2. AInv /\ AInv' /\ [Next]_vars => [Promised!Next]_Lives
  <2>1. ASSUME AInv, AInv', UNCHANGED vars PROVE Lives' = Lives
    <3>1. \A h : Working(h)' = Working(h)
      BY <2>1 DEF vars, threadVars, Working, HandleOf
    <3>2. QED
      BY <2>1, <3>1, LivesStay DEF vars
  <2>2. QED
    BY <2>1, StepsAreLives
<1>3. QED
  BY Inductive, <1>1, <1>2, PTL DEF Spec, OneShot, Promised!Spec
====
