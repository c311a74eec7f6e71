---- MODULE MCApprovalFlow ----
\* Two sessions that share one lock of the pool.
EXTENDS ApprovalFlow, TLC

CONSTANTS q1, q2, q3, s1

MCLockOf == [s \in Sessions |-> CHOOSE l \in Slots : TRUE]

\* Requests are interchangeable: it is enough to look at behaviours in which
\* q1 comes first, then q2, then q3 (TLC's SYMMETRY would not be sound for the
\* liveness property).  Bound: the first request and the other process are in
\* session s1; the second session is this server's alone.
Arrival == <<q1, q2, q3>>
Bounded ==
    /\ \A i \in 1..2 : at[Arrival[i]] = "new" => at[Arrival[i + 1]] = "new"
    /\ session[q1] \in {None, s1}
    /\ \A s \in Sessions \ {s1} : \A i \in DOMAIN turns[s] : turns[s][i] # Elsewhere

MCNext == Next /\ Bounded'
MCSpec == Init /\ [][MCNext]_vars /\ \A t \in Requests : WF_vars(Serve(t))
====
