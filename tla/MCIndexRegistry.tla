---- MODULE MCIndexRegistry ----
(***************************************************************************)
(* Two threads of one process and one thread of another.  One bound serves *)
(* two questions: the three threads compete for key k1, once each, while   *)
(* the tree changes twice; or the two threads of one process call twice    *)
(* and use two keys, of which memory holds one, while it changes once.     *)
(* Two threads at most are in get at a time: with one key the lock sees to *)
(* that anyhow.                                                            *)
(***************************************************************************)
EXTENDS IndexRegistry, FiniteSets, TLC

CONSTANTS t1, t2, t3, p1, p2, k1

MCProcessOf == [t \in Threads |-> IF t = t3 THEN p2 ELSE p1]
Symmetry == Permutations({t1, t2} \cap Threads)

Used == {k \in Keys : \/ disk[k] # None
                      \/ \E t \in Threads : key[t] = k
                      \/ \E p \in Processes : Cached(p, k)}

OneKey == (\A t \in Threads : callsMade[t] <= 1) /\ Used \subseteq {k1}
OneProcess == callsMade[t3] = 0 /\ Len(history) <= 2

TwoAtATime == Cardinality({t \in Threads : at[t] # "idle"}) <= 2

MCNext == Next /\ TwoAtATime' /\ (OneProcess \/ OneKey)'

\* File 1 is there at first, file 2 may not be.
MCInit == Init /\ tree[1] = 1
MCSpec == MCInit /\ [][MCNext]_vars
====
