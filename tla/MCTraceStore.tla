---- MODULE MCTraceStore ----
\* Invokes that decide and wait for an approval, and invokes that run the
\* approved tool, decide once more and answer.
EXTENDS TraceStore, TLC

CONSTANTS decide, tool, answer

MCInvocations == {<<decide>>, <<tool, decide, answer>>}
Symmetry == Permutations(Runs)
====
