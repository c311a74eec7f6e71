---- MODULE MCReadonlyGraph ----
\* The read-only graph has only numbers to fix.
EXTENDS ReadonlyGraph
====
