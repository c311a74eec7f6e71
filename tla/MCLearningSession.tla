---- MODULE MCLearningSession ----
\* A plan that leaves room for four failures, a longer one with room for one, and
\* one each that is too long at once or would be at its end.
EXTENDS LearningSession

MCPlans == {[steps |-> 2, size |-> 4], [steps |-> 4, size |-> 6],
            [steps |-> 2, size |-> 40], [steps |-> 4, size |-> 16]}
====
