---- MODULE OneShotApproval ----
(***************************************************************************)
(* What the browser promises about an approval handle                      *)
(* (PendingApprovalStore in frontend.py): it can be used once, and only    *)
(* its use executes the write it stands for.                               *)
(***************************************************************************)
CONSTANT Handles

VARIABLE life  \* of each handle: unborn, offered, used, executed or void

Init == life = [h \in Handles |-> "unborn"]

Becomes(h, from, to) ==
    /\ life[h] \in from
    /\ life' = [life EXCEPT ![h] = to]

Offer(h) == Becomes(h, {"unborn"}, "offered")
Use(h) == Becomes(h, {"offered"}, "used")
Execute(h) == Becomes(h, {"used"}, "executed")

\* The resume was refused, or broke before the write; or the process ended,
\* and with it several handles at once.
Void(h) == Becomes(h, {"offered", "used"}, "void")
Restart ==
    life' \in [Handles -> {"unborn", "offered", "used", "executed", "void"}] /\
    \A h \in Handles :
        life'[h] # life[h] => life[h] \in {"offered", "used"} /\ life'[h] = "void"

Next == Restart \/ \E h \in Handles : Offer(h) \/ Use(h) \/ Execute(h) \/ Void(h)

Spec == Init /\ [][Next]_life
====
