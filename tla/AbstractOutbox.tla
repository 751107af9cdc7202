--------------------------- MODULE AbstractOutbox ---------------------------
(***************************************************************************)
(* What the durable outbox promises its producers, with no lease, no       *)
(* worker and no clock in it.  An accepted operation stays queued until it *)
(* is finished exactly once or handed over, in one step, to the one        *)
(* replacement that continues it; it is finished as delivered, or declared *)
(* obsolete or replaced, only after the operation it depends on was        *)
(* delivered; and nothing that was accepted ever disappears.               *)
(***************************************************************************)

CONSTANTS
    Op,             \* the logical operations, each a stable operation_id
    NoOp,           \* "no operation"
    DependsOn,      \* the operation each one waits for, or NoOp
    ReplacementOf   \* the operation each one continues, or NoOp

VARIABLE fate       \* what became of each operation

Final == {"succeeded", "replayed", "obsolete"}
Delivered == {"succeeded", "replayed"}
Fate == {"unknown", "queued", "superseded"} \cup Final

DependencyDelivered(o) ==
    DependsOn[o] = NoOp \/ fate[DependsOn[o]] \in Delivered

Init == fate = [o \in Op |-> "unknown"]

Accept(o) ==
    /\ fate[o] = "unknown"
    /\ ReplacementOf[o] = NoOp
    /\ fate' = [fate EXCEPT ![o] = "queued"]

Finish(o, f) ==
    /\ fate[o] = "queued"
    /\ DependencyDelivered(o)
    /\ fate' = [fate EXCEPT ![o] = f]

Replace(o, r) ==
    /\ fate[o] = "queued"
    /\ DependencyDelivered(o)
    /\ fate[r] = "unknown"
    /\ ReplacementOf[r] = o
    /\ fate' = [fate EXCEPT ![o] = "superseded", ![r] = "queued"]

Next ==
    \E o \in Op : \/ Accept(o)
                  \/ \E f \in Final : Finish(o, f)
                  \/ \E r \in Op : Replace(o, r)

Spec == Init /\ [][Next]_fate
=============================================================================
