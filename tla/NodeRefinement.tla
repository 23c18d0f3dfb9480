--------------------------- MODULE NodeRefinement ---------------------------
(* The reconcile loop keeps the operator's promise.                          *)
EXTENDS NodeReconciler

Exist == {o \in Objects : api[o] # 0}
AppliedObjects == {o \in Objects : Applied(o)}

Promise == INSTANCE NodePromise WITH
    alive <- cr.alive, exist <- Exist, applied <- AppliedObjects,
    published <- dns, state <- cr.state

\* Objects never fall back behind the spec they were brought to, none goes
\* while the CR is there, and a CR that is told Running, whenever that is,
\* has all of its objects as its present spec wants them: each step of the
\* reconcile loop and of its surroundings is one of NodePromise, or leaves what
\* it speaks of alone.
KeepsPromise == Promise!Spec
=============================================================================
