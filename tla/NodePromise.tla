----------------------------- MODULE NodePromise -----------------------------
(* What an operator promises the owner of a FabricPeer or FabricOrderer,     *)
(* whatever it does in between: objects are brought to the spec asked for    *)
(* and stay there until another is asked for, they go only after the CR has  *)
(* gone, and the CR is told Running only when all of that is done.           *)
EXTENDS FiniteSets

CONSTANTS
    Objects,    \* what the node needs
    Owned,      \* those that go with the CR
    States      \* what a CR may be told to be

VARIABLES
    alive,      \* the CR is there
    exist,      \* the objects that are there
    applied,    \* those that are as the last spec wants them
    published,  \* the node is in DNS
    state       \* what the CR says of itself

vars == <<alive, exist, applied, published, state>>

Init == /\ alive = TRUE /\ exist = {} /\ applied = {}
        /\ published = FALSE /\ state = "Unset"

\* Another spec: some objects are no longer as it wants them.
Ask == /\ alive
       /\ applied' \in SUBSET applied
       /\ UNCHANGED <<alive, exist, published, state>>

\* An object is made or changed, and not for the worse.
Apply(o) == /\ exist' = exist \cup {o}
            /\ applied' \in {applied, applied \cup {o}}
            /\ UNCHANGED <<alive, published, state>>

Publish == /\ published' = TRUE
           /\ UNCHANGED <<alive, exist, applied, state>>

Report(st) == /\ alive
              /\ st = "Running" => published /\ applied = Objects
              /\ state' = st
              /\ UNCHANGED <<alive, exist, applied, published>>

Delete == /\ alive /\ alive' = FALSE
          /\ UNCHANGED <<exist, applied, published, state>>

\* What a reconcile may still do to an object of a CR that has gone.
Disturb(o) == /\ ~alive
              /\ exist' = exist \cup {o}
              /\ applied' \in {applied \ {o}, applied \cup {o}}
              /\ UNCHANGED <<alive, published, state>>

Collect(o) == /\ ~alive
              /\ exist' = exist \ {o} /\ applied' = applied \ {o}
              /\ UNCHANGED <<alive, published, state>>

Next == \/ Ask \/ Publish \/ Delete
        \/ \E st \in States : Report(st)
        \/ \E o \in Objects : Apply(o) \/ Disturb(o)
        \/ \E o \in Owned : Collect(o)

Spec == Init /\ [][Next]_vars
=============================================================================
