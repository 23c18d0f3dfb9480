---------------------------- MODULE NodeIdentity ----------------------------
(* What the volume of a node's pod promises, whatever happens to the pods    *)
(* that use it: for signing and for TLS the node gets one key, once.  It is  *)
(* the newest that Vault issued and nobody else's, or the one kept for the   *)
(* node in Vault's store; a key that is spoilt, which takes a fault, is not  *)
(* replaced either.                                                          *)
EXTENDS Naturals

CONSTANT Stages     \* what a key is for: signing, TLS

VARIABLES
    stored,     \* the keys that are not issued but kept in the store
    issued,     \* how many keys were issued
    key,        \* the node's key for each stage
    disturbed   \* a call failed or a container was killed

vars == <<stored, issued, key, disturbed>>

Key(kind, serial) == [kind |-> kind, serial |-> serial]
None == Key("none", 0)
Useless == Key("useless", 0)
FromStore == Key("stored", 0)
Issued(serial) == Key("issued", serial)

Init == /\ stored \in SUBSET Stages
        /\ issued = 0 /\ disturbed = FALSE
        /\ key = [s \in Stages |-> None]

Issue == /\ issued' = issued + 1
         /\ UNCHANGED <<stored, key, disturbed>>

\* The answer, if there was one, is lost.
Disturb == /\ disturbed' = TRUE
           /\ issued' \in {issued, issued + 1}
           /\ UNCHANGED <<stored, key>>

Decide(s, k) == /\ key[s] = None
                /\ key' = [key EXCEPT ![s] = k]
                /\ UNCHANGED <<stored, issued>>

Adopt(s) == /\ s \notin stored
            /\ issued > 0 /\ \A t \in Stages : key[t] # Issued(issued)
            /\ Decide(s, Issued(issued))
            /\ UNCHANGED disturbed

Fetch(s) == /\ s \in stored
            /\ Decide(s, FromStore)
            /\ UNCHANGED disturbed

Spoil(s) == /\ Decide(s, Useless)
            /\ disturbed' = TRUE

Next == \/ Issue \/ Disturb
        \/ \E s \in Stages : Adopt(s) \/ Fetch(s) \/ Spoil(s)

Spec == Init /\ [][Next]_vars
=============================================================================
