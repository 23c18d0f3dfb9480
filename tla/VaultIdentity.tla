--------------------------- MODULE VaultIdentity ---------------------------
(* The init script gives a node its identity as NodeIdentity promises.       *)
EXTENDS VaultInit

\* An empty key file that the script has just opened is no key yet; one that
\* a kill left behind decides the stage.
Undecided(s) == \/ disk[s]["key"] = Absent
                \/ pc = "fill" /\ stage = s /\ file = 2

\* The serial 0 is that of the answers from the store.
KeyOf(s) ==
    LET c == disk[s]["key"] IN
    [ kind |-> IF Undecided(s) THEN "none"
               ELSE IF ~IsGenuine(c) THEN "useless"
               ELSE IF c = Genuine(0) THEN "stored" ELSE "issued",
      serial |-> c.serial ]

StoredKeys == IF nodeType = "orderer" THEN {"tls"} ELSE {}

Identity == INSTANCE NodeIdentity WITH
    stored <- StoredKeys, key <- [s \in Stages |-> KeyOf(s)], disturbed <- (faults > 0)

\* Each step of the script, each restart and each kill is one of NodeIdentity,
\* or leaves what it speaks of alone: a stage gets its key once, the newest
\* that was issued and not the other stage's, and without a fault a usable one.
KeepsIdentity == Identity!Spec
=============================================================================
