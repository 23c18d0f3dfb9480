------------------------------ MODULE VaultInit ------------------------------
(* The init container of a node's pod: a shell script that asks Vault for    *)
(* the node's signing certificate and its TLS certificate, and keeps them on *)
(* the pod's "certificate" volume, where the node's container finds them.    *)
(*                                                                           *)
(* The script has a stage for the signing (msp) and one for the TLS files.   *)
(* Each is skipped when its key file exists.  The shell goes on after a      *)
(* command that fails, and the container's exit status is that of the last   *)
(* command.  The volume outlives the container; its environment and /tmp do  *)
(* not.                                                                      *)
EXTENDS Naturals, Sequences, FiniteSets

CONSTANTS
    NodeTypes,   \* the kinds of node, some of "peer" and "orderer"
    MaxFaults    \* bound: number of failed Vault calls and container kills

ASSUME NodeTypesAssumption == NodeTypes \subseteq {"peer", "orderer"}
ASSUME MaxFaultsAssumption == MaxFaults \in Nat

Stages == {"msp", "tls"}
Files == {"cert", "key", "ca"}

\* Mutant of Order: the key is written before the certificate it belongs to.
OrderKeyFirst == <<"key", "cert", "ca">>

\* The order in which a stage writes its files.
Order == <<"cert", "key", "ca">>

\* What a file holds: nothing yet, no bytes, the word null, or a part of the
\* answer to a request, which the serial tells from the other answers.
Content(kind, serial) == [kind |-> kind, serial |-> serial]
Absent == Content("absent", 0)
Empty == Content("empty", 0)
Null == Content("null", 0)
Genuine(serial) == Content("genuine", serial)
Contents == [kind : {"absent", "empty", "null", "genuine"}, serial : Nat]

\* What /tmp/response holds: an answer, an error in JSON, no bytes (Vault was
\* not reached), or something that is not JSON (a proxy's error page).
Errors == Content("errors", 0)
Nothing == Content("nothing", 0)
Junk == Content("junk", 0)
Failures == {Errors, Nothing, Junk}
Responses == [kind : {"genuine", "errors", "nothing", "junk"}, serial : Nat]

VARIABLES
    nodeType,   \* VaultInit.NodeType
    disk,       \* the files on the volume
    pc,         \* where the script stands; "started": the node's container runs
    stage,      \* the stage it is in
    file,       \* the file it writes, as a position in Order
    token,      \* X_VAULT_TOKEN is set to a token that Vault accepts
    response,   \* /tmp/response, /tmp/tlsresponse
    issued,     \* certificates Vault has issued so far
    faults      \* faults so far

PCs == {"test", "login", "ask", "open", "fill", "started"}

vars == <<nodeType, disk, pc, stage, file, token, response, issued, faults>>

-----------------------------------------------------------------------------
\* The script starts, in a new container.
Begin ==
    /\ pc = "test" /\ stage = "msp" /\ file = 1
    /\ token = FALSE /\ response = Nothing

Init ==
    /\ nodeType \in NodeTypes
    /\ disk = [s \in Stages |-> [f \in Files |-> Absent]]
    /\ issued = 0 /\ faults = 0
    /\ Begin

Restarted ==
    /\ pc' = "test" /\ stage' = "msp" /\ file' = 1
    /\ token' = FALSE /\ response' = Nothing

Fault == faults < MaxFaults /\ faults' = faults + 1

\* Mutant of ExitsWell: the container succeeds only if it left every file.
ExitsWellWhenComplete(last) ==
    \A s \in Stages, f \in Files : disk'[s][f].kind = "genuine"

\* The status of the stage's last command: jq's, which fails on what is not
\* JSON only, or that of an if that did nothing.
ExitsWell(last) == last # Junk

\* A stage is over: the next one is tested, or the container exits and is
\* followed by the node's container or, having failed, started again.
EndStage(last) ==
    \/ /\ stage = "msp"
       /\ pc' = "test" /\ stage' = "tls" /\ file' = 1
       /\ UNCHANGED <<token, response>>
    \/ /\ stage = "tls" /\ ExitsWell(last)
       /\ pc' = "started"
       /\ UNCHANGED <<stage, file, token, response>>
    \/ /\ stage = "tls" /\ ~ExitsWell(last)
       /\ Restarted

\* Mutant of Marker: the TLS stage is told by the signing key too.
MarkerIsMspKey(s) == disk["msp"]["key"]

\* Mutant of Marker: the last file written, and not the key, tells a stage is done.
MarkerIsCa(s) == disk[s]["ca"]

\* Mutant of Marker: every run of the script takes every stage.
MarkerUnchecked(s) == Absent

\* if [ ! -f .../keystore/peer.key ] and if [ ! -f "$TLS_PATH"/cert.key ]
Marker(s) == disk[s]["key"]

SkipStage ==
    /\ pc = "test" /\ Marker(stage) # Absent
    /\ UNCHANGED <<nodeType, disk, issued, faults>>
    /\ EndStage(Nothing)

\* Only the signing stage logs in.
EnterStage ==
    /\ pc = "test" /\ Marker(stage) = Absent
    /\ pc' = IF stage = "msp" THEN "login" ELSE "ask"
    /\ UNCHANGED <<nodeType, disk, stage, file, token, response, issued, faults>>

Login ==
    /\ pc = "login"
    /\ \/ token' = TRUE /\ UNCHANGED faults
       \/ token' = FALSE /\ Fault
    /\ pc' = "ask"
    /\ UNCHANGED <<nodeType, disk, stage, file, response, issued>>

\* An orderer's TLS certificate is not issued but read from the key-value store.
Stored == nodeType = "orderer" /\ stage = "tls"

\* Mutant of Ask: an answer that is there already is taken again.
AskUnlessAnswered ==
    /\ pc = "ask"
    /\ \/ response.kind = "genuine" /\ UNCHANGED <<response, issued>>
       \/ /\ response.kind # "genuine" /\ token
          /\ response' = Genuine(issued + 1) /\ issued' = issued + 1
       \/ /\ response.kind # "genuine" /\ ~token
          /\ response' = Errors /\ UNCHANGED issued
    /\ pc' = "open"
    /\ UNCHANGED <<nodeType, disk, stage, file, token, faults>>

\* A request without the token is denied; any may fail, one that Vault answered
\* when its reply is lost.
Ask ==
    /\ pc = "ask"
    /\ \/ /\ token /\ Stored
          /\ response' = Genuine(0)
          /\ UNCHANGED <<issued, faults>>
       \/ /\ token /\ ~Stored
          /\ response' = Genuine(issued + 1) /\ issued' = issued + 1
          /\ UNCHANGED faults
       \/ /\ ~token
          /\ response' = Errors
          /\ UNCHANGED <<issued, faults>>
       \/ /\ Fault
          /\ response' \in Failures
          /\ issued' \in IF token /\ ~Stored THEN {issued, issued + 1} ELSE {issued}
    /\ pc' = "open"
    /\ UNCHANGED <<nodeType, disk, stage, file, token>>

\* The shell opens the file, and so empties it, before jq prints to it.
OpenFile ==
    /\ pc = "open"
    /\ disk' = [disk EXCEPT ![stage][Order[file]] = Empty]
    /\ pc' = "fill"
    /\ UNCHANGED <<nodeType, stage, file, token, response, issued, faults>>

\* Mutant of Printed: the response is kept as it is.
PrintedAsIs(r) == r

\* jq -r -j .data.<field>: the field, null when there is none, nothing when the
\* response is empty or not JSON.
Printed(r) == IF r.kind = "genuine" THEN Genuine(r.serial)
              ELSE IF r.kind = "errors" THEN Null ELSE Empty

FillFile ==
    /\ pc = "fill"
    /\ disk' = [disk EXCEPT ![stage][Order[file]] = Printed(response)]
    /\ \/ /\ file < 3
          /\ file' = file + 1 /\ pc' = "open"
          /\ UNCHANGED <<stage, token, response>>
       \/ file = 3 /\ EndStage(response)
    /\ UNCHANGED <<nodeType, issued, faults>>

\* The container is killed, or the pod replaced by another on the same volume.
Killed ==
    /\ Fault
    /\ Restarted
    /\ UNCHANGED <<nodeType, disk, issued>>

Script == SkipStage \/ EnterStage \/ Login \/ Ask \/ OpenFile \/ FillFile

Next == Script \/ Killed

Spec == Init /\ [][Next]_vars

\* A process that is not killed gets on; a container that failed is started again.
Fairness == WF_vars(Script)

FairSpec == Spec /\ Fairness

-----------------------------------------------------------------------------
(* Properties.                                                               *)

\* The types of the variables.
TypeOK ==
    /\ nodeType \in NodeTypes
    /\ disk \in [Stages -> [Files -> Contents]]
    /\ pc \in PCs /\ stage \in Stages /\ file \in 1 .. 3
    /\ token \in BOOLEAN /\ response \in Responses
    /\ issued \in Nat /\ faults \in 0 .. MaxFaults

IsGenuine(c) == c.kind = "genuine"

\* However often the script was cut short and begun again, a key on the volume
\* lies beside the certificate of the same answer, never beside one left over
\* from another request; and so does a CA certificate.
KeyMatchesCert ==
    \A s \in Stages :
        /\ IsGenuine(disk[s]["key"]) => disk[s]["cert"] = disk[s]["key"]
        /\ IsGenuine(disk[s]["ca"]) => disk[s]["ca"] = disk[s]["key"]

\* A node keeps its identity: once a key is on the volume no later run of the
\* script, after a kill or in another pod, replaces it or its certificate.
IdentityKept ==
    [][\A s \in Stages : IsGenuine(disk[s]["key"]) =>
            /\ disk'[s]["key"] = disk[s]["key"]
            /\ disk'[s]["cert"] = disk[s]["cert"]]_vars

\* The certificate is on the volume with its key, or on its way there.
InUse(i) == \/ \E s \in Stages : disk[s]["key"] = Genuine(i)
            \/ pc \in {"open", "fill"} /\ response = Genuine(i)

\* The script does not use Vault up: of all certificates it was ever issued, no
\* more are left unused than calls failed and containers were killed.
NothingWasted == Cardinality({i \in 1 .. issued : ~InUse(i)}) <= faults

Complete == \A s \in Stages, f \in Files : IsGenuine(disk[s][f])

\* Left undisturbed, the script hands all six files to the node's container.
CompleteUnlessDisturbed == pc = "started" /\ faults = 0 => Complete

\* The script does not keep the node down: however its calls failed, and
\* whatever it left on the volume, the node's container is started in the end.
Starts == <>[](pc = "started")

\* "HashiCorp Vault is used for issuing signing certificate and key [...] TLS
\* certificate and key is also issued from Vault": a node that starts has them.
StartedMeansIssued == pc = "started" => Complete
=============================================================================
