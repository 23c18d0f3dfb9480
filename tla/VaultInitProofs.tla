--------------------------- MODULE VaultInitProofs ---------------------------
(* What the init script promises whatever calls fail and whenever it is      *)
(* killed, for any number of faults: its types, that key and certificate     *)
(* belong together and are never replaced, that no certificate is asked for  *)
(* twice, and that it implements NodeIdentity.                               *)
EXTENDS VaultIdentity, FiniteSetTheorems, TLAPS

\* TypeOK but for the token, a flag, which is proved by itself.
Types ==
    /\ nodeType \in NodeTypes
    /\ disk \in [Stages -> [Files -> Contents]]
    /\ pc \in PCs /\ stage \in Stages /\ file \in 1 .. 3
    /\ response \in Responses
    /\ issued \in Nat /\ faults \in 0 .. MaxFaults

TokenType == token \in BOOLEAN

\* A stage writes from the first file on, and only if there was no key.
FromTheStart ==
    /\ pc \in {"test", "login", "ask"} => file = 1
    /\ pc \in {"login", "ask"} => disk[stage]["key"] = Absent
    /\ pc \in {"open", "fill"} /\ file = 1 => disk[stage]["key"] = Absent

\* What is on the volume while the key is being written, and then the CA's.
WritingKey ==
    pc \in {"open", "fill"} /\ file = 2 =>
        /\ disk[stage]["cert"] = Printed(response)
        /\ disk[stage]["key"] = IF pc = "open" THEN Absent ELSE Empty

WritingCa ==
    pc \in {"open", "fill"} /\ file = 3 =>
        /\ disk[stage]["cert"] = Printed(response)
        /\ disk[stage]["key"] = Printed(response)

\* The CA's certificate is written last.
CaAfterKey ==
    \A s \in Stages : disk[s]["key"] \in {Absent, Empty} => ~IsGenuine(disk[s]["ca"])

\* The inductive invariant: KeyMatchesCert says nothing of the moments between
\* two files, which the rest describes.
Inv == /\ Types /\ FromTheStart /\ WritingKey /\ WritingCa /\ CaAfterKey
       /\ KeyMatchesCert

-----------------------------------------------------------------------------
\* What jq prints is a content, and never no file at all.
LEMMA PrintedType ==
    ASSUME NEW r \in Responses
    PROVE  /\ Printed(r) \in Contents
           /\ Printed(r) # Absent
  BY DEF Printed, Responses, Contents, Content, Genuine, Null, Empty, Absent

\* What the contents are, and that a file that is there to be filled holds none.
LEMMA ContentFacts ==
    /\ Absent \in Contents /\ Empty \in Contents /\ Absent # Empty
    /\ ~IsGenuine(Absent) /\ ~IsGenuine(Empty)
  BY DEF Contents, Content, Absent, Empty, IsGenuine

\* A file written changes, and no other.
LEMMA DiskUpdate ==
    ASSUME Types, NEW c \in Contents, disk' = [disk EXCEPT ![stage][Order[file]] = c]
    PROVE  /\ disk' \in [Stages -> [Files -> Contents]]
           /\ \A s \in Stages, f \in Files :
                 disk'[s][f] = IF s = stage /\ f = Order[file] THEN c ELSE disk[s][f]
  BY DEF Types, Order, Files, Stages

\* Every initial state satisfies the invariant.
LEMMA InitInv == Init => Inv
  BY ContentFacts, MaxFaultsAssumption
  DEF Init, Begin, Inv, Types, FromTheStart, WritingKey, WritingCa, CaAfterKey,
      KeyMatchesCert, PCs, Stages, Files, Responses, Nothing, Content

\* A script begun again finds a volume that satisfies what it relies on.
LEMMA RestartedInv ==
    ASSUME Inv, Restarted, disk' \in [Stages -> [Files -> Contents]],
           nodeType' = nodeType, issued' = issued, faults' \in 0 .. MaxFaults,
           CaAfterKey', KeyMatchesCert'
    PROVE  Inv'
  BY DEF Inv, Types, Restarted, FromTheStart, WritingKey, WritingCa, PCs, Stages,
         Responses, Nothing, Content

\* The end of a stage, whether it leads to the next one, to the node's start or
\* to another run.
LEMMA EndStageInv ==
    ASSUME Inv, NEW last, EndStage(last), disk' \in [Stages -> [Files -> Contents]],
           nodeType' = nodeType, issued' = issued, faults' = faults,
           CaAfterKey', KeyMatchesCert'
    PROVE  Inv'
<1>1. CASE stage = "msp"
  BY <1>1 DEF EndStage, Inv, Types, FromTheStart, WritingKey, WritingCa, PCs, Stages
<1>2. CASE stage = "tls" /\ ExitsWell(last)
  BY <1>2 DEF EndStage, Inv, Types, FromTheStart, WritingKey, WritingCa, PCs, Stages
<1>3. CASE stage = "tls" /\ ~ExitsWell(last)
  <2>1. Restarted
    BY <1>3 DEF EndStage
  <2> QED
    BY <2>1, RestartedInv DEF Inv, Types
<1> QED
  BY <1>1, <1>2, <1>3 DEF Inv, Types, Stages

\* A file is opened: it holds nothing from now on.
LEMMA OpenInv == Inv /\ OpenFile => Inv'
<1> SUFFICES ASSUME Inv, OpenFile PROVE Inv'
  OBVIOUS
<1>1. /\ disk' \in [Stages -> [Files -> Contents]]
      /\ \A s \in Stages, f \in Files :
            disk'[s][f] = IF s = stage /\ f = Order[file] THEN Empty ELSE disk[s][f]
  BY DiskUpdate, ContentFacts DEF Inv, OpenFile
<1>2. /\ pc = "open" /\ pc' = "fill"
      /\ UNCHANGED <<nodeType, stage, file, token, response, issued, faults>>
  BY DEF OpenFile
<1>3. Types'
  BY <1>1, <1>2 DEF Inv, Types, PCs
<1>4. /\ file \in 1 .. 3 /\ stage \in Stages /\ response \in Responses
      /\ Order[1] = "cert" /\ Order[2] = "key" /\ Order[3] = "ca"
  BY DEF Inv, Types, Order
<1>5. FromTheStart'
  BY <1>1, <1>2, <1>4 DEF Inv, FromTheStart, Files
<1>6. WritingKey'
  BY <1>1, <1>2, <1>4 DEF Inv, WritingKey, Files
<1>7. WritingCa'
  BY <1>1, <1>2, <1>4 DEF Inv, WritingCa, Files
<1>8. CaAfterKey'
  BY <1>1, <1>2, <1>4, ContentFacts DEF Inv, CaAfterKey, WritingKey, Files
<1>9. KeyMatchesCert'
  BY <1>1, <1>2, <1>4, ContentFacts
  DEF Inv, KeyMatchesCert, CaAfterKey, FromTheStart, WritingKey, Files
<1> QED
  BY <1>3, <1>5, <1>6, <1>7, <1>8, <1>9 DEF Inv

\* A file is filled with its part of the response.
LEMMA FillInv == Inv /\ FillFile => Inv'
<1> SUFFICES ASSUME Inv, FillFile PROVE Inv'
  OBVIOUS
<1>1. /\ disk' \in [Stages -> [Files -> Contents]]
      /\ \A s \in Stages, f \in Files :
            disk'[s][f] = IF s = stage /\ f = Order[file] THEN Printed(response)
                          ELSE disk[s][f]
  BY DiskUpdate, PrintedType DEF Inv, Types, FillFile
<1>2. /\ pc = "fill"
      /\ UNCHANGED <<nodeType, issued, faults>>
  BY DEF FillFile
<1>4. /\ file \in 1 .. 3 /\ stage \in Stages /\ response \in Responses
      /\ Order[1] = "cert" /\ Order[2] = "key" /\ Order[3] = "ca"
  BY DEF Inv, Types, Order
<1>5. CaAfterKey'
  BY <1>1, <1>2, <1>4, PrintedType, ContentFacts
  DEF Inv, CaAfterKey, FromTheStart, WritingKey, WritingCa, Files, Printed, IsGenuine,
      Genuine, Null, Empty, Absent, Content, Responses
<1>6. KeyMatchesCert'
  BY <1>1, <1>2, <1>4, ContentFacts
  DEF Inv, KeyMatchesCert, CaAfterKey, FromTheStart, WritingKey, WritingCa, Files
<1>7. CASE file = 3
  BY <1>1, <1>2, <1>5, <1>6, <1>7, EndStageInv DEF FillFile
<1>8. CASE file < 3
  <2>1. /\ file' = file + 1 /\ pc' = "open"
        /\ UNCHANGED <<stage, token, response>>
    BY <1>8, <1>4 DEF FillFile
  <2>2. Types'
    BY <1>1, <1>2, <1>8, <2>1 DEF Inv, Types, PCs
  <2>3. FromTheStart'
    BY <1>4, <1>8, <2>1 DEF FromTheStart
  <2>4. WritingKey'
    BY <1>1, <1>2, <1>4, <1>8, <2>1 DEF Inv, WritingKey, FromTheStart, Files, Printed
  <2>5. WritingCa'
    BY <1>1, <1>2, <1>4, <1>8, <2>1 DEF Inv, WritingKey, WritingCa, Files, Printed
  <2> QED
    BY <2>2, <2>3, <2>4, <2>5, <1>5, <1>6 DEF Inv
<1> QED
  BY <1>4, <1>7, <1>8

\* Every step keeps the invariant.
LEMMA StepInv == Inv /\ [Next]_vars => Inv'
<1> SUFFICES ASSUME Inv, [Next]_vars PROVE Inv'
  OBVIOUS
<1> USE DEF Inv
<1>1. CASE SkipStage
  BY <1>1, EndStageInv DEF SkipStage, Types, CaAfterKey, KeyMatchesCert
<1>2. CASE EnterStage
  BY <1>2 DEF EnterStage, Marker, Types, PCs, FromTheStart, WritingKey, WritingCa,
              CaAfterKey, KeyMatchesCert
<1>3. CASE Login
  <2>1. faults' \in 0 .. MaxFaults
    BY <1>3, MaxFaultsAssumption DEF Login, Fault, Types
  <2>2. /\ pc = "login" /\ pc' = "ask"
        /\ UNCHANGED <<nodeType, disk, stage, file, response, issued>>
    BY <1>3 DEF Login
  <2> QED
    BY <2>1, <2>2 DEF Types, PCs, FromTheStart, WritingKey, WritingCa, CaAfterKey,
                      KeyMatchesCert
<1>4. CASE Ask
  <2>1. response' \in Responses /\ issued' \in Nat
    BY <1>4 DEF Ask, Types, Responses, Failures, Errors, Nothing, Junk, Genuine, Content
  <2>2. faults' \in 0 .. MaxFaults
    BY <1>4, MaxFaultsAssumption DEF Ask, Fault, Types
  <2>3. /\ pc = "ask" /\ pc' = "open"
        /\ UNCHANGED <<nodeType, disk, stage, file, token>>
    BY <1>4 DEF Ask
  <2> QED
    BY <2>1, <2>2, <2>3 DEF Types, PCs, FromTheStart, WritingKey, WritingCa,
                            CaAfterKey, KeyMatchesCert
<1>5. CASE OpenFile
  BY <1>5, OpenInv
<1>6. CASE FillFile
  BY <1>6, FillInv
<1>7. CASE Killed
  <2>1. faults' \in 0 .. MaxFaults
    BY <1>7, MaxFaultsAssumption DEF Killed, Fault, Types
  <2> QED
    BY <1>7, <2>1, RestartedInv DEF Killed, Types, CaAfterKey, KeyMatchesCert
<1>8. CASE UNCHANGED vars
  BY <1>8 DEF vars, Types, FromTheStart, WritingKey, WritingCa, CaAfterKey,
              KeyMatchesCert
<1> QED
  BY <1>1, <1>2, <1>3, <1>4, <1>5, <1>6, <1>7, <1>8 DEF Next, Script

\* The invariant holds throughout.
LEMMA Invariance == Spec => []Inv
  BY InitInv, StepInv, PTL DEF Spec

\* The token is a flag.
LEMMA TokenStep == TokenType /\ [Next]_vars => TokenType'
<1> SUFFICES ASSUME TokenType, [Next]_vars PROVE TokenType'
  OBVIOUS
<1> USE DEF TokenType
<1>1. CASE SkipStage
  BY <1>1, Zenon DEF SkipStage, EndStage, Restarted
<1>2. CASE EnterStage
  BY <1>2, Zenon DEF EnterStage
<1>3. CASE Login
  BY <1>3, Zenon DEF Login
<1>4. CASE Ask
  BY <1>4, Zenon DEF Ask
<1>5. CASE OpenFile
  BY <1>5, Zenon DEF OpenFile
<1>6. CASE FillFile
  BY <1>6, Zenon DEF FillFile, EndStage, Restarted
<1>7. CASE Killed
  BY <1>7, Zenon DEF Killed, Restarted
<1>8. CASE UNCHANGED vars
  BY <1>8, Zenon DEF vars
<1> QED
  BY <1>1, <1>2, <1>3, <1>4, <1>5, <1>6, <1>7, <1>8 DEF Next, Script

-----------------------------------------------------------------------------
\* The variables of the script keep their types: what it leaves in a file is
\* nothing, no bytes, null or an answer, and the bound on faults is kept.
THEOREM VaultTypes == Spec => []TypeOK
<1>1. Init => TokenType
  BY Zenon DEF Init, Begin, TokenType
<1>2. Spec => []TokenType
  BY <1>1, TokenStep, PTL DEF Spec
<1>3. Inv /\ TokenType => TypeOK
  BY DEF Inv, Types, TokenType, TypeOK
<1> QED
  BY Invariance, <1>2, <1>3, PTL

\* However often GetInitContainer's script is cut short and run again, a private
\* key on the volume lies beside its own certificate.
THEOREM KeyCorrect == Spec => []KeyMatchesCert
<1>1. Inv => KeyMatchesCert
  BY DEF Inv
<1> QED
  BY Invariance, <1>1, PTL

\* No run of GetInitContainer's script replaces a key it finds, nor the key's
\* certificate.
THEOREM IdentityCorrect == Spec => IdentityKept
<1> DEFINE Keeps ==
      \A s \in Stages : IsGenuine(disk[s]["key"]) =>
          /\ disk'[s]["key"] = disk[s]["key"]
          /\ disk'[s]["cert"] = disk[s]["cert"]
<1>1. Inv /\ [Next]_vars => [Keeps]_vars
  <2> SUFFICES ASSUME Inv, [Next]_vars PROVE Keeps
    OBVIOUS
  <2>0. /\ Order[1] = "cert" /\ Order[2] = "key" /\ Order[3] = "ca"
        /\ file \in 1 .. 3 /\ response \in Responses
    BY DEF Order, Inv, Types
  <2>1. CASE OpenFile
    <3>1. \A s \in Stages, f \in Files :
             disk'[s][f] = IF s = stage /\ f = Order[file] THEN Empty ELSE disk[s][f]
      BY <2>1, DiskUpdate, ContentFacts DEF Inv, OpenFile
    <3> QED
      BY <2>0, <2>1, <3>1, ContentFacts DEF OpenFile, Inv, FromTheStart, WritingKey, Files
  <2>2. CASE FillFile
    <3>1. \A s \in Stages, f \in Files :
             disk'[s][f] = IF s = stage /\ f = Order[file] THEN Printed(response)
                           ELSE disk[s][f]
      BY <2>0, <2>2, DiskUpdate, PrintedType DEF Inv, FillFile
    <3> QED
      BY <2>0, <2>2, <3>1, ContentFacts DEF FillFile, Inv, FromTheStart, WritingKey, Files
  <2>3. CASE UNCHANGED disk
    BY <2>3
  <2> QED
    BY <2>1, <2>2, <2>3 DEF Next, Script, SkipStage, EnterStage, Login, Ask, Killed, vars
<1> QED
  BY Invariance, <1>1, PTL DEF Spec, IdentityKept

-----------------------------------------------------------------------------
(* A script that nothing disturbs: stage after stage, from the first file to *)
(* the last, with a token from the login on.                                 *)

StagesInOrder ==
    /\ pc # "started" /\ stage = "msp" => \A f \in Files : disk["tls"][f] = Absent
    /\ pc = "started" \/ stage = "tls" => \A f \in Files : IsGenuine(disk["msp"][f])
    /\ pc = "login" => stage = "msp"
    /\ pc = "test" => disk[stage]["key"] = Absent

FilesInOrder ==
    pc \in {"open", "fill"} =>
        /\ IsGenuine(response)
        /\ \A i \in 1 .. 3 : i < file => IsGenuine(disk[stage][Order[i]])

HasToken == pc \in {"ask", "open", "fill"} \/ stage = "tls" => token = TRUE

Undisturbed ==
    faults = 0 =>
        /\ StagesInOrder /\ FilesInOrder /\ HasToken
        /\ pc = "started" => Complete

\* The end of a stage whose files are all written.
LEMMA EndStageUndisturbed ==
    ASSUME Inv, Undisturbed, faults = 0, pc # "started",
           NEW last, last # Junk, EndStage(last),
           \A f \in Files : IsGenuine(disk'[stage][f]),
           \A s \in Stages \ {stage} : \A f \in Files : disk'[s][f] = disk[s][f],
           token = TRUE
    PROVE  Undisturbed'
<1>1. CASE stage = "msp"
  <2>1. pc' = "test" /\ stage' = "tls" /\ token' = token
    BY <1>1 DEF EndStage
  <2>2. StagesInOrder'
    BY <1>1, <2>1 DEF Undisturbed, StagesInOrder, Stages, Files
  <2> QED
    BY <2>1, <2>2 DEF Undisturbed, FilesInOrder, HasToken
<1>2. CASE stage = "tls"
  <2>1. pc' = "started" /\ stage' = "tls" /\ token' = token
    BY <1>2 DEF EndStage, ExitsWell
  <2>2. \A f \in Files : IsGenuine(disk'["msp"][f]) /\ IsGenuine(disk'["tls"][f])
    BY <1>2 DEF Undisturbed, StagesInOrder, Stages
  <2>3. Complete'
    BY <2>2 DEF Complete, Stages
  <2> QED
    BY <2>1, <2>2, <2>3 DEF Undisturbed, StagesInOrder, FilesInOrder, HasToken
<1> QED
  BY <1>1, <1>2 DEF Inv, Types, Stages

LEMMA UndisturbedInit == Init => Undisturbed
  BY DEF Init, Begin, Undisturbed, StagesInOrder, FilesInOrder, HasToken, Stages, Files

LEMMA UndisturbedStep == Inv /\ Undisturbed /\ [Next]_vars => Undisturbed'
<1> SUFFICES ASSUME Inv, Undisturbed, [Next]_vars, faults' = 0 PROVE Undisturbed'
  BY DEF Undisturbed
<1> USE DEF Undisturbed
<1>0. /\ file \in 1 .. 3 /\ stage \in Stages /\ faults \in Nat
      /\ Order[1] = "cert" /\ Order[2] = "key" /\ Order[3] = "ca"
  BY MaxFaultsAssumption DEF Inv, Types, Order
<1>a. ~Fault
  BY <1>0 DEF Fault
<1>1. CASE SkipStage
  <2>1. faults = 0 /\ pc = "test" /\ disk[stage]["key"] # Absent
    BY <1>1 DEF SkipStage, Marker
  <2> QED
    BY <2>1 DEF StagesInOrder
<1>2. CASE EnterStage
  <2>1. faults = 0 /\ pc = "test" /\ UNCHANGED <<disk, stage, token, faults>>
    BY <1>2 DEF EnterStage
  <2>2. \/ stage = "msp" /\ pc' = "login"
        \/ stage = "tls" /\ pc' = "ask" /\ token = TRUE
    BY <1>0, <1>2, <2>1 DEF EnterStage, HasToken, Stages
  <2>3. StagesInOrder'
    BY <2>1, <2>2 DEF StagesInOrder
  <2> QED
    BY <2>1, <2>2, <2>3 DEF FilesInOrder, HasToken
<1>3. CASE Login
  BY <1>a, <1>3 DEF Login, StagesInOrder, FilesInOrder, HasToken
<1>4. CASE Ask
  <2>1. /\ pc = "ask" /\ pc' = "open" /\ faults = 0 /\ token = TRUE
        /\ UNCHANGED <<disk, stage, file, token>>
    BY <1>a, <1>4 DEF Ask, HasToken
  <2>2. IsGenuine(response')
    BY <1>a, <1>4, <2>1 DEF Ask, IsGenuine, Genuine, Content
  <2>3. file = 1
    BY <2>1 DEF Inv, FromTheStart
  <2> QED
    BY <2>1, <2>2, <2>3 DEF StagesInOrder, FilesInOrder, HasToken
<1>5. CASE OpenFile
  <2>1. \A s \in Stages, f \in Files :
            disk'[s][f] = IF s = stage /\ f = Order[file] THEN Empty ELSE disk[s][f]
    BY <1>5, DiskUpdate, ContentFacts DEF Inv, OpenFile
  <2>2. /\ pc = "open" /\ pc' = "fill" /\ faults = 0
        /\ UNCHANGED <<stage, file, token, response>>
    BY <1>5 DEF OpenFile
  <2>3. StagesInOrder'
    BY <1>0, <2>1, <2>2 DEF StagesInOrder, Stages, Files
  <2>4. FilesInOrder'
    BY <1>0, <2>1, <2>2 DEF FilesInOrder, Files
  <2> QED
    BY <2>2, <2>3, <2>4 DEF HasToken
<1>6. CASE FillFile
  <2>1. \A s \in Stages, f \in Files :
            disk'[s][f] = IF s = stage /\ f = Order[file] THEN Printed(response)
                          ELSE disk[s][f]
    BY <1>6, DiskUpdate, PrintedType DEF Inv, Types, FillFile
  <2>2. pc = "fill" /\ faults = 0 /\ IsGenuine(response) /\ token = TRUE
    BY <1>6 DEF FillFile, FilesInOrder, HasToken
  <2>3. IsGenuine(Printed(response)) /\ response # Junk
    BY <2>2 DEF Printed, IsGenuine, Genuine, Junk, Content
  <2>4. CASE file < 3
    <3>1. /\ file' = file + 1 /\ pc' = "open"
          /\ UNCHANGED <<stage, token, response>>
      BY <1>0, <1>6, <2>4 DEF FillFile
    <3>2. StagesInOrder'
      BY <1>0, <2>1, <2>2, <3>1 DEF StagesInOrder, Stages, Files
    <3>3. FilesInOrder'
      BY <1>0, <2>1, <2>2, <2>3, <3>1 DEF FilesInOrder, Files
    <3> QED
      BY <2>2, <3>1, <3>2, <3>3 DEF HasToken
  <2>5. CASE file = 3
    <3>1. EndStage(response)
      BY <1>6, <2>5 DEF FillFile
    <3>2. \A f \in Files : IsGenuine(disk'[stage][f])
      BY <1>0, <2>1, <2>2, <2>3, <2>5 DEF FilesInOrder, Files
    <3> QED
      BY <2>1, <2>2, <2>3, <3>1, <3>2, EndStageUndisturbed
  <2> QED
    BY <1>0, <2>4, <2>5
<1>7. CASE Killed
  BY <1>a, <1>7 DEF Killed
<1>8. CASE UNCHANGED vars
  BY <1>8 DEF vars, StagesInOrder, FilesInOrder, HasToken, Complete
<1> QED
  BY <1>1, <1>2, <1>3, <1>4, <1>5, <1>6, <1>7, <1>8 DEF Next, Script

\* Whichever kind of node, GetInitContainer's script leaves all six files when
\* no call fails and nothing kills it.
THEOREM CompleteCorrect == Spec => []CompleteUnlessDisturbed
<1>1. Undisturbed => CompleteUnlessDisturbed
  BY DEF Undisturbed, CompleteUnlessDisturbed
<1> QED
  BY Invariance, UndisturbedInit, UndisturbedStep, <1>1, PTL DEF Spec
-----------------------------------------------------------------------------
(* What is left unused of the certificates issued.                           *)

Unused == {i \in 1 .. issued : ~InUse(i)}

LEMMA UnusedFinite == ASSUME Types PROVE IsFiniteSet(Unused) /\ Cardinality(Unused) \in Nat
<1>1. IsFiniteSet(1 .. issued)
  BY FS_Interval DEF Types
<1>2. Unused \in SUBSET (1 .. issued)
  BY DEF Unused
<1> QED
  BY <1>1, <1>2, FS_Subset, FS_CardinalityType

\* A step without a fault wastes nothing.
LEMMA NoWaste ==
    ASSUME Types, Types', NothingWasted, Unused' \subseteq Unused, faults' >= faults
    PROVE  NothingWasted'
<1>1. IsFiniteSet(Unused) /\ Cardinality(Unused) \in Nat
  BY UnusedFinite
<1>2. Cardinality(Unused') <= Cardinality(Unused) /\ Cardinality(Unused') \in Nat
  BY <1>1, FS_Subset, FS_CardinalityType
<1>3. faults \in Nat /\ faults' \in Nat
  BY MaxFaultsAssumption DEF Types
<1> QED
  BY <1>1, <1>2, <1>3 DEF NothingWasted, Unused

\* A step with one wastes one certificate at most.
LEMMA OneWasted ==
    ASSUME Types, Types', NothingWasted, NEW i, Unused' \subseteq Unused \cup {i}, Fault
    PROVE  NothingWasted'
<1>1. /\ IsFiniteSet(Unused \cup {i})
      /\ Cardinality(Unused \cup {i}) <= Cardinality(Unused) + 1
  BY UnusedFinite, FS_AddElement
<1>2. Cardinality(Unused') <= Cardinality(Unused \cup {i})
  BY <1>1, FS_Subset
<1>3. Cardinality(Unused) \in Nat /\ Cardinality(Unused \cup {i}) \in Nat
  BY <1>1, UnusedFinite, FS_CardinalityType
<1>4. IsFiniteSet(Unused') /\ Cardinality(Unused') \in Nat
  <2>1. IsFiniteSet(Unused')
    BY <1>1, FS_Subset
  <2> QED
    BY <2>1, FS_CardinalityType
<1>5. faults \in Nat /\ faults' = faults + 1
  BY MaxFaultsAssumption DEF Types, Fault
<1> QED
  BY <1>1, <1>2, <1>3, <1>4, <1>5 DEF NothingWasted, Unused

\* What is on the volume for a stage stays when a file other than a genuine key
\* is written.
LEMMA WasteStep ==
    ASSUME Inv, Inv', NothingWasted, [Next]_vars PROVE NothingWasted'
<1>0. Types /\ Types' /\ faults \in Nat
  BY MaxFaultsAssumption DEF Inv, Types
<1>f. \A i : Genuine(i) # Absent /\ Genuine(i) # Empty
  BY ContentFacts DEF Genuine, Absent, Empty, Content
<1>o. /\ file \in 1 .. 3 /\ stage \in Stages /\ response \in Responses
      /\ Order[1] = "cert" /\ Order[2] = "key" /\ Order[3] = "ca"
  BY DEF Inv, Types, Order
<1>1. CASE SkipStage
  <2>1. pc = "test" /\ UNCHANGED <<disk, issued, faults>>
    BY <1>1 DEF SkipStage
  <2>2. Unused' \subseteq Unused
    BY <2>1 DEF Unused, InUse
  <2> QED
    BY <1>0, <2>1, <2>2, NoWaste
<1>2. CASE EnterStage
  <2>1. pc = "test" /\ UNCHANGED <<disk, issued, faults>>
    BY <1>2 DEF EnterStage
  <2>2. Unused' \subseteq Unused
    BY <2>1 DEF Unused, InUse
  <2> QED
    BY <1>0, <2>1, <2>2, NoWaste
<1>3. CASE Login
  <2>1. pc = "login" /\ UNCHANGED <<disk, issued>> /\ faults' >= faults
    BY <1>0, <1>3 DEF Login, Fault
  <2>2. Unused' \subseteq Unused
    BY <2>1 DEF Unused, InUse
  <2> QED
    BY <1>0, <2>1, <2>2, NoWaste
<1>4. CASE Ask
  <2>1. pc = "ask" /\ pc' = "open" /\ UNCHANGED disk /\ issued \in Nat
    BY <1>0, <1>4 DEF Ask, Types
  <2>2. CASE UNCHANGED <<issued, faults>>
    <3>1. Unused' \subseteq Unused
      BY <2>1, <2>2 DEF Unused, InUse
    <3> QED
      BY <1>0, <2>2, <3>1, NoWaste
  <2>3. CASE response' = Genuine(issued + 1) /\ issued' = issued + 1 /\ UNCHANGED faults
    <3>1. Unused' \subseteq Unused
      BY <2>1, <2>3 DEF Unused, InUse
    <3> QED
      BY <1>0, <2>3, <3>1, NoWaste
  <2>4. CASE Fault /\ issued' \in {issued, issued + 1}
    <3>1. Unused' \subseteq Unused \cup {issued + 1}
      BY <2>1, <2>4 DEF Unused, InUse
    <3> QED
      BY <1>0, <2>4, <3>1, OneWasted
  <2> QED
    BY <1>4, <2>2, <2>3, <2>4 DEF Ask
<1>5. CASE OpenFile
  <2>1. \A s \in Stages, f \in Files :
            disk'[s][f] = IF s = stage /\ f = Order[file] THEN Empty ELSE disk[s][f]
    BY <1>0, <1>5, DiskUpdate, ContentFacts DEF OpenFile
  <2>2. pc = "open" /\ pc' = "fill" /\ UNCHANGED <<response, issued, faults>>
    BY <1>5 DEF OpenFile
  <2>3. \A s \in Stages, i \in Nat : disk[s]["key"] = Genuine(i) => disk'[s]["key"] = Genuine(i)
    BY <1>f, <1>o, <2>1, <2>2 DEF Inv, WritingKey, Files
  <2>4. Unused' \subseteq Unused
    BY <1>0, <2>2, <2>3 DEF Unused, InUse, Types
  <2> QED
    BY <1>0, <2>2, <2>4, NoWaste
<1>6. CASE FillFile
  <2>1. \A s \in Stages, f \in Files :
            disk'[s][f] = IF s = stage /\ f = Order[file] THEN Printed(response)
                          ELSE disk[s][f]
    BY <1>0, <1>6, DiskUpdate, PrintedType DEF Types, FillFile
  <2>2. pc = "fill" /\ UNCHANGED <<issued, faults>>
    BY <1>6 DEF FillFile
  <2>3. \A s \in Stages, i \in Nat : disk[s]["key"] = Genuine(i) => disk'[s]["key"] = Genuine(i)
    BY <1>f, <1>o, <2>1, <2>2 DEF Inv, WritingKey, Files
  <2>4. \A i \in Nat : response = Genuine(i) =>
            \/ disk'[stage]["key"] = Genuine(i)
            \/ pc' \in {"open", "fill"} /\ response' = response
    <3>1. \A i \in Nat : response = Genuine(i) => Printed(response) = Genuine(i)
      BY DEF Printed, Genuine, Content
    <3>2. CASE file < 3
      BY <1>o, <1>6, <3>2 DEF FillFile
    <3>3. CASE file = 3
      BY <1>o, <2>1, <2>2, <3>1, <3>3 DEF Inv, WritingCa, Files
    <3> QED
      BY <1>o, <3>2, <3>3
  <2>5. Unused' \subseteq Unused
    BY <1>0, <1>o, <2>2, <2>3, <2>4 DEF Unused, InUse, Types
  <2> QED
    BY <1>0, <2>2, <2>5, NoWaste
<1>7. CASE Killed
  <2>1. Fault /\ UNCHANGED <<disk, issued>>
    BY <1>7 DEF Killed
  <2>2. \A i \in Nat : response = Genuine(i) => i = response.serial
    BY DEF Genuine, Content
  <2>3. Unused' \subseteq Unused \cup {response.serial}
    BY <1>0, <2>1, <2>2 DEF Unused, InUse, Types
  <2> QED
    BY <1>0, <2>1, <2>3, OneWasted
<1>8. CASE UNCHANGED vars
  <2>1. UNCHANGED <<disk, pc, response, issued, faults>>
    BY <1>8 DEF vars
  <2>2. Unused' \subseteq Unused
    BY <2>1 DEF Unused, InUse
  <2> QED
    BY <1>0, <2>1, <2>2, NoWaste
<1> QED
  BY <1>1, <1>2, <1>3, <1>4, <1>5, <1>6, <1>7, <1>8 DEF Next, Script

\* For any number of faults GetInitContainer's script leaves at most as many of
\* the certificates it was issued unused: no retry asks again for what is there.
THEOREM NothingWastedHolds == Spec => []NothingWasted
<1>1. Init => NothingWasted
  <2> SUFFICES ASSUME Init PROVE NothingWasted
    OBVIOUS
  <2>1. {i \in 1 .. issued : ~InUse(i)} = {} /\ faults = 0
    BY DEF Init
  <2> QED
    BY <2>1, FS_EmptySet DEF NothingWasted
<1> QED
  BY <1>1, WasteStep, Invariance, PTL DEF Spec

-----------------------------------------------------------------------------
(* The refinement of NodeIdentity.                                           *)

\* The answer at hand, until its key is written, is the newest one, and no key
\* is newer.
Newest ==
    /\ \A s \in Stages : \A i \in Nat : disk[s]["key"] = Genuine(i) => i <= issued
    /\ pc \in {"open", "fill"} /\ file < 3 /\ IsGenuine(response) =>
           IF Stored THEN response = Genuine(0)
           ELSE /\ response = Genuine(issued) /\ issued > 0
                /\ \A s \in Stages : disk[s]["key"] # Genuine(issued)

LEMMA NewestInit == Init => Newest
  BY DEF Init, Begin, Newest, Genuine, Content, Absent, Stages, Files

\* Genuine contents are told by their serials.
LEMMA Serials ==
    /\ \A i, j : Genuine(i) = Genuine(j) => i = j
    /\ \A i : IsGenuine(Genuine(i)) /\ Genuine(i) # Absent /\ Genuine(i) # Empty
    /\ \A c \in Contents : IsGenuine(c) => c = Genuine(c.serial)
    /\ \A r \in Responses : IsGenuine(r) => r = Genuine(r.serial) /\ Printed(r) = r
    /\ \A r \in Responses : ~IsGenuine(r) => Printed(r) \in {Null, Empty}
    /\ \A r \in Failures : ~IsGenuine(r)
    /\ \A c \in {Absent, Empty, Null} : ~IsGenuine(c) /\ c.serial = 0
    /\ Null # Absent /\ Empty # Absent
  BY DEF Genuine, IsGenuine, Content, Contents, Responses, Printed, Failures, Errors, Nothing,
         Junk, Absent, Empty, Null

\* The files of a stage, where the script stands.
LEMMA Where ==
    ASSUME Types
    PROVE  /\ file \in 1 .. 3 /\ stage \in Stages /\ response \in Responses /\ issued \in Nat
           /\ Order[1] = "cert" /\ Order[2] = "key" /\ Order[3] = "ca"
  BY DEF Types, Order

\* A key is only changed by the step that opens its file and the one that
\* fills it.
LEMMA KeyChanges ==
    ASSUME Inv, [Next]_vars, NEW s \in Stages
    PROVE  disk'[s]["key"] =
             IF s = stage /\ file = 2 /\ OpenFile THEN Empty
             ELSE IF s = stage /\ file = 2 /\ FillFile THEN Printed(response)
             ELSE disk[s]["key"]
<1>0. Types
  BY DEF Inv
<1>1. CASE OpenFile
  <2>1. \A t \in Stages, f \in Files :
            disk'[t][f] = IF t = stage /\ f = Order[file] THEN Empty ELSE disk[t][f]
    BY <1>0, <1>1, DiskUpdate, ContentFacts DEF OpenFile
  <2> QED
    BY <1>0, <1>1, <2>1, Where DEF Files
<1>2. CASE FillFile
  <2>1. \A t \in Stages, f \in Files :
            disk'[t][f] = IF t = stage /\ f = Order[file] THEN Printed(response)
                          ELSE disk[t][f]
    BY <1>0, <1>2, DiskUpdate, PrintedType, Where DEF FillFile
  <2>2. ~OpenFile
    BY <1>2 DEF OpenFile, FillFile
  <2> QED
    BY <1>0, <1>2, <2>1, <2>2, Where DEF Files
<1>3. CASE ~OpenFile /\ ~FillFile
  <2>1. UNCHANGED disk
    BY <1>3 DEF Next, Script, SkipStage, EnterStage, Login, Ask, Killed, vars
  <2> QED
    BY <1>3, <2>1
<1> QED
  BY <1>1, <1>2, <1>3

LEMMA NewestStep == ASSUME Inv, Newest, [Next]_vars PROVE Newest'
<1> USE DEF Newest
<1>0. Types /\ issued \in Nat
  BY DEF Inv, Types
<1>1. CASE SkipStage \/ EnterStage \/ Login \/ Killed
  <2>1. UNCHANGED <<disk, issued>> /\ pc' \notin {"open", "fill"}
    BY <1>1 DEF SkipStage, EnterStage, Login, Killed, EndStage, Restarted
  <2> QED
    BY <2>1
<1>2. CASE Ask
  <2>1. /\ UNCHANGED <<nodeType, disk, stage, file>> /\ issued' \in {issued, issued + 1}
        /\ Stored' = Stored
    BY <1>2 DEF Ask, Stored
  <2>2. \/ ~IsGenuine(response')
        \/ Stored /\ response' = Genuine(0)
        \/ ~Stored /\ issued' = issued + 1 /\ response' = Genuine(issued')
    BY <1>2, Serials DEF Ask, Errors, Failures
  <2>3. \A s \in Stages : disk[s]["key"] # Genuine(issued + 1)
    BY <1>0, Serials
  <2> QED
    BY <1>0, <2>1, <2>2, <2>3
<1>3. CASE OpenFile
  <2>1. /\ UNCHANGED <<nodeType, stage, file, response, issued>> /\ pc = "open"
        /\ Stored' = Stored
    BY <1>3 DEF OpenFile, Stored
  <2>2. \A s \in Stages : disk'[s]["key"] \in {Empty, disk[s]["key"]}
    BY KeyChanges, <1>3 DEF OpenFile, FillFile
  <2> QED
    BY <2>1, <2>2, Serials
<1>4. CASE FillFile
  <2>1. pc = "fill" /\ UNCHANGED <<nodeType, issued>> /\ ~OpenFile
    BY <1>4 DEF FillFile, OpenFile
  <2>2. CASE file = 2
    <3>1. file' = 3
      BY <1>4, <2>2 DEF FillFile
    <3>2. \A i \in Nat : Printed(response) = Genuine(i) => i <= issued
      BY <1>0, <2>1, <2>2, Where, Serials
    <3> QED
      BY <2>1, <3>1, <3>2, KeyChanges
  <2>3. CASE file # 2
    <3>1. \A s \in Stages : disk'[s]["key"] = disk[s]["key"]
      BY <2>1, <2>3, KeyChanges
    <3>2. \/ pc' \notin {"open", "fill"}
          \/ file = 1 /\ UNCHANGED <<stage, response>>
      BY <1>0, <1>4, <2>3, Where DEF FillFile, EndStage, Restarted
    <3> QED
      BY <1>0, <2>1, <3>1, <3>2, Where DEF Stored
  <2> QED
    BY <2>2, <2>3
<1>5. CASE UNCHANGED vars
  BY <1>5 DEF vars, Stored
<1> QED
  BY <1>1, <1>2, <1>3, <1>4, <1>5 DEF Next, Script

\* A stage that is undecided has no key, or an empty one.
LEMMA UndecidedKey ==
    ASSUME Inv, NEW s \in Stages, Undecided(s)
    PROVE  disk[s]["key"] \in {Absent, Empty} /\ KeyOf(s) = Identity!None
<1>1. disk[s]["key"] \in {Absent, Empty}
  BY DEF Undecided, Inv, WritingKey
<1> QED
  BY <1>1, Serials DEF KeyOf, Identity!None, Identity!Key

\* Where the key is neither being written nor written, it is what it was.
LEMMA SameKeys ==
    ASSUME Inv, [Next]_vars, file # 2 \/ pc # "fill", file # 2 \/ ~OpenFile,
           NEW s \in Stages
    PROVE  KeyOf(s)' = KeyOf(s)
<1>1. disk'[s]["key"] = disk[s]["key"]
  BY KeyChanges DEF FillFile
<1>2. ~(pc' = "fill" /\ file' = 2)
  BY Where DEF Inv, Next, Script, SkipStage, EnterStage, Login, Ask, OpenFile, FillFile, Killed,
     EndStage, Restarted, vars
<1>3. Undecided(s)' <=> Undecided(s)
  BY <1>1, <1>2 DEF Undecided
<1> QED
  BY <1>1, <1>3 DEF KeyOf

\* A key that is opened is still to be decided.
LEMMA OpenKeys ==
    ASSUME Inv, Inv', OpenFile, file = 2, NEW s \in Stages PROVE KeyOf(s)' = KeyOf(s)
<1>1. CASE s = stage
  <2>1. Undecided(s) /\ Undecided(s)'
    BY <1>1 DEF OpenFile, Undecided, Inv, WritingKey
  <2>2. disk'[s]["key"] = Empty
    BY <1>1, KeyChanges DEF Next, Script
  <2>3. disk[s]["key"].serial = 0 /\ disk'[s]["key"].serial = 0
    BY <2>1, <2>2, UndecidedKey, Serials
  <2> QED
    BY <2>1, <2>3 DEF KeyOf
<1>2. CASE s # stage
  <2>1. disk'[s]["key"] = disk[s]["key"] /\ UNCHANGED stage
    BY <1>2, KeyChanges DEF OpenFile, FillFile, Next, Script
  <2> QED
    BY <1>2, <2>1 DEF KeyOf, Undecided
<1> QED
  BY <1>1, <1>2

\* What the script sees of a key in the abstract.
LEMMA KeyFacts ==
    ASSUME Types, NEW s \in Stages, ~Undecided(s)
    PROVE  /\ \A i \in Nat : disk[s]["key"] = Genuine(i) /\ i > 0 =>
                  KeyOf(s) = Identity!Issued(i)
           /\ disk[s]["key"] = Genuine(0) => KeyOf(s) = Identity!FromStore
           /\ disk[s]["key"] \in {Null, Empty} => KeyOf(s) = Identity!Useless
           /\ \A i \in Nat : KeyOf(s) = Identity!Issued(i) => disk[s]["key"] = Genuine(i)
<1>1. disk[s]["key"] \in Contents
  BY DEF Types, Files
<1> QED
  BY <1>1, Serials
  DEF KeyOf, Identity!Issued, Identity!FromStore, Identity!Useless, Identity!Key, Genuine, Content,
      IsGenuine

\* One stage is decided, and the others stay.
LEMMA DecideOne ==
    ASSUME NEW s \in Stages, NEW k, KeyOf(s) = Identity!None, KeyOf(s)' = k,
           \A t \in Stages \ {s} : KeyOf(t)' = KeyOf(t), UNCHANGED <<nodeType, issued>>
    PROVE  Identity!Decide(s, k)
  BY DEF Identity!Decide, StoredKeys

\* The step that fills the key's file decides the stage.
LEMMA FillKey ==
    ASSUME Inv, Newest, Undisturbed, Inv', FillFile, file = 2
    PROVE  \/ Identity!Adopt(stage) \/ Identity!Fetch(stage) \/ Identity!Spoil(stage)
<1>0. Types /\ Types' /\ stage \in Stages /\ response \in Responses /\ issued \in Nat
  BY Where DEF Inv
<1>1. /\ pc = "fill" /\ pc' = "open" /\ file' = 3
      /\ UNCHANGED <<nodeType, issued, faults, stage, response>>
  BY DEF FillFile
<1>2. /\ disk'[stage]["key"] = Printed(response)
      /\ \A t \in Stages \ {stage} : disk'[t]["key"] = disk[t]["key"]
  BY <1>0, <1>1, KeyChanges DEF Next, Script, OpenFile
<1>3. KeyOf(stage) = Identity!None
  BY <1>0, <1>1, UndecidedKey DEF Undecided
<1>4. \A t \in Stages \ {stage} : KeyOf(t)' = KeyOf(t)
  BY <1>1, <1>2 DEF KeyOf, Undecided
<1>5. CASE IsGenuine(response)
  <2>1. Printed(response) = response
    BY <1>0, <1>5, Serials
  <2>2. CASE Stored
    <3>1. KeyOf(stage)' = Identity!FromStore
      BY <1>1, <1>2, <1>5, <2>1, <2>2, Serials
      DEF Newest, KeyOf, Undecided, Identity!FromStore, Identity!Key, Genuine, Content
    <3> QED
      BY <1>0, <1>1, <1>3, <1>4, <2>2, <3>1, DecideOne DEF Identity!Fetch, Stored, StoredKeys
  <2>3. CASE ~Stored
    <3>1. /\ response = Genuine(issued) /\ issued > 0
          /\ \A t \in Stages : disk[t]["key"] # Genuine(issued)
      BY <1>1, <1>5, <2>3 DEF Newest
    <3>2. KeyOf(stage)' = Identity!Issued(issued)
      BY <1>0, <1>1, <1>2, <2>1, <3>1, Serials
      DEF KeyOf, Undecided, Identity!Issued, Identity!Key, Genuine, Content
    <3>3. \A t \in Stages : KeyOf(t) # Identity!Issued(issued)
      <4> SUFFICES ASSUME NEW t \in Stages PROVE KeyOf(t) # Identity!Issued(issued)
        OBVIOUS
      <4>1. CASE Undecided(t)
        BY <4>1, UndecidedKey DEF Identity!None, Identity!Issued, Identity!Key
      <4>2. CASE ~Undecided(t)
        BY <1>0, <3>1, <4>2, KeyFacts
      <4> QED
        BY <4>1, <4>2
    <3>4. stage \notin StoredKeys
      BY <2>3 DEF Stored, StoredKeys
    <3>5. Identity!Decide(stage, Identity!Issued(issued))
      BY <1>0, <1>1, <1>3, <1>4, <3>2, DecideOne
    <3> QED
      BY <1>1, <3>1, <3>3, <3>4, <3>5 DEF Identity!Adopt
  <2> QED
    BY <2>2, <2>3
<1>6. CASE ~IsGenuine(response)
  <2>1. Printed(response) \in {Null, Empty}
    BY <1>0, <1>6, Serials
  <2>2. KeyOf(stage)' = Identity!Useless
    BY <1>1, <1>2, <2>1, Serials DEF KeyOf, Undecided, Identity!Useless, Identity!Key
  <2>3. faults > 0 /\ faults' > 0
    BY <1>0, <1>1, <1>6, MaxFaultsAssumption DEF Undisturbed, FilesInOrder, Types
  <2> QED
    BY <1>0, <1>1, <1>3, <1>4, <2>2, <2>3, DecideOne DEF Identity!Spoil
<1> QED
  BY <1>5, <1>6

\* A kill while the key's file is open spoils the key.
LEMMA KillKey ==
    ASSUME Inv, Killed, pc = "fill", file = 2
    PROVE  \E s \in Stages : Identity!Spoil(s)
<1>1. /\ pc' = "test" /\ faults' > 0 /\ UNCHANGED <<nodeType, disk, issued>>
      /\ stage \in Stages
  BY MaxFaultsAssumption, Where DEF Killed, Restarted, Fault, Inv, Types
<1> PICK s \in Stages : s = stage
  BY <1>1
<1>2. KeyOf(s) = Identity!None
  BY UndecidedKey DEF Undecided
<1>3. disk[s]["key"] = Empty
  BY DEF Inv, WritingKey
<1>4. KeyOf(s)' = Identity!Useless
  BY <1>1, <1>3, Serials DEF KeyOf, Undecided, Identity!Useless, Identity!Key
<1>5. \A t \in Stages \ {s} : KeyOf(t)' = KeyOf(t)
  BY <1>1 DEF KeyOf, Undecided
<1> QED
  BY <1>1, <1>2, <1>4, <1>5, DecideOne DEF Identity!Spoil

\* Every step is one of NodeIdentity, or a stutter.
LEMMA NextIdentity ==
    ASSUME Inv, Inv', Newest, Undisturbed, [Next]_vars
    PROVE  [Identity!Next]_(Identity!vars)
<1>0. Types /\ Types' /\ stage \in Stages /\ faults \in Nat /\ issued \in Nat
  BY MaxFaultsAssumption, Where DEF Inv, Types
<1>1. CASE FillFile /\ file = 2
  BY <1>0, <1>1, FillKey DEF Identity!Next
<1>2. CASE Killed /\ pc = "fill" /\ file = 2
  BY <1>0, <1>2, KillKey DEF Identity!Next
<1>3. CASE ~(FillFile /\ file = 2) /\ ~(Killed /\ pc = "fill" /\ file = 2)
  <2>1. \A s \in Stages : KeyOf(s)' = KeyOf(s)
    <3>1. CASE OpenFile /\ file = 2
      BY <3>1, OpenKeys
    <3>2. CASE ~(OpenFile /\ file = 2) /\ (file # 2 \/ pc # "fill")
      BY <3>2, SameKeys
    <3>3. CASE file = 2 /\ pc = "fill"
      <4>1. UNCHANGED vars
        BY <1>3, <3>3 DEF Next, Script, SkipStage, EnterStage, Login, Ask, OpenFile
      <4> QED
        BY <4>1 DEF vars, KeyOf, Undecided
    <3> QED
      BY <3>1, <3>2, <3>3
  <2>2. UNCHANGED StoredKeys
    BY DEF StoredKeys, Next, Script, SkipStage, EnterStage, Login, Ask, OpenFile, FillFile,
       Killed, vars
  <2>3. \/ UNCHANGED <<issued, faults>>
        \/ issued' = issued + 1 /\ UNCHANGED faults
        \/ issued' \in {issued, issued + 1} /\ Fault
    BY DEF Next, Script, SkipStage, EnterStage, Login, Ask, OpenFile, FillFile, Killed, vars
  <2>4. Fault => faults' > 0
    BY <1>0 DEF Fault
  <2> QED
    BY <2>1, <2>2, <2>3, <2>4
    DEF Identity!Next, Identity!Issue, Identity!Disturb, Identity!vars
<1> QED
  BY <1>1, <1>2, <1>3

LEMMA InitIdentity == ASSUME Init PROVE Identity!Init
<1>1. \A s \in Stages : disk[s]["key"] = Absent /\ Undecided(s)
  BY DEF Init, Undecided, Stages, Files
<1>2. \A s \in Stages : KeyOf(s) = Identity!None
  BY <1>1, Serials DEF KeyOf, Identity!None, Identity!Key
<1>3. StoredKeys \in SUBSET Stages /\ issued = 0 /\ faults = 0
  BY DEF StoredKeys, Stages, Init
<1> QED
  BY <1>2, <1>3 DEF Identity!Init

\* For any number of faults the script gives a node its identity as
\* NodeIdentity promises: for each stage a key once, the newest that Vault
\* issued and not the other stage's or the stored one, and unless something
\* failed a usable one.
THEOREM IdentityPromised == Spec => KeepsIdentity
<1>1. Init => Identity!Init
  BY InitIdentity
<1>2. Spec => [](Newest /\ Undisturbed)
  <2>1. Inv /\ Newest /\ [Next]_vars => Newest'
    BY NewestStep
  <2> QED
    BY <2>1, NewestInit, UndisturbedInit, UndisturbedStep, Invariance, PTL DEF Spec
<1>3. Inv /\ Inv' /\ Newest /\ Undisturbed /\ [Next]_vars => [Identity!Next]_(Identity!vars)
  BY NextIdentity
<1> QED
  BY <1>1, <1>2, <1>3, Invariance, PTL DEF Spec, KeepsIdentity, Identity!Spec

=============================================================================
