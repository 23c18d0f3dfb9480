-------------------------- MODULE NodePromiseProofs --------------------------
(* What NodePromise means to the owner of a node, proved of the promise      *)
(* alone: whatever keeps it keeps this too.                                  *)
EXTENDS NodePromise, TLAPS

\* A CR that is there and says Running has everything it needs and is in DNS,
\* also while a further spec is still being applied.
RunningIsServed == alive /\ state = "Running" => published /\ exist = Objects

\* Nothing of a CR that is there is taken away again.
NothingTaken == [][alive' => exist \subseteq exist' /\ (published => published')]_vars

\* An object that is as the spec wants it is there.
AppliedExists == applied \subseteq exist /\ exist \subseteq Objects

Inv == AppliedExists /\ RunningIsServed

LEMMA InvStep == ASSUME Inv, [Next]_vars PROVE Inv'
<1> USE DEF Inv, AppliedExists, RunningIsServed
<1>1. CASE Ask
  BY <1>1 DEF Ask
<1>2. CASE Publish
  BY <1>2 DEF Publish
<1>3. CASE Delete
  BY <1>3 DEF Delete
<1>4. ASSUME NEW st \in States, Report(st) PROVE Inv'
  BY <1>4 DEF Report
<1>5. ASSUME NEW o \in Objects, Apply(o) PROVE Inv'
  BY <1>5 DEF Apply
<1>6. ASSUME NEW o \in Objects, Disturb(o) PROVE Inv'
  BY <1>6 DEF Disturb
<1>7. ASSUME NEW o \in Owned, Collect(o) PROVE Inv'
  BY <1>7 DEF Collect
<1>8. CASE UNCHANGED vars
  BY <1>8 DEF vars
<1> QED
  BY <1>1, <1>2, <1>3, <1>4, <1>5, <1>6, <1>7, <1>8 DEF Next

\* Whatever keeps the promise tells a CR Running only when all of it is served.
THEOREM PromiseServes == Spec => []RunningIsServed
<1>1. Init => Inv
  BY DEF Init, Inv, AppliedExists, RunningIsServed
<1>2. Inv => RunningIsServed
  BY DEF Inv
<1> QED
  BY <1>1, <1>2, InvStep, PTL DEF Spec

\* Whatever keeps the promise takes nothing from a CR that is there.
THEOREM PromiseTakesNothing == Spec => NothingTaken
<1> DEFINE Kept == exist \subseteq exist' /\ (published => published')
<1>1. ASSUME Next PROVE alive' => Kept
  <2>1. CASE Ask \/ Publish \/ Delete \/ \E st \in States : Report(st)
    BY <2>1 DEF Ask, Publish, Delete, Report
  <2>2. ASSUME NEW o \in Objects, Apply(o) PROVE Kept
    BY <2>2 DEF Apply
  <2>3. ASSUME NEW o, Disturb(o) \/ Collect(o) PROVE ~alive'
    BY Zenon, <2>3 DEF Disturb, Collect
  <2> QED
    BY <1>1, <2>1, <2>2, <2>3 DEF Next
<1> QED
  BY <1>1, PTL DEF Spec, NothingTaken
==============================================================================
