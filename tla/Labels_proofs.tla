---------------------------- MODULE Labels_proofs ----------------------------
(***************************************************************************)
(* What one park does to the labels of an issue, for every label set it    *)
(* can find, when nobody else edits the issue and GitHub accepts the edit. *)
(***************************************************************************)
EXTENDS Labels, TLAPS

\* The state labels are told apart from each other and from the two markers.
LEMMA LabelsDiffer ==
  /\ Ready \notin {Done, Blocked, Failed} /\ Done \notin {Blocked, Failed} /\ Blocked # Failed
  /\ Progress \notin StateLabels /\ Merged \notin StateLabels
BY DEF Ready, Done, Blocked, Failed, Progress, Merged, StateLabels

\* Every label named in labels.py is a label.
LEMMA LabelNames ==
  /\ {Ready, Done, Blocked, Failed, Progress, Merged} \subseteq AllLabels
  /\ StateLabels \subseteq AllLabels /\ Excluded \subseteq StateLabels
BY DEF AllLabels, StateLabels, Excluded

\* An edit with labels leaves labels.
LEMMA EditTypes ==
  ASSUME NEW L \in SUBSET AllLabels, NEW add \in SUBSET AllLabels, NEW remove
  PROVE  Edit(L, add, remove) \in SUBSET AllLabels
BY DEF Edit

\* The edit of a park, whatever it saw: it adds at most one state label, and
\* takes agent-in-progress away and otherwise state labels only.
LEMMA ParkEditShape ==
  ASSUME NEW class \in ParkClasses, NEW L, NEW readable \in BOOLEAN, NEW exhausted \in BOOLEAN
  PROVE  /\ ParkAdd(class, readable, L, exhausted) \in {{}, {Ready}, {Failed}}
         /\ Progress \notin ParkAdd(class, readable, L, exhausted)
         /\ Progress \in ParkRemove(class, readable, L, exhausted)
         /\ ParkRemove(class, readable, L, exhausted) \subseteq StateLabels \cup {Progress}
<1>1. ParkAdd(class, readable, L, exhausted) \in {{}, {Ready}, {Failed}}
  BY DEF ParkAdd, ParkClasses
<1>2. Progress \notin {Ready, Failed}
  BY DEF Progress, Ready, Failed
<1>3. /\ Progress \in ParkRemove(class, readable, L, exhausted)
      /\ ParkRemove(class, readable, L, exhausted) \subseteq StateLabels \cup {Progress}
  BY DEF ParkRemove
<1> QED
  BY <1>1, <1>2, <1>3

\* A park that neither charges nor converges the issue leaves its states alone.
LEMMA OtherParksKeepState ==
  ASSUME NEW class \in {"UNCHARGED", "STATE_INTACT", "UNKNOWN_STATE"}, NEW L \in SUBSET AllLabels,
         NEW readable \in BOOLEAN, NEW exhausted \in BOOLEAN,
         class = "UNCHARGED" => ~ readable \/ L \cap StateLabels # {}
  PROVE  Parked(class, readable, L, exhausted) \cap StateLabels = L \cap StateLabels
<1>1. ParkAdd(class, readable, L, exhausted) = {}
  BY DEF ParkAdd
<1>2. ParkRemove(class, readable, L, exhausted) = {Progress}
  BY DEF ParkRemove
<1> QED
  BY <1>1, <1>2, LabelsDiffer DEF Parked, Edit

\* No park, of whatever class, leaves agent-in-progress on the issue, and none
\* takes the durable agent-merged marker away (park.py computes both lists).
THEOREM ParkClearsProgress ==
  ASSUME NEW class \in ParkClasses, NEW L \in SUBSET AllLabels,
         NEW readable \in BOOLEAN, NEW exhausted \in BOOLEAN
  PROVE  /\ Progress \notin Parked(class, readable, L, exhausted)
         /\ Merged \in L => Merged \in Parked(class, readable, L, exhausted)
<1> DEFINE add == ParkAdd(class, readable, L, exhausted)
           remove == ParkRemove(class, readable, L, exhausted)
<1>1. add \subseteq StateLabels
  BY DEF ParkAdd, ParkClasses, StateLabels
<1>2. Progress \in remove /\ remove \subseteq StateLabels \cup {Progress}
  BY DEF ParkRemove
<1>3. Progress # Merged
  BY DEF Progress, Merged
<1> QED
  BY <1>1, <1>2, <1>3, LabelsDiffer DEF Parked, Edit

\* A charged or terminal park ends in exactly one state label, whichever labels
\* it found and whether or not it could read them.
THEOREM ChargedParkHasOneState ==
  ASSUME NEW class \in {"CHARGED", "TERMINAL"}, NEW L \in SUBSET AllLabels,
         NEW readable \in BOOLEAN, NEW exhausted \in BOOLEAN
  PROVE  SingleState(Parked(class, readable, L, exhausted))
<1> DEFINE target == IF class = "CHARGED" /\ ~ exhausted THEN Ready ELSE Failed
           remove == ParkRemove(class, readable, L, exhausted)
<1>1. ParkAdd(class, readable, L, exhausted) = {target} /\ target \in StateLabels
  BY DEF ParkAdd, StateLabels
<1>2. (L \cap StateLabels) \ {target} \subseteq remove
  BY <1>1 DEF ParkRemove
<1>3. Parked(class, readable, L, exhausted) \cap StateLabels = {target}
  BY <1>1, <1>2 DEF Parked, Edit
<1> QED
  BY <1>1, <1>3 DEF SingleState

\* An uncharged park that could read the labels leaves some state: it converges
\* a bare issue to agent-ready and keeps every state label that was there.
THEOREM UnchargedParkKeepsState ==
  ASSUME NEW L \in SUBSET AllLabels, NEW exhausted \in BOOLEAN
  PROVE  Parked("UNCHARGED", TRUE, L, exhausted) \cap StateLabels =
           IF L \cap StateLabels = {} THEN {Ready} ELSE L \cap StateLabels
<1> DEFINE add == IF L \cap StateLabels = {} THEN {Ready} ELSE {}
<1>1. ParkAdd("UNCHARGED", TRUE, L, exhausted) = add
  BY DEF ParkAdd
<1>2. ParkRemove("UNCHARGED", TRUE, L, exhausted) = {Progress}
  BY DEF ParkRemove
<1>3. Ready \in StateLabels
  BY DEF StateLabels
<1> QED
  BY <1>1, <1>2, <1>3, LabelsDiffer DEF Parked, Edit
=============================================================================
