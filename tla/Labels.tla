------------------------------- MODULE Labels -------------------------------
(***************************************************************************)
(* The issue labels of the harness and the pure decisions taken on them:   *)
(* chain/labels.py (state labels, the single-state check, the reconciler), *)
(* the dispatch exclusion of chain/daemon/__init__.py, and the label edit  *)
(* that chain/daemon/park.py computes for each class of park.  GitHub      *)
(* applies one `gh issue edit' as a whole or refuses it as a whole;        *)
(* removing an absent label or adding a present one changes nothing.       *)
(***************************************************************************)

Ready    == "agent-ready"
Done     == "agent-done"
Blocked  == "blocked"
Failed   == "agent-failed"
Progress == "agent-in-progress"     \* not a state label
Merged   == "agent-merged"          \* not a state label

StateLabels == {Ready, Done, Blocked, Failed}
AllLabels   == StateLabels \cup {Progress, Merged}

\* _DISPATCH_EXCLUDE_LABELS
Excluded == {Blocked, Failed}

\* assert_single_state returns None.
SingleState(L) == \E s \in StateLabels : L \cap StateLabels = {s}

TargetState(blocked, prOpen) ==
  IF blocked THEN Blocked ELSE IF prOpen THEN Done ELSE Ready

Edit(L, add, remove) == (L \ remove) \cup add

-----------------------------------------------------------------------------
ParkClasses == {"CHARGED", "UNCHARGED", "STATE_INTACT", "UNKNOWN_STATE", "TERMINAL"}

\* The label a park moves the issue to, as a set of at most one label.  L is
\* the label set park_issue fetched, and means nothing unless readable.
ParkAdd(class, readable, L, exhausted) ==
  CASE class = "CHARGED"   -> {IF exhausted THEN Failed ELSE Ready}
    [] class = "TERMINAL"  -> {Failed}
    [] class = "UNCHARGED" -> IF readable /\ L \cap StateLabels = {} THEN {Ready} ELSE {}
    [] OTHER               -> {}

\* Mutant of ParkRemove: a park leaves agent-in-progress on.
ParkRemoveStates(class, readable, L, exhausted) ==
  IF class \in {"CHARGED", "TERMINAL"}
    THEN (IF readable THEN L \cap StateLabels ELSE StateLabels)
            \ ParkAdd(class, readable, L, exhausted)
    ELSE {}

\* Every park takes agent-in-progress away.  Charged and terminal parks also
\* take the state labels they saw, or all the others when they saw none.
ParkRemove(class, readable, L, exhausted) ==
  {Progress} \cup
  (IF class \in {"CHARGED", "TERMINAL"}
     THEN (IF readable THEN L \cap StateLabels ELSE StateLabels)
             \ ParkAdd(class, readable, L, exhausted)
     ELSE {})

\* The labels after a park of an issue nobody else touched meanwhile.
Parked(class, readable, L, exhausted) ==
  Edit(L, ParkAdd(class, readable, L, exhausted), ParkRemove(class, readable, L, exhausted))
=============================================================================
