--------------------------- MODULE PollLoop_proofs ---------------------------
(***************************************************************************)
(* Safety of the poll loop for every set of issues, every assignment of    *)
(* milestones and any number of troubles.  The inductive invariant follows *)
(* one tick from listing to sweep:                                         *)
(*   - outside of a tick nothing is left of one, and each phase finds the  *)
(*     other phases' state empty: PhaseOK;                                 *)
(*   - a unit that is owed has run, was kept back, is in hand or still     *)
(*     belongs to a remaining issue or orphan, and no two phases take the  *)
(*     same unit: ServedOK;                                                *)
(*   - what is greenlit and dispatchable now, or was read so since the     *)
(*     last unit ended, counts as live: LiveOK;                            *)
(*   - the marker file tells how the last run at work ended: MarkerOK;     *)
(*   - each probe of a worktree narrows down what of the work that was     *)
(*     there before can still be unsaved, and nothing that is done to the  *)
(*     worktree meanwhile takes that back: ExamOK.                         *)
(***************************************************************************)
EXTENDS PollLoop, WellFoundedInduction, TLAPS

Units(S) == {UnitOf(n) : n \in S}

\* Outside of the loop, and in the sweep.
Down     == {"down", "look", "write", "started", "handler", "stopping"}
Sweeping == {"sweep"} \cup Probing

\* Nothing of a tick is left.
NoTickLeft ==
  /\ ready = {} /\ unread = {} /\ remaining = {} /\ drained = FALSE /\ unit = NoUnit
  /\ doneUnits = {} /\ orphans = {} /\ seen = {} /\ scan = {}
  /\ due = {} /\ ran = {} /\ skipped = {} /\ cut = FALSE

UnitOK ==
  /\ unit = [id |-> unit.id, members |-> unit.members, greenlit |-> unit.greenlit, todo |-> unit.todo]
  /\ pc \in {"recheck", "select", "orphan"} => unit = NoUnit

PhaseOK ==
  /\ pc \in Down \cup {"tick"} => NoTickLeft
  /\ pc = "recheck" => /\ remaining = {} /\ doneUnits = {} /\ due = {} /\ ran = {} /\ skipped = {}
                       /\ drained = FALSE
  /\ pc \in {"recheck", "select"} => seen = {} /\ orphans = {}
  /\ pc \in {"check", "unit"} /\ seen = {} => orphans = {} /\ drained
  /\ pc \in {"orphan"} \cup Sweeping \/ seen # {} => remaining = {} /\ unread = {}
  /\ pc \notin {"recheck", "check"} => unread = {}
  /\ pc \in Sweeping => orphans = {}
  /\ pc # "sleep" => cut = FALSE

InHand == IF pc = "check" THEN {unit.id} ELSE {}
Pending == InHand \cup Units(remaining) \cup Units(orphans)

ServedOK ==
  /\ due \subseteq ran \cup skipped \cup Pending \/ pc = "recheck" \/ (pc = "sleep" /\ cut)
  /\ AllServed
  /\ doneUnits \cup seen \subseteq ran \cup skipped \cup InHand
  /\ InHand \subseteq doneUnits \cup seen
  /\ ran \subseteq doneUnits \cup seen
  /\ Units(remaining) \cap doneUnits = {}
  /\ InHand \cap ran = {}

LiveOK ==
  /\ pc \in Working \ {"tick"} => \A n \in ready : Dispatchable(n) => n \in live
  /\ pc \in {"recheck", "select"} /\ ~ drained => ready \subseteq live
  /\ pc = "check" /\ seen = {} => (unit.members \cap ready) \ unread \subseteq live

MarkerOK ==
  "marker" \notin happened =>
    /\ pc \in {"down", "look", "write"} => (marker <=> prior = "killed")
    /\ pc \in {"write", "started"} \cup Working => (told <=> prior = "killed")
    /\ pc \in {"started", "handler"} \cup Working => marker = TRUE
    /\ pc = "stopping" => marker = FALSE

ExamOK ==
  /\ \A n \in Issues : wt[n] # {} => "tree" \in wt[n]
  /\ pc \notin Probing => exam = {} /\ old = {}
  /\ \A n \in exam : old \subseteq wt[n] /\ exam = {n}
  /\ exam = {} => old = {}
  /\ "status" \notin happened =>
       /\ pc = "ahead" => "edits" \notin old
       /\ pc = "remove" => old = {}

IInv ==
  /\ TypeOK /\ happened \subseteq {"marker", "status"}
  /\ UnitOK /\ PhaseOK /\ ServedOK /\ LiveOK /\ MarkerOK /\ ExamOK

\* The steps of the process, between two ticks or instead of one.
Control == Process \/ Terminate \/ Killed

-----------------------------------------------------------------------------
(* Lemmas about the operators.                                             *)

\* The lowest member of a set of numbers is one of its members: the selection
\* of _select_work_unit is never empty-handed.
LEMMA MinIsMember ==
  ASSUME NEW S \in SUBSET Nat, S # {}
  PROVE  Min(S) \in S
<1>1. PICK x \in S : \A y \in S : <<y, x>> \notin OpToRel(<, Nat)
  BY NatLessThanWellFounded, WFMin, Zenon
<1>2. \A y \in S : x =< y
  <2> TAKE y \in S
  <2>1. ~ (y < x)
    BY <1>1 DEF OpToRel
  <2> QED
    BY <2>1
<1> QED
  BY <1>2 DEF Min

\* Every issue belongs to the unit that UnitOf gives it.
LEMMA UnitsContain ==
  \A S : \A n \in S : UnitOf(n) \in Units(S)
BY DEF Units

\* What _select_work_unit selects is the unit of a remaining issue.
LEMMA SelectedRemains ==
  ASSUME remaining \subseteq Issues, remaining # {}
  PROVE  Selected \in Units(remaining)
<1> DEFINE milestones == {MilestoneOf[n] : n \in remaining} \ {0}
<1>1. CASE milestones # {}
  <2>1. Min(milestones) \in milestones
    <3>1. milestones \in SUBSET Nat
      BY PollConstantsOK
    <3> QED
      BY <1>1, <3>1, MinIsMember
  <2>2. PICK n \in remaining : MilestoneOf[n] = Min(milestones) /\ MilestoneOf[n] # 0
    BY <2>1
  <2>3. Selected = UnitOf(n)
    BY <1>1, <2>2 DEF Selected, UnitOf
  <2> QED
    BY <2>3, UnitsContain
<1>2. CASE milestones = {}
  <2>1. Min(remaining) \in remaining
    BY MinIsMember, PollConstantsOK
  <2>2. MilestoneOf[Min(remaining)] = 0
    BY <1>2, <2>1
  <2>3. Selected = UnitOf(Min(remaining))
    BY <1>2, <2>2 DEF Selected, UnitOf
  <2> QED
    BY <2>1, <2>3, UnitsContain
<1> QED
  BY <1>1, <1>2

\* Listing the members of a unit sets its identity and members, and nothing
\* else of the record.
LEMMA MembershipShape ==
  ASSUME unit = NoUnit, NEW u, NEW known \in SUBSET Issues, Membership(u, known)
  PROVE  /\ unit' = [id |-> u, members |-> unit'.members, greenlit |-> {}, todo |-> {}]
         /\ unit'.members \subseteq Issues
         /\ happened \subseteq happened' /\ happened' \subseteq happened \cup {"marker", "status"}
<1> USE DEF Members, Works, Fails, Strikes, trouble
<1>1. Members(u) \cap open \subseteq Issues
  OBVIOUS
<1>2. \/ unit' = [unit EXCEPT !.id = u, !.members = known]
      \/ unit' = [unit EXCEPT !.id = u, !.members = Members(u) \cap open]
  BY DEF Membership
<1>3. happened \subseteq happened' /\ happened' \subseteq happened \cup {"marker", "status"}
  BY DEF Membership
<1> QED
  BY <1>1, <1>2, <1>3 DEF NoUnit

-----------------------------------------------------------------------------
(* Each part of the invariant is preserved by every action.                *)

LEMMA InitIInv == Init => IInv
<1> SUFFICES ASSUME Init PROVE IInv
  OBVIOUS
<1>1. labels \in [Issues -> SUBSET AllLabels]
  <2>1. {Ready} \subseteq AllLabels /\ {Progress} \subseteq AllLabels
    BY DEF AllLabels, StateLabels, Ready, Progress
  <2> QED
    BY <2>1 DEF Init
<1>2. open \subseteq Issues /\ wt \in [Issues -> Contents]
  BY PollConstantsOK DEF Init, Contents
<1>3. TypeOK
  BY <1>1, <1>2 DEF Init, TypeOK, NoUnit, Working
<1>4. UnitOK /\ PhaseOK /\ LiveOK /\ MarkerOK /\ ExamOK
  <2>1. \A n \in Issues : wt[n] # {} => "tree" \in wt[n]
    BY PollConstantsOK DEF Init
  <2> QED
    BY <2>1 DEF Init, UnitOK, PhaseOK, NoTickLeft, LiveOK, MarkerOK, ExamOK, NoUnit, Working,
       Probing, Down, Sweeping
<1>5. ServedOK
  BY DEF Init, ServedOK, AllServed, Pending, InHand, Units
<1> QED
  BY <1>3, <1>4, <1>5 DEF Init, IInv

\* Every label that the daemon or a human writes is one of the harness's.
LEMMA LabelsKnown ==
  ASSUME TypeOK, NEW n \in Issues
  PROVE  /\ [labels EXCEPT ![n] = @ \ {Progress}] \in [Issues -> SUBSET AllLabels]
         /\ \A left \in {{Ready}, {Progress}, {Blocked}} :
              [labels EXCEPT ![n] = left] \in [Issues -> SUBSET AllLabels]
         /\ [labels EXCEPT ![n] = (@ \cup {Ready}) \ Excluded] \in [Issues -> SUBSET AllLabels]
         /\ [labels EXCEPT ![n] = @ \ {Ready}] \in [Issues -> SUBSET AllLabels]
         /\ [labels EXCEPT ![n] = @ \cup {Blocked}] \in [Issues -> SUBSET AllLabels]
<1>1. Ready \in AllLabels /\ Progress \in AllLabels /\ Blocked \in AllLabels
  BY DEF AllLabels, StateLabels
<1>2. labels[n] \subseteq AllLabels
  BY DEF TypeOK
<1>3. \A L \in SUBSET AllLabels : [labels EXCEPT ![n] = L] \in [Issues -> SUBSET AllLabels]
  BY DEF TypeOK
<1> QED
  BY <1>1, <1>2, <1>3

LEMMA TypesNext ==
  ASSUME IInv, [Next]_vars
  PROVE  TypeOK' /\ UnitOK' /\ (happened \subseteq {"marker", "status"})'
<1> USE DEF IInv, Works, Fails, Strikes, trouble, Goto, InTick, process, sweep, Working, Probing
<1> DEFINE Kept == happened' \subseteq {"marker", "status"}
<1>1. CASE Snapshot
  <2>1. ready' \subseteq Issues /\ unread' \subseteq ready' /\ remaining' \subseteq ready'
    BY <1>1 DEF Snapshot, TypeOK, PhaseOK, NoTickLeft
  <2>2. UnitOK'
    BY <1>1 DEF Snapshot, UnitOK, PhaseOK, NoTickLeft
  <2> QED
    BY <1>1, <2>1, <2>2 DEF Snapshot, CutShort, TypeOK, orphan, tally, ends
<1>2. CASE Recheck
  <2>1. labels' \in [Issues -> SUBSET AllLabels]
    BY <1>2, LabelsKnown DEF Recheck, TypeOK
  <2>2. ready' \subseteq Issues /\ unread' \subseteq ready' /\ remaining' \subseteq ready'
    BY <1>2 DEF Recheck, TypeOK, PhaseOK
  <2> QED
    BY <1>2, <2>1, <2>2 DEF Recheck, TypeOK, UnitOK, orphan, tally, ends
<1>3. CASE BeginDrain
  BY <1>3 DEF BeginDrain, TypeOK, UnitOK, orphan, ends
<1>4. CASE Select
  <2>1. Members(Selected) \cap remaining \subseteq Issues /\ unit = NoUnit
    BY <1>4 DEF Select, Members, UnitOK
  <2>2. /\ unit' = [id |-> Selected, members |-> unit'.members, greenlit |-> {}, todo |-> {}]
        /\ unit'.members \subseteq Issues /\ Kept
    BY <1>4, <2>1, MembershipShape DEF Select
  <2>3. unit'.todo \subseteq unit'.members /\ unread' \subseteq ready' /\ remaining' \subseteq ready'
    BY <1>4, <2>2 DEF Select, TypeOK
  <2>4. UnitOK'
    BY <1>4, <2>2 DEF Select, UnitOK
  <2> QED
    BY <1>4, <2>2, <2>3, <2>4 DEF Select, TypeOK, orphan, tally, ends
<1>5. CASE MidDrain
  <2>1. UnitOK' /\ unit'.members \subseteq Issues /\ unit'.todo \subseteq unit'.members
    BY <1>5 DEF MidDrain, UnitOK, TypeOK, NoUnit
  <2>2. unread' \subseteq ready' /\ Kept
    BY <1>5 DEF MidDrain, TypeOK, drain
  <2> QED
    BY <1>5, <2>1, <2>2 DEF MidDrain, TypeOK, drain, orphan, ends
<1>6. CASE StartUnit
  <2>1. unit' = [id |-> unit.id, members |-> unit.members,
                 greenlit |-> unit'.greenlit, todo |-> unit.members]
    BY <1>6 DEF StartUnit, UnitOK
  <2> QED
    BY <1>6, <2>1 DEF StartUnit, TypeOK, UnitOK, drain, orphan, ends
<1>7. CASE WorkOn
  <2>1. PICK n \in unit.todo : /\ \E left \in {{Ready}, {Progress}, {Blocked}} :
                                    labels' = [labels EXCEPT ![n] = left]
                               /\ \E w \in Left : wt' = [wt EXCEPT ![n] = w]
                               /\ unit' = [unit EXCEPT !.todo = @ \ {n}]
    BY <1>7 DEF WorkOn
  <2>2. n \in Issues
    BY <2>1 DEF TypeOK
  <2>3. labels' \in [Issues -> SUBSET AllLabels]
    BY <2>1, <2>2, LabelsKnown
  <2>4. wt' \in [Issues -> Contents]
    BY <2>1, <2>2, PollConstantsOK DEF TypeOK
  <2>5. unit' = [id |-> unit.id, members |-> unit.members,
                 greenlit |-> unit.greenlit, todo |-> unit.todo \ {n}]
    BY <2>1 DEF UnitOK
  <2> QED
    BY <1>7, <2>3, <2>4, <2>5 DEF WorkOn, TypeOK, UnitOK, drain, orphan, tally, ends
<1>8. CASE EndUnit
  BY <1>8 DEF EndUnit, CutShort, TypeOK, UnitOK, NoUnit, drain, orphan, tally
<1>9. CASE ListOrphans
  BY <1>9 DEF ListOrphans, CutShort, TypeOK, UnitOK, drain
<1>10. CASE NextOrphan
  <2>1. PICK n \in orphans :
          \/ orphans' = orphans \ {n} /\ Works /\ UNCHANGED <<pc, unit, seen>>
          \/ Membership(UnitOf(n), {n}) /\ Goto("check") /\ UNCHANGED orphans
    BY <1>10 DEF NextOrphan
  <2>2. unit = NoUnit /\ {n} \subseteq Issues
    BY <1>10, <2>1 DEF NextOrphan, UnitOK, TypeOK
  <2>3. UnitOK' /\ unit'.members \subseteq Issues /\ unit'.todo \subseteq unit'.members /\ Kept
    <3>1. CASE orphans' = orphans \ {n} /\ Works /\ UNCHANGED <<pc, unit, seen>>
      BY <3>1 DEF UnitOK, TypeOK
    <3>2. CASE Membership(UnitOf(n), {n}) /\ Goto("check") /\ UNCHANGED orphans
      <4>1. /\ unit' = [id |-> UnitOf(n), members |-> unit'.members, greenlit |-> {}, todo |-> {}]
            /\ unit'.members \subseteq Issues /\ Kept
        BY <2>2, <3>2, MembershipShape
      <4>2. unit'.todo = {}
        BY <4>1
      <4> QED
        BY <3>2, <4>1, <4>2 DEF UnitOK
    <3> QED
      BY <2>1, <3>1, <3>2
  <2> QED
    BY <1>10, <2>1, <2>3 DEF NextOrphan, TypeOK, drain, tally, ends
<1>11. CASE BeginSweep
  <2>1. \A numbered \in Numbered : numbered \subseteq Issues
    BY DEF Numbered
  <2>2. scan' \subseteq Issues
    BY <1>11, <2>1 DEF BeginSweep, TypeOK
  <2> QED
    BY <1>11, <2>2 DEF BeginSweep, TypeOK, UnitOK, drain, orphan, tally
<1>12. CASE View
  <2>1. pc' \in Working /\ exam' \subseteq Issues /\ old' \subseteq Unsaved
    BY <1>12 DEF View, TypeOK, Unsaved
  <2> QED
    BY <1>12, <2>1 DEF View, TypeOK, UnitOK, world, drain, orphan, tally, ends
<1>17. CASE Status \/ Ahead
  BY <1>17 DEF Status, Ahead, Examined, InSweep, TypeOK, UnitOK, drain, orphan, tally, ends
<1>18. CASE Remove
  <2>1. wt' \in [Issues -> Contents]
    BY <1>18 DEF Remove, TypeOK, Contents
  <2> QED
    BY <1>18, <2>1 DEF Remove, Examined, InSweep, TypeOK, UnitOK, drain, orphan, tally, ends
<1>19. CASE Stray
  <2>1. wt' \in [Issues -> Contents] /\ old' \subseteq Unsaved
    BY <1>19 DEF Stray, TypeOK, Contents, Unsaved
  <2> QED
    BY <1>19, <2>1 DEF Stray, TypeOK, UnitOK, drain, orphan, tally, ends
<1>13. CASE EndSweep
  BY <1>13 DEF EndSweep, TypeOK, UnitOK, drain, orphan, tally, ends
<1>14. CASE Control
  <2>1. NoTick /\ UNCHANGED world /\ Kept
    BY <1>14 DEF Control, Process, Killed, Boot, Look, Write, Start, Sleep, Unlink, Exit, Terminate,
       KillStarting, Kill, KillStopping
  <2>2. marker' \in BOOLEAN /\ told' \in BOOLEAN /\ prior' \in {"clean", "killed", "late"}
    BY <1>14 DEF Control, Process, Killed, Boot, Look, Write, Start, Sleep, Unlink, Exit, Terminate,
       KillStarting, Kill, KillStopping, TypeOK
  <2>3. pc' \in Working \cup Down
    BY <1>14 DEF Down, Control, Process, Killed, Boot, Look, Write, Start, Sleep, Unlink, Exit, Terminate,
       KillStarting, Kill, KillStopping
  <2> QED
    BY <2>1, <2>2, <2>3 DEF NoTick, NoUnit, world, TypeOK, UnitOK, Down
<1>15. CASE Human
  <2>1. labels' \in [Issues -> SUBSET AllLabels] /\ open' \subseteq Issues
    BY <1>15, LabelsKnown DEF Human, TypeOK
  <2> QED
    BY <1>15, <2>1 DEF Human, TypeOK, UnitOK, drain, orphan, tally, ends
<1>16. CASE UNCHANGED vars
  BY <1>16 DEF vars, world, drain, orphan, tally, ends, TypeOK, UnitOK
<1> QED
  BY <1>1, <1>2, <1>3, <1>4, <1>5, <1>6, <1>7, <1>8, <1>9, <1>10, <1>11, <1>12, <1>13, <1>14,
     <1>15, <1>16, <1>17, <1>18, <1>19 DEF Next, Tick, Control

\* Whatever ends a tick leaves nothing of it.
LEMMA NothingLeft == NoTick => NoTickLeft'
BY DEF NoTick, NoTickLeft

LEMMA PhaseNext ==
  ASSUME IInv, [Next]_vars
  PROVE  PhaseOK'
<1> USE DEF IInv, PhaseOK, NoTickLeft, Goto, InTick, process, Down, Sweeping, Probing
<1>1. CASE Snapshot
  BY <1>1 DEF Snapshot, CutShort, orphan, tally, ends
<1>2. CASE Recheck
  BY <1>2 DEF Recheck, orphan, tally, ends
<1>3. CASE BeginDrain
  BY <1>3 DEF BeginDrain, orphan, ends
<1>4. CASE Select
  BY <1>4 DEF Select, orphan, tally, ends
<1>5. CASE MidDrain
  BY <1>5 DEF MidDrain, drain, orphan, ends
<1>6. CASE StartUnit
  BY <1>6 DEF StartUnit, drain, orphan, ends
<1>7. CASE WorkOn
  BY <1>7 DEF WorkOn, drain, orphan, tally, ends
<1>8. CASE EndUnit
  BY <1>8 DEF EndUnit, CutShort, drain, orphan, tally, ends
<1>9. CASE ListOrphans
  BY <1>9 DEF ListOrphans, CutShort, drain, ends
<1>10. CASE NextOrphan
  <2>1. PICK n \in orphans :
          \/ orphans' = orphans \ {n} /\ UNCHANGED <<pc, unit, seen>>
          \/ seen' = seen \cup {UnitOf(n)} /\ Goto("check") /\ UNCHANGED orphans
    BY <1>10 DEF NextOrphan
  <2> QED
    BY <1>10, <2>1 DEF NextOrphan, drain, tally, ends
<1>11. CASE BeginSweep
  BY <1>11 DEF BeginSweep, drain, orphan, tally
<1>12. CASE View
  BY <1>12 DEF View, drain, orphan, tally, ends
<1>17. CASE Status \/ Ahead
  BY <1>17 DEF Status, Ahead, Examined, InSweep, drain, orphan, tally, ends
<1>18. CASE Remove
  BY <1>18 DEF Remove, Examined, InSweep, drain, orphan, tally, ends
<1>19. CASE Stray
  BY <1>19 DEF Stray, drain, orphan, tally, ends
<1>13. CASE EndSweep
  BY <1>13 DEF EndSweep, drain, orphan, tally, ends
<1>14. CASE Control
  <2>1. NoTickLeft'
    BY <1>14, NothingLeft DEF Control, Process, Killed, Boot, Look, Write, Start, Sleep, Unlink, Exit, Terminate,
       KillStarting, Kill, KillStopping
  <2>2. pc' \in Down \cup {"tick"}
    BY <1>14 DEF Down, Control, Process, Killed, Boot, Look, Write, Start, Sleep, Unlink, Exit, Terminate,
       KillStarting, Kill, KillStopping
  <2> QED
    BY <2>1, <2>2
<1>15. CASE Human
  BY <1>15 DEF Human, drain, orphan, tally, ends
<1>16. CASE UNCHANGED vars
  BY <1>16 DEF vars, drain, orphan, tally, ends
<1> QED
  BY <1>1, <1>2, <1>3, <1>4, <1>5, <1>6, <1>7, <1>8, <1>9, <1>10, <1>11, <1>12, <1>13, <1>14,
     <1>15, <1>16, <1>17, <1>18, <1>19 DEF Next, Tick, Control

LEMMA ServedNext ==
  ASSUME IInv, [Next]_vars
  PROVE  ServedOK'
<1> USE DEF IInv, Goto, InTick, process
<1>1. CASE Snapshot
  BY <1>1 DEF Snapshot, CutShort, orphan, tally, ends, ServedOK, AllServed, Pending, InHand,
       PhaseOK, NoTickLeft, Units
<1>2. CASE Recheck
  BY <1>2 DEF Recheck, orphan, tally, ends, ServedOK, AllServed, Pending, InHand, Units
<1>3. CASE BeginDrain
  BY <1>3 DEF BeginDrain, orphan, ends, ServedOK, AllServed, Pending, InHand, PhaseOK, Units
<1>4. CASE Select
  <2> DEFINE u == Selected
  <2>1. u \in Units(remaining)
    BY <1>4, SelectedRemains DEF Select, TypeOK
  <2>2. unit'.id = u
    <3>1. Members(u) \cap remaining \subseteq Issues
      BY DEF Members
    <3>2. unit' = [id |-> u, members |-> unit'.members, greenlit |-> {}, todo |-> {}]
      BY <1>4, <3>1, MembershipShape DEF Select, UnitOK
    <3> QED
      BY <3>2
  <2>3. Units(remaining) \subseteq {u} \cup Units(remaining')
    BY <1>4 DEF Select, Units
  <2>4. Units(remaining') \subseteq Units(remaining) \ {u}
    BY <1>4 DEF Select, Units
  <2>5. /\ pc = "select" /\ pc' = "check" /\ doneUnits' = doneUnits \cup {u}
        /\ UNCHANGED <<due, ran, skipped, orphans, seen>>
    BY <1>4 DEF Select, orphan, tally
  <2>6. InHand = {} /\ InHand' = {u}
    BY <2>2, <2>5 DEF InHand
  <2>7. u \notin doneUnits /\ u \notin ran
    BY <2>1, <2>5 DEF ServedOK, PhaseOK
  <2>8. due' \subseteq ran' \cup skipped' \cup Pending'
    BY <2>3, <2>5, <2>6 DEF ServedOK, Pending
  <2> QED
    BY <2>4, <2>5, <2>6, <2>7, <2>8 DEF ServedOK, AllServed
<1>5. CASE MidDrain
  <2>1. /\ pc = "check" /\ UNCHANGED <<remaining, doneUnits, orphans, seen, due, ran>>
    BY <1>5 DEF MidDrain, drain, orphan
  <2>2. CASE pc' = "check" /\ unit' = unit /\ skipped' = skipped
    BY <2>1, <2>2 DEF ServedOK, AllServed, Pending, InHand
  <2>3. CASE pc' = "select" /\ skipped' = skipped \cup {unit.id}
    BY <2>1, <2>3 DEF ServedOK, AllServed, Pending, InHand
  <2> QED
    BY <1>5, <2>1, <2>2, <2>3 DEF MidDrain
<1>6. CASE StartUnit
  <2>1. /\ pc = "check" /\ pc' = "unit" /\ ran' = ran \cup {unit.id}
        /\ UNCHANGED <<remaining, doneUnits, orphans, seen, due, skipped>>
    BY <1>6 DEF StartUnit, drain, orphan
  <2> QED
    BY <2>1 DEF ServedOK, AllServed, Pending, InHand
<1>7. CASE WorkOn
  <2>1. /\ pc = "unit" /\ pc' = pc
        /\ UNCHANGED <<remaining, doneUnits, orphans, seen, due, ran, skipped, cut>>
    BY <1>7 DEF WorkOn, drain, orphan, tally, ends
  <2> QED
    BY <2>1 DEF ServedOK, AllServed, Pending, InHand
<1>8. CASE EndUnit
  <2>1. /\ pc = "unit" /\ UNCHANGED <<remaining, doneUnits, orphans, seen, due, ran, skipped>>
        /\ pc' \in {"select", "orphan"} \/ (pc' = "sleep" /\ cut')
    BY <1>8 DEF EndUnit, CutShort, drain, orphan, tally
  <2> QED
    BY <2>1 DEF ServedOK, AllServed, Pending, InHand
<1>9. CASE ListOrphans
  <2>1. /\ pc = "select" /\ remaining = {} /\ orphans = {}
        /\ UNCHANGED <<remaining, doneUnits, seen, ran, skipped>>
    BY <1>9 DEF ListOrphans, drain, PhaseOK
  <2>2. due \subseteq ran \cup skipped
    BY <2>1 DEF ServedOK, Pending, InHand, Units
  <2>3. \/ pc' = "sleep" /\ cut'
        \/ due' = due \cup Units(orphans') /\ pc' = IF orphans' = {} THEN "sleep" ELSE "orphan"
    BY <1>9 DEF ListOrphans, CutShort, Units
  <2>4. InHand = {} /\ InHand' = {}
    BY <2>1, <2>3 DEF InHand
  <2>5. Units({}) = {}
    BY DEF Units
  <2> QED
    BY <2>1, <2>2, <2>3, <2>4, <2>5 DEF ServedOK, AllServed, Pending
<1>10. CASE NextOrphan
  <2>1. PICK n \in orphans :
          IF UnitOf(n) \in doneUnits \cup seen
            THEN orphans' = orphans \ {n} /\ Works /\ UNCHANGED <<pc, unit, seen>>
            ELSE /\ Membership(UnitOf(n), {n}) /\ seen' = seen \cup {UnitOf(n)}
                 /\ Goto("check") /\ UNCHANGED orphans
    BY <1>10 DEF NextOrphan
  <2>2. /\ pc = "orphan" /\ InHand = {}
        /\ UNCHANGED <<remaining, doneUnits, due, ran, skipped, cut>>
    BY <1>10 DEF NextOrphan, drain, tally, ends, InHand
  <2>3. CASE UnitOf(n) \in doneUnits \cup seen
    <3>1. UnitOf(n) \in ran \cup skipped
      BY <2>2, <2>3 DEF ServedOK
    <3>2. Units(orphans) \subseteq {UnitOf(n)} \cup Units(orphans')
      BY <2>1, <2>3 DEF Units
    <3>3. pc' = "orphan" /\ InHand' = {} /\ UNCHANGED seen
      BY <2>1, <2>2, <2>3 DEF InHand
    <3> QED
      BY <2>2, <3>1, <3>2, <3>3 DEF ServedOK, AllServed, Pending
  <2>4. CASE UnitOf(n) \notin doneUnits \cup seen
    <3>1. unit'.id = UnitOf(n)
      <4>1. {n} \subseteq Issues /\ unit = NoUnit
        BY <2>2 DEF TypeOK, UnitOK
      <4>2. unit' = [id |-> UnitOf(n), members |-> unit'.members, greenlit |-> {}, todo |-> {}]
        BY <2>1, <2>4, <4>1, MembershipShape
      <4> QED
        BY <4>2
    <3>2. /\ pc' = "check" /\ InHand' = {UnitOf(n)} /\ seen' = seen \cup {UnitOf(n)}
          /\ UNCHANGED orphans
      BY <2>1, <2>4, <3>1 DEF InHand
    <3> QED
      BY <2>2, <2>4, <3>2 DEF ServedOK, AllServed, Pending
  <2> QED
    BY <2>3, <2>4
<1>11. CASE BeginSweep
  <2>1. /\ pc = "orphan" /\ orphans = {} /\ remaining = {} /\ pc' \in {"sweep", "sleep"}
        /\ UNCHANGED <<remaining, doneUnits, orphans, seen, due, ran, skipped, cut>>
    BY <1>11 DEF BeginSweep, drain, orphan, tally, PhaseOK
  <2> QED
    BY <2>1 DEF ServedOK, AllServed, Pending, InHand, Units
<1>12. CASE View \/ Status \/ Ahead \/ Remove
  <2>1. /\ pc \in Sweeping /\ pc' \in Sweeping
        /\ UNCHANGED <<remaining, doneUnits, orphans, seen, due, ran, skipped, cut>>
    BY <1>12 DEF View, Status, Ahead, Remove, Examined, InSweep, drain, orphan, tally, ends, Sweeping, Probing
  <2>2. InHand = {} /\ InHand' = {}
    BY <2>1 DEF InHand, Sweeping, Probing
  <2> QED
    BY <2>1, <2>2 DEF ServedOK, AllServed, Pending, Sweeping, Probing
<1>13. CASE EndSweep
  <2>1. /\ pc = "sweep" /\ pc' = "sleep" /\ orphans = {} /\ remaining = {}
        /\ UNCHANGED <<remaining, doneUnits, orphans, seen, due, ran, skipped, cut>>
    BY <1>13 DEF EndSweep, drain, orphan, tally, ends, PhaseOK, Sweeping
  <2> QED
    BY <2>1 DEF ServedOK, AllServed, Pending, InHand, Units
<1>14. CASE Control
  <2>1. NoTickLeft'
    BY <1>14, NothingLeft DEF Control, Process, Killed, Boot, Look, Write, Start, Sleep, Unlink, Exit, Terminate,
       KillStarting, Kill, KillStopping
  <2>2. pc' \in Down \cup {"tick"}
    BY <1>14 DEF Down, Control, Process, Killed, Boot, Look, Write, Start, Sleep, Unlink, Exit, Terminate,
       KillStarting, Kill, KillStopping
  <2> QED
    BY <2>1, <2>2 DEF NoTickLeft, ServedOK, AllServed, Pending, InHand, Units, Down
<1>17. CASE Stray
  <2>1. UNCHANGED <<pc, unit, remaining, doneUnits, orphans, seen, due, ran, skipped, cut>>
    BY <1>17 DEF Stray, drain, orphan, tally, ends
  <2> QED
    BY <2>1 DEF ServedOK, AllServed, Pending, InHand
<1>15. CASE Human
  <2>1. UNCHANGED <<pc, unit, remaining, doneUnits, orphans, seen, due, ran, skipped, cut>>
    BY <1>15 DEF Human, drain, orphan, tally, ends
  <2> QED
    BY <2>1 DEF ServedOK, AllServed, Pending, InHand
<1>16. CASE UNCHANGED vars
  <2>1. UNCHANGED <<pc, unit, remaining, doneUnits, orphans, seen, due, ran, skipped, cut>>
    BY <1>16 DEF vars, drain, orphan, tally, ends
  <2> QED
    BY <2>1 DEF ServedOK, AllServed, Pending, InHand
<1> QED
  BY <1>1, <1>2, <1>3, <1>4, <1>5, <1>6, <1>7, <1>8, <1>9, <1>10, <1>11, <1>12, <1>13, <1>14,
     <1>15, <1>16, <1>17 DEF Next, Tick, Control

\* A step that changes no label changes what is dispatchable nowhere.
LEMMA SameDispatchable ==
  ASSUME UNCHANGED labels PROVE \A n : Dispatchable(n)' <=> Dispatchable(n)
BY DEF Dispatchable

LEMMA LiveNext ==
  ASSUME IInv, [Next]_vars
  PROVE  LiveOK'
<1> USE DEF IInv, Goto
<1> DEFINE Growing == \A n \in Issues : n \in live \/ Dispatchable(n)' => n \in live'
<1>1. CASE Snapshot
  <2>1. UNCHANGED labels /\ ready = {} /\ drained' = FALSE /\ unread = {}
    BY <1>1 DEF Snapshot, PhaseOK, NoTickLeft
  <2>2. \/ pc' = "recheck" /\ live' = ready'
        \/ pc' = "sleep" /\ ready' = {}
    BY <1>1, <2>1 DEF Snapshot, CutShort
  <2> QED
    BY <2>1, <2>2 DEF LiveOK
<1>2. CASE Recheck
  <2>1. pc = "recheck" /\ pc' = pc /\ drained' = drained /\ ready' \subseteq ready
    BY <1>2 DEF Recheck
  <2>2. Growing
    BY <1>2 DEF Recheck, Lively
  <2>3. ready \subseteq Issues
    BY DEF TypeOK
  <2> QED
    BY <2>1, <2>2, <2>3 DEF LiveOK
<1>3. CASE BeginDrain
  <2>1. /\ pc = "recheck" /\ pc' = "select" /\ UNCHANGED <<labels, ready, live, drained>>
    BY <1>3 DEF BeginDrain
  <2> QED
    BY <2>1, SameDispatchable DEF LiveOK, Working
<1>4. CASE Select
  <2>1. /\ pc = "select" /\ pc' = "check" /\ drained' = TRUE
        /\ unread' = IF drained THEN unit'.members \cap ready ELSE {}
        /\ UNCHANGED <<labels, ready, live>>
    BY <1>4 DEF Select
  <2>2. \A n \in ready' : Dispatchable(n)' => n \in live'
    BY <2>1, SameDispatchable DEF LiveOK, Working
  <2>3. ready \subseteq live \/ unread' = unit'.members \cap ready
    BY <2>1 DEF LiveOK, TypeOK
  <2> QED
    BY <2>1, <2>2, <2>3 DEF LiveOK
<1>5. CASE MidDrain
  <2>1. /\ pc = "check" /\ UNCHANGED <<labels, ready, live, drained, seen>>
    BY <1>5 DEF MidDrain, drain, orphan
  <2>2. \A n \in ready' : Dispatchable(n)' => n \in live'
    BY <2>1, SameDispatchable DEF LiveOK, Working
  <2>3. PICK n \in unread :
          \/ Dispatchable(n) /\ unread' = unread \ {n} /\ UNCHANGED <<pc, unit>>
          \/ pc' = "select"
    BY <1>5 DEF MidDrain
  <2>4. CASE Dispatchable(n) /\ unread' = unread \ {n} /\ UNCHANGED <<pc, unit>>
    <3>1. n \in live
      BY <2>1, <2>3, <2>4 DEF LiveOK, TypeOK, Working
    <3>2. seen = {} => (unit.members \cap ready) \ unread \subseteq live
      BY <2>1 DEF LiveOK
    <3>3. seen' = {} => (unit'.members \cap ready') \ unread' \subseteq live'
      BY <2>1, <2>4, <3>1, <3>2
    <3> QED
      BY <2>1, <2>2, <2>4, <3>3 DEF LiveOK
  <2>5. CASE pc' = "select"
    <3>1. drained' = TRUE
      BY <2>1, <2>3 DEF PhaseOK, TypeOK
    <3> QED
      BY <2>2, <2>5, <3>1 DEF LiveOK
  <2> QED
    BY <2>3, <2>4, <2>5
<1>6. CASE StartUnit
  <2>1. pc = "check" /\ pc' = "unit" /\ UNCHANGED <<labels, ready, live>>
    BY <1>6 DEF StartUnit, drain
  <2> QED
    BY <2>1, SameDispatchable DEF LiveOK, Working
<1>7. CASE WorkOn
  <2>1. pc = "unit" /\ pc' = pc /\ ready' = ready /\ ready \subseteq Issues
    BY <1>7 DEF WorkOn, drain, TypeOK
  <2>2. Growing
    BY <1>7 DEF WorkOn, Lively
  <2> QED
    BY <2>1, <2>2 DEF LiveOK
<1>8. CASE EndUnit
  <2>1. /\ pc = "unit" /\ live' = {n \in Issues : Dispatchable(n)}
        /\ UNCHANGED <<labels, ready, drained>> /\ ready \subseteq Issues
        /\ (pc' = "select" /\ seen = {}) \/ pc' \in {"orphan", "sleep"}
    BY <1>8 DEF EndUnit, CutShort, drain, TypeOK
  <2>2. \A n \in ready' : Dispatchable(n)' => n \in live'
    BY <2>1, SameDispatchable
  <2>3. pc' = "select" => drained' = TRUE
    BY <2>1 DEF PhaseOK, TypeOK
  <2> QED
    BY <2>1, <2>2, <2>3 DEF LiveOK
<1>9. CASE ListOrphans \/ NextOrphan \/ BeginSweep \/ EndSweep
  <2>1. /\ pc \in Working \ {"tick"} /\ pc' \notin {"recheck", "select"}
        /\ UNCHANGED <<labels, ready, live>> /\ (pc' = "check" => seen' # {})
    BY <1>9 DEF ListOrphans, NextOrphan, BeginSweep, EndSweep, drain, orphan, CutShort, Working
  <2> QED
    BY <2>1, SameDispatchable DEF LiveOK
<1>13. CASE View \/ Status \/ Ahead \/ Remove
  <2>1. /\ pc \in Working \ {"tick"} /\ pc' \notin {"recheck", "select", "check"}
        /\ UNCHANGED <<labels, ready, live>>
    BY <1>13 DEF View, Status, Ahead, Remove, Examined, InSweep, world, drain, Working, Probing
  <2> QED
    BY <2>1, SameDispatchable DEF LiveOK
<1>10. CASE Control
  <2>1. NoTickLeft'
    BY <1>10, NothingLeft DEF Control, Process, Killed, Boot, Look, Write, Start, Sleep, Unlink, Exit, Terminate,
       KillStarting, Kill, KillStopping
  <2>2. pc' \in Down \cup {"tick"}
    BY <1>10 DEF Down, Control, Process, Killed, Boot, Look, Write, Start, Sleep, Unlink, Exit, Terminate,
       KillStarting, Kill, KillStopping
  <2> QED
    BY <2>1, <2>2 DEF NoTickLeft, LiveOK
<1>11. CASE Human
  <2>1. UNCHANGED <<pc, unit, ready, unread, drained, seen>> /\ ready \subseteq Issues
    BY <1>11 DEF Human, drain, orphan, TypeOK
  <2>2. Growing /\ live \subseteq live'
    BY <1>11 DEF Human, Lively
  <2> QED
    BY <2>1, <2>2 DEF LiveOK
<1>12. CASE Stray \/ UNCHANGED vars
  <2>1. UNCHANGED <<labels, pc, unit, ready, unread, drained, seen, live>>
    BY <1>12 DEF Stray, vars, world, drain, orphan
  <2> QED
    BY <2>1, SameDispatchable DEF LiveOK
<1> QED
  BY <1>1, <1>2, <1>3, <1>4, <1>5, <1>6, <1>7, <1>8, <1>9, <1>10, <1>11, <1>12, <1>13
     DEF Next, Tick, Control

\* No step of a tick, and no human, touches the marker or leaves the tick.
LEMMA TickKeepsProcess ==
  ASSUME Tick PROVE pc \in Working /\ pc' \in Working /\ UNCHANGED process
<1> USE DEF Goto, InTick, Working
<1>1. CASE Snapshot \/ Recheck \/ BeginDrain \/ Select \/ MidDrain \/ StartUnit
  BY <1>1 DEF Snapshot, Recheck, BeginDrain, Select, MidDrain, StartUnit, CutShort
<1>2. CASE WorkOn \/ EndUnit \/ ListOrphans
  BY <1>2 DEF WorkOn, EndUnit, ListOrphans, CutShort
<1>3. CASE NextOrphan \/ BeginSweep \/ EndSweep
  BY <1>3 DEF NextOrphan, BeginSweep, EndSweep
<1>4. CASE View \/ Status \/ Ahead \/ Remove
  BY <1>4 DEF View, Status, Ahead, Remove, Examined, InSweep, Probing
<1> QED
  BY <1>1, <1>2, <1>3, <1>4 DEF Tick

\* What has happened stays known.
LEMMA HappenedGrows == [Next]_vars => happened \subseteq happened'
<1> SUFFICES ASSUME [Next]_vars PROVE happened \subseteq happened'
  OBVIOUS
<1> USE DEF Works, Fails, Strikes, trouble
<1>1. CASE Snapshot \/ Recheck \/ BeginDrain \/ MidDrain \/ StartUnit
  BY <1>1 DEF Snapshot, Recheck, BeginDrain, MidDrain, StartUnit
<1>2. CASE Select \/ NextOrphan
  BY <1>2 DEF Select, NextOrphan, Membership
<1>3. CASE WorkOn \/ EndUnit \/ ListOrphans \/ BeginSweep \/ EndSweep
  BY <1>3 DEF WorkOn, EndUnit, ListOrphans, BeginSweep, EndSweep
<1>6. CASE View \/ Status \/ Ahead \/ Remove \/ Stray
  BY <1>6 DEF View, Status, Ahead, Remove, Stray
<1>4. CASE Control \/ Human
  BY <1>4 DEF Control, Process, Killed, Boot, Look, Write, Start, Sleep, Unlink, Exit, Terminate,
       KillStarting, Kill, KillStopping, Human
<1>5. CASE UNCHANGED vars
  BY <1>5 DEF vars
<1> QED
  BY <1>1, <1>2, <1>3, <1>4, <1>5, <1>6 DEF Next, Tick, Control

LEMMA MarkerNext ==
  ASSUME IInv, [Next]_vars
  PROVE  MarkerOK'
<1> SUFFICES ASSUME "marker" \notin happened' PROVE MarkerOK'
  BY DEF MarkerOK
<1>0. "marker" \notin happened
  BY HappenedGrows
<1> USE <1>0 DEF IInv, MarkerOK, Goto, Working, Probing, process
<1>1. CASE Tick
  BY <1>1, TickKeepsProcess
<1>2. CASE Boot \/ Start \/ Sleep
  BY <1>2 DEF Boot, Start, Sleep
<1>3. CASE Look
  <2>1. ~ Fails("marker")
    BY DEF Fails, Strikes
  <2>2. pc = "look" /\ pc' = "write" /\ told' = marker /\ UNCHANGED <<marker, prior>>
    BY <1>3, <2>1 DEF Look
  <2> QED
    BY <2>2
<1>4. CASE Write
  BY <1>4 DEF Write, Fails, Strikes
<1>5. CASE Terminate
  BY <1>5 DEF Terminate
<1>6. CASE Unlink \/ Exit
  BY <1>6 DEF Unlink, Exit, Fails, Strikes
<1>7. CASE KillStarting
  BY <1>7 DEF KillStarting
<1>8. CASE Kill
  BY <1>8 DEF Kill
<1>9. CASE KillStopping
  BY <1>9 DEF KillStopping
<1>10. CASE Stray \/ Human \/ UNCHANGED vars
  BY <1>10 DEF Stray, Human, vars
<1> QED
  BY <1>1, <1>2, <1>3, <1>4, <1>5, <1>6, <1>7, <1>8, <1>9, <1>10 DEF Next, Process, Killed

\* The steps that leave the worktrees and the examination alone.
LEMMA SweepUntouched ==
  ASSUME \/ Snapshot \/ Recheck \/ BeginDrain \/ Select \/ MidDrain \/ StartUnit \/ EndUnit
         \/ ListOrphans \/ NextOrphan \/ BeginSweep \/ EndSweep \/ Human \/ UNCHANGED vars
  PROVE  UNCHANGED <<wt, sweep>> /\ (pc = pc' \/ (pc \notin Probing /\ pc' \notin Probing))
<1> USE DEF Goto, InTick, Probing
<1>1. CASE Snapshot \/ Recheck \/ BeginDrain \/ Select \/ MidDrain \/ StartUnit
  BY <1>1 DEF Snapshot, Recheck, BeginDrain, Select, MidDrain, StartUnit, CutShort
<1>2. CASE EndUnit \/ ListOrphans \/ NextOrphan \/ BeginSweep \/ EndSweep
  BY <1>2 DEF EndUnit, ListOrphans, NextOrphan, BeginSweep, EndSweep, CutShort
<1>3. CASE Human \/ UNCHANGED vars
  BY <1>3 DEF Human, vars, world
<1> QED
  BY <1>1, <1>2, <1>3, Zenon

LEMMA ExamNext ==
  ASSUME IInv, [Next]_vars
  PROVE  ExamOK'
<1>0. happened \subseteq happened' /\ wt \in [Issues -> Contents]
  BY HappenedGrows DEF IInv, TypeOK
<1> USE <1>0 DEF IInv, ExamOK, Goto, Probing
<1>1. CASE UNCHANGED <<wt, sweep>> /\ (pc = pc' \/ (pc \notin Probing /\ pc' \notin Probing))
  BY <1>1 DEF sweep
<1>2. CASE WorkOn
  <2>1. UNCHANGED <<pc, sweep>> /\ pc = "unit"
    BY <1>2 DEF WorkOn
  <2>2. \A n \in Issues : wt'[n] # {} => "tree" \in wt'[n]
    BY <1>2, PollConstantsOK DEF WorkOn
  <2> QED
    BY <2>1, <2>2 DEF sweep
<1>3. CASE View
  BY <1>3 DEF View, world, sweep, TypeOK
<1>4. CASE Status
  <2>1. UNCHANGED wt
    BY <1>4 DEF Status
  <2>2. CASE Examined
    BY <2>1, <2>2 DEF Examined
  <2>3. CASE Goto("ahead") /\ UNCHANGED sweep
    <3>1. \A n \in exam : "edits" \notin wt[n] \/ "status" \in happened'
      BY <1>4, <2>3 DEF Status, Examined, Fails, Strikes
    <3> QED
      BY <2>1, <2>3, <3>1 DEF sweep
  <2> QED
    BY <1>4, <2>2, <2>3 DEF Status
<1>5. CASE Ahead
  <2>1. UNCHANGED wt /\ pc = "ahead"
    BY <1>5 DEF Ahead
  <2>2. CASE Examined
    BY <2>1, <2>2 DEF Examined
  <2>3. CASE Goto("remove") /\ UNCHANGED sweep
    <3>1. \A n \in exam : "commits" \notin wt[n]
      BY <1>5, <2>3 DEF Ahead, Examined
    <3>2. \A n \in exam : "edits" \in old \/ old = {}
      BY <3>1 DEF TypeOK, Unsaved
    <3> QED
      BY <2>1, <2>3, <3>2 DEF sweep
  <2> QED
    BY <1>5, <2>2, <2>3 DEF Ahead
<1>6. CASE Remove
  BY <1>6 DEF Remove, Examined
<1>7. CASE Stray
  <2>1. UNCHANGED <<pc, exam>>
    BY <1>7 DEF Stray
  <2>2. PICK m \in Issues :
          \/ /\ wt[m] # {} /\ wt' = [wt EXCEPT ![m] = @ \cup {"edits"}] /\ UNCHANGED old
          \/ /\ "edits" \in wt[m]
             /\ wt' = [wt EXCEPT ![m] = (@ \ {"edits"}) \cup {"commits"}]
             /\ old' = IF m \in exam /\ "edits" \in old THEN (old \ {"edits"}) \cup {"commits"} ELSE old
          \/ /\ "commits" \in wt[m]
             /\ wt' = [wt EXCEPT ![m] = @ \ {"commits"}]
             /\ old' = IF m \in exam THEN old \ {"commits"} ELSE old
    BY <1>7 DEF Stray
  <2>3. \A n \in Issues : wt'[n] # {} => "tree" \in wt'[n]
    BY <2>2
  <2>4. \A n \in exam : old' \subseteq wt'[n]
    <3> SUFFICES ASSUME NEW n \in exam PROVE old' \subseteq wt'[n]
      OBVIOUS
    <3>1. n \in Issues /\ old \subseteq wt[n] /\ exam = {n}
      BY DEF TypeOK
    <3>2. CASE n = m
      BY <2>2, <3>1, <3>2
    <3>3. CASE n # m
      BY <2>2, <3>1, <3>3
    <3> QED
      BY <3>2, <3>3
  <2>5. /\ old = {} => old' = {}
        /\ "edits" \notin old => "edits" \notin old'
    BY <2>2
  <2> QED
    BY <2>1, <2>3, <2>4, <2>5
<1>8. CASE Control
  <2>1. exam' = {} /\ old' = {} /\ UNCHANGED wt /\ pc' \notin Probing
    BY <1>8 DEF Control, Process, Killed, Boot, Look, Write, Start, Sleep, Unlink, Exit, Terminate,
       KillStarting, Kill, KillStopping, NoTick, world
  <2> QED
    BY <2>1
<1> QED
  BY SweepUntouched, <1>1, <1>2, <1>3, <1>4, <1>5, <1>6, <1>7, <1>8 DEF Next, Tick, Control

-----------------------------------------------------------------------------
(* The theorems.                                                           *)

\* The invariant of the poll loop: what is owed in a tick, and what may still
\* be taken up, account for each other through all its phases, however it is
\* cut short, terminated or killed.
THEOREM Inductive == Spec => []IInv
<1>1. IInv /\ [Next]_vars => IInv'
  BY TypesNext, PhaseNext, ServedNext, LiveNext, MarkerNext, ExamNext DEF IInv
<1> QED
  BY InitIInv, <1>1, PTL DEF Spec

\* Type correctness of the poll loop: an issue is read again, and drained, only
\* if it was listed, and a unit works only on its own members.
THEOREM TypeCorrect == Spec => []TypeOK
<1>1. IInv => TypeOK
  BY DEF IInv
<1> QED
  BY Inductive, <1>1, PTL

\* A tick that is not cut short (_poll_tick) has run, or kept back with an
\* alert, the unit of every greenlit issue and every orphan it has listed.
THEOREM EveryUnitIsServed == Spec => []AllServed
<1>1. IInv => AllServed
  BY DEF IInv, ServedOK
<1> QED
  BY Inductive, <1>1, PTL

\* Start-up (G2 of reconcile_startup) tells a kill of the last run that had begun to
\* work, up to the removal of its marker, from every other end, over any sequence of
\* kills, signals and refused starts, those during start-up and shutdown included.
THEOREM KillsAreTold == Spec => []KillIsTold
<1>1. IInv => KillIsTold
  BY DEF IInv, MarkerOK, KillIsTold
<1> QED
  BY Inductive, <1>1, PTL

\* A unit is run at most once in a tick, by the drain or for an orphan, in
\* whatever phase its issues turn up (processed_ms_nums, seen_orphan_*).
THEOREM NoUnitRunsTwice == Spec => OncePerTick
<1>1. IInv /\ [Next]_vars => (ran' = ran \/ pc # "check" \/ unit.id \notin ran)
  BY DEF IInv, ServedOK, InHand
<1> QED
  BY Inductive, <1>1, PTL DEF Spec, OncePerTick

\* A unit starts only on greenlights that GitHub showed after the unit before
\* it had ended (the mid-drain re-check of #132).
THEOREM UnitsStartOnLive == Spec => StartsOnLive
<1>1. IInv /\ [Next]_vars /\ pc = "check" /\ pc' = "unit"
        => unit'.members \cap unit'.greenlit \subseteq live
  <2> SUFFICES ASSUME IInv, [Next]_vars, pc = "check", pc' = "unit"
               PROVE  unit'.members \cap unit'.greenlit \subseteq live
    OBVIOUS
  <2>1. StartUnit
    <3> USE DEF Goto
    <3>1. ~ Control
      BY DEF Control, Process, Killed, Boot, Look, Write, Start, Sleep, Unlink, Exit, Terminate,
       KillStarting, Kill, KillStopping
    <3>2. ~ (Recheck \/ Snapshot \/ BeginDrain \/ Select \/ MidDrain)
      BY DEF Recheck, Snapshot, BeginDrain, Select, MidDrain
    <3>3. ~ (WorkOn \/ EndUnit \/ ListOrphans \/ NextOrphan \/ BeginSweep \/ EndSweep)
      BY DEF WorkOn, EndUnit, ListOrphans, NextOrphan, BeginSweep, EndSweep
    <3>5. ~ (View \/ Status \/ Ahead \/ Remove)
      BY DEF View, Status, Ahead, Remove
    <3>4. ~ Stray /\ ~ Human /\ ~ UNCHANGED vars
      BY DEF Stray, Human, vars
    <3> QED
      BY <3>1, <3>2, <3>3, <3>4, <3>5 DEF Next, Tick, Control
  <2>2. /\ unread = {}
        /\ unit' = [id |-> unit.id, members |-> unit.members,
                    greenlit |-> IF seen = {} THEN ready ELSE {}, todo |-> unit.members]
    BY <2>1 DEF StartUnit, IInv, UnitOK
  <2>3. CASE seen = {}
    BY <2>2, <2>3 DEF IInv, LiveOK
  <2>4. CASE seen # {}
    BY <2>2, <2>4
  <2> QED
    BY <2>3, <2>4
<1> QED
  BY Inductive, <1>1, PTL DEF Spec, StartsOnLive

\* Only the sweep takes worktrees away, and, whatever else writes to one between
\* its probes and the removal, it takes no work that was there when the examination
\* began and is still nowhere else, unless a git status has failed
\* (_is_worktree_live, cleanup_worktree).
THEOREM SweepLosesNoWork == Spec => NoWorkLost
<1>1. IInv /\ [Next]_vars
        => \A n \in Issues : wt[n] # {} /\ wt'[n] = {}
             => n \in exam /\ (old = {} \/ "status" \in happened)
  <2> SUFFICES ASSUME IInv, [Next]_vars, NEW n \in Issues, wt[n] # {}, wt'[n] = {}
               PROVE  n \in exam /\ (old = {} \/ "status" \in happened)
    OBVIOUS
  <2>1. wt \in [Issues -> Contents] /\ "tree" \in wt[n]
    BY DEF IInv, TypeOK, ExamOK
  <2>2. ~ UNCHANGED wt
    BY <2>1
  <2>3. ~ WorkOn
    BY <2>1, PollConstantsOK DEF WorkOn
  <2>4. ~ Stray
    BY <2>1 DEF Stray
  <2>5. ~ (View \/ Status \/ Ahead)
    BY <2>2 DEF View, Status, Ahead, world
  <2>6. ~ Control
    BY <2>2 DEF Control, Process, Killed, Boot, Look, Write, Start, Sleep, Unlink, Exit, Terminate,
       KillStarting, Kill, KillStopping, world
  <2>7. Remove
    BY SweepUntouched, <2>2, <2>3, <2>4, <2>5, <2>6 DEF Next, Tick, Control
  <2>8. pc = "remove" /\ n \in exam
    BY <2>1, <2>7 DEF Remove
  <2> QED
    BY <2>8 DEF IInv, ExamOK
<1> QED
  BY Inductive, <1>1, PTL DEF Spec, NoWorkLost
=============================================================================
