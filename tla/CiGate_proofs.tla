---------------------------- MODULE CiGate_proofs ----------------------------
(***************************************************************************)
(* Safety of the CI gate and the merge, for every list of required checks, *)
(* every number of workflow runs and any faults.  That a verdict is earned *)
(* rests on what by_name can hold in the middle of a poll: an answer that  *)
(* was true since the runs were listed, or one that a run still to be      *)
(* asked will replace, because a job of a run never disappears.  That only *)
(* green lands, and that the record is true, rests on the order of the     *)
(* calls of merge_issue_branch.                                            *)
(***************************************************************************)
EXTENDS CiGate, TLAPS

Ended == {"pass", "fail"}

HeldSinceListing == pc = "read" => Holding(runs, listed) \subseteq held

FoundOrReplaced ==
  pc = "read" =>
    \A c \in Checks : found[c] \in Ended =>
      \/ <<c, found[c]>> \in held
      \/ \E j \in (pos + 1)..listed : runs[j][c] # "absent"

GreenAtMerge ==
  /\ pc \in {"checkout", "merge"} => verdict = "GREEN"
  /\ pc = "merge" => ~ midMerge

MergedAtRecord == pc \in {"label", "comment"} => cur \in feature

BusyHasIssue == pc # "idle" => cur \in Issues

IInv ==
  /\ TypeOK
  /\ BusyHasIssue
  /\ HeldSinceListing
  /\ FoundOrReplaced
  /\ VerdictIsEarned
  /\ GreenAtMerge
  /\ MergedAtRecord
  /\ ProvenanceIsTrue

-----------------------------------------------------------------------------
\* A check that has ended in run r, with no later run of the first n that has
\* it, holds that result.
LEMMA NewestHolds ==
  ASSUME NEW rs, NEW n \in Nat, NEW r \in 1..n, NEW c \in Checks,
         rs[r][c] \in Ended, \A q \in (r + 1)..n : rs[q][c] = "absent"
  PROVE  <<c, rs[r][c]>> \in Holding(rs, n)
<1> DEFINE h == <<c, rs[r][c]>>
<1>1. h \in Checks \X {"pass", "fail"} /\ h[1] = c /\ h[2] = rs[r][c]
  BY DEF Ended
<1> QED
  BY <1>1 DEF Holding

\* The environment's bounds are numbers.
LEMMA Bounds == MaxRuns \in Nat /\ MaxFaults \in Nat
BY GateConstantsOK DEF GateConstantsOK

\* A run that has not answered shows a state for every check.
LEMMA NoJobsType ==
  NoJobs \in [Checks -> States] /\ [r \in RunIds |-> NoJobs] \in [RunIds -> [Checks -> States]]
<1>1. NoJobs \in [Checks -> States]
  BY DEF NoJobs, States
<1> QED
  BY <1>1

\* A poll begins, or is dropped, with nothing known.
LEMMA AfreshTypes ==
  ASSUME Afresh
  PROVE  /\ made' \in 0..MaxRuns /\ runs' \in [RunIds -> [Checks -> States]]
         /\ listed' \in 0..MaxRuns /\ pos' \in 0..listed' /\ listed' <= made'
         /\ found' \in [Checks -> States]
         /\ late' \in BOOLEAN /\ held' \subseteq Checks \X {"pass", "fail"}
<1>1. made' \in 0..MaxRuns /\ listed' \in 0..MaxRuns /\ pos' \in 0..listed' /\ listed' <= made'
  BY Bounds DEF Afresh
<1>2. runs' \in [RunIds -> [Checks -> States]] /\ found' \in [Checks -> States]
  BY NoJobsType DEF Afresh
<1>3. late' \in BOOLEAN /\ held' \subseteq Checks \X {"pass", "fail"}
  BY DEF Afresh
<1> QED
  BY <1>1, <1>2, <1>3

\* What holds of a list of runs is a verdict about a check.
LEMMA HoldingTypes ==
  ASSUME NEW rs, NEW n
  PROVE  Holding(rs, n) \subseteq Checks \X {"pass", "fail"}
BY DEF Holding

\* by_name stays a result for every check.
LEMMA MergedTypes ==
  ASSUME NEW f \in [Checks -> States], NEW r \in [Checks -> States]
  PROVE  Merged(f, r) \in [Checks -> States]
BY DEF Merged

-----------------------------------------------------------------------------
LEMMA InitInv == Init => IInv
<1> SUFFICES ASSUME Init PROVE IInv
  OBVIOUS
<1>1. TypeOK
  <2>1. made \in 0..MaxRuns /\ listed \in 0..MaxRuns /\ pos \in 0..listed /\ listed <= made
        /\ faults \in 0..MaxFaults
    BY Bounds DEF Init
  <2>2. runs \in [RunIds -> [Checks -> States]] /\ found \in [Checks -> States]
    BY NoJobsType DEF Init
  <2> QED
    BY <2>1, <2>2 DEF Init, TypeOK
<1>2. HeldSinceListing /\ FoundOrReplaced /\ VerdictIsEarned /\ GreenAtMerge
      /\ MergedAtRecord /\ BusyHasIssue /\ ProvenanceIsTrue
  BY DEF Init, HeldSinceListing, FoundOrReplaced, VerdictIsEarned, GreenAtMerge,
         MergedAtRecord, BusyHasIssue, ProvenanceIsTrue
<1> QED
  BY <1>1, <1>2 DEF IInv

\* A run is added, with no jobs yet.
LEMMA NewRunInv == IInv /\ NewRun => IInv'
<1> SUFFICES ASSUME IInv, NewRun PROVE IInv'
  OBVIOUS
<1>1. TypeOK'
  BY HoldingTypes, Bounds
     DEF IInv, TypeOK, NewRun, CiGoesOn, poll, git, issue
<1>2. HeldSinceListing' /\ FoundOrReplaced'
  BY DEF IInv, HeldSinceListing, FoundOrReplaced, NewRun, CiGoesOn, poll
<1>3. (VerdictIsEarned /\ GreenAtMerge /\ MergedAtRecord /\ BusyHasIssue /\ ProvenanceIsTrue)'
  BY DEF IInv, NewRun, CiGoesOn, Polling, git, issue, VerdictIsEarned, GreenAtMerge,
         MergedAtRecord, BusyHasIssue, ProvenanceIsTrue
<1> QED
  BY <1>1, <1>2, <1>3 DEF IInv

\* A job that a run has is never absent from it again, so what was going to
\* replace an old answer still will.
LEMMA JobMovesInv == IInv /\ JobMoves => IInv'
<1> SUFFICES ASSUME IInv, JobMoves PROVE IInv'
  OBVIOUS
<1>1. PICK r \in 1..made, j \in Checks, s \in States \ {"absent"} :
        runs' = [runs EXCEPT ![r][j] = s]
  BY DEF JobMoves
<1>2. r \in RunIds /\ runs \in [RunIds -> [Checks -> States]]
  BY Bounds DEF IInv, TypeOK, RunIds
<1>3. TypeOK'
  <2>1. runs' \in [RunIds -> [Checks -> States]]
    BY <1>1, <1>2
  <2> QED
    BY <2>1, HoldingTypes DEF IInv, TypeOK, JobMoves, CiGoesOn, poll, git, issue
<1>4. HeldSinceListing'
  BY DEF IInv, HeldSinceListing, JobMoves, CiGoesOn, poll
<1>5. FoundOrReplaced'
  <2>1. \A q \in RunIds, c \in Checks : runs[q][c] # "absent" => runs'[q][c] # "absent"
    BY <1>1, <1>2
  <2>2. \A q \in (pos + 1)..listed : q \in RunIds
    BY Bounds DEF IInv, TypeOK, RunIds
  <2> QED
    BY <2>1, <2>2 DEF IInv, FoundOrReplaced, JobMoves, CiGoesOn, poll
<1>6. (VerdictIsEarned /\ GreenAtMerge /\ MergedAtRecord /\ BusyHasIssue /\ ProvenanceIsTrue)'
  BY DEF IInv, JobMoves, CiGoesOn, Polling, git, issue, VerdictIsEarned, GreenAtMerge,
         MergedAtRecord, BusyHasIssue, ProvenanceIsTrue
<1> QED
  BY <1>3, <1>4, <1>5, <1>6 DEF IInv

LEMMA DeadlineInv == IInv /\ DeadlinePasses => IInv'
<1> SUFFICES ASSUME IInv, DeadlinePasses PROVE IInv'
  OBVIOUS
<1>1. TypeOK'
  BY DEF IInv, TypeOK, DeadlinePasses, ci, poll, git, issue
<1>2. HeldSinceListing' /\ FoundOrReplaced'
  BY DEF IInv, HeldSinceListing, FoundOrReplaced, DeadlinePasses, ci, poll
<1>3. (VerdictIsEarned /\ GreenAtMerge /\ MergedAtRecord /\ BusyHasIssue /\ ProvenanceIsTrue)'
  BY DEF IInv, DeadlinePasses, git, issue, VerdictIsEarned, GreenAtMerge,
         MergedAtRecord, BusyHasIssue, ProvenanceIsTrue
<1> QED
  BY <1>1, <1>2, <1>3 DEF IInv

\* _run_ci_gate begins: nothing is merged or recorded by that.
LEMMA BeginInv == IInv /\ Begin => IInv'
<1> SUFFICES ASSUME IInv, Begin PROVE IInv'
  OBVIOUS
<1>1. TypeOK'
  BY AfreshTypes, Bounds DEF IInv, TypeOK, Begin, Goto, Polling, git, issue
<1>2. (HeldSinceListing /\ FoundOrReplaced /\ VerdictIsEarned /\ GreenAtMerge
       /\ MergedAtRecord /\ BusyHasIssue /\ ProvenanceIsTrue)'
  BY DEF IInv, Begin, Goto, git, issue, HeldSinceListing, FoundOrReplaced, VerdictIsEarned,
         GreenAtMerge, MergedAtRecord, BusyHasIssue, ProvenanceIsTrue
<1> QED
  BY <1>1, <1>2 DEF IInv

\* An exception, or a crash: the gate is left without a merge being claimed.
LEMMA LeaveInv ==
  ASSUME IInv, Afresh, pc' = "idle", outcome' \in {"none", "CI_FAILED", "CI_TIMEOUT"},
         UNCHANGED <<cur, verdict, git, issue>>, faults' \in 0..MaxFaults
  PROVE  IInv'
<1>1. TypeOK'
  BY AfreshTypes, Bounds DEF IInv, TypeOK, Polling, git, issue
<1>2. (HeldSinceListing /\ FoundOrReplaced /\ VerdictIsEarned /\ GreenAtMerge
       /\ MergedAtRecord /\ BusyHasIssue /\ ProvenanceIsTrue)'
  BY DEF IInv, git, issue, HeldSinceListing, FoundOrReplaced, VerdictIsEarned,
         GreenAtMerge, MergedAtRecord, BusyHasIssue, ProvenanceIsTrue
<1> QED
  BY <1>1, <1>2 DEF IInv

\* A call that fails uses up one of the faults.
LEMMA FaultsStayBounded ==
  ASSUME TypeOK, Works \/ Fails
  PROVE  faults' \in 0..MaxFaults
BY Bounds DEF TypeOK, Works, Fails

-----------------------------------------------------------------------------
\* The runs are listed: nothing has been said of them yet.
LEMMA ListInv == IInv /\ List => IInv'
<1> SUFFICES ASSUME IInv, List PROVE IInv'
  OBVIOUS
<1>1. CASE Fails /\ Raise
  BY <1>1, LeaveInv, FaultsStayBounded DEF IInv, Raise, Goto
<1>2. CASE ~ (Fails /\ Raise)
  <2>1. /\ pc = "list" /\ Works /\ pc' = "read" /\ listed' = made /\ pos' = 0 /\ found' = NoJobs
        /\ held' = Holding(runs, made)
        /\ UNCHANGED <<made, runs, cur, late, verdict, outcome, feature, midMerge, recorded,
                       marked>>
    BY <1>2 DEF List, Goto, ci, git, issue
  <2>2. TypeOK'
    BY <2>1, Bounds, NoJobsType, HoldingTypes DEF IInv, TypeOK, Works, Polling
  <2>3. HeldSinceListing' /\ FoundOrReplaced'
    BY <2>1 DEF HeldSinceListing, FoundOrReplaced, NoJobs, Ended, Holding
  <2>4. (VerdictIsEarned /\ GreenAtMerge /\ MergedAtRecord /\ BusyHasIssue /\ ProvenanceIsTrue)'
    BY <2>1 DEF IInv, VerdictIsEarned, GreenAtMerge, MergedAtRecord, BusyHasIssue, ProvenanceIsTrue
  <2> QED
    BY <2>2, <2>3, <2>4 DEF IInv
<1> QED
  BY <1>1, <1>2

\* One more run answers.  What it says of a check is held, unless a run still to
\* be asked has the check too.
LEMMA ReadInv == IInv /\ Read => IInv'
<1> SUFFICES ASSUME IInv, Read PROVE IInv'
  OBVIOUS
<1>1. CASE Fails /\ Raise
  BY <1>1, LeaveInv, FaultsStayBounded DEF IInv, Raise, Goto
<1>2. CASE ~ (Fails /\ Raise)
  <2>1. /\ pc = "read" /\ pos < listed /\ Works
        /\ found' = Merged(found, runs[pos + 1]) /\ pos' = pos + 1
        /\ UNCHANGED <<made, runs, pc, cur, listed, late, verdict, outcome, feature, midMerge,
                       recorded, marked, held>>
    BY <1>2 DEF Read, ci, git, issue
  <2>2. /\ pos \in Nat /\ listed \in 0..MaxRuns /\ pos + 1 \in 1..listed /\ pos + 1 \in RunIds
        /\ runs[pos + 1] \in [Checks -> States]
    BY <2>1, Bounds DEF IInv, TypeOK, RunIds
  <2>3. TypeOK'
    <3>1. found' \in [Checks -> States]
      BY <2>1, <2>2, MergedTypes DEF IInv, TypeOK
    <3>2. pos' \in 0..listed
      BY <2>1, <2>2, Bounds
    <3> QED
      BY <2>1, <3>1, <3>2 DEF IInv, TypeOK, Works
  <2>4. HeldSinceListing'
    BY <2>1 DEF IInv, HeldSinceListing
  <2>5. FoundOrReplaced'
    <3> SUFFICES ASSUME NEW c \in Checks, found'[c] \in Ended,
                        \A j \in (pos + 2)..listed : runs[j][c] = "absent"
                 PROVE  <<c, found'[c]>> \in held
      BY <2>1, <2>2 DEF FoundOrReplaced
    <3>1. CASE runs[pos + 1][c] = "absent"
      <4>1. found'[c] = found[c]
        BY <2>1, <3>1 DEF Merged
      <4>2. \A j \in (pos + 1)..listed : runs[j][c] = "absent"
        BY <2>2, <3>1
      <4> QED
        BY <2>1, <4>1, <4>2 DEF IInv, FoundOrReplaced
    <3>2. CASE runs[pos + 1][c] # "absent"
      <4>1. found'[c] = runs[pos + 1][c]
        BY <2>1, <3>2 DEF Merged
      <4>2. \A j \in ((pos + 1) + 1)..listed : runs[j][c] = "absent"
        BY <2>2
      <4>3. <<c, runs[pos + 1][c]>> \in Holding(runs, listed)
        BY <2>2, <4>1, <4>2, NewestHolds
      <4> QED
        BY <2>1, <4>1, <4>3 DEF IInv, HeldSinceListing
    <3> QED
      BY <3>1, <3>2
  <2>6. (VerdictIsEarned /\ GreenAtMerge /\ MergedAtRecord /\ BusyHasIssue /\ ProvenanceIsTrue)'
    BY <2>1 DEF IInv, VerdictIsEarned, GreenAtMerge, MergedAtRecord, BusyHasIssue, ProvenanceIsTrue
  <2> QED
    BY <2>3, <2>4, <2>5, <2>6 DEF IInv
<1> QED
  BY <1>1, <1>2

\* Once every listed run has answered, none is left to replace anything.
LEMMA JudgeInv == IInv /\ Judge => IInv'
<1> SUFFICES ASSUME IInv, Judge PROVE IInv'
  OBVIOUS
<1>1. /\ pc = "read" /\ pos = listed
      /\ UNCHANGED <<made, runs, cur, late, outcome, feature, midMerge, recorded, marked, faults>>
      /\ \/ pc' = "decide" /\ UNCHANGED <<listed, pos, found, held>>
         \/ /\ pc' = "list" /\ UNCHANGED verdict
            /\ listed' = 0 /\ pos' = 0 /\ found' = NoJobs /\ held' = {}
  BY DEF Judge, Decided, PollAgain, Goto, ci, poll, git, issue
<1>2. \A c \in Checks : found[c] \in Ended => <<c, found[c]>> \in held
  <2>1. (pos + 1)..listed = {}
    BY <1>1, Bounds DEF IInv, TypeOK
  <2> QED
    BY <1>1, <2>1 DEF IInv, FoundOrReplaced
<1>3. TypeOK'
  <2>1. verdict' \in {"none", "GREEN", "RED", "TIMEOUT"}
    BY DEF IInv, TypeOK, Judge, PollAgain
  <2>2. CASE pc' = "decide"
    BY <1>1, <2>1, <2>2 DEF IInv, TypeOK, Polling
  <2>3. CASE pc' = "list"
    <3>1. NoJobs \in [Checks -> States] /\ MaxRuns \in Nat /\ made \in 0..MaxRuns
      BY GateConstantsOK DEF NoJobs, States, IInv, TypeOK
    <3> QED
      BY <1>1, <2>1, <2>3, <3>1 DEF IInv, TypeOK, Polling
  <2> QED
    BY <1>1, <2>2, <2>3
<1>4. VerdictIsEarned'
  <2>1. CASE Green(found) /\ verdict' = "GREEN"
    <3>1. \A c \in Checks : found[c] = "pass"
      BY <2>1 DEF Green, Checks
    <3> QED
      BY <1>1, <1>2, <2>1, <3>1 DEF VerdictIsEarned, Ended
  <2>2. CASE Red(found) /\ verdict' = "RED"
    <3>1. \E c \in Checks : found[c] = "fail"
      BY <2>2 DEF Red, Checks
    <3> QED
      BY <1>1, <1>2, <2>2, <3>1 DEF VerdictIsEarned, Ended
  <2>3. CASE pc' = "list" \/ verdict' = "TIMEOUT"
    BY <2>3 DEF VerdictIsEarned
  <2> QED
    BY <2>1, <2>2, <2>3 DEF Judge, PollAgain, Goto
<1>5. (HeldSinceListing /\ FoundOrReplaced /\ GreenAtMerge /\ MergedAtRecord /\ BusyHasIssue
       /\ ProvenanceIsTrue)'
  BY <1>1 DEF IInv, HeldSinceListing, FoundOrReplaced, GreenAtMerge, MergedAtRecord,
              BusyHasIssue, ProvenanceIsTrue
<1> QED
  BY <1>3, <1>4, <1>5 DEF IInv

\* Only GREEN goes on to the checkout.
LEMMA DecideInv == IInv /\ Decide => IInv'
<1> SUFFICES ASSUME IInv, Decide PROVE IInv'
  OBVIOUS
<1>1. CASE verdict = "GREEN"
  <2>1. /\ pc = "decide" /\ pc' = "checkout" /\ Afresh
        /\ UNCHANGED <<outcome, cur, verdict, feature, midMerge, recorded, marked, faults>>
    BY <1>1 DEF Decide, Goto, git, issue
  <2>2. TypeOK'
    BY <2>1, AfreshTypes DEF IInv, TypeOK
  <2>3. (HeldSinceListing /\ FoundOrReplaced /\ VerdictIsEarned /\ GreenAtMerge
         /\ MergedAtRecord /\ BusyHasIssue /\ ProvenanceIsTrue)'
    BY <1>1, <2>1 DEF IInv, HeldSinceListing, FoundOrReplaced, VerdictIsEarned, GreenAtMerge,
                      MergedAtRecord, BusyHasIssue, ProvenanceIsTrue
  <2> QED
    BY <2>2, <2>3 DEF IInv
<1>2. CASE verdict # "GREEN"
  <2>1. faults' \in 0..MaxFaults
    BY DEF IInv, TypeOK, Decide
  <2> QED
    BY <1>2, <2>1, LeaveInv DEF Decide, Goto
<1> QED
  BY <1>1, <1>2

\* The steps of the merge leave Actions and the poll alone.
LEMMA MergeOnlyInv ==
  ASSUME IInv, MergeOnly, Works \/ Fails,
         pc' \in {"idle", "merge", "abort", "label", "comment"}, midMerge' \in BOOLEAN,
         outcome' \in {"none", "MERGED", "CI_FAILED", "CI_TIMEOUT", "MERGE_CONFLICT"},
         feature' \subseteq Issues, recorded' \subseteq Issues, marked' \subseteq Issues,
         GreenAtMerge', MergedAtRecord', BusyHasIssue', ProvenanceIsTrue'
  PROVE  IInv'
<1>1. TypeOK'
  BY FaultsStayBounded DEF IInv, TypeOK, MergeOnly, ci, poll
<1>2. (HeldSinceListing /\ FoundOrReplaced /\ VerdictIsEarned)'
  BY DEF HeldSinceListing, FoundOrReplaced, VerdictIsEarned
<1> QED
  BY <1>1, <1>2 DEF IInv

LEMMA CheckoutInv == IInv /\ Checkout => IInv'
<1> SUFFICES ASSUME IInv, Checkout PROVE IInv'
  OBVIOUS
<1>1. CASE Raise
  BY <1>1, LeaveInv, FaultsStayBounded DEF IInv, Checkout, Raise, Goto
<1>2. CASE ~ Raise
  <2>1. /\ pc = "checkout" /\ ~ midMerge /\ Works /\ pc' = "merge" /\ MergeOnly
        /\ UNCHANGED <<outcome, feature, midMerge, recorded, marked>>
    BY <1>2 DEF Checkout, Goto, git, issue
  <2>2. (GreenAtMerge /\ MergedAtRecord /\ BusyHasIssue /\ ProvenanceIsTrue)'
    BY <2>1 DEF IInv, GreenAtMerge, MergedAtRecord, BusyHasIssue, ProvenanceIsTrue, MergeOnly
  <2> QED
    BY <2>1, <2>2, MergeOnlyInv DEF IInv, TypeOK
<1> QED
  BY <1>1, <1>2

\* The merge either is on the feature branch, and goes on to be recorded, or goes
\* on to be aborted.
LEMMA MergeInv == IInv /\ Merge => IInv'
<1> SUFFICES ASSUME IInv, Merge PROVE IInv'
  OBVIOUS
<1>1. /\ pc = "merge" /\ (Works \/ Fails) /\ MergeOnly
      /\ pc' \in {"label", "abort"} /\ (pc' = "label" => feature' = feature \cup {cur})
      /\ feature' \in {feature, feature \cup {cur}} /\ midMerge' \in {midMerge, TRUE}
      /\ UNCHANGED <<outcome, recorded, marked>>
  BY DEF Merge, Goto, git, issue
<1>2. cur \in Issues
  BY <1>1 DEF IInv, BusyHasIssue
<1>3. feature' \subseteq Issues /\ midMerge' \in BOOLEAN
  BY <1>1, <1>2 DEF IInv, TypeOK
<1>4. (GreenAtMerge /\ MergedAtRecord /\ BusyHasIssue /\ ProvenanceIsTrue)'
  BY <1>1 DEF IInv, GreenAtMerge, MergedAtRecord, BusyHasIssue, ProvenanceIsTrue, MergeOnly
<1> QED
  BY <1>1, <1>3, <1>4, MergeOnlyInv DEF IInv, TypeOK

LEMMA AbortInv == IInv /\ Abort => IInv'
<1> SUFFICES ASSUME IInv, Abort PROVE IInv'
  OBVIOUS
<1>1. /\ (Works \/ Fails) /\ MergeOnly /\ pc' = "idle" /\ outcome' = "MERGE_CONFLICT"
      /\ midMerge' \in {FALSE, midMerge} /\ UNCHANGED <<feature, recorded, marked>>
  BY DEF Abort, Goto, issue
<1>2. (GreenAtMerge /\ MergedAtRecord /\ BusyHasIssue /\ ProvenanceIsTrue)'
  BY <1>1 DEF IInv, GreenAtMerge, MergedAtRecord, BusyHasIssue, ProvenanceIsTrue
<1> QED
  BY <1>1, <1>2, MergeOnlyInv DEF IInv, TypeOK

\* The record is written behind the merge, so a crash or a refused call between
\* the two leaves too little recorded and never too much.
LEMMA RecordInv == IInv /\ (Label \/ Comment) => IInv'
<1> SUFFICES ASSUME IInv, Label \/ Comment PROVE IInv'
  OBVIOUS
<1>1. /\ pc \in {"label", "comment"} /\ (Works \/ Fails) /\ MergeOnly
      /\ pc' \in {"comment", "idle"} /\ outcome' \in {outcome, "MERGED"}
      /\ recorded' \in {recorded, recorded \cup {cur}} /\ marked' \in {marked, marked \cup {cur}}
      /\ UNCHANGED <<feature, midMerge>>
  BY DEF Label, Comment, Goto, git
<1>2. cur \in feature /\ cur' = cur
  BY <1>1 DEF IInv, MergedAtRecord, MergeOnly
<1>3. (GreenAtMerge /\ MergedAtRecord /\ BusyHasIssue /\ ProvenanceIsTrue)'
  BY <1>1, <1>2 DEF IInv, GreenAtMerge, MergedAtRecord, BusyHasIssue, ProvenanceIsTrue
<1>4. recorded' \subseteq Issues /\ marked' \subseteq Issues
      /\ outcome' \in {"none", "MERGED", "CI_FAILED", "CI_TIMEOUT", "MERGE_CONFLICT"}
  BY <1>1, <1>2 DEF IInv, TypeOK
<1> QED
  BY <1>1, <1>3, <1>4, MergeOnlyInv DEF IInv, TypeOK

LEMMA CrashInv == IInv /\ Crash => IInv'
BY LeaveInv, FaultsStayBounded DEF IInv, Crash, Goto

LEMMA NextInv == IInv /\ [Next]_vars => IInv'
<1>1. ASSUME IInv, UNCHANGED vars PROVE IInv'
  <2>1. TypeOK'
    BY <1>1 DEF IInv, vars, ci, poll, git, issue, TypeOK
  <2>2. HeldSinceListing' /\ FoundOrReplaced'
    BY <1>1 DEF IInv, vars, ci, poll, HeldSinceListing, FoundOrReplaced
  <2>3. (VerdictIsEarned /\ GreenAtMerge /\ MergedAtRecord /\ BusyHasIssue /\ ProvenanceIsTrue)'
    BY <1>1 DEF IInv, vars, git, issue, VerdictIsEarned, GreenAtMerge, MergedAtRecord,
                BusyHasIssue, ProvenanceIsTrue
  <2> QED
    BY <2>1, <2>2, <2>3 DEF IInv
<1> QED
  BY <1>1, NewRunInv, JobMovesInv, DeadlineInv, BeginInv, ListInv, ReadInv, JudgeInv,
     DecideInv, CheckoutInv, MergeInv, AbortInv, RecordInv, CrashInv DEF Next, Gate, Env

-----------------------------------------------------------------------------
\* The gate's inductive invariant holds at every moment, whatever GitHub Actions
\* does, whichever calls fail and wherever the daemon dies.
THEOREM Inductive == Spec => []IInv
BY InitInv, NextInv, PTL DEF Spec

\* Every variable keeps its type; a poll never reads more runs than it listed,
\* and never lists more than there are.
THEOREM TypeCorrect == Spec => []TypeOK
<1>1. IInv => TypeOK
  BY DEF IInv
<1> QED
  BY <1>1, Inductive, PTL

\* evaluate_ci: a verdict is never put together from answers none of which was
\* the newest: green has every required check passed at some moment since the
\* listing, red has one failed.
THEOREM VerdictsAreEarned == Spec => []VerdictIsEarned
<1>1. IInv => VerdictIsEarned
  BY DEF IInv
<1> QED
  BY <1>1, Inductive, PTL

\* merge_issue_branch: what label, comment and outcome say was merged is merged.
THEOREM RecordIsTrue == Spec => []ProvenanceIsTrue
<1>1. IInv => ProvenanceIsTrue
  BY DEF IInv
<1> QED
  BY <1>1, Inductive, PTL

\* merge_issue_branch: the feature branch moves only by the merge of the issue at
\* the gate, on its green verdict, with no merge under way in the checkout.
THEOREM OnlyGreenIsMerged == Spec => OnlyGreenLands
<1> DEFINE Landing == feature' # feature
                      => verdict = "GREEN" /\ ~ midMerge /\ feature' = feature \cup {cur}
<1>1. IInv /\ [Next]_vars => [Landing]_vars
  <2> SUFFICES ASSUME IInv, [Next]_vars PROVE Landing \/ UNCHANGED vars
    OBVIOUS
  <2>1. CASE Merge
    BY <2>1 DEF IInv, GreenAtMerge, Merge, git
  <2>2. CASE UNCHANGED vars
    BY <2>2
  <2>3. CASE Begin \/ List \/ Read \/ Judge \/ Decide \/ Checkout \/ Env \/ Crash
    BY <2>3 DEF Begin, List, Read, Judge, Decided, PollAgain, Decide, Checkout, Raise, Env,
                NewRun, JobMoves,
                DeadlinePasses, CiGoesOn, Crash, git
  <2>4. CASE Abort \/ Label \/ Comment
    BY <2>4 DEF Abort, Label, Comment, git
  <2> QED
    BY <2>1, <2>2, <2>3, <2>4 DEF Next, Gate
<1> QED
  BY <1>1, Inductive, PTL DEF Spec, OnlyGreenLands
=============================================================================
