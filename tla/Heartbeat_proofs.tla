-------------------------- MODULE Heartbeat_proofs --------------------------
(***************************************************************************)
(* Safety of the stall monitor for every sequence of episodes, thresholds  *)
(* and bounds: the daemon and the monitor share LivenessState without a    *)
(* lock, and the order in which they write and read its fields is what     *)
(* makes their torn snapshots harmless.  The inductive invariant says what *)
(* each order contributes:                                                 *)
(*   - mark_in_progress assigns the start of the episode before the other  *)
(*     fields a verdict needs, and clear takes it away: SinceIsLive;       *)
(*   - the issue is assigned before the start, and read after it:           *)
(*     IssueOwned;                                                         *)
(*   - the worker flag comes last in both methods: ActiveIsSettled;        *)
(*   - the tick reads the debounce flag first, so that a snapshot without  *)
(*     it precedes every alert about an episode still open: NoneAlerted.   *)
(***************************************************************************)
EXTENDS Heartbeat, TLAPS

\* Job j is in progress and no method is half done, or nothing more is written.
Settled(j) == dpc = "stopped" \/ (dpc \in {"starting", "turns", "gate"} /\ job = j)

InRange ==
  /\ Writing => w \in 1..Len(WriteOrder)
  /\ mpc = "read" => r \in 1..Len(ReadOrder)
  /\ dpc \notin {"free", "stopped"} => job \in Jobs

\* What the daemon is assigning.
TargetOK ==
  /\ dpc = "marking" => target.since = [job |-> job, at |-> now] /\ ended[job] = None
  /\ dpc = "clearing" => target = Idle

\* The shared start is that of the job in progress.  It outlives its job only
\* until clear() gets to it, and no later tick sees it then.
SinceIsLive ==
  /\ state.since # None =>
       LET j == state.since.job IN
       IF ended[j] = None
         THEN Settled(j) \/ (dpc = "marking" /\ job = j /\ state.since.at = now)
         ELSE /\ dpc \in {"clearing", "stopped"} /\ t <= ended[j]
              /\ dpc = "clearing" => ended[j] = now
  /\ dpc = "clearing" /\ w > 3 => state.since = None

ActiveIsSettled == state.active => dpc \in {"starting", "turns", "gate", "clearing", "stopped"}

\* A copy of the start is of a job that was in progress when the tick began,
\* or began during the tick.
SnapIsLive ==
  snap.since # None =>
    LET j == snap.since.job IN
    /\ ended[j] # None => t <= ended[j]
    /\ ended[j] = None => Settled(j) \/ (dpc = "marking" /\ job = j)
    /\ ended[j] = None /\ (t > snap.since.at \/ snap.active) => Settled(j)

\* As long as a job has not ended, a start of it that can be read, or has been,
\* stands beside its issue; a snapshot that mixes two jobs is of one that ended.
IssueOwned ==
  /\ dpc = "marking" => target.issue = job /\ (w > 2 => state.issue = job)
  /\ state.since # None /\ ended[state.since.job] = None => state.issue = state.since.job
  /\ snap.since # None /\ ended[snap.since.job] = None => state.issue = snap.since.job
  /\ snap.since # None /\ (mpc = "read" => r > 4) /\ ended[snap.since.job] = None
       => snap.issue = snap.since.job

SnapInOrder ==
  /\ mpc = "read" /\ r <= 2 => snap.since = None
  /\ mpc = "read" /\ r <= 5 => ~ snap.active
  /\ mpc \in {"wait", "exited"} => snap = Idle /\ t = 0
  /\ mpc \in {"stall", "latch_stall", "recheck", "hang", "latch_hang", "hung"} => snap.since # None
  /\ mpc = "stall" => Elapsed(snap.since) > StallS
  /\ mpc = "hang" => snap.active

\* No episode that is still open has been alerted about.
NoneAlerted == \A j \in Jobs : alerts[j] > 0 => ended[j] # None

AlertsLatched ==
  /\ \A j \in Jobs : alerts[j] > 0 /\ ended[j] = None =>
       /\ Settled(j)
       /\ state.alerted \/ mpc = "hung"
            \/ (mpc \in {"latch_stall", "latch_hang"} /\ snap.since.job = j)
  /\ (mpc = "read" /\ r >= 2) \/ mpc = "judge" => snap.alerted \/ NoneAlerted
  /\ mpc \in {"stall", "hang"} => NoneAlerted

IInv ==
  /\ TypeOK /\ InRange /\ TargetOK
  /\ SinceIsLive /\ ActiveIsSettled /\ SnapIsLive /\ IssueOwned /\ SnapInOrder /\ AlertsLatched

-----------------------------------------------------------------------------
(* What one assignment, and one copy, does to the record.                  *)

\* Jobs and thresholds are numbers, and None is not one of them.
LEMMA Constants ==
  /\ Jobs \subseteq Nat /\ None \notin Nat
  /\ StallS \in Nat /\ ProgressS \in Nat /\ MaxTime \in Nat /\ MaxFailures \in Nat
BY ConstantsOK DEF ConstantsOK

\* The order of the fields in the two methods, and in the monitor's copy.
LEMMA Orders ==
  /\ Len(WriteOrder) = 5 /\ Len(ReadOrder) = 6
  /\ WriteOrder[1] = "repo" /\ WriteOrder[2] = "issue" /\ WriteOrder[3] = "since"
  /\ WriteOrder[4] = "alerted" /\ WriteOrder[5] = "active"
  /\ ReadOrder[1] = "alerted" /\ ReadOrder[2] = "since" /\ ReadOrder[3] = "repo"
  /\ ReadOrder[4] = "issue" /\ ReadOrder[5] = "active" /\ ReadOrder[6] = "progress"
BY DEF WriteOrder, ReadOrder

\* The state after clear() is a liveness state.
LEMMA IdleType == Idle \in LivenessStates
BY DEF Idle, LivenessStates

\* Timestamps belong to a job and a moment, and lie on the clock.
LEMMA Stamped ==
  ASSUME TypeOK
  PROVE  /\ state.since # None => state.since.job \in Jobs /\ state.since.at \in 0..MaxTime
         /\ snap.since # None => snap.since.job \in Jobs /\ snap.since.at \in 0..MaxTime
         /\ now \in Nat /\ t \in Nat /\ t <= now
         /\ state \in LivenessStates /\ target \in LivenessStates /\ snap \in LivenessStates
BY Constants DEF TypeOK, LivenessStates, Stamps

-----------------------------------------------------------------------------
(* The daemon's steps.                                                     *)

LEMMA MarkInv ==
  ASSUME IInv, NEW j \in Jobs, NEW active \in BOOLEAN, Mark(j, active)
  PROVE  IInv'
<1>1. /\ dpc = "free" /\ ended[j] = None /\ dpc' = "marking" /\ job' = j /\ w' = 1
      /\ UNCHANGED <<now, state, monitorVars, history>>
  BY DEF Mark
<1>2. target' = [repo |-> Repo, issue |-> j, since |-> [job |-> j, at |-> now],
                 alerted |-> FALSE, active |-> active, progress |-> None]
  BY DEF Mark, Idle
<1>3. TypeOK'
  <2>1. now \in 0..MaxTime
    BY DEF IInv, TypeOK
  <2>2. target' \in LivenessStates
    BY <1>2, <2>1 DEF LivenessStates, Stamps
  <2> QED
    BY <1>1, <2>2, Orders DEF IInv, TypeOK, monitorVars, history
<1>4. (InRange /\ TargetOK)'
  BY <1>1, <1>2, Orders DEF IInv, InRange, TargetOK, monitorVars, history
<1>5. state.since = None
  BY <1>1 DEF IInv, SinceIsLive, Settled
<1>6. (SinceIsLive /\ ActiveIsSettled)'
  BY <1>1, <1>5 DEF IInv, SinceIsLive, ActiveIsSettled, monitorVars, history
<1>7. (SnapIsLive /\ SnapInOrder)'
  BY <1>1 DEF IInv, SnapIsLive, SnapInOrder, Settled, Elapsed, monitorVars, history
<1>8. AlertsLatched'
  BY <1>1 DEF IInv, AlertsLatched, NoneAlerted, Settled, monitorVars, history
<1>9. IssueOwned'
  BY <1>1, <1>2 DEF IInv, IssueOwned, monitorVars, history
<1> QED
  BY <1>3, <1>4, <1>6, <1>7, <1>8, <1>9 DEF IInv

LEMMA AssignInv == IInv /\ Assign => IInv'
<1> SUFFICES ASSUME IInv, Assign PROVE IInv'
  OBVIOUS
<1>1. /\ Writing /\ w \in 1..5 /\ job \in Jobs
      /\ UNCHANGED <<now, monitorVars, history>>
  BY Orders DEF Assign, IInv, InRange, Writing
<1>2. /\ state' \in LivenessStates
      /\ state'.issue = IF w = 2 THEN target.issue ELSE state.issue
      /\ state'.since = IF w = 3 THEN target.since ELSE state.since
      /\ state'.alerted = IF w = 4 THEN target.alerted ELSE state.alerted
      /\ state'.active = IF w = 5 THEN target.active ELSE state.active
  <2>1. state' = [state EXCEPT ![WriteOrder[w]] = target[WriteOrder[w]]]
    BY DEF Assign
  <2>2. state \in LivenessStates /\ target \in LivenessStates
    BY DEF IInv, TypeOK
  <2>3. CASE w = 1
    BY <2>1, <2>2, <2>3, Orders DEF LivenessStates
  <2>4. CASE w = 2
    BY <2>1, <2>2, <2>4, Orders DEF LivenessStates
  <2>5. CASE w = 3
    BY <2>1, <2>2, <2>5, Orders DEF LivenessStates
  <2>6. CASE w = 4
    BY <2>1, <2>2, <2>6, Orders DEF LivenessStates
  <2>7. CASE w = 5
    BY <2>1, <2>2, <2>7, Orders DEF LivenessStates
  <2> QED
    BY <1>1, <2>3, <2>4, <2>5, <2>6, <2>7
<1>3. \/ w < 5 /\ w' = w + 1 /\ UNCHANGED <<dpc, job, target>>
      \/ /\ w = 5 /\ w' = 1 /\ target' = Idle
         /\ dpc' = IF dpc = "clearing" THEN "free" ELSE IF target.active THEN "starting" ELSE "gate"
         /\ job' = IF dpc = "clearing" THEN None ELSE job
  BY <1>1, Orders DEF Assign, Assigned
<1>4. TypeOK'
  BY <1>1, <1>2, <1>3, IdleType, Orders DEF IInv, TypeOK, Writing, monitorVars, history
<1>5. (InRange /\ TargetOK)'
  BY <1>1, <1>3, Orders DEF IInv, InRange, TargetOK, Writing, monitorVars, history
<1>6. SinceIsLive'
  <2>1. CASE dpc = "clearing"
    BY <1>1, <1>2, <1>3, <2>1 DEF IInv, SinceIsLive, TargetOK, Idle, Settled, monitorVars, history
  <2>2. CASE dpc = "marking"
    BY <1>1, <1>2, <1>3, <2>2 DEF IInv, SinceIsLive, TargetOK, Settled, monitorVars, history
  <2> QED
    BY <1>1, <2>1, <2>2 DEF Writing
<1>7. ActiveIsSettled'
  BY <1>1, <1>2, <1>3 DEF IInv, ActiveIsSettled, TargetOK, Idle, Writing
<1>8. SnapIsLive' /\ SnapInOrder'
  BY <1>1, <1>3 DEF IInv, SnapIsLive, SnapInOrder, Settled, Elapsed, Writing, monitorVars, history
<1>9. AlertsLatched'
  BY <1>1 DEF IInv, AlertsLatched, NoneAlerted, Settled, Writing, monitorVars, history
<1>10. IssueOwned'
  <2>1. CASE dpc = "clearing"
    BY <1>1, <1>2, <1>3, <2>1 DEF IInv, IssueOwned, SinceIsLive, SnapIsLive, TargetOK, Idle, Settled,
       monitorVars, history
  <2>2. CASE dpc = "marking"
    BY <1>1, <1>2, <1>3, <2>2 DEF IInv, IssueOwned, SinceIsLive, SnapIsLive, TargetOK, Settled,
       monitorVars, history
  <2> QED
    BY <1>1, <2>1, <2>2 DEF Writing
<1> QED
  BY <1>4, <1>5, <1>6, <1>7, <1>8, <1>9, <1>10 DEF IInv

LEMMA NoteProgressInv == IInv /\ NoteProgress => IInv'
<1> SUFFICES ASSUME IInv, NoteProgress PROVE IInv'
  OBVIOUS
<1>1. /\ dpc \in {"starting", "turns"} /\ dpc' = "turns" /\ job \in Jobs
      /\ UNCHANGED <<now, job, target, w, monitorVars, history>>
  BY DEF NoteProgress, IInv, InRange
<1>2. /\ state' \in LivenessStates /\ state'.since = state.since
      /\ state'.alerted = state.alerted /\ state'.active = state.active /\ state'.issue = state.issue
  <2>1. [job |-> job, at |-> now] \in Stamps
    BY <1>1 DEF Stamps, IInv, TypeOK
  <2>2. state \in LivenessStates /\ state' = [state EXCEPT !.progress = [job |-> job, at |-> now]]
    BY DEF NoteProgress, IInv, TypeOK
  <2> QED
    BY <2>1, <2>2 DEF LivenessStates
<1>3. TypeOK'
  BY <1>1, <1>2 DEF IInv, TypeOK, monitorVars, history
<1>4. (InRange /\ TargetOK)'
  BY <1>1 DEF IInv, InRange, TargetOK, Writing, monitorVars, history
<1>5. (SinceIsLive /\ ActiveIsSettled)'
  BY <1>1, <1>2 DEF IInv, SinceIsLive, ActiveIsSettled, Settled, monitorVars, history
<1>6. (SnapIsLive /\ IssueOwned /\ SnapInOrder)'
  BY <1>1, <1>2 DEF IInv, SnapIsLive, IssueOwned, SnapInOrder, Settled, Elapsed, monitorVars, history
<1>7. AlertsLatched'
  BY <1>1, <1>2 DEF IInv, AlertsLatched, NoneAlerted, Settled, monitorVars, history
<1> QED
  BY <1>3, <1>4, <1>5, <1>6, <1>7 DEF IInv

LEMMA ClearInv == IInv /\ Clear => IInv'
<1> SUFFICES ASSUME IInv, Clear PROVE IInv'
  OBVIOUS
<1>1. /\ dpc \in {"starting", "turns", "gate"} /\ dpc' = "clearing" /\ w' = 1 /\ target' = Idle
      /\ job \in Jobs /\ UNCHANGED <<now, state, job, monitorVars, alerts, failures>>
  BY DEF Clear, IInv, InRange
<1>2. /\ ended' \in [Jobs -> 0..MaxTime \cup {None}]
      /\ \A j \in Jobs : ended'[j] = IF j = job THEN now ELSE ended[j]
      /\ now # None
  BY <1>1, Constants DEF Clear, IInv, TypeOK
<1>3. TypeOK'
  BY <1>1, <1>2, IdleType, Orders DEF IInv, TypeOK, monitorVars
<1>4. (InRange /\ TargetOK)'
  BY <1>1, Orders DEF IInv, InRange, TargetOK, monitorVars
<1>5. (SinceIsLive /\ ActiveIsSettled)'
  BY <1>1, <1>2, Stamped DEF IInv, SinceIsLive, ActiveIsSettled, Settled, monitorVars
<1>6. (SnapIsLive /\ IssueOwned /\ SnapInOrder)'
  BY <1>1, <1>2, Stamped DEF IInv, SnapIsLive, IssueOwned, SnapInOrder, Settled, Elapsed, monitorVars
<1>7. AlertsLatched'
  BY <1>1, <1>2 DEF IInv, AlertsLatched, NoneAlerted, Settled, monitorVars
<1> QED
  BY <1>3, <1>4, <1>5, <1>6, <1>7 DEF IInv

LEMMA GateOrStopInv == IInv /\ (EnterGate \/ Stop) => IInv'
<1> SUFFICES ASSUME IInv, EnterGate \/ Stop PROVE IInv'
  OBVIOUS
<1>1. /\ \/ dpc = "turns" /\ dpc' = "gate"
         \/ dpc' = "stopped"
      /\ UNCHANGED <<now, state, job, target, w, monitorVars, history>>
  BY DEF EnterGate, Stop
<1>2. (TypeOK /\ InRange /\ TargetOK)'
  BY <1>1 DEF IInv, TypeOK, InRange, TargetOK, Writing, monitorVars, history
<1>3. (SinceIsLive /\ ActiveIsSettled)'
  BY <1>1 DEF IInv, SinceIsLive, ActiveIsSettled, Settled, monitorVars, history
<1>4. (SnapIsLive /\ IssueOwned /\ SnapInOrder)'
  BY <1>1 DEF IInv, SnapIsLive, IssueOwned, SnapInOrder, Settled, Elapsed, monitorVars, history
<1>5. AlertsLatched'
  BY <1>1 DEF IInv, AlertsLatched, NoneAlerted, Settled, monitorVars, history
<1> QED
  BY <1>2, <1>3, <1>4, <1>5 DEF IInv

-----------------------------------------------------------------------------
(* The monitor's steps, and the passing of time.                           *)

LEMMA BeatInv == IInv /\ Beat => IInv'
<1> SUFFICES ASSUME IInv, Beat PROVE IInv'
  OBVIOUS
<1>1. /\ mpc = "wait" /\ dpc # "stopped" /\ mpc' = "read" /\ t' = now /\ r' = 1 /\ snap' = Idle
      /\ UNCHANGED <<now, state, daemonVars, history>>
  BY DEF Beat
<1>2. (TypeOK /\ InRange /\ TargetOK)'
  BY <1>1, IdleType, Orders DEF IInv, TypeOK, InRange, TargetOK, Writing, daemonVars, history
<1>3. (SinceIsLive /\ ActiveIsSettled)'
  BY <1>1, Stamped DEF IInv, SinceIsLive, ActiveIsSettled, Settled, daemonVars, history
<1>4. (SnapIsLive /\ IssueOwned /\ SnapInOrder)'
  BY <1>1 DEF IInv, SnapIsLive, IssueOwned, SnapInOrder, Idle, daemonVars, history
<1>5. AlertsLatched'
  BY <1>1 DEF IInv, AlertsLatched, NoneAlerted, Settled, daemonVars, history
<1> QED
  BY <1>2, <1>3, <1>4, <1>5 DEF IInv

LEMMA ReadInv == IInv /\ Read => IInv'
<1> SUFFICES ASSUME IInv, Read PROVE IInv'
  OBVIOUS
<1>1. /\ mpc = "read" /\ r \in 1..6 /\ r' = r + 1 /\ mpc' = IF r < 6 THEN mpc ELSE "judge"
      /\ UNCHANGED <<now, state, daemonVars, t, history>>
  BY Orders DEF Read, IInv, InRange
<1>2. /\ snap' \in LivenessStates
      /\ snap'.issue = IF r = 4 THEN state.issue ELSE snap.issue
      /\ snap'.since = IF r = 2 THEN state.since ELSE snap.since
      /\ snap'.alerted = IF r = 1 THEN state.alerted ELSE snap.alerted
      /\ snap'.active = IF r = 5 THEN state.active ELSE snap.active
  <2>1. snap' = [snap EXCEPT ![ReadOrder[r]] = state[ReadOrder[r]]]
    BY DEF Read
  <2>2. snap \in LivenessStates /\ state \in LivenessStates
    BY DEF IInv, TypeOK
  <2>3. CASE r = 1
    BY <2>1, <2>2, <2>3, Orders DEF LivenessStates
  <2>4. CASE r = 2
    BY <2>1, <2>2, <2>4, Orders DEF LivenessStates
  <2>5. CASE r = 3
    BY <2>1, <2>2, <2>5, Orders DEF LivenessStates
  <2>6. CASE r = 4
    BY <2>1, <2>2, <2>6, Orders DEF LivenessStates
  <2>7. CASE r = 5
    BY <2>1, <2>2, <2>7, Orders DEF LivenessStates
  <2>8. CASE r = 6
    BY <2>1, <2>2, <2>8, Orders DEF LivenessStates
  <2> QED
    BY <1>1, <2>3, <2>4, <2>5, <2>6, <2>7, <2>8
<1>3. (TypeOK /\ InRange /\ TargetOK)'
  BY <1>1, <1>2, Orders DEF IInv, TypeOK, InRange, TargetOK, Writing, daemonVars, history
<1>4. (SinceIsLive /\ ActiveIsSettled)'
  BY <1>1 DEF IInv, SinceIsLive, ActiveIsSettled, Settled, daemonVars, history
<1>5. SnapIsLive'
  <2>1. CASE r = 2
    BY <1>1, <1>2, <2>1, Stamped DEF IInv, SnapIsLive, SinceIsLive, SnapInOrder, Settled, daemonVars, history
  <2>2. CASE r = 5
    BY <1>1, <1>2, <2>2 DEF IInv, SnapIsLive, ActiveIsSettled, Settled, daemonVars, history
  <2>3. CASE r \notin {2, 5}
    BY <1>1, <1>2, <2>3 DEF IInv, SnapIsLive, Settled, daemonVars, history
  <2> QED
    BY <2>1, <2>2, <2>3
<1>6. SnapInOrder'
  BY <1>1, <1>2 DEF IInv, SnapInOrder
<1>7. AlertsLatched'
  BY <1>1, <1>2 DEF IInv, AlertsLatched, NoneAlerted, Settled, daemonVars, history
<1>8. IssueOwned'
  BY <1>1, <1>2 DEF IInv, IssueOwned, SnapInOrder, daemonVars, history
<1> QED
  BY <1>3, <1>4, <1>5, <1>6, <1>7, <1>8 DEF IInv

\* A step of the monitor that keeps what it has copied, or ends the tick.
LEMMA MonitorStep ==
  ASSUME IInv, UNCHANGED <<now, state, daemonVars, alerts, ended>>, failures' \in 0..MaxFailures,
         \/ UNCHANGED <<t, snap, r>> /\ mpc' # "wait"
         \/ t' = 0 /\ snap' = Idle /\ r' = 1 /\ mpc' = "wait",
         mpc' \in {"wait", "stall", "recheck", "hang", "exited"}, mpc' = "exited" => mpc = "wait",
         mpc \notin {"read", "latch_stall", "latch_hang", "hung"},
         mpc' \in {"stall", "recheck", "hang"} => snap.since # None,
         mpc' = "stall" => Elapsed(snap.since) > StallS,
         mpc' = "hang" => snap.active,
         mpc' \in {"stall", "hang"} => NoneAlerted
  PROVE  IInv'
<1>1. (TypeOK /\ InRange /\ TargetOK)'
  BY IdleType, Stamped, Orders DEF IInv, TypeOK, InRange, TargetOK, Writing, daemonVars
<1>2. (SinceIsLive /\ ActiveIsSettled)'
  <2>1. t' <= t /\ t' \in Nat /\ t \in Nat
    BY Stamped DEF IInv
  <2>2. \A j \in Jobs : ended[j] # None => ended[j] \in Nat
    BY DEF IInv, TypeOK
  <2> QED
    BY <2>1, <2>2, Stamped DEF IInv, SinceIsLive, ActiveIsSettled, Settled, daemonVars
<1>3. (SnapIsLive /\ IssueOwned /\ SnapInOrder)'
  BY DEF IInv, SnapIsLive, IssueOwned, SnapInOrder, Settled, Elapsed, Idle, daemonVars
<1>4. AlertsLatched'
  BY DEF IInv, AlertsLatched, NoneAlerted, Settled, daemonVars
<1> QED
  BY <1>1, <1>2, <1>3, <1>4 DEF IInv

LEMMA ExitInv == IInv /\ Exit => IInv'
BY MonitorStep DEF Exit, history, IInv, TypeOK

LEMMA JudgeInv == IInv /\ Judge => IInv'
<1> SUFFICES ASSUME IInv, Judge PROVE IInv'
  OBVIOUS
<1>1. mpc = "judge" /\ UNCHANGED <<now, state, daemonVars, alerts, ended>> /\ failures' \in 0..MaxFailures
  BY DEF Judge, history, IInv, TypeOK
<1>2. \/ t' = 0 /\ snap' = Idle /\ r' = 1 /\ mpc' = "wait"
      \/ /\ UNCHANGED <<t, snap, r>> /\ mpc' \in {"stall", "recheck"}
         /\ snap.since # None /\ ~ snap.alerted
         /\ mpc' = "stall" => Elapsed(snap.since) > StallS
  BY DEF Judge, Return
<1>3. ~ snap.alerted => NoneAlerted
  BY <1>1 DEF IInv, AlertsLatched
<1> QED
  BY <1>1, <1>2, <1>3, MonitorStep

LEMMA RecheckInv == IInv /\ Recheck => IInv'
<1> SUFFICES ASSUME IInv, Recheck PROVE IInv'
  OBVIOUS
<1>1. mpc = "recheck" /\ UNCHANGED <<now, state, daemonVars, alerts, ended>> /\ failures' \in 0..MaxFailures
  BY DEF Recheck, history, IInv, TypeOK
<1>2. \/ t' = 0 /\ snap' = Idle /\ r' = 1 /\ mpc' = "wait"
      \/ /\ UNCHANGED <<t, snap, r>> /\ mpc' = "hang"
         /\ snap.active /\ ~ state.alerted
  BY DEF Recheck, Return
<1>3. snap.since # None /\ (~ state.alerted => NoneAlerted)
  BY <1>1 DEF IInv, SnapInOrder, AlertsLatched, NoneAlerted
<1> QED
  BY <1>1, <1>2, <1>3, MonitorStep

\* An alert about an open episode finds no method half done: for the wall-clock
\* predicate time has passed since its start, for the other the worker flag,
\* assigned last, has been read.
LEMMA AlertedIsSettled ==
  ASSUME IInv, mpc \in {"stall", "hang"}, ended[snap.since.job] = None
  PROVE  Settled(snap.since.job)
<1>1. snap.since # None
  BY DEF IInv, SnapInOrder
<1>2. mpc = "stall" => t > snap.since.at
  BY <1>1, Stamped, Constants DEF IInv, SnapInOrder, Elapsed
<1> QED
  BY <1>1, <1>2 DEF IInv, SnapIsLive, SnapInOrder

\* An alert that is on its way to its issue, delivered or not known to be.
LEMMA Alerting ==
  ASSUME IInv, mpc \in {"stall", "hang"}, UNCHANGED <<now, state, daemonVars, t, snap, r, failures, ended>>,
         \/ UNCHANGED alerts /\ mpc' = "hung"
         \/ /\ alerts' = [alerts EXCEPT ![snap.since.job] = IF @ < 2 THEN @ + 1 ELSE @]
            /\ mpc' \in {"latch_stall", "latch_hang", "hung"}
  PROVE  IInv'
<1> DEFINE j == snap.since.job
<1>1. snap.since # None /\ j \in Jobs /\ NoneAlerted
  BY Stamped DEF IInv, SnapInOrder, AlertsLatched
<1>2. /\ alerts' \in [Jobs -> 0..2]
      /\ \A k \in Jobs : k # j => alerts'[k] = alerts[k]
  BY <1>1 DEF IInv, TypeOK
<1>3. ended[j] = None => Settled(j)
  BY AlertedIsSettled
<1>4. (TypeOK /\ InRange /\ TargetOK)'
  BY <1>2 DEF IInv, TypeOK, InRange, TargetOK, Writing, daemonVars
<1>5. (SinceIsLive /\ ActiveIsSettled /\ SnapIsLive /\ IssueOwned /\ SnapInOrder)'
  BY <1>1 DEF IInv, SinceIsLive, ActiveIsSettled, SnapIsLive, IssueOwned, SnapInOrder, Settled, daemonVars
<1>6. AlertsLatched'
  BY <1>1, <1>2, <1>3 DEF AlertsLatched, NoneAlerted, Settled, daemonVars
<1> QED
  BY <1>4, <1>5, <1>6 DEF IInv

LEMMA AlertInv == IInv /\ Alert => IInv'
<1> SUFFICES ASSUME IInv, Alert PROVE IInv'
  OBVIOUS
<1>1. /\ mpc \in {"stall", "hang"} /\ UNCHANGED <<now, state, daemonVars, ended>>
      /\ snap.since # None
  BY DEF Alert, IInv, SnapInOrder
<1>2. CASE /\ alerts' = [alerts EXCEPT ![snap.since.job] = IF @ < 2 THEN @ + 1 ELSE @]
           /\ Return(IF mpc = "stall" THEN "latch_stall" ELSE "latch_hang")
           /\ UNCHANGED failures
  <2>1. mpc' \in {"latch_stall", "latch_hang"} /\ UNCHANGED <<t, snap, r>>
    BY <1>2 DEF Return
  <2> QED
    BY <1>1, <1>2, <2>1, Alerting
<1>3. CASE /\ failures' \in {failures, failures + 1} /\ (failures' = failures \/ failures < MaxFailures)
           /\ Return(IF mpc = "stall" THEN "recheck" ELSE "wait")
           /\ UNCHANGED alerts
  <2>1. failures' \in 0..MaxFailures
    BY <1>3, Constants DEF IInv, TypeOK
  <2>2. \/ t' = 0 /\ snap' = Idle /\ r' = 1 /\ mpc' = "wait"
        \/ UNCHANGED <<t, snap, r>> /\ mpc' = "recheck"
    BY <1>3 DEF Return
  <2> QED
    BY <1>1, <1>3, <2>1, <2>2, MonitorStep
<1> QED
  BY <1>2, <1>3 DEF Alert

LEMMA AlertHangsInv == IInv /\ AlertHangs => IInv'
BY Alerting DEF AlertHangs

LEMMA LatchInv == IInv /\ Latch => IInv'
<1> SUFFICES ASSUME IInv, Latch PROVE IInv'
  OBVIOUS
<1>1. /\ mpc \in {"latch_stall", "latch_hang"} /\ UNCHANGED <<now, daemonVars, history>>
      /\ \/ t' = 0 /\ snap' = Idle /\ r' = 1 /\ mpc' = "wait"
         \/ UNCHANGED <<t, snap, r>> /\ mpc' = "recheck"
  BY DEF Latch, Return
<1>2. /\ state' \in LivenessStates /\ state'.alerted
      /\ state'.since = state.since /\ state'.active = state.active /\ state'.issue = state.issue
  <2>1. state \in LivenessStates /\ state' = [state EXCEPT !.alerted = TRUE]
    BY DEF Latch, IInv, TypeOK
  <2> QED
    BY <2>1 DEF LivenessStates
<1>3. (TypeOK /\ InRange /\ TargetOK)'
  BY <1>1, <1>2, IdleType, Stamped, Orders
     DEF IInv, TypeOK, InRange, TargetOK, Writing, daemonVars, history
<1>4. (SinceIsLive /\ ActiveIsSettled)'
  <2>1. t' <= t /\ t' \in Nat /\ t \in Nat
    BY <1>1, Stamped DEF IInv
  <2>2. \A j \in Jobs : ended[j] # None => ended[j] \in Nat
    BY DEF IInv, TypeOK
  <2> QED
    BY <1>1, <1>2, <2>1, <2>2, Stamped DEF IInv, SinceIsLive, ActiveIsSettled, Settled, daemonVars, history
<1>5. (SnapIsLive /\ IssueOwned /\ SnapInOrder)'
  BY <1>1, <1>2 DEF IInv, SnapIsLive, IssueOwned, SnapInOrder, Settled, Idle, daemonVars, history
<1>6. AlertsLatched'
  BY <1>1, <1>2 DEF IInv, AlertsLatched, Settled, daemonVars, history
<1> QED
  BY <1>3, <1>4, <1>5, <1>6 DEF IInv

\* Time stands still while the daemon assigns.
LEMMA TickInv == IInv /\ Tick => IInv'
<1> SUFFICES ASSUME IInv, Tick PROVE IInv'
  OBVIOUS
<1>1. /\ now < MaxTime /\ ~ Writing /\ now' = now + 1
      /\ UNCHANGED <<state, daemonVars, monitorVars, history>>
  BY DEF Tick
<1>2. (TypeOK /\ InRange /\ TargetOK)'
  BY <1>1, Constants DEF IInv, TypeOK, InRange, TargetOK, Writing, daemonVars, monitorVars, history
<1>3. (SinceIsLive /\ ActiveIsSettled /\ SnapIsLive /\ IssueOwned /\ SnapInOrder)'
  BY <1>1 DEF IInv, SinceIsLive, ActiveIsSettled, SnapIsLive, IssueOwned, SnapInOrder, Settled, Writing, Elapsed,
              daemonVars, monitorVars, history
<1>4. AlertsLatched'
  BY <1>1 DEF IInv, AlertsLatched, NoneAlerted, Settled, daemonVars, monitorVars, history
<1> QED
  BY <1>2, <1>3, <1>4 DEF IInv

-----------------------------------------------------------------------------
LEMMA InitInv == Init => IInv
<1> SUFFICES ASSUME Init PROVE IInv
  OBVIOUS
<1>1. Idle.since = None /\ Idle.active = FALSE /\ Idle.alerted = FALSE
  BY DEF Idle
<1>2. TypeOK
  BY IdleType, Orders, Constants DEF Init, TypeOK
<1> QED
  BY <1>1, <1>2 DEF Init, IInv, InRange, TargetOK, Writing, SinceIsLive, ActiveIsSettled, SnapIsLive,
     IssueOwned, SnapInOrder, AlertsLatched

LEMMA NextInv == IInv /\ [Next]_vars => IInv'
<1> SUFFICES ASSUME IInv, [Next]_vars PROVE IInv'
  OBVIOUS
<1>1. CASE Next
  BY <1>1, MarkInv, AssignInv, NoteProgressInv, ClearInv, GateOrStopInv, BeatInv, ReadInv, ExitInv,
     JudgeInv, RecheckInv, AlertInv, AlertHangsInv, LatchInv, TickInv DEF Next, Daemon, Monitor
<1>2. CASE UNCHANGED vars
  BY <1>2 DEF vars, IInv, TypeOK, InRange, TargetOK, SinceIsLive, ActiveIsSettled, SnapIsLive,
     IssueOwned, SnapInOrder, AlertsLatched, NoneAlerted, Settled, Writing, Elapsed, daemonVars, monitorVars, history
<1> QED
  BY <1>1, <1>2

\* Every interleaving of the daemon's assignments with the monitor's reads
\* keeps the invariant.
THEOREM Inductive == Spec => []IInv
BY InitInv, NextInv, PTL DEF Spec

\* The shared fields, the snapshot and the counters keep their types.
THEOREM TypeCorrect == Spec => []TypeOK
<1>1. IInv => TypeOK
  BY DEF IInv
<1> QED
  BY <1>1, Inductive, PTL

\* _heartbeat_tick reports no stall that is none: the time it gives is that of a
\* job in hand for longer than the threshold, and it reports it on that job's
\* issue, unless the job ended while the tick was reading.
THEOREM StallAlertsAreReal == Spec => []StallsAreReal
<1> DEFINE j == snap.since.job
<1>1. IInv /\ mpc = "stall" => Later(ended[j]) - snap.since.at > StallS
  <2> SUFFICES ASSUME IInv, mpc = "stall" PROVE Later(ended[j]) - snap.since.at > StallS
    OBVIOUS
  <2>1. /\ snap.since # None /\ t - snap.since.at > StallS /\ j \in Jobs
        /\ now \in Nat /\ t \in Nat /\ snap.since.at \in Nat /\ t <= now
    BY Stamped DEF IInv, SnapInOrder, Elapsed
  <2>2. t <= Later(ended[j]) /\ Later(ended[j]) \in Nat
    BY <2>1 DEF IInv, TypeOK, SnapIsLive, Later
  <2> QED
    BY <2>1, <2>2, Constants
<1>2. IInv /\ mpc \in {"stall", "hang"} /\ snap.issue # j => ended[j] # None /\ t <= ended[j]
  BY DEF IInv, SnapInOrder, IssueOwned, SnapIsLive
<1>3. IInv => StallsAreReal
  BY <1>1, <1>2 DEF StallsAreReal
<1> QED
  BY <1>3, Inductive, PTL

\* While a job is in progress it is alerted about once, by one predicate.
THEOREM AlertsOncePerEpisode == Spec => []OneAlertPerEpisode
<1>1. IInv => OneAlertPerEpisode
  <2> SUFFICES ASSUME IInv, mpc \in {"stall", "hang"}, ended[snap.since.job] = None
               PROVE  alerts[snap.since.job] = 0
    BY DEF OneAlertPerEpisode
  <2>1. snap.since # None /\ snap.since.job \in Jobs /\ NoneAlerted
    BY Stamped DEF IInv, SnapInOrder, AlertsLatched
  <2> QED
    BY <2>1 DEF NoneAlerted, IInv, TypeOK
<1> QED
  BY <1>1, Inductive, PTL
=============================================================================
