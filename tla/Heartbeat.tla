----------------------------- MODULE Heartbeat -----------------------------
(***************************************************************************)
(* The stall monitor (chain/heartbeat.py).  LivenessState is one mutable   *)
(* record shared without a lock by two threads: the daemon, which marks an *)
(* issue in progress, notes its worker's turns and clears it, and the      *)
(* monitor, which wakes up periodically, copies the fields one at a time   *)
(* and alerts.  Each field assignment is atomic under the GIL; a method    *)
(* that assigns several fields is not, and neither is the snapshot.        *)
(*                                                                         *)
(* A job is one issue in progress in one dispatch, an "episode" of the     *)
(* source.  Time stands still while the daemon is between two assignments  *)
(* of one method; it may pass between any two steps of the monitor, which  *)
(* does I/O in between.                                                    *)
(***************************************************************************)
EXTENDS Integers, Sequences

CONSTANTS
  Jobs,         \* the episodes in their order, each of a different issue
  StallS,       \* heartbeat_stall_s
  ProgressS,    \* worker_progress_stall_s
  MaxTime,      \* bound on the clock
  MaxFailures,  \* bound on alerts that cannot be delivered
  None

ASSUME ConstantsOK ==
  /\ Jobs \subseteq Nat /\ None \notin Nat
  /\ {StallS, ProgressS, MaxTime, MaxFailures} \subseteq Nat

VARIABLES
  now,
  state,        \* LivenessState
  dpc, job,     \* the daemon, and the job it works on
  target, w,    \* the values it is assigning to state, and how far it is
  mpc, t,       \* the monitor, and the time its tick captured
  snap, r,      \* its copies of the fields, and how far it is
  alerts,       \* alerts delivered about each job, counted up to two
  failures,     \* alerts not delivered
  ended         \* when each job was cleared

daemonVars  == <<dpc, job, target, w>>
monitorVars == <<mpc, t, snap, r>>
history     == <<alerts, failures, ended>>
vars == <<now, state, daemonVars, monitorVars, history>>

\* Mutant of WriteOrder: the start is written before the issue.
SinceFirst == <<"since", "repo", "issue", "alerted", "active">>

\* The fields in the order mark_in_progress and clear assign them, and in the
\* order _heartbeat_tick copies them.  "repo" stands for owner and repo, which
\* are the same for every job: a daemon serves one repository.
WriteOrder == <<"repo", "issue", "since", "alerted", "active">>
ReadOrder  == <<"alerted", "since", "repo", "issue", "active", "progress">>

\* Timestamps carry the job they were taken for, which only properties read.
Stamps == [job : Jobs, at : 0..MaxTime]

Repo == "repo"

Idle == [repo |-> None, issue |-> None, since |-> None,
         alerted |-> FALSE, active |-> FALSE, progress |-> None]

LivenessStates ==
  [repo : {Repo, None}, issue : Jobs \cup {None}, since : Stamps \cup {None},
   alerted : BOOLEAN, active : BOOLEAN, progress : Stamps \cup {None}]

Writing == dpc \in {"marking", "clearing"}

-----------------------------------------------------------------------------
(* The daemon thread.                                                      *)

\* mark_in_progress: dispatch (active) or re-entry into the CI gate (not).
Mark(j, active) ==
  /\ dpc = "free" /\ ended[j] = None /\ \A k \in Jobs : k < j => ended[k] # None
  /\ dpc' = "marking" /\ job' = j /\ w' = 1
  /\ target' = [Idle EXCEPT !.repo = Repo, !.issue = j, !.active = active,
                            !.since = [job |-> j, at |-> now]]
  /\ UNCHANGED <<now, state, monitorVars, history>>

\* On to the next assignment, or out of the method; a dispatched job then goes
\* on to prepare its worker's run.
Assigned ==
  IF w < Len(WriteOrder)
    THEN w' = w + 1 /\ UNCHANGED <<dpc, job, target>>
    ELSE /\ w' = 1 /\ target' = Idle
         /\ dpc' = IF dpc = "clearing" THEN "free" ELSE IF target.active THEN "starting" ELSE "gate"
         /\ job' = IF dpc = "clearing" THEN None ELSE job

\* One assignment.
Assign ==
  /\ Writing
  /\ state' = [state EXCEPT ![WriteOrder[w]] = target[WriteOrder[w]]]
  /\ Assigned
  /\ UNCHANGED <<now, monitorVars, history>>

\* Mutant of NoteProgress: the callback outlives its job.
NoteProgressLate ==
  /\ ~ Writing /\ dpc # "stopped"
  /\ state' = [state EXCEPT !.progress = [job |-> job, at |-> now]]
  /\ UNCHANGED <<now, daemonVars, monitorVars, history>>

\* note_progress, from the callback at the head of every worker turn.
NoteProgress ==
  /\ dpc \in {"starting", "turns"}
  /\ state' = [state EXCEPT !.progress = [job |-> job, at |-> now]]
  /\ dpc' = "turns"
  /\ UNCHANGED <<now, job, target, w, monitorVars, history>>

\* The worker is through; its issue enters the CI gate with no further call
\* on the liveness state.
EnterGate ==
  /\ dpc = "turns" /\ dpc' = "gate"
  /\ UNCHANGED <<now, state, job, target, w, monitorVars, history>>

\* clear(), at the end of the gate or when the issue is parked.
Clear ==
  /\ dpc \in {"starting", "turns", "gate"}
  /\ dpc' = "clearing" /\ w' = 1 /\ target' = Idle
  /\ ended' = [ended EXCEPT ![job] = now]
  /\ UNCHANGED <<now, state, job, monitorVars, alerts, failures>>

\* The poll loop is left, at any point, and its finally clause sets stop_event.
Stop ==
  /\ dpc # "stopped" /\ dpc' = "stopped"
  /\ UNCHANGED <<now, state, job, target, w, monitorVars, history>>

Daemon ==
  \/ \E j \in Jobs, active \in BOOLEAN : Mark(j, active)
  \/ Assign \/ NoteProgress \/ EnterGate \/ Clear \/ Stop

-----------------------------------------------------------------------------
(* The monitor thread: run_heartbeat_loop and _heartbeat_tick.             *)

\* The wait for stop_event timed out: a new tick captures the time.
Beat ==
  /\ mpc = "wait" /\ dpc # "stopped"
  /\ mpc' = "read" /\ t' = now /\ r' = 1 /\ snap' = Idle
  /\ UNCHANGED <<now, state, daemonVars, history>>

Exit ==
  /\ mpc = "wait" /\ dpc = "stopped"
  /\ mpc' = "exited"
  /\ UNCHANGED <<now, state, daemonVars, t, snap, r, history>>

Read ==
  /\ mpc = "read"
  /\ snap' = [snap EXCEPT ![ReadOrder[r]] = state[ReadOrder[r]]]
  /\ r' = r + 1
  /\ mpc' = IF r < Len(ReadOrder) THEN mpc ELSE "judge"
  /\ UNCHANGED <<now, state, daemonVars, t, history>>

Elapsed(stamp) == t - stamp.at

\* The tick's locals are gone when it is over.
Return(next) ==
  IF next = "wait" THEN mpc' = next /\ t' = 0 /\ snap' = Idle /\ r' = 1
                   ELSE mpc' = next /\ UNCHANGED <<t, snap, r>>

\* The wall-clock predicate, on the snapshot alone.
Judge ==
  /\ mpc = "judge"
  /\ Return(IF snap.since = None \/ snap.alerted THEN "wait"
            ELSE IF Elapsed(snap.since) > StallS THEN "stall" ELSE "recheck")
  /\ UNCHANGED <<now, state, daemonVars, history>>

\* The progress predicate, on the snapshot and on the live debounce flag.
Recheck ==
  /\ mpc = "recheck"
  /\ Return(IF /\ snap.active /\ snap.progress # None /\ ~ state.alerted
               /\ Elapsed(snap.progress) > ProgressS
              THEN "hang" ELSE "wait")
  /\ UNCHANGED <<now, state, daemonVars, history>>

\* Mutant of Alert: an alert counts as delivered whatever alert() returned.
AlertAssumed ==
  /\ mpc \in {"stall", "hang"}
  /\ \/ /\ snap.issue # None /\ snap.repo # None
        /\ alerts' = [alerts EXCEPT ![snap.since.job] = IF @ < 2 THEN @ + 1 ELSE @]
        /\ UNCHANGED failures
     \/ /\ \/ failures < MaxFailures /\ failures' = failures + 1
           \/ None \in {snap.issue, snap.repo} /\ UNCHANGED failures
        /\ UNCHANGED alerts
  /\ Return(IF mpc = "stall" THEN "latch_stall" ELSE "latch_hang")
  /\ UNCHANGED <<now, state, daemonVars, ended>>

\* alert() returns whether the comment landed; without an issue or a
\* repository it has nowhere to land.
Alert ==
  /\ mpc \in {"stall", "hang"}
  /\ \/ /\ snap.issue # None /\ snap.repo # None
        /\ alerts' = [alerts EXCEPT ![snap.since.job] = IF @ < 2 THEN @ + 1 ELSE @]
        /\ Return(IF mpc = "stall" THEN "latch_stall" ELSE "latch_hang")
        /\ UNCHANGED failures
     \/ /\ \/ failures < MaxFailures /\ failures' = failures + 1
           \/ None \in {snap.issue, snap.repo} /\ UNCHANGED failures
        /\ Return(IF mpc = "stall" THEN "recheck" ELSE "wait")
        /\ UNCHANGED alerts
  /\ UNCHANGED <<now, state, daemonVars, ended>>

\* Mutant of Latch: the debounce is not written back.
LatchNot ==
  /\ mpc \in {"latch_stall", "latch_hang"}
  /\ Return(IF mpc = "latch_stall" THEN "recheck" ELSE "wait")
  /\ UNCHANGED <<now, state, daemonVars, history>>

\* The write-back to the shared record.
Latch ==
  /\ mpc \in {"latch_stall", "latch_hang"}
  /\ state' = [state EXCEPT !.alerted = TRUE]
  /\ Return(IF mpc = "latch_stall" THEN "recheck" ELSE "wait")
  /\ UNCHANGED <<now, daemonVars, history>>

\* gh issue comment has no time limit: the monitor may never come back from it,
\* whether or not the comment lands.
AlertHangs ==
  /\ mpc \in {"stall", "hang"} /\ snap.issue # None
  /\ \/ UNCHANGED alerts
     \/ /\ snap.repo # None
        /\ alerts' = [alerts EXCEPT ![snap.since.job] = IF @ < 2 THEN @ + 1 ELSE @]
  /\ mpc' = "hung"
  /\ UNCHANGED <<now, state, daemonVars, t, snap, r, failures, ended>>

Monitor == Beat \/ Exit \/ Read \/ Judge \/ Recheck \/ Alert \/ AlertHangs \/ Latch

-----------------------------------------------------------------------------
Tick ==
  /\ now < MaxTime /\ ~ Writing
  /\ now' = now + 1
  /\ UNCHANGED <<state, daemonVars, monitorVars, history>>

Init ==
  /\ now = 0 /\ state = Idle
  /\ dpc = "free" /\ job = None /\ target = Idle /\ w = 1
  /\ mpc = "wait" /\ t = 0 /\ snap = Idle /\ r = 1
  /\ alerts = [j \in Jobs |-> 0] /\ failures = 0
  /\ ended = [j \in Jobs |-> None]

Next == Daemon \/ Monitor \/ Tick

Spec == Init /\ [][Next]_vars

\* The monitor goes on until it is stopped or hangs in an alert's gh call; its
\* waits and its other calls have time limits.  Assignments complete, and time
\* passes; the daemon may stay in a turn or in the gate for ever.
FairSpec == Spec /\ WF_vars(Monitor) /\ WF_vars(Assign) /\ WF_vars(Tick)

-----------------------------------------------------------------------------
TypeOK ==
  /\ now \in 0..MaxTime /\ t \in 0..now
  /\ state \in LivenessStates /\ target \in LivenessStates /\ snap \in LivenessStates
  /\ dpc \in {"free", "marking", "starting", "turns", "gate", "clearing", "stopped"}
  /\ job \in Jobs \cup {None}
  /\ w \in 1..Len(WriteOrder) + 1 /\ r \in 1..Len(ReadOrder) + 1
  /\ mpc \in {"wait", "read", "judge", "stall", "latch_stall", "recheck", "hang",
              "latch_hang", "hung", "exited"}
  /\ alerts \in [Jobs -> 0..2] /\ failures \in 0..MaxFailures
  /\ ended \in [Jobs -> 0..MaxTime \cup {None}]

Later(time) == IF time = None THEN now ELSE time

\* However reads and writes interleave, the time in a wall-clock alert is that of
\* a job that was in hand for longer than the threshold, and an alert of either
\* predicate goes to the issue of the job whose start was read, or else that job
\* ended after the tick had begun: a mixed alert is never about a stuck job.
StallsAreReal ==
  /\ mpc = "stall" => Later(ended[snap.since.job]) - snap.since.at > StallS
  /\ mpc \in {"stall", "hang"} /\ snap.issue # snap.since.job
       => ended[snap.since.job] # None /\ t <= ended[snap.since.job]

\* IS-4, one alert per stuck episode: while a job is in progress, no second
\* alert is raised about it by either predicate.
OneAlertPerEpisode ==
  mpc \in {"stall", "hang"} /\ ended[snap.since.job] = None
    => alerts[snap.since.job] = 0

\* A job that outlives the threshold is alerted about, or ends: neither the
\* torn snapshots nor an alert that did not land silence the monitor.  Two things
\* may: an alert about an earlier episode whose flag is written back after this
\* one has begun, and a gh call that never returns.
StallIsAlerted ==
  \A j \in Jobs :
    dpc \in {"starting", "turns", "gate"} /\ job = j /\ now - state.since.at > StallS
      ~> \/ alerts[j] > 0 \/ ended[j] # None \/ dpc = "stopped" \/ mpc = "hung"
         \/ state.alerted /\ \E k \in Jobs \ {j} : alerts[k] > 0

-----------------------------------------------------------------------------
\* "Snapshot all relevant fields into locals before any conditional logic to
\* avoid torn reads [...] which could cause [...] (b) a mixed-issue alert if two
\* fields come from different issues": an alert names the issue of the job whose
\* time it gives.
AlertsAreWhole == mpc \in {"stall", "hang"} => snap.issue \in {None, snap.since.job}
=============================================================================
