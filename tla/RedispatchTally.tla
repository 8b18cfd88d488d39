--------------------------- MODULE RedispatchTally ---------------------------
(***************************************************************************)
(* The durable tally behind re-dispatch-loop detection                     *)
(* (chain/redispatch.py), as the poll loop and the work-unit loop use it:  *)
(* advance_tick at the start of every poll cycle, record_and_check when an *)
(* orphan is about to be re-dispatched, at most once per issue and cycle   *)
(* (poll.py visits a milestone once per tick).  Both change memory first   *)
(* and then replace the file, which may fail silently; a crash may come in *)
(* between, and the next daemon starts from the file.                      *)
(*                                                                         *)
(* The tally forgets marks outside the window and counts ticks it may have *)
(* lost; cycle, attempts and refusals record what really happened.         *)
(***************************************************************************)
EXTENDS Integers, FiniteSets

CONSTANTS
  Issues,
  WindowTicks,  \* window_ticks
  MaxCount,     \* max_count
  MaxCycles,    \* bound on the poll cycles
  MaxFaults     \* bound on the writes that fail

ASSUME ConstantsOK ==
  /\ IsFiniteSet(Issues)
  /\ {WindowTicks, MaxCount, MaxCycles, MaxFaults} \subseteq Nat

VARIABLES
  tick, marks,        \* _tick and _issues
  file,               \* the two as last persisted
  pc,                 \* what the tally is in the middle of
  cur,                \* the issue it is recording
  cycle, attempts, refusals, faults   \* history

memory  == <<tick, marks>>
history == <<cycle, attempts, refusals>>
vars == <<memory, file, pc, cur, history, faults>>

\* What the tally promises, over its own account of what really happened.
Limiter == INSTANCE RestartLimiter
             WITH cycle <- cycle, attempts <- attempts, refusals <- refusals

\* Mutant of Pruned: the oldest mark of the window is dropped too.
PrunedEarly(ms) == {m \in ms : m > tick - WindowTicks + 1}

\* record_and_check keeps the marks above the lower bound.
Pruned(ms) == {m \in ms : m > tick - WindowTicks}

\* exceeds_threshold
Exceeds(ms) ==
  Cardinality({m \in ms : tick - WindowTicks < m /\ m <= tick}) > MaxCount

\* _persist: a temporary file replaces the file, or nothing happens.
Persisted ==
  \/ file' = [tick |-> tick, marks |-> marks] /\ UNCHANGED faults
  \/ faults < MaxFaults /\ faults' = faults + 1 /\ UNCHANGED file

-----------------------------------------------------------------------------
\* advance_tick, up to its write; a new daemon calls it before anything else.
AdvanceTick ==
  /\ pc \in {"ready", "starting"} /\ cycle < MaxCycles
  /\ tick' = tick + 1
  /\ pc' = "advancing"
  /\ UNCHANGED <<marks, file, cur, history, faults>>

PersistTick ==
  /\ pc = "advancing" /\ Persisted
  /\ pc' = "ready"
  /\ cycle' = cycle + 1
  /\ UNCHANGED <<memory, cur, attempts, refusals>>

\* record_and_check, up to its write: append, prune.
Record(i) ==
  /\ pc = "ready" /\ cycle \notin attempts[i]
  /\ marks' = [marks EXCEPT ![i] = Pruned(@ \cup {tick})]
  /\ pc' = "recording" /\ cur' = {i}
  /\ UNCHANGED <<tick, file, history, faults>>

\* The write, and the verdict on which the caller dispatches or parks.
Check(i) ==
  /\ pc = "recording" /\ cur = {i} /\ Persisted
  /\ pc' = "ready" /\ cur' = {}
  /\ attempts' = [attempts EXCEPT ![i] = @ \cup {cycle}]
  /\ refusals' = [refusals EXCEPT ![i] = IF Exceeds(marks[i]) THEN @ \cup {cycle} ELSE @]
  /\ UNCHANGED <<memory, cycle>>

\* Mutant of Load: a restart does not read the file.
LoadNothing == tick' = 0 /\ marks' = [i \in Issues |-> {}]

\* _load, in the next daemon.
Load == tick' = file.tick /\ marks' = file.marks

\* Mutant of Restart: the issue that was being recorded is remembered.
RestartMidway ==
  /\ pc # "starting" /\ pc' = "starting"
  /\ Load
  /\ UNCHANGED <<file, cur, history, faults>>

Restart ==
  /\ pc # "starting" /\ pc' = "starting"
  /\ Load
  /\ cur' = {}
  /\ UNCHANGED <<file, history, faults>>

Init ==
  /\ tick = 0 /\ marks = [i \in Issues |-> {}]
  /\ file = [tick |-> 0, marks |-> [i \in Issues |-> {}]]
  /\ pc = "starting" /\ cur = {}
  /\ Limiter!LimiterInit
  /\ faults = 0

Next ==
  \/ AdvanceTick \/ PersistTick \/ Restart
  \/ \E i \in Issues : Record(i) \/ Check(i)

Spec == Init /\ [][Next]_vars

-----------------------------------------------------------------------------
Marks == [Issues -> SUBSET (0..MaxCycles)]

TypeOK ==
  /\ tick \in 0..MaxCycles /\ marks \in Marks
  /\ file \in [tick : 0..MaxCycles, marks : Marks]
  /\ pc \in {"starting", "ready", "advancing", "recording"}
  /\ cur \in SUBSET Issues /\ (cur # {}) = (pc = "recording")
  /\ cycle \in 0..MaxCycles
  /\ attempts \in Marks /\ refusals \in Marks
  /\ faults \in 0..MaxFaults

\* Until a write fails, the pruned marks and the file behave like a complete
\* memory that no crash touches: "state is persisted so that a daemon restart
\* inherits the accumulated history".
Limits ==
  /\ Limiter!LimiterInit
  /\ [][faults' = 0 => Limiter!LimiterNext]_Limiter!limiterVars

\* A crash-restart loop is cut off even when writes fail: the re-dispatches
\* allowed in any window exceed the maximum by at most the writes lost.
RateBound ==
  \A i \in Issues : \A c \in 1..cycle :
    Cardinality(Limiter!Window(attempts[i] \ refusals[i], c)) <= MaxCount + faults
=============================================================================
