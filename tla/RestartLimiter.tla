--------------------------- MODULE RestartLimiter ---------------------------
(***************************************************************************)
(* What re-dispatch-loop detection promises, without memory limits, files  *)
(* or crashes: of the poll cycles in which an issue was found orphaned, the*)
(* re-dispatch is allowed in at most MaxCount of any WindowTicks cycles in *)
(* a row, and it is refused in no other case.  RedispatchTally implements  *)
(* it (chain/redispatch.py).                                               *)
(***************************************************************************)
EXTENDS Integers, FiniteSets

CONSTANTS
  Issues,
  WindowTicks,  \* BH_REDISPATCH_WINDOW_TICKS
  MaxCount      \* BH_REDISPATCH_MAX

VARIABLES
  cycle,      \* poll cycles begun, over all lives of the daemon
  attempts,   \* of each issue, the cycles it was found orphaned in
  refusals    \* of those, the ones in which it was parked instead

limiterVars == <<cycle, attempts, refusals>>

\* The last WindowTicks cycles up to c, of a set of cycles.
Window(cycles, c) == {a \in cycles : c - WindowTicks < a /\ a <= c}

LimiterInit ==
  /\ cycle = 0
  /\ attempts = [i \in Issues |-> {}]
  /\ refusals = [i \in Issues |-> {}]

Poll ==
  /\ cycle' = cycle + 1
  /\ UNCHANGED <<attempts, refusals>>

Attempt(i) ==
  LET cycles == attempts[i] \cup {cycle} IN
  /\ cycle \notin attempts[i]
  /\ attempts' = [attempts EXCEPT ![i] = cycles]
  /\ refusals' = [refusals EXCEPT ![i] =
                    IF Cardinality(Window(cycles, cycle)) > MaxCount THEN @ \cup {cycle} ELSE @]
  /\ UNCHANGED cycle

LimiterNext == Poll \/ \E i \in Issues : Attempt(i)

LimiterSpec == LimiterInit /\ [][LimiterNext]_limiterVars
=============================================================================
