--------------------------- MODULE IssueScheduler ---------------------------
(***************************************************************************)
(* The topological scheduler of one work unit: chain/scheduler.py wrapping *)
(* graphlib.TopologicalSorter, over the graph chain/dag.py builds.         *)
(*                                                                         *)
(* A node is handed out once, when all of its blockers are done.  A failed *)
(* or blocked node is parked together with everything downstream of it.    *)
(* The scheduler has no notion of failure beyond that, so the work-unit    *)
(* loop terminates exactly when parking and topological order agree:       *)
(* NoStall below is what makes `while sched.is_active()' a terminating     *)
(* loop, and it needs the graph to be acyclic.                             *)
(***************************************************************************)
EXTENDS FiniteSets

CONSTANT Issues         \* the issue numbers a graph may mention

VARIABLES
  graph,      \* {issue: [blockers]}; its domain is _all_nodes
  phase,      \* "new" before prepare(), then "prepared" or "cyclic"
  consumed,   \* _consumed: nodes the underlying sorter has passed out
  handed,     \* issues get_ready() has returned to the caller
  done,       \* _done
  parked      \* parked

vars == <<graph, phase, consumed, handed, done, parked>>

-----------------------------------------------------------------------------
\* build_dag: keep of each member's blockers only those in the work unit.
BuildDag(membership, blockedBy) ==
  [i \in membership |-> blockedBy[i] \cap membership]

Graphs == UNION {[M -> SUBSET M] : M \in SUBSET Issues}

Nodes == DOMAIN graph

\* TopologicalSorter.prepare raises CycleError iff some non-empty set of
\* nodes has no member free of blockers inside the set.
Acyclic(g) ==
  \A S \in SUBSET DOMAIN g : S # {} => \E n \in S : g[n] \cap S = {}

Dependents(n) == {m \in Nodes : n \in graph[m]}

Terminal == done \cup parked

\* Mutant of RawReady: a blocker that was passed out counts as done.
RawReadyEarly == {n \in Nodes \ consumed : graph[n] \subseteq consumed}

\* What the underlying sorter would pass out now.
RawReady == {n \in Nodes \ consumed : graph[n] \subseteq done}

\* Handed to the caller, who has not reported on them yet.
InFlight == handed \ Terminal

IsActive == ~ (Nodes \subseteq Terminal)

\* The work list of mark_parked visits n and, from every node it parks, that
\* node's dependents; it skips parked and done nodes.  What it parks is the
\* least set of live nodes that holds n and is closed under live dependents.
Live == Nodes \ Terminal
ClosedDownstream(S) == \A m \in S : Dependents(m) \cap Live \subseteq S
\* Mutant of Subtree: no walk, the node alone.
NodeOnly(n) == {n} \cap Live
Subtree(n) ==
  {m \in Live : n \in Live /\ \A S \in SUBSET Live :
                   n \in S /\ ClosedDownstream(S) => m \in S}

-----------------------------------------------------------------------------
Init ==
  /\ graph \in Graphs
  /\ phase = "new"
  /\ consumed = {} /\ handed = {} /\ done = {} /\ parked = {}

Prepare ==
  /\ phase = "new"
  /\ phase' = IF Acyclic(graph) THEN "prepared" ELSE "cyclic"
  /\ UNCHANGED <<graph, consumed, handed, done, parked>>

\* Mutant of GetReady: parked nodes are returned too.
GetReadyUnfiltered ==
  /\ phase = "prepared"
  /\ consumed' = consumed \cup RawReady
  /\ handed' = handed \cup RawReady
  /\ UNCHANGED <<graph, phase, done, parked>>

\* get_ready consumes the raw frontier and returns it without parked nodes.
GetReady ==
  /\ phase = "prepared"
  /\ consumed' = consumed \cup RawReady
  /\ handed' = handed \cup (RawReady \ parked)
  /\ UNCHANGED <<graph, phase, done, parked>>

\* Mutant of MarkDone: graphlib's check that the node was passed out is lost.
MarkDoneUnchecked(n) ==
  /\ phase = "prepared"
  /\ n \in Nodes
  /\ done' = done \cup {n}
  /\ UNCHANGED <<graph, phase, consumed, handed, parked>>

\* mark_done: graphlib accepts it only for a node it has passed out.
MarkDone(n) ==
  /\ phase = "prepared"
  /\ n \in InFlight
  /\ done' = done \cup {n}
  /\ UNCHANGED <<graph, phase, consumed, handed, parked>>

\* mark_parked may come before or after the node was handed out.
MarkParked(n) ==
  /\ phase = "prepared"
  /\ n \in Nodes
  /\ parked' = parked \cup Subtree(n)
  /\ UNCHANGED <<graph, phase, consumed, handed, done>>

Next ==
  \/ Prepare
  \/ GetReady
  \/ \E n \in Issues : MarkDone(n) \/ MarkParked(n)

Spec == Init /\ [][Next]_vars

-----------------------------------------------------------------------------
TypeOK ==
  /\ graph \in Graphs
  /\ phase \in {"new", "prepared", "cyclic"}
  /\ consumed \subseteq Nodes
  /\ handed \subseteq consumed
  /\ done \subseteq handed
  /\ parked \subseteq Nodes

\* Each node has exactly one terminal state (docstring of mark_parked): the
\* transitive walk never parks a node that is already done, and nothing
\* parked is done later.
OneTerminalState == done \cap parked = {}

\* No issue reaches the caller before every one of its blockers is done.
HandedOutInOrder == \A n \in handed : graph[n] \subseteq done

\* Parking cuts off the whole downstream: everything that depends, directly
\* or not, on a parked node is parked too and was never handed out.
ParkedSubtreeCut ==
  \A n \in parked : \A m \in Dependents(n) : m \in parked /\ m \notin consumed

\* The loop `while sched.is_active()' cannot spin on an exhausted frontier:
\* while some node is in neither terminal state, either get_ready would
\* return something new or the caller still owes a verdict.
NoStall ==
  phase = "prepared" /\ IsActive => RawReady \ parked # {} \/ InFlight # {}

\* Terminal verdicts are final: no step takes a node out of done or parked,
\* and a node with a verdict is never handed to the caller any more.
VerdictsFinal ==
  [][/\ done \subseteq done'
     /\ parked \subseteq parked'
     /\ (handed' \ handed) \cap Terminal = {}]_vars
=============================================================================
