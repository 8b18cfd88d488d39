------------------------ MODULE IssueScheduler_proofs ------------------------
(***************************************************************************)
(* Safety of the scheduler for every set of issues and every graph.  The   *)
(* inductive invariant adds to the checked invariants what they rest on:   *)
(* a prepared graph is acyclic, a consumed node has only done blockers,    *)
(* and a node consumed without being handed out was parked.                *)
(***************************************************************************)
EXTENDS IssueScheduler, TLAPS

PreparedAcyclic == phase = "prepared" => Acyclic(graph)

ConsumedInOrder == \A n \in consumed : graph[n] \subseteq done

WithheldParked == consumed \ handed \subseteq parked

IInv ==
  /\ TypeOK
  /\ PreparedAcyclic
  /\ ConsumedInOrder
  /\ WithheldParked
  /\ OneTerminalState
  /\ ParkedSubtreeCut

-----------------------------------------------------------------------------
\* build_dag keeps only blockers inside the work unit, so the blockers of a
\* node of the graph are nodes of the graph.
LEMMA BlockersAreNodes ==
  ASSUME NEW g \in Graphs, NEW n \in DOMAIN g
  PROVE  g[n] \subseteq DOMAIN g
<1>1. PICK M \in SUBSET Issues : g \in [M -> SUBSET M]
  BY DEF Graphs
<1> QED
  BY <1>1

\* What mark_parked parks is live, and closed under live dependents: its
\* work list leaves nothing of the subtree behind.
LEMMA SubtreeIsClosed ==
  ASSUME NEW n, NEW m \in Subtree(n)
  PROVE  m \in Live /\ Dependents(m) \cap Live \subseteq Subtree(n)
<1>1. m \in Live
  BY DEF Subtree
<1>2. ASSUME NEW d \in Dependents(m), d \in Live
      PROVE  d \in Subtree(n)
  <2>1. n \in Live
    BY DEF Subtree
  <2>2. ASSUME NEW S \in SUBSET Live, n \in S, ClosedDownstream(S)
        PROVE  d \in S
    <3>1. m \in S
      BY <2>2 DEF Subtree
    <3> QED
      BY <1>2, <2>2, <3>1 DEF ClosedDownstream
  <2> QED
    BY <1>2, <2>1, <2>2 DEF Subtree
<1> QED
  BY <1>1, <1>2

\* The parked issue itself is parked, unless it is done already.
LEMMA SubtreeHoldsRoot ==
  ASSUME NEW n \in Live
  PROVE  n \in Subtree(n)
BY DEF Subtree

-----------------------------------------------------------------------------
\* A new scheduler satisfies the invariant (IssueScheduler.__init__).
LEMMA InitInv == Init => IInv
BY DEF Init, IInv, TypeOK, PreparedAcyclic, ConsumedInOrder, WithheldParked,
       OneTerminalState, ParkedSubtreeCut

\* prepare() rejects cyclic graphs and changes nothing else.
LEMMA PrepareInv == IInv /\ Prepare => IInv'
<1> SUFFICES ASSUME IInv, Prepare PROVE IInv'
  OBVIOUS
<1>1. TypeOK'
  BY DEF IInv, Prepare, TypeOK, Nodes
<1>2. PreparedAcyclic'
  BY DEF IInv, Prepare, PreparedAcyclic
<1>3. (ConsumedInOrder /\ WithheldParked /\ OneTerminalState)'
  BY DEF IInv, Prepare, ConsumedInOrder, WithheldParked, OneTerminalState
<1>4. ParkedSubtreeCut'
  BY DEF IInv, Prepare, ParkedSubtreeCut, Dependents, Nodes
<1> QED
  BY <1>1, <1>2, <1>3, <1>4 DEF IInv

\* get_ready() consumes nodes whose blockers are done and returns those not
\* parked, so no dependent of a parked node is among them.
LEMMA GetReadyInv == IInv /\ GetReady => IInv'
<1> SUFFICES ASSUME IInv, GetReady PROVE IInv'
  OBVIOUS
<1>1. TypeOK'
  BY DEF IInv, GetReady, TypeOK, Nodes, RawReady
<1>2. PreparedAcyclic'
  BY DEF IInv, GetReady, PreparedAcyclic
<1>3. ConsumedInOrder'
  BY DEF IInv, GetReady, ConsumedInOrder, RawReady
<1>4. WithheldParked'
  BY DEF IInv, GetReady, WithheldParked
<1>5. OneTerminalState'
  BY DEF IInv, GetReady, OneTerminalState
<1>6. ParkedSubtreeCut'
  \* A dependent of a parked node still has a blocker that is not done.
  <2>1. \A n \in parked : Dependents(n) \cap RawReady = {}
    BY DEF IInv, OneTerminalState, RawReady, Dependents
  <2> QED
    BY <2>1 DEF IInv, GetReady, ParkedSubtreeCut, Dependents, Nodes
<1> QED
  BY <1>1, <1>2, <1>3, <1>4, <1>5, <1>6 DEF IInv

\* mark_done() is accepted only in flight, so it never revives a parked node.
LEMMA MarkDoneInv ==
  ASSUME IInv, NEW n \in Issues, MarkDone(n)
  PROVE  IInv'
<1>1. TypeOK'
  BY DEF IInv, MarkDone, TypeOK, Nodes, InFlight
<1>2. PreparedAcyclic'
  BY DEF IInv, MarkDone, PreparedAcyclic
<1>3. (ConsumedInOrder /\ WithheldParked)'
  BY DEF IInv, MarkDone, ConsumedInOrder, WithheldParked
<1>4. OneTerminalState'
  BY DEF IInv, MarkDone, OneTerminalState, InFlight, Terminal
<1>5. ParkedSubtreeCut'
  BY DEF IInv, MarkDone, ParkedSubtreeCut, Dependents, Nodes
<1> QED
  BY <1>1, <1>2, <1>3, <1>4, <1>5 DEF IInv

\* mark_parked() parks live nodes only and leaves no dependent behind; none of
\* them was consumed, since one of its blockers is not done.
LEMMA MarkParkedInv ==
  ASSUME IInv, NEW n \in Issues, MarkParked(n)
  PROVE  IInv'
<1>1. Subtree(n) \subseteq Live
  BY SubtreeIsClosed
<1>2. TypeOK'
  BY <1>1 DEF IInv, MarkParked, TypeOK, Nodes, Live
<1>3. PreparedAcyclic'
  BY DEF IInv, MarkParked, PreparedAcyclic
<1>4. (ConsumedInOrder /\ WithheldParked)'
  BY DEF IInv, MarkParked, ConsumedInOrder, WithheldParked
<1>5. OneTerminalState'
  BY <1>1 DEF IInv, MarkParked, OneTerminalState, Live, Terminal
<1>6. ParkedSubtreeCut'
  <2> SUFFICES ASSUME NEW p \in parked', NEW m \in Dependents(p)
               PROVE  m \in parked' /\ m \notin consumed
    BY DEF MarkParked, ParkedSubtreeCut, Dependents, Nodes
  <2>1. CASE p \in parked
    BY <2>1 DEF IInv, MarkParked, ParkedSubtreeCut
  <2>2. CASE p \in Subtree(n)
    <3>1. p \notin done
      BY <1>1, <2>2 DEF Live, Terminal
    <3>2. m \notin consumed
      BY <3>1 DEF IInv, ConsumedInOrder, Dependents
    <3>3. m \notin done
      BY <3>2 DEF IInv, TypeOK
    <3>4. m \in Live => m \in Subtree(n)
      BY <2>2, SubtreeIsClosed
    <3>5. m \in Nodes
      BY DEF Dependents
    <3> QED
      BY <3>2, <3>3, <3>4, <3>5 DEF MarkParked, Live, Terminal
  <2> QED
    BY <2>1, <2>2 DEF MarkParked
<1> QED
  BY <1>2, <1>3, <1>4, <1>5, <1>6 DEF IInv

\* Steps of others leave the scheduler as it is.
LEMMA StutterInv == IInv /\ UNCHANGED vars => IInv'
BY DEF vars, IInv, TypeOK, PreparedAcyclic, ConsumedInOrder, WithheldParked,
       OneTerminalState, ParkedSubtreeCut, Dependents, Nodes

\* Every call on the scheduler preserves the invariant.
LEMMA NextInv == IInv /\ [Next]_vars => IInv'
BY PrepareInv, GetReadyInv, MarkDoneInv, MarkParkedInv, StutterInv DEF Next

\* The inductive invariant holds of every scheduler on every graph.
THEOREM Inductive == Spec => []IInv
BY InitInv, NextInv, PTL DEF Spec

-----------------------------------------------------------------------------
\* The scheduler's state stays well formed, for every graph: in particular
\* mark_done is only ever accepted for issues that were handed out.
THEOREM TypeCorrect == Spec => []TypeOK
<1>1. IInv => TypeOK
  BY DEF IInv
<1> QED
  BY <1>1, Inductive, PTL

\* Done and parked never overlap: each issue has one terminal verdict.
THEOREM TerminalStatesDisjoint == Spec => []OneTerminalState
<1>1. IInv => OneTerminalState
  BY DEF IInv
<1> QED
  BY <1>1, Inductive, PTL

\* Dispatch order: an issue is handed out only after all of its blockers.
THEOREM DispatchOrder == Spec => []HandedOutInOrder
<1>1. IInv => HandedOutInOrder
  BY DEF IInv, TypeOK, ConsumedInOrder, HandedOutInOrder
<1> QED
  BY <1>1, Inductive, PTL

\* Nothing downstream of a parked issue is ever dispatched.
THEOREM ParkingCutsSubtree == Spec => []ParkedSubtreeCut
<1>1. IInv => ParkedSubtreeCut
  BY DEF IInv
<1> QED
  BY <1>1, Inductive, PTL

\* On every acyclic graph the loop `while sched.is_active()' always has
\* something to do: a minimal live node has only done blockers, so it is
\* either ready or already in flight.
THEOREM FrontierNeverStalls == Spec => []NoStall
<1>1. IInv => NoStall
  <2> SUFFICES ASSUME IInv, phase = "prepared", IsActive
               PROVE  RawReady \ parked # {} \/ InFlight # {}
    BY DEF NoStall
  <2>1. Live # {} /\ Live \subseteq Nodes
    BY DEF IsActive, Live
  <2>2. PICK n \in Live : graph[n] \cap Live = {}
    BY <2>1 DEF IInv, PreparedAcyclic, Acyclic, Nodes
  <2>3. graph[n] \subseteq Terminal
    <3>1. graph[n] \subseteq Nodes
      BY <2>1, BlockersAreNodes DEF IInv, TypeOK, Nodes
    <3> QED
      BY <2>2, <3>1 DEF Live
  <2>4. graph[n] \cap parked = {}
    \* Otherwise n, as a dependent of a parked node, would be parked itself.
    BY <2>1 DEF IInv, ParkedSubtreeCut, Dependents, Live, Terminal
  <2>5. graph[n] \subseteq done
    BY <2>3, <2>4 DEF Terminal
  <2>6. CASE n \in consumed
    BY <2>6 DEF IInv, WithheldParked, InFlight, Live, Terminal
  <2>7. CASE n \notin consumed
    BY <2>1, <2>5, <2>7 DEF RawReady, Live, Terminal
  <2> QED
    BY <2>6, <2>7
<1> QED
  BY <1>1, Inductive, PTL

\* Terminal verdicts are final, and nothing that has one is handed out.
THEOREM VerdictsAreFinal == Spec => VerdictsFinal
<1>1. IInv /\ [Next]_vars =>
        [/\ done \subseteq done'
         /\ parked \subseteq parked'
         /\ (handed' \ handed) \cap Terminal = {}]_vars
  BY DEF IInv, TypeOK, Next, Prepare, GetReady, MarkDone, MarkParked, vars,
         Terminal, RawReady
<1> QED
  BY <1>1, Inductive, PTL DEF Spec, VerdictsFinal
=============================================================================
