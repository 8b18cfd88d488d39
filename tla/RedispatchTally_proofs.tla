----------------------- MODULE RedispatchTally_proofs -----------------------
(***************************************************************************)
(* Until a write fails, the tally implements RestartLimiter, for every     *)
(* window, maximum and set of issues and over any number of restarts; the  *)
(* invariant says what of the history the tally must remember: every       *)
(* attempt of the last WindowTicks cycles, and nothing that was not one.   *)
(* When writes fail it keeps the rate up to the number of failures; there  *)
(* the invariant counts what the tally still shows.                        *)
(***************************************************************************)
EXTENDS RedispatchTally, FiniteSetTheorems, TLAPS

\* The cycle the tally's memory is at: one ahead while advance_tick writes, and
\* behind after a crash that lost a tick.
TickIsReached ==
  /\ file.tick <= cycle
  /\ tick <= IF pc = "advancing" THEN cycle + 1 ELSE cycle
  /\ pc = "advancing" => cycle < MaxCycles

AttemptsArePast == \A i \in Issues : \A a \in attempts[i] : a <= cycle

TickIsCycle == tick = IF pc = "advancing" THEN cycle + 1 ELSE cycle

FileIsCurrent ==
  /\ file.tick = cycle
  /\ pc # "recording" => marks = file.marks

\* Marks are attempts, and an attempt may be forgotten only outside the window.
Remembers ==
  \A i \in Issues : file.marks[i] \subseteq attempts[i]
    /\ \A a \in attempts[i] : a > cycle - WindowTicks => a \in file.marks[i]

\* What record_and_check holds in memory while it writes.
RecordsOne ==
  pc = "recording" => \E i \in Issues :
    /\ cur = {i} /\ cycle \notin attempts[i]
    /\ marks = [file.marks EXCEPT ![i] = Pruned(@ \cup {tick})]

Faithful == TickIsCycle /\ FileIsCurrent /\ Remembers /\ RecordsOne

IInv == TypeOK /\ TickIsReached /\ AttemptsArePast /\ (faults = 0 => Faithful)

-----------------------------------------------------------------------------
\* A new tally, without a file, satisfies the invariant.
LEMMA InitInv == Init => IInv
BY ConstantsOK DEF Init, IInv, Faithful, TypeOK, Marks, TickIsReached, TickIsCycle,
       FileIsCurrent, Remembers, RecordsOne, AttemptsArePast, Limiter!LimiterInit

\* advance_tick changes memory only.
LEMMA AdvanceTickInv == IInv /\ AdvanceTick => IInv'
<1> SUFFICES ASSUME IInv, AdvanceTick PROVE IInv'
  OBVIOUS
<1>1. (TypeOK /\ TickIsReached /\ AttemptsArePast)'
  BY ConstantsOK DEF IInv, AdvanceTick, TypeOK, TickIsReached, AttemptsArePast, history
<1>2. faults' = 0 => Faithful'
  BY DEF IInv, Faithful, AdvanceTick, TypeOK, TickIsCycle, FileIsCurrent, Remembers,
         RecordsOne, history
<1> QED
  BY <1>1, <1>2 DEF IInv

\* A write that goes well before and after leaves the count of failures at 0.
LEMMA PersistedWell ==
  ASSUME TypeOK, Persisted, faults' = 0
  PROVE  faults = 0 /\ file' = [tick |-> tick, marks |-> marks]
BY DEF TypeOK, Persisted

\* The window moves with the tick that is written; it only grows shorter.
LEMMA PersistTickInv ==
  ASSUME IInv, PersistTick
  PROVE  IInv'
<1>1. file' \in {file, [tick |-> tick, marks |-> marks]} /\ faults' \in 0..MaxFaults
  BY ConstantsOK DEF PersistTick, Persisted, IInv, TypeOK
<1>2. cycle' \in 0..MaxCycles
  BY ConstantsOK DEF PersistTick, IInv, TypeOK, TickIsReached
<1>3. TypeOK'
  BY <1>1, <1>2, ConstantsOK DEF IInv, PersistTick, TypeOK, memory
<1>4. TickIsReached' /\ AttemptsArePast'
  BY <1>1, ConstantsOK DEF IInv, PersistTick, TypeOK, Marks, memory, TickIsReached, AttemptsArePast
<1>5. ASSUME faults' = 0 PROVE Faithful'
  <2>1. file' = [tick |-> tick, marks |-> marks] /\ Faithful
    BY <1>5, PersistedWell DEF PersistTick, IInv
  <2>2. (TickIsCycle /\ FileIsCurrent /\ RecordsOne)'
    BY <2>1 DEF PersistTick, IInv, TypeOK, memory, Faithful, TickIsCycle, FileIsCurrent, RecordsOne
  <2>3. Remembers'
    BY <2>1, ConstantsOK DEF IInv, PersistTick, TypeOK, Marks, memory, Faithful, Remembers, FileIsCurrent
  <2> QED
    BY <2>2, <2>3 DEF Faithful
<1> QED
  BY <1>3, <1>4, <1>5 DEF IInv

\* record_and_check, before its write, changes one issue's marks in memory.
LEMMA RecordInv ==
  ASSUME IInv, NEW i \in Issues, Record(i)
  PROVE  IInv'
<1>1. (TypeOK /\ TickIsReached /\ AttemptsArePast)'
  BY ConstantsOK DEF IInv, Record, TypeOK, Marks, Pruned, history, TickIsReached, AttemptsArePast
<1>2. ASSUME faults' = 0 PROVE Faithful'
  <2>1. Faithful
    BY <1>2 DEF IInv, Record
  <2>2. (TickIsCycle /\ FileIsCurrent /\ Remembers)'
    BY <2>1 DEF Faithful, Record, TickIsCycle, FileIsCurrent, Remembers, history
  <2>3. RecordsOne'
    BY <2>1 DEF Faithful, Record, RecordsOne, FileIsCurrent, Pruned, history
  <2> QED
    BY <2>2, <2>3 DEF Faithful
<1> QED
  BY <1>1, <1>2 DEF IInv

\* The write makes the attempt part of what is remembered.
LEMMA CheckInv ==
  ASSUME IInv, NEW i \in Issues, Check(i)
  PROVE  IInv'
<1>1. file' \in {file, [tick |-> tick, marks |-> marks]} /\ faults' \in 0..MaxFaults
  BY ConstantsOK DEF Check, Persisted, IInv, TypeOK
<1>2. TypeOK'
  BY <1>1, ConstantsOK DEF IInv, Check, TypeOK, Marks, memory
<1>3. TickIsReached' /\ AttemptsArePast'
  BY <1>1, ConstantsOK DEF IInv, Check, TypeOK, Marks, memory, TickIsReached, AttemptsArePast
<1>4. ASSUME faults' = 0 PROVE Faithful'
  <2>1. file' = [tick |-> tick, marks |-> marks] /\ Faithful
    BY <1>4, PersistedWell DEF Check, IInv
  <2>2. marks = [file.marks EXCEPT ![i] = Pruned(@ \cup {tick})] /\ tick = cycle
    BY <2>1 DEF Faithful, Check, RecordsOne, TickIsCycle
  <2>3. (TickIsCycle /\ FileIsCurrent /\ RecordsOne)'
    BY <2>1, <2>2 DEF Check, IInv, TypeOK, memory, Faithful, TickIsCycle, FileIsCurrent, RecordsOne
  <2>4. Remembers'
    BY <2>1, <2>2, ConstantsOK DEF IInv, Check, TypeOK, Marks, memory, Faithful, Remembers, Pruned
  <2> QED
    BY <2>3, <2>4 DEF Faithful
<1> QED
  BY <1>2, <1>3, <1>4 DEF IInv

\* A restart goes back to the file, which lacks only what was being written.
LEMMA RestartInv == IInv /\ Restart => IInv'
<1> SUFFICES ASSUME IInv, Restart PROVE IInv'
  OBVIOUS
<1>1. (TypeOK /\ TickIsReached /\ AttemptsArePast)'
  BY ConstantsOK DEF IInv, Restart, Load, TypeOK, TickIsReached, AttemptsArePast, history
<1>2. faults' = 0 => Faithful'
  BY DEF IInv, Faithful, Restart, Load, TypeOK, TickIsCycle, FileIsCurrent, Remembers,
         RecordsOne, history
<1> QED
  BY <1>1, <1>2 DEF IInv

\* Without a call on the tally nothing changes.
LEMMA StutterInv == IInv /\ UNCHANGED vars => IInv'
BY DEF IInv, Faithful, vars, memory, history, TypeOK, TickIsReached, TickIsCycle,
       FileIsCurrent, Remembers, RecordsOne, AttemptsArePast, Pruned

\* Every step preserves the invariant.
LEMMA NextInv == IInv /\ [Next]_vars => IInv'
BY AdvanceTickInv, PersistTickInv, RecordInv, CheckInv, RestartInv, StutterInv DEF Next

\* Until a write fails, the tally remembers the window across any number of
\* restarts; its tick is never ahead of the cycle, whatever fails.
THEOREM Inductive == Spec => []IInv
<1>1. IInv /\ [Next]_vars => IInv'
  BY NextInv
<1> QED
  BY <1>1, InitInv, PTL DEF Spec

-----------------------------------------------------------------------------
\* The window record_and_check counts in is the window of the whole history.
LEMMA SameWindow ==
  ASSUME TypeOK, AttemptsArePast, Faithful, NEW i \in Issues, pc = "recording", cur = {i}
  PROVE  {m \in marks[i] : tick - WindowTicks < m /\ m <= tick}
           = Limiter!Window(attempts[i] \cup {cycle}, cycle)
<1>1. marks = [file.marks EXCEPT ![i] = Pruned(@ \cup {tick})] /\ tick = cycle
  BY DEF Faithful, RecordsOne, TickIsCycle
<1>2. marks[i] = {m \in file.marks[i] \cup {cycle} : m > cycle - WindowTicks}
  BY <1>1 DEF TypeOK, Marks, Pruned
<1> QED
  BY <1>1, <1>2, ConstantsOK
     DEF TypeOK, Marks, Faithful, Remembers, AttemptsArePast, Limiter!Window

\* A step during which no write has failed is a step of the limiter, or changes
\* nothing it sees.
LEMMA StepRefines ==
  ASSUME IInv, [Next]_vars
  PROVE  [faults' = 0 => Limiter!LimiterNext]_Limiter!limiterVars
<1> USE DEF Limiter!limiterVars, history
<1>1. CASE AdvanceTick \/ Restart \/ UNCHANGED vars
  BY <1>1 DEF AdvanceTick, Restart, vars
<1>2. CASE PersistTick
  BY <1>2 DEF PersistTick, Limiter!LimiterNext, Limiter!Poll
<1>3. ASSUME NEW i \in Issues, Record(i)
      PROVE  UNCHANGED Limiter!limiterVars
  BY <1>3 DEF Record
<1>4. ASSUME NEW i \in Issues, Check(i), faults' = 0
      PROVE  Limiter!LimiterNext
  <2>1. TypeOK /\ AttemptsArePast /\ Faithful
    BY <1>4, PersistedWell DEF IInv, Check
  <2>2. Exceeds(marks[i]) =
          (Limiter!Cardinality(Limiter!Window(attempts[i] \cup {cycle}, cycle)) > MaxCount)
    <3>1. \A S : Limiter!Cardinality(S) = Cardinality(S)
      BY DEF Limiter!Cardinality, Cardinality
    <3> QED
      BY <1>4, <2>1, <3>1, SameWindow DEF Check, Exceeds
  <2>3. cycle \notin attempts[i]
    BY <1>4, <2>1 DEF Faithful, Check, RecordsOne
  <2>4. Limiter!Attempt(i)
    BY <1>4, <2>2, <2>3 DEF Check, Limiter!Attempt
  <2> QED
    BY <2>4 DEF Limiter!LimiterNext
<1> QED
  BY <1>1, <1>2, <1>3, <1>4 DEF Next

\* The tally, with its pruning, its file and its restarts, is a RestartLimiter
\* with a complete memory until a write fails.
THEOREM TallyLimits == Spec => Limits
<1>1. Init => Limiter!LimiterInit
  BY DEF Init
<1>2. IInv /\ [Next]_vars => [faults' = 0 => Limiter!LimiterNext]_Limiter!limiterVars
  BY StepRefines
<1>3. Spec => []IInv
  BY Inductive
<1> QED
  BY <1>1, <1>2, <1>3, PTL DEF Spec, Limits

\* Type correctness of the tally over restarts and failing writes.
THEOREM TypeCorrect == Spec => []TypeOK
<1>1. IInv => TypeOK
  BY DEF IInv
<1>2. Spec => []IInv
  BY Inductive
<1> QED
  BY <1>1, <1>2, PTL

-----------------------------------------------------------------------------
(* The rate, with writes that fail.  A lost tick leaves the tally behind   *)
(* the cycles, and a lost mark leaves an attempt out.  Moved by as much as *)
(* the tally is behind, its window still shows all attempts but one for    *)
(* each write that failed, in memory and, for a later daemon, in the file. *)

\* The members of a set of cycles or ticks after one of them.
After(S, s) == {x \in S : x > s}

\* The ticks lost to memory and to the file, advance_tick being ahead.
Behind == (IF pc = "advancing" THEN cycle + 1 ELSE cycle) - tick
FileBehind == cycle - file.tick

\* Attempts of an issue, with the one that is being recorded.
Counted(i) == attempts[i] \cup {c \in {cycle} : i \in cur}

\* In cycle n and after f failures, and in windows to come.
Shows(ms, behind, as, n, f) ==
  \A s \in (n - WindowTicks)..MaxCycles :
    Cardinality(After(as, s)) <= Cardinality(After(ms, s - behind)) + f

\* No mark lies ahead, and this tick's is that of this cycle's attempt.
MarksArePast ==
  \A i \in Issues :
    /\ \A m \in marks[i] : m <= tick
    /\ \A m \in file.marks[i] : m <= file.tick
    /\ tick \in marks[i] => pc # "advancing" /\ (pc = "starting" \/ cycle \in Counted(i))

MemoryShows == \A i \in Issues : Shows(marks[i], Behind, Counted(i), cycle, faults)
FileShows == \A i \in Issues : Shows(file.marks[i], FileBehind, attempts[i], cycle, faults)
RateKept ==
  \A i \in Issues : \A c \in 0..cycle :
    Cardinality(Limiter!Window(attempts[i] \ refusals[i], c)) <= MaxCount + faults

RateInv == MarksArePast /\ MemoryShows /\ FileShows /\ RateKept

\* What can be counted.
LEMMA AfterCounts ==
  ASSUME NEW S \in SUBSET (0..MaxCycles), NEW s
  PROVE  /\ IsFiniteSet(S) /\ IsFiniteSet(After(S, s)) /\ Cardinality(After(S, s)) \in Nat
         /\ After(S, s) \in SUBSET (0..MaxCycles)
<1>1. IsFiniteSet(0..MaxCycles)
  BY FS_Interval, ConstantsOK
<1>2. After(S, s) \in SUBSET (0..MaxCycles)
  BY DEF After
<1> QED
  BY <1>1, <1>2, FS_Subset, FS_CardinalityType

\* More of a larger set comes after an earlier moment.
LEMMA AfterGrows ==
  ASSUME NEW T \in SUBSET (0..MaxCycles), NEW S \in SUBSET T, NEW s \in Int, NEW t \in Int, t <= s
  PROVE  Cardinality(After(S, s)) <= Cardinality(After(T, t))
<1>1. After(S, s) \in SUBSET After(T, t)
  <2> SUFFICES ASSUME NEW x \in S, x > s PROVE x \in T /\ x > t
    BY DEF After
  <2>1. x \in T /\ x \in Int
    OBVIOUS
  <2> QED
    BY <2>1
<1>2. After(T, t) \in SUBSET (0..MaxCycles)
  BY AfterCounts
<1> QED
  BY <1>1, AfterCounts, FS_Subset, Zenon

\* One more makes at most one more.
LEMMA AfterAdds ==
  ASSUME NEW S \in SUBSET (0..MaxCycles), NEW x \in 0..MaxCycles, NEW s \in Int
  PROVE  Cardinality(After(S \cup {x}, s))
           = Cardinality(After(S, s)) + (IF x > s /\ x \notin S THEN 1 ELSE 0)
<1>1. IsFiniteSet(After(S, s)) /\ Cardinality(After(S, s)) \in Nat
  BY AfterCounts
<1>2. CASE x > s
  <2>1. After(S \cup {x}, s) = After(S, s) \cup {x} /\ (x \in After(S, s) <=> x \in S)
    BY <1>2 DEF After
  <2>2. Cardinality(After(S, s) \cup {x}) = IF x \in After(S, s) THEN Cardinality(After(S, s))
                                                                  ELSE Cardinality(After(S, s)) + 1
    BY <1>1, FS_AddElement, Zenon
  <2>3. CASE x \in S
    BY <1>1, <2>1, <2>2, <2>3
  <2>4. CASE x \notin S
    BY <1>1, <1>2, <2>1, <2>2, <2>4
  <2> QED
    BY <2>3, <2>4
<1>3. CASE ~ (x > s)
  <2>1. After(S \cup {x}, s) = After(S, s)
    BY <1>3 DEF After
  <2> QED
    BY <1>1, <1>3, <2>1
<1> QED
  BY <1>2, <1>3

\* The numbers the tally is about.
LEMMA Numbers ==
  ASSUME IInv
  PROVE  /\ WindowTicks \in Nat /\ MaxCount \in Nat /\ MaxCycles \in Nat /\ MaxFaults \in Nat
         /\ tick \in 0..MaxCycles /\ cycle \in 0..MaxCycles /\ file.tick \in 0..MaxCycles
         /\ faults \in Nat /\ Behind \in Nat /\ FileBehind \in Nat
         /\ \A i \in Issues :
              /\ marks[i] \in SUBSET (0..MaxCycles) /\ file.marks[i] \in SUBSET (0..MaxCycles)
              /\ attempts[i] \in SUBSET (0..MaxCycles) /\ refusals[i] \in SUBSET (0..MaxCycles)
              /\ Counted(i) \in SUBSET (0..MaxCycles)
<1>1. /\ WindowTicks \in Nat /\ MaxCount \in Nat /\ MaxCycles \in Nat /\ MaxFaults \in Nat
      /\ tick \in 0..MaxCycles /\ cycle \in 0..MaxCycles /\ file.tick \in 0..MaxCycles
      /\ faults \in 0..MaxFaults
  BY ConstantsOK DEF IInv, TypeOK
<1>2. faults \in Nat /\ Behind \in Nat /\ FileBehind \in Nat
  BY <1>1 DEF IInv, TickIsReached, Behind, FileBehind
<1>3. \A i \in Issues :
        /\ marks[i] \in SUBSET (0..MaxCycles) /\ file.marks[i] \in SUBSET (0..MaxCycles)
        /\ attempts[i] \in SUBSET (0..MaxCycles) /\ refusals[i] \in SUBSET (0..MaxCycles)
  BY DEF IInv, TypeOK, Marks
<1>4. \A i \in Issues : Counted(i) \in SUBSET (0..MaxCycles)
  BY <1>1, <1>3 DEF Counted
<1> QED
  BY <1>1, <1>2, <1>3, <1>4

\* advance_tick moves on in memory, and the rest stays.
LEMMA AdvanceTickRate ==
  ASSUME IInv, IInv', RateInv, AdvanceTick
  PROVE  RateInv'
<1>1. /\ tick' = tick + 1 /\ pc' = "advancing" /\ pc # "advancing"
      /\ UNCHANGED <<marks, file, cur, cycle, attempts, refusals, faults>>
  BY DEF AdvanceTick, history
<1>2. Behind' = Behind /\ FileBehind' = FileBehind
  BY <1>1, Numbers DEF Behind, FileBehind
<1>3. MarksArePast'
  BY <1>1, Numbers DEF RateInv, MarksArePast
<1>4. \A i \in Issues : Counted(i)' = Counted(i)
  BY <1>1 DEF Counted
<1> QED
  BY <1>1, <1>2, <1>3, <1>4 DEF RateInv, MemoryShows, FileShows, Shows, RateKept

\* What a set of ticks shows, it shows to a later cycle, and of fewer attempts.
LEMMA ShowsLater ==
  ASSUME NEW c \in Nat, NEW n \in Nat, n >= c, NEW g \in Nat, NEW f \in Nat, f >= g,
         NEW ms \in SUBSET (0..MaxCycles), NEW as \in SUBSET (0..MaxCycles),
         NEW d \in Int, NEW e \in Int, e >= d, Shows(ms, d, as, c, g)
  PROVE  Shows(ms, e, as, n, f)
<1> SUFFICES ASSUME NEW s \in (n - WindowTicks)..MaxCycles
             PROVE  Cardinality(After(as, s)) <= Cardinality(After(ms, s - e)) + f
  BY DEF Shows
<1>1. WindowTicks \in Nat /\ MaxCycles \in Nat
  BY ConstantsOK
<1>2. s \in Int /\ s \in (c - WindowTicks)..MaxCycles
  BY <1>1
<1>3. Cardinality(After(as, s)) <= Cardinality(After(ms, s - d)) + g
  BY <1>2, Zenon DEF Shows
<1>4. Cardinality(After(ms, s - d)) <= Cardinality(After(ms, s - e))
  <2>1. ms \in SUBSET ms /\ s - d \in Int /\ s - e \in Int /\ s - e <= s - d
    BY <1>2
  <2> QED
    BY <2>1, AfterGrows, Zenon
<1>5. /\ Cardinality(After(as, s)) \in Nat
      /\ Cardinality(After(ms, s - d)) \in Nat /\ Cardinality(After(ms, s - e)) \in Nat
  BY AfterCounts, Zenon
<1> DEFINE l == Cardinality(After(as, s))
           p == Cardinality(After(ms, s - d))
           q == Cardinality(After(ms, s - e))
<1>6. l \in Nat /\ p \in Nat /\ q \in Nat /\ l <= p + g /\ p <= q
  BY <1>3, <1>4, <1>5
<1> HIDE DEF l, p, q
<1>7. l <= q + f
  BY <1>6
<1> QED
  BY <1>7 DEF l, q

\* The same of a tally that is as far behind as it was.
LEMMA ShowsOn ==
  ASSUME NEW c \in Nat, NEW n \in Nat, n >= c, NEW g \in Nat, NEW f \in Nat, f >= g,
         NEW ms \in SUBSET (0..MaxCycles), NEW as \in SUBSET (0..MaxCycles),
         NEW d \in Int, Shows(ms, d, as, c, g)
  PROVE  Shows(ms, d, as, n, f)
<1>1. PICK e \in Int : e = d
  OBVIOUS
<1>2. e >= d
  BY <1>1
<1>3. Shows(ms, e, as, n, f)
  BY <1>2, ShowsLater, Zenon
<1> QED
  BY <1>1, <1>3, Zenon

\* The numbers after a step, and what remains to be shown of it.
LEMMA Later ==
  ASSUME IInv', NEW n, cycle' = n, NEW f, faults' = f, NEW d, Behind' = d, NEW e, FileBehind' = e,
         \A i \in Issues : Shows(marks'[i], d, Counted(i)', n, f),
         \A i \in Issues : Shows(file'.marks[i], e, attempts'[i], n, f)
  PROVE  MemoryShows' /\ FileShows'
BY Zenon DEF MemoryShows, FileShows

\* In a window that ends later, no more than in one that ends at the last attempt.
LEMMA WindowMoves ==
  ASSUME IInv, NEW i \in Issues, NEW A \in SUBSET attempts[i], NEW c \in Nat, c > cycle
  PROVE  Limiter!Window(A, c) \in SUBSET Limiter!Window(A, cycle)
<1>1. cycle \in Nat /\ WindowTicks \in Nat
  BY Numbers
<1> SUFFICES ASSUME NEW a \in attempts[i], c - WindowTicks < a, a <= c
             PROVE  cycle - WindowTicks < a /\ a <= cycle
  BY DEF Limiter!Window
<1>2. a \in Nat /\ a <= cycle
  BY Numbers DEF IInv, AttemptsArePast
<1> QED
  BY <1>1, <1>2

\* Without a new attempt the rate of an issue stays.
LEMMA RateStays ==
  ASSUME IInv, RateKept, NEW i \in Issues, NEW B \in SUBSET (attempts[i] \ refusals[i]),
         NEW f \in Nat, f >= faults, NEW c \in Nat
  PROVE  Cardinality(Limiter!Window(B, c)) <= MaxCount + f
<1>1. cycle \in Nat /\ MaxCount \in Nat /\ faults \in Nat /\ WindowTicks \in Nat
  BY Numbers
<1> DEFINE A == attempts[i] \ refusals[i]
           b == IF c <= cycle THEN c ELSE cycle
<1>2. b \in 0..cycle /\ Limiter!Window(B, c) \in SUBSET Limiter!Window(A, b)
  <2>1. Limiter!Window(B, c) \in SUBSET Limiter!Window(A, c)
    BY DEF Limiter!Window
  <2>2. CASE c <= cycle
    BY <1>1, <2>1, <2>2
  <2>3. CASE ~ (c <= cycle)
    <3>1. c \in Nat /\ c > cycle /\ b = cycle /\ cycle \in 0..cycle
      BY <1>1, <2>3
    <3>2. A \in SUBSET attempts[i]
      OBVIOUS
    <3>3. Limiter!Window(A, c) \in SUBSET Limiter!Window(A, cycle)
      BY <3>1, <3>2, WindowMoves, Zenon
    <3> QED
      BY <2>1, <3>1, <3>3
  <2> QED
    BY <2>2, <2>3
<1> HIDE DEF b
<1>3. /\ Cardinality(Limiter!Window(B, c)) \in Nat /\ Cardinality(Limiter!Window(A, b)) \in Nat
      /\ Cardinality(Limiter!Window(B, c)) <= Cardinality(Limiter!Window(A, b))
  <2>1. Limiter!Window(A, b) \in SUBSET (0..MaxCycles)
    BY Numbers DEF Limiter!Window
  <2>2. IsFiniteSet(Limiter!Window(A, b))
    BY <2>1, AfterCounts
  <2> QED
    BY <1>2, <2>2, FS_Subset, FS_CardinalityType
<1>4. Cardinality(Limiter!Window(A, b)) <= MaxCount + faults
  BY <1>2 DEF RateKept
<1> DEFINE k == Cardinality(Limiter!Window(B, c))
           l == Cardinality(Limiter!Window(A, b))
<1>5. k \in Nat /\ l \in Nat /\ k <= l /\ l <= MaxCount + faults
  BY <1>3, <1>4
<1> HIDE DEF k, l
<1>6. k <= MaxCount + f
  BY <1>1, <1>5
<1> QED
  BY <1>6 DEF k

\* A step that attempts nothing.
LEMMA NoAttemptRate ==
  ASSUME IInv, RateKept, UNCHANGED <<attempts, refusals>>,
         NEW n \in Nat, cycle' = n, NEW f \in Nat, faults' = f, f >= faults
  PROVE  RateKept'
<1> SUFFICES ASSUME NEW i \in Issues, NEW c \in 0..n
             PROVE  Cardinality(Limiter!Window(attempts[i] \ refusals[i], c)) <= MaxCount + f
  BY DEF RateKept
<1>1. c \in Nat /\ attempts[i] \ refusals[i] \in SUBSET (attempts[i] \ refusals[i])
  OBVIOUS
<1> QED
  BY <1>1, RateStays, Zenon

\* A write fails or not, and is counted.
LEMMA FaultsCount ==
  ASSUME IInv, Persisted
  PROVE  \E f \in Nat : faults' = f /\ f >= faults
                        /\ \/ file' = [tick |-> tick, marks |-> marks] /\ f = faults
                           \/ file' = file /\ f = faults + 1
BY Numbers DEF Persisted

\* A tick, written or lost.
LEMMA PersistTickRate ==
  ASSUME IInv, IInv', RateInv, PersistTick
  PROVE  RateInv'
<1>1. /\ pc = "advancing" /\ pc' = "ready" /\ cycle' = cycle + 1 /\ cur = {}
      /\ UNCHANGED <<tick, marks, cur, attempts, refusals>>
  BY DEF PersistTick, memory, IInv, TypeOK
<1>2. PICK f \in Nat : faults' = f /\ f >= faults
                       /\ \/ file' = [tick |-> tick, marks |-> marks] /\ f = faults
                          \/ file' = file /\ f = faults + 1
  BY FaultsCount DEF PersistTick
<1>3. PICK n \in Nat : n = cycle + 1 /\ cycle' = n /\ n >= cycle /\ f >= faults /\ cycle \in Nat /\ faults \in Nat
  BY <1>1, <1>2, Numbers
<1>4. PICK d \in Int : Behind = d /\ d = n - tick
  BY <1>1, <1>3, Numbers DEF Behind
<1>5. Behind' = d
  BY <1>1, <1>3, <1>4 DEF Behind
<1>6. \A i \in Issues : /\ Counted(i) = attempts[i] /\ Counted(i)' = attempts[i]
                        /\ marks[i] \in SUBSET (0..MaxCycles) /\ file.marks[i] \in SUBSET (0..MaxCycles)
                        /\ attempts[i] \in SUBSET (0..MaxCycles)
  BY <1>1, Numbers DEF Counted
<1>7. MarksArePast'
  BY <1>1, <1>2 DEF RateInv, MarksArePast
<1>8. \A i \in Issues : Shows(marks'[i], d, Counted(i)', n, f)
  <2> SUFFICES ASSUME NEW i \in Issues PROVE Shows(marks[i], d, attempts[i], n, f)
    BY <1>1, <1>6
  <2>1. Shows(marks[i], d, attempts[i], cycle, faults)
    BY <1>4, <1>6 DEF RateInv, MemoryShows
  <2>2. n >= cycle /\ f >= faults /\ cycle \in Nat /\ faults \in Nat
    BY <1>3
  <2>3. marks[i] \in SUBSET (0..MaxCycles) /\ attempts[i] \in SUBSET (0..MaxCycles)
    BY <1>6
  <2> QED
    BY <2>1, <2>2, <2>3, ShowsOn, Zenon
<1>9. PICK e \in Int : FileBehind' = e /\ \A i \in Issues : Shows(file'.marks[i], e, attempts'[i], n, f)
  <2>1. CASE file' = [tick |-> tick, marks |-> marks]
    <3>1. FileBehind' = d
      BY <1>3, <1>4, <2>1 DEF FileBehind
    <3> QED
      BY <1>1, <1>6, <1>8, <2>1, <3>1
  <2>2. CASE file' = file
    <3>1. PICK b \in Int : FileBehind = b
      BY Numbers
    <3>2. PICK e \in Int : e = n - file.tick /\ e >= b
      BY <1>3, <3>1, Numbers DEF FileBehind
    <3>3. FileBehind' = e
      BY <1>3, <2>2, <3>2 DEF FileBehind
    <3>4. ASSUME NEW i \in Issues PROVE Shows(file.marks[i], e, attempts[i], n, f)
      <4>1. Shows(file.marks[i], b, attempts[i], cycle, faults)
        BY <3>1 DEF RateInv, FileShows
      <4>2. e >= b /\ n >= cycle /\ f >= faults /\ cycle \in Nat /\ faults \in Nat
        BY <1>3, <3>2
      <4>3. file.marks[i] \in SUBSET (0..MaxCycles) /\ attempts[i] \in SUBSET (0..MaxCycles)
        BY <1>6
      <4> QED
        BY <4>1, <4>2, <4>3, ShowsLater, Zenon
    <3> QED
      BY <1>1, <2>2, <3>3, <3>4
  <2> QED
    BY <1>2, <2>1, <2>2
<1>10. MemoryShows' /\ FileShows'
  BY <1>2, <1>3, <1>5, <1>8, <1>9, Later, Zenon
<1>11. RateKept'
  BY <1>1, <1>2, <1>3, NoAttemptRate DEF RateInv
<1> QED
  BY <1>7, <1>10, <1>11 DEF RateInv

\* An attempt is recorded: the tally's memory and the account gain one each.
LEMMA RecordRate ==
  ASSUME IInv, IInv', RateInv, NEW i \in Issues, Record(i)
  PROVE  RateInv'
<1>1. /\ pc = "ready" /\ cycle \notin attempts[i] /\ cur = {}
      /\ marks' = [marks EXCEPT ![i] = Pruned(@ \cup {tick})]
      /\ pc' = "recording" /\ cur' = {i}
      /\ UNCHANGED <<tick, file, cycle, attempts, refusals, faults>>
  BY DEF Record, history, IInv, TypeOK
<1>2. PICK n \in Nat : n = cycle /\ cycle' = n /\ n >= n
  BY <1>1, Numbers
<1>3. PICK f \in Nat : f = faults /\ faults' = f /\ f >= f
  BY <1>1, Numbers
<1>4. PICK d \in Int : Behind = d /\ d = n - tick
  BY <1>1, <1>2, Numbers DEF Behind
<1>5. PICK e \in Int : FileBehind = e
  BY Numbers
<1>6. Behind' = d /\ FileBehind' = e
  BY <1>1, <1>2, <1>4, <1>5 DEF Behind, FileBehind
<1>7. /\ marks'[i] = {m \in marks[i] \cup {tick} : m > tick - WindowTicks}
      /\ \A j \in Issues : j # i => marks'[j] = marks[j]
  BY <1>1 DEF Pruned, IInv, TypeOK, Marks
<1>8. /\ \A j \in Issues : Counted(j) = attempts[j]
      /\ Counted(i)' = attempts[i] \cup {n}
      /\ \A j \in Issues : j # i => Counted(j)' = attempts[j]
  BY <1>1, <1>2 DEF Counted
<1>9. tick \notin marks[i]
  BY <1>1, <1>8 DEF RateInv, MarksArePast
<1>10. MarksArePast'
  <2>1. \A j \in Issues : \A m \in marks'[j] : m <= tick
    BY <1>7, Numbers DEF RateInv, MarksArePast
  <2>2. \A j \in Issues : tick \in marks'[j] => cycle \in Counted(j)'
    BY <1>1, <1>2, <1>7, <1>8 DEF RateInv, MarksArePast
  <2> QED
    BY <1>1, <2>1, <2>2 DEF RateInv, MarksArePast
<1>11. Shows(marks'[i], d, attempts[i] \cup {n}, n, f)
  <2> SUFFICES ASSUME NEW s \in (n - WindowTicks)..MaxCycles
               PROVE  Cardinality(After(attempts[i] \cup {n}, s)) <= Cardinality(After(marks'[i], s - d)) + f
    BY DEF Shows
  <2>1. /\ s \in Int /\ s - d \in Int /\ WindowTicks \in Nat /\ tick \in 0..MaxCycles /\ n \in 0..MaxCycles
        /\ attempts[i] \in SUBSET (0..MaxCycles) /\ marks[i] \in SUBSET (0..MaxCycles)
    BY <1>2, Numbers
  <2>2. s - d >= tick - WindowTicks /\ (n > s <=> tick > s - d)
    BY <1>4, <2>1
  <2>3. After(marks'[i], s - d) = After(marks[i] \cup {tick}, s - d)
    <3>1. \A m \in 0..MaxCycles : m > s - d => m > tick - WindowTicks
      BY <2>1, <2>2
    <3> QED
      BY <1>7, <2>1, <3>1 DEF After
  <2>4. Cardinality(After(attempts[i], s)) <= Cardinality(After(marks[i], s - d)) + f
    BY <1>2, <1>3, <1>4, <1>8 DEF RateInv, MemoryShows, Shows
  <2>5. Cardinality(After(attempts[i] \cup {n}, s))
          = Cardinality(After(attempts[i], s)) + (IF n > s /\ n \notin attempts[i] THEN 1 ELSE 0)
    BY <2>1, AfterAdds
  <2>6. Cardinality(After(marks[i] \cup {tick}, s - d))
          = Cardinality(After(marks[i], s - d)) + (IF tick > s - d /\ tick \notin marks[i] THEN 1 ELSE 0)
    BY <2>1, AfterAdds
  <2>7. Cardinality(After(attempts[i], s)) \in Nat /\ Cardinality(After(marks[i], s - d)) \in Nat
    BY <2>1, AfterCounts, Zenon
  <2> DEFINE k == Cardinality(After(attempts[i], s))
             l == Cardinality(After(marks[i], s - d))
             p == Cardinality(After(attempts[i] \cup {n}, s))
             q == Cardinality(After(marks[i] \cup {tick}, s - d))
  <2>8. /\ k \in Nat /\ l \in Nat /\ k <= l + f
        /\ p = k + (IF n > s THEN 1 ELSE 0) /\ q = l + (IF n > s THEN 1 ELSE 0)
    BY <1>1, <1>2, <1>9, <2>2, <2>4, <2>5, <2>6, <2>7
  <2> HIDE DEF k, l, p, q
  <2>9. p <= q + f
    BY <2>8
  <2> QED
    BY <2>3, <2>9 DEF p, q
<1>12. \A j \in Issues : Shows(marks'[j], d, Counted(j)', n, f)
  <2> SUFFICES ASSUME NEW j \in Issues, j # i PROVE Shows(marks[j], d, attempts[j], n, f)
    BY <1>7, <1>8, <1>11
  <2> QED
    BY <1>2, <1>3, <1>4, <1>8 DEF RateInv, MemoryShows
<1>13. \A j \in Issues : Shows(file'.marks[j], e, attempts'[j], n, f)
  BY <1>1, <1>2, <1>3, <1>5 DEF RateInv, FileShows
<1>14. MemoryShows' /\ FileShows'
  BY <1>2, <1>3, <1>6, <1>12, <1>13, Later, Zenon
<1>15. RateKept'
  BY <1>1, <1>2, <1>3, NoAttemptRate DEF RateInv
<1> QED
  BY <1>10, <1>14, <1>15 DEF RateInv

\* The write and the verdict.
LEMMA CheckRate ==
  ASSUME IInv, IInv', RateInv, NEW i \in Issues, Check(i)
  PROVE  RateInv'
<1>1. /\ pc = "recording" /\ cur = {i} /\ pc' = "ready" /\ cur' = {}
      /\ attempts' = [attempts EXCEPT ![i] = @ \cup {cycle}]
      /\ refusals' = [refusals EXCEPT ![i] = IF Exceeds(marks[i]) THEN @ \cup {cycle} ELSE @]
      /\ UNCHANGED <<tick, marks, cycle>>
  BY DEF Check, memory
<1>2. PICK f \in Nat : faults' = f /\ f >= faults
                       /\ \/ file' = [tick |-> tick, marks |-> marks] /\ f = faults
                          \/ file' = file /\ f = faults + 1
  BY FaultsCount DEF Check
<1>3. PICK n \in Nat : n = cycle /\ cycle' = n /\ n >= n /\ f >= faults /\ faults \in Nat
  BY <1>1, <1>2, Numbers
<1>4. PICK d \in Int : Behind = d /\ d = n - tick
  BY <1>1, <1>3, Numbers DEF Behind
<1>5. Behind' = d
  BY <1>1, <1>3, <1>4 DEF Behind
<1>6. /\ attempts'[i] = attempts[i] \cup {n} /\ Counted(i) = attempts[i] \cup {n}
      /\ \A j \in Issues : Counted(j)' = Counted(j) /\ Counted(j) = attempts'[j]
      /\ \A j \in Issues : j # i => /\ attempts'[j] = attempts[j] /\ refusals'[j] = refusals[j]
                                    /\ Counted(j) = attempts[j]
  BY <1>1, <1>3 DEF Counted, IInv, TypeOK, Marks
<1>7. \A j \in Issues : /\ Counted(j) \in SUBSET (0..MaxCycles) /\ marks[j] \in SUBSET (0..MaxCycles)
                        /\ attempts[j] \in SUBSET (0..MaxCycles)
                        /\ file.marks[j] \in SUBSET (0..MaxCycles)
  BY Numbers
<1>8. MarksArePast'
  BY <1>1, <1>2, <1>6 DEF RateInv, MarksArePast
<1>9. ASSUME NEW j \in Issues PROVE Shows(marks[j], d, Counted(j), n, f)
  <2>1. Shows(marks[j], d, Counted(j), n, faults)
    BY <1>3, <1>4 DEF RateInv, MemoryShows
  <2>2. n >= n /\ f >= faults /\ faults \in Nat
    BY <1>3
  <2>3. marks[j] \in SUBSET (0..MaxCycles) /\ Counted(j) \in SUBSET (0..MaxCycles)
    BY <1>7
  <2> QED
    BY <2>1, <2>2, <2>3, ShowsOn, Zenon
<1>10. \A j \in Issues : Shows(marks'[j], d, Counted(j)', n, f)
  BY <1>1, <1>6, <1>9
<1>11. PICK e \in Int : FileBehind' = e /\ \A j \in Issues : Shows(file'.marks[j], e, attempts'[j], n, f)
  <2>1. CASE file' = [tick |-> tick, marks |-> marks]
    <3>1. FileBehind' = d
      BY <1>3, <1>4, <2>1 DEF FileBehind
    <3> QED
      BY <1>6, <1>9, <2>1, <3>1
  <2>2. CASE file' = file /\ f = faults + 1
    <3>1. PICK e \in Int : FileBehind = e /\ FileBehind' = e
      BY <1>1, <2>2, Numbers DEF FileBehind
    <3> SUFFICES ASSUME NEW j \in Issues
                 PROVE  Shows(file.marks[j], e, attempts'[j], n, f)
      BY <2>2, <3>1
    <3>2. Shows(file.marks[j], e, attempts[j], n, faults)
      BY <1>3, <3>1 DEF RateInv, FileShows
    <3> SUFFICES ASSUME NEW s \in (n - WindowTicks)..MaxCycles
                 PROVE  Cardinality(After(attempts'[j], s)) <= Cardinality(After(file.marks[j], s - e)) + f
      BY DEF Shows
    <3>3. /\ s \in Int /\ n \in 0..MaxCycles
          /\ attempts[j] \in SUBSET (0..MaxCycles) /\ file.marks[j] \in SUBSET (0..MaxCycles)
      BY <1>3, <1>7, Numbers
    <3> DEFINE as == attempts'[j]
               k == Cardinality(After(as, s))
               l == Cardinality(After(attempts[j], s))
               q == Cardinality(After(file.marks[j], s - e))
    <3>4. l \in Nat /\ q \in Nat
      BY <3>3, AfterCounts, Zenon
    <3>5. l <= q + faults
      BY <3>2 DEF Shows
    <3>6. k = l \/ k = l + 1
      <4>1. CASE j # i
        BY <1>6, <4>1
      <4>2. CASE j = i
        <5>1. as = attempts[j] \cup {n}
          BY <1>6, <4>2
        <5>2. Cardinality(After(attempts[j] \cup {n}, s))
                = Cardinality(After(attempts[j], s)) + (IF n > s /\ n \notin attempts[j] THEN 1 ELSE 0)
          BY <3>3, AfterAdds
        <5> HIDE DEF as
        <5> QED
          BY <3>4, <5>1, <5>2
      <4> QED
        BY <4>1, <4>2
    <3> HIDE DEF k, l, q
    <3>7. k <= q + f
      BY <1>3, <2>2, <3>4, <3>5, <3>6
    <3> QED
      BY <3>7 DEF k, q
  <2> QED
    BY <1>2, <2>1, <2>2
<1>12. MemoryShows' /\ FileShows'
  BY <1>2, <1>3, <1>5, <1>10, <1>11, Later, Zenon
<1>13. RateKept'
  <2> SUFFICES ASSUME NEW j \in Issues, NEW c \in 0..n
               PROVE  Cardinality(Limiter!Window(attempts'[j] \ refusals'[j], c)) <= MaxCount + f
    BY <1>2, <1>3 DEF RateKept
  <2> DEFINE B == attempts'[j] \ refusals'[j]
  <2>1. ASSUME NEW C \in SUBSET (attempts[j] \ refusals[j])
        PROVE  Cardinality(Limiter!Window(C, c)) <= MaxCount + f
    <3>1. c \in Nat /\ RateKept
      BY DEF RateInv
    <3> QED
      BY <1>2, <3>1, RateStays, Zenon
  <2>2. CASE j # i \/ Exceeds(marks[i])
    <3>1. B \in SUBSET (attempts[j] \ refusals[j])
      BY <1>1, <1>3, <1>6, <2>2 DEF IInv, TypeOK, Marks
    <3> QED
      BY <2>1, <3>1
  <2>3. CASE j = i /\ c # n
    <3>1. Limiter!Window(B, c) = Limiter!Window(B \cap attempts[i], c)
      BY <1>3, <1>6, <2>3 DEF Limiter!Window
    <3>2. B \cap attempts[i] \in SUBSET (attempts[j] \ refusals[j])
      BY <1>1, <2>3 DEF IInv, TypeOK, Marks
    <3> QED
      BY <2>1, <3>1, <3>2
  <2>4. CASE j = i /\ ~ Exceeds(marks[i]) /\ c = n
    <3>1. WindowTicks \in Nat /\ MaxCycles \in Nat /\ n \in 0..MaxCycles /\ tick \in 0..MaxCycles
          /\ MaxCount \in Nat
      BY <1>3, Numbers
    <3> DEFINE t == n - WindowTicks
               l == Cardinality(After(Counted(i), t))
               q == Cardinality(After(marks[i], t - d))
               p == Cardinality(Limiter!Window(B, c))
    <3>2. t \in Int /\ t \in t..MaxCycles /\ t - d = tick - WindowTicks
      BY <1>4, <3>1
    <3>3. After(marks[i], t - d) = {m \in marks[i] : tick - WindowTicks < m /\ m <= tick}
      BY <1>7, <3>1, <3>2 DEF RateInv, MarksArePast, After
    <3>4. q <= MaxCount
      BY <1>7, <2>4, <3>1, <3>3, AfterCounts DEF Exceeds
    <3>5. l <= q + f
      BY <1>9, <3>2 DEF Shows
    <3>6. p \in Nat /\ p <= l
      <4>1. Limiter!Window(B, c) \in SUBSET After(Counted(i), t)
        BY <1>6, <1>7, <2>4, <3>1 DEF Limiter!Window, After
      <4>2. IsFiniteSet(After(Counted(i), t))
        BY <1>7, AfterCounts
      <4> QED
        BY <4>1, <4>2, FS_Subset, FS_CardinalityType
    <3>7. l \in Nat /\ q \in Nat
      BY <1>7, AfterCounts, Zenon
    <3> HIDE DEF l, q, p
    <3>8. p <= MaxCount + f
      BY <3>1, <3>4, <3>5, <3>6, <3>7
    <3> QED
      BY <3>8 DEF p
  <2> QED
    BY <2>2, <2>3, <2>4
<1> QED
  BY <1>8, <1>12, <1>13 DEF RateInv

\* The next daemon remembers what the file shows.
LEMMA RestartRate ==
  ASSUME IInv, IInv', RateInv, Restart
  PROVE  RateInv'
<1>1. /\ tick' = file.tick /\ marks' = file.marks /\ pc' = "starting" /\ cur' = {}
      /\ UNCHANGED <<file, cycle, attempts, refusals, faults>>
  BY DEF Restart, Load, history
<1>2. PICK n \in Nat : n = cycle /\ cycle' = n
  BY <1>1, Numbers
<1>3. PICK f \in Nat : f = faults /\ faults' = f /\ f >= faults
  BY <1>1, Numbers
<1>4. PICK e \in Int : FileBehind = e /\ e = n - file.tick
  BY <1>2, Numbers DEF FileBehind
<1>5. FileBehind' = e /\ Behind' = e
  BY <1>1, <1>2, <1>4 DEF FileBehind, Behind
<1>6. \A i \in Issues : Counted(i)' = attempts[i]
  BY <1>1 DEF Counted
<1>7. \A i \in Issues : Shows(file.marks[i], e, attempts[i], n, f)
  BY <1>2, <1>3, <1>4 DEF RateInv, FileShows
<1>8. MemoryShows' /\ FileShows'
  <2>1. /\ \A i \in Issues : Shows(marks'[i], e, Counted(i)', n, f)
        /\ \A i \in Issues : Shows(file'.marks[i], e, attempts'[i], n, f)
    BY <1>1, <1>6, <1>7
  <2> QED
    BY <1>2, <1>3, <1>5, <2>1, Later, Zenon
<1>9. MarksArePast'
  BY <1>1 DEF RateInv, MarksArePast
<1>10. RateKept'
  BY <1>1, <1>2, <1>3, NoAttemptRate DEF RateInv
<1> QED
  BY <1>8, <1>9, <1>10 DEF RateInv

\* A tally without a file shows all of no attempts.
LEMMA InitRate == Init => RateInv
<1> SUFFICES ASSUME Init PROVE RateInv
  OBVIOUS
<1>1. /\ tick = 0 /\ pc = "starting" /\ cur = {} /\ faults = 0 /\ MaxCount \in Nat
      /\ file = [tick |-> 0, marks |-> [i \in Issues |-> {}]]
      /\ \A i \in Issues : marks[i] = {} /\ file.marks[i] = {} /\ attempts[i] = {} /\ Counted(i) = {}
  BY ConstantsOK DEF Init, Limiter!LimiterInit, Counted
<1>2. \A s : After({}, s) = {}
  BY DEF After
<1>3. Cardinality({}) = 0
  BY FS_EmptySet
<1>4. \A d, c : Shows({}, d, {}, c, 0)
  BY <1>2, <1>3 DEF Shows
<1>5. MemoryShows /\ FileShows
  BY <1>1, <1>4 DEF MemoryShows, FileShows
<1>6. RateKept
  <2> SUFFICES ASSUME NEW i \in Issues, NEW c \in 0..cycle
               PROVE  Cardinality(Limiter!Window(attempts[i] \ refusals[i], c)) <= MaxCount + faults
    BY DEF RateKept
  <2> DEFINE W == Limiter!Window(attempts[i] \ refusals[i], c)
  <2>1. W = {}
    BY <1>1 DEF Limiter!Window
  <2> HIDE DEF W
  <2>2. Cardinality(W) <= MaxCount + faults
    BY <1>1, <1>3, <2>1
  <2> QED
    BY <2>2 DEF W
<1>7. MarksArePast
  BY <1>1 DEF MarksArePast
<1> QED
  BY <1>5, <1>6, <1>7 DEF RateInv

\* Every step preserves what the tally shows.
LEMMA NextRate == IInv /\ IInv' /\ RateInv /\ [Next]_vars => RateInv'
<1> SUFFICES ASSUME IInv, IInv', RateInv, [Next]_vars PROVE RateInv'
  OBVIOUS
<1>1. CASE UNCHANGED vars
  BY <1>1 DEF vars, memory, history, RateInv, MarksArePast, MemoryShows, FileShows, RateKept,
              Shows, Behind, FileBehind, Counted
<1> QED
  BY <1>1, AdvanceTickRate, PersistTickRate, RecordRate, CheckRate, RestartRate DEF Next

\* A crash-restart loop is cut off also when writes of the tally fail: in any
\* window the re-dispatches that were allowed exceed the maximum by at most the
\* writes that were lost, for every window, maximum and number of failures.
THEOREM RateIsBounded == Spec => []RateBound
<1>1. RateInv => RateBound
  <2> SUFFICES ASSUME RateInv, NEW i \in Issues, NEW c \in 1..cycle
               PROVE  Cardinality(Limiter!Window(attempts[i] \ refusals[i], c)) <= MaxCount + faults
    BY DEF RateBound
  <2>1. c \in 0..cycle
    OBVIOUS
  <2> QED
    BY <2>1 DEF RateInv, RateKept
<1>2. IInv /\ RateInv /\ [Next]_vars => (IInv /\ RateInv)'
  BY NextInv, NextRate
<1>3. Init => IInv /\ RateInv
  BY InitInv, InitRate
<1> QED
  BY <1>1, <1>2, <1>3, PTL DEF Spec

=============================================================================
