---------------------------- MODULE WatchProofs -----------------------------
(***************************************************************************)
(* What follows the life of other processes, for every set of loops, start *)
(* attempts, sessions and events.                                          *)
(*                                                                         *)
(* The session directory never outgrows its capacity, no late event        *)
(* revives a session that has ended, and a session's generation moves as   *)
(* SessionLifecycle promises.  An evicted session is judged by its         *)
(* tombstone and a session whose row has aged out is forgotten, so the     *)
(* invariant has to say of every entry, row or tombstone, that it is not   *)
(* older than the latest accepted end (Outranks), and that a tombstone     *)
(* kept beside a row is that row, aged alike (Together): otherwise a row   *)
(* could be swept and leave a tombstone that puts the session back into an *)
(* earlier run.                                                            *)
(*                                                                         *)
(* Wake loops share renewals: a loop whose poll is older than the last     *)
(* renewal has seen the generation change before it asks (Heard).          *)
(*                                                                         *)
(* A peer engine is in the manager's hands: the attempt that boots a       *)
(* process is the current one (AttemptsOK), a manager that stops a process *)
(* holds no other (ManagerOK), and after close() has stopped the engine no *)
(* start is current (ClosedOK).                                            *)
(***************************************************************************)
EXTENDS MCWatch, FiniteSetTheorems, TLAPS

\* The sessions with a row, swept or not.
Rows == {s \in Sessions : row[s] # NoEntry}

\* No entry was observed before the latest accepted end, an entry of a running
\* session after it; tombstones are of ended sessions.
Outranks ==
  \A s \in Sessions :
    /\ row[s].life = "observed" => row[s].at > lastEnd[s]
    /\ row[s].life = "ended" => row[s].at >= lastEnd[s]
    /\ tomb[s] # NoEntry => tomb[s].life = "ended" /\ tomb[s].at >= lastEnd[s]

\* A tombstone kept beside a row is that row.
Together ==
  \A s \in Sessions : row[s] # NoEntry /\ tomb[s] # NoEntry => tomb[s] = row[s]

IInv == TypeOK /\ IsFiniteSet(Rows) /\ Outranks /\ Together

-----------------------------------------------------------------------------
(* Entries.                                                                *)

\* The sweep keeps an entry or removes it.
LEMMA KeptEntry ==
  ASSUME NEW x \in Entries
  PROVE  /\ Kept(x) \in {NoEntry, x} /\ Kept(x) \in Entries
         /\ x # NoEntry /\ Kept(x) = NoEntry => ~(x.age <= Retention)
         /\ Kept(NoEntry) = NoEntry
BY DirectoryAssumption DEF Kept, Entries, NoEntry, Entry, Old

\* Time changes nothing but the age of an entry.
LEMMA AgedEntry ==
  ASSUME NEW x \in Entries
  PROVE  /\ Aged(x) \in Entries
         /\ Aged(x) = NoEntry <=> x = NoEntry
         /\ Aged(x).life = x.life /\ Aged(x).gen = x.gen /\ Aged(x).at = x.at
BY DirectoryAssumption DEF Aged, Entries, NoEntry, Entry, Old

\* An entry tells by its life whether it is one.
LEMMA EntryLife ==
  ASSUME NEW x \in Entries
  PROVE  /\ x = NoEntry => x.life = "unlisted" /\ x.gen = 0 /\ x.at = 0
         /\ x # NoEntry => /\ x.life \in {"observed", "ended"}
                           /\ x.gen \in Nat \ {0} /\ x.at \in Nat \ {0}
                           /\ x.age \in 0..Old
         /\ x.gen \in Nat /\ x.at \in Nat
BY DirectoryAssumption DEF Entries, NoEntry, Entry

\* What recordDiscoveryEvent writes for an event is an entry.
NewEntry(e) == Entry(IF e.kind = "end" THEN "ended" ELSE "observed",
                     GenerationOf(e), e.at, 0)

\* What is left of the tables after the sweep, and what is remembered.
LEMMA KeptTables ==
  ASSUME TypeOK, NEW s \in Sessions
  PROVE  /\ KeptRow[s] \in Entries /\ KeptRow[s] \in {NoEntry, row[s]}
         /\ KeptTomb[s] \in Entries /\ KeptTomb[s] \in {NoEntry, tomb[s]}
         /\ Remembered(s) \in Entries
         /\ Remembered(s) \in {KeptRow[s], KeptTomb[s]}
<1>1. row[s] \in Entries /\ tomb[s] \in Entries
  BY DEF TypeOK
<1>2. KeptRow[s] = Kept(row[s]) /\ KeptTomb[s] = Kept(tomb[s])
  BY DEF KeptRow, KeptTomb
<1> QED
  BY <1>1, <1>2, KeptEntry DEF Remembered

\* The entry written for an event is well formed and of its session's life.
LEMMA NewEntryType ==
  ASSUME TypeOK, NEW e \in Events
  PROVE  /\ NewEntry(e) \in Entries /\ NewEntry(e) # NoEntry
         /\ NewEntry(e).life = IF e.kind = "end" THEN "ended" ELSE "observed"
         /\ NewEntry(e).at = e.at /\ NewEntry(e).gen = GenerationOf(e)
<1>1. e.of \in Sessions /\ e.at \in Nat \ {0}
  BY DirectoryAssumption
<1>2. Remembered(e.of) \in Entries
  BY <1>1, KeptTables
<1>3. GenerationOf(e) \in Nat \ {0}
  BY <1>2, EntryLife DEF GenerationOf
<1> QED
  BY <1>1, <1>3, DirectoryAssumption DEF NewEntry, Entry, Entries, NoEntry, Old

\* A session gives way only when it has ended, and never to itself.
LEMMA VictimHasEnded ==
  ASSUME NEW e \in Events, NEW gone \in MakesRoom(e), NEW s \in gone
  PROVE  /\ s \in Sessions /\ s # e.of /\ gone = {s} /\ s \in Listed
         /\ KeptRow[s] # NoEntry /\ KeptRow[s].life = "ended"
         /\ NeedsRoom(e)
BY DEF MakesRoom, Victims, Listed, NeedsRoom

-----------------------------------------------------------------------------
(* The invariant.                                                          *)

\* What recording an event does to the entries of one session.
RowAfter(s, e, gone) ==
  IF s = e.of /\ ~Stale(e) THEN NewEntry(e)
  ELSE IF s \in gone THEN NoEntry ELSE KeptRow[s]
TombAfter(s, e, gone) ==
  IF s = e.of /\ ~Stale(e) THEN TombstoneOf(e, NewEntry(e))
  ELSE IF s \in gone THEN KeptRow[s] ELSE KeptTomb[s]
EndAfter(s, e) ==
  IF s = e.of /\ ~Stale(e) /\ e.kind = "end" THEN e.at
  ELSE IF Remembered(s) = NoEntry THEN 0 ELSE lastEnd[s]

\* A recorded event writes these entries.
LEMMA Recorded ==
  ASSUME NEW e \in Events, Record(e)
  PROVE  \E gone \in MakesRoom(e) :
           /\ row' = [s \in Sessions |-> RowAfter(s, e, gone)]
           /\ tomb' = [s \in Sessions |-> TombAfter(s, e, gone)]
           /\ lastEnd' = [s \in Sessions |-> EndAfter(s, e)]
BY Zenon DEF Record, RowAfter, TombAfter, EndAfter, NewEntry

\* The initial state satisfies the invariant.
LEMMA InvInit == Init => IInv
<1> SUFFICES ASSUME Init PROVE IInv
  OBVIOUS
<1>1. Rows = {}
  BY DEF Init, Rows
<1>2. IsFiniteSet(Rows) /\ Cardinality(Rows) = 0
  BY <1>1, FS_EmptySet
<1>3. NoEntry \in Entries /\ -1 \in -1..Old
  BY DirectoryAssumption DEF Entries, Old
<1>4. TypeOK
  BY <1>2, <1>3, DirectoryAssumption DEF Init, TypeOK, Rows
<1> QED
  BY <1>2, <1>4 DEF Init, IInv, Outranks, Together, NoEntry, Entry

\* Recording an event keeps the tables well formed.
LEMMA RecordTypes ==
  ASSUME IInv, NEW e \in Events, Record(e)
  PROVE  /\ row' \in [Sessions -> Entries] /\ tomb' \in [Sessions -> Entries]
         /\ known' \in [Events -> -1..Old] /\ lastEnd' \in [Sessions -> Nat]
<1>1. TypeOK /\ e.at \in Nat
  BY DirectoryAssumption DEF IInv
<1>2. PICK gone \in MakesRoom(e) :
        /\ row' = [s \in Sessions |-> RowAfter(s, e, gone)]
        /\ tomb' = [s \in Sessions |-> TombAfter(s, e, gone)]
        /\ lastEnd' = [s \in Sessions |-> EndAfter(s, e)]
  BY Recorded
<1>3. NoEntry \in Entries /\ NewEntry(e) \in Entries
  BY <1>1, NewEntryType DEF Entries
<1>4. ASSUME NEW s \in Sessions
      PROVE  /\ RowAfter(s, e, gone) \in Entries
             /\ TombAfter(s, e, gone) \in Entries
             /\ EndAfter(s, e) \in Nat
  BY <1>1, <1>3, KeptTables
  DEF RowAfter, TombAfter, EndAfter, TombstoneOf, TypeOK
<1>5. known' \in [Events -> -1..Old]
  BY <1>1, DirectoryAssumption DEF Record, TypeOK, Old
<1> QED
  BY <1>2, <1>4, <1>5

\* A full directory gives up a session before it takes in another.
LEMMA RecordRoom ==
  ASSUME IInv, NEW e \in Events, Record(e)
  PROVE  IsFiniteSet(Rows') /\ Cardinality(Rows') <= Capacity
<1>1. PICK gone \in MakesRoom(e) :
        row' = [s \in Sessions |-> RowAfter(s, e, gone)]
  BY Recorded
<1>2. /\ TypeOK /\ IsFiniteSet(Rows) /\ Cardinality(Rows) <= Capacity
      /\ e.of \in Sessions /\ Capacity \in Nat \ {0}
  BY DirectoryAssumption DEF IInv, TypeOK, Rows
<1>3. Listed \subseteq Rows
  BY <1>2, KeptTables DEF Listed, Rows
<1>4. /\ IsFiniteSet(Listed) /\ Cardinality(Listed) \in Nat
      /\ Cardinality(Listed) <= Capacity
  BY <1>2, <1>3, FS_Subset, FS_CardinalityType
<1>5. CASE Stale(e) \/ e.of \in Listed
  <2>1. Rows' \subseteq Listed
    BY <1>1, <1>5, NewEntryType, <1>2 DEF Rows, Listed, RowAfter
  <2> QED
    BY <1>2, <1>4, <2>1, FS_Subset, FS_CardinalityType
<1>6. CASE ~Stale(e) /\ e.of \notin Listed /\ ~NeedsRoom(e)
  <2>1. Cardinality(Listed) < Capacity
    BY <1>2, <1>4, <1>6 DEF NeedsRoom
  <2>2. Rows' \subseteq Listed \cup {e.of}
    BY <1>1 DEF Rows, Listed, RowAfter
  <2>3. /\ IsFiniteSet(Listed \cup {e.of})
        /\ Cardinality(Listed \cup {e.of}) = Cardinality(Listed) + 1
    BY <1>4, <1>6, FS_AddElement
  <2> QED
    BY <1>2, <1>4, <2>1, <2>2, <2>3, FS_Subset, FS_CardinalityType
<1>7. CASE ~Stale(e) /\ e.of \notin Listed /\ NeedsRoom(e)
  <2>1. PICK v \in Victims : gone = {v}
    BY <1>7 DEF MakesRoom
  <2>2. v \in Listed
    BY DEF Victims
  <2> DEFINE left == Listed \ {v}
  <2>3. IsFiniteSet(left) /\ Cardinality(left) = Cardinality(Listed) - 1
    BY <1>4, <2>2, FS_RemoveElement
  <2>4. Rows' \subseteq left \cup {e.of}
    BY <1>1, <2>1 DEF Rows, Listed, RowAfter
  <2>5. e.of \notin left
    BY <1>7
  <2> HIDE DEF left
  <2>6. /\ IsFiniteSet(left \cup {e.of})
        /\ Cardinality(left \cup {e.of}) = Cardinality(left) + 1
    BY <2>3, <2>5, FS_AddElement
  <2> QED
    BY <1>2, <1>4, <2>3, <2>4, <2>6, FS_Subset, FS_CardinalityType
<1> QED
  BY <1>5, <1>6, <1>7

\* Recording an event keeps every entry at or after the latest accepted end.
LEMMA RecordOutranks ==
  ASSUME IInv, NEW e \in Events, Record(e)
  PROVE  Outranks'
<1>1. PICK gone \in MakesRoom(e) :
        /\ row' = [s \in Sessions |-> RowAfter(s, e, gone)]
        /\ tomb' = [s \in Sessions |-> TombAfter(s, e, gone)]
        /\ lastEnd' = [s \in Sessions |-> EndAfter(s, e)]
  BY Recorded
<1>2. /\ TypeOK /\ Outranks
      /\ e.at \in Nat \ {0} /\ e.kind \in {"start", "activity", "end"}
  BY DirectoryAssumption DEF IInv
<1> SUFFICES ASSUME NEW s \in Sessions
             PROVE  /\ row'[s].life = "observed" => row'[s].at > lastEnd'[s]
                    /\ row'[s].life = "ended" => row'[s].at >= lastEnd'[s]
                    /\ tomb'[s] # NoEntry => /\ tomb'[s].life = "ended"
                                             /\ tomb'[s].at >= lastEnd'[s]
  BY DEF Outranks
<1>3. /\ row'[s] = RowAfter(s, e, gone) /\ tomb'[s] = TombAfter(s, e, gone)
      /\ lastEnd'[s] = EndAfter(s, e)
  BY <1>1
<1>4. /\ row[s] \in Entries /\ tomb[s] \in Entries /\ lastEnd[s] \in Nat
  BY <1>2 DEF TypeOK
<1> DEFINE old == Remembered(s)
<1>5. old # NoEntry =>
        /\ old.at \in Nat /\ old.at >= lastEnd[s]
        /\ old.life = "observed" => old.at > lastEnd[s]
  BY <1>2, <1>4, KeptTables, EntryLife DEF Outranks
<1>6. CASE s = e.of /\ ~Stale(e)
  <2>1. CASE e.kind = "end"
    BY <1>2, <1>3, <1>6, <2>1, NewEntryType
    DEF RowAfter, TombAfter, EndAfter, TombstoneOf
  <2>2. CASE e.kind # "end"
    <3>1. e.at > EndAfter(s, e)
      BY <1>2, <1>4, <1>5, <1>6, <2>2 DEF EndAfter, Stale
    <3> QED
      BY <1>2, <1>3, <1>6, <2>2, <3>1, NewEntryType
      DEF RowAfter, TombAfter, TombstoneOf
  <2> QED
    BY <2>1, <2>2
<1>7. CASE ~(s = e.of /\ ~Stale(e))
  <2>1. /\ row'[s] \in {NoEntry, row[s]}
        /\ tomb'[s] \in {NoEntry, tomb[s], row[s]}
        /\ tomb'[s] # NoEntry => tomb'[s] = tomb[s] \/ row[s].life = "ended"
    BY <1>2, <1>3, <1>7, KeptTables, VictimHasEnded DEF RowAfter, TombAfter
  <2>2. lastEnd'[s] \in {0, lastEnd[s]}
    BY <1>3, <1>7 DEF EndAfter
  <2> QED
    BY <1>2, <1>4, <2>1, <2>2, EntryLife DEF Outranks, NoEntry, Entry
<1> QED
  BY <1>6, <1>7

\* Recording an event keeps a tombstone beside a row the row itself.
LEMMA RecordTogether ==
  ASSUME IInv, NEW e \in Events, Record(e)
  PROVE  Together'
<1>1. PICK gone \in MakesRoom(e) :
        /\ row' = [s \in Sessions |-> RowAfter(s, e, gone)]
        /\ tomb' = [s \in Sessions |-> TombAfter(s, e, gone)]
  BY Recorded
<1>2. TypeOK /\ Together
  BY DEF IInv
<1> SUFFICES ASSUME NEW s \in Sessions, row'[s] # NoEntry, tomb'[s] # NoEntry
             PROVE  tomb'[s] = row'[s]
  BY DEF Together
<1>3. row'[s] = RowAfter(s, e, gone) /\ tomb'[s] = TombAfter(s, e, gone)
  BY <1>1
<1> QED
  BY <1>2, <1>3, KeptTables DEF RowAfter, TombAfter, TombstoneOf, Together

\* Time keeps the invariant.
LEMMA TickInv == IInv /\ Tick => IInv'
<1> SUFFICES ASSUME IInv, Tick PROVE IInv'
  OBVIOUS
<1>1. \A s \in Sessions : /\ row[s] \in Entries /\ tomb[s] \in Entries
                          /\ row'[s] = Aged(row[s]) /\ tomb'[s] = Aged(tomb[s])
  BY DEF IInv, TypeOK, Tick
<1>2. Rows' = Rows
  BY <1>1, AgedEntry DEF Rows
<1>3. row' \in [Sessions -> Entries] /\ tomb' \in [Sessions -> Entries]
  BY <1>1, AgedEntry DEF Tick
<1>4. known' \in [Events -> -1..Old]
  BY DirectoryAssumption DEF IInv, TypeOK, Tick, Old
<1>5. TypeOK'
  BY <1>2, <1>3, <1>4 DEF IInv, TypeOK, Tick, Rows
<1>6. Outranks'
  BY <1>1, AgedEntry DEF IInv, Outranks, Tick
<1>7. Together'
  BY <1>1, AgedEntry DEF IInv, Together
<1> QED
  BY <1>2, <1>5, <1>6, <1>7 DEF IInv

\* Every step keeps the invariant.
LEMMA InvNext == IInv /\ [Next]_vars => IInv'
<1> SUFFICES ASSUME IInv, [Next]_vars PROVE IInv'
  OBVIOUS
<1>1. ASSUME NEW e \in Events, Record(e) PROVE IInv'
  BY <1>1, RecordTypes, RecordRoom, RecordOutranks, RecordTogether
  DEF IInv, TypeOK, Rows
<1>2. CASE Tick
  BY <1>2, TickInv
<1>3. CASE UNCHANGED vars
  BY <1>3 DEF vars, IInv, TypeOK, Rows, Outranks, Together
<1> QED
  BY <1>1, <1>2, <1>3 DEF Next

\* The inductive invariant of the directory.
THEOREM DirectoryInvariant == Spec => []IInv
<1>1. Init => IInv
  BY InvInit
<1>2. IInv /\ [Next]_vars => IInv'
  BY InvNext
<1> QED
  BY <1>1, <1>2, PTL DEF Spec

\* However late, repeated or reordered the hooks' events are, a session shown
\* as running was heard of after its latest accepted end, also when its row
\* was evicted meanwhile, and the directory never outgrows its capacity.
THEOREM NoEndIsUndone == Spec => []EndOutranks
<1>1. IInv => EndOutranks
  BY DEF IInv, Outranks, EndOutranks
<1> QED
  BY <1>1, DirectoryInvariant, PTL

-----------------------------------------------------------------------------
(* The lifecycle of each session.                                          *)

\* A recorded event moves each session as SessionLifecycle allows: a session
\* that gave way keeps its generation in its tombstone, one that is forgotten
\* was not heard of for the retention time.
LEMMA RecordMoves ==
  ASSUME IInv, NEW e \in Events, Record(e), NEW s \in Sessions
  PROVE  Lifecycle(s)!Move \/ UNCHANGED <<LifeOf(s), GenOf(s)>>
<1>1. PICK gone \in MakesRoom(e) :
        /\ row' = [x \in Sessions |-> RowAfter(x, e, gone)]
        /\ tomb' = [x \in Sessions |-> TombAfter(x, e, gone)]
  BY Recorded
<1>2. /\ TypeOK /\ Outranks /\ Together
      /\ e.kind \in {"start", "activity", "end"}
  BY DirectoryAssumption DEF IInv
<1>3. row'[s] = RowAfter(s, e, gone) /\ tomb'[s] = TombAfter(s, e, gone)
  BY <1>1
<1>4. row[s] \in Entries /\ tomb[s] \in Entries
  BY <1>2 DEF TypeOK
<1>5. KeptRow[s] = Kept(row[s]) /\ KeptTomb[s] = Kept(tomb[s])
  BY DEF KeptRow, KeptTomb
<1>6. row[s] # NoEntry /\ KeptRow[s] = NoEntry => KeptTomb[s] = NoEntry
  BY <1>2, <1>4, <1>5, KeptEntry DEF Together
<1>7. Remembered(s) = NoEntry =>
        (GenOf(s) = 0 /\ LifeOf(s) = "unlisted") \/ ~FreshOf(s)
  BY <1>4, <1>5, KeptEntry, EntryLife DEF Remembered, GenOf, LifeOf, FreshOf
<1>8. Remembered(s) # NoEntry =>
        /\ GenOf(s) = Remembered(s).gen /\ GenOf(s) \in Nat \ {0}
        /\ \/ Remembered(s) = row[s] /\ KeptRow[s] = row[s]
              /\ LifeOf(s) = Remembered(s).life
           \/ Remembered(s) = tomb[s] /\ row[s] = NoEntry
              /\ LifeOf(s) = "unlisted" /\ Remembered(s).life = "ended"
  BY <1>2, <1>4, <1>5, <1>6, KeptEntry, EntryLife
  DEF Remembered, GenOf, LifeOf, Outranks
<1>9. CASE s = e.of /\ ~Stale(e)
  <2>1. /\ LifeOf(s)' = IF e.kind = "end" THEN "ended" ELSE "observed"
        /\ GenOf(s)' = GenerationOf(e)
    BY <1>2, <1>3, <1>9, NewEntryType DEF LifeOf, GenOf, RowAfter
  <2>2. CASE Remembered(s) = NoEntry
    <3>1. GenOf(s)' = 1 /\ LifeOf(s)' \in {"observed", "ended"}
      BY <1>9, <2>1, <2>2 DEF GenerationOf
    <3> QED
      BY <1>7, <2>2, <3>1
      DEF Lifecycle!Move, Lifecycle!Appear, Lifecycle!Reappear
  <2>3. CASE Remembered(s) # NoEntry
    BY <1>2, <1>8, <1>9, <2>1, <2>3, EntryLife, <1>4
    DEF GenerationOf, Stale, Lifecycle!Move, Lifecycle!Finish,
        Lifecycle!Resume, Lifecycle!Relist
  <2> QED
    BY <2>2, <2>3
<1>10. CASE ~(s = e.of /\ ~Stale(e)) /\ s \in gone
  <2>1. KeptRow[s] # NoEntry /\ KeptRow[s].life = "ended" /\ KeptRow[s] = row[s]
    BY <1>2, <1>10, VictimHasEnded, KeptTables
  <2>2. row'[s] = NoEntry /\ tomb'[s] = row[s]
    BY <1>3, <1>10, <2>1 DEF RowAfter, TombAfter
  <2> QED
    BY <2>1, <2>2, EntryLife
    DEF LifeOf, GenOf, Lifecycle!Move, Lifecycle!Evict, NoEntry, Entry
<1>11. CASE ~(s = e.of /\ ~Stale(e)) /\ s \notin gone
  <2>1. row'[s] = KeptRow[s] /\ tomb'[s] = KeptTomb[s]
    BY <1>3, <1>11 DEF RowAfter, TombAfter
  <2>2. CASE Remembered(s) = NoEntry
    <3>1. LifeOf(s)' = "unlisted" /\ GenOf(s)' = 0
      BY <2>1, <2>2 DEF Remembered, LifeOf, GenOf, NoEntry, Entry
    <3> QED
      BY <1>7, <2>2, <3>1 DEF Lifecycle!Move, Lifecycle!Forget
  <2>3. CASE Remembered(s) # NoEntry
    BY <1>8, <2>1, <2>3, <1>5, <1>4, KeptEntry DEF LifeOf, GenOf, Remembered
  <2> QED
    BY <2>2, <2>3
<1> QED
  BY <1>9, <1>10, <1>11

\* Every step of the directory moves each session as its lifecycle allows.
LEMMA StepMoves ==
  IInv /\ [Next]_vars =>
    \A s \in Sessions : Lifecycle(s)!Move \/ UNCHANGED <<LifeOf(s), GenOf(s)>>
<1> SUFFICES ASSUME IInv, [Next]_vars, NEW s \in Sessions
             PROVE  Lifecycle(s)!Move \/ UNCHANGED <<LifeOf(s), GenOf(s)>>
  OBVIOUS
<1>1. ASSUME NEW e \in Events, Record(e)
      PROVE  Lifecycle(s)!Move \/ UNCHANGED <<LifeOf(s), GenOf(s)>>
  BY <1>1, RecordMoves
<1>2. CASE Tick
  <2>1. /\ row[s] \in Entries /\ tomb[s] \in Entries
        /\ row'[s] = Aged(row[s]) /\ tomb'[s] = Aged(tomb[s])
    BY <1>2 DEF IInv, TypeOK, Tick
  <2> QED
    BY <2>1, AgedEntry DEF LifeOf, GenOf
<1>3. CASE UNCHANGED vars
  BY <1>3 DEF vars, LifeOf, GenOf
<1> QED
  BY <1>1, <1>2, <1>3 DEF Next

\* The directory implements the lifecycle of every session at once: the
\* generation grows by one exactly when a session that has ended starts again,
\* and is forgotten only after the retention time.
THEOREM RunsAreNumbered == Spec => EachRunHasItsGeneration
<1>1. Init => \A s \in Sessions : Lifecycle(s)!LifecycleInit
  BY DEF Init, LifeOf, GenOf, Lifecycle!LifecycleInit, NoEntry, Entry
<1>2. IInv /\ [Next]_vars =>
        [\A s \in Sessions :
           Lifecycle(s)!Move \/ UNCHANGED <<LifeOf(s), GenOf(s)>>]_vars
  BY StepMoves
<1> QED
  BY <1>1, <1>2, DirectoryInvariant, PTL DEF Spec, EachRunHasItsGeneration

-----------------------------------------------------------------------------
\* A wake loop, from its parts.
WakeLoop(at, renewable, stale, old) ==
  [pc |-> at, renewable |-> renewable, stale |-> stale, old |-> old]

LoopFields(r) == r = WakeLoop(r.pc, r.renewable, r.stale, r.old)

\* A loop whose poll was sent before the last renewal ended knows of a new generation.
Heard(r) == LoopFields(r) /\ (r.pc \in {"poll", "failed"} /\ r.old => r.stale)

\* Whoever shares the poll in flight waits for it, and a renewal a loop asked
\* for was due.
GrantInv ==
  /\ lane = [l \in Lanes |-> lane[l]] /\ \A l \in Lanes : Heard(lane[l])
  /\ slot \subseteq Lanes /\ \A l \in slot : lane[l].pc = "poll"
  /\ flight.by = "rejection" => ~flight.old

\* A loop gives back the parts it was made of.
LEMMA WakeLoopIs ==
  ASSUME NEW at, NEW renewable, NEW stale, NEW old
  PROVE  LET r == WakeLoop(at, renewable, stale, old)
         IN  LoopFields(r) /\ r.pc = at /\ r.renewable = renewable /\ r.stale = stale /\ r.old = old
  BY DEF WakeLoop, LoopFields

\* One loop moves.
LEMMA LoopMoves ==
  ASSUME GrantInv, NEW l \in Lanes, NEW r, lane' = [lane EXCEPT ![l] = r], Heard(r),
         slot' \subseteq slot \cup {l}, l \in slot' => r.pc = "poll",
         flight'.by = "rejection" => ~flight'.old
  PROVE  GrantInv'
<1>1. lane' = [k \in Lanes |-> lane'[k]] /\ lane'[l] = r /\ \A k \in Lanes \ {l} : lane'[k] = lane[k]
  BY DEF GrantInv
<1>2. \A k \in Lanes : Heard(lane'[k])
  BY <1>1 DEF GrantInv
<1>3. ASSUME NEW k \in slot' PROVE lane'[k].pc = "poll"
  <2>1. CASE k = l
    BY <1>1, <2>1
  <2>2. CASE k # l
    <3>1. k \in slot /\ lane[k].pc = "poll"
      BY <1>3, <2>2 DEF GrantInv
    <3>2. lane'[k] = lane[k]
      BY <2>2 DEF GrantInv
    <3> QED BY <3>1, <3>2
  <2> QED BY <2>1, <2>2
<1> QED BY <1>1, <1>2, <1>3 DEF GrantInv

\* A loop that goes on to a place where nothing is asked of it.
LEMMA LoopGoesOn ==
  ASSUME GrantInv, NEW l \in Lanes, NEW at, Grant!Goes(l, at), at \notin {"poll", "failed"},
         slot' \subseteq slot, l \notin slot', flight'.by = "rejection" => ~flight'.old
  PROVE  GrantInv'
<1> DEFINE r == [lane[l] EXCEPT !.pc = at]
<1>1. lane' = [lane EXCEPT ![l] = r] /\ Heard(lane[l])
  BY DEF Grant!Goes, GrantInv
<1>2. r = WakeLoop(at, lane[l].renewable, lane[l].stale, lane[l].old)
  BY <1>1 DEF Heard, LoopFields, WakeLoop
<1> HIDE DEF r
<1>3. LoopFields(r) /\ r.pc = at
  BY <1>2, WakeLoopIs
<1>4. Heard(r)
  BY <1>3 DEF Heard
<1> QED BY <1>1, <1>4, LoopMoves

\* A renewal asked for by a loop whose poll was rejected was due: had one ended
\* since the poll, the loop would have seen the generation change.
LEMMA RenewOK ==
  ASSUME GrantInv, NEW l \in Lanes, Grant!RenewWatchGrant(l) PROVE GrantInv'
<1>1. lane[l].pc = "failed" /\ slot' = slot /\ Heard(lane[l])
  BY DEF Grant!RenewWatchGrant, GrantInv
<1>2. l \notin slot'
  BY <1>1 DEF GrantInv
<1>3. CASE ~lane[l].renewable \/ Grant!Reuses(l)
  <2>1. Grant!Goes(l, "backoff") /\ flight' = flight
    BY <1>3 DEF Grant!RenewWatchGrant
  <2>2. flight'.by = "rejection" => ~flight'.old
    BY <2>1 DEF GrantInv
  <2> QED BY <1>1, <1>2, <2>1, <2>2, LoopGoesOn
<1>4. CASE ~(~lane[l].renewable \/ Grant!Reuses(l))
  <2>1. Grant!Goes(l, "renew") /\ ~lane[l].stale
        /\ flight' = IF flight # Grant!NoFlight THEN flight ELSE [by |-> "rejection", old |-> lane[l].old]
    BY <1>4 DEF Grant!RenewWatchGrant, Grant!Reuses
  <2>2. ~lane[l].old
    BY <1>1, <2>1 DEF Heard
  <2>3. flight'.by = "rejection" => ~flight'.old
    <3>1. CASE flight # Grant!NoFlight
      BY <2>1, <3>1 DEF GrantInv
    <3>2. CASE flight = Grant!NoFlight
      <4>1. flight' = [by |-> "rejection", old |-> lane[l].old]
        BY <2>1, <3>2
      <4>2. flight'.old = lane[l].old
        BY <4>1
      <4> QED BY <2>2, <4>2
    <3> QED BY <3>1, <3>2
  <2> QED BY <1>1, <1>2, <2>1, <2>3, LoopGoesOn
<1> QED BY <1>3, <1>4

\* The end of a watch-ensure, for a loop that may have waited for it.
LEMMA ObserverHears ==
  ASSUME NEW r, Heard(r)
  PROVE  LET t == [r EXCEPT !.stale = TRUE, !.old = TRUE, !.pc = IF @ = "renew" THEN "backoff" ELSE @]
         IN  Heard(t) /\ (r.pc = "poll" => t.pc = "poll")
<1> DEFINE t == [r EXCEPT !.stale = TRUE, !.old = TRUE, !.pc = IF @ = "renew" THEN "backoff" ELSE @]
           at == IF r.pc = "renew" THEN "backoff" ELSE r.pc
<1>0. PICK yes : yes = TRUE
  OBVIOUS
<1> DEFINE a == [r EXCEPT !.stale = yes]
           b == [a EXCEPT !.old = yes]
<1>1. a = WakeLoop(r.pc, r.renewable, yes, r.old)
  BY DEF Heard, LoopFields, WakeLoop
<1>2. b = WakeLoop(r.pc, r.renewable, yes, yes)
  <2> HIDE DEF a
  <2> QED BY <1>1 DEF WakeLoop
<1>3. t = [b EXCEPT !.pc = IF @ = "renew" THEN "backoff" ELSE @]
  BY <1>0, Zenon
<1> HIDE DEF b, t
<1>4. t = WakeLoop(at, r.renewable, yes, yes)
  BY <1>2, <1>3 DEF WakeLoop
<1> HIDE DEF at
<1>5. LoopFields(t) /\ t.pc = at /\ t.stale = yes
  BY <1>4, WakeLoopIs
<1>6. t.stale
  BY <1>0, <1>5, Zenon
<1>7. Heard(t)
  BY <1>5, <1>6 DEF Heard
<1> QED BY <1>5, <1>7 DEF t, at

\* All loops move, and those in the poll stay there.
LEMMA LoopsMove ==
  ASSUME GrantInv, lane' = [l \in Lanes |-> lane'[l]], slot' = slot \/ slot' = {},
         \A l \in Lanes : Heard(lane'[l]) /\ (l \in slot' => lane'[l].pc = "poll"),
         flight'.by = "rejection" => ~flight'.old
  PROVE  GrantInv'
  BY DEF GrantInv

\* The end of a watch-ensure tells every loop.
LEMMA EnsureOK ==
  ASSUME GrantInv, Grant!EnsureEnds \/ Grant!EnsureReuses PROVE GrantInv'
<1>1. lane' = Grant!Observers /\ flight' = Grant!NoFlight /\ slot' = slot
  BY DEF Grant!EnsureEnds, Grant!EnsureReuses
<1>2. ASSUME NEW l \in Lanes PROVE Heard(lane'[l]) /\ (l \in slot' => lane'[l].pc = "poll")
  <2>1. lane'[l] = [lane[l] EXCEPT !.stale = TRUE, !.old = TRUE, !.pc = IF @ = "renew" THEN "backoff" ELSE @]
    BY <1>1, Zenon DEF Grant!Observers
  <2>2. Heard(lane[l])
    BY DEF GrantInv
  <2>3. Heard(lane'[l]) /\ (lane[l].pc = "poll" => lane'[l].pc = "poll")
    BY <2>1, <2>2, ObserverHears, Zenon
  <2> QED BY <1>1, <2>3 DEF GrantInv
<1>3. lane' = [l \in Lanes |-> lane'[l]]
  BY <1>1, Zenon DEF Grant!Observers
<1>4. flight'.by = "none"
  BY <1>1 DEF Grant!NoFlight
<1> QED BY <1>1, <1>2, <1>3, <1>4, LoopsMove

\* A watch-ensure that failed lets the loops that waited go on.
LEMMA EnsureFailsOK ==
  ASSUME GrantInv, Grant!EnsureFails PROVE GrantInv'
<1>1. /\ lane' = [l \in Lanes |-> [lane[l] EXCEPT !.pc = IF @ = "renew" THEN "backoff" ELSE @]]
      /\ flight' = Grant!NoFlight /\ slot' = slot
  BY DEF Grant!EnsureFails
<1>2. ASSUME NEW l \in Lanes PROVE Heard(lane'[l]) /\ (l \in slot' => lane'[l].pc = "poll")
  <2> DEFINE r == lane[l]
             t == lane'[l]
             at == IF r.pc = "renew" THEN "backoff" ELSE r.pc
  <2>1. t = [r EXCEPT !.pc = at] /\ Heard(r)
    BY <1>1 DEF GrantInv
  <2> HIDE DEF r, t
  <2>2. t = WakeLoop(at, r.renewable, r.stale, r.old)
    BY <2>1 DEF Heard, LoopFields, WakeLoop
  <2>3. LoopFields(t) /\ t.pc = at /\ t.stale = r.stale /\ t.old = r.old
    BY <2>2, WakeLoopIs
  <2>4. Heard(t) /\ (r.pc = "poll" => t.pc = "poll")
    BY <2>1, <2>3 DEF Heard
  <2> QED BY <1>1, <2>4 DEF GrantInv, r, t
<1>3. lane' = [l \in Lanes |-> lane'[l]]
  BY <1>1
<1>4. flight'.by = "none"
  BY <1>1 DEF Grant!NoFlight
<1> QED BY <1>1, <1>2, <1>3, <1>4, LoopsMove

\* The end of a poll keeps the invariant.
LEMMA PollEndsOK ==
  ASSUME GrantInv, NEW at, NEW again, Grant!PollEnds(at, again) PROVE GrantInv'
<1>1. /\ lane' = [l \in Lanes |-> IF l \in slot THEN [lane[l] EXCEPT !.pc = at, !.renewable = again] ELSE lane[l]]
      /\ slot' = {} /\ flight' = flight
  BY DEF Grant!PollEnds
<1>2. ASSUME NEW l \in Lanes PROVE Heard(lane'[l])
  <2> DEFINE r == lane[l]
             t == lane'[l]
             a == [r EXCEPT !.pc = at]
  <2>1. CASE l \in slot
    <3>1. t = [a EXCEPT !.renewable = again] /\ Heard(r) /\ r.pc = "poll"
      BY <1>1, <2>1 DEF GrantInv
    <3> HIDE DEF r, t
    <3>2. a = WakeLoop(at, r.renewable, r.stale, r.old)
      BY <3>1 DEF Heard, LoopFields, WakeLoop
    <3> HIDE DEF a
    <3>3. t = WakeLoop(at, again, r.stale, r.old)
      BY <3>1, <3>2 DEF WakeLoop
    <3>4. LoopFields(t) /\ t.pc = at /\ t.stale = r.stale /\ t.old = r.old
      BY <3>3, WakeLoopIs
    <3>5. Heard(t)
      BY <3>1, <3>4 DEF Heard
    <3> QED BY <3>5 DEF t
  <2>2. CASE l \notin slot
    <3>1. lane'[l] = lane[l]
      BY <1>1, <2>2
    <3> QED BY <3>1 DEF GrantInv
  <2> QED BY <2>1, <2>2
<1>3. lane' = [l \in Lanes |-> lane'[l]]
  BY <1>1
<1>4. flight'.by = "rejection" => ~flight'.old
  BY <1>1 DEF GrantInv
<1> QED BY <1>1, <1>2, <1>3, <1>4, LoopsMove

\* A poll that is sent, or joined, keeps the invariant.
LEMMA PollOK ==
  ASSUME GrantInv, NEW l \in Lanes, Grant!Poll(l) PROVE GrantInv'
<1>0. flight' = flight /\ Heard(lane[l]) /\ lane[l].pc \in {"start", "wait"}
  BY DEF Grant!Poll, GrantInv
<1>1. flight'.by = "rejection" => ~flight'.old
  BY <1>0 DEF GrantInv
<1>2. CASE slot' = slot \cup {l} /\ lane' = [lane EXCEPT ![l].pc = "poll", ![l].old = FALSE]
  <2> DEFINE r == lane[l]
  <2>1. PICK no : no = FALSE
    OBVIOUS
  <2> DEFINE a == [r EXCEPT !.pc = "poll"]
             t == [a EXCEPT !.old = no]
  <2>2. lane' = [lane EXCEPT ![l] = t]
    <3>1. lane' = [[lane EXCEPT ![l].pc = "poll"] EXCEPT ![l].old = no]
      BY <1>2, <2>1, Zenon
    <3>2. [lane EXCEPT ![l].pc = "poll"] = [lane EXCEPT ![l] = a] /\ lane = [k \in Lanes |-> lane[k]]
      BY DEF GrantInv
    <3> HIDE DEF a
    <3> QED BY <3>1, <3>2
  <2> HIDE DEF r
  <2>3. a = WakeLoop("poll", r.renewable, r.stale, r.old)
    BY <1>0 DEF Heard, LoopFields, WakeLoop, r
  <2> HIDE DEF a
  <2>4. t = WakeLoop("poll", r.renewable, r.stale, no)
    BY <2>3 DEF WakeLoop
  <2> HIDE DEF t
  <2>5. LoopFields(t) /\ t.pc = "poll" /\ t.old = no
    BY <2>4, WakeLoopIs
  <2>6. Heard(t)
    BY <2>1, <2>5, Zenon DEF Heard
  <2> QED BY <1>1, <1>2, <2>2, <2>5, <2>6, LoopMoves
<1>3. CASE Grant!Goes(l, "wait") /\ slot' = slot
  <2>1. l \notin slot'
    BY <1>0, <1>3 DEF GrantInv
  <2> QED BY <1>1, <1>3, <2>1, LoopGoesOn
<1> QED BY <1>2, <1>3 DEF Grant!Poll

\* A loop that starts over, whatever it observes.
LEMMA StartsOver ==
  ASSUME GrantInv, NEW l \in Lanes, lane[l].pc # "poll", NEW at, at \notin {"poll", "failed"}, NEW stale,
         lane' = [lane EXCEPT ![l].pc = at, ![l].stale = stale], UNCHANGED <<slot, flight>>
  PROVE  GrantInv'
<1> DEFINE r == lane[l]
           a == [r EXCEPT !.pc = at]
           t == [a EXCEPT !.stale = stale]
<1>0. Heard(r) /\ lane = [k \in Lanes |-> lane[k]]
  BY DEF GrantInv
<1>1. lane' = [lane EXCEPT ![l] = t]
  <2>2. [lane EXCEPT ![l].pc = at] = [lane EXCEPT ![l] = a]
    BY <1>0
  <2>1. lane' = [[lane EXCEPT ![l].pc = at] EXCEPT ![l].stale = stale]
    BY Zenon
  <2> HIDE DEF a
  <2> QED BY <1>0, <2>1, <2>2
<1> HIDE DEF r
<1>2. a = WakeLoop(at, r.renewable, r.stale, r.old)
  BY <1>0 DEF Heard, LoopFields, WakeLoop
<1> HIDE DEF a
<1>3. t = WakeLoop(at, r.renewable, stale, r.old)
  BY <1>2 DEF WakeLoop
<1> HIDE DEF t
<1>4. LoopFields(t) /\ t.pc = at
  BY <1>3, WakeLoopIs
<1>5. Heard(t)
  BY <1>4 DEF Heard
<1>6. l \notin slot' /\ slot' \subseteq slot \cup {l} /\ (flight'.by = "rejection" => ~flight'.old)
  BY DEF GrantInv
<1> QED BY <1>1, <1>5, <1>6, LoopMoves

\* The watch-ensure ahead of the first start keeps the invariant.
LEMMA InitialEnsureOK ==
  ASSUME GrantInv, NEW l \in Lanes, Grant!InitialEnsure(l) PROVE GrantInv'
<1>0. lane[l].pc = "ensure" /\ UNCHANGED <<slot, flight>> /\ l \notin slot
  BY DEF Grant!InitialEnsure, GrantInv
<1>1. CASE lane' = [lane EXCEPT ![l].pc = "start", ![l].stale = FALSE]
  <2>1. PICK no : no = FALSE
    OBVIOUS
  <2>2. lane' = [lane EXCEPT ![l].pc = "start", ![l].stale = no]
    BY <1>1, <2>1, Zenon
  <2> QED BY <1>0, <2>2, StartsOver
<1>2. CASE Grant!Goes(l, "ensureFailed")
  <2>1. flight'.by = "rejection" => ~flight'.old
    BY <1>0 DEF GrantInv
  <2> QED BY <1>0, <1>2, <2>1, LoopGoesOn
<1> QED BY <1>1, <1>2 DEF Grant!InitialEnsure, Grant!Goes

\* A loop that starts over keeps the invariant.
LEMMA BackoffOK ==
  ASSUME GrantInv, NEW l \in Lanes, Grant!Backoff(l) PROVE GrantInv'
<1> DEFINE at == IF lane[l].pc = "ensureFailed" THEN "ensure" ELSE "start"
<1>0. lane[l].pc \in {"backoff", "ensureFailed"} /\ UNCHANGED <<slot, flight>>
  BY DEF Grant!Backoff
<1>1. PICK no : no = FALSE
  OBVIOUS
<1>2. lane' = [lane EXCEPT ![l].pc = at, ![l].stale = no]
  <2>1. lane' = [lane EXCEPT ![l].pc = IF @ = "ensureFailed" THEN "ensure" ELSE "start", ![l].stale = no]
    BY <1>1, Zenon DEF Grant!Backoff, Grant!Observe
  <2> QED BY <2>1
<1>3. at \notin {"poll", "failed"} /\ lane[l].pc # "poll"
  BY <1>0
<1> HIDE DEF at
<1> QED BY <1>0, <1>2, <1>3, StartsOver

\* A loop that parks or stops keeps the invariant.
LEMMA LeavesOK ==
  ASSUME GrantInv, NEW l \in Lanes, Grant!Parks(l) \/ Grant!Stops(l) PROVE GrantInv'
<1>0. flight'.by = "rejection" => ~flight'.old
  BY DEF Grant!Parks, Grant!Stops, GrantInv
<1>1. CASE Grant!Parks(l)
  <2>1. Grant!Goes(l, "parked") /\ slot' = slot /\ l \notin slot
    BY <1>1 DEF Grant!Parks, GrantInv
  <2> QED BY <1>0, <2>1, LoopGoesOn
<1>2. CASE Grant!Stops(l)
  <2>1. Grant!Goes(l, "done") /\ slot' = slot \ {l}
    BY <1>2 DEF Grant!Stops
  <2> QED BY <1>0, <2>1, LoopGoesOn
<1> QED BY <1>1, <1>2

\* The loops, while another part moves.
LEMMA GrantRests == GrantInv /\ UNCHANGED <<lane, slot, flight>> => GrantInv'
  BY DEF GrantInv

\* Every step of the loops and of the registry keeps the invariant.
LEMMA GrantStep == GrantInv /\ Grant!GrantNext => GrantInv'
<1> SUFFICES ASSUME GrantInv, Grant!GrantNext PROVE GrantInv'
  OBVIOUS
<1>1. ASSUME NEW l \in Lanes, Grant!LaneStep(l) \/ Grant!Parks(l) PROVE GrantInv'
  BY <1>1, PollOK, RenewOK, InitialEnsureOK, BackoffOK, LeavesOK DEF Grant!LaneStep
<1>2. CASE Grant!EnsureEnds \/ Grant!EnsureReuses \/ Grant!EnsureFails
  BY <1>2, EnsureOK, EnsureFailsOK
<1>3. CASE Grant!TimerIsDue \/ Grant!Abort \/ Grant!GrantDies
  BY <1>3, GrantRests DEF Grant!TimerIsDue, Grant!Abort, Grant!GrantDies
<1>4. CASE Grant!RunProactive
  <2>1. /\ flight' = IF flight # Grant!NoFlight THEN flight ELSE [by |-> "proactive", old |-> FALSE]
        /\ UNCHANGED <<lane, slot>>
    BY <1>4 DEF Grant!RunProactive
  <2>2. flight'.by = "rejection" => ~flight'.old
    BY <2>1 DEF GrantInv
  <2> QED BY <2>1, <2>2 DEF GrantInv
<1>5. CASE Grant!PollAnswered \/ Grant!PollRejected \/ Grant!PollFails
  BY <1>5, PollEndsOK DEF Grant!PollAnswered, Grant!PollRejected, Grant!PollFails
<1> QED BY <1>1, <1>2, <1>3, <1>4, <1>5 DEF Grant!GrantNext

\* The invariant of the loops holds at the start.
LEMMA GrantInitially == Grant!GrantInit => GrantInv
<1> SUFFICES ASSUME Grant!GrantInit PROVE GrantInv
  OBVIOUS
<1>1. PICK no : no = FALSE
  OBVIOUS
<1>2. lane = [l \in Lanes |-> WakeLoop(IF l = First THEN "ensure" ELSE "start", no, no, no)]
  BY <1>1, Zenon DEF Grant!GrantInit, WakeLoop
<1>3. ASSUME NEW l \in Lanes PROVE Heard(lane[l])
  <2> DEFINE at == IF l = First THEN "ensure" ELSE "start"
  <2>1. lane[l] = WakeLoop(at, no, no, no)
    BY <1>2
  <2>2. LoopFields(lane[l]) /\ lane[l].pc = at
    BY <2>1, WakeLoopIs
  <2> QED BY <2>2 DEF Heard
<1>4. lane = [l \in Lanes |-> lane[l]]
  BY <1>2
<1>5. slot = {} /\ flight.by = "none"
  BY DEF Grant!GrantInit, Grant!NoFlight
<1> QED BY <1>3, <1>4, <1>5 DEF GrantInv

-----------------------------------------------------------------------------
\* The engine manager, from its parts.
Manager(state, attempt, child, killing) ==
  [state |-> state, attempt |-> attempt, child |-> child, killing |-> killing]

ManagerFields(m) == m = Manager(m.state, m.attempt, m.child, m.killing)

\* While it stops a process the manager holds no other, and afterwards it has
\* forgotten it.
ManagerOK(m) ==
  /\ ManagerFields(m)
  /\ m.state = "stopping" => m.attempt = Peer!None /\ m.child = Peer!None
  /\ m.state # "stopping" => m.killing = Peer!None

\* The start that boots a process is the manager's own, and while one is under
\* way the manager says so.
AttemptsOK(m, T) ==
  /\ T = [n \in Attempts |-> T[n]]
  /\ \A n \in Attempts : T[n] = "boot" => m.attempt = n
  /\ \A n \in Attempts : m.attempt = n /\ T[n] \in {"probe", "boot"} => m.state = "starting"

EnginesOK(m, E) ==
  /\ E \subseteq Attempts /\ \A n, k \in E : n = k
  /\ \A n \in E : n \in {m.child, m.killing}

\* After close() has stopped the engine no start is under way.
ClosedOK(m) ==
  m.attempt = Peer!None /\ m.child = Peer!None /\ m.state \in {"stopped", "stopping"}

PeerInv ==
  /\ ManagerOK(mgr) /\ AttemptsOK(mgr, tries) /\ EnginesOK(mgr, engines)
  /\ closer \in {"ending", "done"} => ClosedOK(mgr)
  /\ closer = "done" => mgr.state # "stopping"

\* The manager gives back the parts it was made of.
LEMMA ManagerIs ==
  ASSUME NEW state, NEW attempt, NEW child, NEW killing
  PROVE  LET m == Manager(state, attempt, child, killing)
         IN  ManagerFields(m) /\ m.state = state /\ m.attempt = attempt /\ m.child = child /\ m.killing = killing
  BY DEF Manager, ManagerFields

\* An attempt is never the absent one.
LEMMA NoneIsNoAttempt == Peer!None \notin Attempts
  BY PeerConstants DEF Peer!AttemptsAssumption

\* What the lane does beside the manager.
LEMMA LaneRests ==
  ASSUME PeerInv, UNCHANGED <<mgr, tries, engines>>, closer' = closer \/ closer' \notin {"ending", "done"}
  PROVE  PeerInv'
  BY DEF PeerInv

\* stop(): the child is let go, and no start stays current.
LEMMA StopsOK ==
  ASSUME ManagerOK(mgr), AttemptsOK(mgr, tries), EnginesOK(mgr, engines), NEW ts, Peer!StopsEngine(ts),
         ts = [n \in Attempts |-> ts[n]], \A n \in Attempts : ts[n] \in {"probe", "boot"} => ts[n] = tries[n],
         engines' = engines
  PROVE  ManagerOK(mgr') /\ AttemptsOK(mgr', tries') /\ EnginesOK(mgr', engines') /\ ClosedOK(mgr')
<1> USE NoneIsNoAttempt
<1>1. CASE mgr.state = "stopping"
  <2>1. mgr' = mgr /\ tries' = ts
    BY <1>1 DEF Peer!StopsEngine
  <2> QED BY <1>1, <2>1 DEF ManagerOK, AttemptsOK, EnginesOK, ClosedOK
<1>2. CASE mgr.state # "stopping"
  <2>1. /\ tries' = [n \in Attempts |-> IF Peer!Cancelled[n] # tries[n] THEN Peer!Cancelled[n] ELSE ts[n]]
        /\ mgr' = IF mgr.state \in {"stopped", "exited"} /\ mgr.child = Peer!None
                  THEN [mgr EXCEPT !.state = "stopped", !.attempt = Peer!None]
                  ELSE [state |-> "stopping", attempt |-> Peer!None, child |-> Peer!None, killing |-> mgr.child]
    BY <1>2 DEF Peer!StopsEngine
  <2>2. /\ ManagerFields(mgr') /\ mgr'.attempt = Peer!None /\ mgr'.child = Peer!None
        /\ \/ mgr'.state = "stopped" /\ mgr'.killing = Peer!None /\ mgr.child = Peer!None
           \/ mgr'.state = "stopping" /\ mgr'.killing = mgr.child
    <3>1. CASE mgr.state \in {"stopped", "exited"} /\ mgr.child = Peer!None
      <4>1. mgr' = [mgr EXCEPT !.state = "stopped", !.attempt = Peer!None]
        BY <2>1, <3>1
      <4>2. mgr' = Manager("stopped", Peer!None, mgr.child, mgr.killing)
        BY <4>1 DEF ManagerOK, ManagerFields, Manager
      <4> QED BY <1>2, <3>1, <4>2, ManagerIs DEF ManagerOK
    <3>2. CASE ~(mgr.state \in {"stopped", "exited"} /\ mgr.child = Peer!None)
      <4>1. mgr' = Manager("stopping", Peer!None, Peer!None, mgr.child)
        BY <2>1, <3>2 DEF Manager
      <4> QED BY <4>1, ManagerIs
    <3> QED BY <3>1, <3>2
  <2>3. ManagerOK(mgr') /\ ClosedOK(mgr')
    BY <2>2 DEF ManagerOK, ClosedOK
  <2>4. EnginesOK(mgr', engines')
    BY <1>2, <2>2 DEF EnginesOK, ManagerOK
  <2>5. ASSUME NEW n \in Attempts, tries'[n] = "boot" PROVE FALSE
    <3>1. CASE Peer!Cancelled[n] # tries[n]
      BY <2>1, <2>5, <3>1 DEF Peer!Cancelled
    <3>2. CASE Peer!Cancelled[n] = tries[n]
      <4>1. tries[n] = "boot"
        BY <2>1, <2>5, <3>2
      <4>2. mgr.attempt = n
        BY <4>1 DEF AttemptsOK
      <4> QED BY <3>2, <4>1, <4>2 DEF Peer!Cancelled
    <3> QED BY <3>1, <3>2
  <2>6. AttemptsOK(mgr', tries')
    BY <2>1, <2>2, <2>5 DEF AttemptsOK
  <2> QED BY <2>3, <2>4, <2>6
<1> QED BY <1>1, <1>2

\* An attempt that is over makes room for another.
LEMMA FreedIs ==
  ASSUME AttemptsOK(mgr, tries), NEW x
  PROVE  LET ts == [tries EXCEPT ![x] = "none"]
         IN  ts = [n \in Attempts |-> ts[n]] /\ \A n \in Attempts : ts[n] \in {"probe", "boot"} => ts[n] = tries[n]
  BY DEF AttemptsOK

\* A stop, of the whole manager.
LEMMA StopKeeps ==
  ASSUME PeerInv, NEW ts, Peer!StopsEngine(ts),
         ts = [n \in Attempts |-> ts[n]], \A n \in Attempts : ts[n] \in {"probe", "boot"} => ts[n] = tries[n],
         engines' = engines, closer' = closer \/ closer' = "ending", closer' # "done"
  PROVE  PeerInv'
  BY StopsOK DEF PeerInv

\* A start keeps the invariant: no other attempt boots a process.
LEMMA StartOK ==
  ASSUME PeerInv, NEW n \in Attempts, Peer!EngineStart(n), UNCHANGED <<engines, closer>>, closer = "none"
  PROVE  PeerInv'
<1>1. /\ mgr' = [mgr EXCEPT !.state = "starting", !.attempt = n] /\ tries' = [tries EXCEPT ![n] = "probe"]
      /\ mgr.state # "stopping" /\ ~Peer!Joins
  BY DEF Peer!EngineStart
<1>2. mgr' = Manager("starting", n, mgr.child, mgr.killing)
  BY <1>1 DEF PeerInv, ManagerOK, ManagerFields, Manager
<1>3. ManagerFields(mgr') /\ mgr'.state = "starting" /\ mgr'.attempt = n /\ mgr'.child = mgr.child /\ mgr'.killing = mgr.killing
  BY <1>2, ManagerIs
<1>4. \A k \in Attempts : tries[k] # "boot"
  <2> SUFFICES ASSUME NEW k \in Attempts, tries[k] = "boot" PROVE FALSE
    OBVIOUS
  <2>1. mgr.attempt = k /\ mgr.state = "starting"
    BY DEF PeerInv, AttemptsOK
  <2> QED BY <1>1, <2>1, NoneIsNoAttempt DEF Peer!Joins
<1>5. ManagerOK(mgr')
  BY <1>1, <1>3 DEF PeerInv, ManagerOK
<1>6. AttemptsOK(mgr', tries')
  BY <1>1, <1>3, <1>4 DEF PeerInv, AttemptsOK
<1>7. EnginesOK(mgr', engines')
  BY <1>3 DEF PeerInv, EnginesOK
<1> QED BY <1>5, <1>6, <1>7 DEF PeerInv

\* A probe keeps the invariant: a process is spawned by the current attempt
\* only, and only where none is alive.
LEMMA ProbeOK ==
  ASSUME PeerInv, NEW n \in Attempts, Peer!Probe(n) PROVE PeerInv'
<1>0. tries[n] = "probe" /\ closer' = closer /\ tries = [k \in Attempts |-> tries[k]]
  BY DEF Peer!Probe, PeerInv, AttemptsOK
<1>1. CASE tries' = [tries EXCEPT ![n] = "failed"] /\ UNCHANGED <<mgr, engines>>
  <2>1. AttemptsOK(mgr', tries')
    BY <1>0, <1>1 DEF PeerInv, AttemptsOK
  <2> QED BY <1>0, <1>1, <2>1 DEF PeerInv
<1>2. CASE /\ engines = {} /\ Peer!Current(n) /\ engines' = engines \cup {n} /\ mgr' = [mgr EXCEPT !.child = n]
           /\ tries' = [tries EXCEPT ![n] = "boot"]
  <2>1. mgr.attempt = n /\ mgr.state = "starting"
    BY <1>0, <1>2 DEF Peer!Current, PeerInv, AttemptsOK
  <2>2. mgr' = Manager(mgr.state, mgr.attempt, n, mgr.killing)
    BY <1>2 DEF PeerInv, ManagerOK, ManagerFields, Manager
  <2>3. ManagerFields(mgr') /\ mgr'.state = mgr.state /\ mgr'.attempt = n /\ mgr'.child = n /\ mgr'.killing = mgr.killing
    BY <2>1, <2>2, ManagerIs
  <2>4. ManagerOK(mgr')
    BY <2>1, <2>3 DEF PeerInv, ManagerOK
  <2>5. AttemptsOK(mgr', tries')
    BY <1>0, <1>2, <2>1, <2>3 DEF PeerInv, AttemptsOK
  <2>6. EnginesOK(mgr', engines')
    BY <1>2, <2>3 DEF EnginesOK
  <2>7. closer \notin {"ending", "done"}
    BY <2>1, NoneIsNoAttempt DEF PeerInv, ClosedOK
  <2> QED BY <1>0, <2>4, <2>5, <2>6, <2>7 DEF PeerInv
<1> QED BY <1>1, <1>2 DEF Peer!Probe

\* A start that succeeds keeps the invariant.
LEMMA ReadyOK ==
  ASSUME PeerInv, NEW n \in Attempts, Peer!BecomesReady(n) PROVE PeerInv'
<1>0. /\ tries[n] = "boot" /\ mgr' = [mgr EXCEPT !.state = "ready"] /\ tries' = [tries EXCEPT ![n] = "ready"]
      /\ UNCHANGED <<engines, closer>>
  BY DEF Peer!BecomesReady
<1>1. mgr.attempt = n /\ mgr.state = "starting"
  BY <1>0 DEF PeerInv, AttemptsOK
<1>2. mgr' = Manager("ready", mgr.attempt, mgr.child, mgr.killing)
  BY <1>0 DEF PeerInv, ManagerOK, ManagerFields, Manager
<1>3. ManagerFields(mgr') /\ mgr'.state = "ready" /\ mgr'.attempt = n /\ mgr'.child = mgr.child /\ mgr'.killing = mgr.killing
  BY <1>1, <1>2, ManagerIs
<1>4. ManagerOK(mgr')
  BY <1>1, <1>3 DEF PeerInv, ManagerOK
<1>5. AttemptsOK(mgr', tries')
  BY <1>0, <1>1, <1>3 DEF PeerInv, AttemptsOK
<1>6. EnginesOK(mgr', engines')
  BY <1>0, <1>3 DEF PeerInv, EnginesOK
<1>7. closer \notin {"ending", "done"}
  BY <1>1, NoneIsNoAttempt DEF PeerInv, ClosedOK
<1> QED BY <1>0, <1>4, <1>5, <1>6, <1>7 DEF PeerInv

\* A start that times out keeps the invariant.
LEMMA TimesOutOK ==
  ASSUME PeerInv, NEW n \in Attempts, Peer!TimesOut(n) PROVE PeerInv'
<1>1. tries' = [tries EXCEPT ![n] = "failed"] /\ UNCHANGED <<mgr, engines, closer>>
  BY DEF Peer!TimesOut
<1>2. AttemptsOK(mgr', tries')
  BY <1>1 DEF PeerInv, AttemptsOK
<1> QED BY <1>1, <1>2 DEF PeerInv

\* The exit of an engine keeps the invariant.
LEMMA ExitsOK ==
  ASSUME PeerInv, NEW n \in Attempts, Peer!Exits(n) PROVE PeerInv'
<1>0. engines' = engines \ {n} /\ closer' = closer
  BY DEF Peer!Exits
<1>1. CASE UNCHANGED <<mgr, tries>>
  BY <1>0, <1>1 DEF PeerInv, EnginesOK
<1>2. CASE mgr.state = "ready" /\ mgr' = [mgr EXCEPT !.state = "exited"] /\ tries' = tries
  <2>1. mgr' = Manager("exited", mgr.attempt, mgr.child, mgr.killing)
    BY <1>2 DEF PeerInv, ManagerOK, ManagerFields, Manager
  <2>2. ManagerFields(mgr') /\ mgr'.state = "exited" /\ mgr'.attempt = mgr.attempt /\ mgr'.child = mgr.child /\ mgr'.killing = mgr.killing
    BY <2>1, ManagerIs
  <2>3. ManagerOK(mgr')
    BY <1>2, <2>2 DEF PeerInv, ManagerOK
  <2>4. AttemptsOK(mgr', tries')
    BY <1>2, <2>2 DEF PeerInv, AttemptsOK
  <2>5. EnginesOK(mgr', engines')
    BY <1>0, <2>2 DEF PeerInv, EnginesOK
  <2>6. ~ClosedOK(mgr)
    BY <1>2 DEF ClosedOK
  <2> QED BY <1>0, <2>2, <2>3, <2>4, <2>5, <2>6 DEF PeerInv
<1>3. CASE tries' = [tries EXCEPT ![n] = IF @ = "boot" THEN "failed" ELSE @] /\ mgr' = mgr
  <2>1. AttemptsOK(mgr', tries')
    BY <1>3 DEF PeerInv, AttemptsOK
  <2>2. EnginesOK(mgr', engines')
    BY <1>0, <1>3 DEF PeerInv, EnginesOK
  <2> QED BY <1>0, <1>3, <2>1, <2>2 DEF PeerInv
<1> QED BY <1>1, <1>2, <1>3 DEF Peer!Exits

\* The end of a stop keeps the invariant.
LEMMA StoppedEngineOK ==
  ASSUME PeerInv, Peer!EngineStopped PROVE PeerInv'
<1>0. /\ mgr.state = "stopping" /\ mgr' = [mgr EXCEPT !.state = "stopped", !.killing = Peer!None]
      /\ engines' = engines \ {mgr.killing} /\ UNCHANGED <<tries, closer>>
  BY DEF Peer!EngineStopped
<1>1. mgr' = Manager("stopped", mgr.attempt, mgr.child, Peer!None)
  BY <1>0 DEF PeerInv, ManagerOK, ManagerFields, Manager
<1>2. ManagerFields(mgr') /\ mgr'.state = "stopped" /\ mgr'.attempt = mgr.attempt /\ mgr'.child = mgr.child /\ mgr'.killing = Peer!None
  BY <1>1, ManagerIs
<1>3. mgr.attempt = Peer!None /\ mgr.child = Peer!None
  BY <1>0 DEF PeerInv, ManagerOK
<1>4. ManagerOK(mgr')
  BY <1>2 DEF ManagerOK
<1>5. AttemptsOK(mgr', tries')
  BY <1>0, <1>2, <1>3, NoneIsNoAttempt DEF PeerInv, AttemptsOK
<1>6. EnginesOK(mgr', engines')
  BY <1>0, <1>2 DEF PeerInv, EnginesOK
<1>7. ClosedOK(mgr')
  BY <1>2, <1>3 DEF ClosedOK
<1> QED BY <1>0, <1>2, <1>4, <1>5, <1>6, <1>7 DEF PeerInv

\* An attempt that is over keeps the invariant.
LEMMA FreedOK ==
  ASSUME PeerInv, NEW x, tries' = [tries EXCEPT ![x] = "none"], UNCHANGED <<mgr, engines, closer>>
  PROVE  PeerInv'
<1>1. AttemptsOK(mgr', tries')
  BY DEF PeerInv, AttemptsOK
<1> QED BY <1>1 DEF PeerInv

\* A stop while close() is at work keeps what close() relies on.
LEMMA StopAnyTime ==
  ASSUME PeerInv, NEW ts, Peer!StopsEngine(ts), closer' = closer, engines' = engines,
         ts = [n \in Attempts |-> ts[n]], \A n \in Attempts : ts[n] \in {"probe", "boot"} => ts[n] = tries[n]
  PROVE  PeerInv'
<1>1. ManagerOK(mgr') /\ AttemptsOK(mgr', tries') /\ EnginesOK(mgr', engines') /\ ClosedOK(mgr')
  BY StopsOK DEF PeerInv
<1>2. closer = "done" => mgr'.state # "stopping"
  <2> SUFFICES ASSUME closer = "done" PROVE mgr'.state # "stopping"
    OBVIOUS
  <2>1. mgr.state = "stopped" /\ mgr.child = Peer!None /\ ManagerFields(mgr)
    BY DEF PeerInv, ClosedOK, ManagerOK
  <2>2. mgr' = [mgr EXCEPT !.state = "stopped", !.attempt = Peer!None]
    BY <2>1 DEF Peer!StopsEngine
  <2>3. mgr' = Manager("stopped", Peer!None, mgr.child, mgr.killing)
    BY <2>1, <2>2 DEF ManagerFields, Manager
  <2> QED BY <2>3, ManagerIs
<1> QED BY <1>1, <1>2 DEF PeerInv

\* The clean-up of a failed attempt keeps the invariant.
LEMMA CleansUpOK ==
  ASSUME PeerInv, NEW n \in Attempts, Peer!CleansUp(n) PROVE PeerInv'
<1>1. UNCHANGED <<engines, closer>> /\ AttemptsOK(mgr, tries)
  BY DEF Peer!CleansUp, PeerInv
<1>2. CASE Peer!StopsEngine([tries EXCEPT ![n] = "none"])
  BY <1>1, <1>2, FreedIs, StopAnyTime
<1>3. CASE tries' = [tries EXCEPT ![n] = "none"] /\ UNCHANGED mgr
  BY <1>1, <1>3, FreedOK
<1> QED BY <1>2, <1>3 DEF Peer!CleansUp

\* The watch loop that starts the engine keeps the invariant.
LEMMA WatchEnsureOK ==
  ASSUME PeerInv, Peer!WatchEnsure PROVE PeerInv'
<1>1. UNCHANGED <<engines, closer>>
  BY DEF Peer!WatchEnsure
<1>2. CASE UNCHANGED <<mgr, tries>>
  BY <1>1, <1>2, LaneRests
<1>3. CASE ~Peer!Closed /\ \E n \in Attempts : Peer!EngineStart(n)
  BY <1>1, <1>3, StartOK DEF Peer!Closed
<1> QED BY <1>2, <1>3 DEF Peer!WatchEnsure

\* The watch loop that learns how its attempt ended keeps the invariant.
LEMMA WatchEngineOK ==
  ASSUME PeerInv, Peer!WatchEngine PROVE PeerInv'
<1> DEFINE ts == [tries EXCEPT ![watch.attempt] = "none"]
<1>1. UNCHANGED <<engines, closer>> /\ AttemptsOK(mgr, tries)
  BY DEF Peer!WatchEngine, PeerInv
<1>2. CASE Peer!StopsEngine(ts)
  <2>1. ts = [n \in Attempts |-> ts[n]] /\ \A n \in Attempts : ts[n] \in {"probe", "boot"} => ts[n] = tries[n]
    BY <1>1, FreedIs
  <2> HIDE DEF ts
  <2> QED BY <1>1, <1>2, <2>1, StopAnyTime
<1>3. CASE tries' = ts /\ UNCHANGED mgr
  BY <1>1, <1>3, FreedOK
<1> QED BY <1>2, <1>3 DEF Peer!WatchEngine

\* A stop that finds its own attempts as they are.
LEMMA PlainStopOK ==
  ASSUME PeerInv, Peer!StopsEngine(tries), engines' = engines, closer' = closer \/ closer' = "ending"
  PROVE  PeerInv'
<1>1. tries = [n \in Attempts |-> tries[n]]
  BY DEF PeerInv, AttemptsOK
<1>2. CASE closer' = closer
  BY <1>1, <1>2, StopAnyTime
<1>3. CASE closer' = "ending"
  BY <1>1, <1>3, StopKeeps
<1> QED BY <1>2, <1>3

\* The end of close() keeps the invariant.
LEMMA CloseEndsOK ==
  ASSUME PeerInv, Peer!CloseEnds PROVE PeerInv'
  BY DEF PeerInv, Peer!CloseEnds

\* Every step of the lane, the manager and close() keeps the invariant.
LEMMA PeerStep == PeerInv /\ Peer!LaneNext => PeerInv'
<1> SUFFICES ASSUME PeerInv, Peer!LaneNext PROVE PeerInv'
  OBVIOUS
<1>1. CASE Peer!WatchEnsure \/ Peer!WatchEngine
  BY <1>1, WatchEnsureOK, WatchEngineOK
<1>2. CASE Peer!WatchServe \/ Peer!WatchServing \/ Peer!WatchUnengine \/ Peer!WatchBackoff
  BY <1>2, LaneRests DEF Peer!WatchServe, Peer!WatchServing, Peer!WatchUnengine, Peer!WatchBackoff
<1>3. CASE Peer!WatchUndrain
  BY <1>3, PlainStopOK DEF Peer!WatchUndrain
<1>4. CASE Peer!CloseBegins \/ Peer!CloseDrainStop \/ Peer!CloseDrain \/ Peer!CloseRunners
  BY <1>4, LaneRests DEF Peer!CloseBegins, Peer!CloseDrainStop, Peer!CloseDrain, Peer!CloseRunners
<1>5. CASE Peer!CloseEngine
  BY <1>5, PlainStopOK DEF Peer!CloseEngine
<1>6. CASE Peer!CloseEnds
  BY <1>6, CloseEndsOK
<1>7. CASE Peer!ManagerStep
  BY <1>7, StoppedEngineOK, ProbeOK, CleansUpOK DEF Peer!ManagerStep
<1>8. CASE Peer!DrainStep \/ Peer!DrainEnds \/ Peer!SendPeerMessage \/ Peer!CallEnds \/ Peer!Abort
  BY <1>8, LaneRests DEF Peer!DrainStep, Peer!DrainEnds, Peer!DrainStepEnds, Peer!RunnerEnds, Peer!DrainLoopEnds,
     Peer!DrainFrame, Peer!SendPeerMessage, Peer!CallEnds, Peer!Abort
<1>9. ASSUME NEW n \in Attempts, Peer!BecomesReady(n) \/ Peer!TimesOut(n) \/ Peer!Exits(n) PROVE PeerInv'
  BY <1>9, ReadyOK, TimesOutOK, ExitsOK
<1> QED BY <1>1, <1>2, <1>3, <1>4, <1>5, <1>6, <1>7, <1>8, <1>9 DEF Peer!LaneNext, Peer!WatchStep, Peer!CloseStep

\* The invariant of the lane holds at the start.
LEMMA PeerInitially == Peer!LaneInit => PeerInv
<1> SUFFICES ASSUME Peer!LaneInit PROVE PeerInv
  OBVIOUS
<1>1. mgr = Manager("stopped", Peer!None, Peer!None, Peer!None)
  BY DEF Peer!LaneInit, Manager
<1>2. ManagerFields(mgr) /\ mgr.state = "stopped" /\ mgr.killing = Peer!None
  BY <1>1, ManagerIs
<1>3. ManagerOK(mgr)
  BY <1>2 DEF ManagerOK
<1>4. tries = [n \in Attempts |-> "none"] /\ engines = {} /\ closer = "none"
  BY DEF Peer!LaneInit
<1>5. AttemptsOK(mgr, tries) /\ EnginesOK(mgr, engines)
  BY <1>4 DEF AttemptsOK, EnginesOK
<1> QED BY <1>3, <1>4, <1>5 DEF PeerInv

\* Under the invariant no engine has gone astray.
LEMMA PeerSafe == PeerInv => Peer!NoStrayEngine
<1> SUFFICES ASSUME PeerInv PROVE Peer!NoStrayEngine
  OBVIOUS
<1>1. Cardinality(engines) <= 1
  <2>1. CASE engines = {}
    BY <2>1, FS_EmptySet
  <2>2. CASE engines # {}
    <3>1. PICK n \in engines : TRUE
      BY <2>2
    <3>2. engines = {n}
      BY <3>1 DEF PeerInv, EnginesOK
    <3>3. Cardinality({n}) = 1
      BY FS_Singleton
    <3> QED BY <3>2, <3>3
  <2> QED BY <2>1, <2>2
<1>2. Peer!Cardinality(engines) = Cardinality(engines)
  BY Zenon DEF Peer!Cardinality, Cardinality
<1>3. closer = "done" => engines = {}
  BY NoneIsNoAttempt DEF PeerInv, EnginesOK, ClosedOK, ManagerOK
<1>4. \A n \in engines : n \in {mgr.child, mgr.killing}
  BY DEF PeerInv, EnginesOK
<1> QED BY <1>1, <1>2, <1>3, <1>4 DEF Peer!NoStrayEngine

-----------------------------------------------------------------------------
\* The lane, while another part moves.
LEMMA PeerRests == PeerInv /\ UNCHANGED peerVars => PeerInv'
  BY LaneRests DEF peerVars

\* However many wake loops of the client supervisor share a dead watch grant,
\* and however long each takes to stop, a renewal that a rejected poll asks for
\* is due: no renewal has ended since that loop began to poll.  And whatever
\* starts, stops, exits, timeouts and a close() of the peer lane overlap, there
\* is at most one engine process, it is the one the manager holds or stops, and
\* none is left once close() has returned.
THEOREM NothingIsStartedTwice == WatchSpec => []NothingTwice
<1> DEFINE Inv == GrantInv /\ PeerInv
<1>1. WatchInit => Inv
  BY GrantInitially, PeerInitially DEF WatchInit
<1>2. Inv /\ [WatchNext]_<<part, grantVars, peerVars, installVars, vars>> => Inv'
  BY GrantStep, PeerStep, GrantRests, PeerRests DEF WatchNext, grantVars
<1>3. Inv => NothingTwice
  BY PeerSafe DEF NothingTwice, GrantInv, Grant!RenewalsAreNeeded
<1> QED BY <1>1, <1>2, <1>3, PTL DEF WatchSpec
=============================================================================
