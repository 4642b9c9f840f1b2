-------------------------- MODULE SessionDirectory --------------------------
(***************************************************************************)
(* The directory of discovered chat sessions: recordDiscoveryEvent of      *)
(* local-messaging-journal.mjs.  Lifecycle hooks of the chats report       *)
(* start, activity and end events; hooks are separate processes, so events *)
(* arrive late, out of order and more than once.  A full directory gives   *)
(* up an ended session for a new one and keeps a tombstone of it.          *)
(*                                                                         *)
(* Timestamps of receipt are ages, saturating just above Retention.        *)
(***************************************************************************)
EXTENDS Integers, FiniteSets

CONSTANTS
  Sessions,   \* session addresses
  Events,     \* the events the hooks send: session, kind, time observed
  Capacity,   \* rows the directory holds (128)
  Retention   \* ticks after which a session is forgotten

\* What the constants are assumed to be.
ASSUME DirectoryAssumption ==
  /\ Capacity \in Nat \ {0}
  /\ Retention \in Nat
  /\ \A e \in Events : /\ e.of \in Sessions
                       /\ e.kind \in {"start", "activity", "end"}
                       /\ e.at \in Nat \ {0}

VARIABLES
  row,      \* local_discovered_sessions
  tomb,     \* local_discovery_ended
  known,    \* local_discovery_events: age of the recorded event, or -1
  lastEnd   \* history: time of the latest end accepted since last forgotten

vars == <<row, tomb, known, lastEnd>>

Old == Retention + 1
Entry(life, gen, at, age) == [life |-> life, gen |-> gen, at |-> at, age |-> age]
NoEntry == Entry("unlisted", 0, 0, 0)

\* The rows that survive the retention sweep at the start of the transaction.
Kept(entry) == IF entry.age > Retention THEN NoEntry ELSE entry
KeptRow == [s \in Sessions |-> Kept(row[s])]
KeptTomb == [s \in Sessions |-> Kept(tomb[s])]

\* What is remembered of a session: its row, else its tombstone.
Remembered(s) == IF KeptRow[s] # NoEntry THEN KeptRow[s] ELSE KeptTomb[s]

\* Mutant: an end outranks nothing but the events before it.
StaleByTime(e) ==
  LET old == Remembered(e.of) IN
    old # NoEntry /\ (e.at < old.at \/ (e.at = old.at /\ e.kind # "end"))

\* Mutant: a session whose row was evicted is not remembered.
StaleInRow(e) ==
  LET old == KeptRow[e.of] IN
    /\ old # NoEntry
    /\ \/ e.at < old.at
       \/ e.at = old.at /\ e.kind # "end"
       \/ old.life = "ended" /\ e.kind = "activity"

\* Late, tied and not an end, or activity of a session that has ended.
Stale(e) ==
  LET old == Remembered(e.of) IN
    /\ old # NoEntry
    /\ \/ e.at < old.at
       \/ e.at = old.at /\ e.kind # "end"
       \/ old.life = "ended" /\ e.kind = "activity"

Listed == {s \in Sessions : KeptRow[s] # NoEntry}
NeedsRoom(e) ==
  e.of \notin Listed /\ ~Stale(e) /\ Cardinality(Listed) >= Capacity

\* The ended sessions heard of least recently.
Victims ==
  LET ended == {s \in Listed : KeptRow[s].life = "ended"} IN
    {s \in ended : \A x \in ended : KeptRow[s].age >= KeptRow[x].age}

\* What gives way to e: nothing, or one ended session.  Without one the
\* event is refused (directory_full) and nothing is recorded.
MakesRoom(e) == IF NeedsRoom(e) THEN {{v} : v \in Victims} ELSE {{}}

\* A session that has ended starts again: a new run.
GenerationOf(e) ==
  LET old == Remembered(e.of) IN
    IF old = NoEntry THEN 1
    ELSE IF old.life = "ended" /\ e.kind = "start" THEN old.gen + 1
    ELSE old.gen

\* An end leaves a tombstone, any other event clears it.
TombstoneOf(e, new) == IF e.kind = "end" THEN new ELSE NoEntry

\* recordDiscoveryEvent for an event id that is not recorded; a recorded one
\* is answered from the table and changes nothing.
Record(e) ==
  /\ known[e] = -1
  /\ \E gone \in MakesRoom(e) :
       LET new == Entry(IF e.kind = "end" THEN "ended" ELSE "observed",
                        GenerationOf(e), e.at, 0)
       IN
       /\ row' = [s \in Sessions |->
                    IF s = e.of /\ ~Stale(e) THEN new
                    ELSE IF s \in gone THEN NoEntry
                    ELSE KeptRow[s]]
       /\ tomb' = [s \in Sessions |->
                     IF s = e.of /\ ~Stale(e) THEN TombstoneOf(e, new)
                     ELSE IF s \in gone THEN KeptRow[s]
                     ELSE KeptTomb[s]]
  /\ known' = [x \in Events |-> IF x = e THEN 0
                                ELSE IF known[x] > Retention THEN -1
                                ELSE known[x]]
  /\ lastEnd' = [s \in Sessions |->
                   LET before == IF Remembered(s) = NoEntry THEN 0 ELSE lastEnd[s]
                   IN  IF s = e.of /\ ~Stale(e) /\ e.kind = "end"
                       THEN e.at ELSE before]

Aged(entry) ==
  IF entry = NoEntry \/ entry.age = Old THEN entry
  ELSE Entry(entry.life, entry.gen, entry.at, entry.age + 1)

Tick ==
  /\ row' = [s \in Sessions |-> Aged(row[s])]
  /\ tomb' = [s \in Sessions |-> Aged(tomb[s])]
  /\ known' = [e \in Events |-> IF known[e] \in {-1, Old} THEN known[e]
                                ELSE known[e] + 1]
  /\ UNCHANGED lastEnd

Init ==
  /\ row = [s \in Sessions |-> NoEntry]
  /\ tomb = [s \in Sessions |-> NoEntry]
  /\ known = [e \in Events |-> -1]
  /\ lastEnd = [s \in Sessions |-> 0]

Next == (\E e \in Events : Record(e)) \/ Tick

Spec == Init /\ [][Next]_vars
-----------------------------------------------------------------------------
(* Properties.                                                             *)

Entries == {NoEntry} \cup
  [life : {"observed", "ended"}, gen : Nat \ {0}, at : Nat \ {0}, age : 0..Old]

\* Rows and tombstones are well formed, and the directory never outgrows its
\* capacity.
TypeOK ==
  /\ row \in [Sessions -> Entries]
  /\ tomb \in [Sessions -> Entries]
  /\ known \in [Events -> -1..Old]
  /\ lastEnd \in [Sessions -> Nat]
  /\ Cardinality({s \in Sessions : row[s] # NoEntry}) <= Capacity

\* A session shown as running was heard of after its latest accepted end: no
\* late, repeated or tied event revives a chat that is gone, even when its row
\* was evicted meanwhile; and the directory never outgrows its capacity.
EndOutranks ==
  /\ TypeOK
  /\ \A s \in Sessions : row[s].life = "observed" => row[s].at > lastEnd[s]

\* Each session goes through the lifecycle the rest of the system is fenced
\* by: its generation advances once per run, however its events are repeated,
\* delayed or reordered.
LifeOf(s) == row[s].life
GenOf(s) == IF row[s] # NoEntry THEN row[s].gen ELSE tomb[s].gen
FreshOf(s) == (IF row[s] # NoEntry THEN row[s].age ELSE tomb[s].age) <= Retention
Lifecycle(s) == INSTANCE SessionLifecycle
                  WITH life <- LifeOf(s), gen <- GenOf(s), fresh <- FreshOf(s)
EachRunHasItsGeneration ==
  /\ \A s \in Sessions : Lifecycle(s)!LifecycleInit
  /\ [][\A s \in Sessions :
         Lifecycle(s)!Move \/ UNCHANGED <<LifeOf(s), GenOf(s)>>]_vars
=============================================================================
