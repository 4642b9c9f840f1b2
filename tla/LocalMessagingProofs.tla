------------------------ MODULE LocalMessagingProofs ------------------------
(***************************************************************************)
(* LocalMessaging keeps its invariants and the promise of Exchange, for    *)
(* every set of messages, workers, chats and replies, every limit, and     *)
(* whether or not storage may fail.                                        *)
(*                                                                         *)
(* The invariant IInv relates what only the process knows (the queue, what *)
(* is in flight, what executes) to the rows on disk, and says which        *)
(* evidence a row in each phase carries: a message is lost or executed     *)
(* twice exactly when these drift apart across a timeout, a failed write,  *)
(* a stop or a restart.                                                    *)
(*                                                                         *)
(* The proof has two halves.  The first follows the process: types,        *)
(* admissions, executions and memory (Memory), action by action.  The      *)
(* second follows one request: whatever the step, its row and replies take *)
(* one of seven courses (Course), and everything said about replies, also  *)
(* the refinement of Exchange, is shown of the courses.                    *)
(***************************************************************************)
EXTENDS LocalMessaging, FiniteSetTheorems, TLAPS

-----------------------------------------------------------------------------
(* Rows.                                                                   *)

\* Assigning one column keeps a row a row.
LEMMA RowColumns ==
  ASSUME NEW row \in Row
  PROVE  /\ \A p \in Phases : [row EXCEPT !.phase = p] \in Row
         /\ \A a \in 0..Retention : [row EXCEPT !.age = a] \in Row
         /\ \A t \in Texts \cup {None} : [row EXCEPT !.late = t] \in Row
         /\ \A c \in Claim : [row EXCEPT !.claim = c] \in Row
         /\ \A l \in 0..Lease : [row EXCEPT !.lease = l] \in Row
<1> USE DEF Row
<1>1. \A p \in Phases : [row EXCEPT !.phase = p] \in Row
  OBVIOUS
<1>2. \A a \in 0..Retention : [row EXCEPT !.age = a] \in Row
  OBVIOUS
<1>3. \A t \in Texts \cup {None} : [row EXCEPT !.late = t] \in Row
  OBVIOUS
<1>4. \A c \in Claim : [row EXCEPT !.claim = c] \in Row
  OBVIOUS
<1>5. \A l \in 0..Lease : [row EXCEPT !.lease = l] \in Row
  OBVIOUS
<1> QED
  BY <1>1, <1>2, <1>3, <1>4, <1>5

\* A row that moves to another phase keeps its evidence and its claim.
LEMMA MovedRow ==
  ASSUME NEW row \in Row, NEW p \in Phases
  PROVE  /\ Moved(row, p) \in Row
         /\ Moved(row, p).phase = p /\ Moved(row, p).late = row.late
         /\ Moved(row, p).claim = row.claim /\ Moved(row, p).age = 0
<1> DEFINE placed == [row EXCEPT !.phase = p]
<1>1. placed \in Row /\ 0 \in 0..Retention
  BY RowColumns, BoundsAssumption
<1>2. Moved(row, p) = [placed EXCEPT !.age = 0]
  BY DEF Moved
<1>3. Moved(row, p) \in Row
  <2> HIDE DEF placed
  <2> QED
    BY <1>1, <1>2, RowColumns
<1> QED
  BY <1>3 DEF Moved, Row

\* A held row.
LEMMA HeldRow ==
  ASSUME NEW row \in Row
  PROVE  /\ Held(row) \in Row
         /\ Held(row).phase = "held" /\ Held(row).late = row.late
         /\ Held(row).claim = row.claim /\ Held(row).age = 0
BY MovedRow DEF Held, Phases

\* A row held with a late result.
LEMMA HeldWithRow ==
  ASSUME NEW row \in Row, NEW t \in Texts
  PROVE  /\ HeldWith(row, t) \in Row
         /\ HeldWith(row, t).phase = "held" /\ HeldWith(row, t).late = t
         /\ HeldWith(row, t).claim = row.claim /\ HeldWith(row, t).age = 0
<1> DEFINE held == Held(row)
<1>1. held \in Row /\ held.phase = "held" /\ held.claim = row.claim /\ held.age = 0
  BY HeldRow
<1>2. HeldWith(row, t) = [held EXCEPT !.late = t]
  BY DEF HeldWith
<1> HIDE DEF held
<1>3. HeldWith(row, t) \in Row
  BY <1>1, <1>2, RowColumns
<1> QED
  BY <1>1, <1>2, <1>3 DEF Row

\* A row the owner has closed.
LEMMA ClosedRow ==
  ASSUME NEW row \in Row, NEW p \in Phases
  PROVE  /\ Closed(row, p) \in Row
         /\ Closed(row, p).phase = p /\ Closed(row, p).late = None
         /\ Closed(row, p).claim = row.claim
<1> DEFINE moved == Moved(row, p)
<1>1. moved \in Row /\ moved.phase = p /\ moved.claim = row.claim
  BY MovedRow
<1>2. Closed(row, p) = [moved EXCEPT !.late = None]
  BY DEF Closed
<1> HIDE DEF moved
<1>3. Closed(row, p) \in Row
  BY <1>1, <1>2, RowColumns
<1> QED
  BY <1>1, <1>2, <1>3 DEF Row

\* Rows that hold nothing yet.
LEMMA NewRows ==
  /\ Absent \in Row /\ Absent.phase = "absent" /\ Absent.late = None /\ Absent.claim = None
  /\ Queued \in Row /\ Queued.phase = "queued_local" /\ Queued.late = None /\ Queued.claim = None
BY BoundsAssumption DEF Absent, Queued, Row, Phases

\* Recovery moves executing rows, and nothing else.
LEMMA RecoveredRow ==
  ASSUME NEW row \in Row
  PROVE  /\ Recovered(row) \in Row
         /\ Recovered(row).phase = IF row.phase = "executing" THEN "held" ELSE row.phase
         /\ Recovered(row).late = row.late /\ Recovered(row).claim = row.claim
BY HeldRow DEF Recovered

\* The row a chat has claimed.
Claimed(row, c, op, tok) ==
  [Moved(row, "executing") EXCEPT !.claim = [chat |-> c, op |-> op, token |-> tok],
                                  !.lease = Lease]

\* A claim names the chat and keeps the evidence.
LEMMA ClaimedRow ==
  ASSUME NEW row \in Row, NEW c \in Chats, NEW op \in Ops, NEW tok \in Tokens
  PROVE  /\ Claimed(row, c, op, tok) \in Row
         /\ Claimed(row, c, op, tok).phase = "executing"
         /\ Claimed(row, c, op, tok).late = row.late
         /\ Claimed(row, c, op, tok).claim \in Claim
         /\ Claimed(row, c, op, tok).claim # None
         /\ Claimed(row, c, op, tok).claim.chat = c
<1> DEFINE moved == Moved(row, "executing")
           claim == [chat |-> c, op |-> op, token |-> tok]
           claimed == [moved EXCEPT !.claim = claim]
<1>1. moved \in Row /\ moved.phase = "executing" /\ moved.late = row.late
  BY MovedRow DEF Phases
<1>2. claim \in Claim /\ claim # None /\ claim.chat = c
  BY NoneAssumption DEF Claim
<1>3. Claimed(row, c, op, tok) = [claimed EXCEPT !.lease = Lease]
  BY DEF Claimed
<1> HIDE DEF moved, claim
<1>4. claimed \in Row /\ claimed.phase = "executing" /\ claimed.late = row.late /\ claimed.claim = claim
  BY <1>1, <1>2, RowColumns DEF Row
<1> HIDE DEF claimed
<1>5. Lease \in 0..Lease
  BY BoundsAssumption
<1>6. Claimed(row, c, op, tok) \in Row
  BY <1>3, <1>4, <1>5, RowColumns
<1> QED
  BY <1>2, <1>3, <1>4, <1>6 DEF Row

\* What time does to a row.
Aged(row) ==
  [row EXCEPT !.age = IF row.phase = "absent" THEN 0 ELSE Older(@, Retention),
              !.lease = IF row.phase = "executing" /\ @ > 0 THEN @ - 1 ELSE @]

\* Time changes neither phase nor evidence.
LEMMA AgedRow ==
  ASSUME NEW row \in Row
  PROVE  /\ Aged(row) \in Row /\ Aged(row).phase = row.phase
         /\ Aged(row).late = row.late /\ Aged(row).claim = row.claim
<1> DEFINE age == IF row.phase = "absent" THEN 0 ELSE Older(row.age, Retention)
           lease == IF row.phase = "executing" /\ row.lease > 0 THEN row.lease - 1 ELSE row.lease
           older == [row EXCEPT !.age = age]
<1>1. age \in 0..Retention /\ lease \in 0..Lease
  BY BoundsAssumption DEF Row, Older
<1>2. Aged(row) = [older EXCEPT !.lease = lease]
  BY DEF Aged, Row
<1> HIDE DEF age, lease
<1>3. /\ older \in Row /\ older.phase = row.phase /\ older.late = row.late
      /\ older.claim = row.claim
  BY <1>1, RowColumns DEF Row
<1> HIDE DEF older
<1>4. Aged(row) \in Row
  BY <1>1, <1>2, <1>3, RowColumns
<1> QED
  BY <1>2, <1>3, <1>4 DEF Row

\* A new reply.
LEMMA NewReplies ==
  ASSUME NEW m \in Msgs, NEW t \in Texts, NEW o \in BOOLEAN
  PROVE  /\ NewReply(m, t, o) \in ReplyRow /\ NewReply(m, t, o) # None
         /\ NewReply(m, t, o).of = m /\ NewReply(m, t, o).text = t
         /\ NewReply(m, t, o).owner = o /\ NewReply(m, t, o).consumed = FALSE
<1>1. NewReply(m, t, o) \in ReplyRow
  BY BoundsAssumption DEF NewReply, ReplyRow
<1>2. NewReply(m, t, o).of = m /\ NewReply(m, t, o).text = t
  BY DEF NewReply
<1>3. NewReply(m, t, o).owner = o /\ NewReply(m, t, o).consumed = FALSE
  BY Zenon DEF NewReply
<1> QED
  BY <1>1, <1>2, <1>3, NoneAssumption

\* Reading a reply sets its read mark only.
LEMMA ReadRow ==
  ASSUME NEW row \in ReplyRow
  PROVE  /\ [row EXCEPT !.consumed = TRUE, !.age = 0] \in ReplyRow
         /\ [row EXCEPT !.consumed = TRUE, !.age = 0].of = row.of
         /\ [row EXCEPT !.consumed = TRUE, !.age = 0].text = row.text
         /\ [row EXCEPT !.consumed = TRUE, !.age = 0].owner = row.owner
         /\ [row EXCEPT !.consumed = TRUE, !.age = 0].consumed = TRUE
<1> DEFINE read == [row EXCEPT !.consumed = TRUE]
           out == [row EXCEPT !.consumed = TRUE, !.age = 0]
<1>1. read \in ReplyRow
  BY DEF ReplyRow
<1>2. out = [read EXCEPT !.age = 0]
  OBVIOUS
<1>3. read.of = row.of /\ read.text = row.text
  BY DEF ReplyRow
<1>4. read.owner = row.owner /\ read.consumed = TRUE
  BY Zenon DEF ReplyRow
<1> HIDE DEF read
<1>5. out \in ReplyRow
  BY <1>1, <1>2, BoundsAssumption DEF ReplyRow
<1>6. out.of = read.of /\ out.text = read.text
  BY <1>1, <1>2 DEF ReplyRow
<1>7. out.owner = read.owner /\ out.consumed = read.consumed
  BY <1>1, <1>2, Zenon DEF ReplyRow
<1> QED
  BY <1>3, <1>4, <1>5, <1>6, <1>7

\* Time changes only the age of a reply.
LEMMA OlderReply ==
  ASSUME NEW row \in ReplyRow
  PROVE  /\ [row EXCEPT !.age = Older(@, Retention)] \in ReplyRow
         /\ [row EXCEPT !.age = Older(@, Retention)].of = row.of
         /\ [row EXCEPT !.age = Older(@, Retention)].text = row.text
         /\ [row EXCEPT !.age = Older(@, Retention)].owner = row.owner
         /\ [row EXCEPT !.age = Older(@, Retention)].consumed = row.consumed
<1> DEFINE age == Older(row.age, Retention)
           out == [row EXCEPT !.age = age]
<1>1. age \in 0..Retention
  BY BoundsAssumption DEF ReplyRow, Older
<1>2. out \in ReplyRow /\ out.of = row.of /\ out.text = row.text
  BY <1>1 DEF ReplyRow
<1>3. out.owner = row.owner /\ out.consumed = row.consumed
  BY Zenon DEF ReplyRow
<1>4. [row EXCEPT !.age = Older(@, Retention)] = out
  OBVIOUS
<1> HIDE DEF out
<1> QED
  BY <1>2, <1>3, <1>4

-----------------------------------------------------------------------------
(* The queue.                                                              *)

\* Any order of a finite set is a sequence of exactly its elements.
LEMMA OrderOfSet ==
  ASSUME NEW S, IsFiniteSet(S), NEW q \in SetToSeqs(S)
  PROVE  /\ q \in Seq(S) /\ Range(q) = S
         /\ \A i, j \in DOMAIN q : q[i] = q[j] => i = j
<1> DEFINE n == Cardinality(S)
<1>1. n \in Nat
  BY FS_CardinalityType
<1>2. q \in [1..n -> S] /\ \A i, j \in 1..n : i # j => q[i] # q[j]
  BY DEF SetToSeqs
<1>3. q \in Injection(1..n, S)
  BY <1>2 DEF Injection, IsInjective
<1>4. q \in Surjection(1..n, S)
  BY <1>1, <1>3, FS_Interval, FS_Injection
<1> QED
  BY <1>1, <1>2, <1>4 DEF Surjection, Range

Distinct(q) == \A i, j \in DOMAIN q : q[i] = q[j] => i = j

\* Appending a new message to the dispatcher's queue keeps it free of repeats.
LEMMA AppendToQueue ==
  ASSUME NEW q \in Seq(Msgs), Distinct(q), NEW m \in Msgs, m \notin Range(q)
  PROVE  /\ Append(q, m) \in Seq(Msgs) /\ Distinct(Append(q, m))
         /\ Range(Append(q, m)) = Range(q) \cup {m}
<1> DEFINE r == Append(q, m)
<1>1. /\ r \in Seq(Msgs) /\ Len(r) = Len(q) + 1 /\ r[Len(q) + 1] = m
      /\ \A i \in 1..Len(q) : r[i] = q[i]
  OBVIOUS
<1>2. DOMAIN r = DOMAIN q \cup {Len(q) + 1}
  BY <1>1
<1> HIDE DEF r
<1>3. Range(r) = Range(q) \cup {m}
  BY <1>1, <1>2 DEF Range
<1>4. Distinct(r)
  BY <1>1, <1>2 DEF Distinct, Range
<1> QED
  BY <1>1, <1>3, <1>4 DEF r

\* Removing one place of the queue removes exactly its message.
LEMMA RemoveFromQueue ==
  ASSUME NEW q \in Seq(Msgs), Distinct(q), NEW i \in DOMAIN q
  PROVE  /\ RemoveAt(q, i) \in Seq(Msgs) /\ Distinct(RemoveAt(q, i))
         /\ Range(RemoveAt(q, i)) = Range(q) \ {q[i]}
<1> DEFINE r == RemoveAt(q, i)
<1>1. r \in Seq(Msgs) /\ Len(r) = Len(q) - 1
  BY DEF RemoveAt
<1> DEFINE before == SubSeq(q, 1, i - 1)
           after == SubSeq(q, i + 1, Len(q))
<1>a. before \in Seq(Msgs) /\ Len(before) = i - 1 /\ \A k \in 1..(i - 1) : before[k] = q[k]
  OBVIOUS
<1>b. /\ after \in Seq(Msgs) /\ Len(after) = Len(q) - i
      /\ \A k \in 1..(Len(q) - i) : after[k] = q[i + k]
  OBVIOUS
<1>2. \A k \in 1..Len(r) : r[k] = IF k < i THEN q[k] ELSE q[k + 1]
  <2>1. r = before \o after
    BY DEF RemoveAt
  <2> HIDE DEF before, after, r
  <2>2. \A k \in 1..Len(r) : r[k] = IF k <= Len(before) THEN before[k] ELSE after[k - Len(before)]
    BY <1>a, <1>b, <2>1
  <2> TAKE k \in 1..Len(r)
  <2>3. CASE k < i
    BY <1>a, <2>2, <2>3
  <2>4. CASE ~(k < i)
    <3>1. k - Len(before) \in 1..(Len(q) - i) /\ r[k] = after[k - Len(before)]
      BY <1>1, <1>a, <2>2, <2>4
    <3>2. after[k - Len(before)] = q[i + (k - Len(before))]
      BY <1>b, <3>1
    <3>3. i + (k - Len(before)) = k + 1
      BY <1>a
    <3> QED
      BY <2>4, <3>1, <3>2, <3>3
  <2> QED
    BY <2>3, <2>4
<1>3. Distinct(r)
  BY <1>1, <1>2 DEF Distinct
<1>4. Range(r) \subseteq Range(q) \ {q[i]}
  BY <1>1, <1>2 DEF Distinct, Range
<1>5. ASSUME NEW x \in Range(q) \ {q[i]} PROVE x \in Range(r)
  <2>1. PICK k \in 1..Len(q) : q[k] = x /\ k # i
    BY DEF Range
  <2>2. CASE k < i
    BY <1>1, <1>2, <2>1, <2>2 DEF Range
  <2>3. CASE k > i
    <3>1. k - 1 \in 1..Len(r) /\ r[k - 1] = x
      BY <1>1, <1>2, <2>1, <2>3
    <3> QED
      BY <1>1, <3>1 DEF Range
  <2> QED
    BY <2>1, <2>2, <2>3
<1> QED
  BY <1>1, <1>3, <1>4, <1>5
-----------------------------------------------------------------------------
(* The inductive invariant.                                                *)

\* What the dispatcher remembers agrees with the rows: a pending job is a
\* queued request for a worker that nobody executes, a message is in flight
\* exactly when it is pending or executing, and nothing is remembered across
\* a restart.
DispatcherMemory ==
  /\ Distinct(pending)
  /\ \A m \in Range(pending) :
       m \in Runner /\ exec[m] = "idle" /\ msg[m].phase = "queued_local"
  /\ inFlight = Range(pending) \cup ActiveExecutions
  /\ ActiveExecutions \subseteq Runner
  /\ svc \in {"down", "opened"} => inFlight = {}
  /\ svc = "stopping" => pending = <<>>

IsTo(row, m) == row # None /\ row.of = m
Unanswered(m) == \A r \in ReplyIds : ~IsTo(reply[r], m)

\* Which evidence a row in each phase may carry.
RowShape ==
  \A m \in Msgs :
    /\ msg[m].phase \in {"absent", "queued_local"} =>
         msg[m].late = None /\ msg[m].claim = None /\ Unanswered(m)
    /\ msg[m].phase = "executing" =>
         /\ msg[m].late = None /\ Unanswered(m)
         /\ m \in Interactive => msg[m].claim # None
    /\ msg[m].phase = "held" /\ m \notin Legacy => Unanswered(m)

\* No request has two replies.
OneReply ==
  \A r, s \in ReplyIds :
    reply[r] # None /\ reply[s] # None /\ reply[r].of = reply[s].of => r = s

\* Between the outcome of an execution and its finally clause the row is
\* finished, and too young to be compacted.
SettledIsFresh ==
  ~StorageFaults =>
    \A m \in Msgs : exec[m] = "settled" =>
      msg[m].phase \in {"completed", "held"} /\ msg[m].age = 0

\* The admission row of a request admitted within the window is still there.
AdmissionTracks ==
  \A m \in Msgs : admittedAgo[m] < PairWindow => admission[m] = admittedAgo[m]

IInv ==
  /\ TypeOK /\ ExecutorOwnsRow /\ DispatcherMemory /\ RowShape /\ OneReply
  /\ SettledIsFresh /\ AdmissionTracks
  /\ ExecutionBound /\ PairBound /\ NoLostWork /\ ClaimantSpeaks

-----------------------------------------------------------------------------
(* Types.                                                                  *)

\* Admissions are remembered past both the pair window and the retention.
LEMMA HorizonBound == Horizon \in Nat /\ Horizon >= PairWindow /\ Horizon >= Retention
BY BoundsAssumption DEF Horizon, MaxOf

\* An age grows to its cap.
LEMMA OlderBound ==
  ASSUME NEW cap \in Nat, NEW age \in 0..cap
  PROVE  Older(age, cap) \in 0..cap /\ Older(age, cap) >= age
BY DEF Older

\* Compaction keeps the tables well formed.
LEMMA CompactType ==
  ASSUME TypeOK, NEW rows \in [Msgs -> Row], NEW adm \in [Msgs -> 0..Horizon \cup {None}],
         CompactIfDue(rows, adm) \/ Compact(rows, adm)
  PROVE  /\ msg' \in [Msgs -> Row]
         /\ reply' \in [ReplyIds -> ReplyRow \cup {None}]
         /\ admission' \in [Msgs -> 0..Horizon \cup {None}]
         /\ compacted' \in 0..CompactInterval
<1>1. CASE Compact(rows, adm)
  <2>1. msg' \in [Msgs -> Row]
    BY <1>1, NewRows DEF Compact
  <2>2. reply' \in [ReplyIds -> ReplyRow \cup {None}]
    BY <1>1 DEF Compact, TypeOK
  <2>3. admission' \in [Msgs -> 0..Horizon \cup {None}]
    BY <1>1 DEF Compact, TypeOK
  <2>4. compacted' \in 0..CompactInterval
    BY <1>1, BoundsAssumption DEF Compact
  <2> QED
    BY <2>1, <2>2, <2>3, <2>4
<1>2. CASE ~Compact(rows, adm)
  BY <1>2 DEF CompactIfDue, TypeOK
<1> QED
  BY <1>1, <1>2

\* Notifying the dispatcher keeps its memory well formed.
LEMMA NotifyType ==
  ASSUME pending \in Seq(Msgs), inFlight \in SUBSET Msgs, NEW m \in Msgs, NotifyAdmission(m)
  PROVE  pending' \in Seq(Msgs) /\ inFlight' \in SUBSET Msgs
<1>1. CASE m \in Runner /\ m \notin inFlight
  <2>1. pending' = Append(pending, m) /\ inFlight' = inFlight \cup {m}
    BY <1>1 DEF NotifyAdmission
  <2> QED
    BY <2>1
<1>2. CASE ~(m \in Runner /\ m \notin inFlight)
  BY <1>2 DEF NotifyAdmission
<1> QED
  BY <1>1, <1>2

\* The initial state is well formed.
LEMMA TypeInit == Init => TypeOK
<1> SUFFICES ASSUME Init PROVE TypeOK
  OBVIOUS
<1>1. msg \in [Msgs -> Row]
  BY NewRows, HeldRow DEF Init
<1>2. reply \in [ReplyIds -> ReplyRow \cup {None}]
  <2>1. PICK f \in LegacyReplies, t \in Texts :
          reply = [r \in ReplyIds |->
                     IF \E m \in Legacy : f[m] = r
                     THEN NewReply(CHOOSE m \in Legacy : f[m] = r, t, FALSE)
                     ELSE None]
    BY DEF Init
  <2>2. ASSUME NEW r \in ReplyIds, \E m \in Legacy : f[m] = r
        PROVE  NewReply(CHOOSE m \in Legacy : f[m] = r, t, FALSE) \in ReplyRow
    BY <2>2, NewReplies, MessagesAssumption
  <2> QED
    BY <2>1, <2>2
<1>3. admission \in [Msgs -> 0..Horizon \cup {None}] /\ audit \in [ReconcileIds -> Decision \cup {None}]
  BY DEF Init
<1>4. /\ pending \in Seq(Msgs) /\ inFlight \in SUBSET Msgs
      /\ exec \in [Msgs -> {"idle", "gated", "running", "timedOut", "settled"}]
  BY DEF Init
<1>5. receipt \in [Chats -> [Msgs -> Tokens \cup {None}]] /\ view \in View \cup {None}
  BY DEF Init
<1>6. /\ svc \in {"down", "opened", "up", "stopping"} /\ compacted \in 0..CompactInterval
      /\ admittedAgo \in [Msgs -> 0..PairWindow]
  BY BoundsAssumption DEF Init
<1> QED
  BY <1>1, <1>2, <1>3, <1>4, <1>5, <1>6 DEF TypeOK

\* Every step keeps the tables and the dispatcher's memory well formed.
LEMMA TypeNext == TypeOK /\ RowShape /\ [Next]_vars => TypeOK'
<1> SUFFICES ASSUME TypeOK, RowShape, [Next]_vars PROVE TypeOK'
  OBVIOUS
<1> USE DEF TypeOK
<1>1. CASE OpenJournal
  BY <1>1, RecoveredRow DEF OpenJournal
<1>2. CASE DispatcherStart
  <2> DEFINE toRun == {m \in Runner : msg[m].phase = "queued_local"}
             rows == [m \in Msgs |-> Recovered(msg[m])]
  <2>1. rows \in [Msgs -> Row] /\ Compact(rows, admission)
    BY <1>2, RecoveredRow DEF DispatcherStart
  <2>2. pending' \in Seq(Msgs) /\ inFlight' \in SUBSET Msgs
    <3>1. toRun \subseteq Msgs /\ IsFiniteSet(toRun)
      BY MessagesAssumption, FS_Subset
    <3>2. PICK q \in SetToSeqs(toRun) : pending' = q
      BY <1>2 DEF DispatcherStart
    <3>3. q \in Seq(toRun)
      BY <3>1, OrderOfSet
    <3> QED
      BY <1>2, <3>1, <3>2, <3>3 DEF DispatcherStart
  <2> QED
    BY <1>2, <2>1, <2>2, CompactType DEF DispatcherStart
<1>3. ASSUME NEW m \in Msgs, SendNew(m) PROVE TypeOK'
  <2> DEFINE rows == [msg EXCEPT ![m] = Queued]
             adm  == [admission EXCEPT ![m] = 0]
  <2>1. rows \in [Msgs -> Row] /\ adm \in [Msgs -> 0..Horizon \cup {None}]
    BY NewRows, HorizonBound
  <2>2. \/ CompactIfDue(rows, adm)
        \/ msg' = rows /\ admission' = adm /\ UNCHANGED <<reply, compacted>>
    BY <1>3 DEF SendNew
  <2>3. /\ msg' \in [Msgs -> Row]
        /\ reply' \in [ReplyIds -> ReplyRow \cup {None}]
        /\ admission' \in [Msgs -> 0..Horizon \cup {None}]
        /\ compacted' \in 0..CompactInterval
    BY <2>1, <2>2, CompactType
  <2>4. pending' \in Seq(Msgs) /\ inFlight' \in SUBSET Msgs
    BY <1>3, NotifyType DEF SendNew
  <2>5. admittedAgo' \in [Msgs -> 0..PairWindow]
    BY <1>3, BoundsAssumption DEF SendNew
  <2> QED
    BY <1>3, <2>3, <2>4, <2>5 DEF SendNew
<1>4. ASSUME NEW m \in Msgs, SendDuplicate(m) PROVE TypeOK'
  <2>1. /\ msg' \in [Msgs -> Row]
        /\ reply' \in [ReplyIds -> ReplyRow \cup {None}]
        /\ admission' \in [Msgs -> 0..Horizon \cup {None}]
        /\ compacted' \in 0..CompactInterval
    BY <1>4, CompactType DEF SendDuplicate
  <2>2. pending' \in Seq(Msgs) /\ inFlight' \in SUBSET Msgs
    BY <1>4, NotifyType DEF SendDuplicate
  <2> QED
    BY <1>4, <2>1, <2>2 DEF SendDuplicate
<1>5. CASE Pump
  <2>1. PICK i \in DOMAIN pending :
          /\ pending' = RemoveAt(pending, i)
          /\ \/ /\ msg' = [msg EXCEPT ![pending[i]] = Moved(@, "executing")]
                /\ exec' = [exec EXCEPT ![pending[i]] = "gated"]
             \/ /\ exec' = [exec EXCEPT ![pending[i]] = "settled"]
                /\ UNCHANGED msg
    BY <1>5 DEF Pump
  <2>2. pending' \in Seq(Msgs)
    BY <2>1 DEF RemoveAt
  <2>3. pending[i] \in Msgs /\ Moved(msg[pending[i]], "executing") \in Row
    BY MovedRow DEF Phases
  <2>4. msg' \in [Msgs -> Row]
    BY <2>1, <2>3
  <2> QED
    BY <1>5, <2>1, <2>2, <2>4 DEF Pump
<1>6. ASSUME NEW m \in Msgs, DispatcherStep(m) PROVE TypeOK'
  <2>1. CASE RunnerStarts(m) \/ RunnerTimeout(m)
    BY <2>1 DEF RunnerStarts, RunnerTimeout
  <2>2. ASSUME NEW t \in Texts, NEW r \in ReplyIds, RunnerCompletes(m, t, r) PROVE TypeOK'
    BY <2>2, NewReplies, MovedRow DEF RunnerCompletes, Settle, Phases
  <2>3. ASSUME NEW t \in Texts, RunnerCompletesLate(m, t) PROVE TypeOK'
    BY <2>3, HeldWithRow, HeldRow DEF RunnerCompletesLate, HoldExecution, Settle
  <2>4. CASE RunnerUncompleted(m)
    BY <2>4, HeldRow DEF RunnerUncompleted, HoldExecution, Settle
  <2>5. CASE PersistFails(m) \/ RunnerThrows(m)
    <3>1. RecordExecutionFailure(m) /\ UNCHANGED reply /\ Settle(m)
      BY <2>5 DEF PersistFails, RunnerThrows
    <3>a. msg' = [msg EXCEPT ![m] = Held(@)] \/ msg' = msg
      BY <3>1, Zenon DEF RecordExecutionFailure
    <3>b. Held(msg[m]) \in Row
      BY HeldRow
    <3>2. msg' \in [Msgs -> Row]
      BY <3>a, <3>b
    <3> QED
      BY <3>1, <3>2 DEF Settle
  <2>6. CASE ExecutionEnds(m)
    BY <2>6 DEF ExecutionEnds
  <2> QED
    BY <1>6, <2>1, <2>2, <2>3, <2>4, <2>5, <2>6 DEF DispatcherStep
<1>7. CASE Stop \/ CloseJournal
  <2>1. inFlight' \subseteq inFlight /\ svc' \in {"stopping", "down"}
    BY <1>7, Zenon DEF Stop, CloseJournal
  <2>2. pending' \in Seq(Msgs)
    <3>1. <<>> \in Seq(Msgs)
      OBVIOUS
    <3>2. pending' = <<>> \/ pending' = pending
      BY <1>7, Zenon DEF Stop, CloseJournal
    <3> QED
      BY <3>1, <3>2
  <2>3. UNCHANGED <<msg, reply, admission, audit, exec, compacted, receipt, view, admittedAgo>>
    BY <1>7, Zenon DEF Stop, CloseJournal
  <2> QED
    BY <2>1, <2>2, <2>3
<1>8. CASE Crash
  BY <1>8 DEF Crash
<1>9. ASSUME NEW c \in Chats, ChatStep(c) PROVE TypeOK'
  <2>1. ASSUME NEW m \in Msgs, NEW op \in Ops, NEW tok \in Tokens, ClaimInboxMessage(c, m, op, tok)
        PROVE  TypeOK'
    <3>1. msg' = [msg EXCEPT ![m] = Claimed(msg[m], c, op, tok)]
      BY <2>1 DEF ClaimInboxMessage, Claimed
    <3>2. msg' \in [Msgs -> Row]
      BY <3>1, ClaimedRow
    <3>3. receipt' \in [Chats -> [Msgs -> Tokens \cup {None}]]
      <4>1. CASE receipt' = [receipt EXCEPT ![c][m] = tok]
        BY <4>1
      <4>2. CASE UNCHANGED receipt
        BY <4>2
      <4> QED
        BY <2>1, <4>1, <4>2 DEF ClaimInboxMessage
    <3> QED
      BY <2>1, <3>2, <3>3 DEF ClaimInboxMessage
  <2>2. ASSUME NEW m \in Msgs, NEW op \in Ops, RetryClaim(c, m, op) PROVE TypeOK'
    <3>1. msg[m].claim \in Claim
      BY <2>2 DEF RetryClaim, RowShape, Row
    <3>2. msg[m].claim.token \in Tokens
      BY <3>1 DEF Claim
    <3> QED
      BY <2>2, <3>2 DEF RetryClaim
  <2>3. ASSUME NEW m \in Msgs, NEW t \in Says[c], NEW r \in ReplyIds, ChatReply(c, m, t, r)
        PROVE  TypeOK'
    <3>1. t \in Texts
      BY ChatsAssumption
    <3>2. /\ Moved(msg[m], "completed") \in Row /\ HeldWith(msg[m], t) \in Row
          /\ NewReply(m, t, FALSE) \in ReplyRow
      BY <3>1, MovedRow, HeldWithRow, NewReplies DEF Phases
    <3>3. \/ /\ reply' = [reply EXCEPT ![r] = NewReply(m, t, FALSE)]
             /\ msg' = [msg EXCEPT ![m] = Moved(@, "completed")]
          \/ msg' = [msg EXCEPT ![m] = HeldWith(@, t)] /\ reply' = reply
      BY <2>3 DEF ChatReply
    <3>4. msg' \in [Msgs -> Row] /\ reply' \in [ReplyIds -> ReplyRow \cup {None}]
      BY <3>2, <3>3
    <3> QED
      BY <2>3, <3>4 DEF ChatReply
  <2> QED
    BY <1>9, <2>1, <2>2, <2>3 DEF ChatStep
<1>10. ASSUME NEW m \in Msgs, ReapExpired(m) PROVE TypeOK'
  BY <1>10, HeldRow DEF ReapExpired
<1>11. ASSUME NEW r \in ReplyIds, ConsumeReply(r) PROVE TypeOK'
  <2>1. reply[r] \in ReplyRow
    BY <1>11 DEF ConsumeReply
  <2>2. [reply[r] EXCEPT !.consumed = TRUE, !.age = 0] \in ReplyRow
    BY <2>1, ReadRow
  <2> QED
    BY <1>11, <2>2 DEF ConsumeReply
<1>12. CASE OwnerStep
  <2>1. ASSUME NEW m \in Msgs, ListHeld(m) PROVE TypeOK'
    <3>1. VersionOf(m) \in View
      BY DEF VersionOf, View, Row, RepliesTo
    <3> QED
      BY <2>1, <3>1 DEF ListHeld
  <2>2. ASSUME NEW id \in ReconcileIds, NEW m \in Msgs, NEW a \in Actions, NEW r \in ReplyIds,
               Reconcile(id, m, a, r)
        PROVE  TypeOK'
    <3>1. msg' \in [Msgs -> Row]
      BY <2>2, RecoveredRow, ClosedRow DEF Reconcile, Phases
    <3>2. audit' \in [ReconcileIds -> Decision \cup {None}]
      BY <2>2 DEF Reconcile, Decision
    <3>3. reply' \in [ReplyIds -> ReplyRow \cup {None}]
      <4>1. a = "accept-late-result" => msg[m].late \in Texts
        BY <2>2 DEF Reconcile, Reconcilable, Row
      <4>2. CASE a = "accept-late-result"
        <5>1. NewReply(m, msg[m].late, TRUE) \in ReplyRow
          BY <4>1, <4>2, NewReplies
        <5> QED
          BY <2>2, <4>2, <5>1 DEF Reconcile
      <4>3. CASE a # "accept-late-result"
        BY <2>2, <4>3 DEF Reconcile
      <4> QED
        BY <4>2, <4>3
    <3> QED
      BY <2>2, <3>1, <3>2, <3>3 DEF Reconcile
  <2> QED
    BY <1>12, <2>1, <2>2 DEF OwnerStep
<1>13. CASE Tick
  <2>2. msg' \in [Msgs -> Row]
    <3>1. msg' = [m \in Msgs |-> Aged(msg[m])]
      BY <1>13 DEF Tick, Aged
    <3> QED
      BY <3>1, AgedRow
  <2>3. reply' \in [ReplyIds -> ReplyRow \cup {None}]
    BY <1>13, OlderReply DEF Tick
  <2>4. admission' \in [Msgs -> 0..Horizon \cup {None}]
    <3>1. \A a \in 0..Horizon : Older(a, Horizon) \in 0..Horizon
      BY HorizonBound, OlderBound
    <3>2. admission' = [m \in Msgs |-> IF admission[m] = None THEN None
                                      ELSE Older(admission[m], Horizon)]
      BY <1>13 DEF Tick
    <3> QED
      BY <3>1, <3>2
  <2>5. admittedAgo' \in [Msgs -> 0..PairWindow] /\ compacted' \in 0..CompactInterval
    <3>1. \A a \in 0..PairWindow : Older(a, PairWindow) \in 0..PairWindow
      BY BoundsAssumption, OlderBound
    <3>2. Older(compacted, CompactInterval) \in 0..CompactInterval
      BY BoundsAssumption, OlderBound
    <3> QED
      BY <1>13, <3>1, <3>2 DEF Tick
  <2>6. view' \in View \cup {None}
    <3>1. view' = IF view = None THEN None ELSE [view EXCEPT !.age = Older(@, Retention)]
      BY <1>13 DEF Tick
    <3>2. ASSUME view # None PROVE [view EXCEPT !.age = Older(@, Retention)] \in View
      <4>1. view \in View /\ view.age \in 0..Retention
        BY <3>2 DEF View
      <4>2. Older(view.age, Retention) \in 0..Retention
        BY <4>1, BoundsAssumption, OlderBound
      <4> QED
        BY <4>1, <4>2 DEF View
    <3> QED
      BY <3>1, <3>2
  <2> QED
    BY <1>13, <2>2, <2>3, <2>4, <2>5, <2>6 DEF Tick
<1>14. CASE UNCHANGED vars
  BY <1>14 DEF vars
<1> QED
  BY <1>1, <1>2, <1>3, <1>4, <1>5, <1>6, <1>7, <1>8, <1>9, <1>10, <1>11, <1>12, <1>13, <1>14
     DEF Next

-----------------------------------------------------------------------------
(* Admission.                                                              *)

\* The other actions leave the admissions alone.
LEMMA AdmissionSteps ==
  ASSUME [Next]_vars
  PROVE  \/ UNCHANGED <<admission, admittedAgo>>
         \/ DispatcherStart \/ Tick
         \/ \E m \in Msgs : SendNew(m) \/ SendDuplicate(m)
<1>1. ASSUME NEW m \in Msgs, DispatcherStep(m) PROVE UNCHANGED <<admission, admittedAgo>>
  BY <1>1, Zenon DEF DispatcherStep, RunnerStarts, RunnerTimeout, RunnerCompletes, RunnerCompletesLate,
         PersistFails, RunnerUncompleted, RunnerThrows, ExecutionEnds, Settle
<1>2. ASSUME NEW c \in Chats, ChatStep(c) PROVE UNCHANGED <<admission, admittedAgo>>
  BY <1>2, Zenon DEF ChatStep, ClaimInboxMessage, RetryClaim, ChatReply
<1>3. CASE OwnerStep
  BY <1>3, Zenon DEF OwnerStep, ListHeld, Reconcile
<1>4. CASE OpenJournal \/ Pump \/ Stop \/ CloseJournal \/ Crash
  BY <1>4, Zenon DEF OpenJournal, Pump, Stop, CloseJournal, Crash
<1>5. ASSUME NEW m \in Msgs, ReapExpired(m) PROVE UNCHANGED <<admission, admittedAgo>>
  BY <1>5, Zenon DEF ReapExpired
<1>6. ASSUME NEW r \in ReplyIds, ConsumeReply(r) PROVE UNCHANGED <<admission, admittedAgo>>
  BY <1>6, Zenon DEF ConsumeReply
<1>7. CASE UNCHANGED vars
  BY <1>7 DEF vars
<1> QED
  BY <1>1, <1>2, <1>3, <1>4, <1>5, <1>6, <1>7, Zenon DEF Next

\* Compaction removes an admission only when it is older than the window.
LEMMA CompactAdmission ==
  ASSUME NEW adm \in [Msgs -> 0..Horizon \cup {None}], NEW rows,
         CompactIfDue(rows, adm) \/ Compact(rows, adm),
         NEW m \in Msgs, admission[m] \in 0..Horizon \cup {None}
  PROVE  \/ admission'[m] = adm[m]
         \/ admission[m] \in Nat /\ admission[m] >= PairWindow
<1>1. CASE Compact(rows, adm)
  <2>1. AdmissionGone(m) => admission[m] \in Nat /\ admission[m] >= PairWindow
    BY HorizonBound, BoundsAssumption DEF AdmissionGone
  <2> QED
    BY <1>1, <2>1 DEF Compact
<1>2. CASE ~Compact(rows, adm)
  BY <1>2 DEF CompactIfDue
<1> QED
  BY <1>1, <1>2

\* Every step keeps the admission row of a recent admission: compaction
\* may not remove the evidence the pair limit counts.
LEMMA AdmissionNext ==
  ASSUME TypeOK, AdmissionTracks, [Next]_vars
  PROVE  AdmissionTracks'
<1> USE DEF TypeOK
<1>1. CASE UNCHANGED <<admission, admittedAgo>>
  BY <1>1 DEF AdmissionTracks
<1>2. CASE DispatcherStart \/ \E m \in Msgs : SendDuplicate(m)
  <2>1. UNCHANGED admittedAgo
    BY <1>2 DEF DispatcherStart, SendDuplicate
  <2>2. \A x \in Msgs : \/ admission'[x] = admission[x]
                        \/ admission[x] \in Nat /\ admission[x] >= PairWindow
    BY <1>2, CompactAdmission DEF DispatcherStart, SendDuplicate
  <2> QED
    BY <2>1, <2>2, BoundsAssumption DEF AdmissionTracks
<1>3. ASSUME NEW m \in Msgs, SendNew(m) PROVE AdmissionTracks'
  <2> DEFINE rows == [msg EXCEPT ![m] = Queued]
             adm  == [admission EXCEPT ![m] = 0]
  <2>1. adm \in [Msgs -> 0..Horizon \cup {None}]
    BY HorizonBound
  <2>2. CompactIfDue(rows, adm) \/ admission' = adm
    BY <1>3 DEF SendNew
  <2>3. \A x \in Msgs : \/ admission'[x] = adm[x]
                        \/ admission[x] \in Nat /\ admission[x] >= PairWindow
    BY <2>1, <2>2, CompactAdmission
  <2>4. admission[m] = None /\ admittedAgo' = [admittedAgo EXCEPT ![m] = 0]
    BY <1>3 DEF SendNew
  <2>5. ASSUME NEW x \in Msgs, admittedAgo'[x] < PairWindow PROVE admission'[x] = admittedAgo'[x]
    <3>1. CASE x = m
      BY <2>3, <2>4, <3>1, NoneAssumption
    <3>2. CASE x # m
      BY <2>3, <2>4, <2>5, <3>2, BoundsAssumption DEF AdmissionTracks
    <3> QED
      BY <3>1, <3>2
  <2> QED
    BY <2>5 DEF AdmissionTracks
<1>4. CASE Tick
  <2>1. ASSUME NEW x \in Msgs, admittedAgo'[x] < PairWindow PROVE admission'[x] = admittedAgo'[x]
    <3>1. admittedAgo'[x] = Older(admittedAgo[x], PairWindow)
      BY <1>4 DEF Tick
    <3>2. admittedAgo[x] < PairWindow /\ admittedAgo'[x] = admittedAgo[x] + 1
      BY <2>1, <3>1, BoundsAssumption DEF Older
    <3>3. admission[x] = admittedAgo[x] /\ admission[x] # None
      BY <3>2, NoneAssumption DEF AdmissionTracks
    <3>4. admission'[x] = Older(admission[x], Horizon)
      BY <1>4, <3>3 DEF Tick
    <3> QED
      BY <3>2, <3>3, <3>4, HorizonBound, BoundsAssumption DEF Older
  <2> QED
    BY <2>1 DEF AdmissionTracks
<1> QED
  BY <1>1, <1>2, <1>3, <1>4, AdmissionSteps

\* The requests of one pair admitted within the window.
Recent(p) == {x \in Msgs : Pair[x] = p /\ admittedAgo[x] < PairWindow}

\* No step admits more requests of a pair within its window than MaxPair.
LEMMA PairNext ==
  ASSUME TypeOK, AdmissionTracks, PairBound, [Next]_vars
  PROVE  PairBound'
<1> USE DEF TypeOK
<1>a. PairBound' = \A p \in {Pair[m] : m \in Msgs} : Cardinality(Recent(p)') <= MaxPair
  BY DEF PairBound, Recent
<1>b. \A p \in {Pair[m] : m \in Msgs} : Cardinality(Recent(p)) <= MaxPair
  BY DEF PairBound, Recent
<1>c. \A p : IsFiniteSet(Recent(p)) /\ Cardinality(Recent(p)) \in Nat
  BY MessagesAssumption, FS_Subset, FS_CardinalityType DEF Recent
<1>1. CASE UNCHANGED admittedAgo
  BY <1>1 DEF PairBound
<1>2. ASSUME NEW m \in Msgs, SendNew(m) PROVE PairBound'
  <2> DEFINE Counted(p) == {x \in Msgs : Pair[x] = p /\ admission[x] # None
                                                      /\ admission[x] < PairWindow}
  <2>1. admittedAgo' = [admittedAgo EXCEPT ![m] = 0]
    BY <1>2 DEF SendNew
  <2>2. \A p : p # Pair[m] => Recent(p)' = Recent(p)
    BY <2>1 DEF Recent
  <2>3. Recent(Pair[m])' = Recent(Pair[m]) \cup {m}
    BY <2>1, BoundsAssumption DEF Recent
  <2>4. Recent(Pair[m]) \subseteq Counted(Pair[m])
    BY NoneAssumption DEF Recent, AdmissionTracks
  <2>5. IsFiniteSet(Counted(Pair[m])) /\ Cardinality(Counted(Pair[m])) < MaxPair
    <3>1. IsFiniteSet(Counted(Pair[m]))
      BY MessagesAssumption, FS_Subset
    <3>2. PairCount(Pair[m]) < MaxPair
      BY <1>2 DEF SendNew
    <3> QED
      BY <3>1, <3>2 DEF PairCount
  <2>6. Cardinality(Recent(Pair[m])) < MaxPair
    <3>1. Cardinality(Recent(Pair[m])) <= Cardinality(Counted(Pair[m]))
      BY <2>4, <2>5, FS_Subset
    <3> QED
      BY <2>5, <3>1, <1>c, FS_CardinalityType, BoundsAssumption
  <2>7. Cardinality(Recent(Pair[m])') <= MaxPair
    <3> DEFINE R == Recent(Pair[m])
    <3>1. IsFiniteSet(R) /\ Cardinality(R) \in Nat /\ Cardinality(R) < MaxPair
      BY <1>c, <2>6
    <3>2. R' = R \cup {m}
      BY <2>3
    <3> HIDE DEF R
    <3>3. Cardinality(R \cup {m}) = IF m \in R THEN Cardinality(R) ELSE Cardinality(R) + 1
      BY <3>1, FS_AddElement
    <3>4. Cardinality(R \cup {m}) <= MaxPair
      BY <3>1, <3>3, BoundsAssumption
    <3>5. Cardinality(R') <= MaxPair
      BY <3>2, <3>4
    <3> QED
      BY <3>5 DEF R
  <2> QED
    BY <1>a, <1>b, <2>2, <2>7
<1>3. CASE Tick
  <2>1. ASSUME NEW x \in Msgs, admittedAgo'[x] < PairWindow PROVE admittedAgo[x] < PairWindow
    <3>1. admittedAgo'[x] = Older(admittedAgo[x], PairWindow)
      BY <1>3 DEF Tick
    <3> QED
      BY <2>1, <3>1, BoundsAssumption DEF Older
  <2>2. \A p : Recent(p)' \subseteq Recent(p)
    BY <2>1 DEF Recent
  <2>3. ASSUME NEW p \in {Pair[m] : m \in Msgs} PROVE Cardinality(Recent(p)') <= MaxPair
    <3> DEFINE R == Recent(p)
               S == Recent(p)'
    <3>1. IsFiniteSet(R) /\ S \subseteq R /\ Cardinality(R) \in Nat /\ Cardinality(R) <= MaxPair
      BY <1>b, <1>c, <2>2
    <3> HIDE DEF R, S
    <3>2. IsFiniteSet(S) /\ Cardinality(S) <= Cardinality(R)
      BY <3>1, FS_Subset
    <3>3. Cardinality(S) <= MaxPair
      BY <3>1, <3>2, FS_CardinalityType, BoundsAssumption
    <3> QED
      BY <3>3 DEF S
  <2> QED
    BY <1>a, <2>3
<1> QED
  BY <1>1, <1>2, <1>3, AdmissionSteps DEF DispatcherStart, SendDuplicate

-----------------------------------------------------------------------------
(* Executions.                                                             *)

\* How an execution ends: with a reply, with the row held, or, where storage
\* may fail, with the row as it was.
Outcome(m) ==
  \/ \E t \in Texts, r \in ReplyIds :
       /\ RepliesTo(m) = {} /\ reply[r] = None
       /\ reply' = [reply EXCEPT ![r] = NewReply(m, t, FALSE)]
       /\ msg' = [msg EXCEPT ![m] = Moved(@, "completed")]
  \/ msg' = [msg EXCEPT ![m] = Held(@)] /\ reply' = reply
  \/ \E t \in Texts : msg' = [msg EXCEPT ![m] = HeldWith(@, t)] /\ reply' = reply
  \/ StorageFaults /\ msg' = msg /\ reply' = reply

\* A step of an execution starts it, ends it or cleans up after it.
LEMMA ExecutorSteps ==
  ASSUME TypeOK, ExecutorOwnsRow, NEW m \in Msgs, DispatcherStep(m)
  PROVE  /\ UNCHANGED <<svc, pending>>
         /\ \/ /\ exec[m] \in {"gated", "running"}
               /\ \E e \in {"running", "timedOut"} : exec' = [exec EXCEPT ![m] = e]
               /\ UNCHANGED <<msg, reply, inFlight>>
            \/ /\ exec[m] \in {"gated", "running", "timedOut"}
               /\ exec' = [exec EXCEPT ![m] = "settled"]
               /\ msg[m].phase = "executing" /\ Outcome(m)
               /\ UNCHANGED inFlight
            \/ /\ exec[m] = "settled"
               /\ exec' = [exec EXCEPT ![m] = "idle"]
               /\ inFlight' = inFlight \ {m}
               /\ UNCHANGED <<msg, reply>>
<1>a. exec[m] \in {"gated", "running", "timedOut"} => msg[m].phase = "executing"
  BY DEF ExecutorOwnsRow
<1>1. CASE RunnerStarts(m) \/ RunnerTimeout(m)
  BY <1>1 DEF RunnerStarts, RunnerTimeout
<1>2. ASSUME NEW t \in Texts, NEW r \in ReplyIds, RunnerCompletes(m, t, r)
      PROVE  /\ exec[m] = "running" /\ Outcome(m) /\ Settle(m)
  BY <1>2, Zenon DEF RunnerCompletes, CanComplete, Outcome
<1>3. ASSUME NEW t \in Texts, RunnerCompletesLate(m, t)
      PROVE  exec[m] = "timedOut" /\ Outcome(m) /\ Settle(m)
  <2>1. exec[m] = "timedOut" /\ msg[m].phase = "executing"
    BY <1>3, <1>a DEF RunnerCompletesLate
  <2>2. t # None
    BY NoneAssumption
  <2>3. msg' = [msg EXCEPT ![m] = HeldWith(@, t)]
    BY <1>3, <2>1, <2>2 DEF RunnerCompletesLate, HoldExecution
  <2> QED
    BY <1>3, <2>1, <2>3 DEF RunnerCompletesLate, Outcome
<1>4. ASSUME RunnerUncompleted(m)
      PROVE  exec[m] \in {"running", "timedOut"} /\ Outcome(m) /\ Settle(m)
  <2>1. exec[m] \in {"running", "timedOut"} /\ msg[m].phase = "executing"
    BY <1>4, <1>a DEF RunnerUncompleted
  <2>2. msg' = [msg EXCEPT ![m] = Held(@)]
    BY <1>4, <2>1 DEF RunnerUncompleted, HoldExecution
  <2> QED
    BY <1>4, <2>1, <2>2 DEF RunnerUncompleted, Outcome
<1>5. ASSUME PersistFails(m) \/ RunnerThrows(m)
      PROVE  exec[m] \in {"gated", "running", "timedOut"} /\ Outcome(m) /\ Settle(m)
  <2>1. exec[m] \in {"gated", "running", "timedOut"} /\ RecordExecutionFailure(m)
    BY <1>5 DEF PersistFails, RunnerThrows
  <2>2. reply' = reply /\ Settle(m)
    BY <1>5 DEF PersistFails, RunnerThrows
  <2>3. msg[m].phase = "executing"
    BY <2>1, <1>a
  <2>4. \/ msg' = [msg EXCEPT ![m] = Held(@)]
        \/ StorageFaults /\ msg' = msg
    BY <2>1, <2>3, Zenon DEF RecordExecutionFailure
  <2> QED
    BY <2>1, <2>2, <2>4, Zenon DEF Outcome
<1>6. CASE ExecutionEnds(m)
  BY <1>6 DEF ExecutionEnds
<1>7. CASE exec[m] \in {"gated", "running", "timedOut"} /\ Outcome(m) /\ Settle(m)
  BY <1>7, <1>a, Zenon DEF Settle
<1> QED
  BY <1>1, <1>2, <1>3, <1>4, <1>5, <1>6, <1>7 DEF DispatcherStep

\* The other actions leave the executions alone.
LEMMA ExecutionSteps ==
  ASSUME [Next]_vars
  PROVE  \/ UNCHANGED exec
         \/ Pump \/ Crash
         \/ \E m \in Msgs : DispatcherStep(m)
<1>1. ASSUME NEW c \in Chats, ChatStep(c) PROVE UNCHANGED exec
  BY <1>1, Zenon DEF ChatStep, ClaimInboxMessage, RetryClaim, ChatReply
<1>2. CASE OwnerStep
  BY <1>2, Zenon DEF OwnerStep, ListHeld, Reconcile
<1>3. CASE OpenJournal \/ DispatcherStart \/ Stop \/ CloseJournal \/ Tick
  BY <1>3, Zenon DEF OpenJournal, DispatcherStart, Stop, CloseJournal, Tick
<1>4. ASSUME NEW m \in Msgs, ReapExpired(m) \/ SendNew(m) \/ SendDuplicate(m) PROVE UNCHANGED exec
  BY <1>4, Zenon DEF ReapExpired, SendNew, SendDuplicate
<1>5. ASSUME NEW r \in ReplyIds, ConsumeReply(r) PROVE UNCHANGED exec
  BY <1>5, Zenon DEF ConsumeReply
<1>6. CASE UNCHANGED vars
  BY <1>6 DEF vars
<1> QED
  BY <1>1, <1>2, <1>3, <1>4, <1>5, <1>6, Zenon DEF Next

\* No step starts a second execution of a recipient, or one too many.
LEMMA ExecutionNext ==
  ASSUME TypeOK, ExecutorOwnsRow, ExecutionBound, [Next]_vars
  PROVE  ExecutionBound'
<1> USE DEF TypeOK
<1> DEFINE A == ActiveExecutions
<1>a. IsFiniteSet(A) /\ Cardinality(A) \in Nat
  BY MessagesAssumption, FS_Subset, FS_CardinalityType DEF ActiveExecutions
<1>1. CASE UNCHANGED exec
  BY <1>1 DEF ExecutionBound, ActiveExecutions
<1>2. CASE A' \subseteq A
  <2>1. Cardinality(A') <= MaxConcurrent
    <3>1. Cardinality(A') \in Nat /\ Cardinality(A') <= Cardinality(A)
      BY <1>a, <1>2, FS_Subset, FS_CardinalityType
    <3> QED
      BY <1>a, <3>1, BoundsAssumption DEF ExecutionBound
  <2> QED
    BY <1>2, <2>1 DEF ExecutionBound
<1>3. ASSUME NEW m \in Msgs, DispatcherStep(m) PROVE A' \subseteq A
  <2>1. exec[m] # "idle" /\ \E e \in {"running", "timedOut", "settled", "idle"} : exec' = [exec EXCEPT ![m] = e]
    BY <1>3, ExecutorSteps
  <2> QED
    BY <2>1 DEF ActiveExecutions
<1>4. CASE Crash
  BY <1>2, <1>4 DEF Crash, ActiveExecutions
<1>5. CASE Pump
  <2>1. PICK i \in DOMAIN pending :
          FirstFree(i) /\ \E e \in {"gated", "settled"} : exec' = [exec EXCEPT ![pending[i]] = e]
    BY <1>5, Zenon DEF Pump
  <2>2. pending[i] \in Msgs /\ Recipient[pending[i]] \notin ActiveRecipients
    BY <2>1 DEF FirstFree
  <2>3. A' = A \cup {pending[i]}
    BY <2>1, <2>2 DEF ActiveExecutions
  <2>4. \A x \in A : Recipient[x] # Recipient[pending[i]]
    BY <2>2 DEF ActiveRecipients, ActiveExecutions
  <2>5. Cardinality(A) < MaxConcurrent
    BY <1>5 DEF Pump
  <2> HIDE DEF A
  <2>6. Cardinality(A \cup {pending[i]}) <= MaxConcurrent
    <3>1. Cardinality(A \cup {pending[i]})
            = IF pending[i] \in A THEN Cardinality(A) ELSE Cardinality(A) + 1
      BY <1>a, FS_AddElement
    <3> QED
      BY <1>a, <2>5, <3>1, BoundsAssumption
  <2>7. Cardinality(A') <= MaxConcurrent
    BY <2>3, <2>6
  <2>8. \A a, b \in A : Recipient[a] = Recipient[b] => a = b
    BY DEF ExecutionBound, A
  <2>9. \A a, b \in A' : Recipient[a] = Recipient[b] => a = b
    BY <2>3, <2>4, <2>8
  <2> QED
    BY <2>7, <2>9 DEF ExecutionBound, A
<1> QED
  BY <1>1, <1>2, <1>3, <1>4, <1>5, ExecutionSteps

-----------------------------------------------------------------------------
(* The dispatcher's memory.                                                *)

\* Compaction forgets only finished rows that are old, with all their replies,
\* and only replies that were read.
LEMMA CompactRows ==
  ASSUME TypeOK, NEW rows \in [Msgs -> Row], NEW adm,
         CompactIfDue(rows, adm) \/ Compact(rows, adm)
  PROVE  /\ \A x \in Msgs :
              \/ msg'[x] = rows[x]
              \/ /\ msg[x].phase \in {"completed", "failed"} /\ msg[x].age >= Retention
                 /\ msg'[x] = Absent /\ \A r \in ReplyIds : ~IsTo(reply'[r], x)
                 /\ \A r \in ReplyIds : IsTo(reply[r], x) => reply[r].consumed
         /\ \A r \in ReplyIds :
              \/ reply'[r] = reply[r]
              \/ reply[r] # None /\ reply[r].consumed /\ reply'[r] = None
<1> USE DEF TypeOK
<1>1. CASE Compact(rows, adm)
  <2>1. \A r \in ReplyIds : \/ reply'[r] = reply[r]
                            \/ reply[r] # None /\ reply[r].consumed /\ reply'[r] = None
    BY <1>1, Zenon DEF Compact, ReplyGone
  <2>2. ASSUME NEW x \in Msgs, MsgGone(x)
        PROVE  /\ msg[x].phase \in {"completed", "failed"} /\ msg[x].age >= Retention
               /\ msg'[x] = Absent /\ \A r \in ReplyIds : ~IsTo(reply'[r], x)
               /\ \A r \in ReplyIds : IsTo(reply[r], x) => reply[r].consumed
    <3>1. msg[x].phase \in {"completed", "failed"} /\ msg[x].age >= Retention /\ msg'[x] = Absent
      BY <1>1, <2>2 DEF MsgGone, Compact
    <3>2. ASSUME NEW r \in ReplyIds, IsTo(reply[r], x) PROVE reply'[r] = None /\ reply[r].consumed
      <4>1. ReplyGone(r)
        BY <2>2, <3>2 DEF MsgGone, RepliesTo, IsTo
      <4>2. reply' = [s \in ReplyIds |-> IF ReplyGone(s) THEN None ELSE reply[s]]
        BY <1>1 DEF Compact
      <4>3. reply'[r] = None
        BY <4>1, <4>2, Zenon
      <4> QED
        BY <4>1, <4>3, Zenon DEF ReplyGone
    <3>3. \A r \in ReplyIds : ~IsTo(reply'[r], x)
      BY <2>1, <3>2 DEF IsTo
    <3> QED
      BY <3>1, <3>2, <3>3
  <2>3. \A x \in Msgs : ~MsgGone(x) => msg'[x] = rows[x]
    BY <1>1 DEF Compact
  <2> QED
    BY <2>1, <2>2, <2>3
<1>2. CASE ~Compact(rows, adm)
  BY <1>2 DEF CompactIfDue
<1> QED
  BY <1>1, <1>2

Memory == ExecutorOwnsRow /\ DispatcherMemory /\ SettledIsFresh /\ NoLostWork

\* Before the service is up nothing is pending and nothing is executing.
LEMMA NothingRemembered ==
  ASSUME TypeOK, DispatcherMemory, svc \in {"down", "opened"}
  PROVE  Range(pending) = {} /\ \A m \in Msgs : exec[m] = "idle"
BY DEF DispatcherMemory, ActiveExecutions

\* A step that leaves the dispatcher's memory and the rows in flight alone, and
\* queues nothing, keeps the two in agreement.
LEMMA QuietMemory ==
  ASSUME TypeOK, Memory, UNCHANGED <<pending, inFlight, exec>>,
         svc' = svc \/ (svc = "down" /\ svc' = "opened"),
         \A x \in Runner :
           /\ x \in inFlight => \/ msg'[x].phase = msg[x].phase /\ (exec[x] = "settled" => msg'[x].age = msg[x].age)
                                \/ StorageFaults /\ exec[x] = "settled"
           /\ msg'[x].phase = "queued_local" => msg[x].phase = "queued_local" \/ StorageFaults
  PROVE  Memory'
<1> USE MessagesAssumption DEF TypeOK, Memory
<1>1. ActiveExecutions' = ActiveExecutions /\ Range(pending)' = Range(pending)
  BY DEF ActiveExecutions
<1>2. DispatcherMemory'
  <2>1. \A m \in Range(pending) : msg'[m].phase = "queued_local"
    <3> TAKE m \in Range(pending)
    <3>1. m \in Runner /\ m \in inFlight /\ exec[m] = "idle" /\ msg[m].phase = "queued_local"
      BY DEF DispatcherMemory
    <3> QED
      BY <3>1
  <2>2. Distinct(pending)'
    BY DEF DispatcherMemory, Distinct
  <2> QED
    BY <1>1, <2>1, <2>2 DEF DispatcherMemory
<1>3. ExecutorOwnsRow'
  <2> SUFFICES ASSUME NEW m \in Msgs, exec'[m] \in {"gated", "running", "timedOut"}
               PROVE  m \in Runner /\ msg'[m].phase = "executing"
    BY DEF ExecutorOwnsRow
  <2>1. m \in Runner /\ msg[m].phase = "executing" /\ m \in inFlight
    BY DEF ExecutorOwnsRow, DispatcherMemory, ActiveExecutions
  <2> QED
    BY <2>1
<1>4. SettledIsFresh'
  <2> SUFFICES ASSUME ~StorageFaults, NEW m \in Msgs, exec'[m] = "settled"
               PROVE  msg'[m].phase \in {"completed", "held"} /\ msg'[m].age = 0
    BY DEF SettledIsFresh
  <2>1. m \in Runner /\ m \in inFlight
    BY DEF DispatcherMemory, ActiveExecutions
  <2>2. msg[m].phase \in {"completed", "held"} /\ msg[m].age = 0
    BY DEF SettledIsFresh
  <2> QED
    BY <2>1, <2>2
<1>5. NoLostWork'
  BY <1>1 DEF NoLostWork
<1> QED
  BY <1>2, <1>3, <1>4, <1>5

\* So does one that queues a request nobody has in flight and notifies the
\* dispatcher of it.
LEMMA NotifiedMemory ==
  ASSUME TypeOK, Memory, NEW m \in Runner, m \notin inFlight,
         svc = "up", UNCHANGED <<svc, exec>>,
         pending' = Append(pending, m), inFlight' = inFlight \cup {m},
         msg'[m].phase = "queued_local",
         \A x \in Runner \ {m} :
           /\ x \in inFlight => \/ msg'[x].phase = msg[x].phase /\ (exec[x] = "settled" => msg'[x].age = msg[x].age)
                                \/ StorageFaults /\ exec[x] = "settled"
           /\ msg'[x].phase = "queued_local" => msg[x].phase = "queued_local" \/ StorageFaults
  PROVE  Memory'
<1> USE MessagesAssumption DEF TypeOK, Memory
<1>1. m \notin Range(pending) /\ exec[m] = "idle"
  BY DEF DispatcherMemory, ActiveExecutions
<1>2. Distinct(pending') /\ Range(pending') = Range(pending) \cup {m}
  BY <1>1, AppendToQueue DEF DispatcherMemory
<1>3. ActiveExecutions' = ActiveExecutions
  BY DEF ActiveExecutions
<1>4. DispatcherMemory'
  <2>1. \A x \in Range(pending') :
          x \in Runner /\ exec'[x] = "idle" /\ msg'[x].phase = "queued_local"
    <3> TAKE x \in Range(pending')
    <3>1. CASE x = m
      BY <1>1, <3>1
    <3>2. CASE x # m
      <4>1. x \in Runner /\ x \in inFlight /\ exec[x] = "idle" /\ msg[x].phase = "queued_local"
        BY <1>2, <3>2 DEF DispatcherMemory
      <4> QED
        BY <3>2, <4>1
    <3> QED
      BY <3>1, <3>2
  <2>2. inFlight' = Range(pending') \cup ActiveExecutions'
    BY <1>2, <1>3 DEF DispatcherMemory
  <2>3. Distinct(pending)' /\ Range(pending)' = Range(pending')
    BY <1>2 DEF Distinct
  <2>4. ActiveExecutions' \subseteq Runner
    BY <1>3 DEF DispatcherMemory
  <2> QED
    BY <2>1, <2>2, <2>3, <2>4 DEF DispatcherMemory
<1>5. ExecutorOwnsRow'
  <2> SUFFICES ASSUME NEW x \in Msgs, exec'[x] \in {"gated", "running", "timedOut"}
               PROVE  x \in Runner /\ msg'[x].phase = "executing"
    BY DEF ExecutorOwnsRow
  <2>1. x # m /\ x \in Runner /\ msg[x].phase = "executing" /\ x \in inFlight
    BY <1>1 DEF ExecutorOwnsRow, DispatcherMemory, ActiveExecutions
  <2> QED
    BY <2>1
<1>6. SettledIsFresh'
  <2> SUFFICES ASSUME ~StorageFaults, NEW x \in Msgs, exec'[x] = "settled"
               PROVE  msg'[x].phase \in {"completed", "held"} /\ msg'[x].age = 0
    BY DEF SettledIsFresh
  <2>1. x # m /\ x \in Runner /\ x \in inFlight
    BY <1>1 DEF DispatcherMemory, ActiveExecutions
  <2>2. msg[x].phase \in {"completed", "held"} /\ msg[x].age = 0
    BY DEF SettledIsFresh
  <2> QED
    BY <2>1, <2>2
<1>7. NoLostWork'
  <2> SUFFICES ASSUME ~StorageFaults, NEW x \in Runner, msg'[x].phase = "queued_local"
               PROVE  x \in Range(pending')
    BY DEF NoLostWork
  <2>1. CASE x = m
    BY <1>2, <2>1
  <2>2. CASE x # m
    BY <1>2, <2>2 DEF NoLostWork
  <2> QED
    BY <2>1, <2>2
<1> QED
  BY <1>4, <1>5, <1>6, <1>7

\* Compaction touches no row in flight, unless a storage failure left it
\* unsettled.
LEMMA CompactSparesFlight ==
  ASSUME TypeOK, Memory, NEW rows \in [Msgs -> Row], NEW adm,
         CompactIfDue(rows, adm) \/ Compact(rows, adm), NEW x \in Msgs
  PROVE  \/ msg'[x] = rows[x]
         \/ /\ msg[x].phase \notin {"queued_local", "executing", "absent"} /\ msg'[x].phase = "absent"
            /\ x \in inFlight => StorageFaults /\ exec[x] = "settled"
<1> USE DEF TypeOK, Memory
<1>1. SUFFICES ASSUME msg[x].phase \in {"completed", "failed"}, msg[x].age >= Retention, msg'[x] = Absent
               PROVE  x \in inFlight => StorageFaults /\ exec[x] = "settled"
  BY CompactRows, NewRows
<1>2. SUFFICES ASSUME x \in inFlight PROVE StorageFaults /\ exec[x] = "settled"
  OBVIOUS
<1>3. exec[x] = "settled"
  BY <1>1, <1>2 DEF DispatcherMemory, ExecutorOwnsRow, ActiveExecutions
<1>4. msg[x].age # 0
  BY <1>1, BoundsAssumption
<1>5. StorageFaults
  BY <1>3, <1>4, Zenon DEF SettledIsFresh
<1> QED
  BY <1>3, <1>5

\* Every step keeps the dispatcher's memory in agreement with the rows.
LEMMA MemoryNext ==
  ASSUME TypeOK, Memory, [Next]_vars
  PROVE  Memory'
<1> USE MessagesAssumption DEF TypeOK
<1>1. CASE OpenJournal
  <2>1. \A x \in Msgs : msg'[x] = Recovered(msg[x])
    BY <1>1 DEF OpenJournal
  <2>2. inFlight = {}
    BY <1>1 DEF OpenJournal, Memory, DispatcherMemory
  <2>3. \A x \in Runner : msg'[x].phase = "queued_local" => msg[x].phase = "queued_local"
    BY <2>1, RecoveredRow
  <2> QED
    BY <1>1, <2>2, <2>3, QuietMemory DEF OpenJournal
<1>2. CASE DispatcherStart
  <2> DEFINE toRun == {m \in Runner : msg[m].phase = "queued_local"}
             rows == [m \in Msgs |-> Recovered(msg[m])]
  <2>1. /\ svc = "opened" /\ svc' = "up" /\ exec' = exec /\ inFlight' = toRun
        /\ \E q \in SetToSeqs(toRun) : pending' = q
        /\ Compact(rows, admission)
    BY <1>2 DEF DispatcherStart
  <2>2. rows \in [Msgs -> Row]
    BY RecoveredRow
  <2>3. IsFiniteSet(toRun)
    BY FS_Subset
  <2>4. Range(pending') = toRun /\ Distinct(pending')
    BY <2>1, <2>3, OrderOfSet DEF Distinct
  <2>5. \A m \in Msgs : exec[m] = "idle" /\ exec'[m] = "idle"
    BY <2>1, NothingRemembered DEF Memory
  <2>6. \A x \in Runner : (msg'[x].phase = "queued_local") <=> (x \in toRun)
    <3> TAKE x \in Runner
    <3>1. \/ msg'[x] = Recovered(msg[x])
          \/ msg[x].phase \notin {"queued_local", "executing", "absent"} /\ msg'[x].phase = "absent"
      BY <2>1, <2>2, CompactSparesFlight
    <3> QED
      BY <3>1, RecoveredRow
  <2>7. ActiveExecutions' = {}
    BY <2>5 DEF ActiveExecutions
  <2> HIDE DEF toRun
  <2>8. toRun \subseteq Runner
    BY DEF toRun
  <2>9. DispatcherMemory'
    <3>1. \A m \in Range(pending') : m \in Runner /\ exec'[m] = "idle" /\ msg'[m].phase = "queued_local"
      BY <2>4, <2>5, <2>6, <2>8
    <3>2. Distinct(pending)' /\ Range(pending)' = Range(pending')
      BY <2>4 DEF Distinct
    <3> QED
      BY <2>1, <2>4, <2>7, <3>1, <3>2 DEF DispatcherMemory
  <2>10. ExecutorOwnsRow' /\ SettledIsFresh'
    BY <2>5 DEF ExecutorOwnsRow, SettledIsFresh
  <2>11. NoLostWork'
    BY <2>4, <2>6 DEF NoLostWork
  <2> QED
    BY <2>9, <2>10, <2>11 DEF Memory
<1>3. ASSUME NEW m \in Msgs, SendNew(m) PROVE Memory'
  <2> DEFINE rows == [msg EXCEPT ![m] = Queued]
             adm  == [admission EXCEPT ![m] = 0]
  <2>1. rows \in [Msgs -> Row] /\ rows[m].phase = "queued_local"
    BY NewRows
  <2>2. CompactIfDue(rows, adm) \/ msg' = rows
    BY <1>3 DEF SendNew
  <2>3. msg[m].phase = "absent" /\ svc = "up" /\ svc' = "up" /\ exec' = exec /\ NotifyAdmission(m)
    BY <1>3 DEF SendNew
  <2>4. \A x \in Msgs :
          \/ msg'[x] = rows[x]
          \/ /\ msg[x].phase \notin {"queued_local", "executing", "absent"} /\ msg'[x].phase = "absent"
             /\ x \in inFlight => StorageFaults /\ exec[x] = "settled"
    BY <2>1, <2>2, CompactSparesFlight
  <2>5. msg'[m].phase = "queued_local"
    BY <2>1, <2>3, <2>4
  <2>6. ASSUME NEW x \in Runner \ {m}
        PROVE  /\ x \in inFlight => \/ msg'[x].phase = msg[x].phase /\ (exec[x] = "settled" => msg'[x].age = msg[x].age)
                                    \/ StorageFaults /\ exec[x] = "settled"
               /\ msg'[x].phase = "queued_local" => msg[x].phase = "queued_local" \/ StorageFaults
    BY <2>4
  <2>7. CASE m \in Runner /\ m \notin inFlight
    <3>1. pending' = Append(pending, m) /\ inFlight' = inFlight \cup {m}
      BY <2>3, <2>7 DEF NotifyAdmission
    <3> QED
      BY <2>3, <2>5, <2>6, <2>7, <3>1, NotifiedMemory
  <2>8. CASE ~(m \in Runner /\ m \notin inFlight)
    <3>1. pending' = pending /\ inFlight' = inFlight
      BY <2>3, <2>8 DEF NotifyAdmission
    <3>2. ASSUME m \in Runner PROVE StorageFaults /\ exec[m] = "settled"
      <4>1. exec[m] = "settled"
        BY <2>3, <2>8, <3>2 DEF Memory, DispatcherMemory, ExecutorOwnsRow, ActiveExecutions
      <4>2. StorageFaults
        <5>1. msg[m].phase \notin {"completed", "held"}
          BY <2>3
        <5> QED
          BY <4>1, <5>1, Zenon DEF Memory, SettledIsFresh
      <4> QED
        BY <4>1, <4>2
    <3> QED
      BY <2>3, <2>6, <3>1, <3>2, QuietMemory
  <2> QED
    BY <2>7, <2>8
<1>4. ASSUME NEW m \in Msgs, SendDuplicate(m) PROVE Memory'
  <2>1. /\ svc = "up" /\ svc' = "up" /\ exec' = exec /\ NotifyAdmission(m)
        /\ m \in Runner /\ msg[m].phase = "queued_local"
    BY <1>4 DEF SendDuplicate
  <2>2. CompactIfDue(msg, admission) \/ msg' = msg
    BY <1>4 DEF SendDuplicate
  <2>3. \A x \in Msgs :
          \/ msg'[x] = msg[x]
          \/ /\ msg[x].phase \notin {"queued_local", "executing", "absent"} /\ msg'[x].phase = "absent"
             /\ x \in inFlight => StorageFaults /\ exec[x] = "settled"
    BY <2>2, CompactSparesFlight
  <2>4. msg'[m].phase = "queued_local"
    BY <2>1, <2>3
  <2>5. ASSUME NEW x \in Runner
        PROVE  /\ x \in inFlight => \/ msg'[x].phase = msg[x].phase /\ (exec[x] = "settled" => msg'[x].age = msg[x].age)
                                    \/ StorageFaults /\ exec[x] = "settled"
               /\ msg'[x].phase = "queued_local" => msg[x].phase = "queued_local" \/ StorageFaults
    BY <2>3
  <2>6. CASE m \notin inFlight
    <3>1. pending' = Append(pending, m) /\ inFlight' = inFlight \cup {m}
      BY <2>1, <2>6 DEF NotifyAdmission
    <3> QED
      BY <2>1, <2>4, <2>5, <2>6, <3>1, NotifiedMemory
  <2>7. CASE m \in inFlight
    <3>1. pending' = pending /\ inFlight' = inFlight
      BY <2>1, <2>7 DEF NotifyAdmission
    <3> QED
      BY <2>1, <2>5, <3>1, QuietMemory
  <2> QED
    BY <2>6, <2>7
<1>5. CASE Pump
  <2>1. PICK i \in DOMAIN pending :
          /\ pending' = RemoveAt(pending, i)
          /\ \/ /\ msg' = [msg EXCEPT ![pending[i]] = Moved(@, "executing")]
                /\ exec' = [exec EXCEPT ![pending[i]] = "gated"]
             \/ /\ ~ClaimExecution(pending[i]) \/ StorageFaults
                /\ exec' = [exec EXCEPT ![pending[i]] = "settled"]
                /\ msg' = msg
    BY <1>5, Zenon DEF Pump
  <2> DEFINE m == pending[i]
  <2>2. m \in Msgs /\ m \in Range(pending)
    BY DEF Range
  <2>3. m \in Runner /\ exec[m] = "idle" /\ msg[m].phase = "queued_local"
    BY <2>2 DEF Memory, DispatcherMemory
  <2>4. Distinct(pending') /\ Range(pending') = Range(pending) \ {m}
    BY <2>1, RemoveFromQueue DEF Memory, DispatcherMemory
  <2>5. svc = "up" /\ svc' = "up" /\ inFlight' = inFlight
    BY <1>5 DEF Pump
  <2>6. \/ /\ msg'[m].phase = "executing" /\ exec' = [exec EXCEPT ![m] = "gated"]
           /\ \A x \in Msgs \ {m} : msg'[x] = msg[x]
        \/ /\ StorageFaults /\ exec' = [exec EXCEPT ![m] = "settled"]
           /\ msg' = msg
    <3>1. ClaimExecution(m)
      BY <2>3 DEF ClaimExecution
    <3>2. Moved(msg[m], "executing").phase = "executing"
      BY <2>2, MovedRow DEF Phases
    <3>3. CASE /\ msg' = [msg EXCEPT ![pending[i]] = Moved(@, "executing")]
               /\ exec' = [exec EXCEPT ![pending[i]] = "gated"]
      BY <2>2, <3>2, <3>3
    <3>4. CASE /\ ~ClaimExecution(pending[i]) \/ StorageFaults
               /\ exec' = [exec EXCEPT ![pending[i]] = "settled"]
               /\ msg' = msg
      BY <3>1, <3>4, Zenon
    <3> QED
      BY <2>1, <3>3, <3>4
  <2> HIDE DEF m
  <2>7. ActiveExecutions' = ActiveExecutions \cup {m}
    BY <2>2, <2>6 DEF ActiveExecutions
  <2>8. DispatcherMemory'
    <3>1. ASSUME NEW x \in Range(pending')
          PROVE  x \in Runner /\ exec'[x] = "idle" /\ msg'[x].phase = "queued_local"
      <4>1. x # m /\ x \in Runner /\ exec[x] = "idle" /\ msg[x].phase = "queued_local"
        BY <2>4 DEF Memory, DispatcherMemory
      <4> QED
        BY <2>6, <4>1
    <3>2. inFlight' = Range(pending') \cup ActiveExecutions'
      BY <2>2, <2>4, <2>5, <2>7 DEF Memory, DispatcherMemory
    <3>3. ActiveExecutions' \subseteq Runner
      BY <2>3, <2>7 DEF Memory, DispatcherMemory
    <3>4. Distinct(pending)' /\ Range(pending)' = Range(pending')
      BY <2>4 DEF Distinct
    <3> QED
      BY <2>5, <3>1, <3>2, <3>3, <3>4 DEF DispatcherMemory
  <2>9. ExecutorOwnsRow'
    BY <2>3, <2>6 DEF Memory, ExecutorOwnsRow
  <2>10. SettledIsFresh'
    <3> SUFFICES ASSUME ~StorageFaults, NEW x \in Msgs, exec'[x] = "settled"
                 PROVE  msg'[x].phase \in {"completed", "held"} /\ msg'[x].age = 0
      BY DEF SettledIsFresh
    <3>1. x # m /\ exec[x] = "settled" /\ msg'[x] = msg[x]
      BY <2>2, <2>6
    <3> QED
      BY <3>1 DEF Memory, SettledIsFresh
  <2>11. NoLostWork'
    <3> SUFFICES ASSUME ~StorageFaults, NEW x \in Runner, msg'[x].phase = "queued_local"
                 PROVE  x \in Range(pending')
      BY DEF NoLostWork
    <3>1. x # m /\ msg'[x] = msg[x]
      BY <2>2, <2>6
    <3> QED
      BY <2>4, <2>5, <3>1 DEF Memory, NoLostWork
  <2> QED
    BY <2>8, <2>9, <2>10, <2>11 DEF Memory
<1>6. ASSUME NEW m \in Msgs, DispatcherStep(m) PROVE Memory'
  <2>a. m \in Runner /\ m \in inFlight /\ m \notin Range(pending)
    BY <1>6, ExecutorSteps DEF Memory, DispatcherMemory, ActiveExecutions
  <2>b. UNCHANGED <<svc, pending>> /\ Range(pending)' = Range(pending) /\ Distinct(pending)'
    BY <1>6, ExecutorSteps DEF Memory, DispatcherMemory, Distinct
  <2>1. CASE /\ exec[m] \in {"gated", "running"}
             /\ \E e \in {"running", "timedOut"} : exec' = [exec EXCEPT ![m] = e]
             /\ UNCHANGED <<msg, reply, inFlight>>
    <3>1. ActiveExecutions' = ActiveExecutions
      BY <2>1 DEF ActiveExecutions
    <3>2. DispatcherMemory'
      BY <2>a, <2>b, <2>1, <3>1 DEF Memory, DispatcherMemory
    <3>3. ExecutorOwnsRow' /\ SettledIsFresh'
      BY <2>1 DEF Memory, ExecutorOwnsRow, SettledIsFresh
    <3>4. NoLostWork'
      BY <2>b, <2>1 DEF Memory, NoLostWork
    <3> QED
      BY <3>2, <3>3, <3>4 DEF Memory
  <2>2. CASE /\ exec[m] \in {"gated", "running", "timedOut"}
             /\ exec' = [exec EXCEPT ![m] = "settled"]
             /\ msg[m].phase = "executing" /\ Outcome(m)
             /\ UNCHANGED inFlight
    <3>1. /\ \A x \in Msgs \ {m} : msg'[x] = msg[x]
          /\ \/ msg'[m].phase \in {"completed", "held"} /\ msg'[m].age = 0
             \/ StorageFaults /\ msg'[m] = msg[m]
      <4>1. Moved(msg[m], "completed").phase = "completed" /\ Moved(msg[m], "completed").age = 0
        BY MovedRow DEF Phases
      <4>2. Held(msg[m]).phase = "held" /\ Held(msg[m]).age = 0
        BY HeldRow
      <4>3. \A t \in Texts : HeldWith(msg[m], t).phase = "held" /\ HeldWith(msg[m], t).age = 0
        BY HeldWithRow
      <4>4. \/ msg' = [msg EXCEPT ![m] = Moved(@, "completed")]
            \/ msg' = [msg EXCEPT ![m] = Held(@)]
            \/ \E t \in Texts : msg' = [msg EXCEPT ![m] = HeldWith(@, t)]
            \/ StorageFaults /\ msg' = msg
        BY <2>2, Zenon DEF Outcome
      <4> QED
        BY <4>1, <4>2, <4>3, <4>4
    <3>2. ActiveExecutions' = ActiveExecutions
      BY <2>2 DEF ActiveExecutions
    <3>3. DispatcherMemory'
      BY <2>a, <2>b, <2>2, <3>1, <3>2 DEF Memory, DispatcherMemory
    <3>4. ExecutorOwnsRow'
      BY <2>2, <3>1 DEF Memory, ExecutorOwnsRow
    <3>5. SettledIsFresh'
      BY <2>2, <3>1 DEF Memory, SettledIsFresh
    <3>6. NoLostWork'
      BY <2>b, <2>2, <3>1 DEF Memory, NoLostWork
    <3> QED
      BY <3>3, <3>4, <3>5, <3>6 DEF Memory
  <2>3. CASE /\ exec[m] = "settled"
             /\ exec' = [exec EXCEPT ![m] = "idle"]
             /\ inFlight' = inFlight \ {m}
             /\ UNCHANGED <<msg, reply>>
    <3>1. ActiveExecutions' = ActiveExecutions \ {m}
      BY <2>3 DEF ActiveExecutions
    <3>2. DispatcherMemory'
      BY <2>a, <2>b, <2>3, <3>1 DEF Memory, DispatcherMemory
    <3>3. ExecutorOwnsRow' /\ SettledIsFresh'
      BY <2>3 DEF Memory, ExecutorOwnsRow, SettledIsFresh
    <3>4. NoLostWork'
      BY <2>b, <2>3 DEF Memory, NoLostWork
    <3> QED
      BY <3>2, <3>3, <3>4 DEF Memory
  <2> QED
    BY <1>6, <2>1, <2>2, <2>3, ExecutorSteps DEF Memory
<1>7. CASE Stop
  <2>1. /\ svc' = "stopping" /\ pending' = <<>> /\ inFlight' = inFlight \ Range(pending)
        /\ UNCHANGED <<msg, exec>>
    BY <1>7 DEF Stop
  <2>2. Range(<<>>) = {} /\ Distinct(<<>>)
    BY DEF Range, Distinct
  <2>3. ActiveExecutions' = ActiveExecutions /\ ActiveExecutions \cap Range(pending) = {}
    BY <2>1 DEF Memory, DispatcherMemory, ActiveExecutions
  <2>4. Range(pending)' = {} /\ Distinct(pending)'
    BY <2>1, <2>2 DEF Distinct
  <2>5. DispatcherMemory'
    BY <2>1, <2>3, <2>4 DEF Memory, DispatcherMemory
  <2> QED
    BY <2>1, <2>5 DEF Memory, ExecutorOwnsRow, SettledIsFresh, NoLostWork
<1>8. CASE CloseJournal
  <2>1. /\ svc = "stopping" /\ svc' = "down" /\ ActiveExecutions = {} /\ inFlight' = {}
        /\ UNCHANGED <<msg, exec, pending>>
    BY <1>8 DEF CloseJournal
  <2>2. Range(pending) = {} /\ Range(pending)' = Range(pending) /\ Distinct(pending)'
    BY <2>1 DEF Memory, DispatcherMemory, Range, Distinct
  <2>3. ActiveExecutions' = {}
    BY <2>1 DEF ActiveExecutions
  <2>4. DispatcherMemory'
    BY <2>1, <2>2, <2>3 DEF Memory, DispatcherMemory
  <2> QED
    BY <2>1, <2>4 DEF Memory, ExecutorOwnsRow, SettledIsFresh, NoLostWork
<1>9. CASE Crash
  <2>1. /\ svc' = "down" /\ pending' = <<>> /\ inFlight' = {}
        /\ \A m \in Msgs : exec'[m] = "idle"
    BY <1>9 DEF Crash
  <2>2. Range(<<>>) = {} /\ Distinct(<<>>)
    BY DEF Range, Distinct
  <2>3. Range(pending)' = {} /\ Distinct(pending)' /\ ActiveExecutions' = {}
    BY <2>1, <2>2 DEF Distinct, ActiveExecutions
  <2>4. DispatcherMemory'
    BY <2>1, <2>3 DEF DispatcherMemory
  <2> QED
    BY <2>1, <2>4 DEF Memory, ExecutorOwnsRow, SettledIsFresh, NoLostWork
<1>10. ASSUME NEW c \in Chats, ChatStep(c) PROVE Memory'
  <2>1. UNCHANGED <<svc, pending, inFlight, exec>>
    BY <1>10, Zenon DEF ChatStep, ClaimInboxMessage, RetryClaim, ChatReply
  <2>2. \A x \in Runner : msg'[x] = msg[x]
    <3>1. ASSUME NEW m \in Msgs, NEW op \in Ops, NEW tok \in Tokens, ClaimInboxMessage(c, m, op, tok)
          PROVE  \A x \in Runner : msg'[x] = msg[x]
      BY <3>1 DEF ClaimInboxMessage, Interactive
    <3>2. ASSUME NEW m \in Msgs, NEW op \in Ops, RetryClaim(c, m, op)
          PROVE  \A x \in Runner : msg'[x] = msg[x]
      BY <3>2 DEF RetryClaim
    <3>3. ASSUME NEW m \in Msgs, NEW t \in Says[c], NEW r \in ReplyIds, ChatReply(c, m, t, r)
          PROVE  \A x \in Runner : msg'[x] = msg[x]
      BY <3>3 DEF ChatReply, Interactive
    <3> QED
      BY <1>10, <3>1, <3>2, <3>3 DEF ChatStep
  <2> QED
    BY <2>1, <2>2, QuietMemory
<1>11. ASSUME NEW m \in Msgs, ReapExpired(m) PROVE Memory'
  <2>1. \A x \in Runner : msg'[x] = msg[x]
    BY <1>11 DEF ReapExpired, Interactive
  <2> QED
    BY <1>11, <2>1, QuietMemory DEF ReapExpired
<1>12. ASSUME NEW r \in ReplyIds, ConsumeReply(r) PROVE Memory'
  BY <1>12, QuietMemory DEF ConsumeReply
<1>13. CASE OwnerStep
  <2>1. ASSUME NEW m \in Msgs, ListHeld(m) PROVE Memory'
    BY <2>1, QuietMemory DEF ListHeld
  <2>2. ASSUME NEW id \in ReconcileIds, NEW m \in Msgs, NEW a \in Actions, NEW r \in ReplyIds,
               Reconcile(id, m, a, r)
        PROVE  Memory'
    <3>1. svc = "down" /\ UNCHANGED <<svc, pending, inFlight, exec>>
      BY <2>2 DEF Reconcile
    <3>2. inFlight = {}
      BY <3>1 DEF Memory, DispatcherMemory
    <3>3. \A x \in Msgs : msg'[x] = IF x # m THEN Recovered(msg[x])
                                    ELSE Closed(msg[m], IF a = "mark-failed" THEN "failed" ELSE "completed")
      BY <2>2 DEF Reconcile
    <3>4. \A x \in Runner : msg'[x].phase = "queued_local" => msg[x].phase = "queued_local"
      <4> DEFINE p == IF a = "mark-failed" THEN "failed" ELSE "completed"
      <4>1. p \in Phases /\ p # "queued_local"
        BY DEF Phases
      <4> HIDE DEF p
      <4>2. Closed(msg[m], p).phase # "queued_local"
        BY <4>1, ClosedRow
      <4>3. msg'[m].phase # "queued_local"
        BY <3>3, <4>2 DEF p
      <4> QED
        BY <3>3, <4>3, RecoveredRow
    <3> QED
      BY <3>1, <3>2, <3>4, QuietMemory
  <2> QED
    BY <1>13, <2>1, <2>2 DEF OwnerStep
<1>14. CASE Tick
  <2>1. \A x \in Msgs : msg'[x] = Aged(msg[x]) /\ exec[x] # "settled"
    BY <1>14 DEF Tick, Aged
  <2>2. \A x \in Msgs : msg'[x].phase = msg[x].phase
    BY <2>1, AgedRow
  <2> QED
    BY <1>14, <2>1, <2>2, QuietMemory DEF Tick
<1>15. CASE UNCHANGED vars
  BY <1>15, QuietMemory DEF vars
<1> QED
  BY <1>1, <1>2, <1>3, <1>4, <1>5, <1>6, <1>7, <1>8, <1>9, <1>10, <1>11, <1>12, <1>13, <1>14, <1>15
     DEF Next

-----------------------------------------------------------------------------
(* The course of one request.                                              *)

SameReplies(m) ==
  \A r \in ReplyIds :
    /\ IsTo(reply'[r], m) <=> IsTo(reply[r], m)
    /\ IsTo(reply[r], m) => /\ reply'[r].text = reply[r].text
                            /\ reply'[r].owner = reply[r].owner
                            /\ reply'[r].consumed = reply[r].consumed
ReadReplies(m) ==
  \A r \in ReplyIds :
    /\ IsTo(reply'[r], m) <=> IsTo(reply[r], m)
    /\ IsTo(reply[r], m) => /\ reply'[r].text = reply[r].text
                            /\ reply'[r].owner = reply[r].owner
                            /\ reply'[r].consumed = TRUE
GoneReplies(m) ==
  \A r \in ReplyIds : ~IsTo(reply'[r], m) /\ (IsTo(reply[r], m) => reply[r].consumed = TRUE)
NewAnswer(m, t, byOwner) ==
  /\ Unanswered(m)
  /\ \E r \in ReplyIds :
       /\ IsTo(reply'[r], m) /\ reply'[r].text = t
       /\ reply'[r].owner = byOwner /\ reply'[r].consumed = FALSE
       /\ \A s \in ReplyIds : IsTo(reply'[s], m) => s = r

Evidence(m) == msg'[m].late = msg[m].late /\ msg'[m].claim = msg[m].claim

Stays(m) ==
  /\ msg'[m].phase = msg[m].phase /\ Evidence(m)
  /\ SameReplies(m) \/ ReadReplies(m) \/ GoneReplies(m)
Forgotten(m) ==
  /\ msg[m].phase \in {"completed", "failed"} /\ msg'[m] = Absent /\ GoneReplies(m)
Admitted(m) ==
  msg[m].phase = "absent" /\ msg'[m] = Queued /\ SameReplies(m)
Begun(m) ==
  /\ msg[m].phase = "queued_local" /\ msg'[m].phase = "executing"
  /\ msg'[m].late = msg[m].late /\ SameReplies(m)
  /\ m \in Runner \/ msg'[m].claim # None
Finished(m) ==
  /\ msg[m].phase = "executing" /\ msg'[m].phase = "completed" /\ Evidence(m)
  /\ \E t \in Texts : /\ NewAnswer(m, t, FALSE)
                      /\ m \in Runner \/ (msg[m].claim # None /\ t \in Says[msg[m].claim.chat])
PutOnHold(m) ==
  /\ msg[m].phase \in {"executing", "held"} /\ msg'[m].phase = "held"
  /\ msg'[m].claim = msg[m].claim /\ SameReplies(m)
  /\ \/ msg'[m].late = msg[m].late
     \/ m \in Runner
     \/ msg[m].claim # None /\ msg'[m].late \in Says[msg[m].claim.chat]
OwnerClosed(m) ==
  /\ msg[m].phase = "held" /\ msg'[m].late = None /\ msg'[m].claim = msg[m].claim
  /\ \/ msg'[m].phase = "failed" /\ Unanswered(m) /\ SameReplies(m)
     \/ /\ msg'[m].phase = "completed" /\ msg[m].late \in Texts
        /\ NewAnswer(m, msg[m].late, TRUE)
     \/ msg'[m].phase = "completed" /\ ~Unanswered(m) /\ SameReplies(m)

\* What a step may do to a request.
Course(m) ==
  \/ Stays(m) \/ Forgotten(m) \/ Admitted(m) \/ Begun(m) \/ Finished(m)
  \/ PutOnHold(m) \/ OwnerClosed(m)

\* A step that leaves the reply table alone leaves every request's replies.
LEMMA RepliesUnchanged == ASSUME UNCHANGED reply PROVE \A m : SameReplies(m)
BY Zenon DEF SameReplies

\* A new reply answers its request and no other.
LEMMA ReplyAdded ==
  ASSUME TypeOK, NEW m \in Msgs, NEW t \in Texts, NEW o \in BOOLEAN, NEW r \in ReplyIds,
         reply[r] = None, Unanswered(m),
         reply' = [reply EXCEPT ![r] = NewReply(m, t, o)]
  PROVE  NewAnswer(m, t, o) /\ \A x \in Msgs \ {m} : SameReplies(x)
<1> USE DEF TypeOK
<1>1. reply'[r] = NewReply(m, t, o) /\ \A s \in ReplyIds \ {r} : reply'[s] = reply[s]
  OBVIOUS
<1>a. /\ NewReply(m, t, o) # None /\ NewReply(m, t, o).of = m
      /\ NewReply(m, t, o).text = t /\ NewReply(m, t, o).owner = o
      /\ NewReply(m, t, o).consumed = FALSE
  <2>1. NewReply(m, t, o) \in ReplyRow
    BY BoundsAssumption DEF NewReply, ReplyRow
  <2>2. NewReply(m, t, o) # None
    BY <2>1, NoneAssumption
  <2> QED
    BY <2>2, Zenon DEF NewReply
<1>2. IsTo(reply'[r], m) /\ \A x : IsTo(reply'[r], x) => x = m
  BY <1>1, <1>a, Zenon DEF IsTo
<1>3. reply'[r].text = t /\ reply'[r].owner = o /\ reply'[r].consumed = FALSE
  BY <1>1, <1>a, Zenon
<1>4. NewAnswer(m, t, o)
  <2>1. \A s \in ReplyIds : IsTo(reply'[s], m) => s = r
    BY <1>1 DEF Unanswered
  <2> QED
    BY <1>2, <1>3, <2>1, Zenon DEF NewAnswer
<1>5. ASSUME NEW x \in Msgs \ {m} PROVE SameReplies(x)
  <2>1. ~IsTo(reply[r], x) /\ ~IsTo(reply'[r], x)
    BY <1>2 DEF IsTo
  <2> QED
    BY <1>1, <2>1, Zenon DEF SameReplies
<1> QED
  BY <1>4, <1>5

\* Compaction forgets all replies to a request or none.
LEMMA CompactReplies ==
  ASSUME TypeOK, OneReply, NEW rows \in [Msgs -> Row], NEW adm,
         CompactIfDue(rows, adm) \/ Compact(rows, adm), NEW x \in Msgs
  PROVE  /\ \/ msg'[x] = rows[x] /\ (SameReplies(x) \/ GoneReplies(x))
            \/ Forgotten(x)
         /\ Unanswered(x) => SameReplies(x)
<1>1. \A r \in ReplyIds : \/ reply'[r] = reply[r]
                          \/ reply[r] # None /\ reply[r].consumed /\ reply'[r] = None
  BY CompactRows
<1>2. \A r \in ReplyIds : reply[r] # None /\ reply[r].consumed => reply[r].consumed = TRUE
  <2> TAKE r \in ReplyIds
  <2>1. reply[r] # None => reply[r].consumed \in BOOLEAN
    BY Zenon DEF TypeOK, ReplyRow
  <2> QED
    BY <2>1
<1>5. msg'[x] = rows[x] \/ Forgotten(x)
  <2>1. SUFFICES ASSUME msg[x].phase \in {"completed", "failed"}, msg'[x] = Absent,
                        \A r \in ReplyIds : ~IsTo(reply'[r], x),
                        \A r \in ReplyIds : IsTo(reply[r], x) => reply[r].consumed
                 PROVE  Forgotten(x)
    BY CompactRows
  <2>2. GoneReplies(x)
    BY <1>2, <2>1, Zenon DEF GoneReplies, IsTo
  <2> QED
    BY <2>1, <2>2 DEF Forgotten
<1>3. CASE \A r \in ReplyIds : IsTo(reply[r], x) => reply'[r] = reply[r]
  <2>1. SameReplies(x)
    <3>1. ASSUME NEW r \in ReplyIds PROVE IsTo(reply'[r], x) <=> IsTo(reply[r], x)
      BY <1>1, <1>3, Zenon DEF IsTo
    <3> QED
      BY <1>3, <3>1, Zenon DEF SameReplies
  <2> QED
    BY <1>5, <2>1
<1>4. CASE \E r \in ReplyIds : IsTo(reply[r], x) /\ reply'[r] # reply[r]
  <2>1. PICK r \in ReplyIds : IsTo(reply[r], x) /\ reply'[r] # reply[r]
    BY <1>4
  <2>2. reply'[r] = None /\ reply[r].consumed = TRUE
    BY <1>1, <1>2, <2>1, Zenon
  <2>3. \A s \in ReplyIds : IsTo(reply[s], x) => s = r
    BY <2>1 DEF OneReply, IsTo
  <2>4. \A s \in ReplyIds : IsTo(reply'[s], x) => IsTo(reply[s], x) /\ s # r
    BY <1>1, <2>2, Zenon DEF IsTo
  <2>5. GoneReplies(x)
    BY <2>2, <2>3, <2>4, Zenon DEF GoneReplies
  <2>6. ~Unanswered(x)
    BY <2>1 DEF Unanswered
  <2> QED
    BY <1>5, <2>5, <2>6
<1> QED
  BY <1>3, <1>4

\* A request whose row and replies a step leaves alone stays as it is.
LEMMA UntouchedStays ==
  ASSUME NEW x, msg'[x] = msg[x], SameReplies(x)
  PROVE  Course(x)
BY DEF Course, Stays, Evidence

\* Every step takes every request along one of these courses.
LEMMA CourseNext ==
  ASSUME TypeOK, Memory, RowShape, OneReply, [Next]_vars
  PROVE  \A x \in Msgs : Course(x)
<1> TAKE x \in Msgs
<1> USE MessagesAssumption DEF TypeOK
<1>a. msg[x] \in Row
  OBVIOUS
<1>1. CASE OpenJournal
  <2>1. msg'[x] = Recovered(msg[x]) /\ UNCHANGED reply
    BY <1>1 DEF OpenJournal
  <2>2. SameReplies(x)
    BY <2>1, RepliesUnchanged
  <2>3. CASE msg[x].phase = "executing"
    BY <1>a, <2>1, <2>2, <2>3, RecoveredRow DEF Course, PutOnHold
  <2>4. CASE msg[x].phase # "executing"
    BY <2>1, <2>2, <2>4, UntouchedStays DEF Recovered
  <2> QED
    BY <2>3, <2>4
<1>2. CASE DispatcherStart
  <2> DEFINE rows == [m \in Msgs |-> Recovered(msg[m])]
  <2>1. rows \in [Msgs -> Row] /\ Compact(rows, admission)
    BY <1>2, RecoveredRow DEF DispatcherStart
  <2>2. /\ \/ msg'[x] = rows[x] /\ (SameReplies(x) \/ GoneReplies(x))
           \/ Forgotten(x)
        /\ Unanswered(x) => SameReplies(x)
    BY <2>1, CompactReplies
  <2>3. CASE Forgotten(x)
    BY <2>3 DEF Course
  <2>4. CASE msg'[x] = Recovered(msg[x]) /\ msg[x].phase = "executing"
    <3>1. SameReplies(x)
      BY <2>2, <2>4 DEF RowShape
    <3> QED
      BY <1>a, <2>4, <3>1, RecoveredRow DEF Course, PutOnHold
  <2>5. CASE /\ msg'[x] = Recovered(msg[x]) /\ (SameReplies(x) \/ GoneReplies(x))
             /\ msg[x].phase # "executing"
    BY <2>5 DEF Recovered, Course, Stays, Evidence
  <2> QED
    BY <2>2, <2>3, <2>4, <2>5
<1>3. ASSUME NEW m \in Msgs, SendNew(m) PROVE Course(x)
  <2> DEFINE rows == [msg EXCEPT ![m] = Queued]
             adm  == [admission EXCEPT ![m] = 0]
  <2>1. rows \in [Msgs -> Row]
    BY NewRows
  <2>2. CompactIfDue(rows, adm) \/ (msg' = rows /\ UNCHANGED reply)
    BY <1>3 DEF SendNew
  <2>3. /\ \/ msg'[x] = rows[x] /\ (SameReplies(x) \/ GoneReplies(x))
           \/ Forgotten(x)
        /\ Unanswered(x) => SameReplies(x)
    BY <2>1, <2>2, CompactReplies, RepliesUnchanged
  <2>4. CASE Forgotten(x)
    BY <2>4 DEF Course
  <2>5. CASE msg'[x] = rows[x] /\ x = m
    <3>1. msg[x].phase = "absent"
      BY <1>3, <2>5 DEF SendNew
    <3>2. SameReplies(x)
      BY <2>3, <3>1 DEF RowShape
    <3> QED
      BY <2>5, <3>1, <3>2 DEF Course, Admitted
  <2>6. CASE msg'[x] = rows[x] /\ x # m /\ (SameReplies(x) \/ GoneReplies(x))
    BY <2>6 DEF Course, Stays, Evidence
  <2> QED
    BY <2>3, <2>4, <2>5, <2>6
<1>4. ASSUME NEW m \in Msgs, SendDuplicate(m) PROVE Course(x)
  <2>1. CompactIfDue(msg, admission) \/ (msg' = msg /\ UNCHANGED reply)
    BY <1>4 DEF SendDuplicate
  <2>2. (msg'[x] = msg[x] /\ (SameReplies(x) \/ GoneReplies(x))) \/ Forgotten(x)
    BY <2>1, CompactReplies, RepliesUnchanged
  <2> QED
    BY <2>2 DEF Course, Stays, Evidence
<1>5. CASE Pump
  <2>1. SameReplies(x)
    BY <1>5, RepliesUnchanged DEF Pump
  <2>2. PICK i \in DOMAIN pending :
          \/ msg' = [msg EXCEPT ![pending[i]] = Moved(@, "executing")]
          \/ msg' = msg
    BY <1>5, Zenon DEF Pump
  <2>3. CASE msg'[x] = msg[x]
    BY <2>1, <2>3, UntouchedStays
  <2>4. CASE msg'[x] # msg[x]
    <3>1. x = pending[i] /\ msg'[x] = Moved(msg[x], "executing")
      BY <2>2, <2>4
    <3>2. x \in Runner /\ msg[x].phase = "queued_local"
      BY <3>1 DEF Memory, DispatcherMemory, Range
    <3> QED
      BY <1>a, <2>1, <3>1, <3>2, MovedRow DEF Course, Begun, Phases
  <2> QED
    BY <2>3, <2>4
<1>6. ASSUME NEW m \in Msgs, DispatcherStep(m) PROVE Course(x)
  <2>1. CASE UNCHANGED <<msg, reply>>
    BY <2>1, RepliesUnchanged, UntouchedStays
  <2>2. CASE m \in Runner /\ msg[m].phase = "executing" /\ Outcome(m)
    <3>1. ASSUME NEW t \in Texts, NEW r \in ReplyIds,
                 RepliesTo(m) = {}, reply[r] = None,
                 reply' = [reply EXCEPT ![r] = NewReply(m, t, FALSE)],
                 msg' = [msg EXCEPT ![m] = Moved(@, "completed")]
          PROVE  Course(x)
      <4>1. Unanswered(m)
        BY <3>1 DEF RepliesTo, Unanswered, IsTo
      <4>2. NewAnswer(m, t, FALSE) /\ \A y \in Msgs \ {m} : SameReplies(y)
        BY <3>1, <4>1, ReplyAdded
      <4>3. CASE x = m
        <5>1. msg'[x] = Moved(msg[x], "completed")
          BY <3>1, <4>3
        <5>2. msg'[x].phase = "completed" /\ Evidence(x)
          BY <1>a, <5>1, MovedRow DEF Evidence, Phases
        <5> QED
          BY <2>2, <4>2, <4>3, <5>2 DEF Course, Finished
      <4>4. CASE x # m
        BY <3>1, <4>2, <4>4, UntouchedStays
      <4> QED
        BY <4>3, <4>4
    <3>2. CASE /\ reply' = reply
               /\ \/ msg' = [msg EXCEPT ![m] = Held(@)]
                  \/ \E t \in Texts : msg' = [msg EXCEPT ![m] = HeldWith(@, t)]
      <4>1. SameReplies(x)
        BY <3>2, RepliesUnchanged
      <4>2. CASE x = m
        <5>1. msg'[x] = Held(msg[x]) \/ \E t \in Texts : msg'[x] = HeldWith(msg[x], t)
          BY <3>2, <4>2
        <5>2. msg'[x].phase = "held" /\ msg'[x].claim = msg[x].claim
          BY <1>a, <5>1, HeldRow, HeldWithRow
        <5> QED
          BY <2>2, <4>1, <4>2, <5>2 DEF Course, PutOnHold
      <4>3. CASE x # m
        BY <3>2, <4>1, <4>3, UntouchedStays
      <4> QED
        BY <4>2, <4>3
    <3> QED
      BY <2>1, <2>2, <3>1, <3>2, Zenon DEF Outcome
  <2>3. \/ UNCHANGED <<msg, reply>>
        \/ exec[m] \in {"gated", "running", "timedOut"} /\ msg[m].phase = "executing" /\ Outcome(m)
    BY <1>6, ExecutorSteps DEF Memory
  <2> QED
    BY <2>1, <2>2, <2>3 DEF Memory, ExecutorOwnsRow
<1>7. CASE Stop \/ CloseJournal \/ Crash
  <2>1. UNCHANGED <<msg, reply>>
    BY <1>7 DEF Stop, CloseJournal, Crash
  <2> QED
    BY <2>1, RepliesUnchanged, UntouchedStays
<1>8. ASSUME NEW c \in Chats, ChatStep(c) PROVE Course(x)
  <2>1. ASSUME NEW m \in Msgs, NEW op \in Ops, NEW tok \in Tokens, ClaimInboxMessage(c, m, op, tok)
        PROVE  Course(x)
    <3>1. /\ msg' = [msg EXCEPT ![m] = Claimed(msg[m], c, op, tok)]
          /\ msg[m].phase = "queued_local" /\ UNCHANGED reply
      BY <2>1 DEF ClaimInboxMessage, Claimed
    <3>2. SameReplies(x)
      BY <3>1, RepliesUnchanged
    <3>3. CASE x = m
      <4>1. msg'[x] = Claimed(msg[x], c, op, tok)
        BY <3>1, <3>3
      <4> QED
        BY <1>a, <3>1, <3>2, <3>3, <4>1, ClaimedRow DEF Course, Begun
    <3>4. CASE x # m
      BY <3>1, <3>2, <3>4, UntouchedStays
    <3> QED
      BY <3>3, <3>4
  <2>2. ASSUME NEW m \in Msgs, NEW op \in Ops, RetryClaim(c, m, op) PROVE Course(x)
    BY <2>2, RepliesUnchanged, UntouchedStays DEF RetryClaim
  <2>3. ASSUME NEW m \in Msgs, NEW t \in Says[c], NEW r \in ReplyIds, ChatReply(c, m, t, r)
        PROVE  Course(x)
    <3>1. t \in Texts
      BY ChatsAssumption
    <3>2. msg[m].claim # None /\ msg[m].claim.chat = c
      BY <2>3 DEF ChatReply, HoldsClaim
    <3>3. CASE /\ AcceptsReply(m) /\ reply[r] = None
               /\ reply' = [reply EXCEPT ![r] = NewReply(m, t, FALSE)]
               /\ msg' = [msg EXCEPT ![m] = Moved(@, "completed")]
      <4>1. msg[m].phase = "executing" /\ Unanswered(m)
        BY <3>3 DEF AcceptsReply, RowShape
      <4>2. NewAnswer(m, t, FALSE) /\ \A y \in Msgs \ {m} : SameReplies(y)
        BY <3>1, <3>3, <4>1, ReplyAdded
      <4>3. CASE x = m
        <5>1. msg'[x] = Moved(msg[x], "completed")
          BY <3>3, <4>3
        <5>2. msg'[x].phase = "completed" /\ Evidence(x)
          BY <1>a, <5>1, MovedRow DEF Evidence, Phases
        <5> QED
          BY <3>1, <3>2, <4>1, <4>2, <4>3, <5>2 DEF Course, Finished
      <4>4. CASE x # m
        BY <3>3, <4>2, <4>4, UntouchedStays
      <4> QED
        BY <4>3, <4>4
    <3>4. CASE /\ msg[m].phase = "held" \/ LeaseExpired(m)
               /\ msg' = [msg EXCEPT ![m] = HeldWith(@, t)]
               /\ UNCHANGED reply
      <4>1. SameReplies(x) /\ msg[m].phase \in {"executing", "held"}
        BY <3>4, RepliesUnchanged DEF LeaseExpired
      <4>2. CASE x = m
        <5>1. msg'[x] = HeldWith(msg[x], t)
          BY <3>4, <4>2
        <5>2. msg'[x].phase = "held" /\ msg'[x].claim = msg[x].claim /\ msg'[x].late = t
          BY <1>a, <3>1, <5>1, HeldWithRow
        <5> QED
          BY <3>2, <4>1, <4>2, <5>2 DEF Course, PutOnHold
      <4>3. CASE x # m
        BY <3>4, <4>1, <4>3, UntouchedStays
      <4> QED
        BY <4>2, <4>3
    <3> QED
      BY <2>3, <3>3, <3>4 DEF ChatReply
  <2> QED
    BY <1>8, <2>1, <2>2, <2>3 DEF ChatStep
<1>9. ASSUME NEW m \in Msgs, ReapExpired(m) PROVE Course(x)
  <2>1. msg[m].phase = "executing" /\ msg' = [msg EXCEPT ![m] = Held(@)] /\ UNCHANGED reply
    BY <1>9 DEF ReapExpired, LeaseExpired
  <2>2. SameReplies(x)
    BY <2>1, RepliesUnchanged
  <2>3. CASE x = m
    <3>1. msg'[x] = Held(msg[x])
      BY <2>1, <2>3
    <3> QED
      BY <1>a, <2>1, <2>2, <2>3, <3>1, HeldRow DEF Course, PutOnHold
  <2>4. CASE x # m
    BY <2>1, <2>2, <2>4, UntouchedStays
  <2> QED
    BY <2>3, <2>4
<1>10. ASSUME NEW r \in ReplyIds, ConsumeReply(r) PROVE Course(x)
  <2> DEFINE read == [reply[r] EXCEPT !.consumed = TRUE, !.age = 0]
  <2>1. reply[r] # None /\ reply' = [reply EXCEPT ![r] = read] /\ UNCHANGED msg
    BY <1>10 DEF ConsumeReply
  <2>2. reply[r] \in ReplyRow
    BY <2>1
  <2>3. /\ read \in ReplyRow /\ read # None /\ read.of = reply[r].of /\ read.text = reply[r].text
    BY <2>2, ReadRow, NoneAssumption
  <2>4. read.owner = reply[r].owner /\ read.consumed = TRUE
    BY <2>2, ReadRow, Zenon
  <2> HIDE DEF read
  <2>5. reply'[r] = read /\ \A s \in ReplyIds \ {r} : reply'[s] = reply[s]
    BY <2>1
  <2>6. \A s \in ReplyIds : IsTo(reply'[s], x) <=> IsTo(reply[s], x)
    BY <2>1, <2>3, <2>5 DEF IsTo
  <2>7. CASE IsTo(reply[r], x)
    <3>1. \A s \in ReplyIds : IsTo(reply[s], x) => s = r
      BY <2>1, <2>7 DEF OneReply, IsTo
    <3>2. ReadReplies(x)
      BY <2>3, <2>4, <2>5, <2>6, <3>1, Zenon DEF ReadReplies
    <3> QED
      BY <2>1, <3>2 DEF Course, Stays, Evidence
  <2>8. CASE ~IsTo(reply[r], x)
    <3>1. SameReplies(x)
      BY <2>5, <2>6, <2>8, Zenon DEF SameReplies
    <3> QED
      BY <2>1, <3>1, UntouchedStays
  <2> QED
    BY <2>7, <2>8
<1>11. CASE OwnerStep
  <2>1. ASSUME NEW m \in Msgs, ListHeld(m) PROVE Course(x)
    BY <2>1, RepliesUnchanged, UntouchedStays DEF ListHeld
  <2>2. ASSUME NEW id \in ReconcileIds, NEW m \in Msgs, NEW a \in Actions, NEW r \in ReplyIds,
               Reconcile(id, m, a, r)
        PROVE  Course(x)
    <3> DEFINE p == IF a = "mark-failed" THEN "failed" ELSE "completed"
    <3>1. /\ msg' = [y \in Msgs |-> IF y # m THEN Recovered(msg[y]) ELSE Closed(msg[m], p)]
          /\ Reconcilable(m, a)
      BY <2>2 DEF Reconcile
    <3>2. msg[m].phase = "held" /\ (Unanswered(m) <=> RepliesTo(m) = {})
      BY <3>1 DEF Reconcilable, Unanswered, RepliesTo, IsTo
    <3>3. p \in Phases
      BY DEF Phases
    <3>4. \/ /\ a = "accept-late-result" /\ Unanswered(m) /\ msg[m].late # None
             /\ reply[r] = None /\ reply' = [reply EXCEPT ![r] = NewReply(m, msg[m].late, TRUE)]
          \/ a = "mark-failed" /\ Unanswered(m) /\ UNCHANGED reply
          \/ a = "mark-completed" /\ ~Unanswered(m) /\ UNCHANGED reply
      <4>1. CASE a = "accept-late-result"
        BY <2>2, <3>1, <3>2, <4>1 DEF Reconcile, Reconcilable
      <4>2. CASE a = "mark-failed"
        BY <2>2, <3>1, <3>2, <4>2 DEF Reconcile, Reconcilable
      <4>3. CASE a = "mark-completed"
        BY <2>2, <3>1, <3>2, <4>3 DEF Reconcile, Reconcilable
      <4> QED
        BY <4>1, <4>2, <4>3 DEF Actions
    <3>5. a = "accept-late-result" =>
            msg[m].late \in Texts /\ NewAnswer(m, msg[m].late, TRUE) /\ \A y \in Msgs \ {m} : SameReplies(y)
      <4> SUFFICES ASSUME a = "accept-late-result"
                   PROVE  msg[m].late \in Texts /\ NewAnswer(m, msg[m].late, TRUE) /\ \A y \in Msgs \ {m} : SameReplies(y)
        OBVIOUS
      <4>1. msg[m].late \in Texts
        BY <3>4 DEF Row
      <4> QED
        BY <3>4, <4>1, ReplyAdded
    <3>6. a # "accept-late-result" => \A y : SameReplies(y)
      BY <3>4, RepliesUnchanged
    <3>7. CASE x = m
      <4>1. msg'[x] = Closed(msg[x], p)
        BY <3>1, <3>7
      <4>2. msg'[x].phase = p /\ msg'[x].late = None /\ msg'[x].claim = msg[x].claim
        BY <1>a, <3>3, <4>1, ClosedRow
      <4> QED
        BY <3>2, <3>4, <3>5, <3>6, <3>7, <4>2 DEF Course, OwnerClosed
    <3>8. CASE x # m
      <4>1. msg'[x] = Recovered(msg[x]) /\ SameReplies(x)
        BY <3>1, <3>5, <3>6, <3>8
      <4>2. CASE msg[x].phase = "executing"
        BY <1>a, <4>1, <4>2, RecoveredRow DEF Course, PutOnHold
      <4>3. CASE msg[x].phase # "executing"
        BY <4>1, <4>3, UntouchedStays DEF Recovered
      <4> QED
        BY <4>2, <4>3
    <3> QED
      BY <3>7, <3>8
  <2> QED
    BY <1>11, <2>1, <2>2 DEF OwnerStep
<1>12. CASE Tick
  <2>1. msg'[x] = Aged(msg[x])
    BY <1>12 DEF Tick, Aged
  <2>2. msg'[x].phase = msg[x].phase /\ Evidence(x)
    BY <1>a, <2>1, AgedRow DEF Evidence
  <2>3. SameReplies(x)
    <3> SUFFICES ASSUME NEW r \in ReplyIds
                 PROVE  /\ IsTo(reply'[r], x) <=> IsTo(reply[r], x)
                        /\ IsTo(reply[r], x) => /\ reply'[r].text = reply[r].text
                                                /\ reply'[r].owner = reply[r].owner
                                                /\ reply'[r].consumed = reply[r].consumed
      BY Zenon DEF SameReplies
    <3>1. CASE reply[r] = None
      BY <1>12, <3>1 DEF Tick, IsTo
    <3>2. CASE reply[r] # None
      <4> DEFINE older == [reply[r] EXCEPT !.age = Older(@, Retention)]
      <4>1. reply[r] \in ReplyRow /\ reply'[r] = older
        BY <1>12, <3>2 DEF Tick
      <4>2. older \in ReplyRow /\ older.of = reply[r].of /\ older.text = reply[r].text
        BY <4>1, OlderReply
      <4>3. older.owner = reply[r].owner /\ older.consumed = reply[r].consumed
        BY <4>1, OlderReply, Zenon
      <4> HIDE DEF older
      <4>4. older # None
        BY <4>2, NoneAssumption
      <4> QED
        BY <3>2, <4>1, <4>2, <4>3, <4>4, Zenon DEF IsTo
    <3> QED
      BY <3>1, <3>2
  <2> QED
    BY <2>2, <2>3 DEF Course, Stays
<1>13. CASE UNCHANGED vars
  BY <1>13, RepliesUnchanged, UntouchedStays DEF vars
<1> QED
  BY <1>1, <1>2, <1>3, <1>4, <1>5, <1>6, <1>7, <1>8, <1>9, <1>10, <1>11, <1>12, <1>13 DEF Next

\* No course gives a request a second reply.
LEMMA OneReplyNext ==
  ASSUME TypeOK', OneReply, \A x \in Msgs : Course(x)
  PROVE  OneReply'
<1> SUFFICES ASSUME NEW r \in ReplyIds, NEW s \in ReplyIds,
                    reply'[r] # None, reply'[s] # None, reply'[r].of = reply'[s].of
             PROVE  r = s
  BY DEF OneReply
<1> DEFINE m == reply'[r].of
<1>1. m \in Msgs /\ IsTo(reply'[r], m) /\ IsTo(reply'[s], m)
  BY DEF TypeOK, ReplyRow, IsTo
<1> HIDE DEF m
<1>2. CASE SameReplies(m) \/ ReadReplies(m)
  <2>1. IsTo(reply[r], m) /\ IsTo(reply[s], m)
    BY <1>1, <1>2, Zenon DEF SameReplies, ReadReplies
  <2> QED
    BY <2>1 DEF OneReply, IsTo
<1>3. CASE GoneReplies(m)
  BY <1>1, <1>3 DEF GoneReplies
<1>4. CASE \E t, o : NewAnswer(m, t, o)
  BY <1>1, <1>4, Zenon DEF NewAnswer
<1> QED
  BY <1>1, <1>2, <1>3, <1>4, Zenon
     DEF Course, Stays, Forgotten, Admitted, Begun, Finished, PutOnHold, OwnerClosed

\* Every course leaves the evidence its phase allows.
LEMMA RowShapeNext ==
  ASSUME TypeOK, TypeOK', Memory, RowShape, \A x \in Msgs : Course(x)
  PROVE  RowShape'
<1> SUFFICES ASSUME NEW m \in Msgs
             PROVE  /\ msg'[m].phase \in {"absent", "queued_local"} =>
                         msg'[m].late = None /\ msg'[m].claim = None /\ Unanswered(m)'
                    /\ msg'[m].phase = "executing" =>
                         /\ msg'[m].late = None /\ Unanswered(m)'
                         /\ m \in Interactive => msg'[m].claim # None
                    /\ msg'[m].phase = "held" /\ m \notin Legacy => Unanswered(m)'
  BY DEF RowShape
<1>a. /\ msg[m].phase \in {"absent", "queued_local"} =>
           msg[m].late = None /\ msg[m].claim = None /\ Unanswered(m)
      /\ msg[m].phase = "executing" =>
           /\ msg[m].late = None /\ Unanswered(m)
           /\ m \in Interactive => msg[m].claim # None
      /\ msg[m].phase = "held" /\ m \notin Legacy => Unanswered(m)
  BY DEF RowShape
<1>b. ASSUME SameReplies(m) \/ ReadReplies(m) \/ GoneReplies(m), Unanswered(m)
      PROVE  Unanswered(m)'
  BY <1>b, Zenon DEF SameReplies, ReadReplies, GoneReplies, Unanswered
<1>c. GoneReplies(m) => Unanswered(m)'
  BY Zenon DEF GoneReplies, Unanswered
<1>1. CASE Stays(m)
  BY <1>a, <1>b, <1>1 DEF Stays, Evidence
<1>2. CASE Forgotten(m)
  BY <1>c, <1>2, NewRows DEF Forgotten
<1>3. CASE Admitted(m)
  BY <1>a, <1>b, <1>3, NewRows DEF Admitted
<1>4. CASE Begun(m)
  BY <1>a, <1>b, <1>4 DEF Begun, Interactive
<1>5. CASE Finished(m)
  BY <1>5 DEF Finished
<1>6. CASE PutOnHold(m)
  BY <1>a, <1>b, <1>6 DEF PutOnHold
<1>7. CASE OwnerClosed(m)
  BY <1>7 DEF OwnerClosed
<1> QED
  BY <1>1, <1>2, <1>3, <1>4, <1>5, <1>6, <1>7 DEF Course

\* No course records a text that its claimant did not say.
LEMMA ClaimantNext ==
  ASSUME TypeOK, RowShape, ClaimantSpeaks, \A x \in Msgs : Course(x)
  PROVE  ClaimantSpeaks'
<1> SUFFICES ASSUME NEW m \in Interactive \ Legacy
             PROVE  /\ msg'[m].late # None =>
                         msg'[m].claim # None /\ msg'[m].late \in Says[msg'[m].claim.chat]
                    /\ \A r \in ReplyIds : IsTo(reply'[r], m) =>
                         msg'[m].claim # None /\ reply'[r].text \in Says[msg'[m].claim.chat]
  BY DEF ClaimantSpeaks, RepliesTo, IsTo
<1>a. /\ msg[m].late # None => msg[m].claim # None /\ msg[m].late \in Says[msg[m].claim.chat]
      /\ \A r \in ReplyIds : IsTo(reply[r], m) =>
           msg[m].claim # None /\ reply[r].text \in Says[msg[m].claim.chat]
  BY DEF ClaimantSpeaks, RepliesTo, IsTo
<1>b. m \in Msgs /\ m \notin Runner
  BY DEF Interactive
<1>c. SameReplies(m) \/ ReadReplies(m) \/ GoneReplies(m) =>
        \A r \in ReplyIds : IsTo(reply'[r], m) => IsTo(reply[r], m) /\ reply'[r].text = reply[r].text
  BY Zenon DEF SameReplies, ReadReplies, GoneReplies
<1>d. \A t, o : NewAnswer(m, t, o) => \A r \in ReplyIds : IsTo(reply'[r], m) => reply'[r].text = t
  BY Zenon DEF NewAnswer
<1>1. CASE Stays(m)
  BY <1>a, <1>c, <1>1 DEF Stays, Evidence
<1>2. CASE Forgotten(m)
  BY <1>2, NewRows, Zenon DEF Forgotten, GoneReplies
<1>3. CASE Admitted(m)
  <2>1. Unanswered(m)
    BY <1>b, <1>3 DEF Admitted, RowShape
  <2> QED
    BY <1>c, <1>3, <2>1, NewRows DEF Admitted, Unanswered
<1>4. CASE Begun(m)
  <2>1. Unanswered(m) /\ msg[m].late = None
    BY <1>b, <1>4 DEF Begun, RowShape
  <2> QED
    BY <1>c, <1>4, <2>1 DEF Begun, Unanswered
<1>5. CASE Finished(m)
  BY <1>a, <1>b, <1>d, <1>5 DEF Finished, Evidence
<1>6. CASE PutOnHold(m)
  BY <1>a, <1>b, <1>c, <1>6 DEF PutOnHold
<1>7. CASE OwnerClosed(m)
  <2>1. CASE SameReplies(m)
    BY <1>a, <1>c, <1>7, <2>1 DEF OwnerClosed
  <2>2. CASE NewAnswer(m, msg[m].late, TRUE) /\ msg[m].late \in Texts
    <3>1. msg[m].claim # None /\ msg[m].late \in Says[msg[m].claim.chat]
      BY <1>a, <2>2, NoneAssumption
    <3> QED
      BY <1>d, <1>7, <2>2, <3>1 DEF OwnerClosed
  <2> QED
    BY <1>7, <2>1, <2>2 DEF OwnerClosed
<1> QED
  BY <1>b, <1>1, <1>2, <1>3, <1>4, <1>5, <1>6, <1>7 DEF Course

-----------------------------------------------------------------------------
(* The theorems.                                                           *)

\* The initial state satisfies the invariant.
LEMMA InvInit == Init => IInv
<1> SUFFICES ASSUME Init PROVE IInv
  OBVIOUS
<1> USE MessagesAssumption
<1>1. TypeOK
  BY TypeInit
<1>2. /\ \A m \in Msgs : exec[m] = "idle" /\ admittedAgo[m] = PairWindow
      /\ svc = "down" /\ pending = <<>> /\ inFlight = {}
  BY DEF Init
<1>3. ActiveExecutions = {} /\ Range(pending) = {} /\ Distinct(pending)
  BY <1>2 DEF ActiveExecutions, Range, Distinct
<1>4. Memory
  BY <1>2, <1>3 DEF Memory, ExecutorOwnsRow, DispatcherMemory, SettledIsFresh, NoLostWork
<1>5. AdmissionTracks
  BY <1>2, BoundsAssumption DEF AdmissionTracks
<1>6. ExecutionBound
  BY <1>3, FS_EmptySet, BoundsAssumption DEF ExecutionBound
<1>7. PairBound
  <2>1. \A p : {x \in Msgs : Pair[x] = p /\ admittedAgo[x] < PairWindow} = {}
    BY <1>2, BoundsAssumption
  <2> QED
    BY <2>1, FS_EmptySet, BoundsAssumption DEF PairBound
<1>8. PICK f \in LegacyReplies, t \in Texts :
        /\ \A a, b \in Legacy : f[a] = f[b] => a = b
        /\ reply = [r \in ReplyIds |->
                      IF \E m \in Legacy : f[m] = r
                      THEN NewReply(CHOOSE m \in Legacy : f[m] = r, t, FALSE)
                      ELSE None]
  BY DEF Init
<1>9. ASSUME NEW r \in ReplyIds, reply[r] # None
      PROVE  reply[r].of \in Legacy /\ f[reply[r].of] = r
  <2>1. \E m \in Legacy : f[m] = r
    BY <1>8, <1>9
  <2> DEFINE first == CHOOSE m \in Legacy : f[m] = r
  <2>2. first \in Legacy /\ f[first] = r
    BY <2>1, Zenon
  <2>3. reply[r] = NewReply(first, t, FALSE)
    BY <1>8, <2>1
  <2> HIDE DEF first
  <2>4. reply[r].of = first
    BY <2>3 DEF NewReply
  <2> QED
    BY <2>2, <2>4
<1>10. OneReply
  BY <1>9 DEF OneReply
<1>11. \A m \in Msgs : IF m \in Legacy THEN msg[m].phase = "held"
                                       ELSE msg[m] = Absent
  BY NewRows, HeldRow DEF Init
<1>12. \A m \in Msgs : msg[m].late = None /\ msg[m].claim = None
  BY NewRows, HeldRow DEF Init
<1>13. \A m \in Msgs \ Legacy : Unanswered(m)
  BY <1>9 DEF Unanswered, IsTo
<1>14. RowShape
  BY <1>11, <1>12, <1>13, NewRows DEF RowShape
<1>15. ClaimantSpeaks
  BY <1>12, <1>13 DEF ClaimantSpeaks, Unanswered, RepliesTo, IsTo, Interactive
<1> QED
  BY <1>1, <1>4, <1>5, <1>6, <1>7, <1>10, <1>14, <1>15 DEF IInv, Memory

\* Every step keeps the invariant.
LEMMA InvNext == IInv /\ [Next]_vars => IInv'
<1> SUFFICES ASSUME IInv, [Next]_vars PROVE IInv'
  OBVIOUS
<1> USE DEF IInv
<1>1. TypeOK'
  BY TypeNext
<1>2. Memory'
  BY MemoryNext DEF Memory
<1>3. AdmissionTracks' /\ PairBound' /\ ExecutionBound'
  BY AdmissionNext, PairNext, ExecutionNext
<1>4. \A x \in Msgs : Course(x)
  BY CourseNext DEF Memory
<1>5. OneReply' /\ ClaimantSpeaks'
  BY <1>1, <1>4, OneReplyNext, ClaimantNext
<1>6. RowShape'
  BY <1>1, <1>4, RowShapeNext DEF Memory
<1> QED
  BY <1>1, <1>2, <1>3, <1>5, <1>6 DEF Memory

\* The invariant holds throughout, whatever the number of messages, chats,
\* workers and replies, and whether or not storage may fail.
THEOREM MessagingInvariant == Spec => []IInv
<1>1. Init => IInv
  BY InvInit
<1>2. IInv /\ [Next]_vars => IInv'
  BY InvNext
<1> QED
  BY <1>1, <1>2, PTL DEF Spec

\* An execution keeps its row: holdExecution never takes back a finished row.
THEOREM ExecutorKeepsItsRow == Spec => []ExecutorOwnsRow
<1>1. IInv => ExecutorOwnsRow
  BY DEF IInv
<1> QED
  BY <1>1, MessagingInvariant, PTL

\* No queued request for a worker is lost to the dispatcher.
THEOREM WorkIsNeverLost == Spec => []NoLostWork
<1>1. IInv => NoLostWork
  BY DEF IInv
<1> QED
  BY <1>1, MessagingInvariant, PTL

\* One execution per recipient, at most MaxConcurrent, at most MaxPair requests
\* of a pair per window, and every table well formed.
THEOREM LimitsAlwaysHold == Spec => []LimitsHold
<1>1. IInv => LimitsHold
  BY DEF IInv, LimitsHold
<1> QED
  BY <1>1, MessagingInvariant, PTL

\* Only the claimant of a request speaks for it.
THEOREM OnlyTheClaimantSpeaks == Spec => []ClaimantSpeaks
<1>1. IInv => ClaimantSpeaks
  BY DEF IInv
<1> QED
  BY <1>1, MessagingInvariant, PTL

\* A late result becomes a reply only as the text the owner reviewed.
THEOREM ReviewedBeforeAccepted == Spec => AcceptedTextWasReviewed
<1> DEFINE Reviewed ==
      \A r \in ReplyIds :
        reply[r] = None /\ reply'[r] # None /\ reply'[r].owner =>
          view # None /\ view.of = reply'[r].of /\ view.late = reply'[r].text
<1>1. ASSUME IInv, [Next]_vars PROVE [Reviewed]_vars
  <2> SUFFICES ASSUME Next PROVE Reviewed
    BY <1>1
  <2>a. TypeOK
    BY <1>1 DEF IInv
  <2>1. ASSUME NEW m \in Msgs, NEW t \in Texts, NEW s \in ReplyIds,
               reply' = [reply EXCEPT ![s] = NewReply(m, t, FALSE)]
        PROVE  Reviewed
    <3>1. reply'[s] = NewReply(m, t, FALSE) /\ \A r \in ReplyIds \ {s} : reply'[r] = reply[r]
      BY <2>a, <2>1 DEF TypeOK
    <3>a. NewReply(m, t, FALSE).owner = FALSE
      BY Zenon DEF NewReply
    <3>2. reply'[s].owner = FALSE
      BY <3>1, <3>a, Zenon
    <3> QED
      BY <3>1, <3>2
  <2>2. CASE \A r \in ReplyIds : reply[r] = None => reply'[r] = None
    BY <2>2
  <2>3. ASSUME NEW m \in Msgs, DispatcherStep(m) PROVE Reviewed
    <3>1. reply' = reply \/ Outcome(m)
      BY <1>1, <2>3, ExecutorSteps DEF IInv
    <3>2. \/ reply' = reply
          \/ \E t \in Texts, s \in ReplyIds : reply' = [reply EXCEPT ![s] = NewReply(m, t, FALSE)]
      BY <3>1, Zenon DEF Outcome
    <3> QED
      BY <2>1, <2>2, <3>2, Zenon
  <2>4. ASSUME NEW c \in Chats, ChatStep(c) PROVE Reviewed
    <3>1. \/ UNCHANGED reply
          \/ \E m \in Msgs, t \in Says[c], s \in ReplyIds :
               reply' = [reply EXCEPT ![s] = NewReply(m, t, FALSE)]
      BY <2>4, Zenon DEF ChatStep, ClaimInboxMessage, RetryClaim, ChatReply
    <3>2. Says[c] \subseteq Texts
      BY ChatsAssumption
    <3> QED
      BY <2>1, <2>2, <3>1, <3>2, Zenon
  <2>5. CASE OwnerStep
    <3>1. ASSUME NEW m \in Msgs, ListHeld(m) PROVE Reviewed
      BY <2>2, <3>1 DEF ListHeld
    <3>2. ASSUME NEW id \in ReconcileIds, NEW m \in Msgs, NEW a \in Actions, NEW s \in ReplyIds,
                 Reconcile(id, m, a, s)
          PROVE  Reviewed
      <4>1. CASE a # "accept-late-result"
        BY <2>2, <3>2, <4>1 DEF Reconcile
      <4>2. CASE a = "accept-late-result"
        <5>1. reply' = [reply EXCEPT ![s] = NewReply(m, msg[m].late, TRUE)] /\ view = VersionOf(m)
          BY <3>2, <4>2 DEF Reconcile, Reconcilable
        <5>2. reply'[s] = NewReply(m, msg[m].late, TRUE) /\ \A r \in ReplyIds \ {s} : reply'[r] = reply[r]
          BY <2>a, <5>1 DEF TypeOK
        <5>3. reply'[s].of = m /\ reply'[s].text = msg[m].late
          BY <5>2 DEF NewReply
        <5>4. VersionOf(m) \in View /\ VersionOf(m).of = m /\ VersionOf(m).late = msg[m].late
          BY <2>a DEF VersionOf, View, Row, RepliesTo, TypeOK
        <5>5. view # None /\ view.of = reply'[s].of /\ view.late = reply'[s].text
          BY <5>1, <5>3, <5>4, NoneAssumption
        <5> QED
          BY <5>2, <5>5
      <4> QED
        BY <4>1, <4>2
    <3> QED
      BY <2>5, <3>1, <3>2 DEF OwnerStep
  <2>6. CASE DispatcherStart \/ (\E m \in Msgs : SendNew(m) \/ SendDuplicate(m))
    <3>1. reply' = reply \/ reply' = [r \in ReplyIds |-> IF ReplyGone(r) THEN None ELSE reply[r]]
      BY <2>6, Zenon DEF DispatcherStart, SendNew, SendDuplicate, CompactIfDue, Compact
    <3> QED
      BY <2>2, <3>1
  <2>7. ASSUME NEW s \in ReplyIds, ConsumeReply(s) PROVE Reviewed
    <3>1. \A r \in ReplyIds : reply[r] = None => reply'[r] = None
      BY <2>a, <2>7 DEF ConsumeReply, TypeOK
    <3> QED
      BY <2>2, <3>1
  <2>8. CASE Tick
    <3>1. \A r \in ReplyIds : reply[r] = None => reply'[r] = None
      BY <2>8 DEF Tick
    <3> QED
      BY <2>2, <3>1
  <2>9. CASE OpenJournal \/ Pump \/ Stop \/ CloseJournal \/ Crash \/ \E m \in Msgs : ReapExpired(m)
    <3>1. UNCHANGED reply
      BY <2>9, Zenon DEF OpenJournal, Pump, Stop, CloseJournal, Crash, ReapExpired
    <3> QED
      BY <2>2, <3>1
  <2> HIDE DEF Reviewed
  <2> QED
    BY <2>3, <2>4, <2>5, <2>6, <2>7, <2>8, <2>9 DEF Next
<1> QED
  BY <1>1, MessagingInvariant, PTL DEF Spec, AcceptedTextWasReviewed

-----------------------------------------------------------------------------
(* The promise.                                                            *)

AnswerOf(row) == [text |-> row.text, owner |-> row.owner, read |-> row.consumed]

\* The answers the promise sees are the replies to the request.
LEMMA AnswersAre ==
  ASSUME NEW m \in Msgs
  PROVE  AnswersTo[m] = {AnswerOf(reply[r]) : r \in {s \in ReplyIds : IsTo(reply[s], m)}}
BY Zenon DEF AnswersTo, AnswerOf, RepliesTo, IsTo

\* Replies that stay leave the answers as they are.
LEMMA AnswersSame ==
  ASSUME NEW m \in Msgs, SameReplies(m)
  PROVE  AnswersTo'[m] = AnswersTo[m]
<1>1. {s \in ReplyIds : IsTo(reply'[s], m)} = {s \in ReplyIds : IsTo(reply[s], m)}
  BY Zenon DEF SameReplies
<1>2. \A r \in {s \in ReplyIds : IsTo(reply[s], m)} : AnswerOf(reply'[r]) = AnswerOf(reply[r])
  BY Zenon DEF SameReplies, AnswerOf
<1>3. AnswersTo'[m] = {AnswerOf(reply'[r]) : r \in {s \in ReplyIds : IsTo(reply'[s], m)}}
  BY Zenon DEF AnswersTo, AnswerOf, RepliesTo, IsTo
<1>4. AnswersTo[m] = {AnswerOf(reply[r]) : r \in {s \in ReplyIds : IsTo(reply[s], m)}}
  BY AnswersAre
<1> QED
  BY <1>1, <1>2, <1>3, <1>4, Zenon

\* A consumed reply is an answer that was seen.
LEMMA AnswersRead ==
  ASSUME NEW m \in Msgs, ReadReplies(m)
  PROVE  AnswersTo'[m] = {Promise!Seen(a) : a \in AnswersTo[m]}
<1>1. {s \in ReplyIds : IsTo(reply'[s], m)} = {s \in ReplyIds : IsTo(reply[s], m)}
  BY Zenon DEF ReadReplies
<1>2. \A r \in {s \in ReplyIds : IsTo(reply[s], m)} :
        AnswerOf(reply'[r]) = Promise!Seen(AnswerOf(reply[r]))
  <2> TAKE r \in {s \in ReplyIds : IsTo(reply[s], m)}
  <2>1. AnswerOf(reply'[r]) = [text |-> reply[r].text, owner |-> reply[r].owner, read |-> TRUE]
    BY Zenon DEF ReadReplies, AnswerOf
  <2>2. AnswerOf(reply[r]).text = reply[r].text /\ AnswerOf(reply[r]).owner = reply[r].owner
    BY Zenon DEF AnswerOf
  <2> QED
    BY <2>1, <2>2, Zenon DEF Promise!Seen
<1>3. AnswersTo'[m] = {AnswerOf(reply'[r]) : r \in {s \in ReplyIds : IsTo(reply'[s], m)}}
  BY Zenon DEF AnswersTo, AnswerOf, RepliesTo, IsTo
<1>4. AnswersTo[m] = {AnswerOf(reply[r]) : r \in {s \in ReplyIds : IsTo(reply[s], m)}}
  BY AnswersAre
<1>5. ASSUME NEW b \in AnswersTo'[m] PROVE b \in {Promise!Seen(a) : a \in AnswersTo[m]}
  BY <1>1, <1>2, <1>3, <1>4, Zenon
<1>6. ASSUME NEW a \in AnswersTo[m] PROVE Promise!Seen(a) \in AnswersTo'[m]
  BY <1>1, <1>2, <1>3, <1>4, Zenon
<1> QED
  BY <1>5, <1>6, Zenon

\* Replies are forgotten only after they were read.
LEMMA AnswersGone ==
  ASSUME NEW m \in Msgs, GoneReplies(m)
  PROVE  AnswersTo'[m] = {} /\ \A a \in AnswersTo[m] : a.read
<1>1. AnswersTo'[m] = {AnswerOf(reply'[r]) : r \in {s \in ReplyIds : IsTo(reply'[s], m)}}
  BY Zenon DEF AnswersTo, AnswerOf, RepliesTo, IsTo
<1>2. {s \in ReplyIds : IsTo(reply'[s], m)} = {}
  BY Zenon DEF GoneReplies
<1>3. \A r \in {s \in ReplyIds : IsTo(reply[s], m)} : AnswerOf(reply[r]).read
  BY Zenon DEF GoneReplies, AnswerOf
<1>4. AnswersTo[m] = {AnswerOf(reply[r]) : r \in {s \in ReplyIds : IsTo(reply[s], m)}}
  BY AnswersAre
<1>5. \A a \in AnswersTo[m] : a.read
  BY <1>3, <1>4, Zenon
<1>6. AnswersTo'[m] = {}
  BY <1>1, <1>2, Zenon
<1> QED
  BY <1>5, <1>6

\* A request without replies has no answers.
LEMMA AnswersNone ==
  ASSUME NEW m \in Msgs
  PROVE  Unanswered(m) <=> AnswersTo[m] = {}
<1>1. AnswersTo[m] = {AnswerOf(reply[r]) : r \in {s \in ReplyIds : IsTo(reply[s], m)}}
  BY AnswersAre
<1>2. ASSUME Unanswered(m) PROVE AnswersTo[m] = {}
  BY <1>1, <1>2, Zenon DEF Unanswered
<1>3. ASSUME AnswersTo[m] = {} PROVE Unanswered(m)
  BY <1>1, <1>3, Zenon DEF Unanswered
<1> QED
  BY <1>2, <1>3

\* A new reply is the one, unread answer.
LEMMA AnswersNew ==
  ASSUME NEW m \in Msgs, NEW t, NEW o, NewAnswer(m, t, o)
  PROVE  AnswersTo[m] = {} /\ AnswersTo'[m] = {[text |-> t, owner |-> o, read |-> FALSE]}
<1>1. AnswersTo[m] = {}
  BY AnswersNone DEF NewAnswer
<1>2. PICK r \in ReplyIds :
         /\ IsTo(reply'[r], m) /\ reply'[r].text = t
         /\ reply'[r].owner = o /\ reply'[r].consumed = FALSE
         /\ \A s \in ReplyIds : IsTo(reply'[s], m) => s = r
  BY Zenon DEF NewAnswer
<1>3. {s \in ReplyIds : IsTo(reply'[s], m)} = {r}
  BY <1>2, Zenon
<1>4. AnswersTo'[m] = {AnswerOf(reply'[s]) : s \in {s \in ReplyIds : IsTo(reply'[s], m)}}
  BY Zenon DEF AnswersTo, AnswerOf, RepliesTo, IsTo
<1>5. AnswersTo'[m] = {AnswerOf(reply'[r])}
  BY <1>3, <1>4, Zenon
<1>6. AnswerOf(reply'[r]) = [text |-> t, owner |-> o, read |-> FALSE]
  BY <1>2, Zenon DEF AnswerOf
<1> QED
  BY <1>1, <1>5, <1>6, Zenon

\* What a step does to a request is a move the promise allows.
LEMMA CourseIsMove ==
  ASSUME RowShape, NEW m \in Msgs, Course(m)
  PROVE  Promise!Move(m)
<1> USE DEF Promise!Move
<1>a. PhaseOf[m] = msg[m].phase /\ PhaseOf'[m] = msg'[m].phase
  BY DEF PhaseOf
<1>b. SameReplies(m) => AnswersTo'[m] = AnswersTo[m]
  BY AnswersSame
<1>1. CASE Stays(m)
  <2>1. CASE SameReplies(m)
    BY <1>a, <1>b, <1>1, <2>1 DEF Stays, Promise!Stay
  <2>2. CASE ReadReplies(m)
    BY <1>a, <1>1, <2>2, AnswersRead DEF Stays, Promise!Read
  <2>3. CASE GoneReplies(m)
    BY <1>a, <1>1, <2>3, AnswersGone DEF Stays, Promise!ForgetAnswer, Promise!AllRead
  <2> QED
    BY <1>1, <2>1, <2>2, <2>3 DEF Stays
<1>2. CASE Forgotten(m)
  BY <1>a, <1>2, AnswersGone, NewRows DEF Forgotten, Promise!Forget, Promise!AllRead
<1>3. CASE Admitted(m)
  <2>1. AnswersTo[m] = {}
    BY <1>3, AnswersNone DEF Admitted, RowShape
  <2> QED
    BY <1>a, <1>b, <1>3, <2>1, NewRows DEF Admitted, Promise!Admit
<1>4. CASE Begun(m)
  BY <1>a, <1>b, <1>4 DEF Begun, Promise!Begin
<1>5. CASE Finished(m)
  <2>1. PICK t \in Texts : NewAnswer(m, t, FALSE)
    BY <1>5 DEF Finished
  <2>2. AnswersTo[m] = {} /\ AnswersTo'[m] = {Promise!Unread(t, FALSE)}
    BY <2>1, AnswersNew, Zenon DEF Promise!Unread
  <2>3. \E u \in Texts : AnswersTo'[m] = {Promise!Unread(u, FALSE)}
    BY <2>2, Zenon
  <2> QED
    BY <1>a, <1>5, <2>2, <2>3 DEF Finished, Promise!Finish
<1>6. CASE PutOnHold(m)
  BY <1>a, <1>b, <1>6 DEF PutOnHold, Promise!Hold, Promise!Stay
<1>7. CASE OwnerClosed(m)
  <2>1. CASE msg'[m].phase = "failed" /\ Unanswered(m) /\ SameReplies(m)
    BY <1>a, <1>b, <1>7, <2>1, AnswersNone DEF OwnerClosed, Promise!OwnerCloses
  <2>2. CASE /\ msg'[m].phase = "completed" /\ msg[m].late \in Texts
             /\ NewAnswer(m, msg[m].late, TRUE)
    <3>1. AnswersTo[m] = {} /\ AnswersTo'[m] = {Promise!Unread(msg[m].late, TRUE)}
      BY <2>2, AnswersNew, Zenon DEF Promise!Unread
    <3>2. \E u \in Texts : AnswersTo'[m] = {Promise!Unread(u, TRUE)}
      BY <2>2, <3>1, Zenon
    <3> QED
      BY <1>a, <1>7, <2>2, <3>1, <3>2 DEF OwnerClosed, Promise!OwnerAnswers
  <2>3. CASE msg'[m].phase = "completed" /\ ~Unanswered(m) /\ SameReplies(m)
    <3>1. m \in Legacy
      BY <1>7, <2>3 DEF OwnerClosed, RowShape
    <3>2. AnswersTo[m] # {}
      BY <2>3, AnswersNone
    <3> QED
      BY <1>a, <1>b, <1>7, <2>3, <3>1, <3>2 DEF OwnerClosed, Promise!OwnerConfirms
  <2> QED
    BY <1>7, <2>1, <2>2, <2>3 DEF OwnerClosed
<1> QED
  BY <1>1, <1>2, <1>3, <1>4, <1>5, <1>6, <1>7 DEF Course

\* The journal and the dispatcher keep the promise of Exchange: one execution
\* per admission, at most one answer, given by the executor in good standing or
\* by the owner, and no answer forgotten unread.
THEOREM PromiseIsKept == Spec => KeepsPromise
<1>1. Init => Promise!ExchangeInit
  <2> SUFFICES ASSUME Init PROVE Promise!ExchangeInit
    OBVIOUS
  <2>1. IInv
    BY InvInit
  <2>2. PhaseOf = [m \in Msgs |-> IF m \in Legacy THEN "held" ELSE "absent"]
    BY NewRows, HeldRow DEF Init, PhaseOf
  <2>3. AnswersTo \in [Msgs -> SUBSET Promise!Answer]
    <3>1. \A r \in ReplyIds : reply[r] # None => AnswerOf(reply[r]) \in Promise!Answer
      BY <2>1, Zenon DEF IInv, TypeOK, ReplyRow, AnswerOf, Promise!Answer
    <3>2. ASSUME NEW m \in Msgs, NEW a \in AnswersTo[m] PROVE a \in Promise!Answer
      <4>1. AnswersTo[m] = {AnswerOf(reply[r]) : r \in {s \in ReplyIds : IsTo(reply[s], m)}}
        BY AnswersAre
      <4>2. PICK r \in ReplyIds : IsTo(reply[r], m) /\ a = AnswerOf(reply[r])
        BY <3>2, <4>1, Zenon
      <4> QED
        BY <3>1, <4>2, Zenon DEF IsTo
    <3> QED
      BY <3>2, Zenon DEF AnswersTo
  <2>4. \A m \in Msgs \ Legacy : AnswersTo[m] = {}
    <3> TAKE m \in Msgs \ Legacy
    <3>1. msg[m].phase = "absent"
      BY NewRows DEF Init
    <3>2. Unanswered(m)
      BY <2>1, <3>1 DEF IInv, RowShape
    <3> QED
      BY <3>2, AnswersNone
  <2> QED
    BY <2>2, <2>3, <2>4 DEF Promise!ExchangeInit
<1>2. IInv /\ [Next]_vars => [Promise!ExchangeNext]_<<PhaseOf, AnswersTo>>
  <2> SUFFICES ASSUME IInv, [Next]_vars PROVE Promise!ExchangeNext
    OBVIOUS
  <2>1. \A m \in Msgs : Course(m)
    BY CourseNext DEF IInv, Memory
  <2> QED
    BY <2>1, CourseIsMove DEF IInv, Promise!ExchangeNext
<1> QED
  BY <1>1, <1>2, MessagingInvariant, PTL DEF Spec, KeepsPromise, Promise!ExchangeSpec
=============================================================================
