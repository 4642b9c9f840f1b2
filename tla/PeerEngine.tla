----------------------------- MODULE PeerEngine -----------------------------
(***************************************************************************)
(* The peer engine (peer-engine/src/engine.rs, journal.rs): devices send   *)
(* messages over connections that fail at any point.  A message is queued  *)
(* in the sender's journal, attempted until a receipt settles it, it is    *)
(* refused or it expires; the receiver stores it before the receipt, keeps *)
(* it until a local consumer acknowledges it and then remembers it for     *)
(* Retention to suppress duplicates.                                       *)
(*                                                                         *)
(* The journal is what a replay of its file yields.  A failed append is    *)
(* rolled back or damages the tail: then nothing more is written, and the  *)
(* record is there or is truncated after a restart.  Compaction is due     *)
(* after a number of appends, so it may follow any of them.                *)
(*                                                                         *)
(* Addresses, byte limits and the contents of frames are left out; a full  *)
(* handler pool or a sender that is not on the roster closes the           *)
(* connection, which the sender sees as a lost exchange.                   *)
(***************************************************************************)
EXTENDS Integers, FiniteSets, FiniteSetsExt

CONSTANTS
  Devices, Ids, Bodies,
  Reach,      \* the devices a device sends to
  Roster,     \* the devices a device admits
  Slots,      \* bound: concurrent attempts
  Expiry,     \* ticks a message is retried
  Retention,  \* ticks a finished record is remembered
  Timeout,    \* ticks an attempt, or the handler it reached, may take
  MaxOutbox,  \* queued messages of a device
  Quota,      \* unconsumed messages of a sender
  MaxSends,   \* bound: messages queued
  Faults,     \* the devices whose appends may fail
  None

\* A receiver forgets a message only after its sender has given up on it.
ASSUME PeerAssumption ==
  /\ IsFiniteSet(Devices) /\ IsFiniteSet(Ids)
  /\ Expiry \in Nat \ {0} /\ Timeout \in Nat /\ Retention \in Nat
  /\ Retention >= Expiry + Timeout
  /\ MaxOutbox \in Nat \ {0} /\ Quota \in Nat \ {0} /\ MaxSends \in Nat
  /\ Reach \in [Devices -> SUBSET Devices] /\ Roster \in [Devices -> SUBSET Devices]
  /\ Faults \subseteq Devices

Lease == 2 * Timeout
Keys == Devices \X Ids

VARIABLES
  up,        \* the engine holds the state-dir lock and runs
  journal,   \* outbound and inbound index and the highest seq
  tail,      \* a damaged tail: the journal if its last record is whole
  live,      \* live_inbound: unconsumed messages of a sender
  lease,     \* ticks until next_attempt
  attempt,   \* delivery attempts under way
  cursor,    \* consumer: after_seq of its next page
  paged,     \* history: the messages the consumer was shown
  sends,     \* history: times an id was queued
  accepts,   \* history: times a message entered an inbox
  taken      \* history: times it was acknowledged there

History == <<sends, accepts, taken>>
vars == <<up, journal, tail, live, lease, attempt, cursor, paged, sends, accepts, taken>>

Terminal == {"settled", "refused", "expired"}

\* age counts from queued_at while queued, from the last record after that.
Outbound == [state : {"queued"} \cup Terminal, peer : Devices, body : Bodies,
             age : 0..Retention]
Inbound == [body : Bodies, consumed : BOOLEAN, age : 0..Retention, seq : Nat]
Journal == [out : [Ids -> Outbound \cup {None}], inn : [Keys -> Inbound \cup {None}],
            hi : Nat]
Attempt == [key : Keys, peer : Devices, body : Bodies, age : 0..Timeout,
            waiting : BOOLEAN, stage : {"sent", "receipt", "busy", "refused", "lost"}]

\* None is no record, no journal and no attempt.
ASSUME NoneAssumption ==
  None \notin Outbound /\ None \notin Inbound /\ None \notin Journal /\ None \notin Attempt

-----------------------------------------------------------------------------
(* The journal.                                                            *)

WithOut(j, id, rec) == [j EXCEPT !.out = [@ EXCEPT ![id] = rec]]
WithIn(j, k, rec) == [j EXCEPT !.inn = [@ EXCEPT ![k] = rec]]

QueuedLocal(j, id, peer, body) ==
  WithOut(j, id, [state |-> "queued", peer |-> peer, body |-> body, age |-> 0])

\* finish_outbound: only a queued message gets an outcome.
Finish(j, id, state) ==
  IF j.out[id] = None \/ j.out[id].state # "queued" THEN j
  ELSE WithOut(j, id, [j.out[id] EXCEPT !.state = state, !.age = 0])

ReceivedPeer(j, k, body) ==
  [WithIn(j, k, [body |-> body, consumed |-> FALSE, age |-> 0, seq |-> j.hi + 1])
     EXCEPT !.hi = @ + 1]

Consumed(j, k) == WithIn(j, k, [j.inn[k] EXCEPT !.consumed = TRUE, !.age = 0])

Fresh(age) == age < Retention

\* Mutant: compaction drops what was consumed.
KeepsInbox(rec) == ~rec.consumed

KeepsIn(rec) == ~rec.consumed \/ Fresh(rec.age)
KeepsOut(rec) == rec.state = "queued" \/ Fresh(rec.age)

Seqs(j) == {j.inn[k].seq : k \in {x \in Keys : j.inn[x] # None}}

\* Mutant: no checkpoint, the highest seq is the highest one kept.
HighestKept(j) == Max({0} \cup Seqs(j))

HighWater(j) == j.hi

Dropped(j) ==
  [out |-> [id \in Ids |-> IF j.out[id] # None /\ KeepsOut(j.out[id])
                           THEN j.out[id] ELSE None],
   inn |-> [k \in Keys |-> IF j.inn[k] # None /\ KeepsIn(j.inn[k])
                           THEN j.inn[k] ELSE None],
   hi  |-> j.hi]

\* append_durable: the record is applied once it is on disk, then compaction
\* when it is due.
AppendDurable(d, j) ==
  /\ tail[d] = None
  /\ journal' = [journal EXCEPT ![d] = j]
     \/ journal' = [journal EXCEPT ![d] = Dropped(j)]
  /\ UNCHANGED tail

\* The write fails and is rolled back, or leaves a tail that stops all writes.
AppendFails(d, j) ==
  /\ \/ tail[d] # None /\ UNCHANGED tail
     \/ d \in Faults /\ tail[d] = None /\ tail' \in {tail, [tail EXCEPT ![d] = j]}
  /\ UNCHANGED journal

-----------------------------------------------------------------------------
(* Sending.                                                                *)

QueuedIds(d) == {id \in Ids : journal[d].out[id] # None /\ journal[d].out[id].state = "queued"}

Sent(d, id, peer, body) ==
  [key |-> <<d, id>>, peer |-> peer, body |-> body, age |-> 0,
   waiting |-> TRUE, stage |-> "sent"]

Begins(t, d, id, peer, body) ==
  /\ attempt[t] = None
  /\ attempt' = [attempt EXCEPT ![t] = Sent(d, id, peer, body)]
  /\ lease' = [lease EXCEPT ![d][id] = Lease]

\* send_message of an id the journal does not know.
SendNew(d, id, peer, body, t) ==
  /\ up[d] /\ peer \in Reach[d]
  /\ journal[d].out[id] = None
  /\ Cardinality(QueuedIds(d)) < MaxOutbox
  /\ MapThenSumSet(LAMBDA k : sends[k], Keys) < MaxSends
  /\ LET j == QueuedLocal(journal[d], id, peer, body) IN
       \/ /\ AppendDurable(d, j)
          /\ Begins(t, d, id, peer, body)
          /\ sends' = [sends EXCEPT ![<<d, id>>] = @ + 1]
       \/ /\ AppendFails(d, j)
          /\ UNCHANGED <<attempt, lease, sends>>
  /\ UNCHANGED <<up, live, cursor, paged, accepts, taken>>

Expired(d, id) == journal[d].out[id].age >= Expiry

\* send_message again, same payload and peer: an attempt unless it is finished.
\* Callers do not rely on idempotency past the window (docs/IPC_CONTRACT.md),
\* so they do not repeat a message the retry loop has yet to expire.
SendAgain(d, id, t) ==
  /\ up[d] /\ id \in QueuedIds(d)
  /\ ~Expired(d, id)
  /\ Begins(t, d, id, journal[d].out[id].peer, journal[d].out[id].body)
  /\ UNCHANGED <<up, journal, tail, live, cursor, paged, History>>

\* retry_loop: take_due leases what is due.
Retry(d, id, t) ==
  /\ up[d] /\ id \in QueuedIds(d)
  /\ ~Expired(d, id) /\ lease[d][id] = 0
  /\ Begins(t, d, id, journal[d].out[id].peer, journal[d].out[id].body)
  /\ UNCHANGED <<up, journal, tail, live, cursor, paged, History>>

\* record_settled, record_refused, record_expired.
Record(d, id, outcome) ==
  LET j == Finish(journal[d], id, outcome) IN
    \/ j = journal[d] /\ UNCHANGED <<journal, tail>>
    \/ j # journal[d] /\ (AppendDurable(d, j) \/ AppendFails(d, j))

\* retry_loop: record_expired.
Expire(d, id) ==
  /\ up[d] /\ id \in QueuedIds(d) /\ Expired(d, id)
  /\ Record(d, id, "expired")
  /\ UNCHANGED <<up, live, lease, attempt, cursor, paged, History>>

\* schedule_retry: some backoff from now.
ScheduleRetry(d, id) ==
  \E b \in 1..Lease : lease' = [lease EXCEPT ![d][id] = IF journal[d].out[id] = None THEN @ ELSE b]

Ends(t) == attempt' = [attempt EXCEPT ![t] = None]

Waits(t) == attempt[t] # None /\ attempt[t].waiting

\* A verified receipt: settle it, unless it has an outcome already.
GetReceipt(t) ==
  /\ Waits(t) /\ attempt[t].stage = "receipt"
  /\ LET d == attempt[t].key[1]
         id == attempt[t].key[2] IN
       \/ id \in QueuedIds(d) /\ Record(d, id, "settled")
       \/ id \notin QueuedIds(d) /\ UNCHANGED <<journal, tail>>
  /\ Ends(t)
  /\ UNCHANGED <<up, live, lease, cursor, paged, History>>

\* A reject that is final.
GetRefusal(t) ==
  /\ Waits(t) /\ attempt[t].stage = "refused"
  /\ Record(attempt[t].key[1], attempt[t].key[2], "refused")
  /\ Ends(t)
  /\ UNCHANGED <<up, live, lease, cursor, paged, History>>

\* A retryable reject, an error of the exchange or its timeout.
AttemptFails(t) ==
  /\ Waits(t)
  /\ ScheduleRetry(attempt[t].key[1], attempt[t].key[2])
  /\ \/ /\ attempt[t].stage \in {"busy", "lost"}
        /\ Ends(t)
     \/ /\ attempt[t].age = Timeout
        /\ \/ attempt[t].stage = "sent"
              /\ attempt' = [attempt EXCEPT ![t] = [@ EXCEPT !.waiting = FALSE]]
           \/ attempt[t].stage # "sent" /\ Ends(t)
  /\ UNCHANGED <<up, journal, tail, live, cursor, paged, History>>

-----------------------------------------------------------------------------
(* Receiving.                                                              *)

\* The handler's reply, if the sender still waits for it.
Reply(t, stage) ==
  attempt' = [attempt EXCEPT ![t] = IF @.waiting THEN [@ EXCEPT !.stage = stage] ELSE None]

\* Mutant: the receipt is sent though the record is not on disk.
ReceiptAnyway(t) == Reply(t, "receipt")

\* The error ends the handler, and with it the connection.
NotStored(t) == Reply(t, "lost")

HasRoom(d, from) == live[d][from] < Quota

\* handle_incoming, up to accept_inbound and its reply.
Handle(t) ==
  /\ attempt[t] # None /\ attempt[t].stage = "sent"
  /\ LET d == attempt[t].peer
         k == attempt[t].key
         body == attempt[t].body
         known == journal[d].inn[k]
         j == ReceivedPeer(journal[d], k, body) IN
     /\ up[d] /\ k[1] \in Roster[d]
     /\ \/ /\ known = None /\ HasRoom(d, k[1])
           /\ AppendDurable(d, j)
           /\ live' = [live EXCEPT ![d][k[1]] = @ + 1]
           /\ accepts' = [accepts EXCEPT ![k] = @ + 1]
           /\ paged' = [paged EXCEPT ![d] = @ \ {k}]
           /\ Reply(t, "receipt")
        \/ /\ known = None /\ HasRoom(d, k[1])
           /\ AppendFails(d, j)
           /\ NotStored(t)
           /\ UNCHANGED <<live, paged, accepts>>
        \/ /\ known = None /\ ~HasRoom(d, k[1])
           /\ Reply(t, "busy")
           /\ UNCHANGED <<journal, tail, live, paged, accepts>>
        \/ /\ known # None /\ known.body = body
           /\ AppendDurable(d, journal[d])
           /\ Reply(t, "receipt")
           /\ UNCHANGED <<live, paged, accepts>>
        \/ /\ known # None /\ known.body = body
           /\ AppendFails(d, journal[d])
           /\ NotStored(t)
           /\ UNCHANGED <<live, paged, accepts>>
        \/ /\ known # None /\ known.body # body
           /\ Reply(t, "refused")
           /\ UNCHANGED <<journal, tail, live, paged, accepts>>
  /\ UNCHANGED <<up, lease, cursor, sends, taken>>

\* The connection breaks, is refused or is never made.
Lose(t) ==
  /\ attempt[t] # None /\ attempt[t].stage # "lost"
  /\ Reply(t, "lost")
  /\ UNCHANGED <<up, journal, tail, live, lease, cursor, paged, History>>

\* Mutant: the count is kept until the tombstone is dropped.
LiveKept(d, from) == live[d][from]

LiveAfterConsume(d, from) == live[d][from] - 1

\* ack of one item.
Consume(d, k) ==
  /\ up[d] /\ journal[d].inn[k] # None /\ ~journal[d].inn[k].consumed
  /\ LET j == Consumed(journal[d], k) IN
       \/ /\ AppendDurable(d, j)
          /\ live' = [live EXCEPT ![d][k[1]] = LiveAfterConsume(d, k[1])]
          /\ taken' = [taken EXCEPT ![k] = @ + 1]
       \/ AppendFails(d, j) /\ UNCHANGED <<live, taken>>
  /\ UNCHANGED <<up, lease, attempt, cursor, paged, sends, accepts>>

Inbox(d) == {k \in Keys : journal[d].inn[k] # None /\ ~journal[d].inn[k].consumed}

\* inbox: one page after the consumer's cursor, of any length from one item.
ReadPage(d) ==
  LET after == {journal[d].inn[k].seq : k \in Inbox(d)} \ 0..cursor[d] IN
  /\ up[d]
  /\ \E last \in after :
       /\ cursor' = [cursor EXCEPT ![d] = last]
       /\ paged' = [paged EXCEPT ![d] = @ \cup
            {k \in Inbox(d) : journal[d].inn[k].seq \in cursor[d] + 1 .. last}]
  /\ UNCHANGED <<up, journal, tail, live, lease, attempt, History>>

-----------------------------------------------------------------------------
(* Lifecycle and time.                                                     *)

\* shutdown, a kill or a power failure.  Frames already sent may be handled.
Stop(d) ==
  /\ up[d]
  /\ up' = [up EXCEPT ![d] = FALSE]
  /\ attempt' = [t \in Slots |->
       IF attempt[t] = None THEN None
       ELSE IF attempt[t].key[1] = d
            THEN IF attempt[t].stage = "sent" THEN [attempt[t] EXCEPT !.waiting = FALSE]
                 ELSE None
       ELSE IF attempt[t].peer = d
            THEN IF attempt[t].waiting THEN [attempt[t] EXCEPT !.stage = "lost"] ELSE None
       ELSE attempt[t]]
  /\ UNCHANGED <<journal, tail, live, lease, cursor, paged, History>>

Unconsumed(j, from) ==
  Cardinality({id \in Ids : j.inn[<<from, id>>] # None /\ ~j.inn[<<from, id>>].consumed})

\* The record of a damaged tail turns out to be whole.
Adopted(holds) == IF holds THEN 1 ELSE 0

\* start: open_with replays the file, truncates a torn record and compacts.
Start(d) ==
  /\ ~up[d]
  /\ up' = [up EXCEPT ![d] = TRUE]
  /\ \E j \in {journal[d], tail[d]} \ {None} :
       LET kept == Dropped(j) IN
       /\ journal' = [journal EXCEPT ![d] = [kept EXCEPT !.hi = HighWater(kept)]]
       /\ live' = [live EXCEPT ![d] = [f \in Devices |-> Unconsumed(kept, f)]]
       /\ sends' = [k \in Keys |-> sends[k] + Adopted(k[1] = d /\ j.out[k[2]] # None
                                                       /\ journal[d].out[k[2]] = None)]
       /\ accepts' = [k \in Keys |-> accepts[k] + Adopted(j.inn[k] # None
                                                           /\ journal[d].inn[k] = None)]
       /\ paged' = [paged EXCEPT ![d] = {k \in @ : journal[d].inn[k] # None \/ j.inn[k] = None}]
       /\ taken' = [k \in Keys |-> taken[k] + Adopted(k \in Inbox(d) /\ j.inn[k].consumed)]
  /\ tail' = [tail EXCEPT ![d] = None]
  /\ lease' = [lease EXCEPT ![d] = [id \in Ids |-> 0]]
  /\ UNCHANGED <<attempt, cursor>>

Older(age, most) == IF age < most THEN age + 1 ELSE age

Aged(j) ==
  [out |-> [id \in Ids |-> IF j.out[id] = None THEN None
                           ELSE [j.out[id] EXCEPT !.age = Older(@, Retention)]],
   inn |-> [k \in Keys |-> IF j.inn[k] = None \/ ~j.inn[k].consumed THEN j.inn[k]
                           ELSE [j.inn[k] EXCEPT !.age = Older(@, Retention)]],
   hi  |-> j.hi]

\* Timers bound how long an attempt and the handler it reached take.
Tick ==
  /\ \A t \in Slots : attempt[t] # None => attempt[t].age < Timeout
  /\ attempt' = [t \in Slots |-> IF attempt[t] = None THEN None
                                 ELSE [attempt[t] EXCEPT !.age = @ + 1]]
  /\ journal' = [d \in Devices |-> Aged(journal[d])]
  /\ tail' = [d \in Devices |-> IF tail[d] = None THEN None ELSE Aged(tail[d])]
  /\ lease' = [d \in Devices |-> [id \in Ids |-> IF lease[d][id] > 0 THEN lease[d][id] - 1 ELSE 0]]
  /\ UNCHANGED <<up, live, cursor, paged, History>>

NoRecords == [out |-> [id \in Ids |-> None], inn |-> [k \in Keys |-> None], hi |-> 0]

Init ==
  /\ up = [d \in Devices |-> FALSE]
  /\ journal = [d \in Devices |-> NoRecords]
  /\ tail = [d \in Devices |-> None]
  /\ live = [d \in Devices |-> [f \in Devices |-> 0]]
  /\ lease = [d \in Devices |-> [id \in Ids |-> 0]]
  /\ attempt = [t \in Slots |-> None]
  /\ cursor = [d \in Devices |-> 0]
  /\ paged = [d \in Devices |-> {}]
  /\ sends = [k \in Keys |-> 0]
  /\ accepts = [k \in Keys |-> 0]
  /\ taken = [k \in Keys |-> 0]

Next ==
  \/ \E d \in Devices, id \in Ids, t \in Slots :
       \/ \E p \in Devices, b \in Bodies : SendNew(d, id, p, b, t)
       \/ SendAgain(d, id, t)
       \/ Retry(d, id, t)
  \/ \E d \in Devices, id \in Ids : Expire(d, id)
  \/ \E t \in Slots : GetReceipt(t) \/ GetRefusal(t) \/ AttemptFails(t) \/ Handle(t) \/ Lose(t)
  \/ \E d \in Devices, k \in Keys : Consume(d, k)
  \/ \E d \in Devices : ReadPage(d) \/ Stop(d) \/ Start(d)
  \/ Tick

Spec == Init /\ [][Next]_vars
-----------------------------------------------------------------------------
(* Properties.                                                             *)

\* The journal, the counters and the attempts are well formed, and no sender
\* has more than its quota unconsumed.
TypeOK ==
  /\ up \in [Devices -> BOOLEAN]
  /\ journal \in [Devices -> Journal]
  /\ tail \in [Devices -> Journal \cup {None}]
  /\ live \in [Devices -> [Devices -> 0..Quota]]
  /\ lease \in [Devices -> [Ids -> 0..Lease]]
  /\ attempt \in [Slots -> Attempt \cup {None}]
  /\ cursor \in [Devices -> Nat]
  /\ paged \in [Devices -> SUBSET Keys]
  /\ sends \in [Keys -> Nat]
  /\ accepts \in [Keys -> Nat]
  /\ taken \in [Keys -> Nat]

\* A message enters the receiver's inbox no more often than its sender queued
\* it, though it is retried, its receipt is lost, either side restarts and the
\* receiver forgets what was consumed.
DeliveredOnce == \A k \in Keys : accepts[k] <= sends[k]

\* live_inbound, which is never recounted while the engine runs, is the number
\* of unconsumed messages of the sender.
LiveIsExact ==
  \A d \in Devices : up[d] =>
    \A f \in Devices : live[d][f] = Unconsumed(journal[d], f)

\* A consumer that pages with after_seq sees every message, though compaction
\* and restarts came in between: nothing in the inbox is behind its cursor
\* unseen.
CursorMissesNothing ==
  \A d \in Devices : \A k \in Inbox(d) :
    journal[d].inn[k].seq <= cursor[d] => k \in paged[d]

\* A message its sender settled is in the receiver's inbox with that very
\* payload, or a consumer there acknowledged it: the receipt is worth something
\* though appends fail and both engines stop at any point.
SettledIsKept ==
  \A d \in Devices, id \in Ids :
    LET rec == journal[d].out[id] IN
    rec # None /\ rec.state = "settled" =>
      \/ <<d, id>> \in Inbox(rec.peer) /\ journal[rec.peer].inn[<<d, id>>].body = rec.body
      \/ taken[<<d, id>>] > 0

\* A message whose sender has a receipt is in the recipient's journal, the
\* quota counts exactly what is there and is never exceeded, and paging by
\* sequence number misses nothing, through crashes, damaged tails and
\* compaction.
ReceiptsAreKept == TypeOK /\ SettledIsKept /\ LiveIsExact /\ CursorMissesNothing
=============================================================================
