--------------------------- MODULE LinuxCustodian ---------------------------
(***************************************************************************)
(* The custodian of the managed Linux runtime (linux-runtime/src:          *)
(* transaction.mjs, store.mjs, transport.mjs).  A cycle holds the store's  *)
(* lock, takes one delivery of the mailbox through prepare, claim,         *)
(* execution, reply and acknowledgement, and saves transaction.json before *)
(* each of them.  It may end anywhere: a request fails, the lease is lost, *)
(* the service is stopped, the process dies.  The next cycle goes on from  *)
(* the saved record.                                                       *)
(*                                                                         *)
(* The mailbox service is external: it grants a delivery to one claim at a *)
(* time until the lease runs out, keeps one event per idempotency key, and *)
(* acknowledges for the claim's holder.  Another runtime may claim what is *)
(* free.  A reply in transit may arrive long after its sender gave up.     *)
(* The clocks of runtime and service agree.                                *)
(***************************************************************************)
EXTENDS Integers, FiniteSets

CONSTANTS
  Deliveries, Texts,
  ReplyRequired,  \* the deliveries that ask for a reply
  MaxFailures,    \* known runner failures before quarantine
  MaxRetries,     \* bound: owner retries of a record
  None

VARIABLES
  rec,      \* transaction.json
  pc,       \* where the cycle that holds the lock is
  held,     \* what it holds in memory: the listed delivery or the text
  lease,    \* service: who holds the claim of a delivery
  acked,    \* service: who acknowledged it
  wire,     \* replies in transit
  events,   \* service: the reply events of this runtime
  runs,     \* history: runner starts of the record
  retries   \* history: owner retries of the record

service == <<lease, acked, wire, events>>
history == <<runs, retries>>
vars == <<rec, pc, held, lease, acked, wire, events, runs, retries>>

Recovery == {"executing", "replying", "replied"}
Phases == {"prepared", "claimed", "failed", "quarantined"} \cup Recovery
Points == {"idle", "listed", "claim", "owned", "inbound", "run", "running",
           "post", "posted", "ack", "acking", "acked"}

Record == [delivery : Deliveries, phase : Phases, failures : Nat,
           digest : Texts \cup {None}, receiptOnly : BOOLEAN, due : BOOLEAN]

ASSUME CustodianAssumption ==
  /\ ReplyRequired \subseteq Deliveries
  /\ MaxFailures \in Nat \ {0} /\ MaxRetries \in Nat
  /\ None \notin Deliveries \cup Texts \cup {"ours", "lapsed", "other"}
  /\ None \notin Record

NewRecord(d) ==
  [delivery |-> d, phase |-> "prepared", failures |-> 0, digest |-> None,
   receiptOnly |-> FALSE, due |-> TRUE]

-----------------------------------------------------------------------------
(* What the cycle relies on.                                               *)

\* assertOwner: the lease has not run out.
Owns == lease[rec.delivery] = "ours"

Saved(phase) == [rec EXCEPT !.phase = phase]

\* Mutant: the key is drawn anew for each attempt.
FreshReplyKey(r) == <<r.delivery, r.failures>>

\* deriveTrustedReplyIdempotencyKey
ReplyKey(r) == <<r.delivery>>

\* Mutant: any event with the key is taken for the reply.
KeyMatches(r, e) == e.key = ReplyKey(r)

\* matchReply: the event with the key has the text that was recorded.
MatchReply(r, e) == e.key = ReplyKey(r) /\ e.text = r.digest

\* The reply is there, from the answer to the post or from the history.
Found(r) == \E e \in events : MatchReply(r, e)

Quarantine ==
  /\ rec' = Saved("quarantined")
  /\ pc' = "idle" /\ held' = None

-----------------------------------------------------------------------------
(* The cycle.                                                              *)

\* list: one pending delivery.
List(d) ==
  /\ pc = "idle" /\ rec = None
  /\ acked[d] = None /\ lease[d] \in {None, "lapsed"}
  /\ held' = d /\ pc' = "listed"
  /\ UNCHANGED <<rec, service, history>>

Prepare ==
  /\ pc = "listed"
  /\ rec' = NewRecord(held)
  /\ held' = None /\ pc' = "claim"
  /\ runs' = 0 /\ retries' = 0
  /\ UNCHANGED service

\* A quarantined record and a failure that is not due end the cycle.
Resume ==
  /\ pc = "idle" /\ rec # None
  /\ rec.phase # "quarantined"
  /\ rec.phase = "failed" => rec.due
  /\ pc' = "claim"
  /\ UNCHANGED <<rec, held, service, history>>

\* The service grants a free delivery, or repeats its grant; whether it still
\* does after this runtime's acknowledgement is its own choice.
Claim ==
  /\ pc = "claim"
  /\ acked[rec.delivery] \in {None, "ours"}
  /\ lease[rec.delivery] # "other"
  /\ lease' = [lease EXCEPT ![rec.delivery] = "ours"]
  /\ pc' = "owned"
  /\ UNCHANGED <<rec, held, acked, wire, events, history>>

\* Mutant: an interrupted execution is taken up again.
RecoversReply(phase) == phase \in {"replying", "replied"}

Recovers(phase) == phase \in Recovery

\* The reply may have been sent: look for it, acknowledge or quarantine.
Recover ==
  /\ pc = "owned" /\ Recovers(rec.phase) /\ Owns
  /\ \/ /\ rec.receiptOnly /\ rec.phase = "replied"
        /\ pc' = "ack"
        /\ UNCHANGED <<rec, held>>
     \/ /\ ~rec.receiptOnly /\ Found(rec)
        /\ rec' = Saved("replied") /\ pc' = "ack"
        /\ UNCHANGED held
     \/ /\ IF rec.receiptOnly THEN rec.phase # "replied" ELSE ~Found(rec)
        /\ Quarantine
  /\ UNCHANGED <<service, history>>

Admit ==
  /\ pc = "owned" /\ ~Recovers(rec.phase) /\ Owns
  /\ rec' = Saved("claimed") /\ pc' = "inbound"
  /\ UNCHANGED <<held, service, history>>

\* A delivery that asks for no reply is only acknowledged.
Receipt ==
  /\ pc = "inbound" /\ Owns
  /\ rec.delivery \notin ReplyRequired
  /\ rec' = [Saved("replied") EXCEPT !.receiptOnly = TRUE]
  /\ pc' = "ack"
  /\ UNCHANGED <<held, service, history>>

Execute ==
  /\ pc = "inbound" /\ Owns
  /\ rec.delivery \in ReplyRequired
  /\ rec' = Saved("executing") /\ pc' = "run"
  /\ UNCHANGED <<held, service, history>>

StartRunner ==
  /\ pc = "run" /\ Owns
  /\ runs' = runs + 1 /\ pc' = "running"
  /\ UNCHANGED <<rec, held, service, retries>>

\* The runner reports a failure that is known to have done nothing.
RunnerFails ==
  /\ pc = "running" /\ Owns
  /\ LET count == rec.failures + 1 IN
       rec' = [rec EXCEPT !.phase = IF count >= MaxFailures THEN "quarantined"
                                    ELSE "failed",
                          !.failures = count, !.due = FALSE]
  /\ pc' = "idle"
  /\ UNCHANGED <<held, service, history>>

\* Any other failure, or a result that is no bounded text.
RunnerUnknown ==
  /\ pc = "running" /\ Owns
  /\ Quarantine
  /\ UNCHANGED <<service, history>>

RunnerReturns(t) ==
  /\ pc = "running" /\ Owns
  /\ rec' = [Saved("replying") EXCEPT !.digest = t]
  /\ held' = t /\ pc' = "post"
  /\ UNCHANGED <<service, history>>

Post ==
  /\ pc = "post" /\ Owns
  /\ wire' = wire \cup {[delivery |-> rec.delivery, key |-> ReplyKey(rec), text |-> held]}
  /\ held' = None /\ pc' = "posted"
  /\ UNCHANGED <<rec, lease, acked, events, history>>

\* The post is answered, or it fails and the history has the reply.
Replied ==
  /\ pc = "posted" /\ Owns /\ Found(rec)
  /\ rec' = Saved("replied") /\ pc' = "ack"
  /\ UNCHANGED <<held, service, history>>

\* The post fails and the history has no reply, or another text in its place.
Unresolved ==
  /\ pc = "posted" /\ Owns /\ ~Found(rec)
  /\ Quarantine
  /\ UNCHANGED <<service, history>>

\* transport.ack insists on a verified reply.
Verified(r) == r.phase = "replied" /\ (r.receiptOnly \/ r.digest # None)

SendAck ==
  /\ pc = "ack" /\ Owns /\ Verified(rec)
  /\ pc' = "acking"
  /\ UNCHANGED <<rec, held, service, history>>

\* The holder of the claim acknowledges the delivery; for anybody else the
\* service answers that it acknowledged none.
AckAnswered ==
  /\ pc = "acking"
  /\ acked' = IF acked[rec.delivery] = None /\ lease[rec.delivery] # "other"
              THEN [acked EXCEPT ![rec.delivery] = "ours"] ELSE acked
  /\ pc' = "acked"
  /\ UNCHANGED <<rec, held, lease, wire, events, history>>

Clear ==
  /\ pc = "acked" /\ Owns
  /\ rec' = None /\ pc' = "idle"
  /\ UNCHANGED <<held, service, history>>

\* An answer of the service that is not well formed.
InvalidAuthority ==
  /\ pc \in {"owned", "posted", "acking", "acked"} /\ rec.phase \in Recovery
  /\ Quarantine
  /\ UNCHANGED <<service, history>>

\* The cycle throws or the process dies: a request fails, a renewal fails,
\* the lease is over, the service is stopped.
CycleEnds ==
  /\ pc # "idle"
  /\ pc' = "idle" /\ held' = None
  /\ UNCHANGED <<rec, service, history>>

-----------------------------------------------------------------------------
(* The owner, time, the service and other runtimes.                        *)

\* retry: the failures stay counted, the recorded text is forgotten.
Retry ==
  /\ pc = "idle" /\ rec # None
  /\ rec.phase \in {"failed", "quarantined"} /\ retries < MaxRetries
  /\ rec' = [rec EXCEPT !.phase = "prepared", !.digest = None, !.due = TRUE]
  /\ retries' = retries + 1
  /\ UNCHANGED <<pc, held, service, runs>>

BackoffEnds ==
  /\ rec # None /\ ~rec.due
  /\ rec' = [rec EXCEPT !.due = TRUE]
  /\ UNCHANGED <<pc, held, service, history>>

\* One event per idempotency key.
PostArrives(m) ==
  /\ m \in wire
  /\ wire' = wire \ {m}
  /\ events' = IF \E e \in events : e.key = m.key THEN events ELSE events \cup {m}
  /\ UNCHANGED <<rec, pc, held, lease, acked, history>>

LeaseLapses(d) ==
  /\ lease[d] \in {"ours", "other"}
  /\ lease' = [lease EXCEPT ![d] = "lapsed"]
  /\ UNCHANGED <<rec, pc, held, acked, wire, events, history>>

OtherClaims(d) ==
  /\ acked[d] = None /\ lease[d] \in {None, "lapsed"}
  /\ lease' = [lease EXCEPT ![d] = "other"]
  /\ UNCHANGED <<rec, pc, held, acked, wire, events, history>>

OtherAcks(d) ==
  /\ acked[d] = None /\ lease[d] = "other"
  /\ acked' = [acked EXCEPT ![d] = "other"]
  /\ UNCHANGED <<rec, pc, held, lease, wire, events, history>>

-----------------------------------------------------------------------------
Init ==
  /\ rec = None /\ pc = "idle" /\ held = None
  /\ lease = [d \in Deliveries |-> None]
  /\ acked = [d \in Deliveries |-> None]
  /\ wire = {} /\ events = {}
  /\ runs = 0 /\ retries = 0

Cycle ==
  \/ \E d \in Deliveries : List(d)
  \/ Prepare \/ Resume \/ Claim \/ Recover \/ Admit \/ Receipt \/ Execute
  \/ StartRunner \/ RunnerFails \/ RunnerUnknown
  \/ \E t \in Texts : RunnerReturns(t)
  \/ Post \/ Replied \/ Unresolved \/ SendAck \/ AckAnswered \/ Clear
  \/ InvalidAuthority \/ CycleEnds

Outside ==
  \/ Retry \/ BackoffEnds
  \/ \E m \in wire : PostArrives(m)
  \/ \E d \in Deliveries : LeaseLapses(d) \/ OtherClaims(d) \/ OtherAcks(d)

Next == Cycle \/ Outside

Spec == Init /\ [][Next]_vars

-----------------------------------------------------------------------------
(* Properties.                                                             *)

\* A record that says replied (transaction.mjs:130, :197) has its own text in
\* the room, also after retries that produced other texts and after posts that
\* arrived late; a receipt-only one asks for none.
VerifiedReply ==
  rec # None /\ rec.phase = "replied" =>
    IF rec.receiptOnly THEN rec.delivery \notin ReplyRequired
    ELSE \E e \in events : e.delivery = rec.delivery /\ e.text = rec.digest

\* After its first start the runner of a record is started again only for a
\* known failure within the bound or by the owner (transaction.mjs:131, :155,
\* store.mjs:304): never after a crash, a lost lease or an unknown outcome.
RunsAccounted ==
  rec # None =>
    runs <= 1 + retries + (IF rec.failures < MaxFailures THEN rec.failures
                           ELSE MaxFailures - 1)

\* What the record says can be relied on: a reply it names is in the room, and
\* it accounts for every start of the runner.
RecordIsTrue == VerifiedReply /\ RunsAccounted

\* The record is removed only once its delivery is acknowledged
\* (transaction.mjs:202): an acknowledgement answered with none, because the
\* lease ran out and another runtime took over, does not count.
ClearedIsSettled ==
  [][rec # None /\ rec' = None => acked[rec.delivery] # None]_vars

\* The custodian keeps the promise of MailboxDelivery.
Delivery == INSTANCE MailboxDelivery WITH
  replies <- [d \in Deliveries |-> {e.text : e \in {x \in events : x.delivery = d}}],
  settled <- {d \in Deliveries : acked[d] = "ours"}

KeepsDelivery == Delivery!DeliverySpec
=============================================================================
