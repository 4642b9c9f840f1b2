---------------------------- MODULE CustodyProofs ---------------------------
(***************************************************************************)
(* What the custodians of deliveries promise, for every set of             *)
(* deliveries, callers, workers and items and every bound.  IInv           *)
(* is the Linux runtime's: which phase its record has at each point of a   *)
(* cycle, and which starts of the runner are still to be accounted for.    *)
(* ServiceInv is the transaction service's: a delivery whose claim may     *)
(* have been sent is covered by a durable record or by the server's        *)
(* acknowledgement, and a request on its way may be served whenever it     *)
(* arrives.  ClientInv is the polling client's: everything before the      *)
(* delivery in hand may be passed, and what a worker, or a late request of *)
(* one that died, would acknowledge has its reply.  DrainInv is the peer   *)
(* drain's: what was sent of a row is the row's text, a run that may still *)
(* begin has its licence, and the step in flight, which others' steps come *)
(* between, still finds the row in the phase it goes by.                   *)
(***************************************************************************)
EXTENDS MCCustody, FiniteSetTheorems, SequenceTheorems, WellFoundedInduction, TLAPS

(* The Linux runtime.                                                      *)
ReplyEvents == [delivery : ReplyRequired, key : {<<d>> : d \in Deliveries}, text : Texts]

\* The types of the record, the cycle and the service.
TypeOK ==
  /\ rec \in Record \cup {None}
  /\ pc \in Points
  /\ held \in Deliveries \cup Texts \cup {None}
  /\ lease \in [Deliveries -> {None, "ours", "lapsed", "other"}]
  /\ acked \in [Deliveries -> {None, "ours", "other"}]
  /\ wire \subseteq ReplyEvents /\ events \subseteq ReplyEvents
  /\ runs \in Nat /\ retries \in Nat

\* The phase that was saved before each point of the cycle.
PhaseAt ==
  /\ pc = "listed" => rec = None /\ held \in Deliveries
  /\ pc \notin {"idle", "listed"} => rec \in Record
  /\ pc \in {"claim", "owned"} => rec.phase # "quarantined"
  /\ pc = "inbound" => rec.phase = "claimed"
  /\ pc \in {"run", "running"} => rec.phase = "executing"
  /\ pc = "post" => rec.phase = "replying" /\ held = rec.digest /\ held \in Texts
  /\ pc = "posted" => rec.phase = "replying"
  /\ pc \in {"ack", "acking", "acked"} => rec.phase = "replied"

\* Who asks for a reply, and who does not.
AskedFor ==
  rec # None =>
    /\ rec.receiptOnly => rec.delivery \notin ReplyRequired
    /\ rec.phase \in {"executing", "replying"} => rec.delivery \in ReplyRequired
    /\ rec.phase = "failed" => rec.failures < MaxFailures

\* A reply has the key of its delivery, and a key has one event.
OneEventPerKey ==
  /\ \A m \in wire \cup events : m.key = <<m.delivery>>
  /\ \A e, f \in events : e.key = f.key => e = f

\* What this runtime acknowledged is answered, or asked for nothing.
AckedIsAnswered ==
  \A d \in Deliveries :
    acked[d] = "ours" => d \notin ReplyRequired \/ \E e \in events : e.delivery = d

\* A claim that was lost before the acknowledgement is not ours again before
\* the cycle ends.
AckHeard ==
  pc = "acked" => acked[rec.delivery] # None \/ lease[rec.delivery] \in {"lapsed", "other"}

Excused(n) == IF n < MaxFailures THEN n ELSE MaxFailures - 1

\* A record that has not reached the runner again has a start in hand.
StartsInHand ==
  rec # None =>
    runs <= retries + Excused(rec.failures)
            + (IF rec.phase \in {"prepared", "claimed", "failed"} \/ pc = "run"
               THEN 0 ELSE 1)

IInv ==
  /\ TypeOK
  /\ PhaseAt
  /\ AskedFor
  /\ OneEventPerKey
  /\ VerifiedReply
  /\ AckedIsAnswered
  /\ AckHeard
  /\ StartsInHand

-----------------------------------------------------------------------------
\* The service is new and no transaction is open.
LEMMA InitIInv == Init => IInv
BY CustodianAssumption
   DEF Init, IInv, TypeOK, PhaseAt, AskedFor, OneEventPerKey, VerifiedReply,
       AckedIsAnswered, AckHeard, StartsInHand, Points

\* The failures that excuse another start are counted up to the bound.
LEMMA ExcusedGrows ==
  ASSUME NEW n \in Nat
  PROVE  /\ Excused(n) \in Nat
         /\ Excused(n) <= Excused(n + 1)
         /\ n + 1 < MaxFailures => Excused(n + 1) = Excused(n) + 1
BY CustodianAssumption DEF Excused

\* What the other writes make of a record is a record.
LEMMA SavedRecord ==
  ASSUME rec \in Record
  PROVE  /\ \A p \in Phases : Saved(p) \in Record
         /\ \A t \in Texts : [Saved("replying") EXCEPT !.digest = t] \in Record
         /\ [Saved("replied") EXCEPT !.receiptOnly = TRUE] \in Record
BY DEF Saved, Record, Phases, Recovery

\* What RunnerFails makes of a record.
LEMMA FailedRecord ==
  ASSUME rec \in Record, RunnerFails
  PROVE  /\ rec' \in Record /\ rec'.failures = rec.failures + 1
         /\ rec'.delivery = rec.delivery /\ rec'.receiptOnly = rec.receiptOnly
         /\ rec'.phase = IF rec.failures + 1 >= MaxFailures
                         THEN "quarantined" ELSE "failed"
<1> DEFINE n == rec.failures + 1
           p == IF n >= MaxFailures THEN "quarantined" ELSE "failed"
<1>1. rec' = [rec EXCEPT !.phase = p, !.failures = n, !.due = FALSE]
  BY DEF RunnerFails
<1>2. n \in Nat /\ p \in Phases
  BY DEF Record, Phases
<1> HIDE DEF n, p
<1>3. /\ rec' \in Record /\ rec'.failures = n /\ rec'.phase = p
      /\ rec'.delivery = rec.delivery /\ rec'.receiptOnly = rec.receiptOnly
  BY <1>1, <1>2 DEF Record
<1> QED
  BY <1>3 DEF n, p

\* Every step of a cycle, of the owner, the service and others keeps it.
LEMMA NextIInv == IInv /\ [Next]_vars => IInv'
<1> SUFFICES ASSUME IInv, [Next]_vars PROVE IInv'
  OBVIOUS
<1> USE CustodianAssumption
    DEF IInv, TypeOK, PhaseAt, AskedFor, OneEventPerKey, VerifiedReply,
        AckedIsAnswered, AckHeard, StartsInHand, Points, Phases, Recovery,
        Record, service, history
<1>0. rec # None => rec.failures \in Nat /\ Excused(rec.failures) \in Nat
  BY ExcusedGrows
<1>1. ASSUME NEW d \in Deliveries, List(d) PROVE IInv'
  BY <1>1 DEF List
<1>2. CASE Prepare
  BY <1>2 DEF Prepare, NewRecord, Excused
<1>3. CASE Resume
  BY <1>3 DEF Resume
<1>4. CASE Claim
  BY <1>4 DEF Claim
<1>5. CASE Recover
  BY <1>5 DEF Recover, Recovers, Quarantine, Saved, Found, MatchReply, ReplyKey
<1>6. CASE Admit
  BY <1>6 DEF Admit, Recovers, Saved
<1>7. CASE Receipt
  <2>1. StartsInHand'
    BY <1>7, <1>0 DEF Receipt, Saved
  <2> QED
    BY <1>7, <2>1 DEF Receipt, Saved
<1>8. CASE Execute
  BY <1>8 DEF Execute, Saved
<1>9. CASE StartRunner
  BY <1>9, <1>0 DEF StartRunner
<1>10. CASE RunnerFails
  <2>1. /\ rec # None /\ rec'.failures = rec.failures + 1
        /\ rec'.delivery = rec.delivery /\ rec'.receiptOnly = rec.receiptOnly
        /\ rec'.phase = IF rec.failures + 1 >= MaxFailures
                        THEN "quarantined" ELSE "failed"
        /\ rec' \in Record
    <3>1. rec \in Record /\ rec # None
      BY <1>10 DEF RunnerFails
    <3> QED
      BY <1>10, <3>1, FailedRecord
  \* The failure that sends the record back pays for its next start.
  <2>2. runs <= retries + Excused(rec.failures) + 1
    BY <1>10, <2>1 DEF RunnerFails
  <2>3. /\ Excused(rec.failures + 1) \in Nat
        /\ Excused(rec.failures) <= Excused(rec.failures + 1)
        /\ rec.failures + 1 < MaxFailures =>
             Excused(rec.failures + 1) = Excused(rec.failures) + 1
    BY <2>1, <1>0, ExcusedGrows
  <2>4. StartsInHand'
    BY <1>10, <2>1, <2>2, <2>3, <1>0 DEF RunnerFails
  <2> QED
    BY <1>10, <2>1, <2>4 DEF RunnerFails
<1>11. CASE RunnerUnknown
  BY <1>11 DEF RunnerUnknown, Quarantine, Saved
<1>12. ASSUME NEW t \in Texts, RunnerReturns(t) PROVE IInv'
  BY <1>12 DEF RunnerReturns, Saved
<1>13. CASE Post
  <2> DEFINE m == [delivery |-> rec.delivery, key |-> <<rec.delivery>>, text |-> held]
  <2>1. m \in ReplyEvents /\ m.key = <<m.delivery>>
    BY <1>13 DEF Post, ReplyEvents
  <2>2. wire' = wire \cup {m}
    BY <1>13 DEF Post, ReplyKey
  <2>3. TypeOK' /\ OneEventPerKey'
    BY <1>13, <2>1, <2>2 DEF Post
  <2> QED
    BY <1>13, <2>3 DEF Post
<1>14. CASE Replied
  BY <1>14 DEF Replied, Saved, Found, MatchReply, ReplyKey
<1>15. CASE Unresolved
  BY <1>15 DEF Unresolved, Quarantine, Saved
<1>16. CASE SendAck
  BY <1>16 DEF SendAck
<1>17. CASE AckAnswered
  BY <1>17 DEF AckAnswered
<1>18. CASE Clear
  BY <1>18 DEF Clear
<1>19. CASE InvalidAuthority
  BY <1>19 DEF InvalidAuthority, Quarantine, Saved
<1>20. CASE CycleEnds
  BY <1>20, <1>0 DEF CycleEnds
<1>21. CASE Retry
  <2>1. /\ rec \in Record /\ rec' \in Record
        /\ rec'.phase = "prepared" /\ rec'.failures = rec.failures
        /\ rec'.delivery = rec.delivery /\ rec'.receiptOnly = rec.receiptOnly
    BY <1>21 DEF Retry
  <2>2. StartsInHand'
    BY <1>21, <2>1, <1>0 DEF Retry
  <2> QED
    BY <1>21, <2>1, <2>2 DEF Retry
<1>22. CASE BackoffEnds
  BY <1>22 DEF BackoffEnds
<1>23. ASSUME NEW m \in wire, PostArrives(m) PROVE IInv'
  BY <1>23 DEF PostArrives
<1>24. ASSUME NEW d \in Deliveries, LeaseLapses(d) PROVE IInv'
  BY <1>24 DEF LeaseLapses
<1>25. ASSUME NEW d \in Deliveries, OtherClaims(d) PROVE IInv'
  BY <1>25 DEF OtherClaims
<1>26. ASSUME NEW d \in Deliveries, OtherAcks(d) PROVE IInv'
  BY <1>26 DEF OtherAcks
<1>27. CASE UNCHANGED vars
  BY <1>27 DEF vars
<1> QED
  BY <1>1, <1>2, <1>3, <1>4, <1>5, <1>6, <1>7, <1>8, <1>9, <1>10, <1>11, <1>12, <1>13, <1>14, <1>15, <1>16, <1>17, <1>18, <1>19, <1>20, <1>21, <1>22, <1>23, <1>24, <1>25, <1>26, <1>27 DEF Next, Cycle, Outside

\* The invariant holds in every reachable state, whatever fails.
THEOREM Inductive == Spec => []IInv
BY InitIInv, NextIInv, PTL DEF Spec

-----------------------------------------------------------------------------
\* A record that says replied has its own text in the room, or is a receipt
\* nobody asked an answer to (transaction.mjs:130, :197).
THEOREM RepliesAreVerified == Spec => []VerifiedReply
<1>1. IInv => VerifiedReply
  BY DEF IInv
<1> QED
  BY <1>1, Inductive, PTL

\* The runner is started again only for a known failure within the bound or by
\* the owner (transaction.mjs:131, :155; store.mjs:304).
THEOREM RunsAreAccounted == Spec => []RunsAccounted
<1>1. IInv => RunsAccounted
  <2> SUFFICES ASSUME IInv, rec # None PROVE RunsAccounted
    BY DEF RunsAccounted
  <2>1. rec.failures \in Nat /\ runs \in Nat /\ retries \in Nat
    BY DEF IInv, TypeOK, Record
  <2>2. Excused(rec.failures) \in Nat
    BY <2>1, ExcusedGrows
  <2>3. runs <= 1 + retries + Excused(rec.failures)
    BY <2>1, <2>2 DEF IInv, StartsInHand
  <2> QED
    BY <2>3 DEF RunsAccounted, Excused
<1> QED
  BY <1>1, Inductive, PTL

\* A reply the record names is in the room, and the record accounts for every
\* start of the runner, for any deliveries, texts and bounds.
THEOREM RecordsAreTrue == Spec => []RecordIsTrue
BY RepliesAreVerified, RunsAreAccounted, PTL DEF RecordIsTrue

\* The record is removed only once its delivery is acknowledged
\* (transaction.mjs:202).
THEOREM ClearsAreSettled == Spec => ClearedIsSettled
<1>1. IInv /\ [Next]_vars =>
        [rec # None /\ rec' = None => acked[rec.delivery] # None]_vars
  <2> SUFFICES ASSUME IInv, [Next]_vars, rec # None, rec' = None
               PROVE  acked[rec.delivery] # None
    OBVIOUS
  <2>1. rec \in Record
    BY DEF IInv, TypeOK
  <2>2. CASE Clear
    BY <2>1, <2>2, CustodianAssumption
       DEF Clear, Owns, IInv, TypeOK, AckHeard, Record
  \* Every other step that writes the record writes a record.
  <2>3. CASE ~Clear
    <3> USE <2>1, CustodianAssumption DEF Phases, Recovery
    <3>1. CASE Recover \/ Admit \/ Receipt \/ Execute
      BY <3>1, SavedRecord DEF Recover, Admit, Receipt, Execute, Quarantine
    <3>2. CASE RunnerFails
      BY <3>2, FailedRecord
    <3>3. CASE RunnerUnknown \/ Unresolved \/ InvalidAuthority \/ Replied
      BY <3>3, SavedRecord DEF RunnerUnknown, Unresolved, InvalidAuthority, Replied, Quarantine
    <3>4. ASSUME NEW t \in Texts, RunnerReturns(t) PROVE FALSE
      BY <3>4, SavedRecord DEF RunnerReturns
    <3>5. CASE Retry \/ BackoffEnds
      BY <3>5 DEF Retry, BackoffEnds, Record
    <3>6. CASE Prepare
      BY <3>6 DEF Prepare, IInv, PhaseAt
    <3>7. CASE UNCHANGED rec
      BY <3>7
    <3> QED
      BY <2>3, <3>1, <3>2, <3>3, <3>4, <3>5, <3>6, <3>7
         DEF Next, Cycle, Outside, vars, List, Resume, Claim, StartRunner, Post,
             SendAck, AckAnswered, CycleEnds, PostArrives, LeaseLapses,
             OtherClaims, OtherAcks
  <2> QED
    BY <2>2, <2>3
<1> QED
  BY <1>1, Inductive, PTL DEF Spec, ClearedIsSettled

-----------------------------------------------------------------------------
TextsOf(evs, d) == {e.text : e \in {x \in evs : x.delivery = d}}
RepliesOf(evs) == [d \in Deliveries |-> TextsOf(evs, d)]
SettledOf(a) == {d \in Deliveries : a[d] = "ours"}

\* The custodian implements MailboxDelivery: one reply per delivery that never
\* changes, acknowledged only when it is there (transaction.mjs:121-205).
THEOREM Implements == Spec => KeepsDelivery
<1>1. Init => Delivery!DeliveryInit
  BY CustodianAssumption DEF Init, Delivery!DeliveryInit
<1>2. IInv /\ [Next]_vars =>
        [Delivery!DeliveryNext]_<<RepliesOf(events), SettledOf(acked)>>
  <2> SUFFICES ASSUME IInv, [Next]_vars
               PROVE  [Delivery!DeliveryNext]_<<RepliesOf(events), SettledOf(acked)>>
    OBVIOUS
  \* A post that arrives is the answer, unless there is one already.
  <2>1. ASSUME NEW m \in wire, PostArrives(m), events' # events
        PROVE  Delivery!Answer(m.delivery)
    <3>1. /\ m.delivery \in ReplyRequired /\ m.delivery \in Deliveries /\ m.text \in Texts
          /\ m.key = <<m.delivery>> /\ events' = events \cup {m}
          /\ \A e \in events : e.key = <<e.delivery>>
          /\ \A e \in events : e.key # m.key
          /\ acked' = acked
      BY <2>1, CustodianAssumption
         DEF PostArrives, IInv, TypeOK, OneEventPerKey, ReplyEvents
    <3>2. \A e \in events : e.delivery # m.delivery
      BY <3>1
    <3>3. TextsOf(events, m.delivery) = {}
      BY <3>2 DEF TextsOf
    <3>4. TextsOf(events', m.delivery) = {m.text}
      BY <3>1, <3>2 DEF TextsOf
    <3>5. \A d \in Deliveries \ {m.delivery} : TextsOf(events', d) = TextsOf(events, d)
      BY <3>1 DEF TextsOf
    <3>6. RepliesOf(events') = [RepliesOf(events) EXCEPT ![m.delivery] = {m.text}]
      BY <3>1, <3>4, <3>5 DEF RepliesOf
    <3>7. m.delivery \notin SettledOf(acked)
      BY <3>1, <3>2 DEF IInv, AckedIsAnswered, SettledOf
    <3> QED
      BY <3>1, <3>3, <3>6, <3>7
         DEF Delivery!Answer, RepliesOf, SettledOf, TextsOf
  \* An acknowledgement of ours settles what has its reply.
  <2>2. ASSUME NEW d \in Deliveries, d = rec.delivery, AckAnswered, acked' # acked
        PROVE  Delivery!Settle(d)
    <3>1. /\ acked' = [acked EXCEPT ![d] = "ours"]
          /\ rec # None /\ rec.phase = "replied" /\ events' = events
      BY <2>2, CustodianAssumption DEF AckAnswered, IInv, PhaseAt
    <3>2. d \notin ReplyRequired \/ \E e \in events : e.delivery = d
      BY <2>2, <3>1 DEF IInv, VerifiedReply, AskedFor
    <3>3. d \notin ReplyRequired \/ RepliesOf(events)[d] # {}
      BY <3>1, <3>2 DEF RepliesOf, TextsOf
    <3>4. SettledOf(acked') = SettledOf(acked) \cup {d}
      BY <3>1 DEF SettledOf, IInv, TypeOK
    <3> QED
      BY <3>1, <3>3, <3>4
         DEF Delivery!Settle, RepliesOf, TextsOf, SettledOf
  \* What another runtime acknowledges is not settled by this one.
  <2>3. ASSUME NEW d \in Deliveries, OtherAcks(d)
        PROVE  UNCHANGED <<RepliesOf(events), SettledOf(acked)>>
    <3>1. SettledOf(acked') = SettledOf(acked)
      BY <2>3, CustodianAssumption DEF OtherAcks, IInv, TypeOK, SettledOf
    <3> QED
      BY <2>3, <3>1 DEF OtherAcks, RepliesOf
  <2>4. CASE \E m \in wire : PostArrives(m)
    <3>1. PICK m \in wire : PostArrives(m)
      BY <2>4
    <3>2. CASE events' = events
      BY <3>1, <3>2 DEF PostArrives, RepliesOf, SettledOf
    <3>3. CASE events' # events
      <4>1. Delivery!Answer(m.delivery) /\ m.delivery \in Deliveries
        BY <3>1, <3>3, <2>1, CustodianAssumption DEF IInv, TypeOK, ReplyEvents
      <4> QED
        BY <4>1 DEF Delivery!DeliveryNext
    <3> QED
      BY <3>2, <3>3
  <2>5. CASE AckAnswered
    <3>1. CASE acked' = acked
      BY <2>5, <3>1 DEF AckAnswered, RepliesOf, SettledOf
    <3>2. CASE acked' # acked
      <4>1. PICK d \in Deliveries : d = rec.delivery
        BY <2>5, CustodianAssumption DEF AckAnswered, IInv, TypeOK, PhaseAt, Record
      <4>2. Delivery!Settle(d)
        BY <2>5, <3>2, <4>1, <2>2
      <4> QED
        BY <4>2 DEF Delivery!DeliveryNext
    <3> QED
      BY <3>1, <3>2
  <2>6. CASE UNCHANGED <<events, acked>>
    BY <2>6 DEF RepliesOf, SettledOf
  <2>7. \/ UNCHANGED <<events, acked>> \/ AckAnswered
        \/ \E m \in wire : PostArrives(m)
        \/ \E d \in Deliveries : OtherAcks(d)
    BY DEF Next, Cycle, Outside, vars, service, List, Prepare, Resume, Claim,
           Recover, Admit, Receipt, Execute, StartRunner, RunnerFails,
           RunnerUnknown, RunnerReturns, Post, Replied, Unresolved, SendAck,
           Clear, InvalidAuthority, CycleEnds, Retry, BackoffEnds,
           LeaseLapses, OtherClaims
  <2> QED
    BY <2>3, <2>4, <2>5, <2>6, <2>7
<1> QED
  BY <1>1, <1>2, Inductive, PTL
     DEF Spec, KeepsDelivery, Delivery!DeliverySpec, RepliesOf, SettledOf, TextsOf

-----------------------------------------------------------------------------
(* The transaction service of the mailbox helper.                         *)
\* A set of numbers has a smallest one.
LEMMA SmallestExists ==
  ASSUME NEW A, A \subseteq Nat, A # {} PROVE \E x \in A : \A y \in A : x =< y
<1>1. \E x \in A : \A y \in A : ~ (<<y, x>> \in OpToRel(<, Nat))
  BY NatLessThanWellFounded, WFMin
<1>2. PICK x \in A : \A y \in A : ~ (<<y, x>> \in OpToRel(<, Nat))
  BY <1>1
<1>3. ASSUME NEW y \in A PROVE x =< y
  <2>1. x \in Nat /\ y \in Nat
    OBVIOUS
  <2>2. ~ (y < x)
    BY <1>2, <2>1 DEF OpToRel
  <2> QED BY <2>1, <2>2
<1> QED BY <1>3

TxnFields(t) == t = [d |-> t.d, own |-> t.own, need |-> t.need, st |-> t.st, fails |-> t.fails]

CallFields(k) ==
  k = [pc |-> k.pc, txn |-> k.txn, fresh |-> k.fresh, settle |-> k.settle, text |-> k.text]

\* A delivery the helper may have claimed is acknowledged (a), the open one
\* (o) or in quarantine (q).
Covered(d, o, a, q) == d \in a \/ o = d \/ q[d] # Service!Absent

\* A delivery that may be acknowledged has its reply (R), or asked for none.
Answerable(d, R) == R[d] # {} \/ d \notin Asked

\* What a record says of its delivery is so.
TxnOK(t, R) ==
  /\ TxnFields(t)
  /\ t.d \in Mail \cup {0}
  /\ t.d # 0 => t.own # Service!Absent /\ (t.need \/ t.d \notin Asked)
  /\ t.st = "replied" => t.d \in Mail /\ R[t.d] # {}

\* A request that is on its way may be served whenever it arrives.
RequestOK(kind, d, text, o, a, q, R) ==
  /\ d \in Mail /\ kind \in {"post", "reply", "ack"}
  /\ kind = "post" => Covered(d, o, a, q)
  /\ kind = "reply" => text \in Replies
  /\ kind = "ack" => Answerable(d, R)

\* A helper process: what it read is what it says, a snapshot that is fresh is
\* of the open delivery, and each step's request is one that may be served.
CallOK(k, o, a, q, R) ==
  /\ CallFields(k) /\ TxnOK(k.txn, R)
  /\ k.pc # "idle" => k.txn.d \in Mail
  /\ k.fresh => o = k.txn.d /\ o # 0
  /\ k.pc \in {"post", "reply", "ack"} => RequestOK(k.pc, k.txn.d, k.text, o, a, q, R)
  /\ k.pc = "clear" => k.txn.d \in a
  /\ k.pc = "replied" => R[k.txn.d] # {}

ServiceInv ==
  /\ TxnOK(open, replies)
  /\ call = [c \in Callers |-> call[c]]
  /\ \A c \in Callers : CallOK(call[c], open.d, told, quar, replies)
  /\ \A r \in late : RequestOK(r.kind, r.d, r.text, open.d, told, quar, replies)
  /\ quar = [d \in Mail |-> quar[d]] /\ claim = [d \in Mail |-> claim[d]]
  /\ replies \in [Mail -> SUBSET Replies]
  /\ \A d \in Mail : claim[d] = "ours" => Covered(d, open.d, told, quar)
  /\ settled \subseteq Mail /\ \A d \in settled : Answerable(d, replies)

\* The server's part grows: nothing is taken back.
Grows(o, a, q, R, o2, a2, q2, R2) ==
  /\ \A d \in Mail : Covered(d, o, a, q) => Covered(d, o2, a2, q2)
  /\ \A d \in Mail : R[d] # {} => R2[d] # {}
  /\ \A d \in Mail : d \in a => d \in a2

\* What a record says of the replies stays true as the mailbox grows;
LEMMA TxnGrows ==
  ASSUME NEW t, NEW o, NEW a, NEW q, NEW R, NEW o2, NEW a2, NEW q2, NEW R2,
         Grows(o, a, q, R, o2, a2, q2, R2), TxnOK(t, R)
  PROVE  TxnOK(t, R2)
  BY DEF TxnOK, Grows

\* so does what a request on its way says,
LEMMA RequestGrows ==
  ASSUME NEW kind, NEW d, NEW text, NEW o, NEW a, NEW q, NEW R, NEW o2, NEW a2, NEW q2, NEW R2,
         Grows(o, a, q, R, o2, a2, q2, R2), RequestOK(kind, d, text, o, a, q, R)
  PROVE  RequestOK(kind, d, text, o2, a2, q2, R2)
  BY DEF RequestOK, Grows, Answerable

\* and a call, as long as nobody opens a transaction behind a fresh one.
LEMMA CallGrows ==
  ASSUME NEW k, NEW o, NEW a, NEW q, NEW R, NEW o2, NEW a2, NEW q2, NEW R2,
         Grows(o, a, q, R, o2, a2, q2, R2), CallOK(k, o, a, q, R), k.fresh => o2 = o
  PROVE  CallOK(k, o2, a2, q2, R2)
<1>1. TxnOK(k.txn, R2)
  BY TxnGrows DEF CallOK
<1>2. k.pc \in {"post", "reply", "ack"} => RequestOK(k.pc, k.txn.d, k.text, o2, a2, q2, R2)
  BY RequestGrows DEF CallOK
<1> QED BY <1>1, <1>2 DEF CallOK, Grows

\* A caller at rest promises nothing.
LEMMA IdleOK ==
  ASSUME NEW o, NEW a, NEW q, NEW R PROVE CallOK(Service!Idle, o, a, q, R)
<1>1. TxnOK(Service!NoTxn, R)
  BY DEF Service!NoTxn, TxnOK, TxnFields, Service!Absent
<1> QED BY <1>1 DEF CallOK, Service!Idle, CallFields, Service!NoTxn

\* The record with another state or another count of failures.
LEMMA TxnStates ==
  ASSUME NEW t, NEW R, TxnOK(t, R), NEW s, s = "replied" => t.d \in Mail /\ R[t.d] # {}
  PROVE  LET u == [t EXCEPT !.st = s] IN TxnOK(u, R) /\ u.d = t.d /\ u.st = s /\ u.need = t.need
<1> DEFINE u == [t EXCEPT !.st = s]
<1>1. u = [d |-> t.d, own |-> t.own, need |-> t.need, st |-> s, fails |-> t.fails]
  BY DEF TxnOK, TxnFields
<1> HIDE DEF u
<1>2. u.d = t.d /\ u.own = t.own /\ u.need = t.need /\ u.st = s /\ u.fails = t.fails
  BY <1>1
<1>3. TxnFields(u)
  BY <1>1, <1>2 DEF TxnFields
<1>4. TxnOK(u, R)
  BY <1>2, <1>3 DEF TxnOK
<1> QED BY <1>2, <1>4 DEF u

\* The count of failures is of no account.
LEMMA TxnFails ==
  ASSUME NEW t, NEW R, TxnOK(t, R), NEW n
  PROVE  LET u == [t EXCEPT !.fails = n] IN TxnOK(u, R) /\ u.d = t.d
<1> DEFINE u == [t EXCEPT !.fails = n]
<1>1. u = [d |-> t.d, own |-> t.own, need |-> t.need, st |-> t.st, fails |-> n]
  BY DEF TxnOK, TxnFields
<1> HIDE DEF u
<1>2. u.d = t.d /\ u.own = t.own /\ u.need = t.need /\ u.st = t.st /\ u.fails = n
  BY <1>1
<1>3. TxnFields(u)
  BY <1>1, <1>2 DEF TxnFields
<1>4. TxnOK(u, R)
  BY <1>2, <1>3 DEF TxnOK
<1> QED BY <1>2, <1>4 DEF u

\* A step of one helper that writes nothing durable.
LEMMA CallSteps ==
  ASSUME ServiceInv, NEW c \in Callers, NEW k, call' = [call EXCEPT ![c] = k],
         CallOK(k, open.d, told, quar, replies),
         UNCHANGED <<open, quar, late, claim, told, replies, settled>>
  PROVE  ServiceInv'
<1>1. call' = [x \in Callers |-> call'[x]] /\ call'[c] = k /\ \A x \in Callers \ {c} : call'[x] = call[x]
  BY DEF ServiceInv
<1>2. \A x \in Callers : CallOK(call'[x], open.d, told, quar, replies)
  BY <1>1 DEF ServiceInv
<1> QED BY <1>1, <1>2 DEF ServiceInv

\* A command that reads the record and goes on with it.
LEMMA ReadsOK ==
  ASSUME ServiceInv, NEW c \in Callers, NEW p \in {"reply", "ack", "fail", "abandon"}, NEW text,
         open.d # 0, Service!Reads(c, p, text),
         p = "reply" => text \in Replies, p = "ack" => Answerable(open.d, replies),
         UNCHANGED <<open, quar, late, claim, told, replies, settled>>
  PROVE  ServiceInv'
<1> DEFINE k == [pc |-> p, txn |-> open, fresh |-> TRUE, settle |-> FALSE, text |-> text]
<1>1. /\ k.pc = p /\ k.txn = open /\ k.text = text /\ CallFields(k)
  BY DEF CallFields
<1>2. call' = [call EXCEPT ![c] = k]
  BY DEF Service!Reads
<1>3. TxnOK(open, replies) /\ open.d \in Mail
  BY DEF ServiceInv, TxnOK
<1> HIDE DEF k
<1>4. CallOK(k, open.d, told, quar, replies)
  BY <1>1, <1>3 DEF CallOK, RequestOK
<1> QED BY <1>2, <1>4, CallSteps

\* A command that goes for a claim keeps what it wants in memory.
LEMMA WantsOK ==
  ASSUME ServiceInv, NEW c \in Callers, NEW d \in Mail, NEW need, NEW settle,
         Service!Wants(c, d, need, settle), need \/ d \notin Asked,
         UNCHANGED <<open, quar, late, claim, told, replies, settled>>
  PROVE  ServiceInv'
<1> DEFINE t == Service!Txn(d, Owner[c], need)
           k == [Service!Idle EXCEPT !.pc = "claim", !.settle = settle, !.txn = t]
<1>0. call' = [call EXCEPT ![c] = k]
  BY DEF Service!Wants
<1>1. k = [pc |-> "claim", txn |-> t, fresh |-> FALSE, settle |-> settle, text |-> Service!Absent]
  <2>1. PICK no : no = FALSE
    OBVIOUS
  <2>2. Service!Idle = [pc |-> "idle", txn |-> Service!NoTxn, fresh |-> no, settle |-> no, text |-> Service!Absent]
    BY <2>1, Zenon DEF Service!Idle
  <2> DEFINE k1 == [Service!Idle EXCEPT !.pc = "claim"]
             k2 == [k1 EXCEPT !.settle = settle]
  <2>3. k1 = [pc |-> "claim", txn |-> Service!NoTxn, fresh |-> no, settle |-> no, text |-> Service!Absent]
    BY <2>2
  <2>4. k = [k2 EXCEPT !.txn = t]
    OBVIOUS
  <2> HIDE DEF k1
  <2>5. k2 = [pc |-> "claim", txn |-> Service!NoTxn, fresh |-> no, settle |-> settle, text |-> Service!Absent]
    BY <2>3
  <2> HIDE DEF k2, k, t
  <2>6. k = [pc |-> "claim", txn |-> t, fresh |-> no, settle |-> settle, text |-> Service!Absent]
    BY <2>4, <2>5
  <2> QED BY <2>6, <2>1, Zenon
<1>2. t = [d |-> d, own |-> Owner[c], need |-> need, st |-> "prepared", fails |-> 0]
  BY DEF Service!Txn
<1> HIDE DEF t
<1>3. TxnFields(t) /\ t.d = d /\ t.own = Owner[c] /\ t.need = need /\ t.st = "prepared"
  BY <1>2 DEF TxnFields
<1>4. Owner[c] # Service!Absent /\ d # 0
  BY ServiceConstants DEF Service!MailboxAssumption
<1>5. TxnOK(t, replies)
  BY <1>3, <1>4 DEF TxnOK
<1> HIDE DEF k
<1>6. CallFields(k) /\ k.pc = "claim" /\ k.txn = t /\ ~k.fresh
  BY <1>1 DEF CallFields
<1>7. CallOK(k, open.d, told, quar, replies)
  BY <1>3, <1>5, <1>6 DEF CallOK
<1> QED BY <1>0, <1>7, CallSteps

\* A command that ends.
LEMMA ReturnsOK ==
  ASSUME ServiceInv, NEW c \in Callers, Service!Returns(c),
         UNCHANGED <<open, quar, late, claim, told, replies, settled>>
  PROVE  ServiceInv'
<1>1. call' = [call EXCEPT ![c] = Service!Idle]
  BY DEF Service!Returns
<1> QED BY <1>1, IdleOK, CallSteps

\* The commands that begin with what open.json says.
LEMMA CommandsOK ==
  ASSUME ServiceInv, NEW c \in Callers,
         \/ \E scope \in Scopes : \/ Service!ResumeReceipt(c, scope)
                                  \/ \E b \in BOOLEAN : Service!ClaimNext(c, scope, b)
         \/ \E d \in Mail, b \in BOOLEAN : Service!ExplicitClaim(c, d, b)
         \/ Service!Ack(c) \/ (\E t \in Replies : Service!Reply(c, t))
         \/ Service!BeginFailure(c) \/ Service!BeginAbandon(c)
  PROVE  ServiceInv'
<1> USE DEF Service!server, Service!Readable
<1>0. TxnOK(open, replies)
  BY DEF ServiceInv
<1>1. ASSUME NEW scope \in Scopes, Service!ResumeReceipt(c, scope) PROVE ServiceInv'
  <2>1. open.d # 0 /\ ~open.need /\ Service!Reads(c, "ack", Service!Absent) /\ UNCHANGED <<open, quar, late, claim, told, replies, settled>>
    BY <1>1 DEF Service!ResumeReceipt
  <2>2. Answerable(open.d, replies)
    BY <2>1, <1>0 DEF TxnOK, Answerable
  <2> QED BY <2>1, <2>2, ReadsOK
<1>2. ASSUME NEW scope \in Scopes, NEW b \in BOOLEAN, Service!ClaimNext(c, scope, b) PROVE ServiceInv'
  <2> DEFINE d == Service!Min(Service!Actionable(c, scope))
  <2>1. /\ Service!Actionable(c, scope) # {}
        /\ Service!Wants(c, d, d \in Asked, d \notin Asked) /\ UNCHANGED <<open, quar, late, claim, told, replies, settled>>
    BY <1>2 DEF Service!ClaimNext
  <2>2. d \in Mail
    <3> DEFINE A == Service!Actionable(c, scope)
    <3>1. A \subseteq Mail /\ A # {} /\ Mail \subseteq Nat
      BY <2>1, ServiceConstants DEF Service!Actionable, Service!Pending, Service!MailboxAssumption
    <3> HIDE DEF A
    <3>2. \E x \in A : \A y \in A : x =< y
      BY <3>1, SmallestExists
    <3>3. d = CHOOSE x \in A : \A y \in A : x =< y
      BY DEF Service!Min, A
    <3> HIDE DEF d
    <3> QED BY <3>1, <3>2, <3>3
  <2> HIDE DEF d
  <2>3. PICK need, settle : need = (d \in Asked) /\ settle = (d \notin Asked)
    OBVIOUS
  <2> QED BY <2>1, <2>2, <2>3, WantsOK
<1>3. ASSUME NEW d \in Mail, NEW b \in BOOLEAN, Service!ExplicitClaim(c, d, b) PROVE ServiceInv'
  <2>1. Service!Wants(c, d, b => d \in Asked, FALSE) /\ UNCHANGED <<open, quar, late, claim, told, replies, settled>>
    BY <1>3 DEF Service!ExplicitClaim
  <2>2. PICK need, settle : need = (b => d \in Asked) /\ settle = FALSE
    OBVIOUS
  <2>3. need \/ d \notin Asked
    BY <2>2
  <2> QED BY <2>1, <2>2, <2>3, WantsOK
<1>4. CASE Service!Ack(c)
  <2>1. open.d # 0 /\ open.st = "replied" /\ Service!Reads(c, "ack", Service!Absent) /\ UNCHANGED <<open, quar, late, claim, told, replies, settled>>
    BY <1>4 DEF Service!Ack
  <2>2. Answerable(open.d, replies)
    BY <2>1, <1>0 DEF TxnOK, Answerable
  <2> QED BY <2>1, <2>2, ReadsOK
<1>5. ASSUME NEW t \in Replies, Service!Reply(c, t) PROVE ServiceInv'
  <2>1. open.d # 0 /\ Service!Reads(c, "reply", t) /\ UNCHANGED <<open, quar, late, claim, told, replies, settled>>
    BY <1>5 DEF Service!Reply
  <2> QED BY <2>1, ReadsOK
<1>6. CASE Service!BeginFailure(c)
  <2>1. open.d # 0 /\ Service!Reads(c, "fail", Service!Absent) /\ UNCHANGED <<open, quar, late, claim, told, replies, settled>>
    BY <1>6 DEF Service!BeginFailure
  <2> QED BY <2>1, ReadsOK
<1>7. CASE Service!BeginAbandon(c)
  <2>1. open.d # 0 /\ Service!Reads(c, "abandon", Service!Absent) /\ UNCHANGED <<open, quar, late, claim, told, replies, settled>>
    BY <1>7 DEF Service!BeginAbandon
  <2> QED BY <2>1, ReadsOK
<1> QED BY <1>1, <1>2, <1>3, <1>4, <1>5, <1>6, <1>7

\* What a step has to show when the durable state or the server changes.
LEMMA ServiceKept ==
  ASSUME ServiceInv, TxnOK(open', replies'),
         Grows(open.d, told, quar, replies, (open').d, told', quar', replies'),
         call' = [x \in Callers |-> call'[x]],
         \A x \in Callers : CallOK(call'[x], (open').d, told', quar', replies'),
         \A r \in late' : r \in late \/ RequestOK(r.kind, r.d, r.text, open.d, told, quar, replies),
         quar' = [d \in Mail |-> quar'[d]], claim' = [d \in Mail |-> claim'[d]],
         replies' \in [Mail -> SUBSET Replies],
         \A d \in Mail : claim'[d] = "ours" => claim[d] = "ours" \/ Covered(d, open.d, told, quar),
         settled' \subseteq Mail, \A d \in settled' : d \in settled \/ Answerable(d, replies)
  PROVE  ServiceInv'
<1>1. \A r \in late' : RequestOK(r.kind, r.d, r.text, open.d, told, quar, replies)
  BY DEF ServiceInv
<1>2. \A r \in late' : RequestOK(r.kind, r.d, r.text, (open').d, told', quar', replies')
  BY <1>1, RequestGrows
<1>3. \A d \in Mail : claim'[d] = "ours" => Covered(d, (open').d, told', quar')
  BY DEF ServiceInv, Grows
<1>4. \A d \in settled' : Answerable(d, replies')
  BY DEF ServiceInv, Grows, Answerable
<1> QED BY <1>2, <1>3, <1>4 DEF ServiceInv

\* The snapshot of a helper at another step.
LEMMA CallAt ==
  ASSUME NEW k, CallFields(k), NEW p
  PROVE  LET m == [k EXCEPT !.pc = p, !.fresh = TRUE] IN
           CallFields(m) /\ m.pc = p /\ m.txn = k.txn /\ m.text = k.text
<1> DEFINE m1 == [k EXCEPT !.pc = p]
           m == [k EXCEPT !.pc = p, !.fresh = TRUE]
<1>0. PICK f : f = TRUE
  OBVIOUS
<1>1. m = [m1 EXCEPT !.fresh = f]
  BY <1>0, Zenon
<1>2. m1 = [pc |-> p, txn |-> k.txn, fresh |-> k.fresh, settle |-> k.settle, text |-> k.text]
  BY DEF CallFields
<1> HIDE DEF m1, m
<1>3. m = [pc |-> p, txn |-> k.txn, fresh |-> f, settle |-> k.settle, text |-> k.text]
  BY <1>1, <1>2
<1>4. CallFields(m) /\ m.pc = p /\ m.txn = k.txn /\ m.text = k.text
  BY <1>3 DEF CallFields
<1> QED BY <1>4 DEF m

\* Claiming a delivery and opening its transaction.
LEMMA ClaimOK ==
  ASSUME ServiceInv, NEW c \in Callers, Service!Claim(c) PROVE ServiceInv'
<1> DEFINE k == call[c]
           t == k.txn
<1>0. /\ UNCHANGED <<quar, late, claim, told, replies, settled>> /\ k.pc = "claim"
      /\ CallOK(k, open.d, told, quar, replies) /\ TxnOK(open, replies)
      /\ t.d \in Mail /\ TxnOK(t, replies) /\ CallFields(k) /\ 0 \notin Mail
  BY ServiceConstants DEF ServiceInv, Service!Claim, Service!server, Service!At, CallOK, Service!MailboxAssumption
<1>1. CASE /\ open.d = 0 /\ open' = t
           /\ call' = [call EXCEPT ![c].pc = "post", ![c].fresh = TRUE]
  <2> DEFINE m == [k EXCEPT !.pc = "post", !.fresh = TRUE]
  <2>1. CallFields(m) /\ m.pc = "post" /\ m.txn = t /\ m.text = k.text
    BY <1>0, CallAt
  <2>2. call' = [call EXCEPT ![c] = m]
    BY <1>1 DEF ServiceInv
  <2> HIDE DEF m
  <2>3. /\ call' = [x \in Callers |-> call'[x]] /\ call'[c] = m
        /\ \A x \in Callers \ {c} : call'[x] = call[x]
    BY <2>2 DEF ServiceInv
  <2>4. Grows(open.d, told, quar, replies, t.d, told, quar, replies)
    BY <1>0, <1>1 DEF Grows, Covered
  <2>5. CallOK(m, t.d, told, quar, replies)
    BY <1>0, <2>1 DEF CallOK, RequestOK, Covered
  <2>6. ASSUME NEW x \in Callers \ {c} PROVE CallOK(call[x], t.d, told, quar, replies)
    <3>1. CallOK(call[x], open.d, told, quar, replies)
      BY DEF ServiceInv
    <3>2. ~call[x].fresh
      BY <3>1, <1>1 DEF CallOK
    <3> QED BY <2>4, <3>1, <3>2, CallGrows
  <2>7. \A x \in Callers : CallOK(call'[x], t.d, told, quar, replies)
    BY <2>3, <2>5, <2>6
  <2>8. (open').d = t.d
    BY <1>1
  <2> QED BY <1>0, <1>1, <2>3, <2>4, <2>7, <2>8, ServiceKept DEF ServiceInv
<1>2. CASE /\ Service!Readable(c) /\ open.d = t.d /\ ~Service!Stuck(open)
           /\ LET p == IF open.st = "prepared" THEN "post"
                       ELSE IF k.settle /\ ~open.need /\ open.st = "claimed" THEN "ack"
                       ELSE "idle"
              IN call' = [call EXCEPT ![c] = IF p = "idle" THEN Service!Idle
                            ELSE [@ EXCEPT !.pc = p, !.txn = open, !.fresh = TRUE]]
           /\ UNCHANGED open
  <2> DEFINE p == IF open.st = "prepared" THEN "post"
                  ELSE IF k.settle /\ ~open.need /\ open.st = "claimed" THEN "ack"
                  ELSE "idle"
             m == IF p = "idle" THEN Service!Idle ELSE [k EXCEPT !.pc = p, !.txn = open, !.fresh = TRUE]
  <2>1. call' = [call EXCEPT ![c] = m]
    BY <1>2 DEF ServiceInv
  <2>2. CASE p = "idle"
    <3>1. call' = [call EXCEPT ![c] = Service!Idle]
      BY <2>1, <2>2
    <3> QED BY <3>1, <1>0, <1>2, IdleOK, CallSteps
  <2>3. CASE p # "idle"
    <3>1. p = "post" \/ (p = "ack" /\ ~open.need)
      BY <2>3
    <3>2. m = [k EXCEPT !.pc = p, !.txn = open, !.fresh = TRUE]
      BY <2>3
    <3> HIDE DEF p, m, k
    <3>3. CallFields(m) /\ m.pc = p /\ m.txn = open /\ m.text = k.text
      <4>1. CallFields(k)
        BY <1>0
      <4>2. PICK m1, m2, f : f = TRUE /\ m1 = [k EXCEPT !.pc = p] /\ m2 = [m1 EXCEPT !.txn = open]
        OBVIOUS
      <4>3. m = [m2 EXCEPT !.fresh = f]
        BY <3>2, <4>2, Zenon
      <4>4. m = [pc |-> p, txn |-> open, fresh |-> f, settle |-> k.settle, text |-> k.text]
        <5>1. m1 = [pc |-> p, txn |-> k.txn, fresh |-> k.fresh, settle |-> k.settle, text |-> k.text]
          BY <4>1, <4>2 DEF CallFields
        <5>2. m2 = [pc |-> p, txn |-> open, fresh |-> k.fresh, settle |-> k.settle, text |-> k.text]
          BY <5>1, <4>2
        <5> QED BY <5>2, <4>3
      <4> QED BY <4>4 DEF CallFields
    <3>4. open.d \in Mail
      BY <1>0, <1>2
    <3>5. CallOK(m, open.d, told, quar, replies)
      BY <1>0, <3>1, <3>3, <3>4 DEF CallOK, RequestOK, Covered, TxnOK, Answerable
    <3> QED BY <2>1, <3>5, <1>0, <1>2, CallSteps
  <2> QED BY <2>2, <2>3
<1>3. CASE Service!Returns(c) /\ UNCHANGED open
  BY <1>0, <1>3, ReturnsOK
<1> QED BY <1>1, <1>2, <1>3 DEF Service!Claim

\* The server's part of a request that may be served.
LEMMA ServeOK ==
  ASSUME ServiceInv, NEW kind, NEW d, NEW text,
         RequestOK(kind, d, text, open.d, told, quar, replies), Service!Serve(kind, d, text)
  PROVE  /\ Grows(open.d, told, quar, replies, open.d, told', quar, replies')
         /\ claim' = [e \in Mail |-> claim'[e]] /\ replies' \in [Mail -> SUBSET Replies]
         /\ \A e \in Mail : claim'[e] = "ours" => claim[e] = "ours" \/ Covered(e, open.d, told, quar)
         /\ settled' \subseteq Mail /\ \A e \in settled' : e \in settled \/ Answerable(e, replies)
         /\ kind = "ack" => d \in told'
         /\ kind = "reply" => replies'[d] # {}
         /\ [Service!Promise!DeliveryNext]_<<replies, settled>>
<1> USE DEF RequestOK
<1>1. /\ claim' = IF kind = "post" /\ d \in Service!Pending THEN [claim EXCEPT ![d] = "ours"] ELSE claim
      /\ replies' = IF kind = "reply" /\ replies[d] = {} THEN [replies EXCEPT ![d] = {text}] ELSE replies
      /\ told' = IF kind = "ack" THEN told \cup {d} ELSE told
      /\ settled' = IF kind = "ack" THEN settled \cup {d} ELSE settled
  BY DEF Service!Serve
<1>2. /\ claim = [e \in Mail |-> claim[e]] /\ replies \in [Mail -> SUBSET Replies] /\ settled \subseteq Mail
      /\ \A e \in settled : Answerable(e, replies)
  BY DEF ServiceInv
<1>3. replies' \in [Mail -> SUBSET Replies] /\ \A e \in Mail : replies[e] # {} => replies'[e] # {}
  BY <1>1, <1>2
<1>4. Grows(open.d, told, quar, replies, open.d, told', quar, replies')
  BY <1>1, <1>3 DEF Grows, Covered
<1>5. /\ claim' = [e \in Mail |-> claim'[e]]
      /\ \A e \in Mail : claim'[e] = "ours" => claim[e] = "ours" \/ Covered(e, open.d, told, quar)
  BY <1>1, <1>2
<1>6. settled' \subseteq Mail /\ \A e \in settled' : e \in settled \/ Answerable(e, replies)
  BY <1>1, <1>2
<1>7. (kind = "ack" => d \in told') /\ (kind = "reply" => replies'[d] # {})
  BY <1>1, <1>2
<1>8. [Service!Promise!DeliveryNext]_<<replies, settled>>
  <2>1. CASE kind = "reply" /\ replies[d] = {}
    <3>1. replies' = [replies EXCEPT ![d] = {text}] /\ text \in Replies /\ settled' = settled /\ d \in Mail
      BY <1>1, <2>1
    <3>2. d \in Asked => d \notin settled
      BY <1>2, <2>1 DEF Answerable
    <3>3. Service!Promise!Answer(d)
      BY <2>1, <3>1, <3>2 DEF Service!Promise!Answer
    <3> QED BY <3>1, <3>3 DEF Service!Promise!DeliveryNext
  <2>2. CASE kind = "ack"
    <3>1. Service!Promise!Settle(d)
      BY <1>1, <2>2 DEF Service!Promise!Settle, Answerable
    <3> QED BY <3>1 DEF Service!Promise!DeliveryNext
  <2>3. CASE ~(kind = "reply" /\ replies[d] = {}) /\ kind # "ack"
    BY <1>1, <2>3
  <2> QED BY <2>1, <2>2, <2>3
<1> QED BY <1>3, <1>4, <1>5, <1>6, <1>7, <1>8

\* A helper that has its answer goes on with the same snapshot.
LEMMA CallGoes ==
  ASSUME NEW k, CallFields(k), NEW p, NEW m, m = [k EXCEPT !.pc = p]
  PROVE  CallFields(m) /\ m.pc = p /\ m.txn = k.txn /\ m.text = k.text /\ m.fresh = k.fresh
<1>1. m = [pc |-> p, txn |-> k.txn, fresh |-> k.fresh, settle |-> k.settle, text |-> k.text]
  BY DEF CallFields
<1> QED BY <1>1 DEF CallFields

\* A request of a caller that the service answers.
LEMMA PostOK ==
  ASSUME ServiceInv, NEW c \in Callers, Service!Post(c)
  PROVE  ServiceInv' /\ [Service!Promise!DeliveryNext]_<<replies, settled>>
<1> DEFINE k == call[c]
           p == Service!Answered(c)
<1>0. /\ UNCHANGED <<open, quar, late>> /\ k.pc \in {"post", "reply", "ack"}
      /\ Service!Serve(k.pc, k.txn.d, k.text) /\ Service!Goes(c, p)
      /\ CallOK(k, open.d, told, quar, replies) /\ CallFields(k) /\ k.txn.d \in Mail
      /\ RequestOK(k.pc, k.txn.d, k.text, open.d, told, quar, replies)
      /\ call = [x \in Callers |-> call[x]] /\ TxnOK(open, replies)
  BY DEF ServiceInv, Service!Post, CallOK
<1>1. /\ Grows(open.d, told, quar, replies, open.d, told', quar, replies')
      /\ claim' = [e \in Mail |-> claim'[e]] /\ replies' \in [Mail -> SUBSET Replies]
      /\ \A e \in Mail : claim'[e] = "ours" => claim[e] = "ours" \/ Covered(e, open.d, told, quar)
      /\ settled' \subseteq Mail /\ \A e \in settled' : e \in settled \/ Answerable(e, replies)
      /\ k.pc = "ack" => k.txn.d \in told'
      /\ k.pc = "reply" => replies'[k.txn.d] # {}
      /\ [Service!Promise!DeliveryNext]_<<replies, settled>>
  <2> HIDE DEF k
  <2> QED BY <1>0, ServeOK
<1>2. \/ k.pc = "post" /\ p \in {"claimed", "idle"}
      \/ k.pc = "reply" /\ p = "replied"
      \/ k.pc = "ack" /\ p = "clear"
  BY <1>0 DEF Service!Answered, Service!At
<1>3. \A x \in Callers : CallOK(call[x], open.d, told', quar, replies')
  <2> SUFFICES ASSUME NEW x \in Callers PROVE CallOK(call[x], open.d, told', quar, replies')
    OBVIOUS
  <2>1. CallOK(call[x], open.d, told, quar, replies)
    BY DEF ServiceInv
  <2> QED BY <1>1, <2>1, CallGrows
<1> DEFINE m == IF p = "idle" THEN Service!Idle ELSE [k EXCEPT !.pc = p]
<1>4. call' = [call EXCEPT ![c] = m]
  BY <1>0 DEF Service!Goes, Service!Returns
<1>5. CallOK(m, open.d, told', quar, replies')
  <2>1. CASE p = "idle"
    BY <2>1, IdleOK
  <2>2. CASE p # "idle"
    <3>1. m = [k EXCEPT !.pc = p]
      BY <2>2
    <3>2. CallOK(k, open.d, told', quar, replies')
      BY <1>3
    <3> HIDE DEF m, k, p
    <3>3. CallFields(m) /\ m.pc = p /\ m.txn = k.txn /\ m.text = k.text /\ m.fresh = k.fresh
      BY <3>1, <1>0, CallGoes
    <3> QED BY <1>0, <1>1, <1>2, <2>2, <3>2, <3>3 DEF CallOK
  <2> QED BY <2>1, <2>2
<1> HIDE DEF m, k, p
<1>6. call' = [x \in Callers |-> call'[x]] /\ \A x \in Callers : CallOK(call'[x], open.d, told', quar, replies')
  BY <1>0, <1>3, <1>4, <1>5
<1>7. TxnOK(open', replies')
  BY <1>0, <1>1, TxnGrows
<1>8. ServiceInv'
  <2>1. quar' = quar /\ quar = [d \in Mail |-> quar[d]] /\ open' = open /\ late' = late
    BY <1>0 DEF ServiceInv
  <2> QED BY <1>1, <1>6, <1>7, <2>1, ServiceKept
<1> QED BY <1>1, <1>8

\* A request that arrives after its caller was killed.
LEMMA LateOK ==
  ASSUME ServiceInv, NEW r \in late, Service!ServeLate(r)
  PROVE  ServiceInv' /\ [Service!Promise!DeliveryNext]_<<replies, settled>>
<1>0. /\ UNCHANGED <<open, quar, call>> /\ late' \subseteq late
      /\ Service!Serve(r.kind, r.d, r.text) /\ RequestOK(r.kind, r.d, r.text, open.d, told, quar, replies)
      /\ TxnOK(open, replies) /\ quar = [d \in Mail |-> quar[d]] /\ call = [x \in Callers |-> call[x]]
  BY DEF ServiceInv, Service!ServeLate
<1>1. /\ Grows(open.d, told, quar, replies, open.d, told', quar, replies')
      /\ claim' = [e \in Mail |-> claim'[e]] /\ replies' \in [Mail -> SUBSET Replies]
      /\ \A e \in Mail : claim'[e] = "ours" => claim[e] = "ours" \/ Covered(e, open.d, told, quar)
      /\ settled' \subseteq Mail /\ \A e \in settled' : e \in settled \/ Answerable(e, replies)
      /\ [Service!Promise!DeliveryNext]_<<replies, settled>>
  BY <1>0, ServeOK
<1>3. \A x \in Callers : CallOK(call[x], open.d, told', quar, replies')
  <2> SUFFICES ASSUME NEW x \in Callers PROVE CallOK(call[x], open.d, told', quar, replies')
    OBVIOUS
  <2>1. CallOK(call[x], open.d, told, quar, replies)
    BY DEF ServiceInv
  <2> QED BY <1>1, <2>1, CallGrows
<1>4. TxnOK(open', replies')
  BY <1>0, <1>1, TxnGrows
<1>5. ServiceInv'
  BY <1>0, <1>1, <1>3, <1>4, ServiceKept
<1> QED BY <1>1, <1>5

\* The store replaces the record of the delivery it holds, or does nothing.
LEMMA ReplaceOK ==
  ASSUME ServiceInv, NEW c \in Callers, NEW t, TxnOK(t, replies), t.d = call[c].txn.d,
         Service!Replace(c, t), NEW m, CallOK(m, open.d, told, quar, replies),
         call' = [call EXCEPT ![c] = m],
         UNCHANGED <<quar, late, claim, told, replies, settled>>
  PROVE  ServiceInv'
<1>1. open' = (IF call[c].fresh THEN t ELSE open) /\ CallOK(call[c], open.d, told, quar, replies)
  BY DEF Service!Replace, ServiceInv
<1>2. (open').d = open.d /\ TxnOK(open', replies)
  BY <1>1 DEF CallOK, ServiceInv
<1>3. call' = [x \in Callers |-> call'[x]] /\ call'[c] = m /\ \A x \in Callers \ {c} : call'[x] = call[x]
  BY DEF ServiceInv
<1>4. \A x \in Callers : CallOK(call'[x], open.d, told, quar, replies)
  BY <1>3 DEF ServiceInv
<1> QED BY <1>2, <1>3, <1>4 DEF ServiceInv

\* Steps that write the outcome of a request into the transaction.
LEMMA RecordsOK ==
  ASSUME ServiceInv, NEW c \in Callers,
         Service!RecordClaimed(c) \/ Service!RecordReplied(c) \/ Service!RecordFailure(c)
  PROVE  ServiceInv'
<1> DEFINE k == call[c]
           t == k.txn
<1>0. CallOK(k, open.d, told, quar, replies) /\ TxnOK(t, replies) /\ CallFields(k) /\ call = [x \in Callers |-> call[x]]
  BY DEF ServiceInv, CallOK
<1>1. CASE Service!RecordClaimed(c)
  <2> DEFINE u == [t EXCEPT !.st = "claimed"]
  <2>1. /\ k.pc = "claimed" /\ Service!Replace(c, u) /\ UNCHANGED <<quar, late, claim, told, replies, settled>>
        /\ IF k.fresh /\ k.settle /\ ~t.need THEN Service!Goes(c, "ack") ELSE Service!Returns(c)
    BY <1>1 DEF Service!RecordClaimed, Service!At, Service!server
  <2>2. TxnOK(u, replies) /\ u.d = t.d
    BY <1>0, TxnStates
  <2> HIDE DEF u
  <2>3. CASE Service!Returns(c)
    <3>1. call' = [call EXCEPT ![c] = Service!Idle]
      BY <2>3 DEF Service!Returns
    <3> QED BY <2>1, <2>2, <3>1, IdleOK, ReplaceOK
  <2>4. CASE Service!Goes(c, "ack") /\ ~t.need
    <3> DEFINE m == [k EXCEPT !.pc = "ack"]
    <3>1. call' = [call EXCEPT ![c] = m]
      BY <2>4, <1>0 DEF Service!Goes
    <3>2. CallFields(m) /\ m.pc = "ack" /\ m.txn = t /\ m.text = k.text /\ m.fresh = k.fresh
      BY <1>0, CallGoes
    <3> HIDE DEF m
    <3>3. CallOK(m, open.d, told, quar, replies)
      BY <1>0, <2>1, <2>4, <3>2, ServiceConstants DEF CallOK, RequestOK, TxnOK, Answerable, Service!MailboxAssumption
    <3> QED BY <2>1, <2>2, <3>1, <3>3, ReplaceOK
  <2> QED BY <2>1, <2>3, <2>4
<1>2. CASE Service!RecordReplied(c)
  <2> DEFINE u == [t EXCEPT !.st = "replied"]
  <2>1. /\ k.pc = "replied" /\ Service!Replace(c, u) /\ UNCHANGED <<quar, late, claim, told, replies, settled>>
        /\ call' = [call EXCEPT ![c] = Service!Idle]
    BY <1>2 DEF Service!RecordReplied, Service!At, Service!server, Service!Returns
  <2>2. TxnOK(u, replies) /\ u.d = t.d
    <3>1. t.d \in Mail /\ replies[t.d] # {}
      BY <1>0, <2>1 DEF CallOK
    <3> QED BY <1>0, <3>1, TxnStates
  <2> HIDE DEF u
  <2> QED BY <2>1, <2>2, IdleOK, ReplaceOK
<1>3. CASE Service!RecordFailure(c)
  <2> DEFINE n == Service!Min({t.fails + 1, StuckAfter})
             u == [t EXCEPT !.fails = n]
  <2>1. /\ Service!Replace(c, u) /\ UNCHANGED <<quar, late, claim, told, replies, settled>>
        /\ call' = [call EXCEPT ![c] = Service!Idle]
    BY <1>3 DEF Service!RecordFailure, Service!server, Service!Returns
  <2> HIDE DEF n
  <2>2. TxnOK(u, replies) /\ u.d = t.d
    BY <1>0, TxnFails
  <2> HIDE DEF u
  <2> QED BY <2>1, <2>2, IdleOK, ReplaceOK
<1> QED BY <1>1, <1>2, <1>3

\* A snapshot of a record that is gone.
LEMMA CallStale ==
  ASSUME NEW k, CallFields(k), NEW m, m = [k EXCEPT !.fresh = FALSE]
  PROVE  CallFields(m) /\ m.pc = k.pc /\ m.txn = k.txn /\ m.text = k.text /\ ~m.fresh
<1>1. PICK f : f = FALSE
  OBVIOUS
<1>2. m = [k EXCEPT !.fresh = f]
  BY <1>1, Zenon
<1>3. m = [pc |-> k.pc, txn |-> k.txn, fresh |-> f, settle |-> k.settle, text |-> k.text]
  BY <1>2 DEF CallFields
<1> QED BY <1>1, <1>3 DEF CallFields

\* open.json goes, once its delivery is acknowledged or in quarantine.
LEMMA RemovesOK ==
  ASSUME ServiceInv, NEW c \in Callers, Service!Removes(c), open.d \in Mail,
         open.d \in told \/ quar'[open.d] # Service!Absent,
         quar' = [d \in Mail |-> quar'[d]], \A d \in Mail : quar[d] # Service!Absent => quar'[d] # Service!Absent,
         UNCHANGED <<late, claim, told, replies, settled>>
  PROVE  ServiceInv'
<1>1. /\ open' = Service!NoTxn /\ (open').d = 0 /\ call' = [x \in Callers |-> call'[x]]
      /\ \A x \in Callers : call'[x] = IF x = c THEN Service!Idle ELSE [call[x] EXCEPT !.fresh = FALSE]
  BY DEF Service!Removes, Service!NoTxn
<1>2. Grows(open.d, told, quar, replies, 0, told, quar', replies)
  BY DEF Grows, Covered
<1>3. TxnOK(open', replies)
  BY <1>1 DEF Service!NoTxn, TxnOK, TxnFields, Service!Absent
<1>4. ASSUME NEW x \in Callers PROVE CallOK(call'[x], 0, told, quar', replies)
  <2>1. CASE x = c
    BY <1>1, <2>1, IdleOK
  <2>2. CASE x # c
    <3>1. CallOK(call[x], open.d, told, quar, replies) /\ CallFields(call[x])
      BY DEF ServiceInv, CallOK
    <3>2. PICK k, m : k = call[x] /\ m = call'[x]
      OBVIOUS
    <3>3. m = [k EXCEPT !.fresh = FALSE]
      BY <1>1, <2>2, <3>2
    <3>4. CallFields(m) /\ m.pc = k.pc /\ m.txn = k.txn /\ m.text = k.text /\ ~m.fresh
      BY <3>1, <3>2, <3>3, CallStale
    <3>5. CallOK(m, open.d, told, quar, replies)
      BY <3>1, <3>2, <3>4 DEF CallOK
    <3>6. CallOK(m, 0, told, quar', replies)
      BY <1>2, <3>4, <3>5, CallGrows
    <3> QED BY <3>2, <3>6
  <2> QED BY <2>1, <2>2
<1> QED BY <1>1, <1>2, <1>3, <1>4, ServiceKept DEF ServiceInv

\* A settled transaction is removed.
LEMMA ClearOK ==
  ASSUME ServiceInv, NEW c \in Callers, Service!Clear(c) PROVE ServiceInv'
<1>0. /\ call[c].pc = "clear" /\ UNCHANGED <<quar, late, claim, told, replies, settled>>
      /\ IF open.d = call[c].txn.d THEN Service!Removes(c) ELSE Service!Returns(c) /\ UNCHANGED open
      /\ call[c].txn.d \in Mail /\ call[c].txn.d \in told /\ quar = [d \in Mail |-> quar[d]]
  BY DEF Service!Clear, Service!At, Service!server, ServiceInv, CallOK
<1>1. CASE open.d = call[c].txn.d
  BY <1>0, <1>1, RemovesOK
<1>2. CASE open.d # call[c].txn.d
  BY <1>0, <1>2, ReturnsOK
<1> QED BY <1>1, <1>2

\* A transaction is put in quarantine, or the process dies between the
\* quarantine and the removal.
LEMMA AbandonOK ==
  ASSUME ServiceInv, NEW c \in Callers, Service!Abandon(c) \/ Service!AbandonTorn(c) PROVE ServiceInv'
<1>0. /\ UNCHANGED <<late, claim, told, replies, settled>> /\ quar = [d \in Mail |-> quar[d]]
      /\ TxnOK(open, replies)
  BY DEF Service!Abandon, Service!AbandonTorn, Service!server, ServiceInv
<1>1. ASSUME open.d # 0, quar' = [quar EXCEPT ![open.d] = open.own]
      PROVE  /\ open.d \in Mail /\ quar' = [d \in Mail |-> quar'[d]] /\ quar'[open.d] # Service!Absent
             /\ \A d \in Mail : quar[d] # Service!Absent => quar'[d] # Service!Absent
  BY <1>0, <1>1 DEF TxnOK
<1>2. CASE open.d # 0 /\ quar' = [quar EXCEPT ![open.d] = open.own] /\ Service!Removes(c)
  BY <1>0, <1>1, <1>2, RemovesOK
<1>3. CASE Service!Returns(c) /\ UNCHANGED <<open, quar>>
  BY <1>0, <1>3, ReturnsOK
<1>4. CASE open.d # 0 /\ quar' = [quar EXCEPT ![open.d] = open.own] /\ Service!Returns(c) /\ UNCHANGED open
  <2>1. Grows(open.d, told, quar, replies, open.d, told, quar', replies)
    BY <1>1, <1>4 DEF Grows, Covered
  <2>2. ASSUME NEW x \in Callers PROVE CallOK(call[x], open.d, told, quar', replies)
    <3>1. CallOK(call[x], open.d, told, quar, replies)
      BY DEF ServiceInv
    <3> QED BY <2>1, <3>1, CallGrows
  <2>3. call' = [x \in Callers |-> call'[x]] /\ \A x \in Callers : call'[x] = call[x] \/ call'[x] = Service!Idle
    BY <1>4 DEF Service!Returns, ServiceInv
  <2>4. \A x \in Callers : CallOK(call'[x], open.d, told, quar', replies)
    BY <2>2, <2>3, IdleOK
  <2> QED BY <1>0, <1>1, <1>4, <2>1, <2>3, <2>4, ServiceKept DEF ServiceInv
<1> QED BY <1>2, <1>3, <1>4 DEF Service!Abandon, Service!AbandonTorn

\* A killed caller may leave its request on its way.
LEMMA KillOK ==
  ASSUME ServiceInv, NEW c \in Callers, Service!Kill(c) PROVE ServiceInv'
<1> DEFINE k == call[c]
           r == [kind |-> k.pc, d |-> k.txn.d, text |-> k.text]
<1>0. /\ UNCHANGED <<open, quar, claim, told, replies, settled>> /\ call' = [call EXCEPT ![c] = Service!Idle]
      /\ late' = late \/ (late' = late \cup {r} /\ k.pc \in {"post", "reply", "ack"})
  BY DEF Service!Kill, Service!server, Service!Returns
<1>1. \A q \in late' : q \in late \/ RequestOK(q.kind, q.d, q.text, open.d, told, quar, replies)
  <2>1. CallOK(k, open.d, told, quar, replies)
    BY DEF ServiceInv
  <2>2. r.kind = k.pc /\ r.d = k.txn.d /\ r.text = k.text
    OBVIOUS
  <2>3. k.pc \in {"post", "reply", "ack"} => RequestOK(r.kind, r.d, r.text, open.d, told, quar, replies)
    BY <2>1, <2>2 DEF CallOK
  <2> HIDE DEF r, k
  <2> QED BY <1>0, <2>3
<1>2. /\ call' = [x \in Callers |-> call'[x]]
      /\ \A x \in Callers : CallOK(call'[x], open.d, told, quar, replies)
  BY <1>0, IdleOK DEF ServiceInv
<1>3. Grows(open.d, told, quar, replies, open.d, told, quar, replies)
  BY DEF Grows
<1> QED BY <1>0, <1>1, <1>2, <1>3, ServiceKept DEF ServiceInv

\* What others do at the service: a dismissal, another instance's claim.
LEMMA ServerOK ==
  ASSUME ServiceInv, NEW d \in Mail,
         (\E c \in Callers : Service!Dismiss(c, d)) \/ Service!OtherInstance(d)
  PROVE  ServiceInv' /\ UNCHANGED <<replies, settled>>
<1>0. /\ UNCHANGED <<open, quar, call, late, replies, settled>>
      /\ told' = told \cup {d} \/ told' = told
      /\ claim' = claim \/ claim' = [claim EXCEPT ![d] = "other"]
  BY DEF Service!Dismiss, Service!OtherInstance
<1>1. Grows(open.d, told, quar, replies, open.d, told', quar, replies)
  BY <1>0 DEF Grows, Covered
<1>2. ASSUME NEW x \in Callers PROVE CallOK(call[x], open.d, told', quar, replies)
  <2>1. CallOK(call[x], open.d, told, quar, replies)
    BY DEF ServiceInv
  <2> QED BY <1>1, <2>1, CallGrows
<1>3. claim' = [e \in Mail |-> claim'[e]] /\ \A e \in Mail : claim'[e] = "ours" => claim[e] = "ours"
  BY <1>0 DEF ServiceInv
<1> QED BY <1>0, <1>1, <1>2, <1>3, ServiceKept DEF ServiceInv

\* Every step keeps the invariant and is a step of the promised mailbox or
\* leaves it as it was.
LEMMA ServiceStep ==
  ServiceInv /\ Service!Next => ServiceInv' /\ [Service!Promise!DeliveryNext]_<<replies, settled>>
<1> SUFFICES ASSUME ServiceInv, Service!Next
             PROVE  ServiceInv' /\ [Service!Promise!DeliveryNext]_<<replies, settled>>
  OBVIOUS
<1>c. Coordinators \subseteq Callers
  BY ServiceConstants DEF Service!MailboxAssumption
<1>1. ASSUME NEW c \in Callers,
             \/ \E scope \in Scopes : \/ Service!ResumeReceipt(c, scope)
                                      \/ \E b \in BOOLEAN : Service!ClaimNext(c, scope, b)
             \/ \E d \in Mail, b \in BOOLEAN : Service!ExplicitClaim(c, d, b)
             \/ Service!Ack(c) \/ (\E t \in Replies : Service!Reply(c, t))
             \/ Service!BeginFailure(c) \/ Service!BeginAbandon(c)
      PROVE  ServiceInv' /\ UNCHANGED <<replies, settled>>
  <2>1. ServiceInv'
    BY <1>1, CommandsOK
  <2>2. UNCHANGED <<replies, settled>>
    BY <1>1, Zenon DEF Service!ResumeReceipt, Service!ClaimNext, Service!ExplicitClaim, Service!Ack, Service!Reply,
       Service!BeginFailure, Service!BeginAbandon, Service!server
  <2> QED BY <2>1, <2>2
<1>2. ASSUME NEW c \in Coordinators, Service!Drains(c) \/ Service!Recover(c)
      PROVE  ServiceInv' /\ UNCHANGED <<replies, settled>>
  BY <1>1, <1>2, <1>c DEF Service!Drains, Service!Recover, Service!Resolve, Service!TakeTurn
<1>3. ASSUME NEW c \in Callers \ Coordinators, Service!Operates(c)
      PROVE  ServiceInv' /\ UNCHANGED <<replies, settled>>
  BY <1>1, <1>3, ServerOK DEF Service!Operates
<1>4. ASSUME NEW c \in Callers, Service!Steps(c) \/ Service!AbandonTorn(c) \/ Service!Kill(c)
      PROVE  ServiceInv' /\ [Service!Promise!DeliveryNext]_<<replies, settled>>
  <2>1. CASE Service!Post(c)
    BY <2>1, PostOK
  <2>2. CASE ~Service!Post(c)
    <3>1. ServiceInv'
      BY <1>4, <2>2, ClaimOK, RecordsOK, ClearOK, AbandonOK, KillOK DEF Service!Steps
    <3>2. UNCHANGED <<replies, settled>>
      BY <1>4, <2>2 DEF Service!Steps, Service!Claim, Service!RecordClaimed, Service!RecordReplied, Service!Clear,
         Service!RecordFailure, Service!Abandon, Service!AbandonTorn, Service!Kill, Service!server
    <3> QED BY <3>1, <3>2
  <2> QED BY <2>1, <2>2
<1> QED BY <1>1, <1>2, <1>3, <1>4, LateOK, ServerOK DEF Service!Next

\* An empty store before an empty mailbox.
LEMMA ServiceInitially == Service!Init => ServiceInv /\ Service!Promise!DeliveryInit
<1> SUFFICES ASSUME Service!Init PROVE ServiceInv /\ Service!Promise!DeliveryInit
  OBVIOUS
<1>0. /\ open = Service!NoTxn /\ quar = [d \in Mail |-> Service!Absent]
      /\ call = [c \in Callers |-> Service!Idle] /\ late = {}
      /\ claim = [d \in Mail |-> Service!Absent] /\ told = {} /\ settled = {}
      /\ replies = [d \in Mail |-> {}]
  BY DEF Service!Init
<1>1. TxnOK(open, replies)
  BY <1>0 DEF Service!NoTxn, TxnOK, TxnFields, Service!Absent
<1>2. \A c \in Callers : CallOK(call[c], open.d, told, quar, replies)
  BY <1>0, IdleOK
<1>3. \A d \in Mail : claim[d] # "ours"
  BY <1>0 DEF Service!Absent
<1> QED BY <1>0, <1>1, <1>2, <1>3 DEF ServiceInv, Service!Promise!DeliveryInit

-----------------------------------------------------------------------------
(* The polling client.                                                     *)
\* The memory of a worker, from its parts.
Worker(stage, id, meta, kept, q, cursor, failures, discard) ==
  [pc |-> stage, id |-> id, meta |-> meta, kept |-> kept, quarantined |-> q,
   cursor |-> cursor, failures |-> failures, discard |-> discard]

WorkerFields(r) ==
  r = Worker(r.pc, r.id, r.meta, r.kept, r.quarantined, r.cursor, r.failures, r.discard)

MetaFields(m) ==
  m = [id |-> m.id, claim |-> m.claim, lost |-> m.lost, persisted |-> m.persisted,
       tries |-> m.tries, acks |-> m.acks]

\* The cursor may pass a delivery: it left the mailbox (M), the worker set it
\* aside (q), or it wants no turn.
MayPass(d, q, M) == M[d].state = "processed" \/ d \in q \/ Kind[d] = "skip"

\* An acknowledgement may be served whenever it arrives.
MayAck(d, M) == Kind[d] # "ask" \/ M[d].reply

AtWork == {"claim", "scan", "run", "append", "ack"}
Discarding == {"dclaim", "dack"}

\* All before the delivery in hand, or kept for a retry, may be passed.
Reached(d, q, M) == d \in Polled /\ \A e \in Polled : e < d => MayPass(e, q, M)

\* What a worker remembers is so at the server.
MemoryOK(stage, id, meta, kept, q, cursor, M) ==
  /\ MetaFields(meta) /\ cursor \in Nat
  /\ stage \in {"idle", "event"} \cup AtWork \cup Discarding
  /\ \A d \in Polled : d =< cursor => MayPass(d, q, M)
  /\ stage # "idle" => Reached(id, q, M)
  /\ kept => Reached(meta.id, q, M)
  /\ stage \in AtWork => meta.id = id
  /\ stage \in Discarding => Kind[id] = "skip"
  /\ meta.persisted => meta.id \in Polled /\ M[meta.id].reply
  /\ stage = "ack" => MayAck(id, M)

WorkerOK(r, M) ==
  WorkerFields(r) /\ MemoryOK(r.pc, r.id, r.meta, r.kept, r.quarantined, r.cursor, M)

EntryOK(e, d) ==
  /\ e = [state |-> e.state, claim |-> e.claim, live |-> e.live, reply |-> e.reply]
  /\ e.state \in {"pending", "processed"}
  /\ Kind[d] = "ask" /\ e.state = "processed" => e.reply

MailOK(M) == M = [d \in Polled |-> M[d]] /\ \A d \in Polled : EntryOK(M[d], d)

RequestFields(m) == m = [op |-> m.op, by |-> m.by, id |-> m.id, claim |-> m.claim]

PostedOK(m, M) ==
  /\ RequestFields(m) /\ m.by \in Workers /\ m.id \in Polled
  /\ m.op = "ack" => MayAck(m.id, M)

ClientInv ==
  /\ MailOK(mail)
  /\ wk = [w \in Workers |-> wk[w]] /\ \A w \in Workers : WorkerOK(wk[w], mail)
  /\ \A m \in net : PostedOK(m, mail)

\* The server takes nothing back.
MailGrows(M, N) ==
  \A d \in Polled : /\ M[d].state = "processed" => N[d].state = "processed"
                    /\ M[d].reply => N[d].reply

-----------------------------------------------------------------------------
\* A delivery that was reached stays reached as the mailbox moves on;
LEMMA ReachedGrows ==
  ASSUME NEW M, NEW N, MailGrows(M, N), NEW q, NEW q2, q \subseteq q2, NEW d, Reached(d, q, M)
  PROVE  Reached(d, q2, N)
  BY DEF Reached, MailGrows, MayPass

\* what a worker remembers stays true,
LEMMA WorkerGrows ==
  ASSUME NEW M, NEW N, MailGrows(M, N), NEW r, WorkerOK(r, M) PROVE WorkerOK(r, N)
<1>1. r.pc # "idle" => Reached(r.id, r.quarantined, N)
  BY ReachedGrows DEF WorkerOK, MemoryOK
<1>2. r.kept => Reached(r.meta.id, r.quarantined, N)
  BY ReachedGrows DEF WorkerOK, MemoryOK
<1>3. \A d \in Polled : d =< r.cursor => MayPass(d, r.quarantined, N)
  BY DEF WorkerOK, MemoryOK, MailGrows, MayPass
<1>4. r.pc = "ack" => MayAck(r.id, N)
  BY DEF WorkerOK, MemoryOK, MayAck, MailGrows, Reached
<1>5. r.meta.persisted => r.meta.id \in Polled /\ N[r.meta.id].reply
  BY DEF WorkerOK, MemoryOK, MailGrows
<1> QED BY <1>1, <1>2, <1>3, <1>4, <1>5 DEF WorkerOK, MemoryOK

\* and so does what a request on its way asserts.
LEMMA PostedGrows ==
  ASSUME NEW M, NEW N, MailGrows(M, N), NEW m, PostedOK(m, M) PROVE PostedOK(m, N)
  BY DEF PostedOK, MailGrows, MayAck

\* The fields of a worker.
LEMMA WorkerIs ==
  ASSUME NEW stage, NEW id, NEW meta, NEW kept, NEW q, NEW cursor, NEW failures, NEW discard
  PROVE  LET r == Worker(stage, id, meta, kept, q, cursor, failures, discard)
         IN  /\ r.pc = stage /\ r.id = id /\ r.meta = meta /\ r.kept = kept /\ r.quarantined = q
             /\ r.cursor = cursor /\ r.failures = failures /\ r.discard = discard
  BY DEF Worker

\* A worker is sound when the fields of its memory are.
LEMMA WorkerMade ==
  ASSUME NEW stage, NEW id, NEW meta, NEW kept, NEW q, NEW cursor, NEW failures, NEW discard, NEW M,
         MemoryOK(stage, id, meta, kept, q, cursor, M)
  PROVE  WorkerOK(Worker(stage, id, meta, kept, q, cursor, failures, discard), M)
<1> DEFINE r == Worker(stage, id, meta, kept, q, cursor, failures, discard)
<1>1. /\ r.pc = stage /\ r.id = id /\ r.meta = meta /\ r.kept = kept /\ r.quarantined = q
      /\ r.cursor = cursor /\ r.failures = failures /\ r.discard = discard
  BY WorkerIs
<1>2. r = Worker(stage, id, meta, kept, q, cursor, failures, discard)
  OBVIOUS
<1> HIDE DEF r
<1>3. WorkerFields(r)
  BY <1>1, <1>2 DEF WorkerFields
<1>4. MemoryOK(r.pc, r.id, r.meta, r.kept, r.quarantined, r.cursor, M)
  BY <1>1
<1> QED BY <1>3, <1>4 DEF r, WorkerOK

\* The ends of a cycle, field by field.
LEMMA IdleIs ==
  ASSUME NEW r, WorkerFields(r)
  PROVE  Client!Idle(r) = Worker("idle", 0, r.meta, r.kept, r.quarantined, r.cursor, r.failures, r.discard)
<1> DEFINE a == [r EXCEPT !.pc = "idle"]
<1>1. a = Worker("idle", r.id, r.meta, r.kept, r.quarantined, r.cursor, r.failures, r.discard)
  BY DEF WorkerFields, Worker
<1>2. Client!Idle(r) = [a EXCEPT !.id = 0]
  BY DEF Client!Idle
<1> HIDE DEF a
<1> QED BY <1>1, <1>2 DEF Worker

\* A worker that keeps its custody for a retry,
LEMMA KeptIs ==
  ASSUME NEW r, WorkerFields(r)
  PROVE  Client!Kept(r) = Worker("idle", 0, r.meta, TRUE, r.quarantined, r.cursor, r.failures, r.discard)
<1> DEFINE i == Client!Idle(r)
<1>1. i = Worker("idle", 0, r.meta, r.kept, r.quarantined, r.cursor, r.failures, r.discard)
  BY IdleIs
<1>2. PICK yes : yes = TRUE
  OBVIOUS
<1>3. Client!Kept(r) = [i EXCEPT !.kept = yes]
  BY <1>2, Zenon DEF Client!Kept
<1> HIDE DEF i
<1>4. Client!Kept(r) = Worker("idle", 0, r.meta, yes, r.quarantined, r.cursor, r.failures, r.discard)
  BY <1>1, <1>3 DEF Worker
<1> QED BY <1>2, <1>4, Zenon

\* one that has given it up,
LEMMA DroppedIs ==
  ASSUME NEW r, WorkerFields(r)
  PROVE  Client!Dropped(r) = Worker("idle", 0, Client!NoMeta, FALSE, r.quarantined, r.cursor, r.failures, r.discard)
<1> DEFINE i == Client!Idle(r)
<1>1. i = Worker("idle", 0, r.meta, r.kept, r.quarantined, r.cursor, r.failures, r.discard)
  BY IdleIs
<1>2. PICK no : no = FALSE
  OBVIOUS
<1>3. PICK none : none = Client!NoMeta
  OBVIOUS
<1>4. Client!Dropped(r) = [i EXCEPT !.kept = no, !.meta = none]
  BY <1>2, <1>3, Zenon DEF Client!Dropped
<1> HIDE DEF i
<1>5. Client!Dropped(r) = Worker("idle", 0, none, no, r.quarantined, r.cursor, r.failures, r.discard)
  BY <1>1, <1>4 DEF Worker
<1> QED BY <1>2, <1>3, <1>5, Zenon

\* and one whose cursor moves on, field by field.
LEMMA AdvanceIs ==
  ASSUME NEW r, WorkerFields(r), NEW d
  PROVE  Client!Advance(r, d) = Worker(r.pc, r.id, r.meta, r.kept, r.quarantined,
                                       IF d > r.cursor THEN d ELSE r.cursor, r.failures, r.discard)
  BY DEF Client!Advance, WorkerFields, Worker

\* No custody claims no reply.
LEMMA NoMetaIs ==
  /\ MetaFields(Client!NoMeta) /\ Client!NoMeta.persisted = FALSE
  BY Zenon DEF MetaFields, Client!NoMeta

\* Giving up a custody does not forget who is in quarantine.
LEMMA DroppedKeeps ==
  ASSUME NEW r, WorkerFields(r) PROVE Client!Dropped(r).quarantined = r.quarantined
<1>1. PICK no : no = FALSE
  OBVIOUS
<1>2. Client!Dropped(r) = Worker("idle", 0, Client!NoMeta, no, r.quarantined, r.cursor, r.failures, r.discard)
  BY <1>1, DroppedIs, Zenon
<1> QED BY <1>2, WorkerIs

\* The ends of a cycle leave a memory that is so.
LEMMA DroppedOK ==
  ASSUME NEW r, NEW M, WorkerOK(r, M) PROVE WorkerOK(Client!Dropped(r), M)
<1> DEFINE none == Client!NoMeta
<1>1. MemoryOK("idle", 0, none, FALSE, r.quarantined, r.cursor, M)
  <2>1. MetaFields(none) /\ ~none.persisted
    BY NoMetaIs
  <2> HIDE DEF none
  <2> QED BY <2>1 DEF WorkerOK, MemoryOK, AtWork, Discarding
<1>2. Client!Dropped(r) = Worker("idle", 0, none, FALSE, r.quarantined, r.cursor, r.failures, r.discard)
  BY DroppedIs DEF WorkerOK
<1> HIDE DEF none
<1>3. PICK no : no = FALSE
  OBVIOUS
<1>4. MemoryOK("idle", 0, none, no, r.quarantined, r.cursor, M)
  BY <1>1, <1>3, Zenon
<1>5. Client!Dropped(r) = Worker("idle", 0, none, no, r.quarantined, r.cursor, r.failures, r.discard)
  BY <1>2, <1>3, Zenon
<1> QED BY <1>4, <1>5, WorkerMade

\* A worker may go idle,
LEMMA WorkerIdleOK ==
  ASSUME NEW r, NEW M, WorkerOK(r, M) PROVE WorkerOK(Client!Idle(r), M)
<1>1. MemoryOK("idle", 0, r.meta, r.kept, r.quarantined, r.cursor, M)
  BY DEF WorkerOK, MemoryOK, AtWork, Discarding
<1>2. Client!Idle(r) = Worker("idle", 0, r.meta, r.kept, r.quarantined, r.cursor, r.failures, r.discard)
  BY IdleIs DEF WorkerOK
<1> QED BY <1>1, <1>2, WorkerMade

\* keep its custody,
LEMMA KeptOK ==
  ASSUME NEW r, NEW M, WorkerOK(r, M), Reached(r.meta.id, r.quarantined, M) PROVE WorkerOK(Client!Kept(r), M)
<1>3. PICK yes : yes = TRUE
  OBVIOUS
<1>1. MemoryOK("idle", 0, r.meta, yes, r.quarantined, r.cursor, M)
  BY DEF WorkerOK, MemoryOK, AtWork, Discarding
<1>2. Client!Kept(r) = Worker("idle", 0, r.meta, yes, r.quarantined, r.cursor, r.failures, r.discard)
  BY KeptIs, <1>3, Zenon DEF WorkerOK
<1> QED BY <1>1, <1>2, WorkerMade

\* and advance its cursor past a delivery that may be passed.
LEMMA AdvanceOK ==
  ASSUME NEW r, NEW M, WorkerOK(r, M), NEW d, Reached(d, r.quarantined, M), MayPass(d, r.quarantined, M)
  PROVE  WorkerOK(Client!Advance(r, d), M)
<1> DEFINE n == IF d > r.cursor THEN d ELSE r.cursor
<1>0. Polled \subseteq Nat
  BY ClientConstants DEF Client!MailboxClientAssumption
<1>1. Client!Advance(r, d) = Worker(r.pc, r.id, r.meta, r.kept, r.quarantined, n, r.failures, r.discard)
  BY AdvanceIs DEF WorkerOK
<1>2. n \in Nat /\ \A e \in Polled : e =< n => MayPass(e, r.quarantined, M)
  <2>1. d \in Nat /\ r.cursor \in Nat
    BY <1>0 DEF Reached, WorkerOK, MemoryOK
  <2>2. ASSUME NEW e \in Polled, e =< n PROVE MayPass(e, r.quarantined, M)
    <3>1. e =< r.cursor \/ e < d \/ e = d
      BY <2>1, <2>2, <1>0
    <3> QED BY <3>1 DEF WorkerOK, MemoryOK, Reached
  <2> QED BY <2>1, <2>2
<1> HIDE DEF n
<1>3. MemoryOK(r.pc, r.id, r.meta, r.kept, r.quarantined, n, M)
  BY <1>2 DEF WorkerOK, MemoryOK
<1> QED BY <1>1, <1>3, WorkerMade

\* Setting a delivery aside, and marking one for nothing.
LEMMA AsideIs ==
  ASSUME NEW r, WorkerFields(r), NEW d
  PROVE  [r EXCEPT !.quarantined = @ \cup {d}, !.failures[d] = 0]
           = Worker(r.pc, r.id, r.meta, r.kept, r.quarantined \cup {d}, r.cursor, [r.failures EXCEPT ![d] = 0], r.discard)
<1> DEFINE a == [r EXCEPT !.quarantined = @ \cup {d}]
<1>1. a = Worker(r.pc, r.id, r.meta, r.kept, r.quarantined \cup {d}, r.cursor, r.failures, r.discard)
  BY DEF WorkerFields, Worker
<1>2. [r EXCEPT !.quarantined = @ \cup {d}, !.failures[d] = 0] = [a EXCEPT !.failures[d] = 0]
  OBVIOUS
<1> HIDE DEF a
<1> QED BY <1>1, <1>2 DEF Worker

\* A worker may put a delivery it has reached in quarantine.
LEMMA QuarantinedOK ==
  ASSUME NEW r, NEW M, WorkerOK(r, M), NEW d, Reached(d, r.quarantined, M)
  PROVE  WorkerOK(Client!Quarantined(r, d), M)
<1> DEFINE b == Client!Dropped(r)
           a == [b EXCEPT !.quarantined = @ \cup {d}, !.failures[d] = 0]
           q == r.quarantined
<1>1. WorkerOK(b, M)
  BY DroppedOK
<1>2. b.quarantined = q
  BY DroppedKeeps DEF WorkerOK
<1>3. Client!Quarantined(r, d) = Client!Advance(a, d)
  BY DEF Client!Quarantined
<1> HIDE DEF b
<1>4. a = Worker(b.pc, b.id, b.meta, b.kept, q \cup {d}, b.cursor, [b.failures EXCEPT ![d] = 0], b.discard)
  BY <1>1, <1>2, AsideIs DEF WorkerOK
<1> HIDE DEF a
<1>5. Reached(d, q \cup {d}, M)
  BY DEF Reached, MayPass
<1>6. MemoryOK(b.pc, b.id, b.meta, b.kept, q \cup {d}, b.cursor, M)
  BY <1>1, <1>2 DEF WorkerOK, MemoryOK, Reached, MayPass
<1>7. WorkerOK(a, M) /\ a.quarantined = q \cup {d}
  BY <1>4, <1>6, WorkerMade, WorkerIs
<1>8. MayPass(d, a.quarantined, M)
  BY <1>7 DEF MayPass
<1> QED BY <1>3, <1>5, <1>7, <1>8, AdvanceOK

\* Another record of the attempts, with the delivery and its reply as before.
LEMMA MetaSet ==
  ASSUME NEW r, NEW M, WorkerOK(r, M), NEW m, MetaFields(m), m.id = r.meta.id, m.persisted = r.meta.persisted
  PROVE  LET s == [r EXCEPT !.meta = m] IN
           /\ WorkerOK(s, M) /\ s.meta = m /\ s.pc = r.pc /\ s.id = r.id /\ s.quarantined = r.quarantined
<1> DEFINE s == [r EXCEPT !.meta = m]
<1>1. s = Worker(r.pc, r.id, m, r.kept, r.quarantined, r.cursor, r.failures, r.discard)
  BY DEF WorkerOK, WorkerFields, Worker
<1> HIDE DEF s
<1>2. MemoryOK(r.pc, r.id, m, r.kept, r.quarantined, r.cursor, M)
  BY DEF WorkerOK, MemoryOK
<1>3. WorkerOK(s, M)
  BY <1>1, <1>2, WorkerMade
<1>4. s.meta = m /\ s.pc = r.pc /\ s.id = r.id /\ s.quarantined = r.quarantined
  BY <1>1, WorkerIs
<1> QED BY <1>3, <1>4 DEF s

\* A failure in processing is retried or ends in quarantine.
LEMMA ProcessingFailureOK ==
  ASSUME NEW r, NEW M, WorkerOK(r, M), Reached(r.meta.id, r.quarantined, M)
  PROVE  WorkerOK(Client!RecordProcessingFailure(r), M)
<1> DEFINE k == Client!Kept(r)
           m == [k.meta EXCEPT !.tries = @ + 1]
<1>1. WorkerOK(Client!Dropped(r), M) /\ WorkerOK(k, M) /\ WorkerOK(Client!Quarantined(r, r.meta.id), M)
  BY DroppedOK, KeptOK, QuarantinedOK
<1>2. [k EXCEPT !.meta.tries = @ + 1] = [k EXCEPT !.meta = m]
  BY <1>1 DEF WorkerOK, WorkerFields, Worker
<1>3. WorkerOK([k EXCEPT !.meta.tries = @ + 1], M)
  <2>1. MetaFields(k.meta)
    BY <1>1 DEF WorkerOK, MemoryOK
  <2> HIDE DEF k
  <2>2. m = [id |-> k.meta.id, claim |-> k.meta.claim, lost |-> k.meta.lost, persisted |-> k.meta.persisted,
             tries |-> k.meta.tries + 1, acks |-> k.meta.acks]
    BY <2>1 DEF MetaFields
  <2> HIDE DEF m
  <2>3. MetaFields(m) /\ m.id = k.meta.id /\ m.persisted = k.meta.persisted
    BY <2>2 DEF MetaFields
  <2> QED BY <1>1, <1>2, <2>3, MetaSet
<1> HIDE DEF k
<1> QED BY <1>1, <1>3 DEF Client!RecordProcessingFailure, k

\* A failed acknowledgement is retried or ends in quarantine.
LEMMA AckFailedOK ==
  ASSUME NEW r, NEW M, WorkerOK(r, M), Reached(r.meta.id, r.quarantined, M)
  PROVE  WorkerOK(Client!AckFailed(r), M)
<1> DEFINE m == [r.meta EXCEPT !.acks = @ + 1]
           s == [r EXCEPT !.meta = m]
<1>1. [r EXCEPT !.meta.acks = @ + 1] = s
  BY DEF WorkerOK, WorkerFields, Worker
<1>2. m = [id |-> r.meta.id, claim |-> r.meta.claim, lost |-> r.meta.lost, persisted |-> r.meta.persisted,
           tries |-> r.meta.tries, acks |-> r.meta.acks + 1]
  BY DEF WorkerOK, MemoryOK, MetaFields
<1> HIDE DEF m
<1>3. MetaFields(m) /\ m.id = r.meta.id /\ m.persisted = r.meta.persisted
  BY <1>2 DEF MetaFields
<1>4. WorkerOK(s, M) /\ s.meta = m /\ s.quarantined = r.quarantined
  BY <1>3, MetaSet
<1> HIDE DEF s
<1>5. WorkerOK(Client!RecordProcessingFailure(s), M)
  BY <1>3, <1>4, ProcessingFailureOK
<1>6. WorkerOK(Client!Quarantined(r, r.meta.id), M)
  BY QuarantinedOK
<1> QED BY <1>1, <1>5, <1>6 DEF Client!AckFailed

\* A processed delivery may be passed.
LEMMA AcknowledgedOK ==
  ASSUME NEW r, NEW M, WorkerOK(r, M), Reached(r.meta.id, r.quarantined, M), M[r.meta.id].state = "processed"
  PROVE  WorkerOK(Client!Acknowledged(r), M)
<1> DEFINE b == Client!Dropped(r)
<1>1. WorkerOK(b, M)
  BY DroppedOK
<1>2. b.quarantined = r.quarantined
  BY DroppedKeeps DEF WorkerOK
<1>3. Client!Acknowledged(r) = Client!Advance(b, r.meta.id)
  BY DEF Client!Acknowledged
<1> HIDE DEF b
<1>4. MayPass(r.meta.id, b.quarantined, M)
  BY DEF MayPass
<1> QED BY <1>1, <1>2, <1>3, <1>4, AdvanceOK

-----------------------------------------------------------------------------
\* Whatever the server does with a request that may be served, it takes
\* nothing back, and only what may be acknowledged leaves the mailbox.
LEMMA ServedOK ==
  ASSUME MailOK(mail), NEW m, m.id \in Polled, m.op = "ack" => MayAck(m.id, mail)
  PROVE  LET N == Client!Served(m) IN
           MailOK(N) /\ MailGrows(mail, N) /\ (m.op = "reply" => N[m.id].reply)
<1> DEFINE N == Client!Served(m)
           e == mail[m.id]
<1>0. EntryOK(e, m.id) /\ mail = [d \in Polled |-> mail[d]]
  BY DEF MailOK
<1>1. ASSUME NEW f, N = [d \in Polled |-> IF d = m.id THEN f ELSE mail[d]], EntryOK(f, m.id),
             e.state = "processed" => f.state = "processed", e.reply => f.reply,
             m.op = "reply" => f.reply
      PROVE  MailOK(N) /\ MailGrows(mail, N) /\ (m.op = "reply" => N[m.id].reply)
  <2> HIDE DEF N
  <2>1. \A d \in Polled : N[d] = IF d = m.id THEN f ELSE mail[d]
    BY <1>1
  <2>2. N = [d \in Polled |-> N[d]]
    BY <1>1
  <2> QED BY <1>1, <2>1, <2>2 DEF MailOK, MailGrows
<1>2. CASE m.op \in {"claim", "renew"} /\ Client!Grants(m.id, m.claim)
  <2>1. PICK yes : yes = TRUE
    OBVIOUS
  <2>2. N = [mail EXCEPT ![m.id].claim = m.claim, ![m.id].live = TRUE]
    BY <1>2 DEF Client!Served
  <2> DEFINE M1 == [mail EXCEPT ![m.id].claim = m.claim]
             f == [state |-> e.state, claim |-> m.claim, live |-> yes, reply |-> e.reply]
  <2>3. N = [M1 EXCEPT ![m.id].live = yes]
    BY <2>1, <2>2, Zenon
  <2>4. M1 = [d \in Polled |-> IF d = m.id
                THEN [state |-> e.state, claim |-> m.claim, live |-> e.live, reply |-> e.reply] ELSE mail[d]]
    BY <1>0 DEF EntryOK
  <2> HIDE DEF M1, N
  <2>5. N = [d \in Polled |-> IF d = m.id THEN f ELSE mail[d]]
    BY <2>3, <2>4
  <2>6. f = [state |-> f.state, claim |-> f.claim, live |-> f.live, reply |-> f.reply]
        /\ f.state = e.state /\ f.reply = e.reply
    OBVIOUS
  <2> HIDE DEF f
  <2>7. EntryOK(f, m.id)
    BY <1>0, <2>6 DEF EntryOK
  <2>8. m.op # "reply"
    BY <1>2
  <2> QED BY <2>5, <2>6, <2>7, <2>8, <1>1 DEF N
<1>3. CASE m.op = "reply"
  <2>1. PICK yes : yes = TRUE
    OBVIOUS
  <2>2. N = [mail EXCEPT ![m.id].reply = TRUE]
    BY <1>3 DEF Client!Served
  <2>3. N = [mail EXCEPT ![m.id].reply = yes]
    BY <2>1, <2>2, Zenon
  <2> DEFINE f == [state |-> e.state, claim |-> e.claim, live |-> e.live, reply |-> yes]
  <2> HIDE DEF N
  <2>5. N = [d \in Polled |-> IF d = m.id THEN f ELSE mail[d]]
    BY <2>3, <1>0 DEF EntryOK
  <2>6. f = [state |-> f.state, claim |-> f.claim, live |-> f.live, reply |-> f.reply]
        /\ f.state = e.state /\ f.reply = yes
    OBVIOUS
  <2> HIDE DEF f
  <2>7. f.reply
    BY <2>1, <2>6, Zenon
  <2>8. EntryOK(f, m.id)
    BY <1>0, <2>6, <2>7 DEF EntryOK
  <2> QED BY <2>5, <2>6, <2>7, <2>8, <1>1 DEF N
<1>4. CASE m.op = "ack" /\ e.claim = m.claim
  <2>2. N = [mail EXCEPT ![m.id].state = "processed"]
    BY <1>4 DEF Client!Served
  <2> DEFINE f == [state |-> "processed", claim |-> e.claim, live |-> e.live, reply |-> e.reply]
  <2> HIDE DEF N
  <2>5. N = [d \in Polled |-> IF d = m.id THEN f ELSE mail[d]]
    BY <2>2, <1>0 DEF EntryOK
  <2>6. f = [state |-> f.state, claim |-> f.claim, live |-> f.live, reply |-> f.reply]
        /\ f.state = "processed" /\ f.reply = e.reply
    OBVIOUS
  <2> HIDE DEF f
  <2>8. EntryOK(f, m.id)
    BY <1>0, <1>4, <2>6 DEF EntryOK, MayAck
  <2>9. m.op # "reply"
    BY <1>4
  <2> QED BY <2>5, <2>6, <2>8, <2>9, <1>1 DEF N
<1>5. CASE /\ ~(m.op \in {"claim", "renew"} /\ Client!Grants(m.id, m.claim))
           /\ m.op # "reply" /\ ~(m.op = "ack" /\ e.claim = m.claim)
  <2>1. N = mail
    BY <1>5 DEF Client!Served
  <2> HIDE DEF N
  <2> QED BY <1>5, <2>1 DEF MailGrows, N
<1> QED BY <1>2, <1>3, <1>4, <1>5

\* A step of one worker.
LEMMA WorkerSteps ==
  ASSUME ClientInv, NEW w \in Workers, NEW r, Client!Does(w, r), WorkerOK(r, mail'),
         MailOK(mail'), MailGrows(mail, mail'), \A m \in net' : m \in net \/ PostedOK(m, mail')
  PROVE  ClientInv'
<1>1. /\ wk' = [x \in Workers |-> wk'[x]] /\ wk'[w] = r /\ \A x \in Workers \ {w} : wk'[x] = wk[x]
  BY DEF ClientInv, Client!Does
<1>2. \A x \in Workers : WorkerOK(wk'[x], mail')
  BY <1>1, WorkerGrows DEF ClientInv
<1>3. \A m \in net' : PostedOK(m, mail')
  BY PostedGrows DEF ClientInv
<1> QED BY <1>1, <1>2, <1>3 DEF ClientInv

\* A mailbox that stays as it is grows.
LEMMA SameGrows == MailGrows(mail, mail)
  BY DEF MailGrows

\* A step of one worker that only it sees.
LEMMA WorkerThinks ==
  ASSUME ClientInv, NEW w \in Workers, NEW r, Client!Does(w, r), WorkerOK(r, mail), UNCHANGED <<mail, net>>
  PROVE  ClientInv'
<1>1. MailOK(mail') /\ MailGrows(mail, mail') /\ WorkerOK(r, mail')
  BY SameGrows DEF ClientInv
<1> QED BY <1>1, WorkerSteps

\* A request the worker waits for is served.
LEMMA WorkerServed ==
  ASSUME ClientInv, NEW w \in Workers, NEW r, Client!Does(w, r), NEW m, m.id \in Polled,
         m.op = "ack" => MayAck(m.id, mail), mail' = Client!Served(m), WorkerOK(r, mail'), UNCHANGED net
  PROVE  ClientInv'
<1>1. MailOK(mail') /\ MailGrows(mail, mail')
  BY ServedOK DEF ClientInv
<1> QED BY <1>1, WorkerSteps

\* A request that no worker waits for is served.
LEMMA ServerSteps ==
  ASSUME ClientInv, NEW m \in net, mail' = Client!Served(m), UNCHANGED wk, net' \subseteq net
  PROVE  ClientInv'
<1>1. MailOK(mail') /\ MailGrows(mail, mail')
  BY ServedOK DEF ClientInv, PostedOK
<1>2. \A x \in Workers : WorkerOK(wk'[x], mail')
  BY <1>1, WorkerGrows DEF ClientInv
<1>3. \A x \in net' : PostedOK(x, mail')
  BY <1>1, PostedGrows DEF ClientInv
<1> QED BY <1>1, <1>2, <1>3 DEF ClientInv

-----------------------------------------------------------------------------
\* The next stage of the delivery in hand.
LEMMA StageOK ==
  ASSUME NEW r, NEW M, WorkerOK(r, M), NEW p \in AtWork \cup Discarding, r.pc # "idle",
         p \in AtWork => r.meta.id = r.id, p \in Discarding => Kind[r.id] = "skip",
         p = "ack" => MayAck(r.id, M)
  PROVE  WorkerOK([r EXCEPT !.pc = p], M)
<1>1. [r EXCEPT !.pc = p] = Worker(p, r.id, r.meta, r.kept, r.quarantined, r.cursor, r.failures, r.discard)
  BY DEF WorkerOK, WorkerFields, Worker
<1>2. MemoryOK(p, r.id, r.meta, r.kept, r.quarantined, r.cursor, M)
  BY DEF WorkerOK, MemoryOK, AtWork, Discarding
<1> QED BY <1>1, <1>2, WorkerMade

\* The stage after the reply is known to be at the server.
LEMMA PersistedOK ==
  ASSUME NEW r, NEW M, WorkerOK(r, M), r.pc \in AtWork, M[r.id].reply
  PROVE  WorkerOK([r EXCEPT !.pc = "ack", !.meta.persisted = TRUE], M)
<1> DEFINE a == [r EXCEPT !.pc = "ack"]
           s == [r EXCEPT !.pc = "ack", !.meta.persisted = TRUE]
<1>1. PICK yes : yes = TRUE
  OBVIOUS
<1>2. a = Worker("ack", r.id, r.meta, r.kept, r.quarantined, r.cursor, r.failures, r.discard)
  BY DEF WorkerOK, WorkerFields, Worker
<1>3. s = [a EXCEPT !.meta.persisted = yes]
  BY <1>1, Zenon
<1> HIDE DEF a, s
<1> DEFINE m == [id |-> r.meta.id, claim |-> r.meta.claim, lost |-> r.meta.lost, persisted |-> yes,
                 tries |-> r.meta.tries, acks |-> r.meta.acks]
<1>4. [r.meta EXCEPT !.persisted = yes] = m
  BY DEF WorkerOK, MemoryOK, MetaFields
<1>5. MetaFields(m) /\ m.id = r.meta.id
  BY DEF MetaFields
<1>6. s = [a EXCEPT !.meta = [r.meta EXCEPT !.persisted = yes]]
  BY <1>2, <1>3 DEF Worker
<1> HIDE DEF m
<1>7. s = Worker("ack", r.id, m, r.kept, r.quarantined, r.cursor, r.failures, r.discard)
  BY <1>2, <1>4, <1>6 DEF Worker
<1>8. MemoryOK("ack", r.id, m, r.kept, r.quarantined, r.cursor, M)
  BY <1>5 DEF WorkerOK, MemoryOK, AtWork, Discarding, Reached, MayAck
<1>9. WorkerOK(s, M)
  BY <1>7, <1>8, WorkerMade
<1> QED BY <1>9 DEF s

\* A poll takes the delivery after the cursor, or the one in custody.
LEMMA ListUnreadOK ==
  ASSUME ClientInv, NEW w \in Workers, Client!ListUnread(w) PROVE ClientInv'
<1> DEFINE r == wk[w]
<1>0. WorkerOK(r, mail) /\ r.pc = "idle" /\ UNCHANGED <<mail, net>> /\ Polled \subseteq Nat
  BY ClientConstants DEF ClientInv, Client!ListUnread, Client!MailboxClientAssumption
<1>1. ASSUME NEW p \in {"claim", "event"}, NEW d, Reached(d, r.quarantined, mail), p = "claim" => d = r.meta.id,
             Client!Does(w, [r EXCEPT !.pc = p, !.id = d])
      PROVE  ClientInv'
  <2> DEFINE a == [r EXCEPT !.pc = p]
             s == [a EXCEPT !.id = d]
  <2>1. a = Worker(p, r.id, r.meta, r.kept, r.quarantined, r.cursor, r.failures, r.discard)
    BY <1>0 DEF WorkerOK, WorkerFields, Worker
  <2>2. [r EXCEPT !.pc = p, !.id = d] = s
    OBVIOUS
  <2> HIDE DEF a, r
  <2>3. s = Worker(p, d, r.meta, r.kept, r.quarantined, r.cursor, r.failures, r.discard)
    BY <2>1 DEF Worker
  <2>4. MemoryOK(p, d, r.meta, r.kept, r.quarantined, r.cursor, mail)
    BY <1>0, <1>1 DEF WorkerOK, MemoryOK, AtWork, Discarding
  <2> HIDE DEF s
  <2>5. WorkerOK(s, mail)
    BY <2>3, <2>4, WorkerMade
  <2>6. Client!Does(w, s)
    BY <1>1, <2>2 DEF r
  <2> QED BY <1>0, <2>5, <2>6, WorkerThinks DEF r
<1>2. CASE r.kept
  <2>1. Client!Does(w, [r EXCEPT !.pc = "claim", !.id = r.meta.id])
    BY <1>2 DEF Client!ListUnread
  <2>2. Reached(r.meta.id, r.quarantined, mail)
    BY <1>0, <1>2 DEF WorkerOK, MemoryOK
  <2> HIDE DEF r
  <2> QED BY <2>1, <2>2, <1>1
<1>3. CASE ~r.kept
  <2> DEFINE A == Client!Listed(w)
             d == Client!Min(A)
  <2>1. A # {} /\ Client!Does(w, [r EXCEPT !.pc = "event", !.id = d])
    BY <1>3 DEF Client!ListUnread
  <2>2. A = {x \in Polled : mail[x].state = "pending" /\ x > r.cursor}
    BY DEF Client!Listed
  <2>3. d = CHOOSE x \in A : \A y \in A : x =< y
    BY DEF Client!Min
  <2> HIDE DEF A, r
  <2>4. \E x \in A : \A y \in A : x =< y
    <3>1. A \subseteq Nat
      BY <2>2, <1>0
    <3> QED BY <2>1, <3>1, SmallestExists
  <2> HIDE DEF d
  <2>5. d \in A /\ \A y \in A : d =< y
    BY <2>3, <2>4
  <2>6. ASSUME NEW e \in Polled, e < d PROVE MayPass(e, r.quarantined, mail)
    <3>1. e \notin A /\ e \in Nat /\ d \in Nat /\ r.cursor \in Nat
      BY <1>0, <2>2, <2>5, <2>6 DEF WorkerOK, MemoryOK
    <3>2. mail[e].state # "pending" \/ e =< r.cursor
      BY <3>1, <2>2
    <3>3. mail[e].state \in {"pending", "processed"}
      BY DEF ClientInv, MailOK, EntryOK
    <3> QED BY <1>0, <3>2, <3>3 DEF WorkerOK, MemoryOK, MayPass
  <2>7. Reached(d, r.quarantined, mail)
    BY <2>2, <2>5, <2>6 DEF Reached
  <2> QED BY <2>1, <2>7, <1>1
<1> QED BY <1>2, <1>3

\* The event is read and sent to work, to be discarded or to be passed.
LEMMA ListRoomEventOK ==
  ASSUME ClientInv, NEW w \in Workers, Client!ListRoomEvent(w) PROVE ClientInv'
<1> DEFINE r == wk[w]
           d == r.id
           f == [r.failures EXCEPT ![d] = 0]
<1>0. WorkerOK(r, mail) /\ r.pc = "event" /\ UNCHANGED <<mail, net>>
  BY DEF ClientInv, Client!ListRoomEvent
<1>1. CASE Client!IsSkipEvent(d)
  <2> DEFINE c == IF r.discard[d] = Client!NoClaim THEN Client!FreshClaim(w) ELSE r.discard[d]
             a == [r EXCEPT !.pc = "dclaim"]
             b == [a EXCEPT !.failures[d] = 0]
             s == [b EXCEPT !.discard[d] = IF @ = Client!NoClaim THEN Client!FreshClaim(w) ELSE @]
  <2>1. Client!Does(w, s)
    BY <1>1 DEF Client!ListRoomEvent
  <2> HIDE DEF r
  <2>2. a = Worker("dclaim", d, r.meta, r.kept, r.quarantined, r.cursor, r.failures, r.discard)
    BY <1>0 DEF WorkerOK, WorkerFields, Worker
  <2> HIDE DEF a
  <2>3. b = Worker("dclaim", d, r.meta, r.kept, r.quarantined, r.cursor, f, r.discard)
    BY <2>2 DEF Worker
  <2> HIDE DEF b
  <2>4. s = Worker("dclaim", d, r.meta, r.kept, r.quarantined, r.cursor, f, [r.discard EXCEPT ![d] = c])
    BY <2>3 DEF Worker
  <2>5. MemoryOK("dclaim", d, r.meta, r.kept, r.quarantined, r.cursor, mail)
    BY <1>0, <1>1 DEF WorkerOK, MemoryOK, AtWork, Discarding, Client!IsSkipEvent
  <2> HIDE DEF s
  <2>6. WorkerOK(s, mail)
    BY <2>4, <2>5, WorkerMade
  <2> QED BY <1>0, <2>1, <2>6, WorkerThinks DEF r
<1>2. CASE ~Client!IsSkipEvent(d)
  <2>1. PICK c : c = Client!FreshClaim(w)
    OBVIOUS
  <2>2. PICK yes, no : yes = TRUE /\ no = FALSE
    OBVIOUS
  <2> DEFINE m == [Client!NoMeta EXCEPT !.id = d, !.claim = c]
             a == [r EXCEPT !.pc = "claim"]
             b == [a EXCEPT !.failures[d] = 0]
             e == [b EXCEPT !.kept = yes]
             s == [e EXCEPT !.meta = m]
  <2>3. Client!Does(w, [r EXCEPT !.pc = "claim", !.failures[d] = 0, !.kept = TRUE, !.meta = m])
    BY <1>2, <2>1 DEF Client!ListRoomEvent
  <2>4. [r EXCEPT !.pc = "claim", !.failures[d] = 0, !.kept = TRUE, !.meta = m] = s
    BY <2>2, Zenon
  <2>5. m = [id |-> d, claim |-> c, lost |-> no, persisted |-> no, tries |-> 0, acks |-> 0]
    <3>1. Client!NoMeta = [id |-> 0, claim |-> Client!NoClaim, lost |-> no, persisted |-> no, tries |-> 0, acks |-> 0]
      BY <2>2, Zenon DEF Client!NoMeta
    <3> DEFINE m1 == [Client!NoMeta EXCEPT !.id = d]
    <3>2. m = [m1 EXCEPT !.claim = c]
      OBVIOUS
    <3>3. m1 = [id |-> d, claim |-> Client!NoClaim, lost |-> no, persisted |-> no, tries |-> 0, acks |-> 0]
      BY <3>1
    <3> HIDE DEF m1, m
    <3> QED BY <3>2, <3>3
  <2> HIDE DEF m
  <2>6. MetaFields(m) /\ m.id = d /\ m.persisted = no
    BY <2>5 DEF MetaFields
  <2>7. ~m.persisted
    BY <2>2, <2>6, Zenon
  <2> HIDE DEF r
  <2>8. a = Worker("claim", d, r.meta, r.kept, r.quarantined, r.cursor, r.failures, r.discard)
    BY <1>0 DEF WorkerOK, WorkerFields, Worker
  <2> HIDE DEF a
  <2>9. b = Worker("claim", d, r.meta, r.kept, r.quarantined, r.cursor, f, r.discard)
    BY <2>8 DEF Worker
  <2> HIDE DEF b
  <2>10. e = Worker("claim", d, r.meta, yes, r.quarantined, r.cursor, f, r.discard)
    BY <2>9 DEF Worker
  <2> HIDE DEF e
  <2>11. s = Worker("claim", d, m, yes, r.quarantined, r.cursor, f, r.discard)
    BY <2>10 DEF Worker
  <2>12. MemoryOK("claim", d, m, yes, r.quarantined, r.cursor, mail)
    BY <1>0, <2>6, <2>7 DEF WorkerOK, MemoryOK, AtWork, Discarding
  <2> HIDE DEF s
  <2>13. WorkerOK(s, mail)
    BY <2>11, <2>12, WorkerMade
  <2>14. Client!Does(w, s)
    BY <2>3, <2>4 DEF r
  <2> QED BY <1>0, <2>13, <2>14, WorkerThinks DEF r
<1> QED BY <1>1, <1>2

\* An event that cannot be read is retried or ends in quarantine.
LEMMA ListFailsOK ==
  ASSUME ClientInv, NEW w \in Workers, Client!ListFails(w) PROVE ClientInv'
<1> DEFINE r == wk[w]
           d == r.id
           i == Client!Idle(r)
           n == [i EXCEPT !.failures[d] = @ + 1]
<1>0. WorkerOK(r, mail) /\ r.pc = "event" /\ UNCHANGED <<mail, net>> /\ Reached(d, r.quarantined, mail)
  BY DEF ClientInv, Client!ListFails, WorkerOK, MemoryOK
<1>1. Client!Does(w, Client!Quarantined(r, d)) \/ Client!Does(w, n)
  BY DEF Client!ListFails
<1>2. WorkerOK(Client!Quarantined(r, d), mail)
  BY <1>0, QuarantinedOK
<1>3. WorkerOK(n, mail)
  <2>1. WorkerOK(i, mail)
    BY <1>0, WorkerIdleOK
  <2> HIDE DEF i
  <2>2. n = Worker(i.pc, i.id, i.meta, i.kept, i.quarantined, i.cursor,
                   [i.failures EXCEPT ![d] = i.failures[d] + 1], i.discard)
    BY <2>1 DEF WorkerOK, WorkerFields, Worker
  <2> QED BY <2>1, <2>2, WorkerMade DEF WorkerOK
<1> HIDE DEF n
<1> QED BY <1>0, <1>1, <1>2, <1>3, WorkerThinks

\* The claim of a discard is of no account to the rest.
LEMMA DiscardSet ==
  ASSUME NEW r, NEW M, WorkerOK(r, M), NEW d, NEW c
  PROVE  LET s == [Client!Idle(r) EXCEPT !.discard[d] = c] IN WorkerOK(s, M) /\ s.quarantined = r.quarantined
<1> DEFINE i == Client!Idle(r)
           s == [i EXCEPT !.discard[d] = c]
<1>1. WorkerOK(i, M) /\ i.quarantined = r.quarantined
  BY WorkerIdleOK, IdleIs, WorkerIs DEF WorkerOK
<1> HIDE DEF i
<1>2. s = Worker(i.pc, i.id, i.meta, i.kept, i.quarantined, i.cursor, i.failures, [i.discard EXCEPT ![d] = c])
  BY <1>1 DEF WorkerOK, WorkerFields, Worker
<1> HIDE DEF s
<1>3. WorkerOK(s, M)
  BY <1>1, <1>2, WorkerMade DEF WorkerOK
<1>4. s.quarantined = i.quarantined
  BY <1>2, WorkerIs
<1> QED BY <1>1, <1>3, <1>4 DEF s, i

\* A discarded delivery may be passed.
LEMMA DiscardedOK ==
  ASSUME NEW r, NEW M, WorkerOK(r, M), r.pc \in Discarding, NEW c
  PROVE  WorkerOK(Client!Advance([Client!Idle(r) EXCEPT !.discard[r.id] = c], r.id), M)
<1> DEFINE s == [Client!Idle(r) EXCEPT !.discard[r.id] = c]
<1>1. WorkerOK(s, M) /\ s.quarantined = r.quarantined
  BY DiscardSet
<1> HIDE DEF s
<1>2. Reached(r.id, s.quarantined, M) /\ MayPass(r.id, s.quarantined, M)
  BY <1>1 DEF WorkerOK, MemoryOK, MayPass, Discarding
<1>3. WorkerOK(Client!Advance(s, r.id), M)
  BY <1>1, <1>2, AdvanceOK
<1> QED BY <1>3 DEF s

\* The claim of a delivery that is to be discarded.
LEMMA DiscardClaimOK ==
  ASSUME ClientInv, NEW w \in Workers, Client!DiscardClaim(w) PROVE ClientInv'
<1> DEFINE r == wk[w]
           m == Client!Req("claim", w, r.id, r.discard[r.id])
<1>0. WorkerOK(r, mail) /\ r.pc = "dclaim" /\ UNCHANGED net /\ mail' = Client!Served(m)
  BY DEF ClientInv, Client!DiscardClaim
<1>1. m.id = r.id /\ m.op = "claim" /\ r.id \in Polled
  BY <1>0 DEF Client!Req, WorkerOK, MemoryOK, Reached
<1>2. \/ Client!Does(w, [r EXCEPT !.pc = "dack"]) \/ Client!Does(w, Client!Idle(r))
      \/ Client!Does(w, Client!Advance([Client!Idle(r) EXCEPT !.discard[r.id] = Client!NoClaim], r.id))
  BY DEF Client!DiscardClaim
<1> HIDE DEF m, r
<1>3. WorkerOK(r, mail')
  BY <1>0, <1>1, ServedOK, WorkerGrows DEF ClientInv
<1>4. WorkerOK([r EXCEPT !.pc = "dack"], mail')
  <2>1. Kind[r.id] = "skip"
    BY <1>0 DEF WorkerOK, MemoryOK, Discarding
  <2> QED BY <1>0, <1>3, <2>1, StageOK DEF AtWork, Discarding
<1>5. WorkerOK(Client!Idle(r), mail')
  BY <1>3, WorkerIdleOK
<1>6. WorkerOK(Client!Advance([Client!Idle(r) EXCEPT !.discard[r.id] = Client!NoClaim], r.id), mail')
  BY <1>0, <1>3, DiscardedOK DEF Discarding
<1>7. m.id \in Polled /\ (m.op = "ack" => MayAck(m.id, mail))
  BY <1>1
<1> QED BY <1>0, <1>2, <1>4, <1>5, <1>6, <1>7, WorkerServed DEF r

\* Its acknowledgement.
LEMMA DiscardAckOK ==
  ASSUME ClientInv, NEW w \in Workers, Client!DiscardAck(w) PROVE ClientInv'
<1> DEFINE r == wk[w]
           m == Client!Req("ack", w, r.id, r.discard[r.id])
<1>0. WorkerOK(r, mail) /\ r.pc = "dack" /\ UNCHANGED net /\ mail' = Client!Served(m)
  BY DEF ClientInv, Client!DiscardAck
<1>1. m.id = r.id /\ r.id \in Polled /\ Kind[r.id] = "skip"
  BY <1>0 DEF Client!Req, WorkerOK, MemoryOK, Reached, Discarding
<1>2. \/ Client!Does(w, Client!Idle(r))
      \/ Client!Does(w, Client!Advance([Client!Idle(r) EXCEPT !.discard[r.id] = Client!NoClaim], r.id))
  BY DEF Client!DiscardAck
<1> HIDE DEF m, r
<1>3. m.id \in Polled /\ (m.op = "ack" => MayAck(m.id, mail))
  BY <1>1 DEF MayAck
<1>4. WorkerOK(r, mail')
  BY <1>0, <1>3, ServedOK, WorkerGrows DEF ClientInv
<1>5. WorkerOK(Client!Idle(r), mail')
  BY <1>4, WorkerIdleOK
<1>6. WorkerOK(Client!Advance([Client!Idle(r) EXCEPT !.discard[r.id] = Client!NoClaim], r.id), mail')
  BY <1>0, <1>4, DiscardedOK DEF Discarding
<1> QED BY <1>0, <1>2, <1>3, <1>5, <1>6, WorkerServed DEF r

\* The claim of a delivery that is to be answered.
LEMMA EstablishClaimOK ==
  ASSUME ClientInv, NEW w \in Workers, Client!EstablishClaim(w) PROVE ClientInv'
<1> DEFINE r == wk[w]
           m == Client!Req("claim", w, r.id, r.meta.claim)
<1>0. WorkerOK(r, mail) /\ r.pc = "claim" /\ UNCHANGED net /\ mail' = Client!Served(m)
  BY DEF ClientInv, Client!EstablishClaim
<1>1. m.id = r.id /\ m.op = "claim" /\ r.id \in Polled /\ r.meta.id = r.id
  BY <1>0 DEF Client!Req, WorkerOK, MemoryOK, Reached, AtWork
<1>2. \/ Client!Does(w, Client!Dropped(r))
      \/ (Kind[r.id] = "note" \/ r.meta.persisted) /\ Client!Does(w, [r EXCEPT !.pc = "ack"])
      \/ Client!Does(w, [r EXCEPT !.pc = "scan"])
  BY DEF Client!EstablishClaim, Client!Conflicts
<1> HIDE DEF m, r
<1>3. WorkerOK(r, mail')
  BY <1>0, <1>1, ServedOK, WorkerGrows DEF ClientInv
<1>4. WorkerOK(Client!Dropped(r), mail')
  BY <1>3, DroppedOK
<1>5. WorkerOK([r EXCEPT !.pc = "scan"], mail')
  BY <1>0, <1>1, <1>3, StageOK DEF AtWork, Discarding
<1>6. Kind[r.id] = "note" \/ r.meta.persisted => WorkerOK([r EXCEPT !.pc = "ack"], mail')
  <2> SUFFICES ASSUME Kind[r.id] = "note" \/ r.meta.persisted PROVE WorkerOK([r EXCEPT !.pc = "ack"], mail')
    OBVIOUS
  <2>1. MayAck(r.id, mail')
    BY <1>1, <1>3 DEF WorkerOK, MemoryOK, MayAck
  <2> QED BY <1>0, <1>1, <1>3, <2>1, StageOK DEF AtWork, Discarding
<1>7. m.id \in Polled /\ (m.op = "ack" => MayAck(m.id, mail))
  BY <1>1
<1> QED BY <1>0, <1>2, <1>4, <1>5, <1>6, <1>7, WorkerServed DEF r

\* The search for a reply that an earlier attempt has left.
LEMMA FindExistingReplyOK ==
  ASSUME ClientInv, NEW w \in Workers, Client!FindExistingReply(w) PROVE ClientInv'
<1> DEFINE r == wk[w]
           s == [r EXCEPT !.pc = "ack", !.meta.persisted = TRUE]
<1>0. WorkerOK(r, mail) /\ r.pc = "scan" /\ UNCHANGED <<mail, net>>
  BY DEF ClientInv, Client!FindExistingReply
<1>1. \/ Client!Does(w, Client!Dropped(r))
      \/ mail[r.id].reply /\ Client!Does(w, s)
      \/ Client!Does(w, [r EXCEPT !.pc = "run"])
  BY Zenon DEF Client!FindExistingReply
<1>2. r.meta.id = r.id
  BY <1>0 DEF WorkerOK, MemoryOK, AtWork
<1>3. mail[r.id].reply => WorkerOK(s, mail)
  BY <1>0, PersistedOK DEF AtWork
<1> HIDE DEF s, r
<1>4. WorkerOK(Client!Dropped(r), mail) /\ WorkerOK([r EXCEPT !.pc = "run"], mail)
  BY <1>0, <1>2, DroppedOK, StageOK DEF AtWork, Discarding
<1> QED BY <1>0, <1>1, <1>3, <1>4, WorkerThinks DEF r

\* The run of the reasoner.
LEMMA GenerateOK ==
  ASSUME ClientInv, NEW w \in Workers, Client!Generate(w) PROVE ClientInv'
<1> DEFINE r == wk[w]
<1>0. WorkerOK(r, mail) /\ r.pc = "run" /\ UNCHANGED <<mail, net>>
  BY DEF ClientInv, Client!Generate
<1>1. \/ Client!Does(w, Client!Dropped(r)) \/ Client!Does(w, [r EXCEPT !.pc = "append"])
  BY DEF Client!Generate
<1>2. r.meta.id = r.id
  BY <1>0 DEF WorkerOK, MemoryOK, AtWork
<1> HIDE DEF r
<1>4. WorkerOK(Client!Dropped(r), mail) /\ WorkerOK([r EXCEPT !.pc = "append"], mail)
  BY <1>0, <1>2, DroppedOK, StageOK DEF AtWork, Discarding
<1> QED BY <1>0, <1>1, <1>4, WorkerThinks DEF r

\* The reply is appended before the delivery is acknowledged.
LEMMA AppendReplyOK ==
  ASSUME ClientInv, NEW w \in Workers, Client!AppendReply(w) PROVE ClientInv'
<1> DEFINE r == wk[w]
           m == Client!Req("reply", w, r.id, Client!NoClaim)
           s == [r EXCEPT !.pc = "ack", !.meta.persisted = TRUE]
<1>0. WorkerOK(r, mail) /\ r.pc = "append" /\ UNCHANGED net /\ mail' = Client!Served(m)
  BY DEF ClientInv, Client!AppendReply
<1>1. m.id = r.id /\ m.op = "reply" /\ r.id \in Polled /\ r.meta.id = r.id
  BY <1>0 DEF Client!Req, WorkerOK, MemoryOK, Reached, AtWork
<1>2. \/ Client!Does(w, Client!Dropped(r)) \/ Client!Does(w, s)
      \/ Client!Does(w, Client!RecordProcessingFailure(r))
  <2>1. PICK x \in Client!Appended(r) : Client!Does(w, x)
    BY DEF Client!AppendReply
  <2>2. x = Client!Dropped(r) \/ x = s \/ x = Client!RecordProcessingFailure(r)
    BY Zenon DEF Client!Appended
  <2> HIDE DEF s
  <2> QED BY <2>1, <2>2
<1> HIDE DEF m
<1>3. WorkerOK(r, mail') /\ (mail')[r.id].reply
  BY <1>0, <1>1, ServedOK, WorkerGrows DEF ClientInv
<1>4. WorkerOK(s, mail')
  BY <1>0, <1>3, PersistedOK DEF AtWork
<1> HIDE DEF s, r
<1>5. WorkerOK(Client!Dropped(r), mail') /\ WorkerOK(Client!RecordProcessingFailure(r), mail')
  <2>1. Reached(r.meta.id, r.quarantined, mail')
    BY <1>0, <1>1, <1>3 DEF WorkerOK, MemoryOK
  <2> QED BY <1>3, <2>1, DroppedOK, ProcessingFailureOK
<1>7. m.id \in Polled /\ (m.op = "ack" => MayAck(m.id, mail))
  BY <1>1
<1> QED BY <1>0, <1>2, <1>4, <1>5, <1>7, WorkerServed DEF r

\* The acknowledgement.
LEMMA AcknowledgeOwnedOK ==
  ASSUME ClientInv, NEW w \in Workers, Client!AcknowledgeOwned(w) PROVE ClientInv'
<1> DEFINE r == wk[w]
           m == Client!Req("ack", w, r.id, r.meta.claim)
<1>0. WorkerOK(r, mail) /\ r.pc = "ack" /\ UNCHANGED net /\ mail' = Client!Served(m)
  BY DEF ClientInv, Client!AcknowledgeOwned
<1>1. m.id = r.id /\ m.op = "ack" /\ r.id \in Polled /\ r.meta.id = r.id /\ MayAck(r.id, mail)
  BY <1>0 DEF Client!Req, WorkerOK, MemoryOK, Reached, AtWork
<1>2. \/ (mail')[r.id].state = "processed" /\ Client!Does(w, Client!Acknowledged(r))
      \/ Client!Does(w, Client!AckFailed(r))
  BY DEF Client!AcknowledgeOwned
<1> HIDE DEF m, r
<1>3. WorkerOK(r, mail')
  BY <1>0, <1>1, ServedOK, WorkerGrows DEF ClientInv
<1>4. Reached(r.meta.id, r.quarantined, mail')
  BY <1>0, <1>1, <1>3 DEF WorkerOK, MemoryOK
<1>5. WorkerOK(Client!AckFailed(r), mail')
  BY <1>3, <1>4, AckFailedOK
<1>6. (mail')[r.id].state = "processed" => WorkerOK(Client!Acknowledged(r), mail')
  BY <1>1, <1>3, <1>4, AcknowledgedOK
<1>7. m.id \in Polled /\ (m.op = "ack" => MayAck(m.id, mail))
  BY <1>1
<1> QED BY <1>0, <1>2, <1>5, <1>6, <1>7, WorkerServed DEF r

-----------------------------------------------------------------------------
\* What a worker has sent may arrive whenever it does.
LEMMA SentOK ==
  ASSUME ClientInv, NEW w \in Workers, NEW m \in Client!Sent(w) PROVE PostedOK(m, mail)
<1> DEFINE r == wk[w]
<1>0. WorkerOK(r, mail)
  BY DEF ClientInv
<1>1. r.pc \in {"claim", "append", "ack", "dclaim", "dack"}
  BY DEF Client!Sent
<1>2. r.id \in Polled /\ (r.pc = "dack" => Kind[r.id] = "skip") /\ (r.pc = "ack" => MayAck(r.id, mail))
  BY <1>0, <1>1 DEF WorkerOK, MemoryOK, Reached, Discarding
<1>3. PICK op, c : m = Client!Req(op, w, r.id, c) /\ (op = "ack" => r.pc \in {"ack", "dack"})
  BY <1>1 DEF Client!Sent
<1>4. m.op = op /\ m.by = w /\ m.id = r.id /\ m.claim = c /\ RequestFields(m)
  BY <1>3 DEF Client!Req, RequestFields
<1> QED BY <1>2, <1>3, <1>4 DEF PostedOK, MayAck

\* A request fails, and may still be served later.
LEMMA RequestFailsOK ==
  ASSUME ClientInv, NEW w \in Workers, Client!RequestFails(w) PROVE ClientInv'
<1> DEFINE r == wk[w]
<1>0. /\ WorkerOK(r, mail) /\ r.pc \in AtWork \cup Discarding
      /\ net' = net \cup Client!Sent(w) /\ UNCHANGED mail
  BY DEF ClientInv, Client!RequestFails, AtWork, Discarding
<1>1. \/ Client!Does(w, Client!Idle(r))
      \/ r.pc \in AtWork /\ Client!Does(w, Client!AckFailed(r))
      \/ r.pc \in AtWork /\ Client!Does(w, Client!RecordProcessingFailure(r))
  BY <1>0 DEF Client!RequestFails, AtWork, Discarding
<1>2. WorkerOK(Client!Idle(r), mail)
  BY <1>0, WorkerIdleOK
<1>3. r.pc \in AtWork => WorkerOK(Client!AckFailed(r), mail) /\ WorkerOK(Client!RecordProcessingFailure(r), mail)
  <2> SUFFICES ASSUME r.pc \in AtWork
               PROVE  WorkerOK(Client!AckFailed(r), mail) /\ WorkerOK(Client!RecordProcessingFailure(r), mail)
    OBVIOUS
  <2>1. Reached(r.meta.id, r.quarantined, mail)
    BY <1>0 DEF WorkerOK, MemoryOK, AtWork
  <2> QED BY <1>0, <2>1, AckFailedOK, ProcessingFailureOK
<1>4. \A m \in net' : m \in net \/ PostedOK(m, mail)
  BY <1>0, SentOK
<1>5. MailOK(mail') /\ MailGrows(mail, mail')
  BY <1>0, SameGrows DEF ClientInv
<1> HIDE DEF r
<1> QED BY <1>0, <1>1, <1>2, <1>3, <1>4, <1>5, WorkerSteps DEF r

\* A claim that is refused is given up.
LEMMA RefusedOK ==
  ASSUME ClientInv, NEW w \in Workers, Client!Refused(w) PROVE ClientInv'
<1>1. WorkerOK(wk[w], mail) /\ Client!Does(w, Client!Dropped(wk[w])) /\ UNCHANGED <<mail, net>>
  BY DEF ClientInv, Client!Refused
<1> QED BY <1>1, DroppedOK, WorkerThinks

\* A worker that starts again knows nothing, and so nothing that is not so.
LEMMA NewWorkerOK == ASSUME NEW M PROVE WorkerOK(Client!NewWorker, M)
<1> DEFINE none == Client!NoMeta
           f == [d \in Polled |-> 0]
           g == [d \in Polled |-> Client!NoClaim]
<1>1. PICK no : no = FALSE
  OBVIOUS
<1>2. MetaFields(none) /\ ~none.persisted
  BY NoMetaIs
<1>3. Client!NewWorker = Worker("idle", 0, none, no, {}, 0, f, g)
  BY <1>1, Zenon DEF Client!NewWorker, Worker
<1> HIDE DEF none, f, g
<1>4. MemoryOK("idle", 0, none, no, {}, 0, M)
  BY <1>1, <1>2, ClientConstants DEF MemoryOK, AtWork, Discarding, Client!MailboxClientAssumption
<1> QED BY <1>3, <1>4, WorkerMade

\* A worker dies and starts again, its request possibly on its way.
LEMMA RestartsOK ==
  ASSUME ClientInv, NEW w \in Workers, Client!Restarts(w) PROVE ClientInv'
<1>1. /\ net' = net \cup Client!Sent(w) /\ UNCHANGED mail /\ Client!Does(w, Client!NewWorker)
  BY DEF Client!Restarts
<1>2. \A m \in net' : m \in net \/ PostedOK(m, mail')
  BY <1>1, SentOK
<1>3. MailOK(mail') /\ MailGrows(mail, mail')
  BY <1>1, SameGrows DEF ClientInv
<1>4. WorkerOK(Client!NewWorker, mail')
  BY NewWorkerOK
<1> QED BY <1>1, <1>2, <1>3, <1>4, WorkerSteps

\* A renewal of the claim is sent.
LEMMA SendRenewalOK ==
  ASSUME ClientInv, NEW w \in Workers, Client!SendRenewal(w) PROVE ClientInv'
<1> DEFINE m == Client!Req("renew", w, wk[w].id, wk[w].meta.claim)
<1>1. /\ net' = net \cup {m} /\ UNCHANGED <<mail, wk>> /\ wk[w].pc # "idle" /\ WorkerOK(wk[w], mail)
  BY DEF Client!SendRenewal, Client!Custody, ClientInv
<1>2. wk[w].id \in Polled
  BY <1>1 DEF WorkerOK, MemoryOK, Reached
<1>3. PostedOK(m, mail)
  BY <1>2 DEF PostedOK, RequestFields, Client!Req
<1> HIDE DEF m
<1> QED BY <1>1, <1>3 DEF ClientInv

\* A claim that is lost is only marked.
LEMMA LostOK ==
  ASSUME ClientInv, NEW m \in net, Client!OwnershipLost(m), MailOK(mail'), MailGrows(mail, mail'),
         \A x \in net' : x \in net \/ PostedOK(x, mail')
  PROVE  ClientInv'
<1> DEFINE w == m.by
           r == wk[w]
           s == [r EXCEPT !.meta.lost = TRUE]
<1>0. w \in Workers /\ WorkerOK(r, mail')
  BY WorkerGrows DEF ClientInv, PostedOK
<1>1. CASE UNCHANGED wk
  <2>1. \A x \in Workers : WorkerOK(wk'[x], mail')
    BY <1>1, WorkerGrows DEF ClientInv
  <2>2. \A x \in net' : PostedOK(x, mail')
    BY PostedGrows DEF ClientInv
  <2> QED BY <1>1, <2>1, <2>2 DEF ClientInv
<1>2. CASE Client!Does(w, s)
  <2>1. PICK yes : yes = TRUE
    OBVIOUS
  <2> DEFINE n == [r.meta EXCEPT !.lost = yes]
  <2>2. s = [r EXCEPT !.meta.lost = yes]
    BY <2>1, Zenon
  <2>3. Client!Does(w, [r EXCEPT !.meta.lost = yes])
    BY <1>2, <2>2, Zenon
  <2> HIDE DEF s, r
  <2>4. [r EXCEPT !.meta.lost = yes] = [r EXCEPT !.meta = n]
    BY <1>0 DEF WorkerOK, WorkerFields, Worker
  <2>5. n = [id |-> r.meta.id, claim |-> r.meta.claim, lost |-> yes, persisted |-> r.meta.persisted,
             tries |-> r.meta.tries, acks |-> r.meta.acks]
    BY <1>0 DEF WorkerOK, MemoryOK, MetaFields
  <2> HIDE DEF n
  <2>6. MetaFields(n) /\ n.id = r.meta.id /\ n.persisted = r.meta.persisted
    BY <2>5 DEF MetaFields
  <2>7. WorkerOK([r EXCEPT !.meta = n], mail')
    BY <1>0, <2>6, MetaSet
  <2>8. Client!Does(w, [r EXCEPT !.meta = n])
    BY <2>3, <2>4
  <2> QED BY <1>0, <2>7, <2>8, WorkerSteps
<1> QED BY <1>1, <1>2 DEF Client!OwnershipLost

\* A renewal is answered, fails, or reports that the claim is lost.
LEMMA RenewalOK ==
  ASSUME ClientInv, NEW m \in net, Client!RenewalAnswered(m) \/ Client!RenewalFails(m) PROVE ClientInv'
<1>1. CASE Client!RenewalAnswered(m)
  <2>1. mail' = Client!Served(m) /\ net' = net \ {m} /\ (UNCHANGED wk \/ Client!OwnershipLost(m))
    BY <1>1 DEF Client!RenewalAnswered
  <2>2. MailOK(mail') /\ MailGrows(mail, mail')
    BY <2>1, ServedOK DEF ClientInv, PostedOK
  <2> QED BY <2>1, <2>2, LostOK, ServerSteps
<1>2. CASE Client!RenewalFails(m)
  <2> DEFINE n == [m EXCEPT !.op = "claim"]
  <2>1. UNCHANGED mail /\ net' = (net \ {m}) \cup {n} /\ Client!OwnershipLost(m)
    BY <1>2 DEF Client!RenewalFails
  <2>2. MailOK(mail') /\ MailGrows(mail, mail')
    BY <2>1, SameGrows DEF ClientInv
  <2>3. PostedOK(m, mail)
    BY DEF ClientInv
  <2>4. n = [op |-> "claim", by |-> m.by, id |-> m.id, claim |-> m.claim]
    BY <2>3 DEF PostedOK, RequestFields
  <2> HIDE DEF n
  <2>5. PostedOK(n, mail')
    BY <2>3, <2>4 DEF PostedOK, RequestFields
  <2>6. \A x \in net' : x \in net \/ PostedOK(x, mail')
    BY <2>1, <2>5
  <2> QED BY <2>1, <2>2, <2>6, LostOK
<1> QED BY <1>1, <1>2

\* A request that was given up arrives, or is lost.
LEMMA ArrivalOK ==
  ASSUME ClientInv, NEW m \in net, Client!Arrives(m) \/ Client!Vanishes(m) PROVE ClientInv'
<1>1. CASE Client!Arrives(m)
  BY <1>1, ServerSteps DEF Client!Arrives
<1>2. CASE Client!Vanishes(m)
  BY <1>2 DEF Client!Vanishes, ClientInv
<1> QED BY <1>1, <1>2

\* A claim expires.
LEMMA ExpiresOK ==
  ASSUME ClientInv, NEW d \in Polled, Client!Expires(d) PROVE ClientInv'
<1> DEFINE e == mail[d]
<1>0. EntryOK(e, d) /\ mail = [x \in Polled |-> mail[x]]
  BY DEF ClientInv, MailOK
<1>1. mail' = [mail EXCEPT ![d].live = FALSE] /\ UNCHANGED <<net, wk>>
  BY DEF Client!Expires
<1>2. PICK no : no = FALSE
  OBVIOUS
<1>3. mail' = [mail EXCEPT ![d].live = no]
  BY <1>1, <1>2, Zenon
<1> DEFINE f == [state |-> e.state, claim |-> e.claim, live |-> no, reply |-> e.reply]
<1>4. mail' = [x \in Polled |-> IF x = d THEN f ELSE mail[x]]
  BY <1>0, <1>3 DEF EntryOK
<1>5. f = [state |-> f.state, claim |-> f.claim, live |-> f.live, reply |-> f.reply]
        /\ f.state = e.state /\ f.reply = e.reply
  OBVIOUS
<1> HIDE DEF f
<1>6. EntryOK(f, d)
  BY <1>0, <1>5 DEF EntryOK
<1>7. \A x \in Polled : mail'[x] = IF x = d THEN f ELSE mail[x]
  BY <1>4
<1>8. MailOK(mail') /\ MailGrows(mail, mail')
  BY <1>4, <1>5, <1>6, <1>7 DEF ClientInv, MailOK, MailGrows
<1>9. \A x \in Workers : WorkerOK(wk'[x], mail')
  BY <1>1, <1>8, WorkerGrows DEF ClientInv
<1>10. \A x \in net' : PostedOK(x, mail')
  BY <1>1, <1>8, PostedGrows DEF ClientInv
<1> QED BY <1>1, <1>8, <1>9, <1>10 DEF ClientInv

\* Every step of the polling client keeps its invariant.
LEMMA ClientStep == ClientInv /\ Client!MailboxNext => ClientInv'
<1> SUFFICES ASSUME ClientInv, Client!MailboxNext PROVE ClientInv'
  OBVIOUS
<1>1. ASSUME NEW w \in Workers,
             \/ Client!Works(w) \/ Client!ListFails(w) \/ Client!RequestFails(w) \/ Client!Refused(w)
             \/ Client!SendRenewal(w) \/ Client!Restarts(w)
      PROVE  ClientInv'
  BY <1>1, ListUnreadOK, ListRoomEventOK, DiscardClaimOK, DiscardAckOK, EstablishClaimOK, FindExistingReplyOK,
     GenerateOK, AppendReplyOK, AcknowledgeOwnedOK, ListFailsOK, RequestFailsOK, RefusedOK, SendRenewalOK, RestartsOK
     DEF Client!Works
<1>2. ASSUME NEW m \in net,
             Client!RenewalAnswered(m) \/ Client!RenewalFails(m) \/ Client!Arrives(m) \/ Client!Vanishes(m)
      PROVE  ClientInv'
  BY <1>2, RenewalOK, ArrivalOK
<1>3. ASSUME NEW d \in Polled, Client!Lapses(d) \/ Client!LapsesEarly(d) PROVE ClientInv'
  BY <1>3, ExpiresOK DEF Client!Lapses, Client!LapsesEarly
<1> QED BY <1>1, <1>2, <1>3 DEF Client!MailboxNext

\* Nothing is claimed, sent or remembered.
LEMMA ClientInitially == Client!MailboxInit => ClientInv
<1> SUFFICES ASSUME Client!MailboxInit PROVE ClientInv
  OBVIOUS
<1>1. PICK no : no = FALSE
  OBVIOUS
<1> DEFINE e == [state |-> "pending", claim |-> Client!NoClaim, live |-> no, reply |-> no]
<1>2. mail = [d \in Polled |-> e] /\ net = {} /\ wk = [w \in Workers |-> Client!NewWorker]
  BY <1>1, Zenon DEF Client!MailboxInit
<1>3. \A d \in Polled : EntryOK(e, d)
  BY DEF EntryOK
<1> HIDE DEF e
<1>4. MailOK(mail)
  BY <1>2, <1>3 DEF MailOK
<1>5. \A w \in Workers : WorkerOK(wk[w], mail)
  BY <1>2, NewWorkerOK
<1> QED BY <1>2, <1>4, <1>5 DEF ClientInv

\* The invariant says what the client has to keep.
LEMMA ClientSafe == ClientInv => Client!RepliedBeforeAcked /\ Client!SkipsNothing
  BY DEF ClientInv, MailOK, EntryOK, WorkerOK, MemoryOK, MayPass, Client!RepliedBeforeAcked, Client!SkipsNothing

-----------------------------------------------------------------------------
(* The composition: a behaviour takes one part and the others rest.        *)
CustodyInv == ServiceInv /\ ClientInv

\* A part that rests keeps its invariant.
LEMMA PartsRest ==
  /\ ServiceInv /\ UNCHANGED serviceVars => ServiceInv'
  /\ ClientInv /\ UNCHANGED clientVars => ClientInv'
<1>1. ServiceInv /\ UNCHANGED serviceVars => ServiceInv'
  BY DEF ServiceInv, serviceVars
<1>2. ClientInv /\ UNCHANGED clientVars => ClientInv'
  BY DEF ClientInv, clientVars
<1> QED BY <1>1, <1>2

\* Whichever custodian works, each keeps its invariant, and what the service
\* does is a step of the mailbox promise or none.
LEMMA CustodyStep ==
  ASSUME CustodyInv, [CustodyNext]_<<part, vars, serviceVars, clientVars, drainVars>>
  PROVE  CustodyInv' /\ [Service!Promise!DeliveryNext]_<<replies, settled>>
<1>1. CASE Service!Next /\ UNCHANGED clientVars
  BY <1>1, ServiceStep, PartsRest DEF CustodyInv
<1>2. CASE Client!MailboxNext /\ UNCHANGED serviceVars
  <2>1. UNCHANGED <<replies, settled>>
    BY <1>2 DEF serviceVars
  <2> QED BY <1>2, <2>1, ClientStep, PartsRest DEF CustodyInv
<1>3. CASE UNCHANGED <<serviceVars, clientVars>>
  <2>1. UNCHANGED <<replies, settled>>
    BY <1>3 DEF serviceVars
  <2> QED BY <1>3, <2>1, PartsRest DEF CustodyInv
<1> QED BY <1>1, <1>2, <1>3 DEF CustodyNext

\* Both invariants hold in every reachable state.
LEMMA CustodyInvariant == CustodySpec => []CustodyInv
<1>1. CustodyInit => CustodyInv
  BY ServiceInitially, ClientInitially DEF CustodyInit, CustodyInv
<1>2. CustodyInv /\ [CustodyNext]_<<part, vars, serviceVars, clientVars, drainVars>> => CustodyInv'
  BY CustodyStep
<1> QED BY <1>1, <1>2, PTL DEF CustodySpec

\* A delivery the helper holds at the server is acknowledged, open on disk or
\* in quarantine, however many helpers run and wherever each of them dies
\* (MailboxTransactionService.swift).
THEOREM ClaimsAreKept == CustodySpec => []NoOrphanClaim
<1>1. CustodyInv => NoOrphanClaim
  BY DEF CustodyInv, ServiceInv, Covered, NoOrphanClaim, Service!NoOrphanClaim
<1> QED BY <1>1, CustodyInvariant, PTL

\* The transaction service implements MailboxDelivery: one reply per delivery,
\* acknowledged only with the reply it asked for, whatever interleaves, dies
\* or arrives late (MailboxTransactionService.swift).
THEOREM ServiceImplements == CustodySpec => KeepsMailbox
<1>1. CustodyInit => Service!Promise!DeliveryInit
  BY ServiceInitially DEF CustodyInit
<1>2. CustodyInv /\ [CustodyNext]_<<part, vars, serviceVars, clientVars, drainVars>>
        => [Service!Promise!DeliveryNext]_<<replies, settled>>
  BY CustodyStep
<1> QED BY <1>1, <1>2, CustodyInvariant, PTL
  DEF CustodySpec, KeepsMailbox, Service!KeepsMailbox, Service!Promise!DeliverySpec

\* A delivery that wants a reply leaves the mailbox only with one, and the
\* cursor of a polling worker passes no delivery that is still open and not
\* set aside (mailbox-client.mjs).
THEOREM PolledMailIsSafe == CustodySpec => []MailIsSafe
<1>1. CustodyInv => MailIsSafe
  BY ClientSafe DEF CustodyInv, MailIsSafe
<1> QED BY <1>1, CustodyInvariant, PTL

-----------------------------------------------------------------------------
(* The drain of a peer engine.                                             *)

Resends == 0 .. MaxResolved

RowPhases ==
  Drain!Terminal \cup {"none", "executing", "result", "admitted", "retry_pending", "resend_pending"}

Row == [phase : RowPhases, attempt : Nat, resend : Resends, acked : BOOLEAN, told : BOOLEAN,
        large : BOOLEAN, text : Nat, consumed : BOOLEAN]

Sent == [text : Nat, dead : BOOLEAN]

\* The item i is in the inbox q.
Has(q, i) == \E k \in 1..Len(q) : q[k] = i

\* n runs under l licences, with row r and the runner at u.
Licensed(r, u, n, l) ==
  /\ n \in Nat /\ l \in Nat /\ n <= l
  /\ r.phase = "none" => n = 0 /\ l = 1
  /\ r.phase = "retry_pending" \/ u = "queued" => n < l

\* The phases of a row whose reply may have been sent.
Answers == {"result", "admitted", "acked", "reply_failed", "resend_pending", "discarded"}

\* What was sent of row r is its text.
Answered(r, o) ==
  \A k \in Resends : o[k] # Drain!NotSent => o[k].text = r.text /\ r.phase \in Answers

ItemOK(i, R, U, N, L, O, G) ==
  Licensed(R[i], U[i], N[i], L[i]) /\ (i \notin G => Answered(R[i], O[i]))

TurnFields(t) == t = [pc |-> t.pc, item |-> t.item, fresh |-> t.fresh, then |-> t.then]

\* What the step t in flight knows of the rows R, the runner U, the runs N under
\* licences L and the inbox q.
TurnOK(t, R, U, N, L, q) ==
  /\ TurnFields(t) /\ t.pc \in {"idle", "poll", "file", "run", "send", "status", "ack", "tell"}
  /\ t.pc = "poll" =>
       \A i \in Items : R[i].phase \in Drain!Terminal \cup {"none", "retry_pending", "resend_pending"}
  /\ t.pc \notin {"idle", "poll"} =>
       /\ t.item \in Items
       /\ t.pc # "file" => R[t.item].phase # "none"
  /\ t.pc = "file" => R[t.item].phase = "none"
  /\ t.pc = "run" =>
       /\ R[t.item].phase = "executing"
       /\ t.fresh => Has(q, t.item) /\ (U[t.item] = "queued" => N[t.item] = 0 /\ L[t.item] = 1)
  /\ t.pc \in {"send", "status"} => R[t.item].phase \in {"result", "admitted"}
  /\ t.pc = "ack" /\ t.then = "acked" => R[t.item].phase = "admitted"

\* What executes is the step's, while there is a process, and without one there
\* is no step.
ExecutingOK(R, t, b) ==
  /\ b => \A i \in Items : R[i].phase = "executing" => t.pc = "run" /\ t.item = i
  /\ t.pc # "idle" => b

\* A reply that closed the correlation x is on record, or about to be.
RepliedOK(x, R, t, G) ==
  \/ t.pc = "file" /\ KindOf[t.item] = "reply" /\ InReplyTo[t.item] = x
  \/ \E i \in Items : KindOf[i] = "reply" /\ InReplyTo[i] = x /\ (R[i].phase = "reply_received" \/ i \in G)

\* What arrived is on record, in the inbox or was forgotten.
ArrivedOK(A, R, q, G) == \A i \in A : i \in Items /\ (R[i].phase # "none" \/ Has(q, i) \/ i \in G)

DrainTypes ==
  /\ rows \in [Items -> Row] /\ runner \in [Items -> {"none", "queued", "running"}]
  /\ out \in [Items -> [Resends -> Sent]] /\ inbox \in Seq(Items) /\ corr = [x \in Asks |-> corr[x]]
  /\ opened \in BOOLEAN
  /\ hist = [runs |-> hist.runs, licence |-> hist.licence, gone |-> hist.gone, torn |-> hist.torn]
  /\ hist.runs \in [Items -> Nat] /\ hist.licence \in [Items -> Nat]

DrainInv ==
  /\ DrainTypes
  /\ \A i \in Items : ItemOK(i, rows, runner, hist.runs, hist.licence, out, hist.gone)
  /\ TurnOK(turn, rows, runner, hist.runs, hist.licence, inbox)
  /\ ExecutingOK(rows, turn, opened)
  /\ \A x \in Asks : x \notin hist.torn /\ corr[x] = "replied" => RepliedOK(x, rows, turn, hist.gone)
  /\ ArrivedOK(arrived, rows, inbox, hist.gone)


-----------------------------------------------------------------------------
\* The inbox after an item was acknowledged.
LEMMA WithoutKeeps ==
  ASSUME NEW q \in Seq(Items), NEW x
  PROVE  /\ Drain!Without(q, x) \in Seq(Items)
         /\ \A i : i # x /\ Has(q, i) => Has(Drain!Without(q, x), i)
<1> DEFINE r == Drain!Without(q, x)
<1>1. Len(q) \in Nat
  OBVIOUS
<1>2. CASE Has(q, x)
  <2> DEFINE n == CHOOSE k \in 1..Len(q) : q[k] = x
             front == SubSeq(q, 1, n - 1)
             back == SubSeq(q, n + 1, Len(q))
  <2>1. n \in 1..Len(q) /\ q[n] = x
    BY <1>2 DEF Has
  <2>2. r = front \o back
    BY <1>2 DEF Drain!Without, Drain!RemoveAt, Has
  <2> HIDE DEF n, r
  <2>3. front \in Seq(Items) /\ Len(front) = n - 1 /\ \A k \in 1..(n - 1) : front[k] = q[k]
    <3> DEFINE e == n - 1
    <3>1. e \in Nat /\ e <= Len(q) /\ \A k \in 1..e : q[k] \in Items
      BY <1>1, <2>1
    <3> HIDE DEF e
    <3>2. SubSeq(q, 1, e) \in Seq(Items) /\ Len(SubSeq(q, 1, e)) = e /\ \A k \in 1..e : SubSeq(q, 1, e)[k] = q[k]
      BY <1>1, <3>1
    <3> QED BY <3>2 DEF e
  <2>4. back \in Seq(Items) /\ Len(back) = Len(q) - n /\ \A k \in 1..(Len(q) - n) : back[k] = q[n + k]
    <3> DEFINE b == n + 1
    <3>1. b \in Nat /\ 1 <= b /\ b <= Len(q) + 1 /\ \A k \in b..Len(q) : q[k] \in Items
      BY <1>1, <2>1
    <3> HIDE DEF b
    <3>2. /\ SubSeq(q, b, Len(q)) \in Seq(Items) /\ Len(SubSeq(q, b, Len(q))) = Len(q) - b + 1
          /\ \A k \in 1..(Len(q) - b + 1) : SubSeq(q, b, Len(q))[k] = q[b + k - 1]
      BY <1>1, <3>1, SubSeqProperties
    <3>3. Len(q) - b + 1 = Len(q) - n /\ \A k \in 1..(Len(q) - n) : b + k - 1 = n + k
      BY <1>1, <2>1 DEF b
    <3> QED BY <3>2, <3>3 DEF b
  <2> HIDE DEF front, back
  <2>5. /\ r \in Seq(Items) /\ Len(r) = Len(front) + Len(back)
        /\ \A k \in 1..(Len(front) + Len(back)) :
             r[k] = IF k <= Len(front) THEN front[k] ELSE back[k - Len(front)]
    BY <2>2, <2>3, <2>4, ConcatProperties
  <2>6. ASSUME NEW k \in 1..Len(q), q[k] # x PROVE Has(r, q[k])
    <3>1. CASE k < n
      <4>1. k \in 1..(n - 1) /\ k \in 1..Len(r) /\ k <= Len(front) /\ k \in 1..(Len(front) + Len(back))
        <5>1. Len(front) = n - 1 /\ Len(back) = Len(q) - n /\ Len(r) = Len(front) + Len(back)
          BY <2>3, <2>4, <2>5
        <5> QED BY <1>1, <2>1, <3>1, <5>1
      <4>2. r[k] = front[k] /\ front[k] = q[k]
        BY <2>3, <2>5, <4>1
      <4> QED BY <4>1, <4>2 DEF Has
    <3>2. CASE n < k
      <4> DEFINE m == k - 1
      <4>1. m \in 1..Len(r) /\ ~(m <= Len(front)) /\ m - Len(front) \in 1..(Len(q) - n) /\ n + (m - Len(front)) = k
        <5>1. Len(front) = n - 1 /\ Len(back) = Len(q) - n /\ Len(r) = Len(front) + Len(back)
          BY <2>3, <2>4, <2>5
        <5> QED BY <1>1, <2>1, <3>2, <5>1
      <4> HIDE DEF m
      <4>2. r[m] = q[k]
        BY <4>1, <2>4, <2>5
      <4> QED BY <4>1, <4>2 DEF Has
    <3> QED BY <1>1, <2>1, <2>6, <3>1, <3>2
  <2> QED BY <2>5, <2>6 DEF Has, r
<1>3. CASE ~Has(q, x)
  BY <1>3 DEF Drain!Without, Has
<1> QED BY <1>2, <1>3

\* A step at one item.
LEMMA OneItem ==
  ASSUME DrainInv, DrainTypes', NEW x \in Items,
         \A j \in Items : j # x => /\ rows'[j] = rows[j] /\ runner'[j] = runner[j] /\ out'[j] = out[j]
                                   /\ hist'.runs[j] = hist.runs[j] /\ hist'.licence[j] = hist.licence[j],
         hist'.gone = hist.gone, hist'.torn = hist.torn, corr' = corr, opened' = opened, arrived' = arrived,
         \A j \in Items : j # x /\ Has(inbox, j) => Has(inbox', j),
         ItemOK(x, rows', runner', hist'.runs, hist'.licence, out', hist.gone),
         rows'[x].phase # "none" \/ Has(inbox', x) \/ (rows[x].phase = "none" /\ inbox' = inbox),
         rows[x].phase = "reply_received" => rows'[x].phase = "reply_received",
         turn.pc = "file" => turn' = turn \/ (turn.item = x /\ rows'[x].phase = "reply_received"),
         rows'[x].phase = "executing" => (turn'.pc = "run" /\ turn'.item = x) \/ ~opened,
         turn.pc = "run" => turn' = turn \/ turn.item = x,
         turn'.pc = "idle" \/ turn.pc # "idle",
         TurnOK(turn', rows', runner', hist'.runs, hist'.licence, inbox')
  PROVE  DrainInv'
<1>1. \A i \in Items : ItemOK(i, rows', runner', hist'.runs, hist'.licence, out', hist'.gone)
  BY DEF DrainInv, ItemOK
<1>2. ExecutingOK(rows', turn', opened')
  BY DEF DrainInv, ExecutingOK
<1>3. \A y \in Asks : y \notin hist'.torn /\ corr'[y] = "replied" => RepliedOK(y, rows', turn', hist'.gone)
  <2> SUFFICES ASSUME NEW y \in Asks, y \notin hist.torn, corr[y] = "replied"
               PROVE  RepliedOK(y, rows', turn', hist.gone)
    OBVIOUS
  <2>1. RepliedOK(y, rows, turn, hist.gone)
    BY DEF DrainInv
  <2>2. CASE turn.pc = "file" /\ KindOf[turn.item] = "reply" /\ InReplyTo[turn.item] = y
    BY <2>2 DEF RepliedOK
  <2>3. CASE \E i \in Items : KindOf[i] = "reply" /\ InReplyTo[i] = y /\ (rows[i].phase = "reply_received" \/ i \in hist.gone)
    BY <2>3 DEF RepliedOK
  <2> QED BY <2>1, <2>2, <2>3 DEF RepliedOK
<1>4. ArrivedOK(arrived', rows', inbox', hist'.gone)
  BY DEF DrainInv, ArrivedOK
<1> QED BY <1>1, <1>2, <1>3, <1>4 DEF DrainInv

\* A step in flight.
LEMMA TurnIs ==
  ASSUME NEW at, NEW i, NEW next, NEW t, t = Drain!Turn(at, i, next)
  PROVE  TurnFields(t) /\ t.pc = at /\ t.item = i /\ t.then = next
<1>1. PICK no : no = FALSE
  OBVIOUS
<1>2. t = [pc |-> at, item |-> i, fresh |-> no, then |-> next]
  BY <1>1, Zenon DEF Drain!Turn
<1>3. TurnFields(t) /\ t.pc = at /\ t.item = i /\ t.then = next
  BY <1>2 DEF TurnFields
<1> QED BY <1>3

\* Only one kind of step is for a new request.
LEMMA NotFresh ==
  ASSUME NEW at, NEW i, NEW next, NEW t, t = Drain!Turn(at, i, next)
  PROVE  ~t.fresh
<1>1. PICK no : no = FALSE
  OBVIOUS
<1>2. t = [pc |-> at, item |-> i, fresh |-> no, then |-> next]
  BY <1>1, Zenon DEF Drain!Turn
<1>3. t.fresh = no
  BY <1>2
<1> QED BY <1>1, <1>3

\* No step in flight.
LEMMA NoTurnIs ==
  /\ Drain!NoTurn.pc = "idle"
  /\ \A R, U, N, L, q : TurnOK(Drain!NoTurn, R, U, N, L, q)
<1>1. PICK no : no = FALSE
  OBVIOUS
<1>2. PICK t : t = Drain!NoTurn
  OBVIOUS
<1>3. t = [pc |-> "idle", item |-> "none", fresh |-> no, then |-> "end"]
  BY <1>1, <1>2, Zenon DEF Drain!NoTurn
<1>4. TurnFields(t) /\ t.pc = "idle"
  BY <1>3 DEF TurnFields
<1> QED BY <1>2, <1>4 DEF TurnOK

\* A new row.
LEMMA NewRowIs ==
  ASSUME NEW p \in RowPhases, NEW r, r = Drain!NewRow(p)
  PROVE  r \in Row /\ r.phase = p
<1>1. PICK no \in BOOLEAN : no = FALSE
  OBVIOUS
<1>2. 0 \in Resends
  BY DrainConstants DEF Drain!PeerDrainAssumption, Resends
<1>3. PICK z : z = Drain!NoRow
  OBVIOUS
<1>4. z = [phase |-> "none", attempt |-> 0, resend |-> 0, acked |-> no, told |-> no,
           large |-> no, text |-> 0, consumed |-> no]
  BY <1>1, <1>3, Zenon DEF Drain!NoRow
<1>5. r = [z EXCEPT !.phase = p, !.attempt = 1]
  BY <1>3 DEF Drain!NewRow
<1>6. r = [phase |-> p, attempt |-> 1, resend |-> 0, acked |-> no, told |-> no,
           large |-> no, text |-> 0, consumed |-> no]
  BY <1>4, <1>5
<1> QED BY <1>2, <1>6 DEF Row

\* No row.
LEMMA NoRowIs == Drain!NoRow \in Row /\ Drain!NoRow.phase = "none"
<1>1. PICK no \in BOOLEAN : no = FALSE
  OBVIOUS
<1>2. 0 \in Resends
  BY DrainConstants DEF Drain!PeerDrainAssumption, Resends
<1>3. PICK z : z = Drain!NoRow
  OBVIOUS
<1>4. z = [phase |-> "none", attempt |-> 0, resend |-> 0, acked |-> no, told |-> no,
           large |-> no, text |-> 0, consumed |-> no]
  BY <1>1, <1>3, Zenon DEF Drain!NoRow
<1>5. "none" \in RowPhases
  BY DEF RowPhases
<1>6. z \in Row /\ z.phase = "none"
  BY <1>2, <1>4, <1>5 DEF Row
<1> QED BY <1>3, <1>6

\* Row x is set to r.
LEMMA SetIs ==
  ASSUME DrainTypes, NEW x \in Items, NEW r \in Row, Drain!Set(x, r)
  PROVE  rows' \in [Items -> Row] /\ rows'[x] = r /\ \A j \in Items : j # x => rows'[j] = rows[j]
BY DEF DrainTypes, Drain!Set

\* The row r in another phase.
LEMMA PhaseIs ==
  ASSUME NEW r \in Row, NEW p \in RowPhases
  PROVE  LET z == [r EXCEPT !.phase = p]
         IN  z \in Row /\ z.phase = p /\ z.text = r.text
<1>1. PICK z : z = [r EXCEPT !.phase = p]
  OBVIOUS
<1>2. z \in Row /\ z.phase = p /\ z.text = r.text
  BY <1>1 DEF Row
<1> QED BY <1>1, <1>2

\* The step in flight ends, and nothing else, but that an item it has on record
\* may have left the inbox.
LEMMA TurnEnds ==
  ASSUME DrainInv, turn' = Drain!NoTurn, turn.pc \notin {"file", "run"},
         UNCHANGED <<rows, corr, opened, runner, arrived, out, hist>>,
         inbox' = inbox \/ (turn.pc = "ack" /\ inbox' = Drain!Without(inbox, turn.item))
  PROVE  DrainInv'
<1>1. inbox \in Seq(Items)
  BY DEF DrainInv, DrainTypes
<1>2. turn.pc = "ack" => turn.item \in Items /\ rows[turn.item].phase # "none"
  BY DEF DrainInv, TurnOK
<1>3. inbox' \in Seq(Items) /\ \A i : Has(inbox, i) => Has(inbox', i) \/ (i \in Items /\ rows[i].phase # "none")
  BY <1>1, <1>2, WithoutKeeps
<1>4. DrainTypes'
  BY <1>3 DEF DrainInv, DrainTypes
<1>5. \A i \in Items : ItemOK(i, rows', runner', hist'.runs, hist'.licence, out', hist'.gone)
  BY DEF DrainInv
<1>6. TurnOK(turn', rows', runner', hist'.runs, hist'.licence, inbox')
  BY NoTurnIs
<1>7. ExecutingOK(rows', turn', opened')
  BY NoTurnIs DEF DrainInv, ExecutingOK
<1>8. \A x \in Asks : x \notin hist'.torn /\ corr'[x] = "replied" => RepliedOK(x, rows', turn', hist'.gone)
  BY DEF DrainInv, RepliedOK
<1>9. ArrivedOK(arrived', rows', inbox', hist'.gone)
  BY <1>3 DEF DrainInv, ArrivedOK
<1> QED BY <1>4, <1>5, <1>6, <1>7, <1>8, <1>9 DEF DrainInv

\* StepFails and AckLost keep the invariant.
LEMMA StepFailsStep == ASSUME DrainInv, Drain!StepFails \/ Drain!AckLost PROVE DrainInv'
BY TurnEnds DEF Drain!StepFails, Drain!AckLost, Drain!EngineFrame, Drain!OpenFrame

\* A row that is there stays, whatever else happens to it, as long as what was
\* sent of it is its text.
LEMMA RowStep ==
  ASSUME DrainInv, NEW x \in Items, NEW r \in Row, Drain!Set(x, r),
         r.phase # "none", r.phase = "retry_pending" => rows[x].phase = "retry_pending",
         rows[x].phase \notin Answers \/ (r.phase \in Answers /\ r.text = rows[x].text),
         rows[x].phase = "reply_received" => r.phase = "reply_received",
         r.phase = "executing" => turn'.pc = "run" /\ turn'.item = x,
         runner' = runner \/ runner' = [runner EXCEPT ![x] = "none"],
         turn.pc = "file" => turn' = turn \/ (turn.item = x /\ r.phase = "reply_received"),
         turn.pc = "run" => turn' = turn \/ turn.item = x,
         turn'.pc = "idle" \/ turn.pc # "idle",
         inbox' = inbox \/ inbox' = Drain!Without(inbox, x),
         UNCHANGED <<corr, opened, arrived, out, hist>>,
         TurnOK(turn', rows', runner', hist.runs, hist.licence, inbox')
  PROVE  DrainInv'
<1>1. DrainTypes
  BY DEF DrainInv
<1>2. rows' \in [Items -> Row] /\ rows'[x] = r /\ \A j \in Items : j # x => rows'[j] = rows[j]
  BY <1>1, SetIs
<1>3. /\ runner' \in [Items -> {"none", "queued", "running"}] /\ runner'[x] \in {runner[x], "none"}
      /\ \A j \in Items : j # x => runner'[j] = runner[j]
  BY <1>1 DEF DrainTypes
<1>4. inbox' \in Seq(Items) /\ \A j \in Items : j # x /\ Has(inbox, j) => Has(inbox', j)
  BY <1>1, WithoutKeeps DEF DrainTypes
<1>5. DrainTypes'
  BY <1>1, <1>2, <1>3, <1>4 DEF DrainTypes
<1>6. ItemOK(x, rows, runner, hist.runs, hist.licence, out, hist.gone)
  BY DEF DrainInv
<1>7. Licensed(r, runner'[x], hist.runs[x], hist.licence[x])
  BY <1>3, <1>6 DEF ItemOK, Licensed
<1>8. x \notin hist.gone => Answered(r, out[x])
  BY <1>6 DEF ItemOK, Answered
<1>9. ItemOK(x, rows', runner', hist'.runs, hist'.licence, out', hist.gone)
  BY <1>2, <1>7, <1>8 DEF ItemOK
<1> QED BY <1>2, <1>3, <1>4, <1>5, <1>9, OneItem

\* The step goes on at item i.
LEMMA TurnAt ==
  ASSUME NEW at \in {"send", "status", "ack", "tell"}, NEW i \in Items, NEW next, NEW t, t = Drain!Turn(at, i, next),
         NEW R, NEW U, NEW N, NEW L, NEW q, R[i].phase # "none",
         at \in {"send", "status"} => R[i].phase \in {"result", "admitted"},
         next = "acked" => R[i].phase = "admitted"
  PROVE  TurnOK(t, R, U, N, L, q) /\ t.pc = at
<1>1. TurnFields(t) /\ t.pc = at /\ t.item = i /\ t.then = next
  BY TurnIs
<1> QED BY <1>1 DEF TurnOK

\* The operator resolves the row x.
LEMMA TurnGoesOn ==
  ASSUME DrainInv, NEW x \in Items, rows[x].phase \in {"held", "reply_failed", "reply_received"},
         \A j \in Items : j # x => rows'[j] = rows[j],
         rows'[x].phase \in Drain!Terminal \cup {"retry_pending", "resend_pending"},
         NEW N, \A j \in Items : j # x => N[j] = hist.licence[j]
  PROVE  TurnOK(turn, rows', runner, hist.runs, N, inbox)
<1>1. TurnOK(turn, rows, runner, hist.runs, hist.licence, inbox)
  BY DEF DrainInv
<1>2. turn.pc \notin {"idle", "poll"} => turn.item \in Items
  BY <1>1 DEF TurnOK
<1>3. turn.pc \in {"run", "send", "status", "file"} => turn.item # x
  BY <1>1, <1>2 DEF TurnOK
<1>4. turn.pc = "ack" /\ turn.then = "acked" => turn.item # x
  BY <1>1, <1>2 DEF TurnOK
<1> QED BY <1>1, <1>2, <1>3, <1>4 DEF TurnOK, Drain!Terminal

-----------------------------------------------------------------------------
\* The row x fails, and its item is acknowledged next.
LEMMA ReplyFailsStep ==
  ASSUME DrainInv, turn.pc \in {"send", "status"}, Drain!ReplyFails(turn.item),
         UNCHANGED <<corr, opened, runner, inbox, arrived, out, hist>>
  PROVE  DrainInv'
<1> DEFINE x == turn.item
<1>1. DrainTypes /\ x \in Items /\ rows[x].phase \in {"result", "admitted"}
  BY DEF DrainInv, TurnOK
<1>2. rows[x] \in Row
  BY <1>1 DEF DrainTypes
<1>3. PICK r : r = [rows[x] EXCEPT !.phase = "reply_failed"]
  OBVIOUS
<1>4. "reply_failed" \in RowPhases
  BY DEF RowPhases, Drain!Terminal
<1>5. r \in Row /\ r.phase = "reply_failed" /\ r.text = rows[x].text
  BY <1>2, <1>3, <1>4, PhaseIs
<1>6. Drain!Set(x, r) /\ turn' = Drain!Turn("ack", x, "end")
  BY <1>3 DEF Drain!ReplyFails
<1>7. rows'[x] = r
  BY <1>1, <1>5, <1>6, SetIs
<1>8. TurnOK(turn', rows', runner', hist.runs, hist.licence, inbox') /\ turn'.pc = "ack"
  <2>1. rows'[x].phase = "reply_failed" /\ x \in Items
    BY <1>1, <1>5, <1>7
  <2> HIDE DEF x
  <2> QED BY <2>1, <1>6, TurnAt
<1> HIDE DEF x
<1> QED BY <1>1, <1>5, <1>6, <1>8, RowStep DEF Answers

\* NoRoute keeps the invariant.
LEMMA NoRouteStep == ASSUME DrainInv, Drain!NoRoute PROVE DrainInv'
BY ReplyFailsStep DEF Drain!NoRoute, Drain!EngineFrame, Drain!OpenFrame

\* Status keeps the invariant.
LEMMA StatusStep == ASSUME DrainInv, Drain!Status PROVE DrainInv'
<1> DEFINE x == turn.item
<1>1. DrainTypes /\ x \in Items /\ rows[x].phase \in {"result", "admitted"} /\ turn.pc = "status"
  BY DEF DrainInv, TurnOK, Drain!Status
<1>2. UNCHANGED <<corr, opened, runner, inbox, arrived, out, hist>>
  BY DEF Drain!Status, Drain!EngineFrame, Drain!OpenFrame
<1>3. CASE Drain!ReplyFails(x)
  BY <1>1, <1>2, <1>3, ReplyFailsStep
<1>4. CASE Drain!Set(x, [rows[x] EXCEPT !.phase = "admitted"]) /\ turn' = Drain!Turn("ack", x, "acked")
  <2>1. rows[x] \in Row
    BY <1>1 DEF DrainTypes
  <2>2. PICK r : r = [rows[x] EXCEPT !.phase = "admitted"]
    OBVIOUS
  <2>3. r \in Row /\ r.phase = "admitted" /\ r.text = rows[x].text
    <3>1. "admitted" \in RowPhases
      BY DEF RowPhases
    <3> QED BY <2>1, <2>2, <3>1, PhaseIs
  <2>4. Drain!Set(x, r)
    BY <1>4, <2>2
  <2>5. rows'[x] = r
    BY <1>1, <2>3, <2>4, SetIs
  <2>6. TurnOK(turn', rows', runner', hist.runs, hist.licence, inbox') /\ turn'.pc = "ack"
    <3>1. rows'[x].phase = "admitted" /\ x \in Items /\ turn' = Drain!Turn("ack", x, "acked")
      BY <1>1, <1>4, <2>3, <2>5
    <3> HIDE DEF x
    <3>2. TurnFields(turn') /\ turn'.pc = "ack" /\ turn'.item = x /\ turn'.then = "acked"
      BY <3>1, TurnIs
    <3> QED BY <3>1, <3>2 DEF TurnOK
  <2> HIDE DEF x
  <2> QED BY <1>1, <1>2, <2>3, <2>4, <2>6, RowStep DEF Answers
<1> QED BY <1>3, <1>4 DEF Drain!Status

\* FileReply keeps the invariant.
LEMMA FileReplyStep == ASSUME DrainInv, Drain!FileReply PROVE DrainInv'
<1> DEFINE x == turn.item
<1>1. DrainTypes /\ x \in Items /\ rows[x].phase = "none" /\ turn.pc = "file"
  BY DEF DrainInv, TurnOK, Drain!FileReply
<1>2. UNCHANGED <<corr, opened, runner, inbox, arrived, out, hist>>
  BY DEF Drain!FileReply, Drain!EngineFrame, Drain!OpenFrame
<1>3. PICK r : r = Drain!NewRow("reply_received")
  OBVIOUS
<1>4. r \in Row /\ r.phase = "reply_received"
  <2>1. "reply_received" \in RowPhases
    BY DEF RowPhases, Drain!Terminal
  <2> QED BY <1>3, <2>1, NewRowIs
<1>5. Drain!Set(x, r) /\ turn' = Drain!Turn("ack", x, "end")
  BY <1>3 DEF Drain!FileReply
<1>6. rows'[x] = r
  BY <1>1, <1>4, <1>5, SetIs
<1>7. TurnOK(turn', rows', runner', hist.runs, hist.licence, inbox') /\ turn'.pc = "ack"
  BY <1>1, <1>4, <1>5, <1>6, TurnAt
<1> HIDE DEF x
<1> QED BY <1>1, <1>2, <1>4, <1>5, <1>7, RowStep DEF Answers, x

\* Ack keeps the invariant.
LEMMA AckStep == ASSUME DrainInv, Drain!Ack PROVE DrainInv'
<1> DEFINE x == turn.item
<1>1. DrainTypes /\ x \in Items /\ rows[x].phase # "none" /\ turn.pc = "ack"
      /\ (turn.then = "acked" => rows[x].phase = "admitted")
  BY DEF DrainInv, TurnOK, Drain!Ack
<1>2. UNCHANGED <<corr, opened, runner, arrived, out, hist>>
  BY DEF Drain!Ack, Drain!OpenFrame
<1>3. inbox' = inbox \/ inbox' = Drain!Without(inbox, x)
  BY DEF Drain!Ack
<1>4. rows[x] \in Row /\ rows[x].phase # "executing"
  BY <1>1 DEF DrainInv, DrainTypes, ExecutingOK
<1>5. PICK p : p = IF turn.then = "acked" THEN "acked" ELSE rows[x].phase
  OBVIOUS
<1>6. p \in RowPhases
  BY <1>4, <1>5 DEF Row, RowPhases, Drain!Terminal
<1>7. PICK yes \in BOOLEAN : yes = TRUE
  OBVIOUS
<1>8. PICK r : r = [rows[x] EXCEPT !.acked = yes, !.phase = p]
  OBVIOUS
<1>9. r \in Row /\ r.phase = p /\ r.text = rows[x].text
  BY <1>4, <1>6, <1>8 DEF Row
<1>10. Drain!Set(x, r)
  <2>1. Drain!Set(x, [rows[x] EXCEPT !.acked = TRUE, !.phase = IF turn.then = "acked" THEN "acked" ELSE rows[x].phase])
    BY DEF Drain!Ack, Drain!Then
  <2> QED BY <2>1, <1>5, <1>7, <1>8
<1>11. rows'[x] = r
  BY <1>1, <1>9, <1>10, SetIs
<1>12. p # "none" /\ p # "executing"
  BY <1>1, <1>4, <1>5
<1>13. TurnOK(turn', rows', runner', hist.runs, hist.licence, inbox')
  <2>1. rows'[x].phase # "none" /\ x \in Items
    BY <1>1, <1>9, <1>11, <1>12
  <2>2. turn' = Drain!Turn("tell", x, "end") \/ turn' = Drain!NoTurn
    BY DEF Drain!Ack, Drain!Then
  <2> HIDE DEF x
  <2>3. CASE turn' = Drain!Turn("tell", x, "end")
    <3>1. TurnFields(turn') /\ turn'.pc = "tell" /\ turn'.item = x
      BY <2>3, TurnIs
    <3> QED BY <2>1, <3>1 DEF TurnOK
  <2>4. CASE turn' = Drain!NoTurn
    BY <2>4, NoTurnIs
  <2> QED BY <2>2, <2>3, <2>4
<1> HIDE DEF x
<1>14. rows[x].phase \notin Answers \/ (r.phase \in Answers /\ r.text = rows[x].text)
  BY <1>5, <1>9 DEF Answers
<1>15. rows[x].phase = "reply_received" => r.phase = "reply_received"
  BY <1>1, <1>5, <1>9
<1>16. r.phase = "retry_pending" => rows[x].phase = "retry_pending"
  BY <1>5, <1>9
<1> QED BY <1>1, <1>2, <1>3, <1>9, <1>10, <1>12, <1>13, <1>14, <1>15, <1>16, RowStep

\* Tell keeps the invariant.
LEMMA TellStep == ASSUME DrainInv, Drain!Tell PROVE DrainInv'
<1> DEFINE x == turn.item
<1>1. DrainTypes /\ x \in Items /\ rows[x].phase # "none" /\ turn.pc = "tell"
  BY DEF DrainInv, TurnOK, Drain!Tell
<1>2. UNCHANGED <<corr, opened, runner, inbox, arrived, out, hist>>
  BY DEF Drain!Tell, Drain!OpenFrame, Drain!EngineFrame
<1>3. rows[x] \in Row /\ rows[x].phase # "executing"
  BY <1>1 DEF DrainInv, DrainTypes, ExecutingOK
<1>4. PICK yes \in BOOLEAN : yes = TRUE
  OBVIOUS
<1>5. PICK r : r = [rows[x] EXCEPT !.told = yes]
  OBVIOUS
<1>6. r \in Row /\ r.phase = rows[x].phase /\ r.text = rows[x].text
  BY <1>3, <1>5 DEF Row
<1>7. Drain!Set(x, r)
  <2>1. Drain!Set(x, [rows[x] EXCEPT !.told = TRUE])
    BY DEF Drain!Tell
  <2> QED BY <2>1, <1>4, <1>5
<1>8. turn' = Drain!NoTurn
  BY DEF Drain!Tell
<1>9. TurnOK(turn', rows', runner', hist.runs, hist.licence, inbox') /\ turn'.pc = "idle"
  BY <1>8, NoTurnIs
<1> HIDE DEF x
<1> QED BY <1>1, <1>2, <1>3, <1>6, <1>7, <1>9, RowStep

\* Resolving a row keeps the invariant.
LEMMA ResolvesStep ==
  ASSUME DrainInv, NEW x \in Items, NEW r \in Row, Drain!Resolves(x, r), UNCHANGED hist,
         rows[x].phase \in {"held", "reply_failed", "reply_received"}, r.text = rows[x].text,
         IF rows[x].phase = "reply_received" THEN r.phase = "reply_received" ELSE r.phase \in {"discarded", "resend_pending"}
  PROVE  DrainInv'
<1>1. DrainTypes
  BY DEF DrainInv
<1>2. /\ Drain!Set(x, r) /\ turn' = turn /\ runner' = runner /\ inbox' = inbox
      /\ UNCHANGED <<corr, opened, arrived, out, hist>>
  BY DEF Drain!Resolves, Drain!EngineFrame, Drain!OpenFrame
<1>3. rows'[x] = r /\ \A j \in Items : j # x => rows'[j] = rows[j]
  BY <1>1, <1>2, SetIs
<1>4. rows'[x].phase \in Drain!Terminal \cup {"retry_pending", "resend_pending"}
  BY <1>3 DEF Drain!Terminal
<1>5. TurnOK(turn, rows', runner, hist.runs, hist.licence, inbox)
  BY <1>3, <1>4, TurnGoesOn
<1>6. TurnOK(turn', rows', runner', hist.runs, hist.licence, inbox')
  BY <1>2, <1>5
<1>7. rows[x].phase \notin Answers \/ (r.phase \in Answers /\ r.text = rows[x].text)
  BY DEF Answers
<1> QED BY <1>2, <1>6, <1>7, RowStep

\* Discard keeps the invariant.
LEMMA DiscardStep == ASSUME DrainInv, NEW x \in Items, Drain!Discard(x) PROVE DrainInv'
<1>1. rows[x] \in Row
  BY DEF DrainInv, DrainTypes
<1>2. PICK r : r = [rows[x] EXCEPT !.phase = "discarded"]
  OBVIOUS
<1>3. r \in Row /\ r.phase = "discarded" /\ r.text = rows[x].text
  <2>1. "discarded" \in RowPhases
    BY DEF RowPhases, Drain!Terminal
  <2> QED BY <1>1, <1>2, <2>1, PhaseIs
<1>4. Drain!Resolves(x, r) /\ UNCHANGED hist /\ rows[x].phase \in {"held", "reply_failed"}
  BY <1>2 DEF Drain!Discard
<1> QED BY <1>3, <1>4, ResolvesStep

\* Resend keeps the invariant.
LEMMA ResendStep == ASSUME DrainInv, NEW x \in Items, Drain!Resend(x) PROVE DrainInv'
<1>1. rows[x] \in Row /\ MaxResolved \in Nat
  BY DrainConstants DEF DrainInv, DrainTypes, Drain!PeerDrainAssumption
<1>2. PICK n : n = rows[x].resend + 1
  OBVIOUS
<1>3. PICK r : r = [rows[x] EXCEPT !.phase = "resend_pending", !.resend = n]
  OBVIOUS
<1>4. rows[x].resend < MaxResolved /\ rows[x].phase = "reply_failed" /\ UNCHANGED hist
  BY DEF Drain!Resend
<1>5. n \in Resends
  BY <1>1, <1>2, <1>4 DEF Row, Resends
<1>6. r \in Row /\ r.phase = "resend_pending" /\ r.text = rows[x].text
  <2>1. "resend_pending" \in RowPhases
    BY DEF RowPhases
  <2> QED BY <1>1, <1>3, <1>5, <2>1 DEF Row
<1>7. Drain!Resolves(x, r)
  BY <1>2, <1>3 DEF Drain!Resend
<1> QED BY <1>4, <1>6, <1>7, ResolvesStep

\* ConsumeReply keeps the invariant.
LEMMA ConsumeReplyStep == ASSUME DrainInv, NEW x \in Items, Drain!ConsumeReply(x) PROVE DrainInv'
<1>1. rows[x] \in Row
  BY DEF DrainInv, DrainTypes
<1>2. PICK yes \in BOOLEAN : yes = TRUE
  OBVIOUS
<1>3. PICK r : r = [rows[x] EXCEPT !.consumed = yes]
  OBVIOUS
<1>4. r \in Row /\ r.phase = rows[x].phase /\ r.text = rows[x].text
  BY <1>1, <1>3 DEF Row
<1>5. Drain!Resolves(x, r) /\ UNCHANGED hist /\ rows[x].phase = "reply_received"
  <2>1. Drain!Resolves(x, [rows[x] EXCEPT !.consumed = TRUE])
    BY DEF Drain!ConsumeReply
  <2>2. UNCHANGED hist /\ rows[x].phase = "reply_received"
    BY DEF Drain!ConsumeReply
  <2> QED BY <1>2, <1>3, <2>1, <2>2
<1> QED BY <1>4, <1>5, ResolvesStep

\* One count at item x is one more.
LEMMA CountIs ==
  ASSUME NEW f \in [Items -> Nat], NEW x \in Items
  PROVE  LET g == [f EXCEPT ![x] = f[x] + 1]
         IN  g \in [Items -> Nat] /\ g[x] = f[x] + 1 /\ \A j \in Items : j # x => g[j] = f[j]
OBVIOUS

\* Retry keeps the invariant.
LEMMA RetryStep == ASSUME DrainInv, NEW x \in Items, Drain!Retry(x) PROVE DrainInv'
<1>1. DrainTypes /\ rows[x] \in Row
  BY DEF DrainInv, DrainTypes
<1>2. PICK r : r = [rows[x] EXCEPT !.phase = "retry_pending", !.attempt = rows[x].attempt + 1]
  OBVIOUS
<1>3. r \in Row /\ r.phase = "retry_pending" /\ r.text = rows[x].text
  <2>1. "retry_pending" \in RowPhases
    BY DEF RowPhases
  <2>2. rows[x].attempt + 1 \in Nat
    BY <1>1 DEF Row
  <2>3. PICK n : n = rows[x].attempt + 1
    OBVIOUS
  <2>4. r = [rows[x] EXCEPT !.phase = "retry_pending", !.attempt = n] /\ n \in Nat
    BY <1>2, <2>2, <2>3
  <2> QED BY <1>1, <2>1, <2>4 DEF Row
<1>4. Drain!Resolves(x, r) /\ rows[x].phase = "held" /\ runner[x] = "none"
  BY <1>2 DEF Drain!Retry, Drain!MayRetry
<1>5. /\ Drain!Set(x, r) /\ turn' = turn /\ runner' = runner /\ inbox' = inbox
      /\ UNCHANGED <<corr, opened, arrived, out>>
  BY <1>4 DEF Drain!Resolves, Drain!EngineFrame, Drain!OpenFrame
<1>6. rows' \in [Items -> Row] /\ rows'[x] = r /\ \A j \in Items : j # x => rows'[j] = rows[j]
  BY <1>1, <1>3, <1>5, SetIs
<1>7. PICK g : g = [hist.licence EXCEPT ![x] = hist.licence[x] + 1]
  OBVIOUS
<1>8. g \in [Items -> Nat] /\ g[x] = hist.licence[x] + 1 /\ \A j \in Items : j # x => g[j] = hist.licence[j]
  BY <1>1, <1>7, CountIs DEF DrainTypes
<1>9. /\ hist'.runs = hist.runs /\ hist'.licence = g /\ hist'.gone = hist.gone /\ hist'.torn = hist.torn
      /\ hist' = [runs |-> hist'.runs, licence |-> hist'.licence, gone |-> hist'.gone, torn |-> hist'.torn]
  <2>1. hist' = [hist EXCEPT !.licence = g]
    BY <1>7 DEF Drain!Retry
  <2>2. hist = [runs |-> hist.runs, licence |-> hist.licence, gone |-> hist.gone, torn |-> hist.torn]
    BY <1>1 DEF DrainTypes
  <2>3. hist' = [runs |-> hist.runs, licence |-> g, gone |-> hist.gone, torn |-> hist.torn]
    BY <2>1, <2>2
  <2> QED BY <2>3
<1>10. DrainTypes'
  BY <1>1, <1>5, <1>6, <1>8, <1>9 DEF DrainTypes
<1>11. ItemOK(x, rows, runner, hist.runs, hist.licence, out, hist.gone)
  BY DEF DrainInv
<1>12. Licensed(r, runner[x], hist.runs[x], g[x])
  BY <1>3, <1>8, <1>11 DEF ItemOK, Licensed
<1>13. x \notin hist.gone => Answered(r, out[x])
  BY <1>4, <1>11 DEF ItemOK, Answered, Answers
<1>14. ItemOK(x, rows', runner', hist'.runs, hist'.licence, out', hist.gone)
  BY <1>5, <1>6, <1>9, <1>12, <1>13 DEF ItemOK
<1>15. rows'[x].phase \in Drain!Terminal \cup {"retry_pending", "resend_pending"}
  BY <1>3, <1>6
<1>16. TurnOK(turn, rows', runner, hist.runs, g, inbox)
  BY <1>4, <1>6, <1>8, <1>15, TurnGoesOn
<1>17. TurnOK(turn', rows', runner', hist'.runs, hist'.licence, inbox')
  BY <1>5, <1>9, <1>16
<1> QED BY <1>3, <1>4, <1>5, <1>6, <1>8, <1>9, <1>10, <1>14, <1>17, OneItem

\* The run of x ends, and the step goes on with its row.
LEMMA RunEnds ==
  ASSUME DrainInv, NEW x \in Items, turn.pc = "run", turn.item = x, NEW r \in Row, Drain!Set(x, r),
         r.phase \in {"result", "reply_failed", "held"},
         \/ turn' = Drain!NoTurn
         \/ turn' = Drain!Turn("ack", x, "tell")
         \/ turn' = Drain!Turn("send", x, "end") /\ r.phase = "result",
         runner' = runner \/ runner' = [runner EXCEPT ![x] = "none"],
         UNCHANGED <<corr, opened, inbox, arrived, out, hist>>
  PROVE  DrainInv'
<1>1. DrainTypes /\ rows[x].phase = "executing"
  BY DEF DrainInv, TurnOK
<1>2. rows'[x] = r
  BY <1>1, SetIs
<1>3. TurnOK(turn', rows', runner', hist.runs, hist.licence, inbox')
  <2>1. CASE turn' = Drain!NoTurn
    BY <2>1, NoTurnIs
  <2>2. CASE turn' = Drain!Turn("ack", x, "tell")
    <3>1. TurnFields(turn') /\ turn'.pc = "ack" /\ turn'.item = x /\ turn'.then = "tell"
      BY <2>2, TurnIs
    <3> QED BY <1>2, <3>1 DEF TurnOK
  <2>3. CASE turn' = Drain!Turn("send", x, "end") /\ r.phase = "result"
    <3>1. TurnFields(turn') /\ turn'.pc = "send" /\ turn'.item = x
      BY <2>3, TurnIs
    <3> QED BY <1>2, <2>3, <3>1 DEF TurnOK
  <2> QED BY <2>1, <2>2, <2>3
<1>4. rows[x].phase \notin Answers
  BY <1>1 DEF Answers
<1> QED BY <1>1, <1>3, <1>4, RowStep

\* RunnerReturns keeps the invariant.
LEMMA RunnerReturnsStep == ASSUME DrainInv, NEW x \in Items, Drain!RunnerReturns(x) PROVE DrainInv'
<1>1. rows[x] \in Row /\ hist.runs[x] \in Nat
  BY DEF DrainInv, DrainTypes
<1>2. {"result", "reply_failed", "held"} \subseteq RowPhases
  BY DEF RowPhases, Drain!Terminal
<1>3. /\ turn.pc = "run" /\ turn.item = x /\ runner' = [runner EXCEPT ![x] = "none"]
      /\ UNCHANGED <<corr, opened, inbox, arrived, out, hist>>
  BY DEF Drain!RunnerReturns, Drain!EngineFrame, Drain!OpenFrame
<1>4. CASE Drain!Set(x, [rows[x] EXCEPT !.phase = "result", !.text = hist.runs[x]]) /\ turn' = Drain!Turn("send", x, "end")
  <2>1. PICK r : r = [rows[x] EXCEPT !.phase = "result", !.text = hist.runs[x]]
    OBVIOUS
  <2>2. r \in Row /\ r.phase = "result"
    BY <1>1, <1>2, <2>1 DEF Row
  <2> QED BY <1>3, <1>4, <2>1, <2>2, RunEnds
<1>5. CASE /\ Drain!Set(x, [rows[x] EXCEPT !.phase = "reply_failed", !.large = TRUE, !.text = hist.runs[x]])
           /\ turn' = Drain!Turn("ack", x, "tell")
  <2>1. PICK yes \in BOOLEAN : yes = TRUE
    OBVIOUS
  <2>2. PICK r : r = [rows[x] EXCEPT !.phase = "reply_failed", !.large = yes, !.text = hist.runs[x]]
    OBVIOUS
  <2>3. r \in Row /\ r.phase = "reply_failed"
    BY <1>1, <1>2, <2>2 DEF Row
  <2>4. Drain!Set(x, r)
    BY <1>5, <2>1, <2>2
  <2> QED BY <1>3, <1>5, <2>3, <2>4, RunEnds
<1>6. CASE Drain!Holds(x) /\ turn' = Drain!Turn("ack", x, "tell")
  <2>1. PICK r : r = [rows[x] EXCEPT !.phase = "held"]
    OBVIOUS
  <2>2. r \in Row /\ r.phase = "held"
    BY <1>1, <1>2, <2>1, PhaseIs
  <2>3. Drain!Set(x, r)
    BY <1>6, <2>1 DEF Drain!Holds
  <2> QED BY <1>3, <1>6, <2>2, <2>3, RunEnds
<1> QED BY <1>4, <1>5, <1>6 DEF Drain!RunnerReturns

\* RunnerInterrupted keeps the invariant.
LEMMA RunnerInterruptedStep == ASSUME DrainInv, NEW x \in Items, Drain!RunnerInterrupted(x) PROVE DrainInv'
<1>1. rows[x] \in Row /\ "held" \in RowPhases
  BY DEF DrainInv, DrainTypes, RowPhases, Drain!Terminal
<1>2. PICK r : r = [rows[x] EXCEPT !.phase = "held"]
  OBVIOUS
<1>3. r \in Row /\ r.phase = "held"
  BY <1>1, <1>2, PhaseIs
<1>4. /\ turn.pc = "run" /\ turn.item = x /\ runner' = runner /\ Drain!Set(x, r)
      /\ turn' = Drain!NoTurn \/ turn' = Drain!Turn("ack", x, "tell")
      /\ UNCHANGED <<corr, opened, inbox, arrived, out, hist>>
  BY <1>2 DEF Drain!RunnerInterrupted, Drain!Holds, Drain!EngineFrame, Drain!OpenFrame
<1> QED BY <1>3, <1>4, RunEnds

\* NeverStarts keeps the invariant.
LEMMA NeverStartsStep == ASSUME DrainInv, NEW x \in Items, Drain!NeverStarts(x) PROVE DrainInv'
<1>1. DrainTypes /\ rows[x] \in Row /\ rows[x].phase = "executing"
  BY DEF DrainInv, DrainTypes, TurnOK, Drain!NeverStarts
<1>2. /\ turn.pc = "run" /\ turn.item = x /\ runner[x] = "queued" /\ runner' = [runner EXCEPT ![x] = "none"]
      /\ turn' = Drain!NoTurn /\ UNCHANGED <<corr, opened, inbox, arrived, out, hist>>
  BY DEF Drain!NeverStarts, Drain!EngineFrame, Drain!OpenFrame
<1>3. CASE turn.fresh
  <2>1. Drain!Set(x, Drain!NoRow)
    BY <1>3 DEF Drain!NeverStarts, Drain!NotStarted
  <2>2. PICK r : r = Drain!NoRow
    OBVIOUS
  <2>3. r \in Row /\ r.phase = "none"
    BY <2>2, NoRowIs
  <2>4. rows' \in [Items -> Row] /\ rows'[x] = r /\ \A j \in Items : j # x => rows'[j] = rows[j]
    BY <1>1, <2>1, <2>2, <2>3, SetIs
  <2>5. /\ runner' \in [Items -> {"none", "queued", "running"}] /\ runner'[x] = "none"
        /\ \A j \in Items : j # x => runner'[j] = runner[j]
    BY <1>1, <1>2 DEF DrainTypes
  <2>6. DrainTypes'
    BY <1>1, <1>2, <2>4, <2>5 DEF DrainTypes
  <2>7. Has(inbox, x) /\ hist.runs[x] = 0 /\ hist.licence[x] = 1
    BY <1>2, <1>3 DEF DrainInv, TurnOK
  <2>8. Licensed(r, runner'[x], hist.runs[x], hist.licence[x])
    BY <2>3, <2>5, <2>7 DEF Licensed
  <2>9. ItemOK(x, rows, runner, hist.runs, hist.licence, out, hist.gone)
    BY DEF DrainInv
  <2>10. x \notin hist.gone => Answered(r, out[x])
    BY <1>1, <2>9 DEF ItemOK, Answered, Answers
  <2>11. ItemOK(x, rows', runner', hist'.runs, hist'.licence, out', hist.gone)
    BY <1>2, <2>4, <2>8, <2>10 DEF ItemOK
  <2>12. TurnOK(turn', rows', runner', hist'.runs, hist'.licence, inbox') /\ turn'.pc = "idle"
    BY <1>2, NoTurnIs
  <2> QED BY <1>1, <1>2, <2>3, <2>4, <2>5, <2>6, <2>7, <2>11, <2>12, OneItem
<1>4. CASE ~turn.fresh
  <2>1. PICK r : r = [rows[x] EXCEPT !.phase = "held"]
    OBVIOUS
  <2>2. "held" \in RowPhases
    BY DEF RowPhases, Drain!Terminal
  <2>3. r \in Row /\ r.phase = "held"
    BY <1>1, <2>1, <2>2, PhaseIs
  <2>4. Drain!Set(x, r)
    BY <1>4, <2>1 DEF Drain!NeverStarts, Drain!NotStarted
  <2> QED BY <1>2, <2>3, <2>4, RunEnds
<1> QED BY <1>3, <1>4

\* Starts keeps the invariant.
LEMMA StartsStep == ASSUME DrainInv, NEW x \in Items, Drain!Starts(x) PROVE DrainInv'
<1>1. DrainTypes /\ rows[x].phase = "executing"
  BY DEF DrainInv, TurnOK, Drain!Starts
<1>2. /\ turn.pc = "run" /\ turn.item = x /\ runner[x] = "queued" /\ runner' = [runner EXCEPT ![x] = "running"]
      /\ UNCHANGED <<rows, corr, opened, turn, inbox, arrived, out>>
  BY DEF Drain!Starts, Drain!EngineFrame, Drain!OpenFrame
<1>3. PICK g : g = [hist.runs EXCEPT ![x] = hist.runs[x] + 1]
  OBVIOUS
<1>4. g \in [Items -> Nat] /\ g[x] = hist.runs[x] + 1 /\ \A j \in Items : j # x => g[j] = hist.runs[j]
  BY <1>1, <1>3, CountIs DEF DrainTypes
<1>5. /\ hist'.runs = g /\ hist'.licence = hist.licence /\ hist'.gone = hist.gone /\ hist'.torn = hist.torn
      /\ hist' = [runs |-> hist'.runs, licence |-> hist'.licence, gone |-> hist'.gone, torn |-> hist'.torn]
  <2>1. hist' = [hist EXCEPT !.runs = g]
    BY <1>3 DEF Drain!Starts
  <2>2. hist = [runs |-> hist.runs, licence |-> hist.licence, gone |-> hist.gone, torn |-> hist.torn]
    BY <1>1 DEF DrainTypes
  <2>3. hist' = [runs |-> g, licence |-> hist.licence, gone |-> hist.gone, torn |-> hist.torn]
    BY <2>1, <2>2
  <2> QED BY <2>3
<1>6. /\ runner' \in [Items -> {"none", "queued", "running"}] /\ runner'[x] = "running"
      /\ \A j \in Items : j # x => runner'[j] = runner[j]
  BY <1>1, <1>2 DEF DrainTypes
<1>7. DrainTypes'
  BY <1>1, <1>2, <1>4, <1>5, <1>6 DEF DrainTypes
<1>8. ItemOK(x, rows, runner, hist.runs, hist.licence, out, hist.gone)
  BY DEF DrainInv
<1>9. Licensed(rows[x], runner'[x], g[x], hist.licence[x])
  BY <1>1, <1>2, <1>4, <1>6, <1>8 DEF ItemOK, Licensed
<1>10. ItemOK(x, rows', runner', hist'.runs, hist'.licence, out', hist.gone)
  BY <1>2, <1>5, <1>8, <1>9 DEF ItemOK
<1>11. TurnOK(turn', rows', runner', hist'.runs, hist'.licence, inbox')
  BY <1>2, <1>6 DEF DrainInv, TurnOK
<1>12. /\ rows' = rows /\ turn' = turn /\ inbox' = inbox /\ out' = out
       /\ corr' = corr /\ opened' = opened /\ arrived' = arrived
  BY <1>2
<1>13. /\ \A j \in Items : j # x => hist'.runs[j] = hist.runs[j] /\ hist'.licence[j] = hist.licence[j]
       /\ hist'.gone = hist.gone /\ hist'.torn = hist.torn
  BY <1>4, <1>5
<1>14. turn'.pc = "run" /\ turn'.item = x /\ turn.pc = "run"
  BY <1>2
<1> QED BY <1>1, <1>6, <1>7, <1>10, <1>11, <1>12, <1>13, <1>14, OneItem

\* LateEnds keeps the invariant.
LEMMA LateEndsStep == ASSUME DrainInv, NEW x \in Items, Drain!LateEnds(x) PROVE DrainInv'
<1>1. DrainTypes
  BY DEF DrainInv
<1>2. /\ ~(turn.pc = "run" /\ turn.item = x) /\ runner' = [runner EXCEPT ![x] = "none"]
      /\ UNCHANGED <<rows, corr, opened, turn, inbox, arrived, out, hist>>
  BY DEF Drain!LateEnds, Drain!EngineFrame, Drain!OpenFrame
<1>3. /\ runner' \in [Items -> {"none", "queued", "running"}] /\ runner'[x] = "none"
      /\ \A j \in Items : j # x => runner'[j] = runner[j]
  BY <1>1, <1>2 DEF DrainTypes
<1>4. DrainTypes'
  BY <1>1, <1>2, <1>3 DEF DrainTypes
<1>5. ItemOK(x, rows, runner, hist.runs, hist.licence, out, hist.gone)
  BY DEF DrainInv
<1>6. ItemOK(x, rows', runner', hist'.runs, hist'.licence, out', hist.gone)
  BY <1>2, <1>3, <1>5 DEF ItemOK, Licensed
<1>7. TurnOK(turn', rows', runner', hist'.runs, hist'.licence, inbox')
  BY <1>2, <1>3 DEF DrainInv, TurnOK
<1>8. rows'[x].phase = "executing" => ~opened
  BY <1>2 DEF DrainInv, ExecutingOK
<1>9. /\ rows' = rows /\ turn' = turn /\ out' = out /\ inbox' = inbox /\ hist' = hist
      /\ corr' = corr /\ opened' = opened /\ arrived' = arrived
  BY <1>2
<1> QED BY <1>3, <1>4, <1>6, <1>7, <1>8, <1>9, OneItem

\* ReplyDies keeps the invariant.
LEMMA ReplyDiesStep == ASSUME DrainInv, NEW x \in Items, NEW n \in Resends, Drain!ReplyDies(x, n) PROVE DrainInv'
<1>1. DrainTypes /\ out[x] \in [Resends -> Sent] /\ out[x][n] \in Sent
  BY DEF DrainInv, DrainTypes
<1>2. /\ rows' = rows /\ turn' = turn /\ runner' = runner /\ inbox' = inbox /\ hist' = hist
      /\ corr' = corr /\ opened' = opened /\ arrived' = arrived /\ out[x][n] # Drain!NotSent
  BY DEF Drain!ReplyDies, Drain!OpenFrame
<1>3. PICK yes \in BOOLEAN : yes = TRUE
  OBVIOUS
<1>4. PICK v : v = [out[x][n] EXCEPT !.dead = yes]
  OBVIOUS
<1>5. v \in Sent /\ v.text = out[x][n].text
  BY <1>1, <1>4 DEF Sent
<1>6. PICK o : o = [out[x] EXCEPT ![n] = v]
  OBVIOUS
<1>7. o \in [Resends -> Sent] /\ o[n] = v /\ \A k \in Resends : k # n => o[k] = out[x][k]
  BY <1>1, <1>5, <1>6
<1>8. out' = [out EXCEPT ![x] = o]
  BY <1>3, <1>4, <1>6 DEF Drain!ReplyDies
<1>9. out' \in [Items -> [Resends -> Sent]] /\ out'[x] = o /\ \A j \in Items : j # x => out'[j] = out[j]
  BY <1>1, <1>7, <1>8 DEF DrainTypes
<1>10. DrainTypes'
  BY <1>1, <1>2, <1>9 DEF DrainTypes
<1>11. ItemOK(x, rows, runner, hist.runs, hist.licence, out, hist.gone)
  BY DEF DrainInv
<1>12. x \notin hist.gone => Answered(rows[x], o)
  BY <1>2, <1>5, <1>7, <1>11 DEF ItemOK, Answered
<1>13. ItemOK(x, rows', runner', hist'.runs, hist'.licence, out', hist.gone)
  BY <1>2, <1>9, <1>11, <1>12 DEF ItemOK
<1>14. TurnOK(turn', rows', runner', hist'.runs, hist'.licence, inbox')
  BY <1>2 DEF DrainInv
<1>15. rows'[x].phase = "executing" => (turn'.pc = "run" /\ turn'.item = x) \/ ~opened
  BY <1>2 DEF DrainInv, ExecutingOK
<1> QED BY <1>2, <1>9, <1>10, <1>13, <1>14, <1>15, OneItem

\* Send keeps the invariant.
LEMMA SendStep == ASSUME DrainInv, Drain!Send PROVE DrainInv'
<1> DEFINE x == turn.item
           n == rows[x].resend
<1>1. DrainTypes /\ x \in Items /\ rows[x].phase \in {"result", "admitted"} /\ turn.pc = "send"
  BY DEF DrainInv, TurnOK, Drain!Send
<1>2. UNCHANGED <<corr, opened, runner, inbox, arrived, hist>>
  BY DEF Drain!Send, Drain!OpenFrame
<1>3. ASSUME turn' = Drain!Turn("status", x, "end"), rows' = rows
      PROVE  TurnOK(turn', rows', runner', hist'.runs, hist'.licence, inbox')
  <2> HIDE DEF x
  <2>1. TurnFields(turn') /\ turn'.pc = "status" /\ turn'.item = x
    BY <1>3, TurnIs
  <2> QED BY <1>1, <1>3, <2>1 DEF TurnOK
<1>4. CASE out' = [out EXCEPT ![x][n].text = rows[x].text] /\ turn' = Drain!Turn("status", x, "end") /\ rows' = rows
  <2>1. rows[x] \in Row /\ out[x] \in [Resends -> Sent]
    BY <1>1 DEF DrainTypes
  <2>2. n \in Resends /\ rows[x].text \in Nat
    BY <2>1 DEF Row
  <2>3. PICK v : v = [out[x][n] EXCEPT !.text = rows[x].text]
    OBVIOUS
  <2>4. out[x][n] \in Sent
    BY <2>1, <2>2
  <2>5. v \in Sent /\ v.text = rows[x].text
    BY <2>2, <2>3, <2>4 DEF Sent
  <2>6. PICK o : o = [out[x] EXCEPT ![n] = v]
    OBVIOUS
  <2>7. out' = [out EXCEPT ![x] = o]
    BY <1>4, <2>3, <2>6
  <2> HIDE DEF n
  <2>8. o \in [Resends -> Sent] /\ o[n] = v /\ \A k \in Resends : k # n => o[k] = out[x][k]
    BY <2>1, <2>2, <2>5, <2>6
  <2> HIDE DEF x
  <2>9. out' \in [Items -> [Resends -> Sent]] /\ out'[x] = o /\ \A j \in Items : j # x => out'[j] = out[j]
    BY <1>1, <2>7, <2>8 DEF DrainTypes
  <2>10. DrainTypes'
    BY <1>1, <1>2, <1>4, <2>9 DEF DrainTypes
  <2>11. ItemOK(x, rows, runner, hist.runs, hist.licence, out, hist.gone)
    BY <1>1 DEF DrainInv
  <2>12. x \notin hist.gone => Answered(rows[x], o)
    BY <1>1, <2>5, <2>8, <2>11 DEF ItemOK, Answered, Answers
  <2>13. ItemOK(x, rows', runner', hist'.runs, hist'.licence, out', hist.gone)
    BY <1>2, <1>4, <2>9, <2>11, <2>12 DEF ItemOK
  <2>14. TurnOK(turn', rows', runner', hist'.runs, hist'.licence, inbox')
    BY <1>3, <1>4 DEF x
  <2>15. /\ rows' = rows /\ runner' = runner /\ inbox' = inbox /\ hist' = hist
         /\ corr' = corr /\ opened' = opened /\ arrived' = arrived
    BY <1>2, <1>4
  <2> QED BY <1>1, <2>9, <2>10, <2>13, <2>14, <2>15, OneItem
<1>5. CASE Drain!ReplyFails(x) /\ UNCHANGED out
  BY <1>1, <1>2, <1>5, ReplyFailsStep
<1>6. CASE turn' = Drain!Turn("status", x, "end") /\ UNCHANGED <<out, rows>>
  <2>1. TurnOK(turn', rows', runner', hist'.runs, hist'.licence, inbox')
    BY <1>3, <1>6
  <2>2. /\ rows' = rows /\ runner' = runner /\ inbox' = inbox /\ hist' = hist /\ out' = out
        /\ corr' = corr /\ opened' = opened /\ arrived' = arrived
    BY <1>2, <1>6
  <2>3. DrainTypes'
    BY <1>1, <2>2 DEF DrainTypes
  <2>4. ItemOK(x, rows', runner', hist'.runs, hist'.licence, out', hist.gone)
    BY <1>1, <2>2 DEF DrainInv
  <2> HIDE DEF x
  <2> QED BY <1>1, <2>1, <2>2, <2>3, <2>4, OneItem
<1>7. CASE turn' = Drain!NoTurn /\ UNCHANGED <<out, rows>>
  BY <1>1, <1>2, <1>7, TurnEnds
<1> QED BY <1>4, <1>5, <1>6, <1>7 DEF Drain!Send

\* Arrive keeps the invariant.
LEMMA ArriveStep == ASSUME DrainInv, NEW x \in Items, Drain!Arrive(x) PROVE DrainInv'
<1>1. DrainTypes /\ inbox \in Seq(Items)
  BY DEF DrainInv, DrainTypes
<1>2. /\ rows' = rows /\ turn' = turn /\ runner' = runner /\ hist' = hist /\ out' = out
      /\ corr' = corr /\ opened' = opened /\ arrived' = arrived \cup {x} /\ inbox' = Append(inbox, x)
  BY DEF Drain!Arrive, Drain!OpenFrame
<1>3. inbox' \in Seq(Items) /\ Has(inbox', x) /\ \A j : Has(inbox, j) => Has(inbox', j)
  BY <1>1, <1>2 DEF Has
<1>4. DrainTypes'
  BY <1>1, <1>2, <1>3 DEF DrainTypes
<1>5. TurnOK(turn', rows', runner', hist'.runs, hist'.licence, inbox')
  BY <1>2, <1>3 DEF DrainInv, TurnOK
<1>6. ArrivedOK(arrived', rows', inbox', hist'.gone)
  BY <1>2, <1>3 DEF DrainInv, ArrivedOK
<1> QED BY <1>2, <1>4, <1>5, <1>6 DEF DrainInv

\* SendRequest and CloseOutbound keep the invariant.
LEMMA CorrelatesStep ==
  ASSUME DrainInv, NEW x \in Asks, Drain!SendRequest(x) \/ Drain!CloseOutbound(x)
  PROVE  DrainInv'
<1>1. /\ rows' = rows /\ turn' = turn /\ runner' = runner /\ hist' = hist /\ out' = out
      /\ opened' = opened /\ arrived' = arrived /\ inbox' = inbox
  BY DEF Drain!SendRequest, Drain!CloseOutbound, Drain!Correlates, Drain!EngineFrame, Drain!OpenFrame
<1>2. DrainTypes /\ corr = [y \in Asks |-> corr[y]]
  BY DEF DrainInv, DrainTypes
<1>3. PICK v \in {"open", "closed"} : corr' = [corr EXCEPT ![x] = v]
  BY DEF Drain!SendRequest, Drain!CloseOutbound, Drain!Correlates
<1>4. corr' = [y \in Asks |-> corr'[y]] /\ \A y \in Asks : corr'[y] = "replied" => corr[y] = "replied"
  BY <1>2, <1>3
<1>5. DrainTypes'
  BY <1>1, <1>2, <1>4 DEF DrainTypes
<1> QED BY <1>1, <1>4, <1>5 DEF DrainInv

\* Crash keeps the invariant.
LEMMA CrashStep == ASSUME DrainInv, Drain!Crash PROVE DrainInv'
<1>1. DrainTypes
  BY DEF DrainInv
<1>2. /\ rows' = rows /\ out' = out /\ corr' = corr /\ inbox' = inbox /\ arrived' = arrived
      /\ turn' = Drain!NoTurn /\ runner' = [i \in Items |-> "none"]
  BY DEF Drain!Crash, Drain!EngineFrame
<1>3. opened' \in BOOLEAN /\ ~opened'
  BY DEF Drain!Crash
<1>4. PICK T : T = IF turn.pc = "file" THEN hist.torn \cup {InReplyTo[turn.item]} ELSE hist.torn
  OBVIOUS
<1>5. /\ hist'.runs = hist.runs /\ hist'.licence = hist.licence /\ hist'.gone = hist.gone /\ hist'.torn = T
      /\ hist' = [runs |-> hist'.runs, licence |-> hist'.licence, gone |-> hist'.gone, torn |-> hist'.torn]
  <2>1. hist' = [hist EXCEPT !.torn = T]
    BY <1>4 DEF Drain!Crash
  <2>2. hist = [runs |-> hist.runs, licence |-> hist.licence, gone |-> hist.gone, torn |-> hist.torn]
    BY <1>1 DEF DrainTypes
  <2>3. hist' = [runs |-> hist.runs, licence |-> hist.licence, gone |-> hist.gone, torn |-> T]
    BY <2>1, <2>2
  <2> QED BY <2>3
<1>6. runner' \in [Items -> {"none", "queued", "running"}] /\ \A i \in Items : runner'[i] = "none"
  BY <1>2
<1>7. DrainTypes'
  <2>1. rows' \in [Items -> Row] /\ out' \in [Items -> [Resends -> Sent]] /\ inbox' \in Seq(Items)
    BY <1>1, <1>2 DEF DrainTypes
  <2>2. corr' = [x \in Asks |-> corr'[x]]
    BY <1>1, <1>2 DEF DrainTypes
  <2>3. hist'.runs \in [Items -> Nat] /\ hist'.licence \in [Items -> Nat]
    BY <1>1, <1>5 DEF DrainTypes
  <2> QED BY <1>3, <1>5, <1>6, <2>1, <2>2, <2>3 DEF DrainTypes
<1>8. \A i \in Items : ItemOK(i, rows', runner', hist'.runs, hist'.licence, out', hist'.gone)
  BY <1>2, <1>5, <1>6 DEF DrainInv, ItemOK, Licensed
<1>9. TurnOK(turn', rows', runner', hist'.runs, hist'.licence, inbox') /\ turn'.pc = "idle"
  BY <1>2, NoTurnIs
<1>10. ExecutingOK(rows', turn', opened')
  BY <1>3, <1>9 DEF ExecutingOK
<1>11. \A x \in Asks : x \notin hist'.torn /\ corr'[x] = "replied" => RepliedOK(x, rows', turn', hist'.gone)
  BY <1>2, <1>4, <1>5 DEF DrainInv, RepliedOK
<1>12. ArrivedOK(arrived', rows', inbox', hist'.gone)
  BY <1>2, <1>5 DEF DrainInv
<1> QED BY <1>7, <1>8, <1>9, <1>10, <1>11, <1>12 DEF DrainInv

\* Open keeps the invariant.
LEMMA OpenStep == ASSUME DrainInv, NEW b \in BOOLEAN, Drain!Open(b) PROVE DrainInv'
<1>1. DrainTypes /\ turn.pc = "idle"
  BY DEF DrainInv, Drain!Open, ExecutingOK
<1>2. /\ turn' = turn /\ runner' = runner /\ hist' = hist /\ out' = out /\ corr' = corr /\ inbox' = inbox /\ arrived' = arrived
      /\ rows' = [i \in Items |-> Drain!Recovered(rows[i])]
  BY DEF Drain!Open, Drain!EngineFrame
<1>3. opened' \in BOOLEAN
  BY DEF Drain!Open
<1>4. ASSUME NEW i \in Items
      PROVE  /\ rows'[i] \in Row /\ rows'[i].phase # "executing" /\ rows'[i].text = rows[i].text
             /\ rows[i].phase # "executing" => rows'[i] = rows[i]
             /\ rows[i].phase = "executing" => rows'[i].phase = "held"
  <2>1. rows[i] \in Row /\ rows'[i] = Drain!Recovered(rows[i])
    BY <1>1, <1>2 DEF DrainTypes
  <2>2. CASE rows[i].phase = "executing"
    <3>1. "held" \in RowPhases
      BY DEF RowPhases, Drain!Terminal
    <3>2. PICK r : r = [rows[i] EXCEPT !.phase = "held"]
      OBVIOUS
    <3>3. r \in Row /\ r.phase = "held" /\ r.text = rows[i].text
      BY <2>1, <3>1, <3>2, PhaseIs
    <3>4. rows'[i] = r
      BY <2>1, <2>2, <3>2 DEF Drain!Recovered
    <3> QED BY <2>2, <3>3, <3>4
  <2>3. CASE rows[i].phase # "executing"
    BY <2>1, <2>3 DEF Drain!Recovered
  <2> QED BY <2>2, <2>3
<1>5. rows' \in [Items -> Row]
  <2>1. rows' = [i \in Items |-> rows'[i]]
    BY <1>2
  <2> QED BY <1>4, <2>1
<1>6. DrainTypes'
  <2>1. /\ hist' = [runs |-> hist'.runs, licence |-> hist'.licence, gone |-> hist'.gone, torn |-> hist'.torn]
        /\ corr' = [x \in Asks |-> corr'[x]]
    BY <1>1, <1>2 DEF DrainTypes
  <2>2. /\ runner' \in [Items -> {"none", "queued", "running"}] /\ out' \in [Items -> [Resends -> Sent]]
        /\ inbox' \in Seq(Items) /\ hist'.runs \in [Items -> Nat] /\ hist'.licence \in [Items -> Nat]
    BY <1>1, <1>2 DEF DrainTypes
  <2> QED BY <1>3, <1>5, <2>1, <2>2 DEF DrainTypes
<1>7. ASSUME NEW i \in Items PROVE ItemOK(i, rows', runner', hist'.runs, hist'.licence, out', hist'.gone)
  <2>1. ItemOK(i, rows, runner, hist.runs, hist.licence, out, hist.gone)
    BY DEF DrainInv
  <2>2. CASE rows[i].phase = "executing"
    <3>1. rows'[i].phase = "held"
      BY <1>4, <2>2
    <3>2. Licensed(rows'[i], runner[i], hist.runs[i], hist.licence[i])
      BY <2>1, <3>1 DEF ItemOK, Licensed
    <3>3. i \notin hist.gone => Answered(rows'[i], out[i])
      BY <2>1, <2>2 DEF ItemOK, Answered, Answers
    <3> QED BY <1>2, <3>2, <3>3 DEF ItemOK
  <2>3. CASE rows[i].phase # "executing"
    BY <1>2, <1>4, <2>1, <2>3 DEF ItemOK
  <2> QED BY <2>2, <2>3
<1>8. TurnOK(turn', rows', runner', hist'.runs, hist'.licence, inbox')
  BY <1>1, <1>2 DEF DrainInv, TurnOK
<1>9. ExecutingOK(rows', turn', opened')
  BY <1>1, <1>2, <1>4 DEF ExecutingOK
<1>10. \A x \in Asks : x \notin hist'.torn /\ corr'[x] = "replied" => RepliedOK(x, rows', turn', hist'.gone)
  BY <1>2, <1>4 DEF DrainInv, RepliedOK
<1>11. ArrivedOK(arrived', rows', inbox', hist'.gone)
  BY <1>2, <1>4 DEF DrainInv, ArrivedOK
<1> QED BY <1>6, <1>7, <1>8, <1>9, <1>10, <1>11 DEF DrainInv

\* The step begins to acknowledge an item on record.
LEMMA AcksRecord ==
  ASSUME DrainInv, NEW x \in Items, turn.pc = "poll", rows[x].phase # "none", turn' = Drain!Turn("ack", x, "end"),
         UNCHANGED <<rows, corr, opened, runner, inbox, arrived, out, hist>>
  PROVE  DrainInv'
<1>1. /\ rows' = rows /\ runner' = runner /\ inbox' = inbox /\ hist' = hist /\ out' = out
      /\ corr' = corr /\ opened' = opened /\ arrived' = arrived
  OBVIOUS
<1>2. DrainTypes'
  BY <1>1 DEF DrainInv, DrainTypes
<1>3. TurnFields(turn') /\ turn'.pc = "ack" /\ turn'.item = x /\ turn'.then = "end"
  BY TurnIs
<1>4. TurnOK(turn', rows', runner', hist'.runs, hist'.licence, inbox')
  BY <1>1, <1>3 DEF TurnOK
<1>5. ItemOK(x, rows', runner', hist'.runs, hist'.licence, out', hist.gone)
  BY <1>1 DEF DrainInv
<1>6. rows'[x].phase = "executing" => ~opened
  BY <1>1 DEF DrainInv, ExecutingOK
<1> QED BY <1>1, <1>2, <1>4, <1>5, <1>6, OneItem

\* The step rejects an item.
LEMMA RejectsStep ==
  ASSUME DrainInv, NEW x \in Items, turn.pc = "poll", rows[x].phase = "none", Drain!Rejects(x),
         UNCHANGED <<corr, opened, runner, inbox, arrived, out, hist>>
  PROVE  DrainInv'
<1>1. PICK r : r = Drain!NewRow("rejected")
  OBVIOUS
<1>2. r \in Row /\ r.phase = "rejected"
  <2>1. "rejected" \in RowPhases
    BY DEF RowPhases, Drain!Terminal
  <2> QED BY <1>1, <2>1, NewRowIs
<1>3. Drain!Set(x, r) /\ turn' = Drain!Turn("ack", x, "end") /\ DrainTypes
  BY <1>1 DEF Drain!Rejects, DrainInv
<1>4. rows'[x] = r
  BY <1>2, <1>3, SetIs
<1>5. TurnFields(turn') /\ turn'.pc = "ack" /\ turn'.item = x /\ turn'.then = "end"
  BY <1>3, TurnIs
<1>6. TurnOK(turn', rows', runner', hist.runs, hist.licence, inbox')
  BY <1>2, <1>4, <1>5 DEF TurnOK
<1>7. rows[x].phase \notin Answers
  BY DEF Answers
<1> QED BY <1>2, <1>3, <1>5, <1>6, <1>7, RowStep

\* The step that begins to run a new request.
LEMMA FreshTurnIs ==
  ASSUME NEW x, NEW t, t = [Drain!Turn("run", x, "end") EXCEPT !.fresh = TRUE]
  PROVE  TurnFields(t) /\ t.pc = "run" /\ t.item = x
<1>1. PICK s : s = Drain!Turn("run", x, "end")
  OBVIOUS
<1>2. TurnFields(s) /\ s.pc = "run" /\ s.item = x
  BY <1>1, TurnIs
<1>3. PICK yes : yes = TRUE
  OBVIOUS
<1>4. t = [s EXCEPT !.fresh = yes]
  BY <1>1, <1>3
<1>5. PICK w : w = [pc |-> "run", item |-> x, fresh |-> yes, then |-> s.then]
  OBVIOUS
<1>6. w = t
  BY <1>2, <1>4, <1>5 DEF TurnFields
<1>7. TurnFields(w) /\ w.pc = "run" /\ w.item = x
  BY <1>5 DEF TurnFields
<1> QED BY <1>6, <1>7

\* The step begins to run a request.
LEMMA RunsRequest ==
  ASSUME DrainInv, NEW x \in Items, turn.pc = "poll", rows[x].phase = "none", Has(inbox, x),
         Drain!Set(x, Drain!NewRow("executing")), runner' = [runner EXCEPT ![x] = "queued"],
         turn' = [Drain!Turn("run", x, "end") EXCEPT !.fresh = TRUE],
         UNCHANGED <<corr, opened, inbox, arrived, out, hist>>
  PROVE  DrainInv'
<1>1. PICK r : r = Drain!NewRow("executing")
  OBVIOUS
<1>2. r \in Row /\ r.phase = "executing"
  <2>1. "executing" \in RowPhases
    BY DEF RowPhases
  <2> QED BY <1>1, <2>1, NewRowIs
<1>3. DrainTypes
  BY DEF DrainInv
<1>4. rows' \in [Items -> Row] /\ rows'[x] = r /\ \A j \in Items : j # x => rows'[j] = rows[j]
  BY <1>1, <1>2, <1>3, SetIs
<1>5. TurnFields(turn') /\ turn'.pc = "run" /\ turn'.item = x
  BY FreshTurnIs
<1>6. /\ runner' \in [Items -> {"none", "queued", "running"}] /\ runner'[x] = "queued"
      /\ \A j \in Items : j # x => runner'[j] = runner[j]
  BY <1>3 DEF DrainTypes
<1>7. /\ corr' = corr /\ opened' = opened /\ inbox' = inbox /\ arrived' = arrived /\ out' = out /\ hist' = hist
  OBVIOUS
<1>8. DrainTypes'
  BY <1>3, <1>4, <1>6, <1>7 DEF DrainTypes
<1>9. ItemOK(x, rows, runner, hist.runs, hist.licence, out, hist.gone)
  BY DEF DrainInv
<1>10. hist.runs[x] = 0 /\ hist.licence[x] = 1
  BY <1>9 DEF ItemOK, Licensed
<1>11. Licensed(r, runner'[x], hist.runs[x], hist.licence[x])
  BY <1>2, <1>6, <1>10 DEF Licensed
<1>12. x \notin hist.gone => Answered(r, out[x])
  BY <1>9 DEF ItemOK, Answered, Answers
<1>13. ItemOK(x, rows', runner', hist'.runs, hist'.licence, out', hist.gone)
  BY <1>4, <1>7, <1>11, <1>12 DEF ItemOK
<1>14. TurnOK(turn', rows', runner', hist'.runs, hist'.licence, inbox')
  BY <1>2, <1>4, <1>5, <1>7, <1>10 DEF TurnOK
<1> QED BY <1>2, <1>4, <1>5, <1>6, <1>7, <1>8, <1>13, <1>14, OneItem

\* The step closes the correlation of a reply, which it files next.
LEMMA ClosesCorrelation ==
  ASSUME DrainInv, NEW x \in Items, turn.pc = "poll", rows[x].phase = "none",
         corr' = [corr EXCEPT ![InReplyTo[x]] = IF KindOf[x] = "reply" THEN "replied" ELSE corr[InReplyTo[x]]],
         turn' = Drain!Turn("file", x, "end"),
         UNCHANGED <<rows, opened, runner, inbox, arrived, out, hist>>
  PROVE  DrainInv'
<1>1. /\ rows' = rows /\ runner' = runner /\ inbox' = inbox /\ hist' = hist /\ out' = out
      /\ opened' = opened /\ arrived' = arrived
  OBVIOUS
<1>2. TurnFields(turn') /\ turn'.pc = "file" /\ turn'.item = x
  BY TurnIs
<1>3. TurnOK(turn', rows', runner', hist'.runs, hist'.licence, inbox')
  BY <1>1, <1>2 DEF TurnOK
<1>4. DrainTypes /\ corr = [y \in Asks |-> corr[y]]
  BY DEF DrainInv, DrainTypes
<1>5. /\ corr' = [y \in Asks |-> corr'[y]]
      /\ \A y \in Asks : corr'[y] = "replied" => corr[y] = "replied" \/ (y = InReplyTo[x] /\ KindOf[x] = "reply")
  BY <1>4
<1>6. DrainTypes'
  BY <1>1, <1>4, <1>5 DEF DrainTypes
<1>7. \A i \in Items : ItemOK(i, rows', runner', hist'.runs, hist'.licence, out', hist'.gone)
  BY <1>1 DEF DrainInv
<1>8. ExecutingOK(rows', turn', opened')
  BY <1>1, <1>2 DEF DrainInv, ExecutingOK
<1>9. \A y \in Asks : y \notin hist'.torn /\ corr'[y] = "replied" => RepliedOK(y, rows', turn', hist'.gone)
  BY <1>1, <1>2, <1>5 DEF DrainInv, RepliedOK
<1>10. ArrivedOK(arrived', rows', inbox', hist'.gone)
  BY <1>1 DEF DrainInv
<1> QED BY <1>3, <1>6, <1>7, <1>8, <1>9, <1>10 DEF DrainInv

\* Polls keeps the invariant.
LEMMA PollsStep == ASSUME DrainInv, Drain!Polls PROVE DrainInv'
<1>1. turn.pc = "poll" /\ UNCHANGED <<opened, inbox, arrived, out, hist>> /\ inbox \in Seq(Items)
  BY DEF Drain!Polls, Drain!EngineFrame, Drain!OpenFrame, DrainInv, DrainTypes
<1>2. CASE inbox = <<>>
  <2>1. turn' = Drain!NoTurn /\ UNCHANGED <<rows, corr, runner>>
    BY <1>2 DEF Drain!Polls
  <2> QED BY <1>1, <2>1, TurnEnds
<1>3. CASE inbox # <<>>
  <2>1. PICK x : x = Head(inbox)
    OBVIOUS
  <2>2. Drain!Takes(x)
    BY <1>3, <2>1 DEF Drain!Polls
  <2>3. x \in Items /\ Has(inbox, x)
    BY <1>1, <1>3, <2>1 DEF Has
  <2>4. CASE rows[x].phase \in Drain!Terminal /\ turn' = Drain!Turn("ack", x, "end") /\ UNCHANGED <<rows, corr, runner>>
    <3>1. rows[x].phase # "none"
      BY <2>4 DEF Drain!Terminal
    <3> QED BY <1>1, <2>3, <2>4, <3>1, AcksRecord
  <2>5. CASE turn' = Drain!NoTurn /\ UNCHANGED <<rows, corr, runner>>
    BY <1>1, <2>5, TurnEnds
  <2>6. CASE rows[x].phase \notin Drain!Terminal \cup {"retry_pending", "resend_pending"}
    <3>1. rows[x].phase = "none"
      BY <1>1, <2>3, <2>6 DEF DrainInv, TurnOK
    <3>2. CASE Drain!Rejects(x) /\ UNCHANGED <<corr, runner>>
      BY <1>1, <2>3, <3>1, <3>2, RejectsStep
    <3>3. CASE /\ Drain!Set(x, Drain!NewRow("executing")) /\ runner' = [runner EXCEPT ![x] = "queued"]
               /\ turn' = [Drain!Turn("run", x, "end") EXCEPT !.fresh = TRUE] /\ UNCHANGED corr
      BY <1>1, <2>3, <3>1, <3>3, RunsRequest
    <3>4. CASE /\ corr' = [corr EXCEPT ![InReplyTo[x]] = IF KindOf[x] = "reply" THEN "replied" ELSE corr[InReplyTo[x]]]
               /\ turn' = Drain!Turn("file", x, "end") /\ UNCHANGED <<rows, runner>>
      BY <1>1, <2>3, <3>1, <3>4, ClosesCorrelation
    <3>5. \/ Drain!Rejects(x) /\ UNCHANGED <<corr, runner>>
          \/ /\ Drain!Set(x, Drain!NewRow("executing")) /\ runner' = [runner EXCEPT ![x] = "queued"]
             /\ turn' = [Drain!Turn("run", x, "end") EXCEPT !.fresh = TRUE] /\ UNCHANGED corr
          \/ /\ corr' = [corr EXCEPT ![InReplyTo[x]] = IF KindOf[x] = "reply" THEN "replied" ELSE corr[InReplyTo[x]]]
             /\ turn' = Drain!Turn("file", x, "end") /\ UNCHANGED <<rows, runner>>
      BY <2>2, <2>6, Zenon DEF Drain!Takes
    <3> QED BY <3>2, <3>3, <3>4, <3>5
  <2> QED BY <2>2, <2>4, <2>5, <2>6 DEF Drain!Takes
<1> QED BY <1>2, <1>3

\* The rows R that retention left, with the history it left.
Left(R) ==
  /\ R \in [Items -> Row] /\ \A i \in Items : R[i].phase # "executing"
  /\ \A i \in Items : ItemOK(i, R, runner, hist'.runs, hist'.licence, out, hist'.gone)
  /\ \A x \in Asks : x \notin hist'.torn /\ corr'[x] = "replied" =>
       \E i \in Items : KindOf[i] = "reply" /\ InReplyTo[i] = x /\ (R[i].phase = "reply_received" \/ i \in hist'.gone)
  /\ ArrivedOK(arrived, R, inbox, hist'.gone)

\* What a step begins, at item x, with the rows that retention left.
LEMMA Chosen ==
  ASSUME DrainInv, opened, DrainTypes', NEW R, Left(R), NEW x \in Items,
         \A j \in Items : j # x => rows'[j] = R[j] /\ runner'[j] = runner[j],
         ItemOK(x, rows', runner', hist'.runs, hist'.licence, out, hist'.gone), rows'[x].phase # "none",
         R[x].phase = "reply_received" => rows'[x].phase = "reply_received",
         rows'[x].phase = "executing" => turn'.pc = "run" /\ turn'.item = x,
         out' = out, inbox' = inbox, arrived' = arrived, opened' = opened,
         TurnOK(turn', rows', runner', hist'.runs, hist'.licence, inbox')
  PROVE  DrainInv'
<1>1. \A i \in Items : ItemOK(i, rows', runner', hist'.runs, hist'.licence, out', hist'.gone)
  BY DEF Left, ItemOK
<1>2. ExecutingOK(rows', turn', opened')
  BY DEF Left, ExecutingOK
<1>3. \A y \in Asks : y \notin hist'.torn /\ corr'[y] = "replied" => RepliedOK(y, rows', turn', hist'.gone)
  BY DEF Left, RepliedOK
<1>4. ArrivedOK(arrived', rows', inbox', hist'.gone)
  BY DEF Left, ArrivedOK
<1> QED BY <1>1, <1>2, <1>3, <1>4 DEF DrainInv

\* The history, field by field.
LEMMA HistIs ==
  ASSUME NEW h, NEW N, NEW L, NEW G, NEW Z, h = [runs |-> N, licence |-> L, gone |-> G, torn |-> Z]
  PROVE  /\ h.runs = N /\ h.licence = L /\ h.gone = G /\ h.torn = Z
         /\ h = [runs |-> h.runs, licence |-> h.licence, gone |-> h.gone, torn |-> h.torn]
OBVIOUS

\* The history h after some of it is forgotten.
LEMMA HistForgets ==
  ASSUME NEW h, NEW k, NEW N, NEW L, NEW G,
         h = [runs |-> h.runs, licence |-> h.licence, gone |-> h.gone, torn |-> h.torn],
         k = [h EXCEPT !.gone = G, !.runs = N, !.licence = L]
  PROVE  /\ k.runs = N /\ k.licence = L /\ k.gone = G /\ k.torn = h.torn
         /\ k = [runs |-> k.runs, licence |-> k.licence, gone |-> k.gone, torn |-> k.torn]
<1>1. k = [runs |-> N, licence |-> L, gone |-> G, torn |-> h.torn]
  OBVIOUS
<1> QED BY <1>1

\* What retention removes was answered or needs no answer.
LEMMA Retention ==
  ASSUME DrainInv, opened, turn = Drain!NoTurn, NEW S \in SUBSET Drain!Expirable, NEW T \in SUBSET Drain!Ended,
         hist' = [hist EXCEPT !.gone = hist.gone \cup S,
                              !.runs = [i \in Items |-> IF i \in S THEN 0 ELSE hist.runs[i]],
                              !.licence = [i \in Items |-> IF i \in S THEN 1 ELSE hist.licence[i]]],
         corr' = [x \in Asks |-> IF x \in T THEN "none" ELSE corr[x]],
         NEW R, R = [i \in Items |-> IF i \in S THEN Drain!NoRow ELSE rows[i]]
  PROVE  /\ Left(R)
         /\ hist' = [runs |-> hist'.runs, licence |-> hist'.licence, gone |-> hist'.gone, torn |-> hist'.torn]
         /\ hist'.runs \in [Items -> Nat] /\ hist'.licence \in [Items -> Nat]
<1>1. DrainTypes /\ turn.pc = "idle"
  BY NoTurnIs DEF DrainInv
<1>2. PICK N : N = [i \in Items |-> IF i \in S THEN 0 ELSE hist.runs[i]]
  OBVIOUS
<1>3. PICK L : L = [i \in Items |-> IF i \in S THEN 1 ELSE hist.licence[i]]
  OBVIOUS
<1>4. N \in [Items -> Nat] /\ L \in [Items -> Nat]
  BY <1>1, <1>2, <1>3 DEF DrainTypes
<1>5. /\ hist'.runs = N /\ hist'.licence = L /\ hist'.gone = hist.gone \cup S /\ hist'.torn = hist.torn
      /\ hist' = [runs |-> hist'.runs, licence |-> hist'.licence, gone |-> hist'.gone, torn |-> hist'.torn]
  <2>1. hist = [runs |-> hist.runs, licence |-> hist.licence, gone |-> hist.gone, torn |-> hist.torn]
    BY <1>1 DEF DrainTypes
  <2>2. hist' = [hist EXCEPT !.gone = hist.gone \cup S, !.runs = N, !.licence = L]
    BY <1>2, <1>3
  <2> QED BY <2>1, <2>2, HistForgets
<1>6. R \in [Items -> Row]
  BY <1>1, NoRowIs DEF DrainTypes
<1>7. \A i \in Items : IF i \in S THEN R[i] = Drain!NoRow ELSE R[i] = rows[i]
  OBVIOUS
<1>8. \A i \in Items : R[i].phase # "executing"
  BY <1>1, <1>7, NoRowIs DEF DrainInv, ExecutingOK
<1>9. ASSUME NEW i \in Items PROVE ItemOK(i, R, runner, N, L, out, hist.gone \cup S)
  <2>1. ItemOK(i, rows, runner, hist.runs, hist.licence, out, hist.gone)
    BY DEF DrainInv
  <2>2. CASE i \in S
    <3>1. N[i] = 0 /\ L[i] = 1
      BY <1>2, <1>3, <2>2
    <3>2. R[i].phase = "none"
      BY <1>7, <2>2, NoRowIs
    <3>3. Licensed(R[i], runner[i], N[i], L[i])
      BY <3>1, <3>2 DEF Licensed
    <3> QED BY <2>2, <3>3 DEF ItemOK
  <2>3. CASE i \notin S
    <3>1. N[i] = hist.runs[i] /\ L[i] = hist.licence[i] /\ R[i] = rows[i]
      BY <1>2, <1>3, <1>7, <2>3
    <3> QED BY <2>1, <3>1 DEF ItemOK
  <2> QED BY <2>2, <2>3
<1>10. ASSUME NEW x \in Asks, x \notin hist.torn, corr'[x] = "replied"
       PROVE  \E i \in Items : KindOf[i] = "reply" /\ InReplyTo[i] = x /\ (R[i].phase = "reply_received" \/ i \in hist.gone \cup S)
  <2>1. corr[x] = "replied"
    BY <1>10
  <2>2. RepliedOK(x, rows, turn, hist.gone)
    BY <1>10, <2>1 DEF DrainInv
  <2> QED BY <1>1, <1>7, <2>2 DEF RepliedOK
<1>11. ArrivedOK(arrived, R, inbox, hist.gone \cup S)
  BY <1>7 DEF DrainInv, ArrivedOK
<1>12. Left(R)
  <2>1. hist'.runs = N /\ hist'.licence = L /\ hist'.gone = hist.gone \cup S /\ hist'.torn = hist.torn
    BY <1>5
  <2>2. \A i \in Items : ItemOK(i, R, runner, hist'.runs, hist'.licence, out, hist'.gone)
    BY <1>9, <2>1
  <2>3. \A x \in Asks : x \notin hist'.torn /\ corr'[x] = "replied" =>
          \E i \in Items : KindOf[i] = "reply" /\ InReplyTo[i] = x /\ (R[i].phase = "reply_received" \/ i \in hist'.gone)
    BY <1>10, <2>1
  <2>4. ArrivedOK(arrived, R, inbox, hist'.gone)
    BY <1>11, <2>1
  <2> QED BY <1>6, <1>8, <2>2, <2>3, <2>4 DEF Left
<1> QED BY <1>4, <1>5, <1>12

\* A step that changes one of the rows left, to r.
LEMMA LeftWith ==
  ASSUME DrainInv, NEW R, Left(R), NEW x \in Items, NEW r \in Row, rows' = [R EXCEPT ![x] = r]
  PROVE  rows' \in [Items -> Row] /\ rows'[x] = r /\ \A j \in Items : j # x => rows'[j] = R[j]
BY DEF Left

\* Whatever a step chooses to do with the rows left keeps the invariant.
LEMMA ChoosesStep ==
  ASSUME DrainInv, opened, NEW R, Left(R), Drain!Chooses(R),
         hist' = [runs |-> hist'.runs, licence |-> hist'.licence, gone |-> hist'.gone, torn |-> hist'.torn],
         hist'.runs \in [Items -> Nat], hist'.licence \in [Items -> Nat], corr' = [x \in Asks |-> corr'[x]],
         UNCHANGED <<opened, inbox, arrived, out>>
  PROVE  DrainInv'
<1>1. out' = out /\ inbox' = inbox /\ arrived' = arrived /\ opened' = opened
  OBVIOUS
<1>2. DrainTypes
  BY DEF DrainInv
<1>3. ASSUME rows' \in [Items -> Row], runner' \in [Items -> {"none", "queued", "running"}] PROVE DrainTypes'
  BY <1>1, <1>2, <1>3 DEF DrainTypes
<1>4. ASSUME NEW x \in Items, R[x].phase = "resend_pending", runner' = runner,
             Drain!Begins([R EXCEPT ![x].phase = "result"], Drain!Turn("send", x, "end"))
      PROVE  DrainInv'
  <2>1. R[x] \in Row /\ "result" \in RowPhases
    BY DEF Left, RowPhases
  <2>2. PICK r : r = [R[x] EXCEPT !.phase = "result"]
    OBVIOUS
  <2>3. r \in Row /\ r.phase = "result" /\ r.text = R[x].text
    BY <2>1, <2>2, PhaseIs
  <2>4. rows' = [R EXCEPT ![x] = r] /\ turn' = Drain!Turn("send", x, "end")
    BY <1>4, <2>2 DEF Drain!Begins
  <2>5. rows' \in [Items -> Row] /\ rows'[x] = r /\ \A j \in Items : j # x => rows'[j] = R[j]
    BY <2>3, <2>4, LeftWith
  <2>6. TurnFields(turn') /\ turn'.pc = "send" /\ turn'.item = x
    BY <2>4, TurnIs
  <2>7. TurnOK(turn', rows', runner', hist'.runs, hist'.licence, inbox')
    BY <2>3, <2>5, <2>6 DEF TurnOK
  <2>8. ItemOK(x, R, runner, hist'.runs, hist'.licence, out, hist'.gone)
    BY DEF Left
  <2>9. ItemOK(x, rows', runner', hist'.runs, hist'.licence, out, hist'.gone)
    BY <1>4, <2>3, <2>5, <2>8 DEF ItemOK, Licensed, Answered, Answers
  <2>10. DrainTypes'
    BY <1>2, <1>3, <1>4, <2>5 DEF DrainTypes
  <2> QED BY <1>1, <1>4, <2>3, <2>5, <2>7, <2>9, <2>10, Chosen
<1>5. ASSUME NEW x \in Items, R[x].phase = "retry_pending", runner' = [runner EXCEPT ![x] = "queued"],
             Drain!Begins([R EXCEPT ![x].phase = "executing", ![x].told = FALSE], Drain!Turn("run", x, "end"))
      PROVE  DrainInv'
  <2>1. R[x] \in Row /\ "executing" \in RowPhases
    BY DEF Left, RowPhases
  <2>2. PICK no \in BOOLEAN : no = FALSE
    OBVIOUS
  <2>3. PICK r : r = [R[x] EXCEPT !.phase = "executing", !.told = no]
    OBVIOUS
  <2>4. r \in Row /\ r.phase = "executing"
    BY <2>1, <2>3 DEF Row
  <2>5. rows' = [R EXCEPT ![x] = r] /\ turn' = Drain!Turn("run", x, "end")
    BY <1>5, <2>2, <2>3 DEF Drain!Begins, Left
  <2>6. rows' \in [Items -> Row] /\ rows'[x] = r /\ \A j \in Items : j # x => rows'[j] = R[j]
    BY <2>4, <2>5, LeftWith
  <2>7. TurnFields(turn') /\ turn'.pc = "run" /\ turn'.item = x
    BY <2>5, TurnIs
  <2>8. ~turn'.fresh
    BY <2>5, NotFresh
  <2>9. TurnOK(turn', rows', runner', hist'.runs, hist'.licence, inbox')
    BY <2>4, <2>6, <2>7, <2>8 DEF TurnOK
  <2>10. /\ runner' \in [Items -> {"none", "queued", "running"}] /\ runner'[x] = "queued"
         /\ \A j \in Items : j # x => runner'[j] = runner[j]
    BY <1>2, <1>5 DEF DrainTypes
  <2>11. ItemOK(x, R, runner, hist'.runs, hist'.licence, out, hist'.gone)
    BY DEF Left
  <2>12. Licensed(r, runner'[x], hist'.runs[x], hist'.licence[x])
    BY <1>5, <2>4, <2>10, <2>11 DEF ItemOK, Licensed
  <2>13. x \notin hist'.gone => Answered(r, out[x])
    BY <1>5, <2>11 DEF ItemOK, Answered, Answers
  <2>14. ItemOK(x, rows', runner', hist'.runs, hist'.licence, out, hist'.gone)
    BY <2>6, <2>12, <2>13 DEF ItemOK
  <2>15. DrainTypes'
    BY <1>3, <2>6, <2>10
  <2>16. R[x].phase # "reply_received"
    BY <1>5
  <2> QED BY <1>1, <2>4, <2>6, <2>7, <2>9, <2>10, <2>14, <2>15, <2>16, Chosen
<1>6. ASSUME NEW x \in Items, R[x].phase # "none", runner' = runner, rows' = R,
             \/ turn' = Drain!Turn("send", x, "end") /\ R[x].phase \in {"result", "admitted"}
             \/ turn' = Drain!Turn("tell", x, "end")
      PROVE  DrainInv'
  <2>1. rows' \in [Items -> Row] /\ R[x].phase # "executing"
    BY <1>6 DEF Left
  <2>2. TurnOK(turn', rows', runner', hist'.runs, hist'.licence, inbox')
    <3>1. CASE turn' = Drain!Turn("send", x, "end") /\ R[x].phase \in {"result", "admitted"}
      <4>1. TurnFields(turn') /\ turn'.pc = "send" /\ turn'.item = x
        BY <3>1, TurnIs
      <4> QED BY <1>6, <3>1, <4>1 DEF TurnOK
    <3>2. CASE turn' = Drain!Turn("tell", x, "end")
      <4>1. TurnFields(turn') /\ turn'.pc = "tell" /\ turn'.item = x
        BY <3>2, TurnIs
      <4> QED BY <1>6, <4>1 DEF TurnOK
    <3> QED BY <1>6, <3>1, <3>2
  <2>3. ItemOK(x, rows', runner', hist'.runs, hist'.licence, out, hist'.gone)
    BY <1>6 DEF Left
  <2>4. DrainTypes'
    BY <1>2, <1>3, <1>6, <2>1 DEF DrainTypes
  <2>5. \A j \in Items : rows'[j] = R[j] /\ runner'[j] = runner[j]
    BY <1>6
  <2> QED BY <1>1, <1>6, <2>1, <2>2, <2>3, <2>4, <2>5, Chosen
<1>7. ASSUME Drain!In(R, {"resend_pending", "retry_pending", "result", "admitted"}) = {}, runner' = runner, rows' = R,
             turn' = Drain!Turn("poll", "none", "end")
      PROVE  DrainInv'
  <2>1. \A i \in Items : R[i].phase \in Drain!Terminal \cup {"none", "retry_pending", "resend_pending"}
    <3> SUFFICES ASSUME NEW i \in Items PROVE R[i].phase \in Drain!Terminal \cup {"none"}
      OBVIOUS
    <3>1. R[i].phase \in RowPhases /\ R[i].phase # "executing"
      BY DEF Left, Row
    <3>2. R[i].phase \notin {"resend_pending", "retry_pending", "result", "admitted"}
      BY <1>7 DEF Drain!In
    <3> QED BY <3>1, <3>2 DEF RowPhases
  <2>2. TurnFields(turn') /\ turn'.pc = "poll"
    BY <1>7, TurnIs
  <2>3. TurnOK(turn', rows', runner', hist'.runs, hist'.licence, inbox')
    BY <1>7, <2>1, <2>2 DEF TurnOK
  <2>4. rows' \in [Items -> Row]
    BY <1>7 DEF Left
  <2>5. DrainTypes'
    BY <1>2, <1>3, <1>7, <2>4 DEF DrainTypes
  <2>6. \A i \in Items : ItemOK(i, rows', runner', hist'.runs, hist'.licence, out', hist'.gone)
    BY <1>1, <1>7 DEF Left
  <2>7. ExecutingOK(rows', turn', opened')
    BY <1>1, <1>7 DEF Left, ExecutingOK
  <2>8. \A y \in Asks : y \notin hist'.torn /\ corr'[y] = "replied" => RepliedOK(y, rows', turn', hist'.gone)
    BY <1>7 DEF Left, RepliedOK
  <2>9. ArrivedOK(arrived', rows', inbox', hist'.gone)
    BY <1>1, <1>7 DEF Left
  <2> QED BY <2>3, <2>5, <2>6, <2>7, <2>8, <2>9 DEF DrainInv
<1>8. CASE \E i \in Drain!In(R, {"resend_pending"}) :
             Drain!Begins([R EXCEPT ![i].phase = "result"], Drain!Turn("send", i, "end")) /\ UNCHANGED runner
  <2>1. PICK x \in Items : R[x].phase = "resend_pending" /\ runner' = runner
                           /\ Drain!Begins([R EXCEPT ![x].phase = "result"], Drain!Turn("send", x, "end"))
    BY <1>8 DEF Drain!In
  <2> QED BY <1>4, <2>1
<1>9. CASE \E i \in Drain!In(R, {"retry_pending"}) :
             /\ Drain!Begins([R EXCEPT ![i].phase = "executing", ![i].told = FALSE], Drain!Turn("run", i, "end"))
             /\ runner' = [runner EXCEPT ![i] = "queued"]
  <2>1. PICK x \in Items : R[x].phase = "retry_pending" /\ runner' = [runner EXCEPT ![x] = "queued"]
              /\ Drain!Begins([R EXCEPT ![x].phase = "executing", ![x].told = FALSE], Drain!Turn("run", x, "end"))
    BY <1>9, Zenon DEF Drain!In
  <2> QED BY <1>5, <2>1
<1>10. CASE (\E i \in Drain!In(R, {"result", "admitted"}) : Drain!Begins(R, Drain!Turn("send", i, "end"))) /\ UNCHANGED runner
  <2>1. PICK x \in Items : R[x].phase \in {"result", "admitted"} /\ rows' = R /\ turn' = Drain!Turn("send", x, "end")
    BY <1>10 DEF Drain!In, Drain!Begins
  <2> QED BY <1>6, <1>10, <2>1
<1>11. CASE (\E i \in Drain!Owed(R) : Drain!Begins(R, Drain!Turn("tell", i, "end"))) /\ UNCHANGED runner
  <2>1. PICK x \in Items : R[x].phase # "none" /\ rows' = R /\ turn' = Drain!Turn("tell", x, "end")
    BY <1>11 DEF Drain!Owed, Drain!Begins
  <2> QED BY <1>6, <1>11, <2>1
<1>12. CASE /\ Drain!In(R, {"resend_pending", "retry_pending", "result", "admitted"}) = {}
            /\ Drain!Begins(R, Drain!Turn("poll", "none", "end")) /\ UNCHANGED runner
  BY <1>7, <1>12 DEF Drain!Begins
<1> QED BY <1>8, <1>9, <1>10, <1>11, <1>12 DEF Drain!Chooses

\* Step keeps the invariant.
LEMMA StepStep == ASSUME DrainInv, Drain!Step PROVE DrainInv'
<1>1. opened /\ turn = Drain!NoTurn /\ UNCHANGED <<opened, inbox, arrived, out>>
  BY DEF Drain!Step, Drain!EngineFrame, Drain!OpenFrame
<1>2. PICK S \in SUBSET Drain!Expirable, T \in SUBSET Drain!Ended :
        /\ Drain!Chooses([i \in Items |-> IF i \in S THEN Drain!NoRow ELSE rows[i]])
        /\ hist' = [hist EXCEPT !.gone = hist.gone \cup S,
                                !.runs = [i \in Items |-> IF i \in S THEN 0 ELSE hist.runs[i]],
                                !.licence = [i \in Items |-> IF i \in S THEN 1 ELSE hist.licence[i]]]
        /\ corr' = [x \in Asks |-> IF x \in T THEN "none" ELSE corr[x]]
  BY Zenon DEF Drain!Step
<1>3. PICK R : R = [i \in Items |-> IF i \in S THEN Drain!NoRow ELSE rows[i]]
  OBVIOUS
<1>4. /\ Left(R)
      /\ hist' = [runs |-> hist'.runs, licence |-> hist'.licence, gone |-> hist'.gone, torn |-> hist'.torn]
      /\ hist'.runs \in [Items -> Nat] /\ hist'.licence \in [Items -> Nat]
  BY <1>1, <1>2, <1>3, Retention
<1>5. corr' = [x \in Asks |-> corr'[x]]
  BY <1>2
<1>6. Drain!Chooses(R)
  BY <1>2, <1>3
<1> QED BY <1>1, <1>4, <1>5, <1>6, ChoosesStep

-----------------------------------------------------------------------------
\* The drain begins well.
LEMMA DrainInitially == Drain!DrainInit => DrainInv
<1> SUFFICES ASSUME Drain!DrainInit PROVE DrainInv
  OBVIOUS
<1>1. rows = [i \in Items |-> Drain!NoRow] /\ runner = [i \in Items |-> "none"] /\ turn = Drain!NoTurn
      /\ inbox = <<>> /\ arrived = {} /\ corr = [x \in Asks |-> "none"]
  BY DEF Drain!DrainInit
<1>2. opened \in BOOLEAN /\ out = [i \in Items |-> [n \in Resends |-> Drain!NotSent]]
  BY DEF Drain!DrainInit, Resends
<1>3. Drain!NotSent \in Sent
  <2>1. PICK no \in BOOLEAN : no = FALSE
    OBVIOUS
  <2>2. Drain!NotSent = [text |-> 0, dead |-> no]
    BY <2>1, Zenon DEF Drain!NotSent
  <2> QED BY <2>2 DEF Sent
<1>4. PICK N : N = [i \in Items |-> 0]
  OBVIOUS
<1>5. PICK L : L = [i \in Items |-> 1]
  OBVIOUS
<1>6. hist = [runs |-> N, licence |-> L, gone |-> {}, torn |-> {}]
  BY <1>4, <1>5 DEF Drain!DrainInit
<1>7. /\ hist.runs = N /\ hist.licence = L
      /\ hist = [runs |-> hist.runs, licence |-> hist.licence, gone |-> hist.gone, torn |-> hist.torn]
  BY <1>6, HistIs
<1>8. /\ N \in [Items -> Nat] /\ L \in [Items -> Nat]
      /\ \A i \in Items : N[i] = 0 /\ L[i] = 1
  BY <1>4, <1>5
<1>9. rows \in [Items -> Row] /\ \A i \in Items : rows[i].phase = "none"
  BY <1>1, NoRowIs
<1>10. out \in [Items -> [Resends -> Sent]] /\ \A i \in Items : \A k \in Resends : out[i][k] = Drain!NotSent
  BY <1>2, <1>3
<1>11. DrainTypes
  BY <1>1, <1>2, <1>7, <1>8, <1>9, <1>10 DEF DrainTypes
<1>12. \A i \in Items : ItemOK(i, rows, runner, hist.runs, hist.licence, out, hist.gone)
  BY <1>1, <1>7, <1>8, <1>9, <1>10 DEF ItemOK, Licensed, Answered
<1>13. TurnOK(turn, rows, runner, hist.runs, hist.licence, inbox) /\ turn.pc = "idle"
  BY <1>1, NoTurnIs
<1>14. ExecutingOK(rows, turn, opened)
  BY <1>9, <1>13 DEF ExecutingOK
<1>15. \A x \in Asks : corr[x] # "replied"
  BY <1>1
<1>16. ArrivedOK(arrived, rows, inbox, hist.gone)
  BY <1>1 DEF ArrivedOK
<1> QED BY <1>11, <1>12, <1>13, <1>14, <1>15, <1>16 DEF DrainInv

\* Every step of the drain keeps the invariant.
LEMMA DrainStep == DrainInv /\ [Drain!DrainNext]_drainVars => DrainInv'
<1> SUFFICES ASSUME DrainInv, [Drain!DrainNext]_drainVars PROVE DrainInv'
  OBVIOUS
<1>1. CASE UNCHANGED drainVars
  <2>1. /\ rows' = rows /\ turn' = turn /\ runner' = runner /\ inbox' = inbox /\ hist' = hist /\ out' = out
        /\ corr' = corr /\ opened' = opened /\ arrived' = arrived
    BY <1>1 DEF drainVars
  <2>2. DrainTypes'
    BY <2>1 DEF DrainInv, DrainTypes
  <2> QED BY <2>1, <2>2 DEF DrainInv
<1>2. CASE \/ Drain!Step \/ Drain!Polls \/ Drain!FileReply \/ Drain!NoRoute \/ Drain!Send \/ Drain!Status
           \/ Drain!Ack \/ Drain!AckLost \/ Drain!Tell \/ Drain!StepFails
  BY <1>2, StepStep, PollsStep, FileReplyStep, NoRouteStep, SendStep, StatusStep, AckStep, StepFailsStep, TellStep
<1>3. CASE \E i \in Items :
             \/ Drain!Starts(i) \/ Drain!NeverStarts(i) \/ Drain!RunnerReturns(i) \/ Drain!RunnerInterrupted(i)
             \/ Drain!LateEnds(i) \/ Drain!Retry(i) \/ Drain!Discard(i) \/ Drain!Resend(i) \/ Drain!ConsumeReply(i)
             \/ Drain!Arrive(i)
  BY <1>3, StartsStep, NeverStartsStep, RunnerReturnsStep, RunnerInterruptedStep, LateEndsStep, RetryStep, DiscardStep,
     ResendStep, ConsumeReplyStep, ArriveStep
<1>4. CASE \E i \in Items : \E n \in Resends : Drain!ReplyDies(i, n)
  BY <1>4, ReplyDiesStep
<1>5. CASE \E x \in Asks : Drain!SendRequest(x) \/ Drain!CloseOutbound(x)
  BY <1>5, CorrelatesStep
<1>6. CASE Drain!Crash \/ \E b \in BOOLEAN : Drain!Open(b)
  BY <1>6, CrashStep, OpenStep
<1> QED BY <1>1, <1>2, <1>3, <1>4, <1>5, <1>6 DEF Drain!DrainNext, Resends

\* What the invariant says of requests, replies and correlations.
LEMMA DrainAnswered == DrainInv => Drain!RunsAreLicensed /\ Drain!OneAnswer /\ Drain!NothingLost
<1> SUFFICES ASSUME DrainInv PROVE Drain!RunsAreLicensed /\ Drain!OneAnswer /\ Drain!NothingLost
  OBVIOUS
<1>1. Drain!RunsAreLicensed
  BY DEF DrainInv, ItemOK, Licensed, Drain!RunsAreLicensed
<1>2. Drain!OneAnswer
  <2> SUFFICES ASSUME NEW i \in Items, i \notin hist.gone, NEW n \in Resends, NEW k \in Resends,
                      out[i][n] # Drain!NotSent, out[i][k] # Drain!NotSent
               PROVE  out[i][n].text = out[i][k].text
    BY DEF Drain!OneAnswer, Resends
  <2>1. Answered(rows[i], out[i])
    BY DEF DrainInv, ItemOK
  <2> QED BY <2>1 DEF Answered
<1>3. Drain!NothingLost
  <2>1. ASSUME NEW i \in arrived PROVE i \in Drain!Rows \cup Drain!Range(inbox) \cup hist.gone
    <3>1. i \in Items /\ (rows[i].phase # "none" \/ Has(inbox, i) \/ i \in hist.gone)
      BY <2>1 DEF DrainInv, ArrivedOK
    <3>2. Has(inbox, i) => i \in Drain!Range(inbox)
      <4>1. inbox \in Seq(Items)
        BY DEF DrainInv, DrainTypes
      <4>2. DOMAIN inbox = 1..Len(inbox)
        BY <4>1
      <4> QED BY <4>2 DEF Has, Drain!Range
    <3> QED BY <3>1, <3>2 DEF Drain!Rows
  <2>2. ASSUME NEW x \in Asks, x \notin hist.torn, corr[x] = "replied"
        PROVE  \/ turn.pc = "file"
               \/ \E i \in Items : KindOf[i] = "reply" /\ InReplyTo[i] = x
                                  /\ (rows[i].phase = "reply_received" \/ i \in hist.gone)
    BY <2>2 DEF DrainInv, RepliedOK
  <2> QED BY <2>1, <2>2 DEF Drain!NothingLost
<1> QED BY <1>1, <1>2, <1>3

(* The drain alone, with all that operators and retention may do: a peer's *)
(* request is run once and once more per retry, gets one answer however    *)
(* often that is resent, and no item is lost on the way from the engine's  *)
(* inbox to the record, whichever step the process dies at.                *)
THEOREM DrainIsSafe == Drain!DrainSpec => [](Drain!RunsAreLicensed /\ Drain!OneAnswer /\ Drain!NothingLost)
<1>1. Drain!DrainInit => DrainInv
  BY DrainInitially
<1>2. DrainInv /\ [Drain!DrainNext]_Drain!drainVars => DrainInv'
  BY DrainStep DEF drainVars, Drain!drainVars
<1> QED BY <1>1, <1>2, DrainAnswered, PTL DEF Drain!DrainSpec

(* The same of the drain beside the custodians: DrainAnswers, the          *)
(* invariant of run custody.                                               *)
THEOREM PeersAreAnswered == CustodySpec => []DrainAnswers
<1>1. CustodyInit => DrainInv
  BY DrainInitially DEF CustodyInit
<1>2. DrainInv /\ [CustodyNext]_<<part, vars, serviceVars, clientVars, drainVars>> => DrainInv'
  <2>1. [CustodyNext]_<<part, vars, serviceVars, clientVars, drainVars>> => [Drain!DrainNext]_drainVars
    BY DEF CustodyNext
  <2> QED BY <2>1, DrainStep
<1>3. DrainInv => DrainAnswers
  BY DrainAnswered DEF DrainAnswers
<1> QED BY <1>1, <1>2, <1>3, PTL DEF CustodySpec

=============================================================================
