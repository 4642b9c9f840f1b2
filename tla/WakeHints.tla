------------------------------ MODULE WakeHints ------------------------------
(***************************************************************************)
(* Wake hints to the paired desktop conversation: the notifier             *)
(* (local-messaging-notifier.mjs), its durable wake binding                *)
(* (local_wake_bindings in local-messaging-journal.mjs) and the queue      *)
(* command it calls (codex-wake-adapter.mjs).                              *)
(*                                                                         *)
(* Obligations are the items the fingerprint of a snapshot lists: unread   *)
(* replies, held requests and queued inbox items.  The evaluation awaits   *)
(* between its steps, so acknowledgements, new items, a stop or a crash    *)
(* fall between any two of them.                                           *)
(***************************************************************************)
EXTENDS Integers, FiniteSets, TLAPS

CONSTANTS
  Items,        \* obligation items
  Wakes,        \* wake ids (random, never reused)
  Threads,      \* conversations the owner may pair
  MaxGen,       \* bound on rebinds explored
  MinInterval,  \* ticks between two submissions
  None          \* no id, no fingerprint

ASSUME WakeAssumption ==
  /\ MaxGen \in Nat \ {0} /\ MinInterval \in Nat
  /\ Threads # {}
  /\ None \notin Wakes \cup Threads

VARIABLES
  items,     \* obligations in the journal now
  state,     \* delivery_state of the binding, "unbound" before the first start
  gen,       \* generation
  thread,    \* thread_id
  wake,      \* active_wake_id
  print,     \* active_fingerprint
  ackPrint,  \* last_acknowledged_fingerprint
  since,     \* age of last_submitted_at
  config,    \* the thread the owner's configuration names
  svc,       \* "down", "opened", "up", "stopping"
  pc,        \* where evaluateObligations is
  seen,      \* the obligations and the binding the evaluation has read
  mine,      \* wake id of the evaluation in progress
  used,      \* wake ids drawn so far: random ids do not repeat
  sent,      \* history: wakes the queue command put before the conversation
  done       \* history: wakes acknowledged or reconciled

row == <<state, gen, thread, wake, print, ackPrint, since>>
vars == <<items, state, gen, thread, wake, print, ackPrint, since, config,
          svc, pc, seen, mine, used, sent, done>>

States == {"unbound", "idle", "submitting", "accepted_awaiting_ack",
           "uncertain", "stale_held"}
Points == {"off", "start", "binding", "obligations", "invoke", "result"}
Older(age) == IF age < MinInterval THEN age + 1 ELSE age
NoPrint == [set |-> FALSE, items |-> {}]
Unseen == [state |-> "unbound", ack |-> NoPrint, items |-> {}]
Snapshot(s) == [set |-> TRUE, items |-> s]

\* Mutant: the two snapshots merely have to differ.
SameSnapshot(current, acked) == acked.set /\ current = acked.items

\* Mutant: one acknowledgement covers everything that comes later.
EverCovered(current, acked) == acked.set

\* wakeSnapshotCovered: nothing in the snapshot that was not acknowledged.
Covered(current, acked) == acked.set /\ current \subseteq acked.items

-----------------------------------------------------------------------------
(* Lifecycle of the service.                                               *)

\* Mutant: recovery forgets an interrupted submission so that it is tried again.
OpenAndRetry ==
  /\ svc = "down"
  /\ svc' = "opened"
  /\ IF state = "submitting"
     THEN state' = "idle" /\ wake' = None /\ print' = NoPrint
     ELSE UNCHANGED <<state, wake, print>>
  /\ UNCHANGED <<items, gen, thread, ackPrint, since, config, pc, seen, mine,
                 used, sent, done>>

\* Opening the journal: what was being submitted is uncertain.
Open ==
  /\ svc = "down"
  /\ svc' = "opened"
  /\ state' = IF state = "submitting" THEN "uncertain" ELSE state
  /\ UNCHANGED <<items, gen, thread, wake, print, ackPrint, since, config, pc,
                 seen, mine, used, sent, done>>

\* notifier.start: initWakeBinding, then a first evaluation.
Start ==
  /\ svc = "opened"
  /\ svc' = "up"
  /\ pc' = "start"
  /\ thread' = config
  /\ \/ state = "unbound" /\ state' = "idle" /\ gen' = 1
     \/ state # "unbound" /\ thread = config /\ UNCHANGED <<state, gen>>
     \/ /\ state # "unbound" /\ thread # config
        /\ gen < MaxGen
        /\ gen' = gen + 1
        /\ state' = IF state = "idle" THEN "idle" ELSE "stale_held"
  /\ UNCHANGED <<items, wake, print, ackPrint, since, config, seen, mine, used,
                 sent, done>>

\* notifier.stop: abort the adapter, then wait for the evaluation.
Stop ==
  /\ svc = "up"
  /\ svc' = "stopping"
  /\ UNCHANGED <<items, state, gen, thread, wake, print, ackPrint, since,
                 config, pc, seen, mine, used, sent, done>>

\* The evaluation has ended, and the journal is closed after it.
Stopped ==
  /\ svc = "stopping"
  /\ pc \in {"off", "start"}
  /\ svc' = "down"
  /\ pc' = "off"
  /\ UNCHANGED <<items, state, gen, thread, wake, print, ackPrint, since,
                 config, seen, mine, used, sent, done>>

Crash ==
  /\ svc # "down"
  /\ svc' = "down"
  /\ pc' = "off"
  /\ mine' = None
  /\ seen' = Unseen
  /\ UNCHANGED <<items, state, gen, thread, wake, print, ackPrint, since,
                 config, used, sent, done>>

\* The owner pairs another conversation while the service is down.
Repair(t) ==
  /\ svc = "down"
  /\ config' = t
  /\ UNCHANGED <<items, state, gen, thread, wake, print, ackPrint, since, svc,
                 pc, seen, mine, used, sent, done>>

-----------------------------------------------------------------------------
(* evaluateObligations: one evaluation at a time, started by the timer, by *)
(* an acknowledgement or by a change of the obligations.                   *)

Return ==
  /\ pc' = "start"
  /\ seen' = Unseen
  /\ mine' = None

\* Reads the binding row.
Begin ==
  /\ svc = "up"
  /\ pc = "start"
  /\ pc' = "binding"
  /\ seen' = [state |-> state, ack |-> ackPrint, items |-> {}]
  /\ UNCHANGED <<items, state, gen, thread, wake, print, ackPrint, since,
                 config, svc, mine, used, sent, done>>

\* An outstanding wake, or a stop, ends the evaluation here.
HeldBack == svc = "stopping" \/ seen.state # "idle"

LeaveOutstanding ==
  /\ pc = "binding"
  /\ HeldBack
  /\ Return
  /\ UNCHANGED <<items, state, gen, thread, wake, print, ackPrint, since,
                 config, svc, used, sent, done>>

\* Otherwise it reads the obligations.
ReadObligations ==
  /\ pc = "binding"
  /\ ~HeldBack
  /\ pc' = "obligations"
  /\ seen' = [state |-> seen.state, ack |-> seen.ack, items |-> items]
  /\ UNCHANGED <<items, state, gen, thread, wake, print, ackPrint, since,
                 config, svc, mine, used, sent, done>>

NothingToTell ==
  \/ svc = "stopping"
  \/ seen.items = {}
  \/ Covered(seen.items, seen.ack)
  \/ since < MinInterval

Skip ==
  /\ pc = "obligations"
  /\ NothingToTell
  /\ Return
  /\ UNCHANGED <<items, state, gen, thread, wake, print, ackPrint, since,
                 config, svc, used, sent, done>>

\* setWakeSubmitting, recorded before the adapter is called; it refuses a
\* binding that is no longer idle.
Submit(w) ==
  /\ pc = "obligations"
  /\ ~NothingToTell
  /\ w \notin used
  /\ state = "idle"
  /\ state' = "submitting"
  /\ wake' = w
  /\ print' = Snapshot(seen.items)
  /\ since' = 0
  /\ mine' = w
  /\ used' = used \cup {w}
  /\ pc' = "invoke"
  /\ UNCHANGED <<items, gen, thread, ackPrint, config, svc, seen, sent, done>>

\* setWakeAccepted and setWakeUncertain: WHERE active_wake_id = wakeId.
SettleActive(outcome) == state' = IF wake = mine THEN outcome ELSE state

\* Mutant: an evaluation that finds itself stopped does not return.
AbandonWhenUp ==
  /\ pc = "invoke"
  /\ svc = "up"
  /\ SettleActive("uncertain")
  /\ Return
  /\ UNCHANGED <<items, gen, thread, wake, print, ackPrint, since, config, svc,
                 used, sent, done>>

\* Stopped before the call: the wake is left uncertain though it was not sent.
Abandon ==
  /\ pc = "invoke"
  /\ svc = "stopping"
  /\ SettleActive("uncertain")
  /\ Return
  /\ UNCHANGED <<items, gen, thread, wake, print, ackPrint, since, config, svc,
                 used, sent, done>>

\* The queue command runs once; it may or may not reach the conversation.
Invoke ==
  /\ pc = "invoke"
  /\ svc = "up"
  /\ pc' = "result"
  /\ \/ sent' = sent \cup {mine}
     \/ UNCHANGED sent
  /\ UNCHANGED <<items, state, gen, thread, wake, print, ackPrint, since,
                 config, svc, seen, mine, used, done>>

\* The receipt of a hint that was queued.
Accepted ==
  /\ pc = "result"
  /\ mine \in sent
  /\ SettleActive("accepted_awaiting_ack")
  /\ Return
  /\ UNCHANGED <<items, gen, thread, wake, print, ackPrint, since, config, svc,
                 used, sent, done>>

\* Timeout, abort, exit code, malformed receipt, missing executable.
NotAccepted ==
  /\ pc = "result"
  /\ SettleActive("uncertain")
  /\ Return
  /\ UNCHANGED <<items, gen, thread, wake, print, ackPrint, since, config, svc,
                 used, sent, done>>

-----------------------------------------------------------------------------
(* The conversation and the owner.                                         *)

\* Mutant: a stale wake can still be acknowledged.
AckStale(w) ==
  /\ svc = "up" /\ w \in sent
  /\ state # "unbound" /\ wake = w
  /\ state' = "idle"
  /\ ackPrint' = print
  /\ wake' = None
  /\ print' = NoPrint
  /\ done' = done \cup {w}
  /\ UNCHANGED <<items, gen, thread, since, config, svc, pc, seen, mine, used,
                 sent>>

\* ackWake: exact wake id and generation, in any state but stale_held; it may
\* come before the adapter's own result.
Ack(w) ==
  /\ svc = "up" /\ w \in sent
  /\ state \notin {"unbound", "stale_held"} /\ wake = w
  /\ state' = "idle"
  /\ ackPrint' = print
  /\ wake' = None
  /\ print' = NoPrint
  /\ done' = done \cup {w}
  /\ UNCHANGED <<items, gen, thread, since, config, svc, pc, seen, mine, used, sent>>

\* reconcileStaleWake, offline: only for the conversation now configured.
ReconcileStale ==
  /\ svc = "down"
  /\ state = "stale_held"
  /\ thread = config
  /\ state' = "idle"
  /\ wake' = None
  /\ print' = NoPrint
  /\ ackPrint' = NoPrint
  /\ since' = MinInterval
  /\ done' = done \cup {wake}
  /\ UNCHANGED <<items, gen, thread, config, svc, pc, seen, mine, used, sent>>

Arrive(i) ==
  /\ svc = "up"
  /\ i \notin items
  /\ items' = items \cup {i}
  /\ UNCHANGED <<state, gen, thread, wake, print, ackPrint, since, config, svc,
                 pc, seen, mine, used, sent, done>>

Consume(i) ==
  /\ svc = "up"
  /\ i \in items
  /\ items' = items \ {i}
  /\ UNCHANGED <<state, gen, thread, wake, print, ackPrint, since, config, svc,
                 pc, seen, mine, used, sent, done>>

Tick ==
  /\ since < MinInterval
  /\ since' = Older(since)
  /\ UNCHANGED <<items, state, gen, thread, wake, print, ackPrint, config, svc,
                 pc, seen, mine, used, sent, done>>

Init ==
  /\ items = {}
  /\ state = "unbound"
  /\ gen = 0
  /\ config \in Threads
  /\ thread = None
  /\ wake = None
  /\ print = NoPrint /\ ackPrint = NoPrint
  /\ since = MinInterval
  /\ svc = "down"
  /\ pc = "off"
  /\ seen = Unseen
  /\ mine = None
  /\ used = {} /\ sent = {} /\ done = {}

Evaluate ==
  \/ Begin \/ LeaveOutstanding \/ ReadObligations \/ Skip
  \/ \E w \in Wakes : Submit(w)
  \/ Abandon \/ Invoke
  \/ Accepted \/ NotAccepted

Next ==
  \/ Open \/ Start \/ Stop \/ Stopped \/ Crash
  \/ \E t \in Threads : Repair(t)
  \/ Evaluate
  \/ \E w \in Wakes : Ack(w)
  \/ ReconcileStale
  \/ \E i \in Items : Arrive(i) \/ Consume(i)
  \/ Tick

Spec == Init /\ [][Next]_vars
-----------------------------------------------------------------------------
(* Properties.                                                             *)

Fingerprint == [set : BOOLEAN, items : SUBSET Items]

TypeOK ==
  /\ items \in SUBSET Items
  /\ state \in States
  /\ gen \in 0..MaxGen
  /\ thread \in Threads \cup {None} /\ config \in Threads
  /\ wake \in Wakes \cup {None} /\ mine \in Wakes \cup {None}
  /\ print \in Fingerprint /\ ackPrint \in Fingerprint
  /\ since \in 0..MinInterval
  /\ svc \in {"down", "opened", "up", "stopping"}
  /\ pc \in Points
  /\ seen \in [state : States, ack : Fingerprint, items : SUBSET Items]
  /\ used \in SUBSET Wakes /\ sent \in SUBSET Wakes /\ done \in SUBSET Wakes

\* The binding is idle exactly when it has no active wake, so an outcome that
\* comes after the acknowledgement cannot bring the wake back to life, and no
\* state is outstanding that nobody could acknowledge.
OutstandingHasWake == (state \in {"unbound", "idle"}) <=> (wake = None)

\* At most one hint is before the conversation unacknowledged, and it is the
\* one the journal knows: however the service stops, crashes or is re-paired.
OneOutstanding == \A w \in sent \ done : wake = w

\* A hint that is outstanding tells of something that was not acknowledged
\* before: an unchanged backlog does not loop.
HintHasNews ==
  wake # None => print.set /\ (ackPrint.set => ~(print.items \subseteq ackPrint.items))

\* What the notifier puts before a conversation: one hint at a time, the one
\* the journal knows, and never without news.
HintIsSound == OneOutstanding /\ HintHasNews

\* While the adapter runs, the evaluation's wake is either still submitting or
\* was already acknowledged: the outcome never meets a rebound binding.
EvaluationScope ==
  /\ pc = "obligations" => state = "idle"
  /\ pc \in {"invoke", "result"} =>
       \/ wake = mine /\ state = "submitting"
       \/ wake = None /\ state = "idle" /\ mine \in done

\* A hint left stale by a new pairing is never acknowledged by the old
\* conversation: only the owner clears it.
StaleOnlyReconciled ==
  [][state = "stale_held" /\ state' # "stale_held" => svc = "down"]_vars

-----------------------------------------------------------------------------
(* Liveness: the interval timer evaluates again and again, and the steps of *)
(* an evaluation are taken by the event loop; the queue command is killed   *)
(* by its timeout.  Nothing is assumed of the conversation or the owner.    *)

Fairness == WF_vars(Evaluate) /\ WF_vars(Tick) /\ WF_vars(Stopped)

FairSpec == Spec /\ Fairness

Unheard(i) == i \in items /\ ~(ackPrint.set /\ i \in ackPrint.items)

\* If the service stays up, an obligation the conversation was not told of
\* does not wait beside an idle binding: a hint goes out, or it is consumed.
\* (As long as fresh wake ids remain in this bounded instance.)
NewsIsTold ==
  (<>[](svc = "up")) =>
    \A i \in Items :
      [](Unheard(i) /\ state = "idle" =>
           <>(state # "idle" \/ ~Unheard(i) \/ used = Wakes))

\* notifier.stop returns: the evaluation it waits for always ends.
StopReturns == (svc = "stopping") ~> (svc = "down")

\* The notifier's work comes to an end: news is told, and a stop returns.
NotifierMoves == NewsIsTold /\ StopReturns

-----------------------------------------------------------------------------
(* Wake hints are safe for every set of items, wake ids and conversations. *)
(* IInv strengthens the checked invariants with what the evaluation relies *)
(* on while it awaits: it runs only while the service is there, what it    *)
(* read of the binding still holds, and ids are fresh.                     *)

\* An evaluation is in progress only while the service runs.
EvaluationAwake ==
  /\ svc \in {"down", "opened"} => pc = "off"
  /\ pc \in {"invoke", "result"} => mine \in Wakes

\* An idle binding that was read stays as it was read until this evaluation
\* writes it: nothing else makes an idle binding outstanding.
ReadStillHolds ==
  pc = "obligations" \/ (pc = "binding" /\ seen.state = "idle") =>
    state = "idle" /\ seen.ack = ackPrint

\* Wake ids come from the fresh supply.
IdsDrawn ==
  /\ wake # None => wake \in used
  /\ sent \subseteq used
  /\ done \subseteq used

IInv ==
  /\ TypeOK
  /\ OutstandingHasWake
  /\ OneOutstanding
  /\ HintHasNews
  /\ EvaluationScope
  /\ EvaluationAwake
  /\ ReadStillHolds
  /\ IdsDrawn

-----------------------------------------------------------------------------
\* A fresh journal, before the notifier first starts, satisfies the invariant.
LEMMA InitIInv == Init => IInv
BY WakeAssumption
   DEF Init, IInv, TypeOK, OutstandingHasWake, OneOutstanding, HintHasNews,
       EvaluationScope, EvaluationAwake, ReadStillHolds, IdsDrawn, States,
       Points, Fingerprint, NoPrint, Unseen

\* The outcome of the queue command never changes which wake is active, and
\* moves only the submission it belongs to.
LEMMA SettleKeeps ==
  ASSUME IInv, pc \in {"invoke", "result"},
         NEW outcome \in {"accepted_awaiting_ack", "uncertain"},
         SettleActive(outcome)
  PROVE  /\ state' \in {"idle", outcome}
         /\ (state' = "idle") <=> (wake = None)
         /\ state # "stale_held"
BY WakeAssumption
   DEF IInv, TypeOK, SettleActive, EvaluationScope, EvaluationAwake,
       OutstandingHasWake, States

\* Every step of the notifier, the conversation, the owner and time keeps it.
LEMMA NextIInv == IInv /\ [Next]_vars => IInv'
<1> SUFFICES ASSUME IInv, [Next]_vars PROVE IInv'
  OBVIOUS
<1> USE WakeAssumption
    DEF IInv, TypeOK, OutstandingHasWake, OneOutstanding, HintHasNews,
        EvaluationScope, EvaluationAwake, ReadStillHolds, IdsDrawn, States,
        Points, Fingerprint
<1>1. CASE Open
  BY <1>1 DEF Open
<1>2. CASE Start
  BY <1>2 DEF Start
<1>3. CASE Stop
  BY <1>3 DEF Stop
<1>4. CASE Stopped
  BY <1>4 DEF Stopped
<1>5. CASE Crash
  BY <1>5 DEF Crash, Unseen, NoPrint
<1>6. ASSUME NEW t \in Threads, Repair(t) PROVE IInv'
  BY <1>6 DEF Repair
<1>7. CASE Begin
  BY <1>7 DEF Begin
<1>8. CASE LeaveOutstanding
  BY <1>8 DEF LeaveOutstanding, Return, Unseen, NoPrint
<1>9. CASE ReadObligations
  BY <1>9 DEF ReadObligations, HeldBack
<1>10. CASE Skip
  BY <1>10 DEF Skip, Return, Unseen, NoPrint
<1>11. ASSUME NEW w \in Wakes, Submit(w) PROVE IInv'
  \* The binding was idle, so nothing sent was unacknowledged.
  <2>1. wake = None /\ sent \subseteq done
    BY <1>11 DEF Submit
  \* What was read is still so: the hint has news.
  <2>2. HintHasNews'
    BY <1>11 DEF Submit, NothingToTell, Covered, Snapshot
  <2>3. OneOutstanding'
    BY <1>11, <2>1 DEF Submit
  <2>4. TypeOK'
    BY <1>11 DEF Submit, Snapshot
  <2> QED
    BY <1>11, <2>2, <2>3, <2>4 DEF Submit
<1>12. CASE Abandon
  BY <1>12, SettleKeeps DEF Abandon, Return, Unseen, NoPrint
<1>13. CASE Invoke
  \* Whether or not the hint goes out, its wake is the active one or was
  \* acknowledged already.
  <2>1. OneOutstanding'
    BY <1>13 DEF Invoke
  <2> QED
    BY <1>13, <2>1 DEF Invoke
<1>14. CASE Accepted
  BY <1>14, SettleKeeps DEF Accepted, Return, Unseen, NoPrint
<1>15. CASE NotAccepted
  BY <1>15, SettleKeeps DEF NotAccepted, Return, Unseen, NoPrint
<1>16. ASSUME NEW w \in Wakes, Ack(w) PROVE IInv'
  \* An acknowledgement that overtakes the adapter's result leaves the
  \* evaluation with a wake that is done.
  <2>1. EvaluationScope'
    BY <1>16 DEF Ack
  <2>2. ReadStillHolds'
    BY <1>16 DEF Ack
  <2> QED
    BY <1>16, <2>1, <2>2 DEF Ack, NoPrint
<1>17. CASE ReconcileStale
  BY <1>17 DEF ReconcileStale, NoPrint
<1>18. ASSUME NEW i \in Items, Arrive(i) PROVE IInv'
  BY <1>18 DEF Arrive
<1>19. ASSUME NEW i \in Items, Consume(i) PROVE IInv'
  BY <1>19 DEF Consume
<1>20. CASE Tick
  BY <1>20 DEF Tick, Older
<1>21. CASE UNCHANGED vars
  BY <1>21 DEF vars
<1> QED
  BY <1>1, <1>2, <1>3, <1>4, <1>5, <1>6, <1>7, <1>8, <1>9, <1>10, <1>11,
     <1>12, <1>13, <1>14, <1>15, <1>16, <1>17, <1>18, <1>19, <1>20, <1>21
     DEF Next, Evaluate

\* The invariant holds in every behaviour of the notifier.
THEOREM Inductive == Spec => []IInv
BY InitIInv, NextIInv, PTL DEF Spec

-----------------------------------------------------------------------------
\* The binding row and the notifier's memory keep their types.
THEOREM TypeCorrect == Spec => []TypeOK
BY Inductive, PTL DEF IInv

\* The binding is idle exactly when no wake is active: a late outcome of the
\* queue command never revives an acknowledged wake.
THEOREM OutstandingIsAckable == Spec => []OutstandingHasWake
BY Inductive, PTL DEF IInv

\* At most one hint is before the conversation unacknowledged, through stops,
\* crashes and new pairings.
THEOREM AtMostOneHint == Spec => []OneOutstanding
BY Inductive, PTL DEF IInv

\* An outstanding hint tells of an item that was not acknowledged before.
THEOREM HintsCarryNews == Spec => []HintHasNews
BY Inductive, PTL DEF IInv

\* One hint at a time, the one the journal knows, and never without news: for
\* every set of replies, through stops, crashes and new pairings.
THEOREM HintsAreSound == Spec => []HintIsSound
BY AtMostOneHint, HintsCarryNews, PTL DEF HintIsSound

\* The outcome of the queue command meets the binding as it left it, or one
\* that the conversation has already acknowledged.
THEOREM OutcomeMeetsOwnWake == Spec => []EvaluationScope
BY Inductive, PTL DEF IInv

\* A hint made stale by a new pairing is cleared only while the service is
\* down, by the owner's reconciliation.
THEOREM StaleClearedOffline == Spec => StaleOnlyReconciled
<1>1. IInv /\ [Next]_vars =>
        [state = "stale_held" /\ state' # "stale_held" => svc = "down"]_vars
  <2> SUFFICES ASSUME IInv, Next, state = "stale_held", state' # "stale_held"
               PROVE  svc = "down"
    OBVIOUS
  <2>1. ~(Abandon \/ Accepted \/ NotAccepted)
    BY SettleKeeps DEF Abandon, Accepted, NotAccepted
  <2> QED
    BY <2>1
       DEF Next, Evaluate, Open, Start, Stop, Stopped, Crash, Repair, Begin,
           LeaveOutstanding, ReadObligations, Skip, Submit, Invoke, Ack,
           ReconcileStale, Arrive, Consume, Tick
<1> QED
  BY Inductive, <1>1, PTL DEF Spec, StaleOnlyReconciled
=============================================================================
