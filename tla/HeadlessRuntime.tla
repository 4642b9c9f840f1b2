--------------------------- MODULE HeadlessRuntime ---------------------------
(***************************************************************************)
(* One headless Codex profile: the drain hands deliveries of its mailbox   *)
(* to the runtime one at a time; the runtime takes the lease, a slot, a    *)
(* thread and a turn, and settles reply before acknowledgement.  Every     *)
(* await is a step boundary, where handoffs, cancellations, lease expiry   *)
(* and crashes come in.  Durable: lease, conv, done.  The mailbox behind   *)
(* the transaction proxy (mail) is external.                               *)
(***************************************************************************)
EXTENDS Naturals, FiniteSets

CONSTANTS
  Deliveries,   \* deliveries that want a reply
  Receipts,     \* deliveries that do not
  Rooms,
  RoomOf,       \* the conversation of each delivery
  Operators,    \* handoff and cancel calls that may be in flight at once
  MaxStarts,    \* bound: incarnations of the host process
  MaxGen,       \* bound: lease generations
  MaxEpoch      \* bound: admitted attempts per conversation

ASSUME RuntimeAssumption ==
  /\ Receipts \cap Deliveries = {} /\ MaxStarts \in Nat /\ {MaxGen, MaxEpoch} \subseteq Nat
  /\ RoomOf \in [Deliveries \cup Receipts -> Rooms]

VARIABLES
  lease,    \* profile.json
  conv,     \* conversations/<room>.json
  done,     \* completions: the deliveries with a recorded reply event
  mail,     \* the proxy's transaction per delivery: open, replied, acked, settled (external)
  host,     \* down, recovering, blocked or up
  inc,      \* incarnation of the host; its owner instance id
  run,      \* the delivery in flight
  op,       \* operator calls in flight
  turns,    \* history: turns started per delivery
  excused   \* history: deliveries cancelled by an operator

runtimeVars == <<lease, conv, done, mail, host, inc, run, op, turns, excused>>

-----------------------------------------------------------------------------
(* The profile's execution lease (execution-lease.mjs).  Every operation   *)
(* runs under the exclusive profile lock, so each is one atomic change of  *)
(* the record l: a predicate for when it is not refused and the record it  *)
(* then writes.  busy says that some conversation is in a non-idle         *)
(* execution state, open that some conversation still names an active      *)
(* delivery.                                                               *)

NoLease == [owner |-> <<"none", 0>>, gen |-> 0, state |-> "owned", mode |-> "headless",
            frozen |-> FALSE, expired |-> FALSE]

NonIdle == {"admitted", "running", "result_ready", "reply_persisted"}

\* buildLeaseFields: a fresh owned lease.
LeaseFields(owner, gen, mode) ==
  [NoLease EXCEPT !.owner = owner, !.gen = gen, !.mode = mode]

Renewed(l) == [l EXCEPT !.expired = FALSE]

Admissible(l) == l.state = "owned" /\ ~l.frozen

Replaceable(l, restart, busy) == ~busy /\ (l.expired \/ restart)

CanAcquire(l, me, restart, busy) ==
  \/ l = NoLease
  \/ Admissible(l) /\ ((l.owner = me /\ ~restart) \/ Replaceable(l, restart, busy))

\* A replaced lease keeps the runtime mode of the one it replaces.
Acquired(l, me, restart) ==
  IF l.owner = me /\ ~restart
  THEN Renewed(l)
  ELSE LeaseFields(me, l.gen + 1, l.mode)

CanRenew(l, me) == Admissible(l) /\ l.owner = me

\* Mutant: a handoff begins without the idle checks.
CanBegin_Busy(l, gen, busy, open) == l.gen = gen /\ Admissible(l)

CanBegin(l, gen, busy, open) == l.gen = gen /\ Admissible(l) /\ ~busy /\ ~open

Begun(l, actor) ==
  [l EXCEPT !.owner = actor, !.gen = l.gen + 1, !.state = "transferring", !.expired = FALSE]

CanCommit(l, gen, busy) == l.state = "transferring" /\ l.gen = gen /\ ~busy

\* commitTransfer, and rollbackTransfer with the owner and mode given back.
Committed(l, owner, mode) == LeaseFields(owner, l.gen + 1, mode)

CanRollBack(l, gen) == l.state = "transferring" /\ l.gen = gen

\* freezeAdmissionAfterCommit, right after the commit and so never refused.
Frozen(l) == [l EXCEPT !.frozen = TRUE]

CanUnfreeze(l, gen, owner) ==
  l.state = "owned" /\ l.mode = "desktop" /\ l.owner = owner /\ l.gen = gen

Unfrozen(l) == [l EXCEPT !.frozen = FALSE, !.expired = FALSE]

-----------------------------------------------------------------------------
All == Deliveries \cup Receipts

None == "none"

\* Owner instance ids: of the host process, the desktop owner and the handoff itself.
Me == <<"headless", inc>>
Desktop == <<"desktop", 0>>
Transfer == <<"transfer", 0>>

NoRun == [pc |-> "idle", d |-> None, cut |-> FALSE]

NoOp == [pc |-> "idle", seen |-> NoLease, d |-> None, epoch |-> 0]

IdleConv == [state |-> "idle", active |-> None, epoch |-> 0, reply |-> None]

RuntimeInit ==
  /\ lease = NoLease /\ conv = [r \in Rooms |-> IdleConv]
  /\ done = {} /\ mail = [d \in All |-> "open"] /\ turns = [d \in All |-> 0]
  /\ host = "down" /\ inc = 0 /\ run = NoRun /\ op = [o \in Operators |-> NoOp]
  /\ excused = {}

Busy == \E r \in Rooms : conv[r].state \in NonIdle

OpenDelivery == \E r \in Rooms : conv[r].active # None

Writes(l) == lease' = l

SameLease == UNCHANGED lease

\* transitionExecutionState
Transition == [idle |-> {"admitted"}, admitted |-> {"running", "idle"},
               running |-> {"result_ready", "idle"},
               result_ready |-> {"reply_persisted", "idle"},
               reply_persisted |-> {"acked", "idle"}, acked |-> {"idle"}]

CanMove(r, s) == s = conv[r].state \/ s \in Transition[conv[r].state]

Room == RoomOf[run.d]

Fails == run' = NoRun

\* The delivery the conversation holds is this one: nothing is started again.
Engaged(r) == conv[r].active # None /\ conv[r].state \in NonIdle

(* runDelivery, up to the first await: the lease, then the conversation.   *)
(* A delivery refused by the lease or by the conversation changes nothing  *)
(* else.                                                                   *)
Deliver(d) ==
  /\ host = "up" /\ run = NoRun /\ d \in Deliveries /\ mail[d] = "open"
  /\ CanAcquire(lease, Me, FALSE, Busy)
  /\ lease.gen < MaxGen /\ conv[RoomOf[d]].epoch < MaxEpoch
  /\ Writes(Acquired(lease, Me, FALSE))
  /\ run' = IF Engaged(RoomOf[d]) THEN NoRun ELSE [NoRun EXCEPT !.pc = "slot", !.d = d]
  /\ UNCHANGED <<conv, done, mail, host, inc, op, turns, excused>>

(* A receipt: acknowledged without a lease, a slot or a turn.              *)
ReceiptOnly(d) ==
  /\ host = "up" /\ run = NoRun /\ d \in Receipts /\ mail[d] = "open"
  /\ mail' = [mail EXCEPT ![d] = "acked"]
  /\ UNCHANGED <<lease, conv, done, host, inc, run, op, turns, excused>>

(* The pool gave a slot; the lease is renewed and the thread called for.   *)
SlotGranted ==
  /\ run.pc = "slot" /\ CanRenew(lease, Me)
  /\ Writes(Renewed(lease)) /\ run' = [run EXCEPT !.pc = "thread"]
  /\ UNCHANGED <<conv, done, mail, host, inc, op, turns, excused>>

SlotRefused ==
  /\ run.pc = "slot" /\ Fails
  /\ UNCHANGED <<lease, conv, done, mail, host, inc, op, turns, excused>>

Admitted(c) ==
  [c EXCEPT !.state = "admitted", !.active = run.d, !.epoch = @ + 1]

Persisted(c) == [c EXCEPT !.state = "reply_persisted", !.reply = run.d]

(* The thread is known: it is stored, the epoch advances, the delivery is  *)
(* admitted, and only then the lease is renewed again.  If that renewal is *)
(* refused the conversation stays admitted and no turn is started.         *)
ThreadReady ==
  /\ run.pc = "thread" /\ CanMove(Room, "admitted")
  /\ IF CanRenew(lease, Me)
     THEN /\ Writes(Renewed(lease))
          /\ conv' = [conv EXCEPT ![Room] = [Admitted(@) EXCEPT !.state = "running"]]
          /\ turns' = [turns EXCEPT ![run.d] = @ + 1]
          /\ run' = [run EXCEPT !.pc = "turn"]
     ELSE /\ conv' = [conv EXCEPT ![Room] = Admitted(@)] /\ Fails
          /\ SameLease /\ UNCHANGED turns
  /\ UNCHANGED <<done, mail, host, inc, op, excused>>

ThreadFails ==
  /\ run.pc = "thread" /\ Fails
  /\ UNCHANGED <<lease, conv, done, mail, host, inc, op, turns, excused>>

(* turn/completed, buffered, on time or found by thread/read after the     *)
(* timeout, with a text to post.                                           *)
TurnCompletes ==
  /\ run.pc = "turn" /\ ~run.cut
  /\ IF CanMove(Room, "result_ready")
     THEN /\ conv' = [conv EXCEPT ![Room].state = "result_ready"]
          /\ run' = [run EXCEPT !.pc = "reply"]
     ELSE Fails /\ UNCHANGED conv
  /\ UNCHANGED <<lease, done, mail, host, inc, op, turns, excused>>

(* Completed without a text: result_ready is written, nothing is posted.   *)
TurnWithoutText ==
  /\ run.pc = "turn" /\ ~run.cut /\ Fails
  /\ conv' = IF CanMove(Room, "result_ready")
             THEN [conv EXCEPT ![Room].state = "result_ready"] ELSE conv
  /\ UNCHANGED <<lease, done, mail, host, inc, op, turns, excused>>

\* Mutant: a lost turn clears its conversation, as a finished one does.
TurnLost_Clears ==
  /\ run.pc = "turn" /\ Fails
  /\ conv' = [conv EXCEPT ![Room].state = "idle", ![Room].active = None]
  /\ UNCHANGED <<lease, done, mail, host, inc, op, turns, excused>>

(* The turn failed, was interrupted, or its outcome is unknown: the slot   *)
(* is replaced and the conversation stays as it is, for reconciliation.    *)
TurnLost ==
  /\ run.pc = "turn" /\ Fails
  /\ UNCHANGED <<lease, conv, done, mail, host, inc, op, turns, excused>>

(* transactionProxy.reply returned the canonical reply event.              *)
Replied ==
  /\ run.pc = "reply"
  /\ mail' = [mail EXCEPT ![run.d] = "replied"]
  /\ IF CanMove(Room, "reply_persisted")
     THEN /\ conv' = [conv EXCEPT ![Room] = Persisted(@)]
          /\ done' = done \cup {run.d}
          /\ run' = [run EXCEPT !.pc = "ack"]
     ELSE Fails /\ UNCHANGED <<conv, done>>
  /\ UNCHANGED <<lease, host, inc, op, turns, excused>>

(* The call failed; the reply may be there all the same.                   *)
ReplyFails ==
  /\ run.pc = "reply" /\ Fails
  /\ \/ UNCHANGED mail
     \/ mail' = [mail EXCEPT ![run.d] = "replied"]
  /\ UNCHANGED <<lease, conv, done, host, inc, op, turns, excused>>

Settled(r) == [conv[r] EXCEPT !.state = "idle", !.active = None]

Acked ==
  /\ run.pc = "ack" /\ Fails
  /\ mail' = [mail EXCEPT ![run.d] = "acked"]
  /\ conv' = IF CanMove(Room, "acked") THEN [conv EXCEPT ![Room] = Settled(Room)] ELSE conv
  /\ UNCHANGED <<lease, done, host, inc, op, turns, excused>>

AckFails ==
  /\ run.pc = "ack" /\ Fails
  /\ \/ UNCHANGED mail
     \/ mail' = [mail EXCEPT ![run.d] = "acked"]
  /\ UNCHANGED <<lease, conv, done, host, inc, op, turns, excused>>

-----------------------------------------------------------------------------
(* The host process.  Calls in flight, the operators' too, die with it.    *)
Crash ==
  /\ host # "down" /\ host' = "down"
  /\ run' = NoRun /\ op' = [o \in Operators |-> NoOp]
  /\ UNCHANGED <<lease, conv, done, mail, inc, turns, excused>>

(* Killed between two of the writes of a step: admitted, and never started. *)
CrashAdmitting ==
  /\ run.pc = "thread" /\ CanMove(Room, "admitted") /\ host' = "down"
  /\ run' = NoRun /\ op' = [o \in Operators |-> NoOp]
  /\ conv' = [conv EXCEPT ![Room] = Admitted(conv[Room])]
  /\ UNCHANGED <<lease, done, mail, inc, turns, excused>>

(* The reply is in the conversation and the completion is not recorded.    *)
CrashPersisting ==
  /\ run.pc = "reply" /\ CanMove(Room, "reply_persisted") /\ host' = "down"
  /\ run' = NoRun /\ op' = [o \in Operators |-> NoOp]
  /\ mail' = [mail EXCEPT ![run.d] = "replied"]
  /\ conv' = [conv EXCEPT ![Room] = Persisted(conv[Room])]
  /\ UNCHANGED <<lease, done, inc, turns, excused>>

Start ==
  /\ host = "down" /\ inc < MaxStarts
  /\ host' = "recovering" /\ inc' = inc + 1
  /\ UNCHANGED <<lease, conv, done, mail, run, op, turns, excused>>

(* reconcileConversationAfterRestart: a persisted reply is acknowledged,   *)
(* never posted again.                                                     *)
Reconcilable(r) == conv[r].state = "reply_persisted"

\* Mutant: the recovery does not replay the completion record.
ReconcileAck_NoRecord(r) ==
  /\ host = "recovering" /\ Reconcilable(r)
  /\ mail' = [d \in All |-> IF d = conv[r].reply THEN "acked" ELSE mail[d]]
  /\ conv' = [conv EXCEPT ![r] = Settled(r)]
  /\ UNCHANGED <<lease, done, host, inc, run, op, turns, excused>>

ReconcileAck(r) ==
  /\ host = "recovering" /\ Reconcilable(r)
  /\ done' = done \cup {conv[r].active}
  /\ mail' = [d \in All |-> IF d = conv[r].reply THEN "acked" ELSE mail[d]]
  /\ conv' = [conv EXCEPT ![r] = Settled(r)]
  /\ UNCHANGED <<lease, host, inc, run, op, turns, excused>>

(* The acknowledgement fails, or is made and then the process dies.        *)
ReconcileFails(r) ==
  /\ host = "recovering" /\ Reconcilable(r) /\ host' = "down"
  /\ done' = done \cup {conv[r].active}
  /\ \/ UNCHANGED mail
     \/ mail' = [d \in All |-> IF d = conv[r].reply THEN "acked" ELSE mail[d]]
  /\ UNCHANGED <<lease, conv, inc, run, op, turns, excused>>

(* Quarantined work blocks the drain; otherwise the host takes the lease   *)
(* without presuming its last owner alive, and is up.                      *)
Recovered ==
  /\ host = "recovering" /\ ~\E r \in Rooms : Reconcilable(r)
  /\ IF Busy
     THEN host' = "blocked" /\ SameLease
     ELSE IF CanAcquire(lease, Me, TRUE, Busy)
          THEN /\ lease.gen < MaxGen /\ host' = "up"
               /\ Writes(Acquired(lease, Me, TRUE))
          ELSE host' = "blocked" /\ SameLease
  /\ UNCHANGED <<conv, done, mail, inc, run, op, turns, excused>>

(* The drain found the transaction of a posted reply open and acknowledges *)
(* it (the helper's own recovery; external).                               *)
MailboxSettles(d) ==
  /\ host = "up" /\ run = NoRun /\ mail[d] = "replied"
  /\ mail' = [mail EXCEPT ![d] = "settled"]
  /\ UNCHANGED <<lease, conv, done, host, inc, run, op, turns, excused>>

LeaseExpires ==
  /\ lease.gen > 0 /\ ~lease.expired
  /\ lease' = [lease EXCEPT !.expired = TRUE]
  /\ UNCHANGED <<conv, done, mail, host, inc, run, op, turns, excused>>

-----------------------------------------------------------------------------
(* Operator calls.  Each reads and checks, awaits, and then acts on what it *)
(* read.                                                                   *)
Calls(o, p) ==
  /\ op[o] = NoOp /\ host \in {"up", "blocked"} /\ lease.gen < MaxGen
  /\ op' = [op EXCEPT ![o] = [NoOp EXCEPT !.pc = p, !.seen = lease']]

Returns(o) == op' = [op EXCEPT ![o] = NoOp]

AtOp(o, p) == op[o].pc = p

OpFrame == UNCHANGED <<done, mail, host, inc, turns>>

HandoffToDesktop(o) ==
  /\ lease.mode = "headless" /\ lease.owner = Me
  /\ CanBegin(lease, lease.gen, Busy, OpenDelivery)
  /\ Writes(Begun(lease, Transfer)) /\ Calls(o, "attach")
  /\ OpFrame /\ UNCHANGED <<conv, run, excused>>

HandoffToHeadless(o) ==
  /\ lease.mode = "desktop" /\ lease.owner = Desktop
  /\ CanBegin(lease, lease.gen, Busy, OpenDelivery)
  /\ Writes(Begun(lease, Transfer)) /\ Calls(o, "verify")
  /\ OpFrame /\ UNCHANGED <<conv, run, excused>>

(* The other side attached: commit, or roll back to the side it came from. *)
Attached(o, p, owner, mode, backOwner, backMode) ==
  /\ AtOp(o, p) /\ Returns(o)
  /\ IF CanRollBack(lease, op[o].seen.gen)
     THEN \/ CanCommit(lease, op[o].seen.gen, Busy) /\ Writes(Committed(lease, owner, mode))
          \/ Writes(Committed(lease, backOwner, backMode))
     ELSE SameLease
  /\ OpFrame /\ UNCHANGED <<conv, run, excused>>

DesktopAttached(o) == Attached(o, "attach", Desktop, "desktop", Me, "headless")

HeadlessVerified(o) == Attached(o, "verify", Me, "headless", Desktop, "desktop")

(* Committed, but admission could not be reopened: frozen.                 *)
DesktopFrozen(o) ==
  /\ AtOp(o, "attach") /\ Returns(o)
  /\ CanCommit(lease, op[o].seen.gen, Busy)
  /\ Writes(Frozen(Committed(lease, Desktop, "desktop")))
  /\ OpFrame /\ UNCHANGED <<conv, run, excused>>

RecoverDesktop(o) ==
  /\ lease.state = "owned" /\ lease.mode = "desktop" /\ lease.owner = Desktop
  /\ ~Busy /\ ~OpenDelivery
  /\ SameLease /\ Calls(o, "recover")
  /\ OpFrame /\ UNCHANGED <<conv, run, excused>>

DesktopRecovered(o) ==
  /\ AtOp(o, "recover") /\ Returns(o)
  /\ IF CanUnfreeze(lease, op[o].seen.gen, Desktop)
     THEN Writes(Unfrozen(lease)) ELSE SameLease
  /\ OpFrame /\ UNCHANGED <<conv, run, excused>>

RollbackHeadless(o) ==
  /\ lease.gen > 0 /\ (lease.mode = "desktop" \/ lease.state = "transferring")
  /\ ~Busy /\ ~OpenDelivery
  /\ SameLease /\ Calls(o, "rollback")
  /\ OpFrame /\ UNCHANGED <<conv, run, excused>>

\* What rollback-headless puts back before it begins its own transfer: the
\* record it read, unfrozen, if that was frozen.
PutBack(seen) == IF seen.frozen THEN [seen EXCEPT !.frozen = FALSE] ELSE lease

(* The exact thread resumed on a headless slot.                            *)
RolledBack(o) ==
  LET seen == op[o].seen  l == PutBack(seen) IN
  /\ AtOp(o, "rollback") /\ Returns(o)
  /\ IF seen.state = "transferring"
     THEN IF CanRollBack(lease, seen.gen)
          THEN Writes(Committed(lease, Me, "headless")) ELSE SameLease
     ELSE IF CanBegin(l, l.gen, Busy, OpenDelivery)
          THEN Writes(Committed(Begun(l, Transfer), Me, "headless"))
          ELSE Writes(l)
  /\ OpFrame /\ UNCHANGED <<conv, run, excused>>

OpFails(o) ==
  /\ op[o].pc \in {"recover", "rollback"} /\ Returns(o)
  /\ SameLease /\ OpFrame /\ UNCHANGED <<conv, run, excused>>

(* cancelDelivery, scoped to (conversation, delivery, epoch).  A running   *)
(* turn is interrupted first; any other stage is cleared at once.          *)
InScope(r, d, e) == conv[r].active = d /\ conv[r].epoch = e /\ e > 0

CancelDelivery(o, r) ==
  /\ InScope(r, conv[r].active, conv[r].epoch) /\ conv[r].active # None
  /\ host \in {"up", "blocked"} /\ op[o] = NoOp
  /\ IF conv[r].state = "running"
     THEN /\ run.pc \notin {"idle", "slot"}
          /\ op' = [op EXCEPT ![o] = [NoOp EXCEPT !.pc = "cancel", !.d = conv[r].active,
                                                  !.epoch = conv[r].epoch]]
          /\ UNCHANGED <<conv, excused>>
     ELSE /\ conv' = [conv EXCEPT ![r] = Settled(r)]
          /\ excused' = excused \cup {conv[r].active} /\ UNCHANGED op
  /\ SameLease /\ OpFrame /\ UNCHANGED run

(* The interrupt was confirmed: the turn of the delivery in flight is over *)
(* and the conversation is cleared, whatever it has become meanwhile.      *)
CancelConfirmed(o) ==
  LET r == RoomOf[op[o].d] IN
  /\ AtOp(o, "cancel") /\ Returns(o)
  /\ run' = IF run.pc = "turn" /\ run.d = op[o].d THEN [run EXCEPT !.cut = TRUE] ELSE run
  /\ conv' = [conv EXCEPT ![r] = Settled(r)]
  /\ excused' = excused \cup ({conv[r].active} \ {None})
  /\ SameLease /\ OpFrame

CancelFails(o) ==
  /\ AtOp(o, "cancel") /\ Returns(o)
  /\ SameLease /\ OpFrame /\ UNCHANGED <<conv, run, excused>>

-----------------------------------------------------------------------------
RuntimeNext ==
  \/ \E d \in All : Deliver(d) \/ ReceiptOnly(d) \/ MailboxSettles(d)
  \/ SlotGranted \/ SlotRefused \/ ThreadReady \/ ThreadFails
  \/ TurnCompletes \/ TurnWithoutText \/ TurnLost
  \/ Replied \/ ReplyFails \/ Acked \/ AckFails
  \/ Crash \/ CrashAdmitting \/ CrashPersisting \/ Start \/ Recovered \/ LeaseExpires
  \/ \E r \in Rooms : ReconcileAck(r) \/ ReconcileFails(r)
  \/ \E o \in Operators :
       \/ HandoffToDesktop(o) \/ HandoffToHeadless(o) \/ RecoverDesktop(o)
       \/ RollbackHeadless(o) \/ DesktopAttached(o) \/ DesktopFrozen(o)
       \/ HeadlessVerified(o) \/ DesktopRecovered(o) \/ RolledBack(o)
       \/ OpFails(o) \/ CancelConfirmed(o) \/ CancelFails(o)
       \/ \E r \in Rooms : CancelDelivery(o, r)

RuntimeSpec == RuntimeInit /\ [][RuntimeNext]_runtimeVars

-----------------------------------------------------------------------------
(* A delivery is given to at most one Codex turn, through failures,        *)
(* crashes, restarts and handoffs, unless an operator's cancellation       *)
(* cleared the conversation while it held that delivery.                   *)
AtMostOneTurn == \A d \in All : turns[d] <= 1 \/ d \in excused

(* While a turn of an uncancelled delivery runs, its process owns the      *)
(* lease: neither expiry nor a handoff takes the profile away from it.     *)
TurnHasLease ==
  run.pc \in {"turn", "reply", "ack"} /\ conv[Room].active = run.d
    => lease.owner = Me /\ Admissible(lease)

(* The runtime acknowledges a delivery that wants a reply only with its    *)
(* completion recorded, also when it resumes after dying in between.       *)
AckHasRecord == \A d \in Deliveries : mail[d] = "acked" => d \in done

=============================================================================
