--------------------------- MODULE LocalMessaging ---------------------------
(***************************************************************************)
(* Same-device messaging: the durable journal                              *)
(* (local-messaging-journal.mjs), the dispatcher that runs queued requests *)
(* (local-messaging-dispatcher.mjs) and the part of the server             *)
(* (local-messaging-server.mjs) that joins them.                           *)
(*                                                                         *)
(* Every journal method is one synchronous transaction on the only         *)
(* connection to the database, hence one step here.  A request addressed   *)
(* to a worker ("runner") is executed by the dispatcher; one addressed to  *)
(* a chat ("interactive") is claimed under a lease and answered by a chat. *)
(* Time is relative: timestamps are ages that Tick advances and that       *)
(* saturate at the largest value the code compares them with.              *)
(***************************************************************************)
EXTENDS Integers, Sequences, FiniteSets, SequencesExt

CONSTANTS
  Msgs,             \* message ids the senders use
  Runner,           \* those addressed to a worker; the others go to a chat
  Recipient,        \* the recipient of each message
  Pair,             \* the unordered sender/recipient pair of each message
  Chats,            \* (session id, generation) pairs that have owned the chat
  Says,             \* the texts each chat writes
  Texts,            \* result texts
  ReplyIds,         \* reply ids (random or chosen by the chat)
  Ops,              \* claim ids a chat retries a claim with
  Tokens,           \* claim tokens
  ReconcileIds,     \* ids the owner gives its reconciliations
  Legacy,           \* held rows an older build left with a stored reply
  None,             \* no row, no text, no claim, no view
  MaxConcurrent,    \* executions the dispatcher runs at once
  MaxPair,          \* requests of one pair admitted per window
  PairWindow, Retention, Lease, CompactInterval,  \* durations, in ticks
  StorageFaults     \* whether a journal call may fail

ASSUME MessagesAssumption ==
  /\ IsFiniteSet(Msgs)
  /\ Runner \subseteq Msgs
  /\ Legacy \subseteq Msgs

ASSUME BoundsAssumption ==
  /\ MaxConcurrent \in Nat \ {0}
  /\ MaxPair \in Nat \ {0}
  /\ PairWindow \in Nat \ {0} /\ Retention \in Nat \ {0}
  /\ Lease \in Nat \ {0} /\ CompactInterval \in Nat
  /\ StorageFaults \in BOOLEAN

ASSUME ChatsAssumption == Says \in [Chats -> SUBSET Texts]

VARIABLES
  msg,         \* table local_messages
  reply,       \* table local_replies
  admission,   \* table local_pair_admissions: age of the row
  audit,       \* table local_reconciliations
  svc,         \* the service: "down", "opened", "up" or "stopping"
  pending,     \* pendingQueue of the dispatcher
  inFlight,    \* inFlightMessageIds
  exec,        \* progress of executeJob for each message
  compacted,   \* age of lastCompactionAt
  receipt,     \* the claim token each chat was told for each message
  view,        \* what the owner saw when it last listed a held record
  admittedAgo  \* history: time since each message was last admitted

journal == <<msg, reply, admission, audit>>
vars == <<msg, reply, admission, audit, svc, pending, inFlight, exec,
          compacted, receipt, view, admittedAgo>>

Phases == {"absent", "queued_local", "executing", "completed", "held", "failed"}
Actions == {"mark-failed", "mark-completed", "accept-late-result"}
MaxOf(a, b) == IF a >= b THEN a ELSE b
Horizon == MaxOf(Retention, PairWindow)
Older(age, cap) == IF age < cap THEN age + 1 ELSE cap

Claim == [chat : Chats, op : Ops, token : Tokens]
Row == [phase : Phases, late : Texts \cup {None}, claim : Claim \cup {None},
        lease : 0..Lease, age : 0..Retention]
ReplyRow == [of : Msgs, text : Texts, owner : BOOLEAN, consumed : BOOLEAN,
             age : 0..Retention]
View == [of : Msgs, late : Texts \cup {None}, replies : SUBSET ReplyIds,
         age : 0..Retention]
Decision == [of : Msgs, action : Actions]

\* NULL is no value of any column.
ASSUME NoneAssumption ==
  None \notin Texts \cup Tokens \cup Nat \cup Claim \cup ReplyRow \cup View \cup Decision

Absent == [phase |-> "absent", late |-> None, claim |-> None, lease |-> 0,
           age |-> 0]
Queued == [Absent EXCEPT !.phase = "queued_local"]

RepliesTo(m) == {r \in ReplyIds : reply[r] # None /\ reply[r].of = m}
NewReply(m, t, byOwner) ==
  [of |-> m, text |-> t, owner |-> byOwner, consumed |-> FALSE, age |-> 0]

\* Every UPDATE of a row sets updated_at.
Moved(row, phase) == [row EXCEPT !.phase = phase, !.age = 0]
Held(row) == Moved(row, "held")
HeldWith(row, t) == [Held(row) EXCEPT !.late = t]

-----------------------------------------------------------------------------
(* Opening the journal and compacting it.                                  *)

\* Mutant: recovery queues interrupted work again.
RecoveredForReplay(row) ==
  IF row.phase = "executing" THEN Moved(row, "queued_local") ELSE row

\* Opening the journal, and recoverQueued, hold whatever was executing.
Recovered(row) == IF row.phase = "executing" THEN Held(row) ELSE row

\* Mutant: compaction deletes replies nobody has read.
UnreadReplyGone(r) == reply[r] # None /\ reply[r].age >= Retention

ReplyGone(r) == reply[r] # None /\ reply[r].consumed /\ reply[r].age >= Retention
MsgGone(m) ==
  /\ msg[m].phase \in {"completed", "failed"}
  /\ msg[m].age >= Retention
  /\ \A r \in RepliesTo(m) : ReplyGone(r)
\* Mutant: admissions are pruned by retention alone.
AdmissionGoneEarly(m) == admission[m] # None /\ admission[m] >= Retention

AdmissionGone(m) == admission[m] # None /\ admission[m] >= Horizon

\* compact(), given the rows the step has put in place before it.
Compact(rows, adm) ==
  /\ msg' = [m \in Msgs |-> IF MsgGone(m) THEN Absent ELSE rows[m]]
  /\ reply' = [r \in ReplyIds |-> IF ReplyGone(r) THEN None ELSE reply[r]]
  /\ admission' = [m \in Msgs |-> IF AdmissionGone(m) THEN None ELSE adm[m]]
  /\ compacted' = 0

CompactIfDue(rows, adm) ==
  \/ compacted >= CompactInterval /\ Compact(rows, adm)
  \/ /\ compacted < CompactInterval
     /\ msg' = rows /\ admission' = adm
     /\ UNCHANGED <<reply, compacted>>

OpenJournal ==
  /\ svc = "down"
  /\ svc' = "opened"
  /\ msg' = [m \in Msgs |-> Recovered(msg[m])]
  /\ UNCHANGED <<reply, admission, audit, pending, inFlight, exec, compacted,
                 receipt, view, admittedAgo>>

\* created_at of a message is that of its admission, pruned only when old.
CreatedAgo(m) == IF admission[m] = None THEN Horizon ELSE admission[m]
InCreationOrder(q) ==
  \A i, j \in DOMAIN q : i < j => CreatedAgo(q[i]) >= CreatedAgo(q[j])

\* dispatcher.start: recoverQueued, a first compaction, then requests are accepted.
DispatcherStart ==
  /\ svc = "opened"
  /\ svc' = "up"
  /\ LET toRun == {m \in Runner : msg[m].phase = "queued_local"}
     IN  /\ \E q \in SetToSeqs(toRun) : InCreationOrder(q) /\ pending' = q
         /\ inFlight' = toRun
  /\ Compact([m \in Msgs |-> Recovered(msg[m])], admission)
  /\ UNCHANGED <<audit, exec, receipt, view, admittedAgo>>

-----------------------------------------------------------------------------
(* Admission: the send_message request.                                    *)

PairCount(p) ==
  Cardinality({m \in Msgs : Pair[m] = p /\ admission[m] # None
                                        /\ admission[m] < PairWindow})

\* notifyAdmission: a job already in flight is not queued twice.
NotifyAdmission(m) ==
  IF m \in Runner /\ m \notin inFlight
  THEN pending' = Append(pending, m) /\ inFlight' = inFlight \cup {m}
  ELSE UNCHANGED <<pending, inFlight>>

\* recordSend of a new message.  The admission row is keyed by the message id,
\* so one that compaction left behind makes the INSERT fail.
SendNew(m) ==
  /\ svc = "up"
  /\ msg[m].phase = "absent"
  /\ PairCount(Pair[m]) < MaxPair
  /\ admission[m] = None
  /\ admittedAgo' = [admittedAgo EXCEPT ![m] = 0]
  /\ NotifyAdmission(m)
  /\ LET rows == [msg EXCEPT ![m] = Queued]
         adm  == [admission EXCEPT ![m] = 0]
     IN  IF m \in Runner
         THEN CompactIfDue(rows, adm)
         ELSE msg' = rows /\ admission' = adm /\ UNCHANGED <<reply, compacted>>
  /\ UNCHANGED <<audit, svc, exec, receipt, view>>

\* recordSend of the same envelope again: only work still queued is notified.
SendDuplicate(m) ==
  /\ svc = "up"
  /\ m \in Runner
  /\ msg[m].phase = "queued_local"
  /\ NotifyAdmission(m)
  /\ IF m \in inFlight THEN UNCHANGED <<msg, reply, admission, compacted>>
                       ELSE CompactIfDue(msg, admission)
  /\ UNCHANGED <<audit, svc, exec, receipt, view, admittedAgo>>

-----------------------------------------------------------------------------
(* The dispatcher.                                                         *)

ActiveRecipients == {Recipient[m] : m \in {x \in Msgs : exec[x] # "idle"}}
ActiveExecutions == {m \in Msgs : exec[m] # "idle"}

\* Mutant: the head of the queue, whether or not its recipient is free.
HeadOfQueue(i) == i = 1 /\ i \in DOMAIN pending

\* The first pending job whose recipient is free.
FirstFree(i) ==
  /\ i \in DOMAIN pending
  /\ Recipient[pending[i]] \notin ActiveRecipients
  /\ \A j \in 1..(i - 1) : Recipient[pending[j]] \in ActiveRecipients

ClaimExecution(m) == msg[m].phase = "queued_local" /\ m \in Runner

\* pump takes a job and executeJob claims it in the same synchronous stretch.
Pump ==
  /\ svc = "up"
  /\ Cardinality(ActiveExecutions) < MaxConcurrent
  /\ \E i \in DOMAIN pending :
       /\ FirstFree(i)
       /\ pending' = RemoveAt(pending, i)
       /\ LET m == pending[i] IN
            \/ /\ ClaimExecution(m)
               /\ msg' = [msg EXCEPT ![m] = Moved(@, "executing")]
               /\ exec' = [exec EXCEPT ![m] = "gated"]
            \/ /\ ~ClaimExecution(m) \/ StorageFaults
               /\ exec' = [exec EXCEPT ![m] = "settled"]
               /\ UNCHANGED msg
  /\ UNCHANGED <<reply, admission, audit, svc, inFlight, compacted, receipt,
                 view, admittedAgo>>

\* Mutant: the gate starts nothing once the service is stopping.
RunnerStartsWhenUp(m) ==
  /\ svc = "up"
  /\ exec[m] = "gated"
  /\ exec' = [exec EXCEPT ![m] = "running"]
  /\ UNCHANGED <<msg, reply, admission, audit, svc, pending, inFlight,
                 compacted, receipt, view, admittedAgo>>

\* The concurrency gate lets the runner start, which arms the timeout.
RunnerStarts(m) ==
  /\ exec[m] = "gated"
  /\ exec' = [exec EXCEPT ![m] = "running"]
  /\ UNCHANGED <<msg, reply, admission, audit, svc, pending, inFlight,
                 compacted, receipt, view, admittedAgo>>

RunnerTimeout(m) ==
  /\ exec[m] = "running"
  /\ exec' = [exec EXCEPT ![m] = "timedOut"]
  /\ UNCHANGED <<msg, reply, admission, audit, svc, pending, inFlight,
                 compacted, receipt, view, admittedAgo>>

Settle(m) ==
  /\ exec' = [exec EXCEPT ![m] = "settled"]
  /\ UNCHANGED <<admission, audit, svc, pending, inFlight, compacted,
                 receipt, view, admittedAgo>>

CanComplete(m) == msg[m].phase = "executing" /\ RepliesTo(m) = {}

\* A completed result in time: completeExecutionWithReply under a fresh reply id.
RunnerCompletes(m, t, r) ==
  /\ exec[m] = "running"
  /\ CanComplete(m)
  /\ reply[r] = None
  /\ reply' = [reply EXCEPT ![r] = NewReply(m, t, FALSE)]
  /\ msg' = [msg EXCEPT ![m] = Moved(@, "completed")]
  /\ Settle(m)

\* recordExecutionFailure touches only queued and executing rows.
RecordExecutionFailure(m) ==
  \/ /\ msg[m].phase \in {"queued_local", "executing"}
     /\ msg' = [msg EXCEPT ![m] = Held(@)]
  \/ /\ msg[m].phase \notin {"queued_local", "executing"} \/ StorageFaults
     /\ UNCHANGED msg

\* The outcome could not be stored: persistence_failure.
PersistFails(m) ==
  /\ \/ exec[m] = "running" /\ ~CanComplete(m)
     \/ exec[m] \in {"running", "timedOut"} /\ StorageFaults
  /\ RecordExecutionFailure(m)
  /\ UNCHANGED reply
  /\ Settle(m)

\* holdExecution has no phase guard: it holds whatever the row is.
HoldExecution(m, text) ==
  msg' = [msg EXCEPT ![m] =
            IF @.phase = "absent" THEN @
            ELSE IF text = None THEN Held(@) ELSE HeldWith(@, text)]

\* A result that comes after the timeout is kept as evidence, never as a reply.
RunnerCompletesLate(m, t) ==
  /\ exec[m] = "timedOut"
  /\ HoldExecution(m, t)
  /\ UNCHANGED reply
  /\ Settle(m)

\* The runner settles with another status.
RunnerUncompleted(m) ==
  /\ exec[m] \in {"running", "timedOut"}
  /\ HoldExecution(m, None)
  /\ UNCHANGED reply
  /\ Settle(m)

\* The runner, or the gate, throws: runtime_error or runner_timeout.
RunnerThrows(m) ==
  /\ exec[m] \in {"gated", "running", "timedOut"}
  /\ RecordExecutionFailure(m)
  /\ UNCHANGED reply
  /\ Settle(m)

\* Mutant: the ended message stays marked in flight.
ExecutionEndsInFlight(m) ==
  /\ exec[m] = "settled"
  /\ exec' = [exec EXCEPT ![m] = "idle"]
  /\ UNCHANGED <<msg, reply, admission, audit, svc, pending, inFlight,
                 compacted, receipt, view, admittedAgo>>

\* Mutant: the recipient of the ended message stays marked active.
ExecutionEndsActive(m) ==
  /\ exec[m] = "settled"
  /\ m \in inFlight
  /\ inFlight' = inFlight \ {m}
  /\ UNCHANGED <<msg, reply, admission, audit, svc, pending, exec, compacted,
                 receipt, view, admittedAgo>>

\* The finally clause of the execution promise.
ExecutionEnds(m) ==
  /\ exec[m] = "settled"
  /\ exec' = [exec EXCEPT ![m] = "idle"]
  /\ inFlight' = inFlight \ {m}
  /\ UNCHANGED <<msg, reply, admission, audit, svc, pending, compacted,
                 receipt, view, admittedAgo>>

-----------------------------------------------------------------------------
(* Stop and crash.                                                         *)

\* server.close has drained its requests; dispatcher.stop drops unclaimed jobs.
Stop ==
  /\ svc = "up"
  /\ svc' = "stopping"
  /\ pending' = <<>>
  /\ inFlight' = inFlight \ Range(pending)
  /\ UNCHANGED <<msg, reply, admission, audit, exec, compacted, receipt, view,
                 admittedAgo>>

\* Mutant: the journal is closed under running executions.
CloseWithoutDrain ==
  /\ svc = "stopping"
  /\ svc' = "down"
  /\ inFlight' = {}
  /\ UNCHANGED <<msg, reply, admission, audit, pending, exec, compacted,
                 receipt, view, admittedAgo>>

\* The journal closes once every started execution has ended.
CloseJournal ==
  /\ svc = "stopping"
  /\ ActiveExecutions = {}
  /\ svc' = "down"
  /\ inFlight' = {}
  /\ UNCHANGED <<msg, reply, admission, audit, pending, exec, compacted,
                 receipt, view, admittedAgo>>

\* The process dies: the dispatcher's memory is gone, the tables stay.
Crash ==
  /\ svc # "down"
  /\ svc' = "down"
  /\ pending' = <<>>
  /\ inFlight' = {}
  /\ exec' = [m \in Msgs |-> "idle"]
  /\ UNCHANGED <<msg, reply, admission, audit, compacted, receipt, view,
                 admittedAgo>>

-----------------------------------------------------------------------------
(* The chat: claim_inbox_message, list_inbox, reply; and the sender.       *)

Interactive == Msgs \ Runner
LeaseExpired(m) == msg[m].phase = "executing" /\ msg[m].lease = 0

\* A claim of a queued message; the response to the chat may be lost.
ClaimInboxMessage(c, m, op, tok) ==
  /\ svc = "up"
  /\ m \in Interactive
  /\ msg[m].phase = "queued_local"
  /\ \A d \in Chats, x \in Msgs : receipt[d][x] # tok
  /\ \A x \in Msgs : msg[x].claim # None => msg[x].claim.token # tok
  /\ msg' = [msg EXCEPT ![m] = [Moved(@, "executing") EXCEPT
               !.claim = [chat |-> c, op |-> op, token |-> tok],
               !.lease = Lease]]
  /\ \/ receipt' = [receipt EXCEPT ![c][m] = tok]
     \/ UNCHANGED receipt
  /\ UNCHANGED <<reply, admission, audit, svc, pending, inFlight, exec,
                 compacted, view, admittedAgo>>

\* The same chat repeats the claim under the same claim id.
RetryClaim(c, m, op) ==
  /\ svc = "up"
  /\ m \in Interactive
  /\ msg[m].phase = "executing" /\ ~LeaseExpired(m)
  /\ msg[m].claim.chat = c /\ msg[m].claim.op = op
  /\ receipt' = [receipt EXCEPT ![c][m] = msg[m].claim.token]
  /\ UNCHANGED <<msg, reply, admission, audit, svc, pending, inFlight, exec,
                 compacted, view, admittedAgo>>

\* Listing the inbox, or claiming it, holds expired claims.
ReapExpired(m) ==
  /\ svc = "up"
  /\ m \in Interactive
  /\ LeaseExpired(m)
  /\ msg' = [msg EXCEPT ![m] = Held(@)]
  /\ UNCHANGED <<reply, admission, audit, svc, pending, inFlight, exec,
                 compacted, receipt, view, admittedAgo>>

\* Mutant: any claim token passes.
HoldsAnyClaim(c, m) == msg[m].claim # None /\ receipt[c][m] # None

HoldsClaim(c, m) ==
  /\ msg[m].claim # None
  /\ msg[m].claim.chat = c
  /\ receipt[c][m] # None
  /\ msg[m].claim.token = receipt[c][m]

AcceptsReply(m) == msg[m].phase = "executing" /\ ~LeaseExpired(m)

\* recordInteractiveReply: the claim tuple first, then the phase.
ChatReply(c, m, t, r) ==
  /\ svc = "up"
  /\ m \in Interactive
  /\ HoldsClaim(c, m)
  /\ \/ /\ AcceptsReply(m)
        /\ reply[r] = None
        /\ reply' = [reply EXCEPT ![r] = NewReply(m, t, FALSE)]
        /\ msg' = [msg EXCEPT ![m] = Moved(@, "completed")]
     \/ /\ msg[m].phase = "held" \/ LeaseExpired(m)
        /\ msg' = [msg EXCEPT ![m] = HeldWith(@, t)]
        /\ UNCHANGED reply
  /\ UNCHANGED <<admission, audit, svc, pending, inFlight, exec, compacted,
                 receipt, view, admittedAgo>>

ConsumeReply(r) ==
  /\ svc = "up"
  /\ reply[r] # None
  /\ reply' = [reply EXCEPT ![r] = [@ EXCEPT !.consumed = TRUE, !.age = 0]]
  /\ UNCHANGED <<msg, admission, audit, svc, pending, inFlight, exec,
                 compacted, receipt, view, admittedAgo>>

-----------------------------------------------------------------------------
(* The owner: offline, under the journal's exclusive lock.                 *)

\* heldView / reconcileVersion: what the owner decides from.  updated_at stands
\* here as its age; ages saturate, so the model lets a very old view pass more
\* often than the code does.
VersionOf(m) == [of |-> m, late |-> msg[m].late, replies |-> RepliesTo(m),
                 age |-> msg[m].age]

ListHeld(m) ==
  /\ svc = "down"
  /\ msg[m].phase = "held"
  /\ view' = VersionOf(m)
  /\ UNCHANGED <<msg, reply, admission, audit, svc, pending, inFlight, exec,
                 compacted, receipt, admittedAgo>>

\* Mutant: the record may have changed since it was listed.
ReconcilableUnseen(m, action) ==
  /\ msg[m].phase = "held"
  /\ view # None /\ view.of = m
  /\ CASE action = "accept-late-result" -> RepliesTo(m) = {} /\ msg[m].late # None
       [] action = "mark-failed"        -> RepliesTo(m) = {}
       [] action = "mark-completed"     -> RepliesTo(m) # {}

\* checkReconcileRecord for an action that names the version it saw.
Reconcilable(m, action) ==
  /\ msg[m].phase = "held"
  /\ view = VersionOf(m)
  /\ CASE action = "accept-late-result" -> RepliesTo(m) = {} /\ msg[m].late # None
       [] action = "mark-failed"        -> RepliesTo(m) = {}
       [] action = "mark-completed"     -> RepliesTo(m) # {}

Closed(row, phase) == [Moved(row, phase) EXCEPT !.late = None]

\* The precheck passed, so the open holds every executing row, and the record,
\* its audit row and any reply commit together.
Reconcile(id, m, action, r) ==
  /\ svc = "down"
  /\ audit[id] = None
  /\ Reconcilable(m, action)
  /\ audit' = [audit EXCEPT ![id] = [of |-> m, action |-> action]]
  /\ msg' = [x \in Msgs |->
               IF x # m THEN Recovered(msg[x])
               ELSE Closed(msg[m], IF action = "mark-failed" THEN "failed"
                                                             ELSE "completed")]
  /\ IF action = "accept-late-result"
     THEN reply[r] = None /\ reply' = [reply EXCEPT ![r] = NewReply(m, msg[m].late, TRUE)]
     ELSE UNCHANGED reply
  /\ UNCHANGED <<admission, svc, pending, inFlight, exec, compacted, receipt,
                 view, admittedAgo>>

-----------------------------------------------------------------------------
\* Time passes for every timestamp at once.  The finally clause of a settled
\* execution is a microtask: it runs before the clock can be seen to move.
Tick ==
  /\ \A m \in Msgs : exec[m] # "settled"
  /\ msg' = [m \in Msgs |->
               [msg[m] EXCEPT !.age = IF msg[m].phase = "absent" THEN 0
                                      ELSE Older(@, Retention),
                              !.lease = IF msg[m].phase = "executing" /\ @ > 0
                                        THEN @ - 1 ELSE @]]
  /\ reply' = [r \in ReplyIds |->
                 IF reply[r] = None THEN None
                 ELSE [reply[r] EXCEPT !.age = Older(@, Retention)]]
  /\ admission' = [m \in Msgs |-> IF admission[m] = None THEN None
                                  ELSE Older(admission[m], Horizon)]
  /\ admittedAgo' = [m \in Msgs |-> Older(admittedAgo[m], PairWindow)]
  /\ compacted' = Older(compacted, CompactInterval)
  /\ view' = IF view = None THEN None ELSE [view EXCEPT !.age = Older(@, Retention)]
  /\ UNCHANGED <<audit, svc, pending, inFlight, exec, receipt>>

LegacyReplies == [Legacy -> ReplyIds]

\* An empty journal, or one an older build left: held rows whose reply it stored.
Init ==
  /\ \E f \in LegacyReplies, t \in Texts :
       /\ \A a, b \in Legacy : f[a] = f[b] => a = b
       /\ reply = [r \in ReplyIds |->
                     IF \E m \in Legacy : f[m] = r
                     THEN NewReply(CHOOSE m \in Legacy : f[m] = r, t, FALSE)
                     ELSE None]
  /\ msg = [m \in Msgs |-> IF m \in Legacy THEN Held(Queued) ELSE Absent]
  /\ admission = [m \in Msgs |-> None]
  /\ audit = [id \in ReconcileIds |-> None]
  /\ svc = "down"
  /\ pending = <<>>
  /\ inFlight = {}
  /\ exec = [m \in Msgs |-> "idle"]
  /\ compacted = 0
  /\ receipt = [c \in Chats |-> [m \in Msgs |-> None]]
  /\ view = None
  /\ admittedAgo = [m \in Msgs |-> PairWindow]

DispatcherStep(m) ==
  \/ RunnerStarts(m)
  \/ RunnerTimeout(m)
  \/ \E t \in Texts, r \in ReplyIds : RunnerCompletes(m, t, r)
  \/ \E t \in Texts : RunnerCompletesLate(m, t)
  \/ PersistFails(m)
  \/ RunnerUncompleted(m)
  \/ RunnerThrows(m)
  \/ ExecutionEnds(m)

ChatStep(c) ==
  \/ \E m \in Msgs, op \in Ops, tok \in Tokens : ClaimInboxMessage(c, m, op, tok)
  \/ \E m \in Msgs, op \in Ops : RetryClaim(c, m, op)
  \/ \E m \in Msgs, t \in Says[c], r \in ReplyIds : ChatReply(c, m, t, r)

OwnerStep ==
  \/ \E m \in Msgs : ListHeld(m)
  \/ \E id \in ReconcileIds, m \in Msgs, a \in Actions, r \in ReplyIds :
       Reconcile(id, m, a, r)

Next ==
  \/ OpenJournal
  \/ DispatcherStart
  \/ \E m \in Msgs : SendNew(m)
  \/ \E m \in Msgs : SendDuplicate(m)
  \/ Pump
  \/ \E m \in Msgs : DispatcherStep(m)
  \/ Stop
  \/ CloseJournal
  \/ Crash
  \/ \E c \in Chats : ChatStep(c)
  \/ \E m \in Msgs : ReapExpired(m)
  \/ \E r \in ReplyIds : ConsumeReply(r)
  \/ OwnerStep
  \/ Tick

Spec == Init /\ [][Next]_vars
-----------------------------------------------------------------------------
(* Properties.                                                             *)

\* The rows, the dispatcher's memory and the evidence are well formed.
TypeOK ==
  /\ msg \in [Msgs -> Row]
  /\ reply \in [ReplyIds -> ReplyRow \cup {None}]
  /\ admission \in [Msgs -> 0..Horizon \cup {None}]
  /\ audit \in [ReconcileIds -> Decision \cup {None}]
  /\ svc \in {"down", "opened", "up", "stopping"}
  /\ pending \in Seq(Msgs)
  /\ inFlight \in SUBSET Msgs
  /\ exec \in [Msgs -> {"idle", "gated", "running", "timedOut", "settled"}]
  /\ compacted \in 0..CompactInterval
  /\ receipt \in [Chats -> [Msgs -> Tokens \cup {None}]]
  /\ view \in View \cup {None}
  /\ admittedAgo \in [Msgs -> 0..PairWindow]

\* While the dispatcher is executing a message its row is executing, so that
\* holdExecution, which has no phase guard, never takes back a finished row.
ExecutorOwnsRow ==
  \A m \in Msgs : exec[m] \in {"gated", "running", "timedOut"} =>
                     m \in Runner /\ msg[m].phase = "executing"

\* What stands as the chat's answer, or as its late result, was written by the
\* chat that holds the claim: not by a replaced chat, nor for an earlier
\* admission of the same message id.
ClaimantSpeaks ==
  \A m \in Interactive \ Legacy :
    LET author == msg[m].claim.chat IN
      /\ msg[m].late # None =>
           msg[m].claim # None /\ msg[m].late \in Says[author]
      /\ \A r \in RepliesTo(m) :
           msg[m].claim # None /\ reply[r].text \in Says[author]

\* One execution per recipient, and never more than MaxConcurrent.
ExecutionBound ==
  /\ Cardinality(ActiveExecutions) <= MaxConcurrent
  /\ \A a, b \in ActiveExecutions : Recipient[a] = Recipient[b] => a = b

\* While the service is up every queued request for a worker is in the
\* dispatcher's queue, whatever crashes, stops and retried sends came before.
NoLostWork ==
  svc = "up" /\ ~StorageFaults =>
    \A m \in Runner : msg[m].phase = "queued_local" => m \in Range(pending)

\* No more than MaxPair requests of a pair are admitted within a window:
\* compaction never removes the evidence the limit counts.
PairBound ==
  \A m \in Msgs :
    Cardinality({x \in Msgs : Pair[x] = Pair[m] /\ admittedAgo[x] < PairWindow})
      <= MaxPair

\* The limits of local work: one execution per recipient, at most
\* MaxConcurrent, and never more admissions of a pair within its window than
\* the evidence kept by compaction allows; rows and memory stay well formed.
LimitsHold == TypeOK /\ ExecutionBound /\ PairBound

\* A late result becomes a reply only as the very text the owner reviewed.
AcceptedTextWasReviewed ==
  [][\A r \in ReplyIds :
       reply[r] = None /\ reply'[r] # None /\ reply'[r].owner =>
         view # None /\ view.of = reply'[r].of /\ view.late = reply'[r].text]_vars

\* The journal and the dispatcher together implement the promise of Exchange.
PhaseOf == [m \in Msgs |-> msg[m].phase]
AnswersTo == [m \in Msgs |->
  {[text |-> reply[r].text, owner |-> reply[r].owner, read |-> reply[r].consumed] :
     r \in RepliesTo(m)}]
Promise == INSTANCE Exchange WITH phase <- PhaseOf, answers <- AnswersTo
KeepsPromise == Promise!ExchangeSpec

-----------------------------------------------------------------------------
(* Liveness.  The event loop runs what is scheduled; a started runner       *)
(* settles, because its timeout aborts it.  Nothing is assumed of senders,  *)
(* chats, the owner, or of how often the process stops or crashes.          *)

Settles(m) ==
  \/ \E t \in Texts, r \in ReplyIds : RunnerCompletes(m, t, r)
  \/ \E t \in Texts : RunnerCompletesLate(m, t)
  \/ PersistFails(m)
  \/ RunnerUncompleted(m)
  \/ RunnerThrows(m)

Fairness ==
  /\ WF_vars(Pump)
  /\ WF_vars(CloseJournal)
  /\ \A m \in Msgs : /\ WF_vars(RunnerStarts(m))
                      /\ WF_vars(exec[m] # "gated" /\ Settles(m))
                      /\ WF_vars(ExecutionEnds(m))

FairSpec == Spec /\ Fairness

\* If the service eventually stays up, every queued request for a worker is
\* started.
QueuedWorkStarts ==
  (<>[](svc = "up")) =>
     \A m \in Runner : []<>(msg[m].phase # "queued_local")

\* Stopping ends: the executions it waits for all settle.
StopCompletes == (svc = "stopping") ~> (svc = "down")

\* The dispatcher neither starves a queued request nor hangs its own stop,
\* however executions time out, fail to persist or are recovered.
WorkMoves == QueuedWorkStarts /\ StopCompletes
=============================================================================
