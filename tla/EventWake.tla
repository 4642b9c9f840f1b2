------------------------------ MODULE EventWake ------------------------------
(***************************************************************************)
(* The event-driven wake runtime of the client supervisor: a listener polls *)
(* MESH for high watermarks, fans them out to the profile scheduler and     *)
(* then keeps its cursor; the scheduler drains each profile's mailbox, one  *)
(* message a turn, under the reasoning gate.                                *)
(***************************************************************************)
EXTENDS Naturals, FiniteSets, Sequences

CONSTANTS
  Profiles,    \* profiles of the installation
  Foreign,     \* an agent of the grant that this supervisor does not serve
  FirstMark,   \* MESH's first watermark
  Places,      \* of the reasoning gate
  MaxMail,     \* bound: events of MESH
  MaxFaults,   \* bound: failed polls and failed turns
  MaxCrashes   \* bound: the supervisor is started again

\* A scheduler that starts without a cursor takes 1 for the watermark it has
\* seen: the first one of MESH is above it.
EventAssumption == Foreign \notin Profiles /\ FirstMark \in Nat /\ FirstMark > 1

VARIABLES
  mail,        \* per profile: unread messages at the mailbox
  stream,      \* MESH's events, a sequence of agents
  cursor,      \* wake-cursor.json
  listener,    \* start, settle, watch, coalesce, failed
  pending,     \* events read and not yet fanned out: a watermark per profile
  sched,       \* the scheduler's state per profile
  stopped,     \* the scheduler's signal is aborted
  faults, crashes

wakeVars == <<mail, stream, cursor, listener, pending, sched, stopped, faults, crashes>>

Bigger(a, b) == IF a > b THEN a ELSE b

Tip == IF stream = << >> THEN 0 ELSE FirstMark + Len(stream) - 1

\* The watermarks of agent p above the cursor.
News(p) == {k \in (cursor + 1)..Tip : k >= FirstMark /\ stream[k + 1 - FirstMark] = p}

Highest(S) == IF S = {} THEN 0 ELSE CHOOSE k \in S : \A j \in S : j <= k

Resting == [pc |-> "idle", dirty |-> FALSE, high |-> 0, last |-> 0, seen |-> 0]

WakeInit ==
  /\ mail \in [Profiles -> 0..1] /\ stream = << >> /\ cursor = 0
  /\ listener = "start" /\ pending = [p \in Profiles |-> 0]
  /\ sched = [p \in Profiles |-> Resting] /\ stopped = FALSE /\ faults = 0 /\ crashes = 0

-----------------------------------------------------------------------------
(* createProfileScheduler.  The queue is pumped as soon as it holds an id:  *)
(* a profile is idle or its runState is under way.                          *)

Woken(s, mark) ==
  [s EXCEPT !.high = Bigger(s.high, mark), !.dirty = s.dirty \/ s.pc # "idle",
            !.pc = IF s.pc = "idle" THEN "due" ELSE s.pc]

\* startup_reconcile without a cursor has no watermark to compare.
Restarted(s, mark) == Woken(s, IF mark = 0 THEN s.last + 1 ELSE mark)

\* submitWake for every profile of P at once; a stopped scheduler ignores it.
SubmitWakes(P, woken) ==
  sched' = [p \in Profiles |-> IF stopped \/ p \notin P THEN sched[p] ELSE woken[p]]

\* The finally of runState: a dirty profile goes round again.
Ended(s) ==
  [s EXCEPT !.dirty = IF stopped THEN s.dirty ELSE FALSE,
            !.pc = IF s.dirty /\ ~stopped THEN "due" ELSE "idle"]

Begin(p) ==
  /\ sched[p].pc = "due"
  /\ sched' = [sched EXCEPT ![p] = IF stopped THEN Ended(@) ELSE [@ EXCEPT !.seen = sched[p].high, !.pc = "gate"]]
  /\ UNCHANGED <<mail, stream, cursor, listener, pending, stopped, faults, crashes>>

Enter(p) ==
  /\ sched[p].pc = "gate" /\ Cardinality({q \in Profiles : sched[q].pc \in {"list", "empty", "run"}}) < Places
  /\ sched' = [sched EXCEPT ![p] = IF stopped \/ @.seen <= @.last THEN Ended(@) ELSE [@ EXCEPT !.pc = "list"]]
  /\ UNCHANGED <<mail, stream, cursor, listener, pending, stopped, faults, crashes>>

\* preflight: what the mailbox held when it was asked.
Preflight(p) ==
  /\ sched[p].pc = "list" /\ ~stopped
  /\ sched' = [sched EXCEPT ![p].pc = IF mail[p] = 0 THEN "empty" ELSE "run"]
  /\ UNCHANGED <<mail, stream, cursor, listener, pending, stopped, faults, crashes>>

\* Mutant: every watermark heard of meanwhile counts as reconciled.
Reconciled_Now(s) == [s EXCEPT !.last = s.high]

Reconciled(s) == [s EXCEPT !.last = s.seen]

Nothing(p) ==
  /\ sched[p].pc = "empty"
  /\ sched' = [sched EXCEPT ![p] = Ended(Reconciled(@))]
  /\ UNCHANGED <<mail, stream, cursor, listener, pending, stopped, faults, crashes>>

\* One message is answered and acknowledged; there may be more.
Drain(p) ==
  /\ sched[p].pc = "run" /\ ~stopped
  /\ mail' = [mail EXCEPT ![p] = IF @ = 0 THEN 0 ELSE @ - 1]
  /\ sched' = [sched EXCEPT ![p] = Ended(IF mail[p] = 0 THEN Reconciled(@) ELSE [@ EXCEPT !.dirty = TRUE])]
  /\ UNCHANGED <<stream, cursor, listener, pending, stopped, faults, crashes>>

\* The mailbox cannot be read, the claim is another's or the runner fails.
DrainFails(p) ==
  /\ sched[p].pc \in {"list", "run"} /\ (stopped \/ faults < MaxFaults)
  /\ faults' = IF stopped THEN faults ELSE faults + 1
  /\ sched' = [sched EXCEPT ![p] = Ended([sched[p] EXCEPT !.dirty = sched[p].dirty \/ ~stopped])]
  /\ UNCHANGED <<mail, stream, cursor, listener, pending, stopped, crashes>>

Idle == \A p \in Profiles : sched[p].pc = "idle"

-----------------------------------------------------------------------------
(* createWakeClient and createWakeRuntime.                                  *)

ReconcileStartup ==
  /\ listener = "start" /\ listener' = "settle"
  /\ SubmitWakes(Profiles, [p \in Profiles |-> Restarted(sched[p], cursor)])
  /\ UNCHANGED <<mail, stream, cursor, pending, stopped, faults, crashes>>

Settled ==
  /\ listener = "settle" /\ Idle /\ listener' = "watch"
  /\ UNCHANGED <<mail, stream, cursor, pending, sched, stopped, faults, crashes>>

\* Matching events wait for the coalescing timer; other batches move the cursor.
Poll ==
  /\ listener = "watch"
  /\ pending' = [p \in Profiles |-> Bigger(pending[p], Highest(News(p)))]
  /\ IF \E p \in Profiles : News(p) # {} THEN listener' = "coalesce" /\ UNCHANGED cursor
     ELSE Tip > cursor /\ cursor' = Tip /\ UNCHANGED listener
  /\ UNCHANGED <<mail, stream, sched, stopped, faults, crashes>>

Flush ==
  /\ listener = "coalesce" /\ listener' = "watch"
  /\ SubmitWakes({p \in Profiles : pending[p] > 0}, [p \in Profiles |-> Woken(sched[p], pending[p])])
  /\ cursor' = Highest({pending[p] : p \in Profiles})
  /\ pending' = [p \in Profiles |-> 0]
  /\ UNCHANGED <<mail, stream, stopped, faults, crashes>>

\* MESH no longer holds the events after the cursor.
Resync ==
  /\ listener = "watch" /\ Tip > cursor
  /\ SubmitWakes(Profiles, [p \in Profiles |-> Woken(sched[p], Tip)]) /\ cursor' = Tip
  /\ UNCHANGED <<mail, stream, listener, pending, stopped, faults, crashes>>

\* The poll, or the write of the cursor, fails: start()'s finally ends the scheduler.
WatchFails ==
  /\ listener \in {"watch", "coalesce"} /\ faults < MaxFaults /\ faults' = faults + 1
  /\ stopped' = TRUE /\ listener' = "failed"
  /\ IF listener = "watch" THEN UNCHANGED <<pending, sched>>
     ELSE /\ SubmitWakes({p \in Profiles : pending[p] > 0}, [p \in Profiles |-> Woken(sched[p], pending[p])])
          /\ pending' = [p \in Profiles |-> 0]
  /\ UNCHANGED <<mail, stream, cursor, crashes>>

\* runDurableWakeLoop starts the same runtime again after its delay.
Retry ==
  /\ listener = "failed" /\ Idle /\ listener' = "start"
  /\ UNCHANGED <<mail, stream, cursor, pending, sched, stopped, faults, crashes>>

\* The supervisor dies and is started again: only the cursor is kept.
Crash ==
  /\ crashes < MaxCrashes /\ crashes' = crashes + 1
  /\ listener' = "start" /\ stopped' = FALSE
  /\ pending' = [p \in Profiles |-> 0] /\ sched' = [p \in Profiles |-> Resting]
  /\ UNCHANGED <<mail, stream, cursor, faults>>

-----------------------------------------------------------------------------
(* MESH and the mailboxes.                                                  *)

Arrives(p) ==
  /\ Len(stream) < MaxMail /\ stream' = Append(stream, p) /\ mail' = [mail EXCEPT ![p] = @ + 1]
  /\ UNCHANGED <<cursor, listener, pending, sched, stopped, faults, crashes>>

ArrivesElsewhere ==
  /\ Len(stream) < MaxMail /\ stream' = Append(stream, Foreign)
  /\ UNCHANGED <<mail, cursor, listener, pending, sched, stopped, faults, crashes>>

\* Another claimer of the principal takes a message.
HandledElsewhere(p) ==
  /\ mail[p] > 0 /\ sched[p].pc = "run" /\ mail' = [mail EXCEPT ![p] = @ - 1]
  /\ UNCHANGED <<stream, cursor, listener, pending, sched, stopped, faults, crashes>>

Turn(p) == Begin(p) \/ Enter(p) \/ Preflight(p) \/ Nothing(p) \/ Drain(p) \/ (stopped /\ DrainFails(p))

Listens == ReconcileStartup \/ Settled \/ Poll \/ Flush \/ Retry

WakeNext ==
  \/ Listens \/ Resync \/ WatchFails \/ Crash \/ ArrivesElsewhere
  \/ \E p \in Profiles : Turn(p) \/ DrainFails(p) \/ Arrives(p) \/ HandledElsewhere(p)

(* The loop retries until it is told to stop; turns end; the gate is FIFO. *)
WakeSpec ==
  /\ WakeInit /\ [][WakeNext]_wakeVars
  /\ WF_wakeVars(Listens) /\ \A p \in Profiles : SF_wakeVars(Turn(p))

-----------------------------------------------------------------------------
(* Mail whose event the listener has left behind is with the scheduler: a  *)
(* wake during a turn, an empty preflight that raced an arrival, a batch of *)
(* another agent, a resync and a crash after the cursor was kept lose none. *)
NoForgottenMail ==
  \A p \in Profiles :
    listener = "watch" /\ ~stopped /\ News(p) = {} /\ sched[p].pc = "idle" => mail[p] = 0

(* "Network notifications are hints only: reconcile the durable mailbox on *)
(* startup, reconnect, cursor expiry/resync, and coalesced wakes": the mail *)
(* of a profile is drained however often the listener has to be restarted.  *)
MailReachesDrain ==
  \A p \in Profiles : mail[p] > 0 ~> mail[p] = 0
=============================================================================
