----------------------------- MODULE SessionWake -----------------------------
(***************************************************************************)
(* Custody of one discovered chat session and the wake hints sent to it.   *)
(*                                                                         *)
(* An MCP child (claude-session-mcp-child.mjs) runs beside the chat,       *)
(* attaches to the session's address with a lease it renews, reserves a    *)
(* wake when something is owed, delivers the hint itself and reports what  *)
(* happened; the chat acknowledges.  The supervisor checks each request    *)
(* (createWorkspaceSessionBroker) and keeps the attachment and the wake    *)
(* binding in the journal.  Children are replaced, sessions end and resume *)
(* as a new generation, and requests are late or lost.                     *)
(*                                                                         *)
(* A request is handled in one run of the event loop: everything it awaits *)
(* is already there, so it is one step here.  attach writes two tables in  *)
(* two transactions, between which the process may die.                    *)
(***************************************************************************)
EXTENDS SessionLifecycle, FiniteSets

CONSTANTS
  Children,   \* MCP children (childId = bindingId)
  Relearns,   \* children that forget their generation when fenced (Codex)
  Wakes,      \* reservation ids (random, never reused)
  Items,      \* obligation items
  MaxGen,     \* bound on the runs explored
  None        \* no child, no wake

\* What the constants are assumed to be.
ASSUME SessionWakeAssumption ==
  /\ MaxGen \in Nat \ {0}
  /\ Relearns \subseteq Children
  /\ None \notin Children \cup Wakes

VARIABLES
  up,        \* the supervisor serves requests
  att,       \* local_session_attachments: child, generation, lease alive
  bind,      \* local_wake_bindings: child, generation, delivery state, ...
  hist,      \* local_interactive_wake_history of this binding
  rested,    \* the minimum interval since the last submission has passed
  items,     \* what the session is owed
  pinned,    \* generation each child has pinned, 0 before it attached
  cred,      \* generation of the credential each child holds, 0 for none
  job,       \* the reservation each child is delivering
  dead,      \* children that have ended
  reports,   \* report_wake_result requests under way
  acks,      \* ack_notification requests under way
  used,      \* reservation ids drawn
  sent,      \* history: hints put before the chat, with their generation
  done       \* history: wakes acknowledged

tables == <<att, bind, hist, rested>>
child == <<pinned, cred, job, dead>>
flight == <<reports, acks>>
ghost == <<used, sent, done>>
vars == <<life, gen, fresh, up, att, bind, hist, rested, items, pinned, cred,
          job, dead, reports, acks, used, sent, done>>

NoPrint == [set |-> FALSE, items |-> {}]
Snapshot(s) == [set |-> TRUE, items |-> s]
Covered(current, acked) == acked.set /\ current \subseteq acked.items

NoAtt == [child |-> None, gen |-> 0, live |-> FALSE]
NoBind == [child |-> None, gen |-> 0, state |-> "idle", wake |-> None,
           print |-> NoPrint, ack |-> NoPrint]
NoJob == [wake |-> None, gen |-> 0]

-----------------------------------------------------------------------------
(* The lifecycle of the session, as the directory keeps it.                *)

\* Forgetting a session takes the retention time, when no credential or lease
\* of it is left; it is not explored here.
Lifecycle ==
  /\ up
  /\ \/ Appear \/ Finish \/ Relist
     \/ gen < MaxGen /\ Resume
  /\ UNCHANGED <<fresh, up, tables, items, child, flight, ghost>>

\* The row is evicted: pruneOrphanedSessionState deletes what hangs on it.
Prune ==
  /\ up
  /\ Evict
  /\ att' = NoAtt
  /\ bind' = NoBind
  /\ hist' = {}
  /\ UNCHANGED <<fresh, up, rested, items, child, flight, ghost>>

-----------------------------------------------------------------------------
(* Attaching.                                                              *)

\* Mutant: a lease protects its child for ever.
BusyForever(c) == att.child \notin {None, c}

\* attachment_busy: another child's lease is alive.
Busy(c) == att.live /\ att.child # c

MayAttach(c) ==
  /\ up /\ c \notin dead
  /\ life = "observed"
  /\ pinned[c] \in {0, gen}
  /\ ~Busy(c)

\* Mutant: a new child always finds the old delivery state.
AlwaysInherits(c) ==
  IF bind.child = None
  THEN [child |-> c, gen |-> gen, state |-> "idle", wake |-> None,
        print |-> NoPrint, ack |-> NoPrint]
  ELSE [child |-> c, gen |-> gen, state |-> bind.state, wake |-> bind.wake,
        print |-> bind.print, ack |-> bind.ack]

\* Mutant: a new child starts with a clean delivery state.
NeverInherits(c) ==
  [child |-> c, gen |-> gen, state |-> "idle", wake |-> None,
   print |-> NoPrint, ack |-> bind.ack]

\* Mutant: within a run the binding keeps the first child.
BoundToFirst(c) ==
  IF bind.child # None /\ bind.gen = gen THEN bind
  ELSE [child |-> c, gen |-> gen, state |-> "idle", wake |-> None,
        print |-> NoPrint, ack |-> bind.ack]

\* bindAttachedSessionWake: a replacement child in the same run inherits the
\* delivery state, a new run starts idle.  What was acknowledged carries over.
Bound(c) ==
  IF bind.child # None /\ bind.gen = gen
  THEN [child |-> c, gen |-> gen, state |-> bind.state, wake |-> bind.wake,
        print |-> bind.print, ack |-> bind.ack]
  ELSE [child |-> c, gen |-> gen, state |-> "idle", wake |-> None,
        print |-> NoPrint, ack |-> bind.ack]

\* The wake history follows the binding within a run.
HistoryKept == IF bind.gen = gen THEN hist ELSE {}

\* attach_session; the grant may be lost on its way to the child.
Attach(c) ==
  /\ MayAttach(c)
  /\ att' = [child |-> c, gen |-> gen, live |-> TRUE]
  /\ bind' = Bound(c)
  /\ hist' = HistoryKept
  /\ \/ /\ cred' = [cred EXCEPT ![c] = gen]
        /\ pinned' = [pinned EXCEPT ![c] = gen]
     \/ UNCHANGED <<cred, pinned>>
  /\ UNCHANGED <<life, gen, fresh, up, rested, items, job, dead, flight, ghost>>

\* Opening the journal leaves a submission uncertain.
Recovered(b) ==
  [b EXCEPT !.state = IF b.state = "submitting" THEN "uncertain" ELSE b.state]

Disconnect ==
  /\ up' = FALSE
  /\ cred' = [c \in Children |-> 0]
  /\ reports' = {} /\ acks' = {}

\* The supervisor dies between the two writes of an attach.
AttachInterrupted(c) ==
  /\ MayAttach(c)
  /\ att' = [child |-> c, gen |-> gen, live |-> TRUE]
  /\ Disconnect
  /\ UNCHANGED <<life, gen, fresh, bind, hist, rested, items, pinned, job,
                 dead, ghost>>

\* session_fenced: the session runs under another generation by now.
AttachFenced(c) ==
  /\ up /\ c \in Relearns \ dead
  /\ life = "observed"
  /\ pinned[c] \notin {0, gen}
  /\ pinned' = [pinned EXCEPT ![c] = 0]
  /\ cred' = [cred EXCEPT ![c] = 0]
  /\ UNCHANGED <<life, gen, fresh, up, tables, items, job, dead, flight, ghost>>

LeaseExpires ==
  /\ att.live
  /\ att' = [att EXCEPT !.live = FALSE]
  /\ UNCHANGED <<life, gen, fresh, up, bind, hist, rested, items, child, flight,
                 ghost>>

-----------------------------------------------------------------------------
(* Requests of a child.                                                    *)

\* validateRequest: who holds the attachment of the current run.
Validates(c, g) ==
  /\ up
  /\ life = "observed"
  /\ att.live /\ att.gen = gen
  /\ att.child = c
  /\ g = gen

\* The fences of the transaction itself.
Fenced(c, g) == bind.child # c \/ bind.gen # g

\* reserve_wake_notification; the answer may be lost.
Reserve(c, w) ==
  /\ c \notin dead /\ job[c] = NoJob
  /\ cred[c] > 0
  /\ Validates(c, cred[c]) /\ ~Fenced(c, cred[c])
  /\ w \notin used
  /\ bind.state = "idle"
  /\ rested
  /\ items # {} /\ ~Covered(items, bind.ack)
  /\ bind' = [bind EXCEPT !.state = "submitting", !.wake = w,
                          !.print = Snapshot(items)]
  /\ hist' = hist \cup {w}
  /\ rested' = FALSE
  /\ used' = used \cup {w}
  /\ \/ job' = [job EXCEPT ![c] = [wake |-> w, gen |-> gen]]
     \/ UNCHANGED job
  /\ UNCHANGED <<life, gen, fresh, up, att, items, pinned, cred, dead, flight,
                 sent, done>>

Hint(c) == [wake |-> job[c].wake, gen |-> job[c].gen]
Report(c, result) ==
  [child |-> c, gen |-> job[c].gen, wake |-> job[c].wake, result |-> result]

\* delivery.notify, then report_wake_result, which may be lost.
Deliver(c) ==
  /\ job[c] # NoJob
  /\ job' = [job EXCEPT ![c] = NoJob]
  /\ \/ /\ sent' = sent \cup {Hint(c)}
        /\ \E result \in {"accepted", "uncertain"} :
             reports' \in {reports, reports \cup {Report(c, result)}}
     \/ /\ UNCHANGED sent
        /\ reports' \in {reports, reports \cup {Report(c, "uncertain")}}
  /\ UNCHANGED <<life, gen, fresh, up, tables, items, pinned, cred, dead, acks,
                 used, done>>

\* Mutant: a report is applied to whatever wake is active.
ReportsAny(m) == Validates(m.child, m.gen) /\ ~Fenced(m.child, m.gen)

\* Only the active wake; one already acknowledged is left alone.
ReportApplies(m) ==
  /\ Validates(m.child, m.gen) /\ ~Fenced(m.child, m.gen)
  /\ bind.wake = m.wake

\* reportInteractiveWakeResult; a refused report is dropped by the child.
HandleReport(m) ==
  /\ up /\ m \in reports
  /\ reports' = reports \ {m}
  /\ IF ReportApplies(m)
     THEN bind' = [bind EXCEPT !.state = IF m.result = "accepted"
                                         THEN "accepted_awaiting_ack"
                                         ELSE "uncertain"]
     ELSE UNCHANGED bind
  /\ UNCHANGED <<life, gen, fresh, up, att, hist, rested, items, child, acks,
                 ghost>>

\* The chat acknowledges a hint it was shown, through its child of the moment.
SendAck(c, w) ==
  /\ up /\ c \notin dead /\ cred[c] > 0
  /\ \E h \in sent : h.wake = w
  /\ acks' = acks \cup {[child |-> c, gen |-> cred[c], wake |-> w]}
  /\ UNCHANGED <<life, gen, fresh, up, tables, items, child, reports, ghost>>

AckApplies(m) ==
  /\ Validates(m.child, m.gen) /\ ~Fenced(m.child, m.gen)
  /\ bind.wake = m.wake

\* ackInteractiveWake: an acknowledgement of any other wake is a duplicate or
\* refused, and changes nothing.
HandleAck(m) ==
  /\ up /\ m \in acks
  /\ acks' = acks \ {m}
  /\ IF AckApplies(m)
     THEN /\ bind' = [child |-> bind.child, gen |-> bind.gen, state |-> "idle",
                      wake |-> None, print |-> NoPrint, ack |-> bind.print]
          /\ done' = done \cup {m.wake}
     ELSE UNCHANGED <<bind, done>>
  /\ UNCHANGED <<life, gen, fresh, up, att, hist, rested, items, child, reports,
                 used, sent>>

\* close: nothing is left in flight, then detach_session, which may be lost.
Close(c) ==
  /\ c \notin dead /\ job[c] = NoJob
  /\ dead' = dead \cup {c}
  /\ \/ up /\ att.child = c /\ att' = [att EXCEPT !.live = FALSE]
     \/ UNCHANGED att
  /\ UNCHANGED <<life, gen, fresh, up, bind, hist, rested, items, pinned, cred,
                 job, flight, ghost>>

Die(c) ==
  /\ c \notin dead
  /\ dead' = dead \cup {c}
  /\ job' = [job EXCEPT ![c] = NoJob]
  /\ UNCHANGED <<life, gen, fresh, up, tables, items, pinned, cred, flight,
                 ghost>>

-----------------------------------------------------------------------------
Crash ==
  /\ up
  /\ Disconnect
  /\ UNCHANGED <<life, gen, fresh, tables, items, pinned, job, dead, ghost>>

Restart ==
  /\ ~up
  /\ up' = TRUE
  /\ bind' = Recovered(bind)
  /\ UNCHANGED <<life, gen, fresh, att, hist, rested, items, child, flight, ghost>>

Arrive(i) ==
  /\ up /\ i \notin items
  /\ items' = items \cup {i}
  /\ UNCHANGED <<life, gen, fresh, up, tables, child, flight, ghost>>

Consume(i) ==
  /\ up /\ i \in items
  /\ items' = items \ {i}
  /\ UNCHANGED <<life, gen, fresh, up, tables, child, flight, ghost>>

Rest ==
  /\ ~rested
  /\ rested' = TRUE
  /\ UNCHANGED <<life, gen, fresh, up, att, bind, hist, items, child, flight,
                 ghost>>

Init ==
  /\ LifecycleInit /\ fresh = TRUE
  /\ up = TRUE
  /\ att = NoAtt /\ bind = NoBind /\ hist = {} /\ rested = TRUE
  /\ items = {}
  /\ pinned = [c \in Children |-> 0]
  /\ cred = [c \in Children |-> 0]
  /\ job = [c \in Children |-> NoJob]
  /\ dead = {}
  /\ reports = {} /\ acks = {}
  /\ used = {} /\ sent = {} /\ done = {}

ChildStep(c) ==
  \/ Attach(c) \/ AttachInterrupted(c) \/ AttachFenced(c)
  \/ \E w \in Wakes : Reserve(c, w)
  \/ Deliver(c)
  \/ \E w \in Wakes : SendAck(c, w)
  \/ Close(c) \/ Die(c)

Next ==
  \/ Lifecycle \/ Prune
  \/ \E c \in Children : ChildStep(c)
  \/ LeaseExpires
  \/ \E m \in reports : HandleReport(m)
  \/ \E m \in acks : HandleAck(m)
  \/ Crash \/ Restart
  \/ \E i \in Items : Arrive(i) \/ Consume(i)
  \/ Rest

Spec == Init /\ [][Next]_vars
-----------------------------------------------------------------------------
(* Properties.                                                             *)

\* A child whose requests pass the supervisor's check is the child its wake
\* binding knows, in the same run: attachment and binding never drift apart
\* under a credential in use, though they are written one after the other.
CustodianIsBound ==
  \A c \in Children :
    cred[c] > 0 /\ Validates(c, cred[c]) => bind.child = c /\ bind.gen = cred[c]

\* At most one hint of a run is before the chat unacknowledged, however often
\* its child is replaced: a replacement inherits the outstanding wake.
OneHintPerRun ==
  \A h \in sent :
    bind.child # None /\ h.gen = bind.gen /\ h.wake \notin done =>
      bind.wake = h.wake

\* A late report never revives an acknowledged wake, and every outstanding
\* state has a wake that can be acknowledged.
NoRevival ==
  /\ (bind.state = "idle") <=> (bind.wake = None)
  /\ bind.wake \notin done

\* An outstanding wake belongs to the run of its binding: a wake of an earlier
\* run, which nobody can acknowledge any more, does not block this one.
OutstandingIsThisRuns == bind.wake # None => bind.wake \in hist

\* At most one unacknowledged hint of a run is before the chat, however often
\* its child is replaced, and it belongs to this run; the child whose requests
\* are accepted is the one the wake binding knows, and a late report never
\* revives an acknowledged wake.
HintFollowsRun ==
  OneHintPerRun /\ OutstandingIsThisRuns /\ CustodianIsBound /\ NoRevival

-----------------------------------------------------------------------------
(* Liveness: children poll on a timer, leases run out, the supervisor is    *)
(* restarted by its service manager; nothing is assumed of the chat.        *)

Fairness ==
  /\ WF_vars(LeaseExpires /\ att.child \in dead)
  /\ WF_vars(Rest)
  /\ \A c \in Children :
       /\ WF_vars(Attach(c) /\ cred'[c] = gen)
       /\ WF_vars(AttachFenced(c))
       /\ SF_vars(\E w \in Wakes : Reserve(c, w))

FairSpec == Spec /\ Fairness

Unheard(i) == i \in items /\ ~(bind.ack.set /\ i \in bind.ack.items)

\* When one child that relearns its generation remains beside a running
\* session, something owed to the chat does not stay beside an idle binding.
\* (As long as fresh reservation ids remain in this bounded instance.)
ReplacementWakes ==
  \A c \in Relearns :
    <>[](up /\ life = "observed" /\ dead = Children \ {c}) =>
      \A i \in Items :
        [](Unheard(i) /\ bind.state = "idle" =>
             <>(bind.state # "idle" \/ ~Unheard(i) \/ used = Wakes
                  \/ ~(up /\ life = "observed")))
=============================================================================
