-------------------------- MODULE SharedAppServer --------------------------
(***************************************************************************)
(* The session that runs mailbox deliveries as turns of a conversation the *)
(* user has open in the desktop application, and the bridge that wakes it. *)
(* The bridge handles one wake at a time: it claims a delivery, follows    *)
(* the binding file to the bound thread, queues the delivery and waits for *)
(* its turn.  The server, the mailbox helper, the user, who talks in the   *)
(* same conversation, and the operator's bind command are external.        *)
(***************************************************************************)
EXTENDS Naturals, Sequences, FiniteSets

CONSTANTS
  Deliveries,      \* the mail, in the order it arrives
  Threads,         \* conversations the binding can name
  Bootstrap,       \* the thread of the supervisor's configuration
  NoThread,        \* the binding file does not exist
  MaxConsecutive,  \* maxConsecutiveFailures
  MaxFaults,       \* bound: timeouts, refusals, dropped sockets
  MaxRebinds,      \* bound: uses of the bind command
  MaxUserTurns     \* bound: turns the user starts

\* What the constants are assumed to be.
SharedAssumption ==
  /\ Deliveries \subseteq Nat \ {0} /\ Bootstrap \in Threads /\ NoThread \notin Threads
  /\ MaxConsecutive \in Nat \ {0}
  /\ {MaxFaults, MaxRebinds, MaxUserTurns} \subseteq Nat

VARIABLES
  file,         \* threadId of app-server-binding.json
  thread,       \* validated.threadId
  phase, initialized, failures,
  live,         \* the socket is open and its events are subscribed
  queue, pump,  \* admissions, and the one the pump is working on
  corr,         \* correlation store: what is known of each delivery
  retained,     \* completedTurns
  bridge,       \* the wake being handled
  own,          \* the bridge has a watch loop of its own (no install dispatcher)
  turns,        \* the server's turns (external)
  user, said,   \* the user's turn in the same thread, and how many there were (external)
  mail, hint, open, settled,  \* the mailbox behind the helper (external)
  faults, rebinds,
  bound,        \* history: contents of the file since the admission began
  asked         \* history: the thread the operator bound last

sessionVars == <<phase, initialized, failures, live, queue, pump, corr, retained>>
mailVars == <<mail, hint, open, settled>>
serverVars == <<turns, user, said>>
sharedVars == <<file, thread, sessionVars, bridge, own, serverVars, mailVars, faults, rebinds,
                bound, asked>>

\* d: the delivery; back: where a reconnect returns to; stored: what connect read.
Bridge(pc, d) == [pc |-> pc, d |-> d, back |-> "none", stored |-> NoThread]
Pump(pc, d, t) == [pc |-> pc, d |-> d, t |-> t]
Resting == Pump("idle", 0, 0)
Sticky == {"submission_unknown", "transaction_stuck"}

SharedInit ==
  /\ file = NoThread /\ thread = Bootstrap
  /\ phase = "disconnected" /\ initialized = FALSE /\ failures = 0 /\ live = FALSE
  /\ queue = <<>> /\ pump = Resting /\ corr = [d \in Deliveries |-> "none"] /\ retained = {}
  /\ bridge = Bridge("retry", 0) /\ own \in BOOLEAN
  /\ turns = <<>> /\ user = FALSE /\ said = 0
  /\ mail = {} /\ hint = FALSE /\ open = [d |-> 0, st |-> "none"] /\ settled = {}
  /\ faults = 0 /\ rebinds = 0 /\ bound = {} /\ asked = NoThread

Fault == faults < MaxFaults /\ faults' = faults + 1

-----------------------------------------------------------------------------
\* connect(): the file's thread wins over the configured one, and is written back.
Merged(stored) == IF stored = NoThread THEN Bootstrap ELSE stored

\* start() of the bridge, after the loop's pause.
BridgeStart ==
  /\ bridge.pc = "retry" /\ bridge' = [Bridge("read", 0) EXCEPT !.back = "claim"]
  /\ UNCHANGED <<file, thread, sessionVars, serverVars, mailVars, faults, rebinds, bound, asked>>

Reconnects(d, back) ==
  /\ phase' = "reconnecting" /\ initialized' = FALSE /\ live' = FALSE
  /\ bridge' = [Bridge("read", d) EXCEPT !.back = back]

ConnectRead ==
  /\ bridge.pc = "read" /\ bridge' = [bridge EXCEPT !.pc = "write", !.stored = file]
  /\ UNCHANGED <<file, thread, sessionVars, serverVars, mailVars, faults, rebinds, bound, asked>>

ConnectWrite ==
  /\ bridge.pc = "write" /\ file' = Merged(bridge.stored) /\ thread' = Merged(bridge.stored)
  /\ phase' = "reconnecting" /\ bridge' = [bridge EXCEPT !.pc = "open"]
  /\ UNCHANGED <<initialized, failures, live, queue, pump, corr, retained, serverVars, mailVars,
                 faults, rebinds, bound, asked>>

\* shutdown(): admissions still queued are rejected.
Shutdown ==
  /\ phase' = "disconnected" /\ initialized' = FALSE /\ live' = FALSE /\ queue' = <<>>

\* A wake fails.  The dispatcher's loop stops the bridge and starts it again; a bridge
\* with a loop of its own logs the error and waits for the next hint.  Wakes are handled one
\* by one, so the failed admission was the only one queued.
WakeFails(ph) ==
  IF own /\ bridge.back # "claim"
  THEN /\ bridge' = Bridge("watch", 0) /\ phase' = ph /\ queue' = <<>>
       /\ UNCHANGED <<initialized, live>>
  ELSE Shutdown /\ bridge' = Bridge("retry", 0)

\* Upgrade, initialize, identity check and thread/resume.
ConnectOpen ==
  /\ bridge.pc = "open" /\ live' = TRUE /\ initialized' = TRUE /\ phase' = "subscribed"
  /\ bridge' = Bridge(bridge.back, bridge.d)
  /\ UNCHANGED <<file, thread, failures, queue, pump, corr, retained, serverVars, mailVars, faults,
                 rebinds, bound, asked>>

ConnectFails ==
  /\ bridge.pc = "open" /\ Fault /\ WakeFails("reconnecting")
  /\ UNCHANGED <<file, thread, failures, pump, corr, retained, serverVars, mailVars, rebinds, bound,
                 asked>>

\* The socket closes; the transport forgets it and the session is not told.
Drop ==
  /\ live /\ Fault /\ live' = FALSE
  /\ UNCHANGED <<file, thread, phase, initialized, failures, queue, pump, corr, retained,
                 bridge, serverVars, mailVars, rebinds, bound, asked>>

-----------------------------------------------------------------------------
\* handleWake: one delivery is resolved per wake.
Arrive(d) ==
  /\ d \notin mail \cup settled \cup {open.d} /\ mail' = mail \cup {d} /\ hint' = TRUE
  /\ UNCHANGED <<file, thread, sessionVars, bridge, serverVars, open, settled, faults, rebinds,
                 bound, asked>>

Wake ==
  /\ bridge.pc = "watch" /\ hint /\ hint' = FALSE /\ bridge' = Bridge("claim", 0)
  /\ UNCHANGED <<file, thread, sessionVars, serverVars, mail, open, settled, faults, rebinds, bound,
                 asked>>

\* A verified reply is acknowledged first; then the open claim, or the next mail.
ResolveDelivery ==
  /\ bridge.pc = "claim"
  /\ settled' = settled \cup (IF open.st = "replied" THEN {open.d} ELSE {})
  /\ LET free == open.st # "claimed"
     IN \/ /\ ~free /\ bridge' = Bridge("sync", open.d) /\ UNCHANGED <<mail, open>>
        \/ /\ free /\ mail = {} /\ bridge' = Bridge("watch", 0)
           /\ open' = [d |-> 0, st |-> "none"] /\ UNCHANGED mail
        \/ \E d \in mail : /\ free /\ \A e \in mail : d <= e
                           /\ mail' = mail \ {d} /\ open' = [d |-> d, st |-> "claimed"]
                           /\ bridge' = Bridge("sync", d)
  /\ UNCHANGED <<file, thread, sessionVars, serverVars, hint, faults, rebinds, bound, asked>>

ResolveFails ==
  /\ bridge.pc = "claim" /\ Fault /\ WakeFails(phase)
  /\ UNCHANGED <<file, thread, failures, pump, corr, retained, serverVars, mailVars, rebinds, bound,
                 asked>>

-----------------------------------------------------------------------------
\* Mutant: the admission does not look at the binding file.
SyncThread_Stale ==
  /\ bridge.pc = "sync" /\ bound' = {file} /\ bridge' = Bridge("admit", bridge.d)
  /\ UNCHANGED <<file, thread, sessionVars, serverVars, mailVars, faults, rebinds, asked>>

\* syncThreadFromStore(): a thread bound meanwhile takes a reconnect.
SyncThread ==
  /\ bridge.pc = "sync" /\ bound' = {file}
  /\ \/ /\ Merged(file) = thread \/ ~initialized
        /\ thread' = Merged(file) /\ bridge' = Bridge("admit", bridge.d)
        /\ UNCHANGED <<phase, initialized, live>>
     \/ /\ Merged(file) # thread /\ initialized /\ Reconnects(bridge.d, "admit")
        /\ UNCHANGED thread
  /\ UNCHANGED <<file, failures, queue, pump, corr, retained, serverVars, mailVars, faults, rebinds,
                 asked>>

\* A delivery known to run or to be done is a duplicate.
Admits(d) ==
  IF corr[d] \in {"completed", "running"}
  THEN bridge' = Bridge("watch", 0) /\ UNCHANGED <<phase, queue, corr>>
  ELSE /\ bridge' = Bridge("await", d) /\ queue' = Append(queue, d)
       /\ corr' = [corr EXCEPT ![d] = "queued"]
       /\ phase' = IF phase \in {"subscribed", "connected", "pending"} THEN "pending" ELSE phase

Admit ==
  /\ bridge.pc = "admit"
  /\ \/ /\ phase = "transaction_stuck" /\ WakeFails(phase)
        /\ UNCHANGED corr
     \/ /\ phase = "submission_unknown" /\ Reconnects(bridge.d, "admit")
        /\ UNCHANGED <<queue, corr>>
     \/ /\ phase \notin Sticky /\ Admits(bridge.d)
        /\ UNCHANGED <<initialized, live>>
  /\ UNCHANGED <<file, thread, failures, pump, retained, serverVars, mailVars, faults, rebinds,
                 bound, asked>>

-----------------------------------------------------------------------------
\* The pump's catch: the delivery is marked failed and its admission rejected.
Rejects(d, ph) ==
  /\ failures' = IF failures < MaxConsecutive THEN failures + 1 ELSE failures
  /\ corr' = [corr EXCEPT ![d] = "failed"] /\ pump' = Resting
  /\ WakeFails(IF failures' >= MaxConsecutive THEN "transaction_stuck" ELSE ph)

MayPump == phase \notin Sticky \cup {"running", "busy"}

\* pumpQueue() takes an admission and sends turn/start.
PumpTake ==
  /\ pump.pc = "idle" /\ queue # <<>> /\ MayPump
  /\ LET d == Head(queue)
     IN IF initialized
        THEN /\ queue' = Tail(queue) /\ pump' = Pump("start", d, 0) /\ phase' = "busy"
             /\ corr' = [corr EXCEPT ![d] = "submitting"]
             /\ UNCHANGED <<initialized, live, failures, bridge>>
        ELSE Rejects(d, phase)
  /\ UNCHANGED <<file, thread, retained, serverVars, mailVars, faults, rebinds, bound, asked>>

\* The server receives turn/start.
TurnAccepted ==
  /\ pump.pc = "start" /\ live /\ turns' = Append(turns, [d |-> pump.d, st |-> "running"])
  /\ pump' = Pump("sent", pump.d, Len(turns) + 1)
  /\ UNCHANGED <<file, thread, phase, initialized, failures, live, queue, corr, retained,
                 bridge, user, said, mailVars, faults, rebinds, bound, asked>>

\* It refuses, or the socket is gone: not an unknown outcome, and phase stays "busy".
TurnRefused ==
  /\ pump.pc \in {"start", "sent"} /\ (IF live THEN pump.pc = "start" /\ Fault ELSE UNCHANGED faults)
  /\ Rejects(pump.d, phase)
  /\ UNCHANGED <<file, thread, retained, serverVars, mailVars, rebinds, bound, asked>>

\* No answer within requestTimeoutMs.
TurnUnknown ==
  /\ pump.pc \in {"start", "sent"} /\ Fault /\ Rejects(pump.d, "submission_unknown")
  /\ UNCHANGED <<file, thread, retained, serverVars, mailVars, rebinds, bound, asked>>

AfterTurn == IF queue # <<>> THEN "pending" ELSE "subscribed"

\* The answer with the turn's id; the turn may have completed before it.
TurnStarted ==
  /\ pump.pc = "sent" /\ live /\ pump' = [pump EXCEPT !.pc = "wait"]
  /\ LET early == pump.t \in retained
     IN /\ corr' = [corr EXCEPT ![pump.d] = IF early THEN "completed" ELSE "running"]
        /\ phase' = IF phase \in Sticky THEN phase ELSE IF early THEN AfterTurn ELSE "running"
  /\ UNCHANGED <<file, thread, initialized, failures, live, queue, retained, bridge, serverVars,
                 mailVars, faults, rebinds, bound, asked>>

\* Mutant: a waiter takes the first completion it sees.
Heard_Any == {t \in retained : TRUE}

\* The completions that settle the pump's wait.
Heard == retained \cap {pump.t}

TurnHeard ==
  /\ pump.pc = "wait"
  /\ \E t \in Heard :
       /\ retained' = retained \ {t}
       /\ IF turns[t].st = "completed"
          THEN /\ pump' = Pump("reply", pump.d, t)
               /\ UNCHANGED <<phase, initialized, live, queue, failures, corr, bridge>>
          ELSE Rejects(pump.d, phase)
  /\ UNCHANGED <<file, thread, serverVars, mailVars, faults, rebinds, bound, asked>>

\* waitForTurn's timer; only a lost event makes it certain.
TurnOverdue ==
  /\ pump.pc = "wait" /\ pump.t \notin retained
  /\ IF live /\ turns[pump.t].st = "running" THEN Fault ELSE UNCHANGED faults
  /\ Rejects(pump.d, phase)
  /\ UNCHANGED <<file, thread, retained, serverVars, mailVars, rebinds, bound, asked>>

-----------------------------------------------------------------------------
\* settleMeshTransaction: reply, then acknowledge.
SettleReply ==
  /\ pump.pc = "reply" /\ pump' = [pump EXCEPT !.pc = "ack"] /\ open' = [open EXCEPT !.st = "replied"]
  /\ UNCHANGED <<file, thread, phase, initialized, failures, live, queue, corr, retained, bridge,
                 serverVars, mail, hint, settled, faults, rebinds, bound, asked>>

SettleAck ==
  /\ pump.pc = "ack" /\ settled' = settled \cup {open.d} /\ open' = [d |-> 0, st |-> "none"]
  /\ pump' = Resting /\ failures' = 0 /\ corr' = [corr EXCEPT ![pump.d] = "completed"]
  /\ bridge' = Bridge("watch", 0)
  /\ UNCHANGED <<file, thread, phase, initialized, live, queue, retained, serverVars, mail, hint,
                 faults, rebinds, bound, asked>>

\* No text, an unsafe text, or the helper's refusal.
SettleFails ==
  /\ pump.pc \in {"reply", "ack"} /\ Fault /\ Rejects(pump.d, phase)
  /\ UNCHANGED <<file, thread, retained, serverVars, mailVars, rebinds, bound, asked>>

-----------------------------------------------------------------------------
\* Events.  A turn/completed of any turn frees the queue.
FreesQueue == phase' = IF live /\ phase \notin Sticky THEN AfterTurn ELSE phase

\* That of a delivery is retained for its waiter.
TurnEnds(t, st) ==
  /\ turns[t].st = "running" /\ turns' = [turns EXCEPT ![t].st = st] /\ FreesQueue
  /\ IF st = "failed" THEN Fault ELSE UNCHANGED faults
  /\ retained' = IF live THEN retained \cup {t} ELSE retained
  /\ UNCHANGED <<file, thread, initialized, failures, live, queue, pump, corr, bridge, user, said,
                 mailVars, rebinds, bound, asked>>

\* The user starts a turn; turn/started tells the session.
UserStarts ==
  /\ ~user /\ said < MaxUserTurns /\ said' = said + 1 /\ user' = TRUE
  /\ phase' = IF live /\ phase \notin Sticky THEN "running" ELSE phase
  /\ UNCHANGED <<file, thread, initialized, failures, live, queue, pump, corr, retained, bridge,
                 turns, mailVars, faults, rebinds, bound, asked>>

UserEnds ==
  /\ user /\ user' = FALSE /\ FreesQueue
  /\ UNCHANGED <<file, thread, initialized, failures, live, queue, pump, corr, retained, bridge,
                 turns, said, mailVars, faults, rebinds, bound, asked>>

\* The operator's bind command rewrites an existing file.
RebindFile(th) ==
  /\ rebinds < MaxRebinds /\ rebinds' = rebinds + 1 /\ file \notin {NoThread, th}
  /\ file' = th /\ asked' = th /\ bound' = bound \cup {th}
  /\ UNCHANGED <<thread, sessionVars, bridge, serverVars, mailVars, faults>>

-----------------------------------------------------------------------------
SessionStep ==
  \/ BridgeStart \/ ConnectRead \/ ConnectWrite \/ ConnectOpen
  \/ Wake \/ ResolveDelivery \/ SyncThread \/ Admit
  \/ PumpTake \/ TurnAccepted \/ TurnStarted \/ TurnHeard \/ SettleReply \/ SettleAck
SharedFaults ==
  \/ ConnectFails \/ Drop \/ ResolveFails \/ TurnRefused \/ TurnUnknown \/ TurnOverdue
  \/ SettleFails
Ends == UserEnds \/ \E t \in DOMAIN turns : TurnEnds(t, "completed")
SharedNext ==
  /\ \/ SessionStep \/ SharedFaults \/ Ends \/ UserStarts
     \/ \E t \in DOMAIN turns : TurnEnds(t, "failed")
     \/ \E d \in Deliveries : Arrive(d)
     \/ \E th \in Threads : RebindFile(th)
  /\ UNCHANGED own

SharedSpec == SharedInit /\ [][SharedNext]_sharedVars

-----------------------------------------------------------------------------
\* A delivery's turn runs in a thread the binding file named while the delivery was being
\* admitted, whatever was rebound, reconnected or retried before (syncThreadFromStore).
TurnInBoundThread ==
  pump.pc \in {"start", "sent"} => thread \in {Merged(s) : s \in bound}

\* The text that answers a delivery is that of a turn started for it (waitForTurn).
ReplyIsOwnTurns == pump.pc \in {"reply", "ack"} => turns[pump.t].d = pump.d /\ open.d = pump.d

=============================================================================
