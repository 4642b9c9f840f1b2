---------------------------- MODULE InstallWatch ----------------------------
(***************************************************************************)
(* The installation's wake watch and the drains it wakes.  One loop of the *)
(* supervisor polls MESH behind a durable cursor and fans hints out to the *)
(* lanes; each lane's drain claims on a hint or on its timer, and a lane   *)
(* that last found its mailbox empty lets ticks pass while the watch looks *)
(* healthy.  The drains are started and rolled back together.              *)
(***************************************************************************)
EXTENDS Naturals, Sequences, FiniteSets

CONSTANTS
  Lanes,        \* drains that are members of the watch
  Foreign,      \* an agent of the grant this host does not serve
  Addressed,    \* the agents that get mail
  MaxEvents,    \* bound: deliveries
  MaxFaults     \* bound: crashes, failed attempts and failed starts

\* What the constants are assumed to be.
WatchAssumption ==
  /\ Foreign \notin Lanes /\ Addressed \subseteq Lanes \cup {Foreign}
  /\ {MaxEvents, MaxFaults} \subseteq Nat

VARIABLES
  log,      \* MESH's wake events, an agent each; the index is the watermark (external)
  mail,     \* unread deliveries per lane (external)
  cursor,   \* install-wake-cursor.json
  loop,     \* the install watch loop
  healthy,  \* a poll succeeded recently
  lane,     \* the drains
  host,     \* the loop that starts and stops them
  faults

watchVars == <<log, mail, cursor, loop, healthy, lane, host, faults>>

\* todo: lanes still to be told in this fan-out; top: the cursor to write after it.
Loop(pc, todo, top) == [pc |-> pc, todo |-> todo, top |-> top]

\* st: of the drain; fly: the attempt in flight; last: what the idle policy remembers.
\* missed: history, a hint came while the drain was down.
Drain(st) == [st |-> st, fly |-> "none", kick |-> FALSE, last |-> "none", due |-> FALSE,
              missed |-> FALSE]

WatchInit ==
  /\ log = <<>> /\ mail = [p \in Lanes |-> 0] /\ cursor = 0
  /\ loop = Loop("retry", {}, 0) /\ healthy = FALSE
  /\ lane = [p \in Lanes |-> Drain("stopped")] /\ host = "down" /\ faults = 0

Fault == faults < MaxFaults /\ faults' = faults + 1

Arrive(a) ==
  /\ Len(log) < MaxEvents /\ log' = Append(log, a)
  /\ mail' = [p \in Lanes |-> mail[p] + IF p = a THEN 1 ELSE 0]
  /\ UNCHANGED <<cursor, loop, healthy, lane, host, faults>>

-----------------------------------------------------------------------------
\* The attempt in flight, or else the last one, found the mailbox empty.
Remembers(d) == "empty" \in {d.fly, d.last}

\* Mutant: a hint that finds an attempt in flight is dropped.
Kicked_Drops(d) ==
  IF d.st # "started" THEN [d EXCEPT !.missed = Remembers(d)]
  ELSE IF d.fly # "none" THEN d
  ELSE [d EXCEPT !.fly = "listing", !.missed = FALSE]

\* kick: start an attempt, or ask for one more after the one in flight.  A
\* drain that is not up answers "stopped", which the fan-out accepts.
Kicked(d) ==
  IF d.st # "started" THEN [d EXCEPT !.missed = Remembers(d)]
  ELSE IF d.fly # "none" THEN [d EXCEPT !.kick = TRUE]
  ELSE [d EXCEPT !.fly = "listing", !.missed = FALSE]

LaneFrame == UNCHANGED <<log, cursor, loop, healthy, host>>

\* evaluateTick
Skips(d) == d.last = "empty" /\ healthy /\ ~d.due

\* Mutant: an idle lane waits for hints alone.
Tick_NoSafety(p) ==
  /\ lane[p].st = "started" /\ lane[p].fly = "none" /\ ~(lane[p].last = "empty" /\ healthy)
  /\ lane' = [lane EXCEPT ![p].fly = "listing", ![p].missed = FALSE]
  /\ LaneFrame /\ UNCHANGED <<mail, faults>>

Tick(p) ==
  /\ lane[p].st = "started" /\ lane[p].fly = "none" /\ ~Skips(lane[p])
  /\ lane' = [lane EXCEPT ![p].fly = "listing", ![p].missed = FALSE]
  /\ LaneFrame /\ UNCHANGED <<mail, faults>>

\* The helper looks at the mailbox, and claims what it finds.
List(p) ==
  /\ lane[p].fly = "listing"
  /\ lane' = [lane EXCEPT ![p].fly = IF mail[p] = 0 THEN "empty" ELSE "working"]
  /\ LaneFrame /\ UNCHANGED <<mail, faults>>

\* The attempt is over; a hint that came meanwhile starts one more.
Finished(d, last) ==
  LET again == d.kick /\ d.st = "started" IN
  [d EXCEPT !.fly = IF again THEN "listing" ELSE "none", !.kick = FALSE, !.last = last,
            !.due = FALSE, !.missed = @ /\ last = "empty" /\ ~again]

FoundEmpty(p) ==
  /\ lane[p].fly = "empty" /\ lane' = [lane EXCEPT ![p] = Finished(@, "empty")]
  /\ LaneFrame /\ UNCHANGED <<mail, faults>>

Delivered(p) ==
  /\ lane[p].fly = "working" /\ mail' = [mail EXCEPT ![p] = @ - 1]
  /\ lane' = [lane EXCEPT ![p] = Finished(@, "other")]
  /\ LaneFrame /\ UNCHANGED faults

(* The listing, the claim or the delivery failed.                          *)
AttemptFails(p) ==
  /\ lane[p].fly \in {"listing", "working"} /\ Fault
  /\ lane' = [lane EXCEPT ![p] = Finished(@, "other")]
  /\ LaneFrame /\ UNCHANGED mail

SafetyDue(p) ==
  /\ lane[p].last = "empty" /\ ~lane[p].due
  /\ lane' = [lane EXCEPT ![p].due = TRUE]
  /\ LaneFrame /\ UNCHANGED <<mail, faults>>

-----------------------------------------------------------------------------
(* The drains' loop: all start, or all that did are stopped again and the  *)
(* loop retries.  The idle policy of a lane outlives its restarts.         *)
HostFrame == UNCHANGED <<log, mail, cursor, loop, healthy>>

InState(s) == {p \in Lanes : lane[p].st = s}

HostStart ==
  /\ host = "down" /\ host' = "starting"
  /\ lane' = [p \in Lanes |-> [lane[p] EXCEPT !.st = "starting", !.kick = FALSE]]
  /\ HostFrame /\ UNCHANGED faults

LaneStarted(p) ==
  /\ lane[p].st = "starting" /\ lane' = [lane EXCEPT ![p].st = "started"]
  /\ HostFrame /\ UNCHANGED <<host, faults>>

LaneStartFails(p) ==
  /\ lane[p].st = "starting" /\ Fault /\ lane' = [lane EXCEPT ![p].st = "stopped"]
  /\ HostFrame /\ UNCHANGED host

HostUp ==
  /\ host = "starting" /\ InState("starting") = {}
  /\ host' = IF InState("stopped") = {} THEN "up" ELSE "stopping"
  /\ HostFrame /\ UNCHANGED <<lane, faults>>

\* One drain at a time; each waits for its attempt in flight.
LaneStop(p) ==
  /\ host = "stopping" /\ lane[p].st = "started" /\ InState("stopping") = {}
  /\ lane' = [lane EXCEPT ![p].st = "stopping", ![p].kick = FALSE,
                                      ![p].missed = @ \/ lane[p].kick]
  /\ HostFrame /\ UNCHANGED <<host, faults>>

LaneStopped(p) ==
  /\ lane[p].st = "stopping" /\ lane[p].fly = "none"
  /\ lane' = [lane EXCEPT ![p].st = "stopped"]
  /\ HostFrame /\ UNCHANGED <<host, faults>>

HostDown ==
  /\ host = "stopping" /\ InState("stopped") = Lanes /\ host' = "down"
  /\ HostFrame /\ UNCHANGED <<lane, faults>>

-----------------------------------------------------------------------------
WatchFrame == UNCHANGED <<log, mail, host>>

\* The loop fails: pending hints and the health of the channel are gone.
LoopFails == loop' = Loop("retry", {}, 0) /\ healthy' = FALSE

(* dispatcher.start: every lane is woken once before the first poll.       *)
LoopStart ==
  /\ loop.pc = "retry" /\ loop' = Loop("reconcile", Lanes, 0)
  /\ WatchFrame /\ UNCHANGED <<cursor, healthy, lane, faults>>

Tell(p) ==
  /\ p \in loop.todo /\ loop' = [loop EXCEPT !.todo = @ \ {p}]
  /\ lane' = [lane EXCEPT ![p] = Kicked(@)]
  /\ WatchFrame /\ UNCHANGED <<cursor, healthy, faults>>

(* A handler that is not a drain's rejects the hint.                       *)
TellFails ==
  /\ loop.todo # {} /\ Fault /\ LoopFails
  /\ WatchFrame /\ UNCHANGED <<cursor, lane>>

Reconciled ==
  /\ loop.pc = "reconcile" /\ loop.todo = {} /\ loop' = Loop("poll", {}, 0)
  /\ WatchFrame /\ UNCHANGED <<cursor, healthy, lane, faults>>

Matches(k) == {i \in cursor + 1 .. k : log[i] # Foreign}

(* A poll answers with the events behind the cursor, or some first ones.   *)
(* Foreign ones alone move the cursor at once.                             *)
PollOk(k) ==
  /\ loop.pc = "poll" /\ k \in cursor .. Len(log) /\ healthy' = TRUE
  /\ IF Matches(k) = {}
     THEN cursor' = k /\ UNCHANGED loop
     ELSE /\ loop' = Loop("fanout", {log[i] : i \in Matches(k)},
                          CHOOSE i \in Matches(k) : \A j \in Matches(k) : j <= i)
          /\ UNCHANGED cursor
  /\ WatchFrame /\ UNCHANGED <<lane, faults>>

(* MESH no longer holds the events behind the cursor: everyone is told.    *)
PollResync ==
  /\ loop.pc = "poll" /\ cursor < Len(log)
  /\ loop' = Loop("resync", Lanes, Len(log))
  /\ WatchFrame /\ UNCHANGED <<cursor, healthy, lane, faults>>

PollFails ==
  /\ loop.pc = "poll" /\ Fault /\ LoopFails /\ WatchFrame /\ UNCHANGED <<cursor, lane>>

Told == loop.pc \in {"fanout", "resync"} /\ loop.todo = {}

Commit ==
  /\ Told /\ cursor' = loop.top /\ loop' = Loop("poll", {}, 0)
  /\ healthy' = (healthy \/ loop.pc = "resync")
  /\ WatchFrame /\ UNCHANGED <<lane, faults>>

CommitFails ==
  /\ Told /\ Fault /\ LoopFails
  /\ WatchFrame /\ UNCHANGED <<cursor, lane>>

HealthLapses ==
  /\ healthy /\ healthy' = FALSE
  /\ WatchFrame /\ UNCHANGED <<cursor, loop, lane, faults>>

Crash ==
  /\ Fault /\ LoopFails /\ host' = "down"
  /\ lane' = [p \in Lanes |-> Drain("stopped")]
  /\ UNCHANGED <<log, mail, cursor>>

-----------------------------------------------------------------------------
DrainNext(p) == Tick(p) \/ List(p) \/ FoundEmpty(p) \/ Delivered(p) \/ SafetyDue(p)

HostNext ==
  \/ HostStart \/ HostUp \/ HostDown
  \/ \E p \in Lanes : LaneStarted(p) \/ LaneStop(p) \/ LaneStopped(p)

WatchNext ==
  \/ \E a \in Addressed : Arrive(a)
  \/ \E p \in Lanes : DrainNext(p) \/ AttemptFails(p) \/ LaneStartFails(p) \/ Tell(p)
  \/ HostNext
  \/ \E k \in 0 .. MaxEvents : PollOk(k)
  \/ LoopStart \/ TellFails \/ Reconciled \/ PollResync \/ PollFails
  \/ Commit \/ CommitFails \/ HealthLapses \/ Crash

(* Timers fire, the helper answers and a delivery comes to an end: each    *)
(* carries its own timeout.  Nothing is assumed of the watch.              *)
WatchFairness ==
  /\ WF_watchVars(HostNext)
  /\ \A p \in Lanes : WF_watchVars(DrainNext(p))

WatchSpec == WatchInit /\ [][WatchNext]_watchVars /\ WatchFairness

-----------------------------------------------------------------------------
HintComing(p) == p \in loop.todo \/ \E i \in cursor + 1 .. Len(log) : log[i] = p

(* A lane lets its ticks pass over unread mail only while the hint of that *)
(* mail is still behind the cursor, through restarts, failed fan-outs and  *)
(* resyncs; the one exception is a lane told while its drain was down.     *)
QuietIsCovered ==
  \A p \in Lanes :
    /\ lane[p].st = "started" /\ lane[p].fly = "none" /\ lane[p].last = "empty"
    /\ mail[p] > 0 /\ ~lane[p].missed
    => HintComing(p)

(* Every delivery is drained at last, also if the watch never says a word. *)
MailIsDrained == \A p \in Lanes : mail[p] > 0 ~> mail[p] = 0
=============================================================================
