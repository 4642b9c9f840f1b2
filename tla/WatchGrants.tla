----------------------------- MODULE WatchGrants -----------------------------
(***************************************************************************)
(* The wake loops of the client supervisor that poll MESH under one watch  *)
(* grant.  Each loop polls through a transport they share, is restarted    *)
(* when it fails, and renews the grant when its poll was rejected.  A      *)
(* scheduler renews ahead of the expiry.  A registry lets triggers that    *)
(* concern the same grant share one watch-ensure.                          *)
(***************************************************************************)
EXTENDS Naturals, FiniteSets

CONSTANTS
  Lanes,     \* wake loops of one installation
  First,     \* the loop that ensures the grant before it starts
  Bound      \* the loops of App Server bridges, which a changed binding parks

\* What the constants are assumed to be.
LanesAssumption == First \in Lanes /\ Bound \subseteq Lanes

VARIABLES
  grant,     \* at the server: live or dead
  lane,      \* per loop: pc, renewable, stale (a renewal ended since it observed the
             \* generation), old (one ended since it asked to poll)
  slot,      \* the loops that share the poll in flight
  flight,    \* entry.inFlight: none, or who began the watch-ensure, and whether it was due
  timer,     \* the proactive scheduler: none, armed, due, renewing
  signal     \* the supervisor is told to stop

grantVars == <<grant, lane, slot, flight, timer, signal>>

NoFlight == [by |-> "none", old |-> FALSE]

GrantInit ==
  /\ grant \in {"live", "dead"} /\ signal = FALSE
  /\ lane = [l \in Lanes |-> [pc |-> IF l = First THEN "ensure" ELSE "start", renewable |-> FALSE,
                              stale |-> FALSE, old |-> FALSE]]
  /\ slot = {} /\ flight = NoFlight /\ timer = "none"

Goes(l, pc) == lane' = [lane EXCEPT ![l].pc = pc]

-----------------------------------------------------------------------------
(* The registry.                                                           *)

\* recordEnsure: a helper that knows the expiry arms the scheduler.
RecordEnsure == timer' \in {"none", "armed"}

\* Mutant: a renewal another trigger made is made again.
Reuses_Never(l) == FALSE

\* The generation is not the one the loop observed: renewed already.
Reuses(l) == lane[l].stale

\* renew: reuse, join, or start the one watch-ensure in flight.
RenewWatchGrant(l) ==
  /\ lane[l].pc = "failed" /\ UNCHANGED <<grant, slot, timer, signal>>
  /\ IF ~lane[l].renewable \/ Reuses(l) THEN Goes(l, "backoff") /\ UNCHANGED flight
     ELSE /\ Goes(l, "renew")
          /\ flight' = IF flight # NoFlight THEN flight ELSE [by |-> "rejection", old |-> lane[l].old]

Observers == [l \in Lanes |-> [lane[l] EXCEPT !.stale = TRUE, !.old = TRUE,
                                              !.pc = IF @ = "renew" THEN "backoff" ELSE @]]

EnsureEnds ==
  /\ flight # NoFlight /\ flight' = NoFlight /\ grant' = "live" /\ lane' = Observers
  /\ RecordEnsure /\ UNCHANGED <<slot, signal>>

\* Probed: the replacement is refused, and the local credential polls or the probe times out.
Probed == timer' = "none" /\ UNCHANGED grant

EnsureReuses ==
  /\ flight # NoFlight /\ flight' = NoFlight /\ lane' = Observers
  /\ Probed /\ UNCHANGED <<slot, signal>>

(* The scheduler tries again later, or leaves the grant to the loops.      *)
EnsureFails ==
  /\ flight # NoFlight /\ flight' = NoFlight
  /\ lane' = [l \in Lanes |-> [lane[l] EXCEPT !.pc = IF @ = "renew" THEN "backoff" ELSE @]]
  /\ timer' \in IF timer = "renewing" THEN {"armed", "none"} ELSE {timer}
  /\ UNCHANGED <<grant, slot, signal>>

TimerIsDue == timer = "armed" /\ timer' = "due" /\ UNCHANGED <<grant, lane, slot, flight, signal>>

RunProactive ==
  /\ timer = "due" /\ ~signal /\ timer' = "renewing"
  /\ flight' = IF flight # NoFlight THEN flight ELSE [by |-> "proactive", old |-> FALSE]
  /\ UNCHANGED <<grant, lane, slot, signal>>

-----------------------------------------------------------------------------
(* createSharedWatchTransport: one poll at a time.  A loop with the same   *)
(* cursor joins it, another one waits for it to end.                       *)
Poll(l) ==
  /\ lane[l].pc \in {"start", "wait"} /\ ~signal /\ UNCHANGED <<grant, flight, timer, signal>>
  /\ \/ /\ (slot = {} \/ lane[l].pc = "start") /\ slot' = slot \cup {l}
        /\ lane' = [lane EXCEPT ![l].pc = "poll", ![l].old = FALSE]
     \/ slot # {} /\ lane[l].pc = "start" /\ Goes(l, "wait") /\ UNCHANGED slot

PollEnds(pc, renewable) ==
  /\ slot # {} /\ slot' = {}
  /\ lane' = [l \in Lanes |-> IF l \in slot THEN [lane[l] EXCEPT !.pc = pc, !.renewable = renewable] ELSE lane[l]]
  /\ UNCHANGED <<grant, flight, timer, signal>>

PollAnswered == grant = "live" /\ PollEnds("start", FALSE)

PollRejected == grant = "dead" /\ PollEnds("failed", TRUE)

PollFails == PollEnds("failed", FALSE)

-----------------------------------------------------------------------------
(* runDurableWakeLoop.                                                     *)

\* Mutant: the generation is observed once, before the loop.
Observe_Once(l) == lane[l].stale

\* Every round observes the generation of that moment: no renewal has ended since.
Observe(l) == FALSE

\* The watch-ensure ahead of the first start does not pass through the registry.
InitialEnsure(l) ==
  /\ lane[l].pc = "ensure" /\ ~signal /\ UNCHANGED <<slot, flight, signal>>
  /\ \/ /\ (grant' = "live" /\ RecordEnsure) \/ Probed
        /\ lane' = [lane EXCEPT ![l].pc = "start", ![l].stale = FALSE]
     \/ lane' = [lane EXCEPT ![l].pc = "ensureFailed"] /\ UNCHANGED <<grant, timer>>

Backoff(l) ==
  /\ lane[l].pc \in {"backoff", "ensureFailed"} /\ ~signal
  /\ lane' = [lane EXCEPT ![l].pc = IF @ = "ensureFailed" THEN "ensure" ELSE "start",
                          ![l].stale = Observe(l)]
  /\ UNCHANGED <<grant, slot, flight, timer, signal>>

\* A binding that changed is not retried.
Parks(l) ==
  /\ l \in Bound /\ lane[l].pc = "failed" /\ ~lane[l].renewable /\ Goes(l, "parked")
  /\ UNCHANGED <<grant, slot, flight, timer, signal>>

Stops(l) ==
  /\ signal /\ lane[l].pc # "done" /\ Goes(l, "done") /\ slot' = slot \ {l}
  /\ UNCHANGED <<grant, flight, timer, signal>>

Abort == ~signal /\ signal' = TRUE /\ UNCHANGED <<grant, lane, slot, flight, timer>>

GrantDies == grant = "live" /\ grant' = "dead" /\ UNCHANGED <<lane, slot, flight, timer, signal>>

LaneStep(l) == Poll(l) \/ RenewWatchGrant(l) \/ InitialEnsure(l) \/ Backoff(l) \/ Stops(l)

GrantNext ==
  \/ \E l \in Lanes : LaneStep(l) \/ Parks(l)
  \/ EnsureEnds \/ EnsureReuses \/ EnsureFails \/ TimerIsDue \/ RunProactive
  \/ PollAnswered \/ PollRejected \/ PollFails \/ Abort \/ GrantDies

(* The loops run; a poll of a dead grant is rejected; a watch-ensure that  *)
(* is tried again and again succeeds once.                                 *)
GrantFairness ==
  /\ \A l \in Lanes : WF_grantVars(LaneStep(l))
  /\ SF_grantVars(PollRejected) /\ SF_grantVars(EnsureEnds)
  /\ \A l \in Lanes : SF_grantVars(InitialEnsure(l) /\ grant' = "live")

GrantSpec == GrantInit /\ [][GrantNext]_grantVars /\ GrantFairness

-----------------------------------------------------------------------------
(* A grant is not renewed for a loop that asked to poll before the last    *)
(* renewal ended: loops that fail together on one dead grant, and take     *)
(* different times to stop, share one renewal (a loop that joins, after a  *)
(* renewal, a poll sent before it may still renew once more).              *)
RenewalsAreNeeded ==
  flight.by = "rejection" => ~flight.old

(* A grant that died is renewed in the end, unless every loop is parked or *)
(* the supervisor stops.                                                   *)
DeadGrantIsRenewed ==
  grant = "dead" ~> (grant = "live" \/ signal \/ \A l \in Lanes : lane[l].pc = "parked")
=============================================================================
