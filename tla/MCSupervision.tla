---------------------------- MODULE MCSupervision ---------------------------
(***************************************************************************)
(* The supervisor and what it keeps running, for TLC: the claimer locks of *)
(* a mailbox, the reasoner gate, the local messaging host, the lanes of    *)
(* the profiles, and the Cursor runtime of one of them.  They share no     *)
(* state here: a behaviour takes one `part` and leaves the others at rest. *)
(***************************************************************************)
EXTENDS ClaimerLocks, Naturals, TLC

CONSTANTS s1, s2, d1, d2, x1, x2, x3, x4, p1, p2, r1, r2,
          GateRuns, Profiles, ProfileOf, Limit, None,
          Supervisors, MaxCrashes, MaxFaults, MaxForeign,
          Deliveries, Rooms, RoomOf, CrashThreshold, MaxFailures

VARIABLES part,
          place, gaveUp, pqueue, pactive, gqueue, gactive,
          stage, owner, path, failure, aborted, faults, crashes,
          lanesOf, sup, group, acquired, drain, taken, told, failed, foreign,
          box, fails, tries, reply, job, child, exits, turns, asking, session, spent

Gate == INSTANCE ReasonerGate WITH Runs <- GateRuns, stage <- place, aborted <- gaveUp
Host == INSTANCE LocalHost
Lane == INSTANCE SupervisorLanes
          WITH stage <- group, lock <- taken, aborted <- told, faults <- failed
Cursor == INSTANCE CursorAcp WITH crashes <- exits, faults <- spent

ASSUME GateConstants == Gate!GateAssumption
ASSUME HostConstants == Host!HostAssumption

\* A supervisor and a dedicated drain of each family.
MCFamilyOf == s1 :> "codex" @@ s2 :> "cursor" @@ d1 :> "codex" @@ d2 :> "cursor"
\* Two runs of one profile, one of another, one of none.
MCProfileOf == [x \in GateRuns |-> CASE x \in {x1, x2} -> p1
                                     [] x = x3 -> p2
                                     [] OTHER -> None]
\* A room that speaks twice, with another between.
MCRoomOf == <<r1, r2, r1>>

gateVars == <<place, gaveUp, pqueue, pactive, gqueue, gactive>>
hostVars == <<stage, owner, path, failure, aborted, faults, crashes>>
laneVars == <<lanesOf, sup, group, acquired, drain, taken, told, failed, foreign>>
cursorVars == <<box, fails, tries, reply, job, child, exits, turns, asking, session, spent>>

SupervisionInit ==
  /\ part \in {"claimers", "gate", "host", "lanes", "cursor"}
  /\ ClaimerInit /\ Gate!Init /\ Host!HostInit /\ Lane!LanesInit /\ Cursor!AcpInit
  /\ part # "claimers" => loaded = {}
  /\ part # "lanes" => \A p \in Profiles : lanesOf[p] = {} /\ taken[p] = Lane!Free

SupervisionNext ==
  \/ /\ part = "claimers" /\ ClaimerNext
     /\ UNCHANGED <<part, gateVars, hostVars, laneVars, cursorVars>>
  \/ /\ part = "gate" /\ Gate!Next
     /\ UNCHANGED <<part, claimerVars, hostVars, laneVars, cursorVars>>
  \/ /\ part = "host" /\ Host!HostNext
     /\ UNCHANGED <<part, claimerVars, gateVars, laneVars, cursorVars>>
  \/ /\ part = "lanes" /\ Lane!LanesNext
     /\ UNCHANGED <<part, claimerVars, gateVars, hostVars, cursorVars>>
  \/ /\ part = "cursor" /\ Cursor!AcpNext
     /\ UNCHANGED <<part, claimerVars, gateVars, hostVars, laneVars>>

\* The fairness of each part: event loops run, operations and calls settle or
\* time out, backoffs pass.
SupervisionSpec ==
  /\ SupervisionInit
  /\ [][SupervisionNext]_<<part, claimerVars, gateVars, hostVars, laneVars, cursorVars>>
  /\ \A x \in GateRuns : WF_gateVars(part = "gate" /\ Gate!Step(x))
  /\ \A s \in Supervisors : WF_hostVars(part = "host" /\ Host!LoopStep(s))
  /\ \A g \in Lane!Groups : WF_laneVars(part = "lanes" /\ Lane!GroupStep(g))
  /\ WF_cursorVars(part = "cursor" /\ Cursor!Runs)
  /\ WF_cursorVars(part = "cursor" /\ Cursor!CircuitCloses)

\* The counters of the gates count exactly the runs inside: no abort, at any
\* moment, leaks a place or gives one back twice, and a busy profile reserves
\* no global capacity.
GatesCount == part = "gate" => Gate!PlacesCounted /\ Gate!OnePerProfile

\* One process serves a mailbox at a time, and it can be reached: requests are
\* answered by the owner of the journal at the socket path, a profile's mail
\* is taken by one lane, and a drain that runs has its profile's claimer.
OneServer ==
  /\ part = "host" => Host!HostTypeOK /\ Host!ServerIsReachable
  /\ part = "lanes" => Lane!OneLane /\ Lane!DrainHasClaimer

\* A reply holds text of turns of its own room only, also while the Cursor
\* child still works on a prompt that was given up.
RepliesStayInRoom == part = "cursor" => Cursor!RepliesStayInRoom

\* What the supervisor keeps running moves: whoever waits at a gate gets
\* through or is aborted, the local route comes up or another process serves,
\* an admitted group of drains comes up unless it is stopped or excluded by
\* another claimer, and a delivery the Cursor drain has claimed is answered or
\* abandoned.
SupervisedWorkMoves ==
  Gate!WaitingEnds /\ Host!LocalRouteComesUp /\ Lane!GroupComesUp /\ Cursor!DeliveryEnds
=============================================================================
