--------------------------- MODULE SupervisorLanes ---------------------------
(***************************************************************************)
(* The client supervisor's lanes.  Construction refuses a bootstrap that   *)
(* gives one instance to two lanes, and skips a whole drain group when a   *)
(* claimer of one of its profiles is taken.  Each admitted group is a      *)
(* durable loop: take every profile's claimer, start every drain, and on   *)
(* failure stop them all and give the claimers back before the next try.   *)
(***************************************************************************)
EXTENDS Naturals, FiniteSets

CONSTANTS
  Profiles,
  MaxFaults,   \* drain starts that fail
  MaxForeign   \* times another process takes a profile's claimer

VARIABLES
  lanesOf,   \* the bootstrap: the lanes that name each profile's instance
  sup,       \* the supervisor process
  stage,     \* of each drain group's loop
  acquired,  \* profiles whose claimer this turn of the loop acquired
  drain,     \* each group's drain of each profile
  lock,      \* holder of each profile's claimer
  aborted,
  faults,
  foreign

lanesVars == <<lanesOf, sup, stage, acquired, drain, lock, aborted, faults, foreign>>

Groups == {"headless", "cursor"}
Lanes == {"worker", "eventWake", "appServer", "peer"} \cup Groups

Free == "free"
Other == "other"   \* a dedicated drain, or another supervisor

Entries(g) == {p \in Profiles : g \in lanesOf[p]}

LanesInit ==
  /\ lanesOf \in [Profiles -> SUBSET Lanes] /\ sup = "new"
  /\ stage = [g \in Groups |-> "none"] /\ acquired = [g \in Groups |-> {}]
  /\ drain = [g \in Groups |-> [p \in Profiles |-> "idle"]]
  /\ lock \in [Profiles -> {Free, Other}] /\ aborted = FALSE /\ faults = 0 /\ foreign = 0

\* Mutant: the peer lane is not compared with the Cursor ACP lane.
Collides_Peer ==
  {{k, l} : k \in Lanes, l \in Lanes} \ ({{l} : l \in Lanes} \cup {{"peer", "cursor"}})

\* The pairs of lanes that construction compares, each with the ones before it.
Collides ==
  {{"eventWake", "worker"}, {"appServer", "worker"}, {"appServer", "eventWake"}}
    \cup {{"headless", l} : l \in {"worker", "eventWake", "appServer"}}
    \cup {{"cursor", l} : l \in {"worker", "eventWake", "appServer", "headless"}}
    \cup {{"peer", l} : l \in {"worker", "eventWake", "appServer", "headless", "cursor"}}

Refused == \E p \in Profiles : \E pair \in Collides : pair \subseteq lanesOf[p]

(* assertSupervisorMayClaim for every profile: one refusal skips them all, *)
(* for as long as this process lives.                                      *)
Admits(g) ==
  CASE Entries(g) = {} -> "none"
    [] \E p \in Entries(g) : lock[p] # Free -> "skipped"
    [] OTHER -> "ready"

Construct ==
  /\ sup = "new" /\ UNCHANGED <<lanesOf, acquired, drain, lock, aborted, faults, foreign>>
  /\ IF Refused
     THEN sup' = "ended" /\ UNCHANGED stage
     ELSE sup' = "built" /\ stage' = [g \in Groups |-> Admits(g)]

Watch ==
  /\ sup = "built" /\ sup' = "watching"
  /\ stage' = [g \in Groups |-> IF stage[g] = "ready" THEN "acquiring" ELSE stage[g]]
  /\ UNCHANGED <<lanesOf, acquired, drain, lock, aborted, faults, foreign>>

Goes(g, s) == stage' = [stage EXCEPT ![g] = s]

(* The claimers one after the other; a taken one ends the turn, and so     *)
(* does one that this process still has.                                   *)
Acquire(g) ==
  \E p \in Entries(g) \ acquired[g] :
    /\ stage[g] = "acquiring" /\ UNCHANGED <<lanesOf, sup, drain, aborted, faults, foreign>>
    /\ IF lock[p] = Free
       THEN /\ lock' = [lock EXCEPT ![p] = g] /\ UNCHANGED stage
            /\ acquired' = [acquired EXCEPT ![g] = @ \cup {p}]
       ELSE Goes(g, "rollback") /\ UNCHANGED <<lock, acquired>>

StartDrains(g) ==
  /\ stage[g] = "acquiring" /\ acquired[g] = Entries(g) /\ Goes(g, "starting")
  /\ drain' = [drain EXCEPT ![g] = [p \in Profiles |-> IF p \in Entries(g) THEN "starting" ELSE "idle"]]
  /\ UNCHANGED <<lanesOf, sup, acquired, lock, aborted, faults, foreign>>

Settles(g, p, s) ==
  /\ drain[g][p] = "starting" /\ drain' = [drain EXCEPT ![g][p] = s]
  /\ UNCHANGED <<lanesOf, sup, stage, acquired, lock, aborted, foreign>>

DrainStarted(g, p) == Settles(g, p, "running") /\ UNCHANGED faults

DrainFails(g, p) == Settles(g, p, "failed") /\ faults < MaxFaults /\ faults' = faults + 1

AllRunning(g) == \A p \in Entries(g) : drain[g][p] = "running"

\* Mutant: the rollback begins with the first failure.
MayRollBack_First(g) == \E p \in Entries(g) : drain[g][p] = "failed"

\* Promise.all rejects with the first failure; the others are waited for.
MayRollBack(g) ==
  /\ \E p \in Entries(g) : drain[g][p] = "failed"
  /\ \A p \in Entries(g) : drain[g][p] # "starting"

GroupUp(g) ==
  /\ stage[g] = "starting" /\ UNCHANGED <<lanesOf, sup, acquired, drain, lock, aborted, faults, foreign>>
  /\ IF AllRunning(g) THEN Goes(g, "up") ELSE MayRollBack(g) /\ Goes(g, "rollback")

WaitEnds(g) ==
  /\ stage[g] = "up" /\ aborted /\ Goes(g, "rollback")
  /\ UNCHANGED <<lanesOf, sup, acquired, drain, lock, aborted, faults, foreign>>

(* The finally clause: first every drain is stopped ...                    *)
StopDrains(g) ==
  /\ stage[g] = "rollback" /\ Goes(g, "release")
  /\ drain' = [drain EXCEPT ![g] = [p \in Profiles |-> IF @[p] = "starting" THEN @[p] ELSE "idle"]]
  /\ UNCHANGED <<lanesOf, sup, acquired, lock, aborted, faults, foreign>>

\* Mutant: a claimer that was acquired before the failing one is forgotten.
Released_None(g, p) == lock[p]

\* The claimers this group's guards hold.
Released(g, p) == IF lock[p] = g THEN Free ELSE lock[p]

(* ... then the claimers are given back.  The loop's own stop does the     *)
(* same once more, for every profile.                                      *)
Release(g) ==
  /\ stage[g] = "release" /\ Goes(g, IF aborted THEN "done" ELSE "backoff")
  /\ lock' = [p \in Profiles |-> Released(g, p)] /\ acquired' = [acquired EXCEPT ![g] = {}]
  /\ UNCHANGED <<lanesOf, sup, drain, aborted, faults, foreign>>

Retry(g) ==
  /\ stage[g] = "backoff" /\ Goes(g, IF aborted THEN "done" ELSE "acquiring")
  /\ UNCHANGED <<lanesOf, sup, acquired, drain, lock, aborted, faults, foreign>>

Abort ==
  /\ sup = "watching" /\ ~aborted /\ aborted' = TRUE
  /\ UNCHANGED <<lanesOf, sup, stage, acquired, drain, lock, faults, foreign>>

(* watch() returns when every lane has.                                    *)
WatchEnds ==
  /\ sup = "watching" /\ aborted /\ \A g \in Groups : stage[g] \in {"none", "skipped", "done"}
  /\ sup' = "ended" /\ UNCHANGED <<lanesOf, stage, acquired, drain, lock, aborted, faults, foreign>>

(* Another claimer of the profile comes and goes (module ClaimerLocks).    *)
ForeignTakes(p) ==
  /\ lock[p] = Free /\ foreign < MaxForeign /\ foreign' = foreign + 1
  /\ lock' = [lock EXCEPT ![p] = Other]
  /\ UNCHANGED <<lanesOf, sup, stage, acquired, drain, aborted, faults>>

ForeignLeaves(p) ==
  /\ lock[p] = Other /\ lock' = [lock EXCEPT ![p] = Free]
  /\ UNCHANGED <<lanesOf, sup, stage, acquired, drain, aborted, faults, foreign>>

GroupStep(g) ==
  \/ Acquire(g) \/ StartDrains(g) \/ GroupUp(g) \/ WaitEnds(g) \/ StopDrains(g) \/ Release(g) \/ Retry(g)
  \/ \E p \in Profiles : DrainStarted(g, p)

LanesNext ==
  \/ Construct \/ Watch \/ Abort \/ WatchEnds
  \/ \E g \in Groups : GroupStep(g) \/ \E p \in Profiles : DrainFails(g, p)
  \/ \E p \in Profiles : ForeignTakes(p) \/ ForeignLeaves(p)

(* The loops run and a drain's start settles; nobody has to abort, and the *)
(* other claimers do as they like.                                         *)
LanesSpec ==
  /\ LanesInit /\ [][LanesNext]_lanesVars
  /\ \A g \in Groups : WF_lanesVars(GroupStep(g))

-----------------------------------------------------------------------------
(* The lanes that serve a profile at this moment.                          *)
Serving(p) ==
  {l \in lanesOf[p] : IF l \in Groups THEN drain[l][p] = "running" ELSE sup = "watching"}

(* One lane at a time takes a profile's mail.                              *)
OneLane == \A p \in Profiles : Cardinality(Serving(p)) <= 1

(* A drain that runs has its profile's claimer: no start outlives the      *)
(* rollback that released it.                                              *)
DrainHasClaimer ==
  \A g \in Groups, p \in Profiles : drain[g][p] = "running" => lock[p] = g

(* A group that was admitted comes up unless the supervisor is stopped or  *)
(* another process has a claimer of its profiles.                          *)
GroupComesUp ==
  \A g \in Groups :
    stage[g] = "acquiring" ~> stage[g] = "up" \/ aborted \/ \E p \in Profiles : lock[p] = Other
=============================================================================
