------------------------- MODULE SupervisionProofs --------------------------
(***************************************************************************)
(* What the supervisor keeps running is safe, for every set of processes,  *)
(* profiles, runs and deliveries: the invariants that the run of           *)
(* MCSupervision checks, as theorems of its specification.  Each part has  *)
(* an inductive invariant of its own, and the other parts rest meanwhile.  *)
(***************************************************************************)
EXTENDS MCSupervision, FiniteSetTheorems, FunctionTheorems, SequenceTheorems, TLAPS

-----------------------------------------------------------------------------
(* OneDrain and FirstWins for any set of claimers.  Neither is inductive:  *)
(* both follow from what the stage of a claimer says about the locks it    *)
(* holds, and conversely (LocksMatchStages).                               *)

ClaimerStages == {"idle", "inspected", "half", "draining", "stopped"}

ClaimerTypeOK ==
  /\ lock \in [Families -> Claimers \cup {Free}]
  /\ claimer \in [Claimers -> ClaimerStages]

LocksMatchStages ==
  \A c \in Claimers :
    /\ lock["codex"] = c <=> claimer[c] \in {"half", "draining", "stopped"}
    /\ lock["cursor"] = c <=> claimer[c] = "draining"

ClaimerInv == ClaimerTypeOK /\ LocksMatchStages

\* Every claimer takes the Codex lock first.
LEMMA LocksAreOrdered == \A c : First(c) = "codex" /\ Second(c) = "cursor"
  BY DEF First, Second

\* No lock is held.
LEMMA ClaimerInitHolds == ClaimerInit => ClaimerInv
  BY FreeAssumption DEF ClaimerInit, ClaimerInv, ClaimerTypeOK, LocksMatchStages, Families, ClaimerStages

(* Every step of every claimer keeps stages and locks in agreement.        *)
LEMMA ClaimerStepHolds == ClaimerInv /\ [ClaimerNext]_claimerVars => ClaimerInv'
<1> SUFFICES ASSUME ClaimerInv, [ClaimerNext]_claimerVars PROVE ClaimerInv'
  OBVIOUS
<1> USE FreeAssumption DEF ClaimerInv, ClaimerTypeOK, LocksMatchStages, Families, ClaimerStages
<1>1. CASE UNCHANGED claimerVars
  BY <1>1 DEF claimerVars
<1>2. ASSUME NEW c \in Claimers, Inspect(c) PROVE ClaimerInv'
  BY <1>2 DEF Inspect, Moves
<1>3. ASSUME NEW c \in Claimers, TakeFirst(c) PROVE ClaimerInv'
  BY <1>3, LocksAreOrdered DEF TakeFirst, Moves
<1>4. ASSUME NEW c \in Claimers, TakeSecond(c) PROVE ClaimerInv'
  BY <1>4, LocksAreOrdered DEF TakeSecond, Moves
<1>5. ASSUME NEW c \in Claimers, ReleaseSecond(c) PROVE ClaimerInv'
  BY <1>5, LocksAreOrdered DEF ReleaseSecond, Moves
<1>6. ASSUME NEW c \in Claimers, ReleaseFirst(c) PROVE ClaimerInv'
  BY <1>6, LocksAreOrdered DEF ReleaseFirst, Moves
<1>7. ASSUME NEW c \in Claimers, Dies(c) PROVE ClaimerInv'
  BY <1>7 DEF Dies, Moves
<1>8. CASE Launchd
  BY <1>8 DEF Launchd
<1> QED
  BY <1>1, <1>2, <1>3, <1>4, <1>5, <1>6, <1>7, <1>8 DEF ClaimerNext

(* At most one process drains the mailbox, for any number of supervisors   *)
(* and drains.                                                             *)
THEOREM OneDrainHolds == ClaimerSpec => []OneDrain
<1>1. ClaimerInv => OneDrain
  BY DEF ClaimerInv, ClaimerTypeOK, LocksMatchStages, OneDrain, Families
<1> QED
  BY <1>1, ClaimerInitHolds, ClaimerStepHolds, PTL DEF ClaimerSpec

(* The claimer with the first lock finds the second free.                  *)
THEOREM FirstWinsHolds == ClaimerSpec => []FirstWins
<1>1. ClaimerInv => FirstWins
  BY LocksAreOrdered, FreeAssumption DEF ClaimerInv, ClaimerTypeOK, LocksMatchStages, FirstWins, HeldByOther, Families
<1> QED
  BY <1>1, ClaimerInitHolds, ClaimerStepHolds, PTL DEF ClaimerSpec

-----------------------------------------------------------------------------
(* The local messaging host.                                               *)

\* Between the opening of the journal and its closing a supervisor holds the
\* owner lock.
Owning == {"opened", "probed", "cleaned", "bound", "accepting", "serving",
           "closing", "draining", "closed"}
\* Between the bind and the close of the server the path is its own.
Bound == {"bound", "accepting", "serving", "closing"}

HostInv ==
  /\ Host!HostTypeOK
  /\ \A s \in Supervisors : stage[s] \in Owning => owner = s
  /\ \A s \in Supervisors : stage[s] \in Bound => path = s

\* No process owns the journal and the path is unbound.
LEMMA HostInitially == Host!HostInit => HostInv
  BY HostConstants DEF Host!HostInit, HostInv, Host!HostTypeOK, Host!HostAssumption, Host!Nobody, Host!Stages,
     Host!Starting, Host!Stopping, Owning, Bound

\* Every step of a supervisor, and a crash of one, keeps stages, lock and path
\* in agreement.
LEMMA HostStep == HostInv /\ Host!HostNext => HostInv'
<1> SUFFICES ASSUME HostInv, Host!HostNext PROVE HostInv'
  OBVIOUS
<1> USE HostConstants DEF HostInv, Host!HostTypeOK, Host!HostAssumption, Host!Nobody, Host!Stages,
     Host!Starting, Host!Stopping, Owning, Bound, Host!Goes, Host!Fault, Host!ConfigFails, Host!Marks,
     Host!Unchanged, Host!Stale
<1>1. PICK s \in Supervisors : 
    \/ Host!LoopStep(s) \/ Host!PrepareFails(s)
    \/ Host!Construct(s) \/ Host!Activated(s) \/ Host!ActivationTimedOut(s) \/ Host!Abort(s) \/ Host!Crash(s)
  BY DEF Host!HostNext
<1>2. CASE Host!PrepareFails(s) BY <1>2 DEF Host!PrepareFails
<1>3. CASE Host!Construct(s)
  <2>1. failure' = [failure EXCEPT ![s] = FALSE] \/ failure' = [failure EXCEPT ![s] = TRUE]
    BY <1>3 DEF Host!Construct
  <2>2. failure' \in [Supervisors -> BOOLEAN]  BY <2>1
  <2>3. UNCHANGED faults \/ Host!Fault  BY <1>3 DEF Host!Construct
  <2>4. faults' \in 0..MaxFaults  BY <2>3
  <2> QED BY <1>3, <2>2, <2>4 DEF Host!Construct
<1>4. CASE Host!Activated(s) BY <1>4 DEF Host!Activated
<1>5. CASE Host!ActivationTimedOut(s) BY <1>5 DEF Host!ActivationTimedOut
<1>6. CASE Host!Abort(s) BY <1>6 DEF Host!Abort
<1>7. CASE Host!Crash(s) BY <1>7 DEF Host!Crash
<1>8. CASE Host!OpenHost(s) BY <1>8 DEF Host!OpenHost
<1>9. CASE Host!OpenJournal(s) BY <1>9 DEF Host!OpenJournal
<1>10. CASE Host!Probe(s) BY <1>10 DEF Host!Probe
<1>11. CASE Host!Unlink(s) BY <1>11 DEF Host!Unlink
<1>12. CASE Host!Bind(s) BY <1>12 DEF Host!Bind
<1>13. CASE Host!DispatcherStart(s) BY <1>13 DEF Host!DispatcherStart
<1>14. CASE Host!NotifierStart(s)
  <2>1. failure' = [failure EXCEPT ![s] = FALSE] \/ failure' = failure
    BY <1>14 DEF Host!NotifierStart
  <2>2. failure' \in [Supervisors -> BOOLEAN]  BY <2>1
  <2>3. UNCHANGED faults \/ Host!Fault  BY <1>14 DEF Host!NotifierStart
  <2>4. faults' \in 0..MaxFaults  BY <2>3
  <2> QED BY <1>14, <2>2, <2>4 DEF Host!NotifierStart
<1>15. CASE Host!StopHost(s) BY <1>15 DEF Host!StopHost
<1>16. CASE Host!CloseServer(s) BY <1>16 DEF Host!CloseServer
<1>17. CASE Host!Drained(s) BY <1>17 DEF Host!Drained
<1>18. CASE Host!CloseJournal(s) BY <1>18 DEF Host!CloseJournal
<1>19. CASE Host!TurnFails(s) BY <1>19 DEF Host!TurnFails, Host!Released
<1>20. CASE Host!Retry(s) BY <1>20 DEF Host!Retry
<1>21. CASE Host!EndLoop(s) BY <1>21 DEF Host!EndLoop
<1> QED BY <1>1, <1>2, <1>3, <1>4, <1>5, <1>6, <1>7, <1>8, <1>9, <1>10, <1>11, <1>12, <1>13, <1>14,
     <1>15, <1>16, <1>17, <1>18, <1>19, <1>20, <1>21 DEF Host!LoopStep

-----------------------------------------------------------------------------
(* The lanes of the profiles.                                              *)

LaneStages == {"none", "skipped", "ready", "acquiring", "starting", "up", "rollback", "release",
               "backoff", "done"}

LaneTyped ==
  /\ lanesOf \in [Profiles -> SUBSET Lane!Lanes]
  /\ group \in [Lane!Groups -> LaneStages]
  /\ acquired \in [Lane!Groups -> SUBSET Profiles]
  /\ drain \in [Lane!Groups -> [Profiles -> {"idle", "starting", "running", "failed"}]]
  /\ taken \in [Profiles -> {Lane!Free, Lane!Other} \cup Lane!Groups]

\* What a group acquired it holds; a drain that is not idle belongs to a
\* profile of its group whose claimer was acquired, in a turn that has not
\* stopped it yet; none is still starting when the turn is given back.
LaneInv ==
  /\ LaneTyped
  /\ \A g \in Lane!Groups : \A p \in acquired[g] : taken[p] = g
  /\ \A g \in Lane!Groups, p \in Profiles : drain[g][p] # "idle" =>
       p \in acquired[g] /\ g \in lanesOf[p] /\ group[g] \in {"starting", "up", "rollback"}
  /\ \A g \in Lane!Groups, p \in Profiles : drain[g][p] = "starting" => group[g] = "starting"
  /\ \A g \in Lane!Groups : sup = "new" \/ Lane!Refused => group[g] = "none"
  /\ sup = "watching" => ~Lane!Refused
  /\ sup \in {"new", "built", "watching", "ended"}
  /\ sup = "built" => ~Lane!Refused

\* No group has started.
LEMMA LaneInitially == Lane!LanesInit => LaneInv
  BY DEF Lane!LanesInit, LaneInv, LaneTyped, LaneStages, Lane!Groups, Lane!Lanes, Lane!Free, Lane!Other

\* Every step of a group, its drains and the claimers outside keeps a running
\* drain covered by the claimer its group has acquired.
LEMMA LaneStep == LaneInv /\ Lane!LanesNext => LaneInv'
<1> SUFFICES ASSUME LaneInv, Lane!LanesNext PROVE LaneInv'
  OBVIOUS
<1> USE DEF LaneInv, LaneTyped, LaneStages, Lane!Goes
<1>0. UNCHANGED lanesOf
  BY Zenon DEF Lane!LanesNext, Lane!Construct, Lane!Watch, Lane!Abort, Lane!WatchEnds, Lane!GroupStep, Lane!Acquire,
    Lane!StartDrains, Lane!GroupUp, Lane!WaitEnds, Lane!StopDrains, Lane!Release, Lane!Retry, Lane!DrainStarted,
    Lane!DrainFails, Lane!Settles, Lane!ForeignTakes, Lane!ForeignLeaves
<1>r. Lane!Refused' = Lane!Refused
  BY <1>0 DEF Lane!Refused
<1>1. CASE Lane!Construct  BY <1>1, <1>0, <1>r DEF Lane!Construct, Lane!Admits
<1>2. CASE Lane!Watch BY <1>2, <1>0, <1>r DEF Lane!Watch
<1>3. CASE Lane!Abort BY <1>3, <1>0, <1>r DEF Lane!Abort
<1>4. CASE Lane!WatchEnds BY <1>4, <1>0, <1>r DEF Lane!WatchEnds
<1>5. ASSUME NEW g \in Lane!Groups, Lane!Acquire(g) PROVE LaneInv'
  <2>1. PICK p \in Profiles \ acquired[g] : g \in lanesOf[p]
    /\ group[g] = "acquiring" /\ UNCHANGED <<sup, drain>>
    /\ IF taken[p] = Lane!Free
       THEN /\ taken' = [taken EXCEPT ![p] = g] /\ UNCHANGED group
            /\ acquired' = [acquired EXCEPT ![g] = @ \cup {p}]
       ELSE Lane!Goes(g, "rollback") /\ UNCHANGED <<taken, acquired>>
    BY <1>5 DEF Lane!Acquire, Lane!Entries
  <2>2. CASE taken[p] = Lane!Free
    <3>0. Lane!Free \notin Lane!Groups  BY DEF Lane!Free, Lane!Groups
    <3>1. taken' = [taken EXCEPT ![p] = g] /\ UNCHANGED group /\ acquired' = [acquired EXCEPT ![g] = @ \cup {p}]
      BY <2>1, <2>2
    <3>2. LaneTyped'  BY <3>1, <2>1, <1>0
    <3>3. (\A h \in Lane!Groups : \A q \in acquired[h] : taken[q] = h)'
      BY <3>0, <3>1, <2>1, <2>2
    <3> QED BY <3>1, <3>2, <3>3, <2>1, <1>0, <1>r
  <2>3. CASE taken[p] # Lane!Free
    <3>1. group' = [group EXCEPT ![g] = "rollback"] /\ UNCHANGED <<taken, acquired, sup, drain>> /\ group[g] = "acquiring"
      BY <2>1, <2>3
    <3> QED BY <3>1, <1>0, <1>r
  <2> QED BY <2>2, <2>3
<1>6. ASSUME NEW g \in Lane!Groups, Lane!StartDrains(g) PROVE LaneInv'
  BY <1>6, <1>0, <1>r DEF Lane!StartDrains, Lane!Entries
<1>7. ASSUME NEW g \in Lane!Groups, NEW p \in Profiles, NEW s \in {"running", "failed"}, Lane!Settles(g, p, s) PROVE LaneInv'
  BY <1>7, <1>0, <1>r DEF Lane!Settles
<1>8. ASSUME NEW g \in Lane!Groups, Lane!GroupUp(g) PROVE LaneInv'
  <2>1. \A p \in Profiles : drain[g][p] # "starting"
    BY <1>8 DEF Lane!GroupUp, Lane!AllRunning, Lane!MayRollBack, Lane!Entries
  <2>2. group' = [group EXCEPT ![g] = "up"] \/ group' = [group EXCEPT ![g] = "rollback"]
    BY <1>8 DEF Lane!GroupUp
  <2>3. group[g] = "starting" /\ UNCHANGED <<sup, acquired, drain, taken>>
    BY <1>8 DEF Lane!GroupUp
  <2>4. CASE group' = [group EXCEPT ![g] = "up"]  BY <2>1, <2>4, <2>3, <1>0, <1>r
  <2>5. CASE group' = [group EXCEPT ![g] = "rollback"]  BY <2>1, <2>5, <2>3, <1>0, <1>r
  <2> QED BY <2>2, <2>4, <2>5
<1>9. ASSUME NEW g \in Lane!Groups, Lane!WaitEnds(g) PROVE LaneInv'
  BY <1>9, <1>0, <1>r DEF Lane!WaitEnds
<1>10. ASSUME NEW g \in Lane!Groups, Lane!StopDrains(g) PROVE LaneInv'
  <2>1. \A p \in Profiles : drain[g][p] # "starting"
    BY <1>10 DEF Lane!StopDrains
  <2>2. drain' = [drain EXCEPT ![g] = [p \in Profiles |-> "idle"]]
    BY <1>10, <2>1 DEF Lane!StopDrains
  <2>3. group' = [group EXCEPT ![g] = "release"] /\ group[g] = "rollback" /\ UNCHANGED <<sup, acquired, taken>>
    BY <1>10 DEF Lane!StopDrains
  <2> QED BY <2>2, <2>3, <1>0, <1>r
<1>11. ASSUME NEW g \in Lane!Groups, Lane!Release(g) PROVE LaneInv'
  <2>1. group' = [group EXCEPT ![g] = "done"] \/ group' = [group EXCEPT ![g] = "backoff"]
    BY <1>11 DEF Lane!Release
  <2>2. /\ group[g] = "release" /\ UNCHANGED <<sup, drain>>
        /\ taken' = [p \in Profiles |-> IF taken[p] = g THEN Lane!Free ELSE taken[p]]
        /\ acquired' = [acquired EXCEPT ![g] = {}]
    BY <1>11 DEF Lane!Release, Lane!Released
  <2>3. LaneTyped'  BY <2>1, <2>2, <1>0
  <2>4. (\A h \in Lane!Groups : \A q \in acquired[h] : taken[q] = h)'
    BY <2>2
  <2> QED BY <2>1, <2>2, <2>3, <2>4, <1>0, <1>r
<1>12. ASSUME NEW g \in Lane!Groups, Lane!Retry(g) PROVE LaneInv'
  BY <1>12, <1>0, <1>r DEF Lane!Retry
<1>13. ASSUME NEW p \in Profiles, Lane!ForeignTakes(p) \/ Lane!ForeignLeaves(p) PROVE LaneInv'
  BY <1>13, <1>0, <1>r DEF Lane!ForeignTakes, Lane!ForeignLeaves, Lane!Free, Lane!Other, Lane!Groups
<1>14. ASSUME NEW g \in Lane!Groups, Lane!GroupStep(g) PROVE LaneInv'
  BY <1>14, <1>5, <1>6, <1>7, <1>8, <1>9, <1>10, <1>11, <1>12 DEF Lane!GroupStep, Lane!DrainStarted
<1>15. ASSUME NEW g \in Lane!Groups, NEW p \in Profiles, Lane!DrainFails(g, p) PROVE LaneInv'
  BY <1>15, <1>7 DEF Lane!DrainFails
<1> QED BY <1>1, <1>2, <1>3, <1>4, <1>13, <1>14, <1>15 DEF Lane!LanesNext

\* Construction compares every two lanes: a profile of a bootstrap it did not
\* refuse has one lane at most.
LEMMA LanesCompared ==
  ASSUME LaneInv, ~Lane!Refused, NEW p \in Profiles, NEW k \in lanesOf[p], NEW l \in lanesOf[p]
  PROVE  k = l
<1>1. k \in Lane!Lanes /\ l \in Lane!Lanes
  BY DEF LaneInv, LaneTyped
<1>2. {k, l} \notin Lane!Collides
  BY DEF Lane!Refused
<1>3. ASSUME k # l PROVE {k, l} \in Lane!Collides \/ {l, k} \in Lane!Collides
  BY <1>1, <1>3 DEF Lane!Lanes, Lane!Groups, Lane!Collides
<1>4. {l, k} = {k, l}
  OBVIOUS
<1> QED BY <1>2, <1>3, <1>4

\* The cardinality the module of the lanes speaks of is the usual one.
LEMMA LaneCardinality == \A S : Lane!Cardinality(S) = Cardinality(S)
  BY Zenon DEF Lane!Cardinality, Cardinality

\* One lane takes a mailbox, and a drain runs under its claimer.
LEMMA LaneSafe == LaneInv => Lane!OneLane /\ Lane!DrainHasClaimer
<1> SUFFICES ASSUME LaneInv PROVE Lane!OneLane /\ Lane!DrainHasClaimer
  OBVIOUS
<1>1. Lane!DrainHasClaimer
  BY DEF LaneInv, LaneTyped, Lane!DrainHasClaimer
<1>2. ASSUME NEW p \in Profiles PROVE Cardinality(Lane!Serving(p)) <= 1
  <2>1. CASE Lane!Refused
    <3>1. \A l \in Lane!Serving(p) : FALSE
      BY <2>1 DEF LaneInv, LaneTyped, Lane!Serving
    <3>2. Lane!Serving(p) = {}
      BY <3>1
    <3> QED BY <3>2, FS_EmptySet
  <2>2. CASE ~Lane!Refused
    <3>1. CASE Lane!Serving(p) = {}
      BY <3>1, FS_EmptySet
    <3>2. CASE Lane!Serving(p) # {}
      <4>1. PICK l : l \in Lane!Serving(p)
        BY <3>2
      <4>2. \A k \in Lane!Serving(p) : k = l
        <5> SUFFICES ASSUME NEW k \in Lane!Serving(p) PROVE k = l
          OBVIOUS
        <5>1. k \in lanesOf[p] /\ l \in lanesOf[p]
          BY <4>1 DEF Lane!Serving
        <5> QED BY <5>1, <2>2, LanesCompared
      <4>3. Lane!Serving(p) = {l}
        BY <4>1, <4>2
      <4> QED BY <4>3, FS_Singleton
    <3> QED BY <3>1, <3>2
  <2> QED BY <2>1, <2>2
<1>3. \A p \in Profiles : Cardinality(Lane!Serving(p)) <= 1
  BY <1>2
<1>4. Lane!OneLane
  BY <1>3, LaneCardinality DEF Lane!OneLane
<1> QED BY <1>1, <1>4

-----------------------------------------------------------------------------
(* The Cursor runtime.                                                     *)

\* A turn is the prompt of one attempt at a delivery.
CursorTurns == Deliveries \X Nat

\* The steps of runDelivery.
CursorStages == {"none", "acquire", "ready", "load", "new", "config", "prompt", "reply", "ack"}

\* A step of runDelivery is about a delivery.
CursorTyped ==
  /\ reply \in [Deliveries -> SUBSET CursorTurns]
  /\ job \in [d : Deliveries \cup {0}, pc : CursorStages, text : SUBSET CursorTurns]
  /\ job.pc # "none" => job.d \in Deliveries
  /\ turns \subseteq CursorTurns
  /\ tries \in [Deliveries -> Nat]

\* What the listener has collected is of the room it listens to.
CursorInv ==
  /\ CursorTyped
  /\ Cursor!RepliesStayInRoom
  /\ \A t \in job.text : RoomOf[t[1]] = RoomOf[job.d]

\* No job, no turn and no reply.
LEMMA CursorInitially == Cursor!AcpInit => CursorInv
  BY DEF Cursor!AcpInit, CursorInv, CursorTyped, CursorStages, Cursor!RepliesStayInRoom, Cursor!NoJob

\* A job that keeps its delivery and its text, or is given up, keeps the
\* invariant when the replies, the turns and the attempts are as they were.
LEMMA CursorJobOnly ==
  ASSUME CursorInv, UNCHANGED <<reply, tries>>, turns' \subseteq turns,
         \/ job' = job
         \/ job' = Cursor!NoJob
         \/ \E pc \in CursorStages \ {"none"} : job.pc # "none" /\ job' = [job EXCEPT !.pc = pc]
  PROVE  CursorInv'
<1> USE DEF CursorInv, CursorTyped, CursorStages, Cursor!RepliesStayInRoom
<1>1. CASE job' = job  BY <1>1
<1>2. CASE job' = Cursor!NoJob
  <2>1. job'.text = {} /\ job'.pc = "none" /\ job' \in [d : Deliveries \cup {0}, pc : CursorStages, text : SUBSET CursorTurns]
    BY <1>2 DEF Cursor!NoJob
  <2> QED  BY <1>2, <2>1
<1>3. CASE \E pc \in CursorStages \ {"none"} : job.pc # "none" /\ job' = [job EXCEPT !.pc = pc]
  <2>1. PICK pc \in CursorStages \ {"none"} : job.pc # "none" /\ job' = [job EXCEPT !.pc = pc]
    BY <1>3
  <2>2. job'.text = job.text /\ job'.d = job.d /\ job' \in [d : Deliveries \cup {0}, pc : CursorStages, text : SUBSET CursorTurns]
    BY <2>1
  <2> QED  BY <2>1, <2>2
<1> QED BY <1>1, <1>2, <1>3

\* Every step of the drain and of its Cursor child keeps what it was told and
\* what it says to the room of the delivery.
LEMMA CursorStep == CursorInv /\ Cursor!AcpNext => CursorInv'
<1> SUFFICES ASSUME CursorInv, Cursor!AcpNext PROVE CursorInv'
  OBVIOUS
<1> USE DEF CursorStages, Cursor!At, Cursor!To, Cursor!Failed
\* The steps that touch the job's stage only.
<1>1. CASE \/ Cursor!AckReplied \/ Cursor!Spawn \/ Cursor!EnsureReady \/ Cursor!CircuitCloses
           \/ Cursor!ReadyFails \/ Cursor!ChildExits \/ Cursor!CallFails \/ Cursor!EmptyAnswer
           \/ Cursor!PromptTimesOut \/ Cursor!Ack \/ Cursor!AckFails \/ Cursor!Restart
           \/ (\E r \in Rooms : Cursor!SessionLost(r)) \/ (\E t \in turns : Cursor!Asks(t))
           \/ (\E t \in turns : Cursor!Answers(t))
  <2>1. UNCHANGED <<reply, tries>> /\ turns' \subseteq turns /\ (job' = job \/ job' = Cursor!NoJob)
    BY <1>1 DEF Cursor!AckReplied, Cursor!Spawn, Cursor!EnsureReady, Cursor!CircuitCloses, 
       Cursor!ReadyFails, Cursor!ChildExits, Cursor!CallFails, Cursor!EmptyAnswer,
       Cursor!PromptTimesOut, Cursor!Ack, Cursor!AckFails, Cursor!Restart, Cursor!SessionLost, Cursor!Asks, Cursor!Answers
  <2> QED BY <2>1, CursorJobOnly
<1>2. CASE Cursor!Acquire \/ Cursor!Admit \/ Cursor!SessionLoad \/ Cursor!SessionUnknown \/ Cursor!SessionLoadFails
           \/ Cursor!SessionNew
  <2>1. /\ UNCHANGED <<reply, tries>> /\ turns' \subseteq turns /\ job.pc # "none"
        /\ \/ job' = Cursor!NoJob
           \/ \E pc \in CursorStages \ {"none"} : job' = [job EXCEPT !.pc = pc]
    BY <1>2 DEF Cursor!Acquire, Cursor!Admit, Cursor!SessionLoad, Cursor!SessionUnknown, Cursor!SessionLoadFails,
         Cursor!SessionNew
  <2> QED BY <2>1, CursorJobOnly
<1> USE DEF CursorInv, CursorTyped, CursorStages, Cursor!RepliesStayInRoom
<1>3. ASSUME NEW d \in Deliveries, Cursor!Resolve(d) PROVE CursorInv'
  BY <1>3 DEF Cursor!Resolve
<1>4. CASE Cursor!SessionPrompt
  <2>1. job' = [job EXCEPT !.pc = "prompt"] /\ UNCHANGED reply /\ job.d \in Deliveries
    BY <1>4 DEF Cursor!SessionPrompt
  <2>2. job'.text = job.text /\ job'.d = job.d /\ job' \in [d : Deliveries \cup {0}, pc : CursorStages, text : SUBSET CursorTurns]
    BY <2>1
  <2>3. tries' \in [Deliveries -> Nat]  BY <1>4 DEF Cursor!SessionPrompt
  <2>4. turns' \subseteq CursorTurns  BY <2>1, <1>4 DEF Cursor!SessionPrompt, CursorTurns
  <2> QED BY <2>1, <2>2, <2>3, <2>4
<1>5. ASSUME NEW t \in turns, Cursor!Update(t) PROVE CursorInv'
  <2>1. job' = [job EXCEPT !.text = @ \cup {t}] /\ UNCHANGED <<reply, tries, turns>> /\ RoomOf[t[1]] = RoomOf[job.d] /\ job.pc # "none"
    BY <1>5 DEF Cursor!Update, Cursor!Hears, Cursor!Room
  <2>2. job'.text = job.text \cup {t} /\ job'.d = job.d /\ job' \in [d : Deliveries \cup {0}, pc : CursorStages, text : SUBSET CursorTurns]
    BY <2>1
  <2> QED BY <2>1, <2>2
<1>6. ASSUME NEW t \in turns, Cursor!TurnEnds(t) PROVE CursorInv'
  <2>1. CASE ~(job.pc = "prompt" /\ t = Cursor!MyTurn)
    BY <2>1, <1>6, CursorJobOnly DEF Cursor!TurnEnds
  <2>2. CASE job.pc = "prompt" /\ t = Cursor!MyTurn
    <3>1. t[1] = job.d  BY <2>2 DEF Cursor!MyTurn
    <3>2. job' = [[job EXCEPT !.pc = "reply"] EXCEPT !.text = @ \cup {t}]
      BY <2>2, <1>6 DEF Cursor!TurnEnds
    <3>3. job'.text = job.text \cup {t} /\ job'.d = job.d /\ job' \in [d : Deliveries \cup {0}, pc : CursorStages, text : SUBSET CursorTurns]
      BY <3>2
    <3>4. UNCHANGED <<reply, tries>> /\ turns' \subseteq turns  BY <1>6 DEF Cursor!TurnEnds
    <3> QED BY <3>1, <3>3, <3>4, <2>2
  <2> QED BY <2>1, <2>2
<1>7. ASSUME reply' = [reply EXCEPT ![job.d] = job.text], job.pc = "reply" PROVE /\ reply' \in [Deliveries -> SUBSET CursorTurns]
        /\ Cursor!RepliesStayInRoom'
  <2>1. job.text \in SUBSET CursorTurns  OBVIOUS
  <2>2. reply' \in [Deliveries -> SUBSET CursorTurns] BY <1>7, <2>1
  <2>3. \A d \in Deliveries : \A t \in reply'[d] : RoomOf[t[1]] = RoomOf[d]
    BY <1>7, <2>1
  <2> QED BY <2>2, <2>3
<1>8. CASE Cursor!Reply
  <2>1. job' = [job EXCEPT !.pc = "ack"] /\ UNCHANGED <<tries, turns>> /\ job.pc = "reply" /\ reply' = [reply EXCEPT ![job.d] = job.text]
    BY <1>8 DEF Cursor!Reply
  <2>2. job'.text = job.text /\ job'.d = job.d /\ job' \in [d : Deliveries \cup {0}, pc : CursorStages, text : SUBSET CursorTurns]
    BY <2>1
  <2> QED BY <2>1, <2>2, <1>7
<1>9. CASE Cursor!ReplyFails
  <2>1. CASE UNCHANGED reply
    BY <2>1, <1>9, CursorJobOnly DEF Cursor!ReplyFails
  <2>2. CASE reply' = [reply EXCEPT ![job.d] = job.text]
    <3>1. job' = Cursor!NoJob /\ UNCHANGED <<tries, turns>> /\ job.pc = "reply"
      BY <1>9 DEF Cursor!ReplyFails
    <3>2. job'.text = {} /\ job'.pc = "none" /\ job' \in [d : Deliveries \cup {0}, pc : CursorStages, text : SUBSET CursorTurns]
      BY <3>1 DEF Cursor!NoJob
    <3> QED BY <3>1, <3>2, <2>2, <1>7
  <2> QED BY <2>1, <2>2, <1>9 DEF Cursor!ReplyFails
<1> QED BY <1>1, <1>2, <1>3, <1>4, <1>5, <1>6, <1>8, <1>9 DEF Cursor!AcpNext, Cursor!Runs

-----------------------------------------------------------------------------
(* The reasoner gate.                                                      *)

GateStages == {"new", "pwait", "padmitted", "gwait", "gadmitted", "running", "settling", "done"}
InGlobalGate == {"gadmitted", "running"}
InProfileGate == {"padmitted", "gwait", "gadmitted", "running", "settling"}
RunsOf(p) == {x \in GateRuns : ProfileOf[x] = p}

Inside(P, T, st) == {x \in P : st[x] \in T}

\* One gate: P its runs, T the stages of a run inside, W that of a run in its
\* queue, M its places.
GateOK(P, T, W, M, st, q, a) ==
  /\ q \in Seq(P)
  /\ \A i \in 1..Len(q), j \in 1..Len(q) : q[i] = q[j] => i = j
  /\ \A i \in 1..Len(q) : st[q[i]] = W
  /\ a = Cardinality(Inside(P, T, st))
  /\ a <= M

\* The cardinality the module of the gate speaks of is the usual one.
LEMMA GateCardinality == \A S : Gate!Cardinality(S) = Cardinality(S)
  BY Zenon DEF Gate!Cardinality, Cardinality

\* A slice of a queue.
LEMMA Slice ==
  ASSUME NEW P, NEW q \in Seq(P), NEW m \in Nat, NEW n \in Nat, 1 <= m, n <= Len(q), m <= n + 1
  PROVE  /\ SubSeq(q, m, n) \in Seq(P) /\ Len(SubSeq(q, m, n)) = n - m + 1
         /\ \A i \in 1..(n - m + 1) : SubSeq(q, m, n)[i] = q[m + i - 1]
<1>1. Len(q) \in Nat /\ \A i \in m..n : q[i] \in P
  OBVIOUS
<1> QED BY <1>1, SubSeqProperties

\* The front of a queue without duplicates has as many members as places.
LEMMA FrontCounts ==
  ASSUME NEW P, NEW q \in Seq(P), NEW n \in 0..Len(q),
         \A i \in 1..Len(q), j \in 1..Len(q) : q[i] = q[j] => i = j
  PROVE  IsFiniteSet(Gate!Admitted(q, n)) /\ Cardinality(Gate!Admitted(q, n)) = n
<1> DEFINE f == [i \in 1..n |-> q[i]]
           S == Gate!Admitted(q, n)
<1>0. /\ n \in Nat /\ Len(q) \in Nat /\ n <= Len(q)
      /\ \A i \in 1..n : i \in 1..Len(q)
  OBVIOUS
<1>a. f \in [1..n -> S]
  BY DEF Gate!Admitted
<1>b. \A i, j \in 1..n : f[i] = f[j] => i = j
  BY <1>0
<1>c. \A x \in S : \E i \in 1..n : f[i] = x
  BY DEF Gate!Admitted
<1>1. f \in Bijection(1..n, S)
  BY <1>a, <1>b, <1>c, Fun_IsBij
<1>2. ExistsBijection(1..n, S)
  BY <1>1 DEF ExistsBijection
<1> HIDE DEF S, f
<1>3. n \in Nat
  OBVIOUS
<1>4. IsFiniteSet(S) /\ Cardinality(S) = n
  BY <1>2, <1>3, FS_CountingElements, FS_NatBijection
<1> QED BY <1>4 DEF S

\* admitNext: the front of the queue gets in, the rest waits on.
LEMMA GateAdmits ==
  ASSUME NEW P, IsFiniteSet(P), NEW T, NEW W, W \notin T, NEW A \in T, NEW M \in Nat, NEW st, NEW q, NEW a,
         GateOK(P, T, W, M, st, q, a), NEW st2, NEW n, n = Gate!Room(q, a, M),
         \A x \in P : st2[x] = IF x \in Gate!Admitted(q, n) THEN A ELSE st[x]
  PROVE  GateOK(P, T, W, M, st2, Gate!Rest(q, n), a + n)
<1> DEFINE F == Gate!Admitted(q, n)
           I == Inside(P, T, st)
<1>1. IsFiniteSet(I) /\ a \in Nat /\ q \in Seq(P) /\ Len(q) \in Nat /\ a = Cardinality(I)
  <2>1. I \subseteq P
    BY DEF Inside
  <2>2. IsFiniteSet(I)
    BY <2>1, FS_Subset
  <2>3. a = Cardinality(I) /\ q \in Seq(P)
    BY DEF GateOK
  <2> QED BY <2>2, <2>3, FS_CardinalityType
<1>2. n \in 0..Len(q) /\ a + n <= M
  BY <1>1 DEF GateOK, Gate!Room
<1>3. IsFiniteSet(F) /\ Cardinality(F) = n
  BY <1>1, <1>2, FrontCounts DEF GateOK
<1>4. F \subseteq P
  BY <1>1, <1>2 DEF Gate!Admitted
<1>5. F \cap I = {}
  BY <1>1, <1>2 DEF Gate!Admitted, Inside, GateOK
<1>6. Inside(P, T, st2) = F \cup I
  BY <1>4 DEF Inside
<1>7. Cardinality(Inside(P, T, st2)) = a + n
  <2> HIDE DEF F, I
  <2>1. Cardinality(F \cup I) = Cardinality(F) + Cardinality(I) - Cardinality(F \cap I)
    BY <1>1, <1>3, FS_Union
  <2>2. Cardinality(F \cap I) = 0
    BY <1>5, FS_EmptySet
  <2> QED BY <2>1, <2>2, <1>1, <1>2, <1>3, <1>6
<1> DEFINE r == Gate!Rest(q, n)
<1>8. r \in Seq(P) /\ Len(r) = Len(q) - n /\ \A i \in 1..Len(r) : r[i] = q[n + i]
  <2>1. n + 1 \in Nat /\ n + 1 >= 1 /\ Len(q) \in Nat /\ n + 1 <= Len(q) + 1
    BY <1>1, <1>2
  <2>2. /\ r \in Seq(P) /\ Len(r) = Len(q) - (n + 1) + 1
        /\ \A i \in 1..(Len(q) - (n + 1) + 1) : r[i] = q[n + 1 + i - 1]
    BY <1>1, <2>1, Slice DEF Gate!Rest
  <2> HIDE DEF r
  <2> QED BY <1>1, <1>2, <2>2
<1> HIDE DEF r
<1>9. \A i \in 1..Len(r), j \in 1..Len(r) : r[i] = r[j] => i = j
  <2> SUFFICES ASSUME NEW i \in 1..Len(r), NEW j \in 1..Len(r), r[i] = r[j] PROVE i = j
    OBVIOUS
  <2>1. n + i \in 1..Len(q) /\ n + j \in 1..Len(q) /\ q[n + i] = q[n + j]
    BY <1>1, <1>2, <1>8
  <2>2. n + i = n + j
    BY <2>1 DEF GateOK
  <2> QED BY <2>2, <1>2
<1>10. \A i \in 1..Len(r) : st2[r[i]] = W
  <2> SUFFICES ASSUME NEW i \in 1..Len(r) PROVE st2[r[i]] = W
    OBVIOUS
  <2>1. r[i] = q[n + i] /\ n + i \in 1..Len(q)
    BY <1>8, <1>1, <1>2
  <2>2. r[i] \notin F
    BY <2>1, <1>1, <1>2 DEF Gate!Admitted, GateOK
  <2>3. r[i] \in P
    BY <2>1, <1>1
  <2>4. st[r[i]] = W
    BY <2>1 DEF GateOK
  <2> QED BY <2>2, <2>3, <2>4
<1> HIDE DEF r
<1>11. GateOK(P, T, W, M, st2, r, a + n)
  BY <1>2, <1>7, <1>8, <1>9, <1>10 DEF GateOK
<1> QED BY <1>11 DEF r

\* Whoever moves elsewhere disturbs nothing.
LEMMA GateSame ==
  ASSUME NEW P, NEW T, NEW W, NEW M, NEW st, NEW q, NEW a, GateOK(P, T, W, M, st, q, a), NEW st2,
         \A x \in P : /\ st2[x] \in T <=> st[x] \in T
                      /\ st[x] = W => st2[x] = W
  PROVE  GateOK(P, T, W, M, st2, q, a)
<1>1. Inside(P, T, st2) = Inside(P, T, st)
  BY DEF Inside
<1>2. \A i \in 1..Len(q) : q[i] \in P
  BY DEF GateOK
<1> QED BY <1>1, <1>2 DEF GateOK

\* push: a run from outside waits at the end.
LEMMA GateQueues ==
  ASSUME NEW P, NEW T, NEW W, W \notin T, NEW M, NEW st, NEW q, NEW a, GateOK(P, T, W, M, st, q, a), NEW st2,
         NEW x \in P, st[x] # W, st[x] \notin T, st2[x] = W, \A y \in P \ {x} : st2[y] = st[y]
  PROVE  GateOK(P, T, W, M, st2, Append(q, x), a)
<1>1. Inside(P, T, st2) = Inside(P, T, st)
  BY DEF Inside
<1>2. q \in Seq(P) /\ Len(q) \in Nat /\ \A i \in 1..Len(q) : q[i] \in P /\ q[i] # x
  BY DEF GateOK
<1> DEFINE r == Append(q, x)
<1>3. r \in Seq(P) /\ Len(r) = Len(q) + 1 /\ r[Len(q) + 1] = x /\ \A i \in 1..Len(q) : r[i] = q[i]
  BY <1>2
<1> HIDE DEF r
<1>4. \A i \in 1..Len(r), j \in 1..Len(r) : r[i] = r[j] => i = j
  BY <1>2, <1>3 DEF GateOK
<1>5. \A i \in 1..Len(r) : st2[r[i]] = W
  BY <1>2, <1>3 DEF GateOK
<1>6. GateOK(P, T, W, M, st2, r, a)
  BY <1>1, <1>3, <1>4, <1>5 DEF GateOK
<1> QED BY <1>6 DEF r

\* The finally clause: a run that was inside leaves and its place is free.
LEMMA GateLeaves ==
  ASSUME NEW P, IsFiniteSet(P), NEW T, NEW W, NEW M \in Nat, NEW st, NEW q, NEW a, GateOK(P, T, W, M, st, q, a), NEW st2,
         W \notin T, NEW x \in P, st[x] \in T, st2[x] \notin T, \A y \in P \ {x} : st2[y] = st[y]
  PROVE  GateOK(P, T, W, M, st2, q, a - 1)
<1>1. Inside(P, T, st2) = Inside(P, T, st) \ {x} /\ x \in Inside(P, T, st)
  BY DEF Inside
<1>2. IsFiniteSet(Inside(P, T, st))
  <2>1. Inside(P, T, st) \subseteq P  BY DEF Inside
  <2> QED BY <2>1, FS_Subset
<1>3. Cardinality(Inside(P, T, st2)) = Cardinality(Inside(P, T, st)) - 1
  BY <1>1, <1>2, FS_RemoveElement
<1>4. \A i \in 1..Len(q) : q[i] \in P /\ q[i] # x
  BY DEF GateOK
<1>5. a = Cardinality(Inside(P, T, st)) /\ a \in Nat /\ a <= M
  BY <1>2, FS_CardinalityType DEF GateOK
<1> QED BY <1>3, <1>4, <1>5 DEF GateOK

\* onAbort: the entry of a waiting run is taken out of the queue.
LEMMA GateDrops ==
  ASSUME NEW P, NEW T, NEW W, NEW M, NEW st, NEW q, NEW a, GateOK(P, T, W, M, st, q, a), NEW st2,
         W \notin T, NEW x \in P, st[x] = W, st2[x] \notin T, \A y \in P \ {x} : st2[y] = st[y]
  PROVE  GateOK(P, T, W, M, st2, Gate!Without(q, x), a)
<1>1. Inside(P, T, st2) = Inside(P, T, st)
  BY DEF Inside
<1>2. q \in Seq(P) /\ Len(q) \in Nat
  BY DEF GateOK
<1>3. CASE \E i \in 1..Len(q) : q[i] = x
  <2> DEFINE k == CHOOSE i \in 1..Len(q) : q[i] = x
             r == Gate!Without(q, x)
  <2>1. k \in 1..Len(q) /\ q[k] = x
    BY <1>3
  <2>2. r = Gate!RemoveAt(q, k)
    BY <1>3 DEF Gate!Without
  <2> HIDE DEF k, r
  <2>3. /\ r \in Seq(P) /\ Len(r) = Len(q) - 1
        /\ \A i \in 1..Len(r) : r[i] = IF i < k THEN q[i] ELSE q[i + 1]
    <3> DEFINE front == SubSeq(q, 1, k - 1)
               back == SubSeq(q, k + 1, Len(q))
    <3>1. k \in Nat /\ k >= 1 /\ k <= Len(q) /\ k - 1 \in Nat /\ k + 1 \in Nat
      BY <1>2, <2>1
    <3>2. /\ front \in Seq(P) /\ Len(front) = (k - 1) - 1 + 1
          /\ \A i \in 1..((k - 1) - 1 + 1) : front[i] = q[1 + i - 1]
      <4> DEFINE e == k - 1
      <4>1. e \in Nat /\ e <= Len(q)  BY <1>2, <3>1
      <4> HIDE DEF e
      <4>2. /\ SubSeq(q, 1, e) \in Seq(P) /\ Len(SubSeq(q, 1, e)) = e - 1 + 1
            /\ \A i \in 1..(e - 1 + 1) : SubSeq(q, 1, e)[i] = q[1 + i - 1]
        BY <1>2, <4>1, Slice
      <4> QED BY <4>2 DEF e
    <3>3. /\ back \in Seq(P) /\ Len(back) = Len(q) - (k + 1) + 1
          /\ \A i \in 1..(Len(q) - (k + 1) + 1) : back[i] = q[k + 1 + i - 1]
      BY <1>2, <3>1, Slice
    <3>4. r = front \o back
      BY <2>2 DEF Gate!RemoveAt
    <3> HIDE DEF front, back
    <3>5. /\ r \in Seq(P) /\ Len(r) = Len(front) + Len(back)
          /\ \A i \in 1..(Len(front) + Len(back)) :
               r[i] = IF i <= Len(front) THEN front[i] ELSE back[i - Len(front)]
      BY <3>2, <3>3, <3>4, ConcatProperties
    <3>6. Len(front) = k - 1 /\ Len(back) = Len(q) - k /\ Len(r) = Len(q) - 1
      BY <1>2, <3>1, <3>2, <3>3, <3>5
    <3>7. ASSUME NEW i \in 1..Len(r) PROVE r[i] = IF i < k THEN q[i] ELSE q[i + 1]
      <4>1. CASE i < k  BY <1>2, <3>1, <3>2, <3>5, <3>6, <4>1
      <4>2. CASE ~(i < k)
        <5>1. r[i] = back[i - (k - 1)]
          BY <1>2, <3>1, <3>5, <3>6, <4>2
        <5>2. i - (k - 1) \in 1..(Len(q) - (k + 1) + 1)
          BY <1>2, <3>1, <3>6, <4>2
        <5>3. back[i - (k - 1)] = q[k + 1 + (i - (k - 1)) - 1]
          BY <5>2, <3>3
        <5>4. k + 1 + (i - (k - 1)) - 1 = i + 1
          BY <1>2, <3>1
        <5> QED BY <5>1, <5>3, <5>4, <4>2
      <4> QED BY <4>1, <4>2
    <3> QED BY <3>5, <3>6, <3>7
  <2>4. \A i \in 1..Len(r) : r[i] # x
    BY <1>2, <2>1, <2>3 DEF GateOK
  <2>5. \A i \in 1..Len(r), j \in 1..Len(r) : r[i] = r[j] => i = j
    BY <1>2, <2>1, <2>3 DEF GateOK
  <2>6. \A i \in 1..Len(r) : st2[r[i]] = W
    <3> SUFFICES ASSUME NEW i \in 1..Len(r) PROVE st2[r[i]] = W
      OBVIOUS
    <3>1. r[i] \in P \ {x}
      BY <2>3, <2>4
    <3>2. st[r[i]] = W
      BY <1>2, <2>1, <2>3 DEF GateOK
    <3> QED BY <3>1, <3>2
  <2>7. GateOK(P, T, W, M, st2, r, a)
    BY <1>1, <2>3, <2>5, <2>6 DEF GateOK
  <2> QED BY <2>7 DEF r
<1>4. CASE ~\E i \in 1..Len(q) : q[i] = x
  <2>1. Gate!Without(q, x) = q
    BY <1>4 DEF Gate!Without
  <2>2. \A i \in 1..Len(q) : q[i] \in P \ {x}
    BY <1>2, <1>4
  <2>3. GateOK(P, T, W, M, st2, q, a)
    BY <1>1, <2>2 DEF GateOK
  <2> QED BY <2>1, <2>3
<1> QED BY <1>3, <1>4

GlobalOK(st, q, a) == GateOK(GateRuns, InGlobalGate, "gwait", Limit, st, q, a)
ProfileOK(p, st, q, a) == GateOK(RunsOf(p), InProfileGate, "pwait", 1, st, q, a)

\* A run at a profile's gate has a profile.
RunsOK(st) ==
  /\ st \in [GateRuns -> GateStages]
  /\ \A x \in GateRuns : st[x] \in {"pwait", "padmitted", "settling"} => ProfileOf[x] \in Profiles

GateInv ==
  /\ RunsOK(place)
  /\ GlobalOK(place, gqueue, gactive)
  /\ pqueue \in [Profiles -> Seq(GateRuns)]
  /\ pactive = [p \in Profiles |-> pactive[p]]
  /\ \A p \in Profiles : ProfileOK(p, place, pqueue[p], pactive[p])

\* The runs of a profile are finitely many.
LEMMA GateFinite == IsFiniteSet(GateRuns) /\ \A p : IsFiniteSet(RunsOf(p)) /\ RunsOf(p) \subseteq GateRuns
<1>1. IsFiniteSet(GateRuns)
  BY GateConstants, Zenon DEF Gate!GateAssumption, Gate!IsFiniteSet, IsFiniteSet
<1> QED BY <1>1, FS_Subset DEF RunsOf

\* admitNext of the global gate, in terms of the gate it is.
LEMMA GlobalAdmits ==
  ASSUME NEW st, NEW q, NEW a, RunsOK(st), GlobalOK(st, q, a), Gate!AdmitGlobal(q, a, st)
  PROVE  /\ RunsOK(place') /\ GlobalOK(place', gqueue', gactive')
         /\ \A x \in GateRuns : place'[x] = st[x] \/ (st[x] = "gwait" /\ place'[x] = "gadmitted")
<1> DEFINE n == Gate!Room(q, a, Limit)
<1>1. /\ gqueue' = Gate!Rest(q, n) /\ gactive' = a + n
      /\ place' = [x \in GateRuns |-> IF x \in Gate!Admitted(q, n) THEN "gadmitted" ELSE st[x]]
  BY DEF Gate!AdmitGlobal
<1>2. n \in 0..Len(q) /\ Len(q) \in Nat /\ \A i \in 1..Len(q) : st[q[i]] = "gwait"
  <2>1. Inside(GateRuns, InGlobalGate, st) \subseteq GateRuns
    BY DEF Inside
  <2>2. Cardinality(Inside(GateRuns, InGlobalGate, st)) \in Nat
    BY <2>1, GateFinite, FS_Subset, FS_CardinalityType
  <2>3. a \in Nat /\ q \in Seq(GateRuns) /\ \A i \in 1..Len(q) : st[q[i]] = "gwait"
    BY <2>2 DEF GlobalOK, GateOK
  <2>4. Limit \in Nat
    BY GateConstants DEF Gate!GateAssumption
  <2> QED BY <2>3, <2>4 DEF Gate!Room
<1>3. \A x \in Gate!Admitted(q, n) : st[x] = "gwait"
  BY <1>2 DEF Gate!Admitted
<1>4. GlobalOK(place', gqueue', gactive')
  <2>1. \A x \in GateRuns : place'[x] = IF x \in Gate!Admitted(q, n) THEN "gadmitted" ELSE st[x]
    BY <1>1
  <2>2. "gwait" \notin InGlobalGate /\ "gadmitted" \in InGlobalGate /\ Limit \in Nat
    BY GateConstants DEF Gate!GateAssumption, InGlobalGate
  <2> HIDE DEF n
  <2>3. n = Gate!Room(q, a, Limit)
    BY DEF n
  <2>4. GateOK(GateRuns, InGlobalGate, "gwait", Limit, place', Gate!Rest(q, n), a + n)
    BY <2>1, <2>2, <2>3, GateFinite, GateAdmits DEF GlobalOK
  <2> QED BY <2>4, <1>1 DEF GlobalOK
<1> HIDE DEF n
<1>5. RunsOK(place')
  BY <1>1, <1>3 DEF RunsOK, GateStages
<1> QED BY <1>1, <1>3, <1>4, <1>5

\* admitNext of a profile's gate.
LEMMA ProfileAdmits ==
  ASSUME NEW p \in Profiles, NEW st, NEW q, NEW a, RunsOK(st), ProfileOK(p, st, q, a),
         Gate!AdmitProfile(p, q, a, st), pqueue \in [Profiles -> Seq(GateRuns)], pactive = [h \in Profiles |-> pactive[h]]
  PROVE  /\ RunsOK(place') /\ ProfileOK(p, place', pqueue'[p], pactive'[p])
         /\ \A x \in GateRuns :
              \/ place'[x] = st[x]
              \/ st[x] = "pwait" /\ ProfileOf[x] = p /\ place'[x] = "padmitted"
         /\ pqueue' \in [Profiles -> Seq(GateRuns)] /\ pactive' = [h \in Profiles |-> pactive'[h]]
         /\ \A h \in Profiles \ {p} : pqueue'[h] = pqueue[h] /\ pactive'[h] = pactive[h]
<1> DEFINE n == Gate!Room(q, a, 1)
<1>1. /\ pqueue' = [pqueue EXCEPT ![p] = Gate!Rest(q, n)] /\ pactive' = [pactive EXCEPT ![p] = a + n]
      /\ place' = [x \in GateRuns |-> IF x \in Gate!Admitted(q, n) THEN "padmitted" ELSE st[x]]
  BY DEF Gate!AdmitProfile
<1>2. /\ n \in 0..Len(q) /\ Len(q) \in Nat 
      /\ \A i \in 1..Len(q) : st[q[i]] = "pwait" /\ q[i] \in RunsOf(p)
  <2>1. Inside(RunsOf(p), InProfileGate, st) \subseteq RunsOf(p)
    BY DEF Inside
  <2>2. Cardinality(Inside(RunsOf(p), InProfileGate, st)) \in Nat
    BY <2>1, GateFinite, FS_Subset, FS_CardinalityType
  <2>3. a \in Nat /\ q \in Seq(RunsOf(p)) /\ \A i \in 1..Len(q) : st[q[i]] = "pwait"
    BY <2>2 DEF ProfileOK, GateOK
  <2> QED BY <2>3 DEF Gate!Room
<1>3. \A x \in Gate!Admitted(q, n) : st[x] = "pwait" /\ x \in RunsOf(p)
  BY <1>2 DEF Gate!Admitted
<1> DEFINE one == 1
<1>o. one \in Nat
  OBVIOUS
<1>n. n = Gate!Room(q, a, one)
  OBVIOUS
<1>g. GateOK(RunsOf(p), InProfileGate, "pwait", one, st, q, a)
  BY DEF ProfileOK
<1>4. GateOK(RunsOf(p), InProfileGate, "pwait", one, place', Gate!Rest(q, n), a + n)
  <2>1. \A x \in RunsOf(p) : place'[x] = IF x \in Gate!Admitted(q, n) THEN "padmitted" ELSE st[x]
    BY <1>1 DEF RunsOf
  <2>2. "pwait" \notin InProfileGate /\ "padmitted" \in InProfileGate
    BY DEF InProfileGate
  <2> HIDE DEF n, one
  <2> QED BY <2>1, <2>2, <1>n, <1>o, <1>g, GateFinite, GateAdmits
<1> HIDE DEF n
<1>5. Gate!Rest(q, n) \in Seq(GateRuns)
  <2>1. Gate!Rest(q, n) \in Seq(RunsOf(p))
    BY <1>4 DEF GateOK
  <2> QED BY <2>1 DEF RunsOf
<1>6. pqueue'[p] = Gate!Rest(q, n) /\ pactive'[p] = a + n
  BY <1>1
<1>7. ProfileOK(p, place', pqueue'[p], pactive'[p])
  BY <1>4, <1>6 DEF ProfileOK
<1>8. RunsOK(place')
  BY <1>1, <1>3 DEF RunsOK, GateStages, RunsOf
<1>9. pqueue' \in [Profiles -> Seq(GateRuns)]
  BY <1>1, <1>5
<1> QED BY <1>1, <1>3, <1>7, <1>8, <1>9 DEF RunsOf

\* Steps that move a run by itself leave the gates they do not concern alone.
LEMMA GlobalSame ==
  ASSUME NEW st, NEW st2, NEW q, NEW a, GlobalOK(st, q, a),
         \A x \in GateRuns : /\ st2[x] \in InGlobalGate <=> st[x] \in InGlobalGate
                             /\ st[x] = "gwait" => st2[x] = "gwait"
  PROVE  GlobalOK(st2, q, a)
  BY GateSame DEF GlobalOK

\* The same for the gate of one profile, which only its own runs concern.
LEMMA ProfileSame ==
  ASSUME NEW p, NEW st, NEW st2, NEW q, NEW a, ProfileOK(p, st, q, a),
         \A x \in GateRuns : ProfileOf[x] = p =>
            /\ st2[x] \in InProfileGate <=> st[x] \in InProfileGate
            /\ st[x] = "pwait" => st2[x] = "pwait"
  PROVE  ProfileOK(p, st2, q, a)
<1> DEFINE one == 1
<1>1. GateOK(RunsOf(p), InProfileGate, "pwait", one, st, q, a)
  BY DEF ProfileOK
<1>2. \A x \in RunsOf(p) : /\ st2[x] \in InProfileGate <=> st[x] \in InProfileGate
                           /\ st[x] = "pwait" => st2[x] = "pwait"
  BY DEF RunsOf
<1> HIDE DEF one
<1>3. GateOK(RunsOf(p), InProfileGate, "pwait", one, st2, q, a)
  BY <1>1, <1>2, GateSame
<1> QED BY <1>3 DEF ProfileOK, one

\* Every step of a run through its two gates, an abort at any point included,
\* keeps the two counters, the two queues and the places in agreement.
LEMMA GateStep == GateInv /\ Gate!Next => GateInv'
<1> SUFFICES ASSUME GateInv, Gate!Next PROVE GateInv'
  OBVIOUS
<1>t. /\ ProfileOf \in [GateRuns -> Profiles \cup {None}] /\ None \notin Profiles /\ Limit \in Nat
      /\ RunsOK(place) /\ GlobalOK(place, gqueue, gactive) /\ pqueue \in [Profiles -> Seq(GateRuns)]
      /\ pactive = [p \in Profiles |-> pactive[p]]
      /\ \A p \in Profiles : ProfileOK(p, place, pqueue[p], pactive[p])
      /\ place \in [GateRuns -> GateStages]
  BY GateConstants DEF GateInv, RunsOK, Gate!GateAssumption
<1>g. "gwait" \notin InGlobalGate /\ "pwait" \notin InProfileGate
  BY DEF InGlobalGate, InProfileGate
<1>1. ASSUME NEW x \in GateRuns, Gate!ArriveAtProfile(x) PROVE GateInv'
  <2> DEFINE st == [place EXCEPT ![x] = "pwait"]
  <2>1. PICK p \in Profiles : p = ProfileOf[x]
    BY <1>1, <1>t DEF Gate!ArriveAtProfile
  <2>2. place[x] = "new" /\ Gate!AdmitProfile(p, Append(pqueue[p], x), pactive[p], st) /\ UNCHANGED <<gqueue, gactive>>
    BY <1>1, <2>1 DEF Gate!ArriveAtProfile, Gate!Moved
  <2>3. st[x] = "pwait" /\ \A y \in GateRuns \ {x} : st[y] = place[y]
    BY <1>t
  <2>4. RunsOK(st)
    BY <1>t, <2>1 DEF RunsOK, GateStages
  <2> HIDE DEF st
  <2>5. ProfileOK(p, st, Append(pqueue[p], x), pactive[p])
    <3> DEFINE one == 1
               q == pqueue[p]
               a == pactive[p]
    <3>1. GateOK(RunsOf(p), InProfileGate, "pwait", one, place, q, a)
      BY <1>t DEF ProfileOK
    <3>2. x \in RunsOf(p) /\ place[x] \notin InProfileGate /\ place[x] # "pwait" /\ \A y \in RunsOf(p) \ {x} : st[y] = place[y]
      BY <2>1, <2>2, <2>3 DEF RunsOf, InProfileGate
    <3> HIDE DEF one, q, a
    <3>3. GateOK(RunsOf(p), InProfileGate, "pwait", one, st, Append(q, x), a)
      BY <1>g, <2>3, <3>1, <3>2, GateQueues
    <3> QED BY <3>3 DEF ProfileOK, one, q, a
  <2>6. /\ RunsOK(place') /\ ProfileOK(p, place', pqueue'[p], pactive'[p])
        /\ \A y \in GateRuns :
             \/ place'[y] = st[y]
             \/ st[y] = "pwait" /\ ProfileOf[y] = p /\ place'[y] = "padmitted"
        /\ pqueue' \in [Profiles -> Seq(GateRuns)] /\ pactive' = [h \in Profiles |-> pactive'[h]]
        /\ \A h \in Profiles \ {p} : pqueue'[h] = pqueue[h] /\ pactive'[h] = pactive[h]
    BY <1>t, <2>2, <2>4, <2>5, ProfileAdmits
  <2>7. \A y \in GateRuns : \/ place'[y] = place[y]
                            \/ place[y] \in {"new", "pwait"} /\ ProfileOf[y] = p /\ place'[y] \in {"pwait", "padmitted"}
    BY <2>1, <2>2, <2>3, <2>6
  <2>8. GlobalOK(place', gqueue', gactive')
    BY <1>t, <2>2, <2>7, GlobalSame DEF InGlobalGate
  <2>9. ASSUME NEW h \in Profiles \ {p} PROVE ProfileOK(h, place', pqueue'[h], pactive'[h])
    <3>1. \A y \in GateRuns : ProfileOf[y] = h => place'[y] = place[y]
      BY <2>7
    <3>2. ProfileOK(h, place, pqueue[h], pactive[h]) /\ pqueue'[h] = pqueue[h] /\ pactive'[h] = pactive[h]
      BY <1>t, <2>6
    <3> QED BY <3>1, <3>2, ProfileSame
  <2> QED BY <2>6, <2>8, <2>9 DEF GateInv
<1>2. ASSUME NEW x \in GateRuns, Gate!ArriveAtGlobal(x) PROVE GateInv'
  <2> DEFINE st == [place EXCEPT ![x] = "gwait"]
  <2>2. /\ place[x] = "padmitted" \/ (place[x] = "new" /\ ProfileOf[x] = None)
        /\ Gate!AdmitGlobal(Append(gqueue, x), gactive, st) /\ UNCHANGED <<pqueue, pactive>>
    BY <1>2 DEF Gate!ArriveAtGlobal, Gate!Moved
  <2>3. st[x] = "gwait" /\ \A y \in GateRuns \ {x} : st[y] = place[y]
    BY <1>t
  <2>4. RunsOK(st)
    BY <1>t DEF RunsOK, GateStages
  <2> HIDE DEF st
  <2>5. GlobalOK(st, Append(gqueue, x), gactive)
    <3>1. place[x] \notin InGlobalGate /\ place[x] # "gwait"
      BY <2>2 DEF InGlobalGate
    <3> QED BY <1>t, <1>g, <2>3, <3>1, GateQueues DEF GlobalOK
  <2>6. /\ RunsOK(place') /\ GlobalOK(place', gqueue', gactive')
        /\ \A y \in GateRuns : place'[y] = st[y] \/ (st[y] = "gwait" /\ place'[y] = "gadmitted")
    BY <2>2, <2>4, <2>5, GlobalAdmits
  <2>7. \A y \in GateRuns : \/ place'[y] = place[y]
                            \/ place[y] \in InProfileGate /\ place'[y] \in InProfileGate
                            \/ ProfileOf[y] = None
    BY <2>2, <2>3, <2>6 DEF InProfileGate
  <2>8. ASSUME NEW h \in Profiles PROVE ProfileOK(h, place', pqueue'[h], pactive'[h])
    <3>1. \A y \in GateRuns : ProfileOf[y] = h =>
            /\ place'[y] \in InProfileGate <=> place[y] \in InProfileGate
            /\ place[y] = "pwait" => place'[y] = "pwait"
      BY <1>t, <1>g, <2>7
    <3> QED BY <1>t, <2>2, <3>1, ProfileSame
  <2> QED BY <1>t, <2>2, <2>6, <2>8 DEF GateInv
<1>3. ASSUME NEW x \in GateRuns, NEW s \in {"settling", "done", "running"}, place' = [place EXCEPT ![x] = s],
             UNCHANGED <<pqueue, pactive, gqueue, gactive>>,
             \/ /\ place[x] = "padmitted" \/ (place[x] = "new" /\ ProfileOf[x] = None)
                /\ s = Gate!AfterGlobal(x)
             \/ place[x] = "new" /\ s = "done"
             \/ place[x] = "gadmitted" /\ s = "running"
      PROVE  GateInv'
  <2>1. place'[x] = s /\ \A y \in GateRuns \ {x} : place'[y] = place[y]
    BY <1>3, <1>t
  <2>2. RunsOK(place')
    BY <1>3, <1>t DEF RunsOK, GateStages, Gate!AfterGlobal
  <2>3. GlobalOK(place', gqueue, gactive)
    BY <1>3, <1>t, <2>1, GlobalSame DEF InGlobalGate, Gate!AfterGlobal
  <2>4. ASSUME NEW h \in Profiles PROVE ProfileOK(h, place', pqueue[h], pactive[h])
    <3>1. \A y \in GateRuns : ProfileOf[y] = h =>
            /\ place'[y] \in InProfileGate <=> place[y] \in InProfileGate
            /\ place[y] = "pwait" => place'[y] = "pwait"
      BY <1>3, <1>t, <2>1 DEF InProfileGate, Gate!AfterGlobal
    <3> QED BY <1>t, <3>1, ProfileSame
  <2> QED BY <1>3, <1>t, <2>2, <2>3, <2>4 DEF GateInv
<1>4. ASSUME NEW x \in GateRuns, Gate!Finish(x) PROVE GateInv'
  <2> DEFINE s == Gate!AfterGlobal(x)
             st == [place EXCEPT ![x] = s]
             b == gactive - 1
  <2>1. place[x] = "running" /\ Gate!AdmitGlobal(gqueue, b, st) /\ UNCHANGED <<pqueue, pactive>>
    BY <1>4 DEF Gate!Finish, Gate!Moved
  <2>2. (s = "done" /\ ProfileOf[x] = None) \/ (s = "settling" /\ ProfileOf[x] \in Profiles)
    BY <1>t DEF Gate!AfterGlobal
  <2>3. st[x] = s /\ \A y \in GateRuns \ {x} : st[y] = place[y]
    BY <1>t
  <2> HIDE DEF s
  <2>4. RunsOK(st)
    BY <1>t, <2>2 DEF RunsOK, GateStages
  <2> HIDE DEF st
  <2>5. GlobalOK(st, gqueue, b)
    <3>1. place[x] \in InGlobalGate /\ st[x] \notin InGlobalGate
      BY <2>1, <2>2, <2>3 DEF InGlobalGate
    <3> QED BY <1>t, <1>g, <2>3, <3>1, GateLeaves, GateFinite DEF GlobalOK
  <2>6. /\ RunsOK(place') /\ GlobalOK(place', gqueue', gactive')
        /\ \A y \in GateRuns : place'[y] = st[y] \/ (st[y] = "gwait" /\ place'[y] = "gadmitted")
    <3> HIDE DEF b
    <3> QED BY <2>1, <2>4, <2>5, GlobalAdmits
  <2>7. \A y \in GateRuns : \/ place'[y] = place[y]
                            \/ place[y] \in InProfileGate /\ place'[y] \in InProfileGate
                            \/ ProfileOf[y] = None
    BY <2>1, <2>2, <2>3, <2>6 DEF InProfileGate
  <2>8. ASSUME NEW h \in Profiles PROVE ProfileOK(h, place', pqueue'[h], pactive'[h])
    <3>1. \A y \in GateRuns : ProfileOf[y] = h =>
            /\ place'[y] \in InProfileGate <=> place[y] \in InProfileGate
            /\ place[y] = "pwait" => place'[y] = "pwait"
      BY <1>t, <1>g, <2>7
    <3> QED BY <1>t, <2>1, <3>1, ProfileSame
  <2> QED BY <1>t, <2>1, <2>6, <2>8 DEF GateInv
<1>5. ASSUME NEW x \in GateRuns, Gate!LeaveProfile(x) PROVE GateInv'
  <2> DEFINE st == [place EXCEPT ![x] = "done"]
  <2>1. place[x] = "settling"
    BY <1>5 DEF Gate!LeaveProfile
  <2>2. PICK p \in Profiles : p = ProfileOf[x]
    BY <2>1, <1>t DEF RunsOK
  <2> DEFINE b == pactive[p] - 1
             q == pqueue[p]
  <2>3. Gate!AdmitProfile(p, q, b, st) /\ UNCHANGED <<gqueue, gactive>>
    BY <1>5, <2>2 DEF Gate!LeaveProfile, Gate!Moved
  <2>4. st[x] = "done" /\ \A y \in GateRuns \ {x} : st[y] = place[y]
    BY <1>t
  <2>5. RunsOK(st)
    BY <1>t DEF RunsOK, GateStages
  <2> HIDE DEF st
  <2>6. ProfileOK(p, st, q, b)
    <3> DEFINE one == 1
               a == pactive[p]
    <3>1. GateOK(RunsOf(p), InProfileGate, "pwait", one, place, q, a) /\ one \in Nat
      BY <1>t DEF ProfileOK
    <3>2. /\ x \in RunsOf(p) /\ place[x] \in InProfileGate /\ st[x] \notin InProfileGate
          /\ \A y \in RunsOf(p) \ {x} : st[y] = place[y]
      BY <2>1, <2>2, <2>4 DEF RunsOf, InProfileGate
    <3> HIDE DEF one, q, a
    <3>3. GateOK(RunsOf(p), InProfileGate, "pwait", one, st, q, a - 1)
      BY <1>g, <3>1, <3>2, GateLeaves, GateFinite
    <3> QED BY <3>3 DEF ProfileOK, one, a
  <2>7. /\ RunsOK(place') /\ ProfileOK(p, place', pqueue'[p], pactive'[p])
        /\ \A y \in GateRuns :
             \/ place'[y] = st[y]
             \/ st[y] = "pwait" /\ ProfileOf[y] = p /\ place'[y] = "padmitted"
        /\ pqueue' \in [Profiles -> Seq(GateRuns)] /\ pactive' = [h \in Profiles |-> pactive'[h]]
        /\ \A h \in Profiles \ {p} : pqueue'[h] = pqueue[h] /\ pactive'[h] = pactive[h]
    <3> HIDE DEF b, q
    <3> QED BY <1>t, <2>3, <2>5, <2>6, ProfileAdmits
  <2>8. \A y \in GateRuns : \/ place'[y] = place[y]
                            \/ place[y] \in {"settling", "pwait"} /\ ProfileOf[y] = p /\ place'[y] \in {"done", "padmitted"}
    BY <2>1, <2>2, <2>4, <2>7
  <2>9. GlobalOK(place', gqueue', gactive')
    BY <1>t, <2>3, <2>8, GlobalSame DEF InGlobalGate
  <2>10. ASSUME NEW h \in Profiles \ {p} PROVE ProfileOK(h, place', pqueue'[h], pactive'[h])
    <3>1. \A y \in GateRuns : ProfileOf[y] = h => place'[y] = place[y]
      BY <2>8
    <3>2. ProfileOK(h, place, pqueue[h], pactive[h]) /\ pqueue'[h] = pqueue[h] /\ pactive'[h] = pactive[h]
      BY <1>t, <2>7
    <3> QED BY <3>1, <3>2, ProfileSame
  <2> QED BY <2>7, <2>9, <2>10 DEF GateInv
<1>6. ASSUME NEW x \in GateRuns, Gate!Abort(x) PROVE GateInv'
  <2>1. CASE place[x] = "pwait"
    <3>1. PICK p \in Profiles : p = ProfileOf[x]
      BY <2>1, <1>t DEF RunsOK
    <3> DEFINE q == pqueue[p]
               a == pactive[p]
               one == 1
    <3>2. /\ pqueue' = [pqueue EXCEPT ![p] = Gate!Without(q, x)] /\ place' = [place EXCEPT ![x] = "done"]
          /\ UNCHANGED <<gqueue, gactive, pactive>>
      BY <1>6, <2>1, <3>1 DEF Gate!Abort, Gate!Moved
    <3>3. place'[x] = "done" /\ \A y \in GateRuns \ {x} : place'[y] = place[y]
      BY <3>2, <1>t
    <3>4. RunsOK(place')
      BY <3>2, <1>t DEF RunsOK, GateStages
    <3>5. GateOK(RunsOf(p), InProfileGate, "pwait", one, place', Gate!Without(q, x), a)
      <4>1. GateOK(RunsOf(p), InProfileGate, "pwait", one, place, q, a)
        BY <1>t DEF ProfileOK
      <4>2. /\ x \in RunsOf(p) /\ place'[x] \notin InProfileGate
            /\ \A y \in RunsOf(p) \ {x} : place'[y] = place[y]
        BY <3>1, <3>3 DEF RunsOf, InProfileGate
      <4> HIDE DEF one, q, a
      <4> QED BY <1>g, <2>1, <4>1, <4>2, GateDrops
    <3>6. Gate!Without(q, x) \in Seq(GateRuns)
      <4>1. Gate!Without(q, x) \in Seq(RunsOf(p))
        BY <3>5 DEF GateOK
      <4> QED BY <4>1 DEF RunsOf
    <3>7. /\ pqueue' \in [Profiles -> Seq(GateRuns)] /\ pqueue'[p] = Gate!Without(q, x)
          /\ \A h \in Profiles \ {p} : pqueue'[h] = pqueue[h]
      BY <1>t, <3>2, <3>6
    <3>8. ProfileOK(p, place', pqueue'[p], pactive'[p])
      BY <3>2, <3>5, <3>7 DEF ProfileOK
    <3>9. ASSUME NEW h \in Profiles \ {p} PROVE ProfileOK(h, place', pqueue'[h], pactive'[h])
      <4>1. \A y \in GateRuns : ProfileOf[y] = h => place'[y] = place[y]
        BY <3>1, <3>3
      <4>2. ProfileOK(h, place, pqueue[h], pactive[h]) /\ pqueue'[h] = pqueue[h] /\ pactive'[h] = pactive[h]
        BY <1>t, <3>2, <3>7
      <4> QED BY <4>1, <4>2, ProfileSame
    <3>10. GlobalOK(place', gqueue', gactive')
      BY <1>t, <2>1, <3>2, <3>3, GlobalSame DEF InGlobalGate
    <3> QED BY <1>t, <3>2, <3>4, <3>7, <3>8, <3>9, <3>10 DEF GateInv
  <2>2. CASE place[x] = "gwait"
    <3> DEFINE s == Gate!AfterGlobal(x)
    <3>1. /\ gqueue' = Gate!Without(gqueue, x) /\ place' = [place EXCEPT ![x] = s]
          /\ UNCHANGED <<pqueue, gactive, pactive>>
      BY <1>6, <2>2 DEF Gate!Abort, Gate!Moved
    <3>2. (s = "done" /\ ProfileOf[x] = None) \/ (s = "settling" /\ ProfileOf[x] \in Profiles)
      BY <1>t DEF Gate!AfterGlobal
    <3> HIDE DEF s
    <3>3. place'[x] = s /\ \A y \in GateRuns \ {x} : place'[y] = place[y]
      BY <3>1, <1>t
    <3>4. RunsOK(place')
      BY <3>1, <3>2, <1>t DEF RunsOK, GateStages
    <3>5. GlobalOK(place', gqueue', gactive')
      <4>1. place'[x] \notin InGlobalGate
        BY <3>2, <3>3 DEF InGlobalGate
      <4> QED BY <1>t, <1>g, <2>2, <3>1, <3>3, <4>1, GateDrops DEF GlobalOK
    <3>6. ASSUME NEW h \in Profiles PROVE ProfileOK(h, place', pqueue'[h], pactive'[h])
      <4>1. \A y \in GateRuns : ProfileOf[y] = h =>
            /\ place'[y] \in InProfileGate <=> place[y] \in InProfileGate
            /\ place[y] = "pwait" => place'[y] = "pwait"
        BY <1>t, <2>2, <3>2, <3>3 DEF InProfileGate
      <4> QED BY <1>t, <3>1, <4>1, ProfileSame
    <3> QED BY <1>t, <3>1, <3>4, <3>5, <3>6 DEF GateInv
  <2>3. CASE place[x] \notin {"pwait", "gwait"}
    BY <1>6, <2>3 DEF Gate!Abort, GateInv
  <2> QED BY <2>1, <2>2, <2>3
<1>7. ASSUME NEW x \in GateRuns, Gate!RejectAtGlobal(x) PROVE GateInv'
  <2>1. Gate!AfterGlobal(x) \in {"settling", "done"}
    BY DEF Gate!AfterGlobal
  <2> QED BY <1>3, <1>7, <2>1 DEF Gate!RejectAtGlobal, Gate!Moved
<1>8. ASSUME NEW x \in GateRuns, Gate!RejectAtProfile(x) PROVE GateInv'
  BY <1>3, <1>8 DEF Gate!RejectAtProfile, Gate!Moved
<1>9. ASSUME NEW x \in GateRuns, Gate!Start(x) PROVE GateInv'
  BY <1>3, <1>9 DEF Gate!Start, Gate!Moved
<1>10. CASE UNCHANGED Gate!vars
  BY <1>10 DEF Gate!vars, GateInv
<1> QED BY <1>1, <1>2, <1>4, <1>5, <1>6, <1>7, <1>8, <1>9, <1>10 DEF Gate!Next, Gate!Step

\* Nobody is inside or waits.
LEMMA GateInitially == Gate!Init => GateInv
<1> SUFFICES ASSUME Gate!Init PROVE GateInv
  OBVIOUS
<1>1. /\ place = [x \in GateRuns |-> "new"] /\ pqueue = [p \in Profiles |-> <<>>]
      /\ pactive = [p \in Profiles |-> 0] /\ gqueue = <<>> /\ gactive = 0
  BY DEF Gate!Init
<1>2. RunsOK(place)
  BY <1>1 DEF RunsOK, GateStages
<1>3. ASSUME NEW P, P \subseteq GateRuns, NEW T, "new" \notin T, NEW W, NEW M \in Nat PROVE GateOK(P, T, W, M, place, <<>>, 0)
  <2>1. Inside(P, T, place) = {}
    BY <1>1, <1>3 DEF Inside
  <2> QED BY <1>3, <2>1, FS_EmptySet DEF GateOK
<1>4. GlobalOK(place, gqueue, gactive)
  BY <1>1, <1>3, GateConstants DEF GlobalOK, InGlobalGate, Gate!GateAssumption
<1>5. ASSUME NEW p \in Profiles PROVE ProfileOK(p, place, pqueue[p], pactive[p])
  <2>1. RunsOf(p) \subseteq GateRuns /\ "new" \notin InProfileGate
    BY DEF RunsOf, InProfileGate
  <2>2. \A M \in Nat : GateOK(RunsOf(p), InProfileGate, "pwait", M, place, <<>>, 0)
    BY <1>3, <2>1
  <2> QED BY <1>1, <2>2 DEF ProfileOK
<1> QED BY <1>1, <1>2, <1>4, <1>5 DEF GateInv

\* The counters and the one place of each profile follow.
LEMMA GateSafe == GateInv => Gate!PlacesCounted /\ Gate!OnePerProfile
<1> SUFFICES ASSUME GateInv PROVE Gate!PlacesCounted /\ Gate!OnePerProfile
  OBVIOUS
<1>1. gactive = Cardinality(Gate!InGlobal) /\ gactive <= Limit
  BY DEF GateInv, GlobalOK, GateOK, Inside, InGlobalGate, Gate!InGlobal
<1>2. ASSUME NEW p \in Profiles
      PROVE  pactive[p] = Cardinality(Gate!InProfile(p)) /\ Cardinality(Gate!InProfile(p)) <= 1
  <2>1. Gate!InProfile(p) = Inside(RunsOf(p), InProfileGate, place)
    BY DEF Inside, RunsOf, InProfileGate, Gate!InProfile
  <2> QED BY <2>1 DEF GateInv, ProfileOK, GateOK
<1>3. Gate!PlacesCounted
  BY <1>1, <1>2, GateCardinality DEF Gate!PlacesCounted
<1>4. ASSUME NEW p \in Profiles
      PROVE  Cardinality({x \in GateRuns : ProfileOf[x] = p /\
                   place[x] \in {"gwait", "gadmitted", "running"}}) <= 1
  <2> DEFINE S == {x \in GateRuns : ProfileOf[x] = p /\ place[x] \in {"gwait", "gadmitted", "running"}}
             I == Gate!InProfile(p)
  <2>1. S \subseteq I
    BY DEF Gate!InProfile
  <2>2. IsFiniteSet(I)
    <3>1. I \subseteq GateRuns
      BY DEF Gate!InProfile
    <3> QED BY <3>1, GateFinite, FS_Subset
  <2> HIDE DEF S, I
  <2>3. Cardinality(S) \in Nat /\ Cardinality(I) \in Nat /\ Cardinality(S) <= Cardinality(I)
    BY <2>1, <2>2, FS_Subset, FS_CardinalityType
  <2>4. Cardinality(I) <= 1
    BY <1>2 DEF I
  <2>5. Cardinality(S) <= 1
    BY <2>3, <2>4
  <2> QED BY <2>5 DEF S
<1>5. Gate!OnePerProfile
  BY <1>4, GateCardinality DEF Gate!OnePerProfile
<1> QED BY <1>3, <1>5

-----------------------------------------------------------------------------
(* The whole.                                                              *)

SupervisionInv == HostInv /\ LaneInv /\ CursorInv /\ GateInv

\* The host rests while another part moves.
LEMMA HostRests == HostInv /\ UNCHANGED hostVars => HostInv'
  BY DEF HostInv, hostVars, Host!HostTypeOK

\* So do the lanes,
LEMMA LaneRests == LaneInv /\ UNCHANGED laneVars => LaneInv'
  BY DEF LaneInv, LaneTyped, laneVars, Lane!Refused

\* the Cursor runtime,
LEMMA CursorRests == CursorInv /\ UNCHANGED cursorVars => CursorInv'
  BY DEF CursorInv, CursorTyped, Cursor!RepliesStayInRoom, cursorVars

\* and the gates.
LEMMA GateRests == GateInv /\ UNCHANGED gateVars => GateInv'
  BY DEF GateInv, gateVars

\* The invariants of the parts together, in every behaviour of the run.
LEMMA SupervisionInvariant == SupervisionSpec => []SupervisionInv
<1> DEFINE all == <<part, claimerVars, gateVars, hostVars, laneVars, cursorVars>>
<1>1. SupervisionInit => SupervisionInv
  BY HostInitially, LaneInitially, CursorInitially, GateInitially DEF SupervisionInit, SupervisionInv
<1>2. SupervisionInv /\ [SupervisionNext]_all => SupervisionInv'
  <2> SUFFICES ASSUME SupervisionInv, [SupervisionNext]_all PROVE SupervisionInv'
    OBVIOUS
  <2>1. HostInv'
    BY HostStep, HostRests DEF SupervisionNext, SupervisionInv
  <2>2. LaneInv'
    BY LaneStep, LaneRests DEF SupervisionNext, SupervisionInv
  <2>3. CursorInv'
    BY CursorStep, CursorRests DEF SupervisionNext, SupervisionInv
  <2>4. GateInv'
    BY GateStep, GateRests DEF SupervisionNext, SupervisionInv
  <2> QED BY <2>1, <2>2, <2>3, <2>4 DEF SupervisionInv
<1> QED BY <1>1, <1>2, PTL DEF SupervisionSpec

\* The counters of concurrency-gate.mjs count exactly the runs inside, for any
\* number of runs, profiles and places: no abort leaks a place or gives one
\* back twice.
THEOREM GateIsSafe == SupervisionSpec => []GatesCount
<1>1. SupervisionInv => GatesCount
  BY GateSafe DEF SupervisionInv, GatesCount
<1> QED BY <1>1, SupervisionInvariant, PTL

\* The supervisor that answers holds the journal and the socket path, one lane
\* takes the mail of a profile, and no drain runs without its claimer, for any
\* number of supervisors, crashes, faults and profiles.
THEOREM ServersAreSafe == SupervisionSpec => []OneServer
<1>1. HostInv => Host!HostTypeOK /\ Host!ServerIsReachable
  BY DEF HostInv, Owning, Bound, Host!ServerIsReachable
<1>2. SupervisionInv => OneServer
  BY <1>1, LaneSafe DEF SupervisionInv, OneServer
<1> QED BY <1>2, SupervisionInvariant, PTL

\* No reply of the Cursor runtime holds text of a turn of another room, for any
\* rooms and deliveries, also after a prompt was given up and while its answer
\* is still on its way.
THEOREM RepliesAreSafe == SupervisionSpec => []RepliesStayInRoom
<1>1. SupervisionInv => RepliesStayInRoom
  BY DEF SupervisionInv, CursorInv, RepliesStayInRoom
<1> QED BY <1>1, SupervisionInvariant, PTL
=============================================================================
