---------------------------- MODULE ReasonerGate ----------------------------
(***************************************************************************)
(* The gate every reasoner run passes (concurrency-gate.mjs): first the    *)
(* gate of its profile, with one place, then the global gate.  Both are    *)
(* first come first served; a waiting run may be aborted.  Counters and    *)
(* queues are changed by synchronous code; a run that is let in resumes in *)
(* a later turn of the event loop, and an abort may fall in between.       *)
(***************************************************************************)
EXTENDS Integers, Sequences, FiniteSets, SequencesExt

CONSTANTS
  Runs,       \* operations
  Profiles,
  ProfileOf,  \* the profile (instanceId) of a run, or None
  Limit,      \* places of the global gate
  None

\* What the constants are assumed to be.
GateAssumption ==
  /\ Limit \in Nat \ {0}
  /\ ProfileOf \in [Runs -> Profiles \cup {None}]
  /\ None \notin Profiles
  /\ IsFiniteSet(Runs)

VARIABLES
  stage,     \* where each run is
  aborted,   \* runs whose signal is aborted
  pqueue,    \* waiting entries of each profile gate
  pactive,   \* its active counter
  gqueue,    \* waiting entries of the global gate
  gactive    \* its active counter

vars == <<stage, aborted, pqueue, pactive, gqueue, gactive>>

\* The stages of a run: new; pwait, padmitted (waiting and let in at the
\* profile gate); gwait, gadmitted, running (the global gate); settling (out of
\* the global gate, the profile's not left yet); done.

\* How many of a queue admitNext lets in.
Room(queue, active, limit) ==
  IF active >= limit THEN 0
  ELSE IF Len(queue) <= limit - active THEN Len(queue) ELSE limit - active
Admitted(queue, n) == {queue[i] : i \in 1..n}
Rest(queue, n) == SubSeq(queue, n + 1, Len(queue))

\* Mutant: the place of a run that ends is not offered to the next one.
AdmitGlobalNoOne(queue, active, stages) ==
  /\ gqueue' = queue
  /\ gactive' = active
  /\ stage' = stages

\* admitNext of the global gate.
AdmitGlobal(queue, active, stages) ==
  LET n == Room(queue, active, Limit) IN
    /\ gqueue' = Rest(queue, n)
    /\ gactive' = active + n
    /\ stage' = [x \in Runs |-> IF x \in Admitted(queue, n) THEN "gadmitted"
                                ELSE stages[x]]

\* Mutant: a profile lets in as many as the global gate.
AdmitProfileWide(p, queue, active, stages) ==
  LET n == Room(queue, active, Limit) IN
    /\ pqueue' = [pqueue EXCEPT ![p] = Rest(queue, n)]
    /\ pactive' = [pactive EXCEPT ![p] = active + n]
    /\ stage' = [x \in Runs |-> IF x \in Admitted(queue, n) THEN "padmitted"
                                ELSE stages[x]]

\* admitNext of a profile's gate.
AdmitProfile(p, queue, active, stages) ==
  LET n == Room(queue, active, 1) IN
    /\ pqueue' = [pqueue EXCEPT ![p] = Rest(queue, n)]
    /\ pactive' = [pactive EXCEPT ![p] = active + n]
    /\ stage' = [x \in Runs |-> IF x \in Admitted(queue, n) THEN "padmitted"
                                ELSE stages[x]]

-----------------------------------------------------------------------------
Moved(x, s) == [stage EXCEPT ![x] = s]

\* run with an instanceId: acquire at the profile gate.
ArriveAtProfile(x) ==
  /\ stage[x] = "new" /\ ProfileOf[x] # None /\ x \notin aborted
  /\ LET p == ProfileOf[x] IN
       AdmitProfile(p, Append(pqueue[p], x), pactive[p], Moved(x, "pwait"))
  /\ UNCHANGED <<aborted, gqueue, gactive>>

\* run without one, or the operation of the profile gate: acquire at the
\* global gate.
ArriveAtGlobal(x) ==
  /\ \/ stage[x] = "new" /\ ProfileOf[x] = None
     \/ stage[x] = "padmitted"
  /\ x \notin aborted
  /\ AdmitGlobal(Append(gqueue, x), gactive, Moved(x, "gwait"))
  /\ UNCHANGED <<aborted, pqueue, pactive>>

\* Mutant: a run that leaves the global gate does not leave its profile's.
ProfileForgotten(x) == "done"

\* After the global gate: back through the profile's finally, if it has one.
AfterGlobal(x) == IF ProfileOf[x] = None THEN "done" ELSE "settling"

\* acquire with a signal that is aborted rejects at once.
RejectAtGlobal(x) ==
  /\ x \in aborted
  /\ stage[x] = "padmitted" \/ (stage[x] = "new" /\ ProfileOf[x] = None)
  /\ stage' = Moved(x, AfterGlobal(x))
  /\ UNCHANGED <<aborted, pqueue, pactive, gqueue, gactive>>

RejectAtProfile(x) ==
  /\ x \in aborted
  /\ stage[x] = "new" /\ ProfileOf[x] # None
  /\ stage' = Moved(x, "done")
  /\ UNCHANGED <<aborted, pqueue, pactive, gqueue, gactive>>

Start(x) ==
  /\ stage[x] = "gadmitted"
  /\ stage' = Moved(x, "running")
  /\ UNCHANGED <<aborted, pqueue, pactive, gqueue, gactive>>

\* The operation settles: finally of the global gate.
Finish(x) ==
  /\ stage[x] = "running"
  /\ AdmitGlobal(gqueue, gactive - 1, Moved(x, AfterGlobal(x)))
  /\ UNCHANGED <<aborted, pqueue, pactive>>

\* finally of the profile gate.
LeaveProfile(x) ==
  /\ stage[x] = "settling"
  /\ LET p == ProfileOf[x] IN
       AdmitProfile(p, pqueue[p], pactive[p] - 1, Moved(x, "done"))
  /\ UNCHANGED <<aborted, gqueue, gactive>>

\* onAbort takes a waiting entry out of its queue.
Without(queue, x) ==
  IF \E i \in 1..Len(queue) : queue[i] = x
  THEN RemoveAt(queue, CHOOSE i \in 1..Len(queue) : queue[i] = x)
  ELSE queue

Abort(x) ==
  /\ x \notin aborted /\ stage[x] # "done"
  /\ aborted' = aborted \cup {x}
  /\ \/ /\ stage[x] = "pwait"
        /\ pqueue' = [pqueue EXCEPT ![ProfileOf[x]] = Without(@, x)]
        /\ stage' = Moved(x, "done")
        /\ UNCHANGED gqueue
     \/ /\ stage[x] = "gwait"
        /\ gqueue' = Without(gqueue, x)
        /\ stage' = Moved(x, AfterGlobal(x))
        /\ UNCHANGED pqueue
     \/ /\ stage[x] \notin {"pwait", "gwait"}
        /\ UNCHANGED <<stage, pqueue, gqueue>>
  /\ UNCHANGED <<pactive, gactive>>

Init ==
  /\ stage = [x \in Runs |-> "new"]
  /\ aborted = {}
  /\ pqueue = [p \in Profiles |-> <<>>]
  /\ pactive = [p \in Profiles |-> 0]
  /\ gqueue = <<>>
  /\ gactive = 0

Step(x) ==
  \/ ArriveAtGlobal(x) \/ RejectAtGlobal(x)
  \/ Start(x) \/ Finish(x) \/ LeaveProfile(x)

Next ==
  \/ \E x \in Runs : ArriveAtProfile(x) \/ RejectAtProfile(x) \/ Step(x) \/ Abort(x)
  \/ (\A x \in Runs : stage[x] = "done") /\ UNCHANGED vars

Spec == Init /\ [][Next]_vars
-----------------------------------------------------------------------------
(* Properties.                                                             *)

InProfile(p) ==
  {x \in Runs : ProfileOf[x] = p /\
     stage[x] \in {"padmitted", "gwait", "gadmitted", "running", "settling"}}
InGlobal == {x \in Runs : stage[x] \in {"gadmitted", "running"}}

\* The counters count exactly the runs that hold a place, never more than
\* there are: no abort, at any moment, leaks a place or gives one back twice.
PlacesCounted ==
  /\ gactive = Cardinality(InGlobal) /\ gactive <= Limit
  /\ \A p \in Profiles : pactive[p] = Cardinality(InProfile(p))

\* "A busy profile must not reserve global capacity": of each profile at most
\* one run is at the global gate, waiting or inside.
OnePerProfile ==
  \A p \in Profiles :
    Cardinality({x \in Runs : ProfileOf[x] = p /\
                   stage[x] \in {"gwait", "gadmitted", "running"}}) <= 1

\* Liveness: the event loop goes on and every operation settles.
Fairness == \A x \in Runs : WF_vars(Step(x))

\* Whoever waits at a gate gets through or is aborted.
WaitingEnds == \A x \in Runs : stage[x] \in {"pwait", "gwait"} ~> stage[x] = "done"
=============================================================================
