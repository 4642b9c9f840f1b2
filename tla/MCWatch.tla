------------------------------- MODULE MCWatch ------------------------------
(***************************************************************************)
(* What follows the life of other processes, for TLC: the wake loops that  *)
(* share a watch grant, the drains under the install watch, the lane that  *)
(* keeps a peer engine running, and the directory that learns of chat      *)
(* sessions from their hooks.  They share no state: a behaviour takes one  *)
(* `part` and leaves the others at rest.                                   *)
(***************************************************************************)
EXTENDS SessionDirectory

CONSTANTS Lanes, First, Bound, Attempts,
          Drains, Foreign, Addressed, MaxEvents, MaxFaults,
          s1, s2, s3

VARIABLES part,
          grant, lane, slot, flight, timer, stopped,
          mgr, tries, engines, drain, watch, closer, calls, signal,
          log, mail, cursor, loop, healthy, drains, host, faults

Grant == INSTANCE WatchGrants WITH signal <- stopped
Peer == INSTANCE PeerLane
Install == INSTANCE InstallWatch WITH Lanes <- Drains, lane <- drains

ASSUME GrantConstants == Grant!LanesAssumption
ASSUME PeerConstants == Peer!AttemptsAssumption
ASSUME InstallConstants == Install!WatchAssumption

Observed(s, kind, at) == [of |-> s, kind |-> kind, at |-> at]

\* One session that runs twice, with activity at either end; others that fill
\* the directory and end.
MCEvents ==
  {Observed(s1, "start", 1), Observed(s1, "end", 2), Observed(s1, "start", 2),
   Observed(s1, "start", 3), Observed(s1, "activity", 4),
   Observed(s2, "start", 1), Observed(s2, "end", 2),
   Observed(s3, "start", 1)}

grantVars == <<grant, lane, slot, flight, timer, stopped>>
peerVars == <<mgr, tries, engines, drain, watch, closer, calls, signal>>
installVars == <<log, mail, cursor, loop, healthy, drains, host, faults>>

WatchInit ==
  /\ part \in {"grant", "peer", "install", "directory"}
  /\ Grant!GrantInit /\ Peer!LaneInit /\ Install!WatchInit /\ Init
  /\ part # "grant" => grant = "live"

WatchNext ==
  \/ /\ part = "grant" /\ Grant!GrantNext
     /\ UNCHANGED <<part, peerVars, installVars, vars>>
  \/ /\ part = "peer" /\ Peer!LaneNext
     /\ UNCHANGED <<part, grantVars, installVars, vars>>
  \/ /\ part = "install" /\ Install!WatchNext
     /\ UNCHANGED <<part, grantVars, peerVars, vars>>
  \/ /\ part = "directory" /\ Next
     /\ UNCHANGED <<part, grantVars, peerVars, installVars>>

\* The fairness of each part.
WatchSpec ==
  /\ WatchInit /\ [][WatchNext]_<<part, grantVars, peerVars, installVars, vars>>
  /\ part = "grant" => Grant!GrantFairness
  /\ part = "peer" => Peer!LaneFairness
  /\ WF_installVars(part = "install" /\ Install!HostNext)
  /\ \A p \in Drains : WF_installVars(part = "install" /\ Install!DrainNext(p))

\* Nothing is started twice: wake loops that fail together on one dead grant
\* share one renewal, and there are never two engine processes on one state
\* directory, nor one that the manager has lost sight of or close() has left.
NothingTwice ==
  /\ part = "grant" => Grant!RenewalsAreNeeded
  /\ part = "peer" => Peer!NoStrayEngine

\* What a loop is there for happens: a grant that died is renewed unless every
\* loop is parked or the supervisor stops; an engine that died is replaced
\* unless the lane is stopped, and close() returns; and every delivery is
\* drained at last, also if the watch never says a word.
LoopsComeBack ==
  /\ part = "grant" => Grant!DeadGrantIsRenewed
  /\ part = "peer" => Peer!LaneServes
  /\ Install!MailIsDrained
=============================================================================
