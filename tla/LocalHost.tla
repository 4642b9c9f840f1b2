------------------------------ MODULE LocalHost ------------------------------
(***************************************************************************)
(* The local messaging host inside the client supervisor.  A supervisor    *)
(* process reports ready, waits for the activation marker of its           *)
(* generation and watches; its local loop opens the journal (an exclusive  *)
(* owner lock), takes the control socket's path, starts the dispatcher and *)
(* then the notifier, and gives everything back in the opposite order.     *)
(* Two processes overlap when one replaces the other.                      *)
(***************************************************************************)
EXTENDS Naturals

CONSTANTS
  Supervisors,
  MaxFaults,   \* steps of a start that fail by themselves
  MaxCrashes   \* processes killed

VARIABLES
  stage,    \* of each supervisor's local loop
  owner,    \* holder of the journal's owner lock
  path,     \* what the socket path names: a listening supervisor, or a dead one's socket
  failure,  \* localFailure: the outstanding failure localStatus reports
  aborted,  \* supervisors whose signal is aborted
  faults,
  crashes

hostVars == <<stage, owner, path, failure, aborted, faults, crashes>>

Nobody == "nobody"
Stale == "stale"

\* What the constants are assumed to be.
HostAssumption ==
  /\ MaxFaults \in Nat /\ MaxCrashes \in Nat
  /\ Nobody \notin Supervisors /\ Stale \notin Supervisors

Starting == {"open", "opened", "probed", "cleaned", "bound", "accepting"}
Stopping == {"closing", "draining", "closed"}
Stages == {"off", "ready", "retry", "serving", "failed", "backoff"} \cup Starting \cup Stopping

\* One stage per supervisor, one owner of the journal, one node at the path.
HostTypeOK ==
  /\ stage \in [Supervisors -> Stages] /\ failure \in [Supervisors -> BOOLEAN]
  /\ owner \in Supervisors \cup {Nobody} /\ path \in Supervisors \cup {Nobody, Stale}
  /\ aborted \subseteq Supervisors /\ faults \in 0..MaxFaults /\ crashes \in 0..MaxCrashes

HostInit ==
  /\ stage = [s \in Supervisors |-> "off"] /\ owner = Nobody /\ path = Nobody
  /\ failure = [s \in Supervisors |-> FALSE] /\ aborted = {} /\ faults = 0 /\ crashes = 0

Goes(s, from, to) == stage[s] = from /\ stage' = [stage EXCEPT ![s] = to]

Fault == faults < MaxFaults /\ faults' = faults + 1

(* loadLocalMessagingConfig refuses the owner's file.                      *)
ConfigFails == Fault

Marks(s, b) == failure' = [failure EXCEPT ![s] = b]

-----------------------------------------------------------------------------
(* The process: bootstrap, construction of the host (a bad configuration   *)
(* is kept for the first turn of the loop), activation, end.               *)
Construct(s) ==
  /\ Goes(s, "off", "ready") /\ s \notin aborted
  /\ \/ Marks(s, FALSE) /\ UNCHANGED faults
     \/ Marks(s, TRUE) /\ ConfigFails
  /\ UNCHANGED <<owner, path, aborted, crashes>>

(* The marker of this generation was found; the pending construction error *)
(* is thrown by the first turn.                                            *)
Activated(s) ==
  /\ s \notin aborted /\ Goes(s, "ready", IF failure[s] THEN "failed" ELSE "retry")
  /\ UNCHANGED <<owner, path, failure, aborted, faults, crashes>>

ActivationTimedOut(s) ==
  /\ Goes(s, "ready", "off") /\ Marks(s, FALSE) /\ UNCHANGED <<owner, path, aborted, faults, crashes>>

(* SIGTERM, or the parent process is gone.                                 *)
Abort(s) ==
  /\ stage[s] # "off" /\ s \notin aborted /\ aborted' = aborted \cup {s}
  /\ UNCHANGED <<stage, owner, path, failure, faults, crashes>>

-----------------------------------------------------------------------------
(* One turn of the local loop: every exit of start before the server       *)
(* listens is one of these failures.                                       *)
Unchanged == UNCHANGED <<failure, aborted, crashes>>

(* createInstalledLocalMessagingHost rereads the owner's files.            *)
OpenHost(s) ==
  /\ s \notin aborted /\ UNCHANGED <<owner, path>> /\ Unchanged
  /\ \/ Goes(s, "retry", "open") /\ UNCHANGED faults
     \/ Goes(s, "retry", "failed") /\ ConfigFails

\* Mutant: the journal is opened without its owner's lock.
OpenJournal_Shared(s) ==
  /\ UNCHANGED path /\ Unchanged /\ UNCHANGED faults
  /\ Goes(s, "open", "opened") /\ owner' = s

\* openDeliveryJournal: BEGIN EXCLUSIVE with no busy timeout.
OpenJournal(s) ==
  /\ UNCHANGED path /\ Unchanged /\ UNCHANGED faults
  /\ IF owner = Nobody
     THEN Goes(s, "open", "opened") /\ owner' = s
     ELSE Goes(s, "open", "failed") /\ UNCHANGED owner

(* The wake binding, the session broker: these come before the part of     *)
(* start that cleans up, so that the journal stays open when they fail.    *)
PrepareFails(s) ==
  /\ Goes(s, "opened", "failed") /\ Fault /\ UNCHANGED <<owner, path>> /\ Unchanged

(* cleanupStaleSocket connects to what it finds.                           *)
Probe(s) ==
  /\ UNCHANGED <<owner, path>> /\ Unchanged
  /\ \/ Goes(s, "opened", "cleaned") /\ path = Nobody /\ UNCHANGED faults
     \/ Goes(s, "opened", "probed") /\ path = Stale /\ UNCHANGED faults
     \/ Goes(s, "opened", "closed") /\ path \in Supervisors /\ UNCHANGED faults
     \/ Goes(s, "opened", "closed") /\ path # Nobody /\ Fault

(* A refused connection proves nobody listened; the path is unlinked.      *)
Unlink(s) ==
  /\ Goes(s, "probed", "cleaned") /\ path' = Nobody /\ UNCHANGED <<owner, faults>> /\ Unchanged

Bind(s) ==
  /\ UNCHANGED owner /\ Unchanged
  /\ \/ Goes(s, "cleaned", "bound") /\ path = Nobody /\ path' = s /\ UNCHANGED faults
     \/ Goes(s, "cleaned", "closed") /\ path # Nobody /\ UNCHANGED <<path, faults>>
     \/ Goes(s, "cleaned", "closed") /\ Fault /\ UNCHANGED path

(* Recovery of the dispatcher, and only then requests; when it fails the   *)
(* server is closed again.                                                 *)
DispatcherStart(s) ==
  /\ UNCHANGED owner /\ Unchanged
  /\ \/ Goes(s, "bound", "accepting") /\ UNCHANGED <<path, faults>>
     \/ Goes(s, "bound", "closed") /\ Fault /\ path' = Nobody

(* With the notifier up the start is complete and the failure is over.     *)
NotifierStart(s) ==
  /\ UNCHANGED <<owner, path, aborted, crashes>>
  /\ \/ Goes(s, "accepting", "serving") /\ Marks(s, FALSE) /\ UNCHANGED faults
     \/ Goes(s, "accepting", "closing") /\ Fault /\ UNCHANGED failure

-----------------------------------------------------------------------------
(* stop: the notifier, the server, its dispatcher, the socket, the journal.*)
StopHost(s) ==
  /\ s \in aborted /\ Goes(s, "serving", "closing")
  /\ UNCHANGED <<owner, path, faults>> /\ Unchanged

(* Closing a listening socket unlinks its path.                            *)
CloseServer(s) ==
  /\ Goes(s, "closing", "draining") /\ path' = Nobody /\ UNCHANGED <<owner, faults>> /\ Unchanged

(* The requests and executions under way have ended; a path this server    *)
(* bound, by its inode, is unlinked.                                       *)
Drained(s) ==
  /\ Goes(s, "draining", "closed") /\ path' = IF path = s THEN Nobody ELSE path
  /\ UNCHANGED <<owner, faults>> /\ Unchanged

(* The journal last.  A process that was aborted ends here; a start that   *)
(* failed is a failure of the loop's turn.                                 *)
CloseJournal(s) ==
  /\ \/ s \in aborted /\ Goes(s, "closed", "off") /\ aborted' = aborted \ {s} /\ Marks(s, FALSE)
     \/ s \notin aborted /\ Goes(s, "closed", "failed") /\ UNCHANGED <<aborted, failure>>
  /\ owner' = Nobody /\ UNCHANGED <<path, faults, crashes>>

\* Mutant: the loop forgets the host without stopping it.
Released_Never(s) == owner

\* stopLocalHost: the host that failed gives up a journal it still has.
Released(s) == IF owner = s THEN Nobody ELSE owner

(* The loop's catch: the failure is recorded, the host stopped, and the    *)
(* next turn follows after a delay; with an aborted signal the loop ends.  *)
TurnFails(s) ==
  /\ owner' = Released(s) /\ UNCHANGED <<path, faults, crashes>>
  /\ \/ s \notin aborted /\ Goes(s, "failed", "backoff") /\ Marks(s, TRUE) /\ UNCHANGED aborted
     \/ s \in aborted /\ Goes(s, "failed", "off") /\ aborted' = aborted \ {s} /\ Marks(s, FALSE)

Retry(s) ==
  /\ s \notin aborted /\ Goes(s, "backoff", "retry")
  /\ UNCHANGED <<owner, path, faults>> /\ Unchanged

(* An aborted signal ends the wait for activation and the loop between two *)
(* turns.                                                                  *)
EndLoop(s) ==
  /\ s \in aborted /\ \E w \in {"ready", "retry", "backoff"} : Goes(s, w, "off")
  /\ aborted' = aborted \ {s} /\ Marks(s, FALSE) /\ UNCHANGED <<owner, path, faults, crashes>>

(* The process is killed: its lock goes, its socket stays behind.          *)
Crash(s) ==
  /\ stage[s] # "off" /\ crashes < MaxCrashes /\ crashes' = crashes + 1
  /\ stage' = [stage EXCEPT ![s] = "off"] /\ owner' = IF owner = s THEN Nobody ELSE owner
  /\ path' = IF path = s THEN Stale ELSE path
  /\ aborted' = aborted \ {s} /\ Marks(s, FALSE) /\ UNCHANGED faults

LoopStep(s) ==
  \/ OpenHost(s) \/ OpenJournal(s) \/ Probe(s) \/ Unlink(s) \/ Bind(s) \/ DispatcherStart(s)
  \/ NotifierStart(s) \/ StopHost(s) \/ CloseServer(s) \/ Drained(s) \/ CloseJournal(s)
  \/ TurnFails(s) \/ Retry(s) \/ EndLoop(s)

HostNext ==
  \E s \in Supervisors :
    \/ LoopStep(s) \/ PrepareFails(s)
    \/ Construct(s) \/ Activated(s) \/ ActivationTimedOut(s) \/ Abort(s) \/ Crash(s)

(* The event loop runs; nobody has to start a process, kill it or write    *)
(* its marker.                                                             *)
HostSpec ==
  /\ HostInit /\ [][HostNext]_hostVars
  /\ \A s \in Supervisors : WF_hostVars(LoopStep(s))

-----------------------------------------------------------------------------
(* Requests are answered by one process, the one that owns the journal,    *)
(* and they can reach it: the socket path names it.  Two processes may be  *)
(* starting, and one of them may find the other's dead socket.             *)
ServerIsReachable ==
  \A s \in Supervisors :
    stage[s] \in {"accepting", "serving"} => owner = s /\ path = s

(* A local route that watches gets to serve, or another process does, or   *)
(* its own ends: no failed start leaves behind what the next one needs, and *)
(* two processes that start do not keep refusing each other.               *)
LocalRouteComesUp ==
  \A s \in Supervisors :
    stage[s] = "retry" ~>
      s \in aborted \/ stage[s] = "off" \/ \E q \in Supervisors : stage[q] = "serving"
=============================================================================
