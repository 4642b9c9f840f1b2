------------------------------ MODULE PeerLane ------------------------------
(***************************************************************************)
(* The supervisor's peer lane: a watch loop that starts one profile's peer *)
(* engine process and drain and starts them again when either fails, the   *)
(* manager that owns the engine process, and close(), which may be called  *)
(* at any moment of that.  Each start attempt of the manager has its own   *)
(* number, so that a cancelled attempt cannot touch a newer engine.        *)
(***************************************************************************)
EXTENDS Naturals, FiniteSets

CONSTANT Attempts   \* numbers of start attempts; one no longer in use is taken again

None == "none"

\* What the constants are assumed to be.
AttemptsAssumption == None \notin Attempts

VARIABLES
  mgr,      \* the manager: state, startAttempt, child, the process it stops
  tries,    \* start attempts in flight: [Attempts -> none, probe, boot, ready, failed]
  engines,  \* engine processes that are alive
  drain,    \* the drain service: closed, its loop, the step and runner in flight, the runner close() awaits
  watch,    \* the watch loop: pc and the attempt it waits for
  closer,   \* the call of close()
  calls,    \* sendPeerMessage calls in flight
  signal    \* the supervisor's abort signal

laneVars == <<mgr, tries, engines, drain, watch, closer, calls, signal>>

LaneInit ==
  /\ mgr = [state |-> "stopped", attempt |-> None, child |-> None, killing |-> None]
  /\ tries = [n \in Attempts |-> "none"] /\ engines = {}
  /\ drain = [closed |-> FALSE, loop |-> "off", step |-> FALSE, runner |-> FALSE,
              awaited |-> FALSE]
  /\ watch = [pc |-> "ensure", attempt |-> None] /\ closer = "none" /\ calls = 0 /\ signal = FALSE

Closed == closer # "none"

Free == {n \in Attempts : tries[n] = "none" /\ n \notin engines \cup {mgr.child, mgr.attempt, mgr.killing}}

-----------------------------------------------------------------------------
(* createPeerEngineManager.                                                *)

\* start(): the new state of the manager and of the attempts, for a fresh n.
Joins == mgr.state = "starting" /\ mgr.attempt # None /\ tries[mgr.attempt] \in {"probe", "boot"}

EngineStart(n) ==
  /\ n \in Free /\ mgr.state \notin {"ready", "stopping"} /\ ~Joins
  /\ mgr' = [mgr EXCEPT !.state = "starting", !.attempt = n]
  /\ tries' = [tries EXCEPT ![n] = "probe"]

\* Mutant: an attempt that was cancelled while it probed the socket goes on.
Current_Any(n) == TRUE

Current(n) == mgr.attempt = n

\* The socket in place is probed: a live engine behind it refuses the start.
Probe(n) ==
  /\ tries[n] = "probe"
  /\ IF engines # {} \/ ~Current(n)
     THEN tries' = [tries EXCEPT ![n] = "failed"] /\ UNCHANGED <<mgr, engines>>
     ELSE \/ /\ engines' = engines \cup {n} /\ mgr' = [mgr EXCEPT !.child = n]
             /\ tries' = [tries EXCEPT ![n] = "boot"]
          \/ tries' = [tries EXCEPT ![n] = "failed"] /\ UNCHANGED <<mgr, engines>>
  /\ UNCHANGED <<drain, watch, closer, calls, signal>>

\* The ready line was read and hello answered by the same endpoint.
BecomesReady(n) ==
  /\ tries[n] = "boot" /\ n \in engines /\ mgr' = [mgr EXCEPT !.state = "ready"]
  /\ tries' = [tries EXCEPT ![n] = "ready"]
  /\ UNCHANGED <<engines, drain, watch, closer, calls, signal>>

TimesOut(n) ==
  /\ tries[n] = "boot" /\ tries' = [tries EXCEPT ![n] = "failed"]
  /\ UNCHANGED <<mgr, engines, drain, watch, closer, calls, signal>>

\* Mutant: the exit of a ready engine is not noticed.
Exits_Unseen(n) ==
  /\ n \in engines /\ engines' = engines \ {n}
  /\ IF mgr.child # n \/ mgr.state = "ready" THEN UNCHANGED tries
     ELSE tries' = [tries EXCEPT ![n] = IF @ = "boot" THEN "failed" ELSE @]
  /\ UNCHANGED <<mgr, drain, watch, closer, calls, signal>>

(* An engine exits.  Only the child the manager still holds is noticed.    *)
Exits(n) ==
  /\ n \in engines /\ engines' = engines \ {n}
  /\ IF mgr.child # n THEN UNCHANGED <<mgr, tries>>
     ELSE IF mgr.state = "ready" THEN mgr' = [mgr EXCEPT !.state = "exited"] /\ UNCHANGED tries
     ELSE /\ tries' = [tries EXCEPT ![n] = IF @ = "boot" THEN "failed" ELSE @] /\ UNCHANGED mgr
  /\ UNCHANGED <<drain, watch, closer, calls, signal>>

(* stopEngine up to its wait: the attempt in flight is cancelled and the   *)
(* child is let go and interrupted.                                        *)
Cancelled == [n \in Attempts |-> IF n = mgr.attempt /\ tries[n] = "boot" THEN "failed" ELSE tries[n]]

StopsEngine(ts) ==
  IF mgr.state = "stopping" THEN UNCHANGED mgr /\ tries' = ts
  ELSE /\ tries' = [n \in Attempts |-> IF Cancelled[n] # tries[n] THEN Cancelled[n] ELSE ts[n]]
       /\ mgr' = IF mgr.state \in {"stopped", "exited"} /\ mgr.child = None
                 THEN [mgr EXCEPT !.state = "stopped", !.attempt = None]
                 ELSE [state |-> "stopping", attempt |-> None, child |-> None, killing |-> mgr.child]

\* It has exited, or after five seconds it is killed: nobody waits for that.
EngineStopped ==
  /\ mgr.state = "stopping"
  /\ mgr' = [mgr EXCEPT !.state = "stopped", !.killing = None]
  /\ engines' = engines \ {mgr.killing}
  /\ UNCHANGED <<tries, drain, watch, closer, calls, signal>>

\* A failed attempt cleans up after itself, unless a stop or a newer start has.
CleansUp(n) ==
  /\ tries[n] = "failed" /\ watch.attempt # n
  /\ IF Current(n) THEN StopsEngine([tries EXCEPT ![n] = "none"])
     ELSE tries' = [tries EXCEPT ![n] = "none"] /\ UNCHANGED mgr
  /\ UNCHANGED <<engines, drain, watch, closer, calls, signal>>

-----------------------------------------------------------------------------
(* The drain service, as far as the lane sees it.                          *)
DrainFrame == UNCHANGED <<mgr, tries, engines, watch, closer, calls, signal>>

DrainStep ==
  /\ drain.loop = "on" /\ ~drain.step /\ mgr.state = "ready" /\ DrainFrame
  /\ \E r \in BOOLEAN : drain' = [drain EXCEPT !.step = TRUE, !.runner = @ \/ r]

DrainStepEnds == drain.step /\ drain' = [drain EXCEPT !.step = FALSE] /\ DrainFrame

RunnerEnds == drain.runner /\ drain' = [drain EXCEPT !.runner = FALSE, !.awaited = FALSE] /\ DrainFrame

\* The loop ends when it is told to, or when its engine is gone.
DrainLoopEnds ==
  /\ ~drain.step /\ DrainFrame
  /\ \/ drain.loop = "stop" /\ drain' = [drain EXCEPT !.loop = "off"]
     \/ drain.loop = "on" /\ mgr.state # "ready" /\ drain' = [drain EXCEPT !.loop = "failed"]

DrainStop == drain' = [drain EXCEPT !.loop = IF @ = "on" THEN "stop" ELSE @]

-----------------------------------------------------------------------------
(* watch(): runDurableWakeLoop around start, with its clean-up.            *)
Goes(pc) == watch' = [watch EXCEPT !.pc = pc]

WatchEnsure ==
  /\ watch.pc = "ensure"
  /\ IF signal THEN Goes("done") /\ UNCHANGED <<mgr, tries>>
     ELSE IF Closed THEN Goes("backoff") /\ UNCHANGED <<mgr, tries>>
     ELSE \/ mgr.state = "ready" /\ Goes("serve") /\ UNCHANGED <<mgr, tries>>
          \/ mgr.state = "stopping" /\ Goes("undrain") /\ UNCHANGED <<mgr, tries>>
          \/ Joins /\ watch' = [pc |-> "engine", attempt |-> mgr.attempt] /\ UNCHANGED <<mgr, tries>>
          \/ \E n \in Attempts : EngineStart(n) /\ watch' = [pc |-> "engine", attempt |-> n]
  /\ UNCHANGED <<engines, drain, closer, calls, signal>>

\* An abort rejects the start as well.
WatchEngine ==
  /\ watch.pc = "engine" /\ tries[watch.attempt] \in {"ready", "failed"}
  /\ IF tries[watch.attempt] = "ready"
     THEN /\ watch' = [pc |-> "serve", attempt |-> None]
          /\ tries' = [tries EXCEPT ![watch.attempt] = "none"] /\ UNCHANGED mgr
     ELSE /\ watch' = [pc |-> "undrain", attempt |-> None]
          /\ IF Current(watch.attempt) THEN StopsEngine([tries EXCEPT ![watch.attempt] = "none"])
             ELSE tries' = [tries EXCEPT ![watch.attempt] = "none"] /\ UNCHANGED mgr
  /\ UNCHANGED <<engines, drain, closer, calls, signal>>

WatchServe ==
  /\ watch.pc = "serve" /\ drain.loop = "off"
  /\ IF drain.closed THEN Goes("undrain") /\ UNCHANGED drain
     ELSE Goes("serving") /\ drain' = [drain EXCEPT !.loop = "on"]
  /\ UNCHANGED <<mgr, tries, engines, closer, calls, signal>>

\* A loop that was stopped waits for the signal; one that failed is cleaned up.
WatchServing ==
  /\ watch.pc = "serving"
  /\ \/ signal /\ DrainStop /\ Goes("undrain")
     \/ drain.loop = "failed" /\ drain' = [drain EXCEPT !.loop = "off"] /\ Goes("undrain")
  /\ UNCHANGED <<mgr, tries, engines, closer, calls, signal>>

WatchUndrain ==
  /\ watch.pc = "undrain" /\ drain.loop = "off" /\ Goes("unengine")
  /\ StopsEngine(tries) /\ UNCHANGED <<engines, drain, closer, calls, signal>>

WatchUnengine ==
  /\ watch.pc = "unengine" /\ mgr.state # "stopping" /\ Goes("backoff")
  /\ UNCHANGED <<mgr, tries, engines, drain, closer, calls, signal>>

WatchBackoff ==
  /\ watch.pc = "backoff" /\ Goes(IF signal THEN "done" ELSE "ensure")
  /\ UNCHANGED <<mgr, tries, engines, drain, closer, calls, signal>>

SendPeerMessage ==
  /\ ~Closed /\ watch.pc # "done" /\ calls = 0 /\ ~drain.closed /\ calls' = 1
  /\ UNCHANGED <<mgr, tries, engines, drain, watch, closer, signal>>

CallEnds == calls = 1 /\ calls' = 0 /\ UNCHANGED <<mgr, tries, engines, drain, watch, closer, signal>>

-----------------------------------------------------------------------------
(* close(): refuse new work, wait for the calls in flight, stop the drain, *)
(* wait for its runners, release it, stop the engine.                      *)
CloseFrame == UNCHANGED <<watch, calls, signal>>

CloseBegins == closer = "none" /\ closer' = "calls" /\ UNCHANGED <<mgr, tries, engines, drain>> /\ CloseFrame

CloseDrainStop ==
  /\ closer = "calls" /\ calls = 0 /\ closer' = "stopping" /\ DrainStop
  /\ UNCHANGED <<mgr, tries, engines>> /\ CloseFrame

\* A step that began meanwhile, or another run, refuses the close: close() goes on.
DrainCloses ==
  IF drain.step \/ drain.runner THEN UNCHANGED drain
  ELSE drain' = [drain EXCEPT !.closed = TRUE, !.loop = IF @ = "on" THEN "stop" ELSE @]

CloseDrain ==
  /\ closer = "stopping" /\ drain.loop # "stop"
  /\ IF drain.runner /\ ~drain.step
     THEN closer' = "runners" /\ drain' = [drain EXCEPT !.awaited = TRUE]
     ELSE closer' = "engine" /\ DrainCloses
  /\ UNCHANGED <<mgr, tries, engines>> /\ CloseFrame

CloseRunners ==
  /\ closer = "runners" /\ ~drain.awaited /\ closer' = "engine" /\ DrainCloses
  /\ UNCHANGED <<mgr, tries, engines>> /\ CloseFrame

CloseEngine ==
  /\ closer = "engine" /\ closer' = "ending" /\ StopsEngine(tries)
  /\ UNCHANGED <<engines, drain>> /\ CloseFrame

CloseEnds ==
  /\ closer = "ending" /\ mgr.state # "stopping" /\ closer' = "done"
  /\ UNCHANGED <<mgr, tries, engines, drain>> /\ CloseFrame

Abort == ~signal /\ signal' = TRUE /\ UNCHANGED <<mgr, tries, engines, drain, watch, closer, calls>>

WatchStep ==
  WatchEnsure \/ WatchEngine \/ WatchServe \/ WatchServing \/ WatchUndrain \/ WatchUnengine \/ WatchBackoff

CloseStep == CloseDrainStop \/ CloseDrain \/ CloseRunners \/ CloseEngine \/ CloseEnds

ManagerStep == EngineStopped \/ \E n \in Attempts : Probe(n) \/ CleansUp(n)

DrainEnds == DrainStepEnds \/ RunnerEnds \/ DrainLoopEnds

LaneNext ==
  \/ WatchStep \/ CloseBegins \/ CloseStep \/ ManagerStep \/ DrainStep \/ DrainEnds
  \/ SendPeerMessage \/ CallEnds \/ Abort
  \/ \E n \in Attempts : BecomesReady(n) \/ TimesOut(n) \/ Exits(n)

(* The loops run, an engine told to stop stops, a start that is tried      *)
(* again and again comes up once.                                          *)
LaneFairness ==
  /\ WF_laneVars(WatchStep) /\ WF_laneVars(ManagerStep) /\ WF_laneVars(CloseStep)
  /\ WF_laneVars(DrainStepEnds) /\ WF_laneVars(RunnerEnds) /\ WF_laneVars(DrainLoopEnds)
  /\ WF_laneVars(CallEnds)
  /\ SF_laneVars(\E n \in Attempts : Probe(n) /\ n \in engines')
  /\ SF_laneVars(\E n \in Attempts : BecomesReady(n))

LaneSpec == LaneInit /\ [][LaneNext]_laneVars /\ LaneFairness

-----------------------------------------------------------------------------
(* Never two engine processes on one state directory, and none is left     *)
(* once close() has returned: a start, a stop and a close that overlap     *)
(* leave no process the manager has lost sight of.                         *)
NoStrayEngine ==
  /\ Cardinality(engines) <= 1
  /\ closer = "done" => engines = {}
  /\ \A n \in engines : n \in {mgr.child, mgr.killing}

(* An engine that died is replaced: the watch loop always gets a live one  *)
(* ready again, unless it is stopped; and close() always returns.          *)
LaneServes ==
  /\ []<>((mgr.state = "ready" /\ engines # {}) \/ signal \/ Closed)
  /\ closer = "calls" ~> closer = "done"
=============================================================================
