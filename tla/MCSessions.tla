----------------------------- MODULE MCSessions -----------------------------
(***************************************************************************)
(* Wakes of chats and of drained profiles, for TLC: the hints that reach a *)
(* chat's session, the supervisor's event-driven wakes, and the install    *)
(* watch that tells the drains.  They share no state: a behaviour takes    *)
(* one `part` and leaves the others at rest, so the states reached are     *)
(* those of each module alone.                                             *)
(***************************************************************************)
EXTENDS SessionWake, TLC

CONSTANTS Profiles, Foreign, FirstMark, Places, MaxMail, MaxFaults, MaxCrashes,
          Lanes, Addressed, MaxEvents

VARIABLES part,
          mail, stream, cursor, listener, pending, sched, stopped, faults, crashes,
          log, unread, seen, loop, healthy, lane, host, breaks

Event == INSTANCE EventWake
Watch == INSTANCE InstallWatch WITH mail <- unread, cursor <- seen, faults <- breaks

ASSUME WatchConstants == Watch!WatchAssumption
ASSUME EventConstants == Event!EventAssumption

\* Wake ids are only compared for equality.
Symmetric == Permutations(Wakes)

eventVars == <<mail, stream, cursor, listener, pending, sched, stopped, faults, crashes>>
watchVars == <<log, unread, seen, loop, healthy, lane, host, breaks>>

SessionsInit ==
  /\ part \in {"session", "event", "watch"}
  /\ Init /\ Event!WakeInit /\ Watch!WatchInit
  /\ part # "event" => \A p \in Profiles : mail[p] = 0

SessionsNext ==
  \/ part = "session" /\ Next /\ UNCHANGED <<part, eventVars, watchVars>>
  \/ part = "event" /\ Event!WakeNext /\ UNCHANGED <<part, vars, watchVars>>
  \/ part = "watch" /\ Watch!WatchNext /\ UNCHANGED <<part, vars, eventVars>>

SessionsSpec == SessionsInit /\ [][SessionsNext]_<<part, vars, eventVars, watchVars>>

\* Mail whose event the listener has left behind is with the scheduler,
\* through wakes during a turn, an empty preflight that raced an arrival,
\* resyncs and a crash after the cursor was kept.
NoForgottenMail == part = "event" => Event!NoForgottenMail

\* A drain lets its ticks pass over unread mail only while the hint of that
\* mail is still to come, through restarts, failed fan-outs and resyncs.
QuietIsCovered == part = "watch" => Watch!QuietIsCovered
=============================================================================
