------------------------------- MODULE MCWakes ------------------------------
(***************************************************************************)
(* The liveness of wakes, for TLC: the notifier's hints to a paired        *)
(* conversation, and the hints to a session whose MCP child is replaced.   *)
(* The two share no state: a behaviour takes one `part` and leaves the     *)
(* other at rest.                                                          *)
(***************************************************************************)
EXTENDS WakeHints

CONSTANTS Children, Relearns, Reservations, Owed, MaxRuns

VARIABLES part, life, run, fresh, up, att, bind, hist, rested, owed, pinned, cred,
          job, dead, reports, acks, drawn, shown, acked

Session == INSTANCE SessionWake
             WITH Wakes <- Reservations, Items <- Owed, MaxGen <- MaxRuns,
                  gen <- run, items <- owed, used <- drawn, sent <- shown, done <- acked

sessionVars == <<life, run, fresh, up, att, bind, hist, rested, owed, pinned, cred,
                 job, dead, reports, acks, drawn, shown, acked>>

WakesInit ==
  /\ part \in {"hints", "session"}
  /\ Init /\ Session!Init
  /\ part # "hints" => config = (CHOOSE t \in Threads : TRUE)

WakesNext ==
  \/ part = "hints" /\ Next /\ UNCHANGED <<part, sessionVars>>
  \/ part = "session" /\ Session!Next /\ UNCHANGED <<part, vars>>

\* At rest no fair step is enabled: the fairness is that of each part.
WakesSpec ==
  /\ WakesInit /\ [][WakesNext]_<<part, vars, sessionVars>>
  /\ Fairness /\ Session!Fairness

\* When one child that relearns its generation remains beside a running
\* session, something owed to the chat does not stay beside an idle binding.
ReplacementWakes == Session!ReplacementWakes
=============================================================================
