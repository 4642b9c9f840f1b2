------------------------------- MODULE MCSetup ------------------------------
(***************************************************************************)
(* Commands of an owner and requests of a peer against an authority that   *)
(* may lose, delay or refuse them, for TLC: the guided setup, the progress *)
(* journal its clients write, and the A2A gateway.  They share no state: a *)
(* behaviour takes one `part` and leaves the others at rest.               *)
(***************************************************************************)
EXTENDS GuidedSetup, TLC

CONSTANTS Writers, Fields, MaxClock,
          Requests, Messages, MaxContinuations, MaxTokens, MaxErrors, MaxChecks

VARIABLES part,
          doc, writer, lock, clock, evidence, spent,
          room, answered, req, cached, exchange, issued, revoked, errors

Progress == INSTANCE ProgressJournal WITH faults <- spent
Gateway == INSTANCE A2AGateway
             WITH inflight <- exchange, faults <- errors, MaxFaults <- MaxErrors

ASSUME SetupConstants ==
  SetupAssumption /\ Progress!ProgressAssumption /\ Gateway!GatewayAssumption

progressVars == <<doc, writer, lock, clock, evidence, spent>>
gatewayVars == <<room, answered, req, cached, exchange, issued, revoked, errors>>

\* Homes and keys are only compared for equality, and so are the requests of
\* the gateway and the writers, which stand for the same values as the homes.
Symmetric == Permutations(Keys) \cup Permutations(Homes)

MCInit ==
  /\ part \in {"setup", "progress", "gateway"}
  /\ SetupInit /\ Progress!ProgressInit /\ Gateway!GatewayInit
  /\ part # "setup" => \A h \in Homes : invite[h] = "teammate"
  /\ part # "gateway" => \A r \in Requests : req[r].job.kind = "list"

MCNext ==
  \/ part = "setup" /\ SetupNext /\ UNCHANGED <<part, progressVars, gatewayVars>>
  \/ /\ part = "progress" /\ Progress!ProgressNext
     /\ UNCHANGED <<part, setupVars, gatewayVars>>
  \/ /\ part = "gateway" /\ Gateway!GatewayNext
     /\ UNCHANGED <<part, setupVars, progressVars>>

MCSpec == MCInit /\ [][MCNext]_<<part, setupVars, progressVars, gatewayVars>>

\* What a command relies on stays on disk, wherever a process died: an agent
\* the authority created has its key on this device unless the user discarded
\* it, a service that was added has everything it starts with, and what the
\* progress journal reported as written is not erased by an older snapshot.
RecordsAreKept ==
  /\ part = "setup" => KeyIsKept /\ ServiceIsBacked
  /\ part = "progress" => Progress!EvidenceStays

\* A peer that waits is never told "completed" by a reply to an earlier message
\* of its task, and the retry after a 401 never carries the refused token.
GatewayAnswers == part = "gateway" => Gateway!AnswerIsNotOlder /\ Gateway!RetryIsFresh
=============================================================================
