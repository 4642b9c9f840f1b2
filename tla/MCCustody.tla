------------------------------ MODULE MCCustody -----------------------------
(***************************************************************************)
(* Who has custody of what came in until it is answered, for TLC: of a     *)
(* mailbox delivery the Linux runtime, the transaction service of the      *)
(* mailbox helper, or the older polling client, of which an installation   *)
(* uses one; of a peer's message the drain behind the peer engine.  They   *)
(* share no state: a behaviour takes one `part` and leaves the others at   *)
(* rest.                                                                   *)
(***************************************************************************)
EXTENDS LinuxCustodian, Naturals

CONSTANTS co, orphan,
          Mail, Asked, Replies, Callers, Coordinators, Owner, Scopes, StuckAfter, MaxKills,
          Workers, Polled, Kind, MaxAttempts, MaxAcks, MaxLists, MaxFaults,
          request, answer, question, Items, Asks, KindOf, InReplyTo, MaxRecords, MaxResolved, MaxForget

VARIABLES part,
          open, quar, call, late, claim, told, replies, settled, kills,
          mail, net, wk, faults,
          rows, corr, opened, routed, turn, runner, inbox, arrived, out, hist

Service == INSTANCE MailboxTransaction
             WITH Deliveries <- Mail, ReplyRequired <- Asked, Texts <- Replies,
                  MaxFailures <- StuckAfter, acked <- told
Client == INSTANCE MailboxClient WITH Deliveries <- Polled
Drain == INSTANCE PeerDrain
           WITH Kind <- KindOf, MaxRetries <- MaxResolved, rec <- rows, open <- opened

ASSUME ServiceConstants == Service!MailboxAssumption
ASSUME ClientConstants == Client!MailboxClientAssumption
ASSUME DrainConstants == Drain!PeerDrainAssumption

\* A coordinator and an operator's helper claim under the same protocol.
MCOwner == [c \in Callers |-> "coordinator-delivery-v1"]
MCScopes == {Mail}
MCKind == [d \in Polled |-> CASE d = 1 -> "ask" [] d = 2 -> "skip" [] OTHER -> "note"]
\* The peer asks something, and answers what was asked of it.
MCKindOf == [i \in Items |-> IF i = request THEN "request" ELSE "reply"]
MCInReplyTo == [i \in Items |-> question]

serviceVars == <<open, quar, call, late, claim, told, replies, settled, kills>>
clientVars == <<mail, net, wk, faults>>
drainVars == <<rows, corr, opened, routed, turn, runner, inbox, arrived, out, hist>>

\* Operators and retention act on a request that comes alone; one that comes
\* beside an answer goes its way undisturbed.
DrainScope ==
  IF part = "request"
  THEN answer \notin arrived'
  ELSE hist'.gone = {} /\ \A i \in Items : rows'[i].resend = 0 /\ hist'.licence[i] = 1

CustodyInit ==
  /\ part \in {"linux", "service", "client", "request", "both"}
  /\ Init /\ Service!Init /\ Client!MailboxInit /\ Drain!DrainInit

CustodyNext ==
  \/ part = "linux" /\ Next /\ UNCHANGED <<part, serviceVars, clientVars, drainVars>>
  \/ part = "service" /\ Service!Next /\ UNCHANGED <<part, vars, clientVars, drainVars>>
  \/ part = "client" /\ Client!MailboxNext /\ UNCHANGED <<part, vars, serviceVars, drainVars>>
  \/ /\ part \in {"request", "both"} /\ Drain!DrainNext /\ DrainScope
     /\ UNCHANGED <<part, vars, serviceVars, clientVars>>

\* The workers poll, and the server ends a lease that is not renewed.
CustodySpec ==
  /\ CustodyInit /\ [][CustodyNext]_<<part, vars, serviceVars, clientVars, drainVars>>
  /\ \A w \in Workers : WF_clientVars(part = "client" /\ Client!Works(w))
  /\ \A d \in Polled : WF_clientVars(part = "client" /\ Client!Lapses(d))

\* A delivery the helper holds at the server is acknowledged, open on disk or
\* quarantined, whichever helper died between its steps.
NoOrphanClaim == part = "service" => Service!NoOrphanClaim

\* Whatever interleaves and dies, the helper keeps the mailbox promise: one
\* reply per delivery, acknowledged only with the reply it asked for.
KeepsMailbox == Service!KeepsMailbox

\* A delivery that wants a reply leaves the mailbox only with one, and a
\* worker's cursor passes no delivery that is still open and not set aside.
MailIsSafe == part = "client" => Client!RepliedBeforeAcked /\ Client!SkipsNothing

\* Every request a peer sent is run once unless an operator retries it, gets one
\* answer however often that is resent, and none is lost on the way from the
\* engine's inbox to the record, whichever step the process dies at.
DrainAnswers ==
  part \in {"request", "both"} =>
    Drain!RunsAreLicensed /\ Drain!OneAnswer /\ Drain!NothingLost

\* Every delivery that needs a turn is settled or set aside in the end.
MailEnds == part = "client" => Client!MailEnds
=============================================================================
