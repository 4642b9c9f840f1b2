----------------------------- MODULE A2AGateway -----------------------------
(***************************************************************************)
(* The A2A gateway.  A peer's SendMessage becomes an event of a MESH room, *)
(* and the task's state is projected from the room at every question: one  *)
(* call lists the messages of the task, one more per message looks for its *)
(* reply.  Requests run side by side and share the gateway's access token, *)
(* which one exchange at a time renews.  MESH, the worker that replies and *)
(* the peers are external; one task stands for each of a sender's tasks.   *)
(***************************************************************************)
EXTENDS Naturals, Sequences, FiniteSets, Functions

CONSTANTS
  Requests,          \* requests of peers and of the local agent
  Messages,          \* messages of the task, as the peer names them
  MaxContinuations,  \* MAX_TASK_CONTINUATIONS
  MaxTokens,         \* bound: access tokens MESH issues
  MaxFaults,         \* bound: calls that fail
  MaxChecks          \* bound: projections of one waiting request

\* What the constants are assumed to be.
GatewayAssumption ==
  {MaxContinuations, MaxTokens, MaxFaults, MaxChecks} \subseteq Nat

VARIABLES
  room,      \* the task's messages, in the order of their events (external)
  answered,  \* positions in the room that have a reply (external)
  req,       \* the requests
  cached,    \* the access token kept, 0: none
  inflight,  \* an exchange is under way
  issued, revoked,  \* tokens issued so far; the newest of them MESH refuses (external)
  faults

gatewayVars == <<room, answered, req, cached, inflight, issued, revoked, faults>>

Jobs == {[kind |-> "send", m |-> m] : m \in Messages} \cup
        {[kind |-> k, m |-> CHOOSE m \in Messages : TRUE] : k \in {"get", "list", "outbound"}}

\* op: the call being made, with token tok in attempt try; left: messages still to be
\* looked up; got: the reply to the last one; first: history, the refused token.
Request(job) == [pc |-> "new", job |-> job, op |-> "none", tok |-> 0, try |-> 0, first |-> 0,
                 left |-> <<>>, got |-> 0, checks |-> 0, res |-> "none"]

GatewayInit ==
  /\ room = <<>> /\ answered = {} /\ req \in [Requests -> {Request(j) : j \in Jobs}]
  /\ cached = 0 /\ inflight = FALSE /\ issued = 0 /\ revoked = 0 /\ faults = 0

Fault == faults < MaxFaults /\ faults' = faults + 1
Active(r) == req[r].pc \notin {"new", "done"}
Position(m) == CHOOSE k \in DOMAIN room : room[k] = m

-----------------------------------------------------------------------------
\* Authenticated calls.
Calling(r, op) == [r EXCEPT !.pc = "auth", !.op = op, !.try = 0, !.tok = 0, !.first = 0]
Ended(r, res) == [r EXCEPT !.pc = "done", !.res = res, !.op = "none", !.try = 0, !.tok = 0,
                           !.first = 0, !.left = <<>>, !.checks = 0]

\* A request arrives: a peer's ticket is introspected, an outbound call first looks its
\* recipient up.
Begin(r) ==
  /\ req[r].pc = "new"
  /\ req' = [req EXCEPT ![r] = IF @.job.kind = "outbound" THEN [@ EXCEPT !.pc = "lookup"]
                               ELSE Calling(@, "introspect")]
  /\ UNCHANGED <<room, answered, cached, inflight, issued, revoked, faults>>

\* accessToken(): the cached token, or the exchange every caller shares.
AccessToken(r) ==
  /\ req[r].pc = "auth"
  /\ IF cached # 0
     THEN /\ req' = [req EXCEPT ![r].pc = "sent", ![r].tok = cached] /\ UNCHANGED inflight
     ELSE /\ req' = [req EXCEPT ![r].pc = "join"] /\ inflight' = TRUE
  /\ UNCHANGED <<room, answered, cached, issued, revoked, faults>>

Exchange ==
  /\ inflight /\ issued < MaxTokens /\ inflight' = FALSE
  /\ issued' = issued + 1 /\ cached' = issued'
  /\ req' = [r \in Requests |-> IF req[r].pc # "join" THEN req[r]
                                ELSE [req[r] EXCEPT !.pc = "sent", !.tok = issued']]
  /\ UNCHANGED <<room, answered, revoked, faults>>

\* The exchange is refused or times out for everyone who waits for it.
ExchangeFails ==
  /\ inflight /\ inflight' = FALSE /\ (IF issued = MaxTokens THEN UNCHANGED faults ELSE Fault)
  /\ req' = [r \in Requests |-> IF req[r].pc = "join" THEN Ended(req[r], "auth") ELSE req[r]]
  /\ UNCHANGED <<room, answered, cached, issued, revoked>>

\* Mutant: the second attempt takes the token that was refused.
Refused_Keeps(r) ==
  /\ req[r].pc = "sent" /\ req[r].tok <= revoked
  /\ IF req[r].try = 0
     THEN req' = [req EXCEPT ![r].pc = "auth", ![r].try = 1, ![r].first = req[r].tok]
     ELSE req' = [req EXCEPT ![r] = Ended(@, "auth")]
  /\ UNCHANGED <<room, answered, cached, inflight, issued, revoked, faults>>

\* A 401 gets exactly one fresh exchange.
Refused(r) ==
  /\ req[r].pc = "sent" /\ req[r].tok <= revoked
  /\ IF req[r].try = 0
     THEN /\ req' = [req EXCEPT ![r].pc = "auth", ![r].try = 1, ![r].first = req[r].tok]
          /\ cached' = 0
     ELSE /\ req' = [req EXCEPT ![r] = Ended(@, "auth")] /\ UNCHANGED cached
  /\ UNCHANGED <<room, answered, inflight, issued, revoked, faults>>

\* MESH is unreachable or answers something malformed.
CallFails(r) ==
  /\ Active(r) /\ req[r].pc \notin {"auth", "join", "poll"} /\ Fault
  /\ req' = [req EXCEPT ![r] = Ended(@, "failed")]
  /\ UNCHANGED <<room, answered, cached, inflight, issued, revoked>>

Accepted(r, op) == req[r].pc = "sent" /\ req[r].tok > revoked /\ req[r].op = op

-----------------------------------------------------------------------------
\* The peer ticket is good: GetTask and ListTasks ask for the task, SendMessage posts first.
Introspected(r) ==
  /\ Accepted(r, "introspect")
  /\ req' = [req EXCEPT ![r] = IF @.job.kind = "send" THEN [@ EXCEPT !.pc = "post"]
                               ELSE Calling(@, IF @.job.kind = "list" THEN "page" ELSE "list")]
  /\ UNCHANGED <<room, answered, cached, inflight, issued, revoked, faults>>

\* POST /a2a/bridge under the peer's ticket; MESH keeps one event per message identity.
Posted(m) == IF m \in Range(room) THEN room ELSE Append(room, m)

SendMessage(r) ==
  /\ req[r].pc = "post" /\ room' = Posted(req[r].job.m)
  /\ \/ req' = [req EXCEPT ![r] = Ended(@, "submitted")]     \* returnImmediately
     \/ req' = [req EXCEPT ![r] = Calling(@, "list")]
  /\ UNCHANGED <<answered, cached, inflight, issued, revoked, faults>>

\* The message is in the room and the answer is lost: the peer may send it again.
SendLost(r) ==
  /\ req[r].pc = "post" /\ Fault /\ room' = Posted(req[r].job.m)
  /\ req' = [req EXCEPT ![r] = Ended(@, "failed")]
  /\ UNCHANGED <<answered, cached, inflight, issued, revoked>>

\* listTasks: a page of tasks, each then asked for as getTask does.
ListTasks(r) ==
  /\ Accepted(r, "page")
  /\ req' = [req EXCEPT ![r] = IF room = <<>> THEN Ended(@, "empty") ELSE Calling(@, "list")]
  /\ UNCHANGED <<room, answered, cached, inflight, issued, revoked, faults>>

Correlations == [k \in DOMAIN room |-> k]

\* getTask: the correlations of the task as they are now.
ListCorrelations(r) ==
  /\ Accepted(r, "list")
  /\ req' = [req EXCEPT ![r] =
       IF room = <<>> THEN Ended(@, "not_found")
       ELSE IF Len(room) > MaxContinuations THEN Ended(@, "failed")
       ELSE [Calling(@, "history") EXCEPT !.left = Correlations, !.got = 0]]
  /\ UNCHANGED <<room, answered, cached, inflight, issued, revoked, faults>>

\* Mutant: a message without a reply leaves the previous one's standing.
Latest_Any(k, got) == IF k \in answered THEN k ELSE got

\* projectCorrelation: the reply to message k, if the room has one by now.
Latest(k, got) == IF k \in answered THEN k ELSE 0

Projected(r, got) ==
  IF got # 0 THEN Ended([r EXCEPT !.got = got], "completed")
  ELSE IF r.job.kind = "send" THEN [r EXCEPT !.pc = "poll", !.left = <<>>, !.got = 0]
  ELSE Ended([r EXCEPT !.got = 0], "submitted")

\* projectTask: one history per message; the last one decides the state.
ProjectCorrelation(r) ==
  /\ Accepted(r, "history")
  /\ LET got == Latest(Head(req[r].left), req[r].got)
         left == Tail(req[r].left)
     IN req' = [req EXCEPT ![r] =
          IF left = <<>> THEN Projected(@, got)
          ELSE [Calling(@, "history") EXCEPT !.left = left, !.got = got]]
  /\ UNCHANGED <<room, answered, cached, inflight, issued, revoked, faults>>

\* waitForBridgeTask: the poll timer.
Poll(r) ==
  /\ req[r].pc = "poll" /\ req[r].checks < MaxChecks
  /\ req' = [req EXCEPT ![r] = [Calling(@, "list") EXCEPT !.checks = req[r].checks + 1]]
  /\ UNCHANGED <<room, answered, cached, inflight, issued, revoked, faults>>

\* Its deadline, or the peer hangs up; an exchange it waited for goes on.
GivesUp(r) ==
  /\ Active(r) /\ req[r].job.kind = "send" /\ req[r].job.m \in Range(room)
  /\ req' = [req EXCEPT ![r] = Ended(@, "timeout")]
  /\ UNCHANGED <<room, answered, cached, inflight, issued, revoked, faults>>

-----------------------------------------------------------------------------
\* Outbound: the recipient's card, a ticket for it, then the peer's JSON-RPC endpoint.
Lookup(r) ==
  /\ req[r].pc = "lookup"
  /\ \/ req' = [req EXCEPT ![r] = Calling(@, "ticket")]
     \/ req' = [req EXCEPT ![r] = Ended(@, "not_found")]
  /\ UNCHANGED <<room, answered, cached, inflight, issued, revoked, faults>>

Ticket(r) ==
  /\ Accepted(r, "ticket")
  /\ \/ req' = [req EXCEPT ![r].pc = "rpc"]
     \/ req' = [req EXCEPT ![r] = Ended(@, "denied")]
  /\ UNCHANGED <<room, answered, cached, inflight, issued, revoked, faults>>

PeerRpc(r) ==
  /\ req[r].pc = "rpc" /\ req' = [req EXCEPT ![r] = Ended(@, "sent")]
  /\ UNCHANGED <<room, answered, cached, inflight, issued, revoked, faults>>

-----------------------------------------------------------------------------
\* The peer reaches another instance of the gateway, which shares only MESH with this one.
PostedElsewhere(m) ==
  /\ m \notin Range(room) /\ room' = Posted(m)
  /\ UNCHANGED <<answered, req, cached, inflight, issued, revoked, faults>>

\* The worker replies, in any order.
Reply(k) ==
  /\ answered' = answered \cup {k}
  /\ UNCHANGED <<room, req, cached, inflight, issued, revoked, faults>>

\* Tokens issued so far expire or are revoked, and the cache may know it.
Revoke ==
  /\ issued > revoked /\ issued < MaxTokens /\ revoked' = issued /\ cached' \in {cached, 0}
  /\ UNCHANGED <<room, answered, req, inflight, issued, faults>>

RequestStep(r) ==
  \/ Begin(r) \/ AccessToken(r) \/ Refused(r) \/ CallFails(r)
  \/ Introspected(r) \/ SendMessage(r) \/ SendLost(r) \/ ListTasks(r) \/ ListCorrelations(r)
  \/ ProjectCorrelation(r) \/ Poll(r) \/ GivesUp(r)
  \/ Lookup(r) \/ Ticket(r) \/ PeerRpc(r)
GatewayNext ==
  \/ \E r \in Requests : RequestStep(r)
  \/ Exchange \/ ExchangeFails \/ Revoke
  \/ \E m \in Messages : PostedElsewhere(m)
  \/ \E k \in DOMAIN room \ answered : Reply(k)
GatewaySpec == GatewayInit /\ [][GatewayNext]_gatewayVars

-----------------------------------------------------------------------------
\* A peer that sent a message and waited is never told "completed" on the strength of a
\* reply to an earlier message of the task, whatever is sent or answered while the
\* projection reads (projectTask, waitForBridgeTask).
AnswerIsNotOlder ==
  \A r \in Requests :
    req[r].res = "completed" /\ req[r].job.kind = "send" =>
      /\ req[r].job.m \in Range(room) /\ req[r].got >= Position(req[r].job.m)
      /\ req[r].got \in answered

\* The one retry a 401 gets never carries the token that was refused, nor an older one,
\* though other requests drop and renew the same cache (accessToken).
RetryIsFresh ==
  \A r \in Requests : req[r].pc = "sent" /\ req[r].try = 1 => req[r].tok > req[r].first
=============================================================================
