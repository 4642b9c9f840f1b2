------------------------- MODULE MailboxTransaction -------------------------
(***************************************************************************)
(* The trusted mailbox helper: every command is a short-lived process that *)
(* reads the one durable open.json of its instance, talks to the hosted    *)
(* mailbox and writes the file again.  File accesses are atomic (flock);   *)
(* nothing holds across two of them, so commands of a live coordinator,    *)
(* of an orphan it left behind and of an MCP session interleave freely and *)
(* any of them may be killed, its request still on the way.                *)
(***************************************************************************)
EXTENDS Integers, FiniteSets, FiniteSetsExt

CONSTANTS
  Deliveries,     \* delivery ids, positive integers
  ReplyRequired,  \* the deliveries whose sender asked for an answer
  Texts,          \* reply texts a model may produce
  Callers,        \* helper processes that may be alive at once
  Coordinators,   \* those of a drain service; the others are an operator's or a session's
  Owner,          \* the transaction protocol each caller claims under
  Scopes,         \* the sets of deliveries a room restriction leaves
  MaxFailures,    \* recorded failures that make a transaction stuck
  MaxKills        \* bound: helper processes killed or timed out

Absent == "none"

\* What the constants are assumed to be.
MailboxAssumption ==
  /\ \A c \in Callers : Owner[c] # Absent
  /\ Deliveries \subseteq Nat \ {0} /\ IsFiniteSet(Deliveries)
  /\ ReplyRequired \subseteq Deliveries /\ Coordinators \subseteq Callers
  /\ MaxFailures \in Nat \ {0} /\ MaxKills \in Nat

VARIABLES
  open,     \* open.json, NoTxn when there is none
  quar,     \* quarantine directory: the owner an abandoned delivery had
  call,     \* what each helper process is doing, with the record it read
  late,     \* requests of dead helpers that the server has yet to see
  claim,    \* server: who claimed a delivery (external)
  acked,    \* server: acknowledged deliveries (external)
  replies,  \* server: reply texts in the room per delivery (external)
  settled,  \* deliveries acknowledged by the transaction service
  kills

vars == <<open, quar, call, late, claim, acked, replies, settled, kills>>

server == <<claim, acked, replies, settled>>

NoTxn == [d |-> 0, own |-> Absent, need |-> FALSE, st |-> Absent, fails |-> 0]

Txn(d, own, need) ==
  [d |-> d, own |-> own, need |-> need, st |-> "prepared", fails |-> 0]

\* A snapshot is "fresh" while open.json still has the createdAt it was read with.
Idle == [pc |-> "idle", txn |-> NoTxn, fresh |-> FALSE, settle |-> FALSE, text |-> Absent]

Init ==
  /\ open = NoTxn /\ quar = [d \in Deliveries |-> Absent]
  /\ call = [c \in Callers |-> Idle] /\ late = {}
  /\ claim = [d \in Deliveries |-> Absent] /\ acked = {} /\ settled = {}
  /\ replies = [d \in Deliveries |-> {}] /\ kills = 0

At(c, p) == call[c].pc = p

Stuck(t) == t.fails >= MaxFailures

Readable(c) == open.d # 0 /\ open.own = Owner[c]

\* A claimed delivery leaves the pending list.
Pending == {d \in Deliveries \ acked : claim[d] = Absent}

Returns(c) == call' = [call EXCEPT ![c] = Idle]

Goes(c, p) == IF p = "idle" THEN Returns(c) ELSE call' = [call EXCEPT ![c].pc = p]

\* The command reads the record and keeps it for its next step.
Reads(c, p, text) ==
  call' = [call EXCEPT ![c] = [pc |-> p, txn |-> open, fresh |-> TRUE,
                               settle |-> FALSE, text |-> text]]

Wants(c, d, need, settle) ==
  call' = [call EXCEPT ![c] = [Idle EXCEPT !.pc = "claim", !.settle = settle,
                                           !.txn = Txn(d, Owner[c], need)]]

-----------------------------------------------------------------------------
(* claim-next and drain-receipts: settle an open receipt, or list and pick. *)

ResumeReceipt(c, scope) ==
  /\ At(c, "idle") /\ Readable(c) /\ ~Stuck(open) /\ open.d \in scope
  /\ ~open.need /\ open.st = "claimed"
  /\ Reads(c, "ack", Absent)
  /\ UNCHANGED <<open, quar, late, server, kills>>

Quarantined(c) == {d \in Deliveries : quar[d] = Owner[c]}

Actionable(c, scope) == (Pending \cap scope) \ Quarantined(c)

ClaimNext(c, scope, receiptsOnly) ==
  /\ At(c, "idle") /\ open.d = 0 /\ Actionable(c, scope) # {}
  /\ LET d == Min(Actionable(c, scope)) IN
       /\ receiptsOnly => d \notin ReplyRequired
       /\ Wants(c, d, d \in ReplyRequired, d \notin ReplyRequired)
  /\ UNCHANGED <<open, quar, late, server, kills>>

\* An explicit claim names its delivery; only the MCP path looks its kind up.
ExplicitClaim(c, d, listed) ==
  /\ At(c, "idle")
  /\ listed => open.d = 0 /\ d \in Pending
  /\ Wants(c, d, listed => d \in ReplyRequired, FALSE)
  /\ UNCHANGED <<open, quar, late, server, kills>>

\* The store refuses to prepare over an open record.
Prepare(c, t) ==
  /\ open.d = 0 /\ open' = t
  /\ call' = [call EXCEPT ![c].pc = "post", ![c].fresh = TRUE]

Claim(c) ==
  LET t == call[c].txn IN
  /\ At(c, "claim")
  /\ \/ /\ open.d = 0
        /\ open' = t
        /\ call' = [call EXCEPT ![c].pc = "post", ![c].fresh = TRUE]
     \/ /\ Readable(c) /\ open.d = t.d /\ ~Stuck(open)
        /\ LET p == IF open.st = "prepared" THEN "post"
                    ELSE IF call[c].settle /\ ~open.need /\ open.st = "claimed" THEN "ack"
                    ELSE "idle"
           IN call' = [call EXCEPT ![c] = IF p = "idle" THEN Idle
                         ELSE [@ EXCEPT !.pc = p, !.txn = open, !.fresh = TRUE]]
        /\ UNCHANGED open
     \/ /\ open.d # 0 /\ (~Readable(c) \/ open.d # t.d \/ Stuck(open))
        /\ Returns(c) /\ UNCHANGED open
  /\ UNCHANGED <<quar, late, server, kills>>

-----------------------------------------------------------------------------
(* The server's answer to a claim, a reply or an acknowledgement.           *)

Serve(kind, d, text) ==
  /\ claim' = IF kind = "post" /\ d \in Pending THEN [claim EXCEPT ![d] = "ours"] ELSE claim
  /\ replies' = IF kind = "reply" /\ replies[d] = {}
                THEN [replies EXCEPT ![d] = {text}] ELSE replies
  /\ acked' = IF kind = "ack" THEN acked \cup {d} ELSE acked
  /\ settled' = IF kind = "ack" THEN settled \cup {d} ELSE settled

\* A reply the key already has is looked up and counts as sent.
Answered(c) ==
  LET d == call[c].txn.d IN
  CASE At(c, "post")  -> IF claim'[d] = "ours" /\ d \notin acked THEN "claimed" ELSE "idle"
    [] At(c, "reply") -> "replied"
    [] At(c, "ack")   -> "clear"

Post(c) ==
  /\ call[c].pc \in {"post", "reply", "ack"}
  /\ Serve(call[c].pc, call[c].txn.d, call[c].text)
  /\ Goes(c, Answered(c))
  /\ UNCHANGED <<open, quar, late, kills>>

ServeLate(r) ==
  /\ r \in late /\ late' = late \ {r}
  /\ Serve(r.kind, r.d, r.text)
  /\ UNCHANGED <<open, quar, call, kills>>

\* The store replaces the record if open.json is still the one that was read.
Replace(c, t) == open' = IF call[c].fresh THEN t ELSE open

RecordClaimed(c) ==
  LET t == call[c].txn IN
  /\ At(c, "claimed")
  /\ Replace(c, [t EXCEPT !.st = "claimed"])
  /\ IF call[c].fresh /\ call[c].settle /\ ~t.need THEN Goes(c, "ack") ELSE Returns(c)
  /\ UNCHANGED <<quar, late, server, kills>>

\* Mutant: the reply is recorded before the server has it.
Reply_Early(c, text) ==
  /\ At(c, "idle") /\ Readable(c) /\ ~Stuck(open) /\ open.st = "claimed"
  /\ Reads(c, "reply", text)
  /\ open' = [open EXCEPT !.st = "replied"]
  /\ UNCHANGED <<quar, late, server, kills>>

Reply(c, text) ==
  /\ At(c, "idle") /\ Readable(c) /\ ~Stuck(open) /\ open.st = "claimed"
  /\ Reads(c, "reply", text)
  /\ UNCHANGED <<open, quar, late, server, kills>>

RecordReplied(c) ==
  /\ At(c, "replied")
  /\ Replace(c, [call[c].txn EXCEPT !.st = "replied"])
  /\ Returns(c)
  /\ UNCHANGED <<quar, late, server, kills>>

Ack(c) ==
  /\ At(c, "idle") /\ Readable(c) /\ open.st = "replied"
  /\ Reads(c, "ack", Absent)
  /\ UNCHANGED <<open, quar, late, server, kills>>

\* open.json goes: every snapshot of it is stale.
Removes(c) ==
  /\ open' = NoTxn
  /\ call' = [x \in Callers |-> IF x = c THEN Idle ELSE [call[x] EXCEPT !.fresh = FALSE]]

\* Mutant: the record is removed whatever delivery it holds.
Clear_Any(c) ==
  /\ At(c, "clear") /\ Removes(c)
  /\ UNCHANGED <<quar, late, server, kills>>

Clear(c) ==
  /\ At(c, "clear")
  /\ IF open.d = call[c].txn.d THEN Removes(c) ELSE Returns(c) /\ UNCHANGED open
  /\ UNCHANGED <<quar, late, server, kills>>

BeginFailure(c) ==
  /\ At(c, "idle") /\ Readable(c)
  /\ Reads(c, "fail", Absent)
  /\ UNCHANGED <<open, quar, late, server, kills>>

RecordFailure(c) ==
  LET t == call[c].txn IN
  /\ At(c, "fail")
  /\ Replace(c, [t EXCEPT !.fails = Min({@ + 1, MaxFailures})])
  /\ Returns(c)
  /\ UNCHANGED <<quar, late, server, kills>>

BeginAbandon(c) ==
  /\ At(c, "idle") /\ Readable(c)
  /\ Reads(c, "abandon", Absent)
  /\ UNCHANGED <<open, quar, late, server, kills>>

\* The store abandons whatever is open by now; a second file is refused.
Abandon(c) ==
  /\ At(c, "abandon")
  /\ IF open.d # 0 /\ quar[open.d] = Absent
     THEN quar' = [quar EXCEPT ![open.d] = open.own] /\ Removes(c)
     ELSE Returns(c) /\ UNCHANGED <<open, quar>>
  /\ UNCHANGED <<late, server, kills>>

\* Killed after the quarantine file was written and before open.json went.
AbandonTorn(c) ==
  /\ At(c, "abandon") /\ open.d # 0 /\ quar[open.d] = Absent /\ kills < MaxKills
  /\ quar' = [quar EXCEPT ![open.d] = open.own] /\ Returns(c) /\ kills' = kills + 1
  /\ UNCHANGED <<open, late, server>>

\* The worker kills a helper that overruns its time; its request may still land.
Kill(c) ==
  /\ ~At(c, "idle") /\ kills < MaxKills /\ kills' = kills + 1
  /\ Returns(c)
  /\ \/ UNCHANGED late
     \/ /\ call[c].pc \in {"post", "reply", "ack"}
        /\ late' = late \cup {[kind |-> call[c].pc, d |-> call[c].txn.d, text |-> call[c].text]}
  /\ UNCHANGED <<open, quar, server>>

\* With nothing open an MCP session's acknowledgement is forwarded as it is.
Dismiss(c, d) ==
  /\ At(c, "idle") /\ open.d = 0 /\ claim[d] # "other" /\ acked' = acked \cup {d}
  /\ UNCHANGED <<open, quar, call, late, claim, replies, settled, kills>>

OtherInstance(d) ==
  /\ d \in Pending /\ claim' = [claim EXCEPT ![d] = "other"]
  /\ UNCHANGED <<open, quar, call, late, acked, replies, settled, kills>>

\* Start-up recovery acknowledges a recorded reply, once; the rest it leaves alone.
Recovery(t) ==
  CASE t.d = 0 -> "none"
    [] t.d # 0 /\ Stuck(t) -> "quarantine"
    [] t.d # 0 /\ ~Stuck(t) /\ t.st = "replied" -> "ack_replied"
    [] t.d # 0 /\ ~Stuck(t) /\ t.st = "claimed" -> "resume_claimed"
    [] t.d # 0 /\ ~Stuck(t) /\ t.st = "prepared" -> "quarantine"

Recover(c) == Recovery(open) = "ack_replied" /\ Ack(c)

\* claim-next reports the replied record, unless it is stuck; then it is acknowledged.
Resolve(c) == ~Stuck(open) /\ Ack(c)

\* A claimed delivery that asks for an answer becomes a turn; its text is the reply.
TakeTurn(c) == open.need /\ \E t \in Texts : Reply(c, t)

Steps(c) == Claim(c) \/ Post(c) \/ RecordClaimed(c) \/ RecordReplied(c) \/ Clear(c)
              \/ RecordFailure(c) \/ Abandon(c)

\* The commands a drain service issues, and those of an operator or a session.
Drains(c) ==
  \/ \E scope \in Scopes : ResumeReceipt(c, scope) \/ ClaimNext(c, scope, TRUE)
                             \/ ClaimNext(c, scope, FALSE)
  \/ Resolve(c) \/ TakeTurn(c) \/ BeginFailure(c)

Operates(c) ==
  \/ \E d \in Deliveries : ExplicitClaim(c, d, TRUE) \/ ExplicitClaim(c, d, FALSE)
                             \/ Dismiss(c, d)
  \/ BeginAbandon(c)

Next ==
  \/ \E c \in Coordinators : Drains(c) \/ Recover(c)
  \/ \E c \in Callers \ Coordinators : Operates(c)
  \/ \E c \in Callers : Ack(c) \/ \E t \in Texts : Reply(c, t)
  \/ \E c \in Callers : Steps(c) \/ AbandonTorn(c) \/ Kill(c)
  \/ \E r \in late : ServeLate(r)
  \/ \E d \in Deliveries : OtherInstance(d)

Spec == Init /\ [][Next]_vars

-----------------------------------------------------------------------------
(* Whatever interleaves and dies, the helper keeps the mailbox promise: one *)
(* reply per delivery, acknowledged only with the reply it asked for.       *)
Promise == INSTANCE MailboxDelivery
KeepsMailbox == Promise!DeliverySpec

(* A delivery this instance holds at the server is never forgotten: it is   *)
(* acknowledged, open in open.json or quarantined (prepare comes before the *)
(* claim, clear checks its delivery).  So at most one is in progress.       *)
NoOrphanClaim ==
  \A d \in Deliveries : claim[d] = "ours" =>
    d \in acked \/ open.d = d \/ quar[d] # Absent

=============================================================================
