---------------------------- MODULE MailboxClient ----------------------------
(***************************************************************************)
(* Workers of one agent that poll its mailbox at the MESH server: each     *)
(* lists the oldest delivery past its cursor, claims it under an id of its *)
(* own, looks for a reply an earlier attempt left, generates and appends   *)
(* one, and acknowledges.  Claims are leases, kept by renewals that run    *)
(* beside the work.  All bookkeeping is in memory; a request that failed   *)
(* may still take effect, at once, later or never.                         *)
(***************************************************************************)
EXTENDS Naturals, FiniteSets, FiniteSetsExt, Functions

CONSTANTS
  Workers, Deliveries,   \* Deliveries is a set of numbers, older first
  Kind,          \* [Deliveries -> {"ask", "note", "skip"}]
  MaxAttempts,   \* maxDeliveryAttempts
  MaxAcks,       \* maxAckAttempts
  MaxLists,      \* maxListAttempts
  MaxFaults      \* bound: failed requests and runs, refusals, lapsed leases, crashes

MailboxClientAssumption == Deliveries \subseteq Nat \ {0}

\* Claim ids are a worker and a number; one nobody refers to is taken again.
NoClaim == <<>>

VARIABLES
  mail,     \* the server: state, claim, whether its lease lives, reply
  net,      \* requests on their way that no worker waits for, and renewals
  wk,       \* the memory of each worker
  faults

mailboxVars == <<mail, net, wk, faults>>

NoMeta == [id |-> 0, claim |-> NoClaim, lost |-> FALSE, persisted |-> FALSE, tries |-> 0, acks |-> 0]

NewWorker == [pc |-> "idle", id |-> 0, meta |-> NoMeta, kept |-> FALSE, quarantined |-> {},
              cursor |-> 0, failures |-> [d \in Deliveries |-> 0],
              discard |-> [d \in Deliveries |-> NoClaim]]

MailboxInit ==
  /\ mail = [d \in Deliveries |-> [state |-> "pending", claim |-> NoClaim, live |-> FALSE, reply |-> FALSE]]
  /\ net = {} /\ wk = [w \in Workers |-> NewWorker] /\ faults = 0

Fault == faults < MaxFaults /\ faults' = faults + 1

Req(op, w, d, c) == [op |-> op, by |-> w, id |-> d, claim |-> c]

InUse == {mail[d].claim : d \in Deliveries} \cup {m.claim : m \in net}
           \cup UNION {{wk[w].meta.claim} \cup Range(wk[w].discard) : w \in Workers}

FreshClaim(w) == CHOOSE c \in {w} \X (1 .. 7) : c \notin InUse

\* What the server does with a claim, a reply and an acknowledgement.
Grants(d, c) == mail[d].state = "pending" /\ (mail[d].claim \in {NoClaim, c} \/ ~mail[d].live)

Served(m) ==
  CASE m.op \in {"claim", "renew"} /\ Grants(m.id, m.claim) ->
         [mail EXCEPT ![m.id].claim = m.claim, ![m.id].live = TRUE]
    [] m.op = "reply" -> [mail EXCEPT ![m.id].reply = TRUE]
    [] m.op = "ack" /\ mail[m.id].claim = m.claim -> [mail EXCEPT ![m.id].state = "processed"]
    [] OTHER -> mail

-----------------------------------------------------------------------------
(* The ends of a cycle.                                                    *)
Advance(r, d) == [r EXCEPT !.cursor = IF d > @ THEN d ELSE @]

Idle(r) == [r EXCEPT !.pc = "idle", !.id = 0]

\* Mutant: a message whose claim is gone stays in retryDeliveries.
Dropped_Keeps(r) == [Idle(r) EXCEPT !.kept = r.meta.id # 0]

\* The message leaves retryDeliveries: it is listed again, with a new claim id.
Dropped(r) == [Idle(r) EXCEPT !.kept = FALSE, !.meta = NoMeta]

Quarantined(r, d) ==
  Advance([Dropped(r) EXCEPT !.quarantined = @ \cup {d}, !.failures[d] = 0], d)

Kept(r) == [Idle(r) EXCEPT !.kept = TRUE]

RecordProcessingFailure(r) ==
  CASE r.meta.lost -> Dropped(r)
    [] r.meta.persisted -> Kept(r)
    [] r.meta.tries + 1 >= MaxAttempts -> Quarantined(r, r.meta.id)
    [] OTHER -> [Kept(r) EXCEPT !.meta.tries = @ + 1]

\* An acknowledgement that failed has a budget of its own.
AckFailed(r) ==
  IF r.meta.acks + 1 >= MaxAcks THEN Quarantined(r, r.meta.id)
  ELSE RecordProcessingFailure([r EXCEPT !.meta.acks = @ + 1])

Acknowledged(r) == Advance(Dropped(r), r.meta.id)

Does(w, r) == wk' = [wk EXCEPT ![w] = r]

-----------------------------------------------------------------------------
Listed(w) == {d \in Deliveries : mail[d].state = "pending" /\ d > wk[w].cursor}

\* An event that is no message, or has no text to answer.
IsSkipEvent(d) == Kind[d] = "skip"

(* listUnread: what is kept first, else the oldest delivery past the cursor. *)
ListUnread(w) ==
  LET r == wk[w]
  IN /\ r.pc = "idle" /\ UNCHANGED <<mail, net, faults>>
     /\ IF r.kept THEN Does(w, [r EXCEPT !.pc = "claim", !.id = r.meta.id])
        ELSE Listed(w) # {} /\ Does(w, [r EXCEPT !.pc = "event", !.id = Min(Listed(w))])

ListRoomEvent(w) ==
  LET r == wk[w]
      d == r.id
  IN /\ r.pc = "event" /\ UNCHANGED <<mail, net, faults>>
     /\ IF IsSkipEvent(d)
        THEN Does(w, [r EXCEPT !.pc = "dclaim", !.failures[d] = 0,
                               !.discard[d] = IF @ = NoClaim THEN FreshClaim(w) ELSE @])
        ELSE Does(w, [r EXCEPT !.pc = "claim", !.failures[d] = 0, !.kept = TRUE,
                               !.meta = [NoMeta EXCEPT !.id = d, !.claim = FreshClaim(w)]])

ListFails(w) ==
  LET r == wk[w]
      d == r.id
  IN /\ r.pc = "event" /\ Fault /\ UNCHANGED <<mail, net>>
     /\ Does(w, IF r.failures[d] + 1 >= MaxLists THEN Quarantined(r, d)
                ELSE [Idle(r) EXCEPT !.failures[d] = @ + 1])

\* An event that needs no turn is claimed and acknowledged all the same.
DiscardClaim(w) ==
  LET r == wk[w]
      m == Req("claim", w, r.id, r.discard[r.id])
  IN /\ r.pc = "dclaim" /\ mail' = Served(m) /\ UNCHANGED <<net, faults>>
     /\ Does(w, CASE Grants(r.id, m.claim) -> [r EXCEPT !.pc = "dack"]
                  [] mail[r.id].state # "pending" -> Idle(r)
                  [] OTHER -> Advance([Idle(r) EXCEPT !.discard[r.id] = NoClaim], r.id))

DiscardAck(w) ==
  LET r == wk[w]
      m == Req("ack", w, r.id, r.discard[r.id])
  IN /\ r.pc = "dack" /\ mail' = Served(m) /\ UNCHANGED <<net, faults>>
     /\ Does(w, IF mail'[r.id].state = "processed"
                THEN Advance([Idle(r) EXCEPT !.discard[r.id] = NoClaim], r.id) ELSE Idle(r))

-----------------------------------------------------------------------------
(* executeDelivery.                                                        *)

\* Mutant: the cursor passes what another worker has claimed.
Conflicts_Advances(r) == Advance(Dropped(r), r.id)

\* Claimed by another, or no longer pending.
Conflicts(r) == Dropped(r)

\* A second claim under the id the message keeps is the first one again.
EstablishClaim(w) ==
  LET r == wk[w]
      m == Req("claim", w, r.id, r.meta.claim)
  IN /\ r.pc = "claim" /\ mail' = Served(m) /\ UNCHANGED <<net, faults>>
     /\ Does(w, CASE ~Grants(r.id, m.claim) -> Conflicts(r)
                  [] Kind[r.id] = "note" \/ r.meta.persisted ->
                       IF r.meta.lost THEN Dropped(r) ELSE [r EXCEPT !.pc = "ack"]
                  [] OTHER -> [r EXCEPT !.pc = "scan"])

FindExistingReply(w) ==
  LET r == wk[w]
  IN /\ r.pc = "scan" /\ UNCHANGED <<mail, net, faults>>
     /\ Does(w, CASE r.meta.lost -> Dropped(r)
                  [] mail[r.id].reply -> [r EXCEPT !.pc = "ack", !.meta.persisted = TRUE]
                  [] OTHER -> [r EXCEPT !.pc = "run"])

\* Mutant: the reply is marked persisted before it is appended.
Generate_Early(w) ==
  LET r == wk[w]
  IN /\ r.pc = "run" /\ UNCHANGED <<mail, net, faults>>
     /\ Does(w, IF r.meta.lost THEN Dropped(r) ELSE [r EXCEPT !.pc = "append", !.meta.persisted = TRUE])

Generate(w) ==
  LET r == wk[w]
  IN /\ r.pc = "run" /\ UNCHANGED <<mail, net, faults>>
     /\ Does(w, IF r.meta.lost THEN Dropped(r) ELSE [r EXCEPT !.pc = "append"])

(* The server keeps the first reply under the delivery's key: a later one  *)
(* with another text is refused by the check of what came back.            *)
Appended(r) ==
  {IF r.meta.lost THEN Dropped(r) ELSE [r EXCEPT !.pc = "ack", !.meta.persisted = TRUE]}
    \cup IF mail[r.id].reply THEN {RecordProcessingFailure(r)} ELSE {}

AppendReply(w) ==
  LET r == wk[w]
  IN /\ r.pc = "append" /\ UNCHANGED <<net, faults>>
     /\ mail' = Served(Req("reply", w, r.id, NoClaim))
     /\ \E s \in Appended(r) : Does(w, s)

AcknowledgeOwned(w) ==
  LET r == wk[w]
      m == Req("ack", w, r.id, r.meta.claim)
  IN /\ r.pc = "ack" /\ mail' = Served(m) /\ UNCHANGED <<net, faults>>
     /\ Does(w, IF mail'[r.id].state = "processed" THEN Acknowledged(r) ELSE AckFailed(r))

-----------------------------------------------------------------------------
(* A request fails, or is refused for good; what was sent may arrive yet.  *)
Sent(w) ==
  LET r == wk[w]
  IN CASE r.pc = "claim" -> {Req("claim", w, r.id, r.meta.claim)}
       [] r.pc = "append" -> {Req("reply", w, r.id, NoClaim)}
       [] r.pc = "ack" -> {Req("ack", w, r.id, r.meta.claim)}
       [] r.pc = "dclaim" -> {Req("claim", w, r.id, r.discard[r.id])}
       [] r.pc = "dack" -> {Req("ack", w, r.id, r.discard[r.id])}
       [] OTHER -> {}

RequestFails(w) ==
  LET r == wk[w]
  IN /\ r.pc \in {"claim", "scan", "run", "append", "ack", "dclaim", "dack"} /\ Fault
     /\ net' = net \cup Sent(w) /\ UNCHANGED mail
     /\ Does(w, CASE r.pc \in {"dclaim", "dack"} -> Idle(r)
                  [] r.pc = "ack" -> AckFailed(r)
                  [] OTHER -> RecordProcessingFailure(r))

Refused(w) ==
  /\ wk[w].pc \in {"claim", "scan", "append", "ack"} /\ Fault
  /\ Does(w, Dropped(wk[w])) /\ UNCHANGED <<mail, net>>

-----------------------------------------------------------------------------
(* withClaimCustody: renewals beside the work.  The answer to one may come *)
(* after the work ended, and marks the message all the same.               *)
Custody(w) == wk[w].pc \in {"scan", "run", "append", "ack"}

SendRenewal(w) ==
  LET m == Req("renew", w, wk[w].id, wk[w].meta.claim)
  IN /\ Custody(w) /\ ~wk[w].meta.lost /\ m \notin net /\ Fault
     /\ net' = net \cup {m} /\ UNCHANGED <<mail, wk>>

OwnershipLost(m) ==
  IF wk[m.by].meta.claim = m.claim THEN Does(m.by, [wk[m.by] EXCEPT !.meta.lost = TRUE])
  ELSE UNCHANGED wk

RenewalAnswered(m) ==
  /\ m \in net /\ m.op = "renew" /\ net' = net \ {m} /\ mail' = Served(m)
  /\ IF Grants(m.id, m.claim) THEN UNCHANGED wk ELSE OwnershipLost(m)
  /\ UNCHANGED faults

\* Any failure of a renewal gives the claim up.
RenewalFails(m) ==
  /\ m \in net /\ m.op = "renew" /\ net' = (net \ {m}) \cup {[m EXCEPT !.op = "claim"]}
  /\ OwnershipLost(m) /\ UNCHANGED <<mail, faults>>

Arrives(m) ==
  /\ m \in net /\ m.op # "renew" /\ net' = net \ {m} /\ mail' = Served(m) /\ UNCHANGED <<wk, faults>>

Vanishes(m) == m \in net /\ m.op # "renew" /\ net' = net \ {m} /\ UNCHANGED <<mail, wk, faults>>

\* At work under its claim: a lease is longer than two requests in a row.
Renewed(d) ==
  \E w \in Workers : \/ Custody(w) /\ wk[w].meta.claim = mail[d].claim
                     \/ wk[w].pc = "dack" /\ wk[w].discard[d] = mail[d].claim

Expires(d) ==
  /\ mail[d].live /\ mail[d].state = "pending" /\ mail' = [mail EXCEPT ![d].live = FALSE]
  /\ UNCHANGED <<net, wk>>

\* A lease nobody renews lapses; one that is renewed lapses by a fault.
Lapses(d) == ~Renewed(d) /\ Expires(d) /\ UNCHANGED faults

LapsesEarly(d) == Renewed(d) /\ Expires(d) /\ Fault

Restarts(w) ==
  /\ Fault /\ net' = net \cup Sent(w) /\ Does(w, NewWorker) /\ UNCHANGED mail

Works(w) ==
  \/ ListUnread(w) \/ ListRoomEvent(w) \/ DiscardClaim(w) \/ DiscardAck(w) \/ EstablishClaim(w)
  \/ FindExistingReply(w) \/ Generate(w) \/ AppendReply(w) \/ AcknowledgeOwned(w)

MailboxNext ==
  \/ \E w \in Workers : \/ Works(w) \/ ListFails(w) \/ RequestFails(w) \/ Refused(w)
                        \/ SendRenewal(w) \/ Restarts(w)
  \/ \E m \in net : RenewalAnswered(m) \/ RenewalFails(m) \/ Arrives(m) \/ Vanishes(m)
  \/ \E d \in Deliveries : Lapses(d) \/ LapsesEarly(d)

(* The workers poll, and the server ends a lease that is not renewed.      *)
MailboxFairness ==
  /\ \A w \in Workers : WF_mailboxVars(Works(w))
  /\ \A d \in Deliveries : WF_mailboxVars(Lapses(d))

MailboxSpec == MailboxInit /\ [][MailboxNext]_mailboxVars /\ MailboxFairness

-----------------------------------------------------------------------------
(* A delivery that wants a reply leaves the mailbox only with one, however *)
(* claims, renewals, late requests and restarts of the workers interleave. *)
RepliedBeforeAcked ==
  \A d \in Deliveries : Kind[d] = "ask" /\ mail[d].state = "processed" => mail[d].reply

(* A worker's cursor passes no delivery that is still open, except one it  *)
(* has set aside for the operator (or an event without a turn, claimed by  *)
(* another worker).                                                        *)
SkipsNothing ==
  \A w \in Workers, d \in Deliveries :
    d <= wk[w].cursor => \/ mail[d].state = "processed" \/ d \in wk[w].quarantined
                         \/ Kind[d] = "skip"

(* Every delivery that needs a turn is settled or set aside in the end.    *)
MailEnds ==
  \A d \in Deliveries : Kind[d] # "skip" =>
    <>[](mail[d].state = "processed" \/ \E w \in Workers : d \in wk[w].quarantined)
=============================================================================
