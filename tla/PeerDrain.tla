------------------------------ MODULE PeerDrain ------------------------------
(***************************************************************************)
(* The durable drain between a peer engine and a local runner.  One step   *)
(* at a time it finishes what its journal owes, or takes the oldest item   *)
(* of the engine's inbox: a request is run and answered, a reply closes    *)
(* the correlation of the request it answers.  The journal decides what a  *)
(* restart may do again: a run is never repeated unless the operator asks. *)
(***************************************************************************)
EXTENDS Naturals, Sequences, FiniteSets, SequencesExt, TLC

CONSTANTS
  Items,        \* messages peers may send here
  Asks,         \* requests this side sends
  Kind,         \* [Items -> {"request", "reply", "outcome", "junk"}]
  InReplyTo,    \* [Items -> Asks]
  MaxRecords,   \* MAX_RECORDS_CAP
  MaxRetries,   \* bound: operator retries and resends of one record
  MaxForget     \* bound: records removed by retention

\* What the constants are assumed to be.
PeerDrainAssumption ==
  /\ Kind \in [Items -> {"request", "reply", "outcome", "junk"}]
  /\ InReplyTo \in [Items -> Asks] /\ {MaxRecords, MaxRetries, MaxForget} \subseteq Nat

VARIABLES
  rec,        \* table records
  corr,       \* table outbound: none, open, replied, closed
  open,       \* the process owns the journal
  routed,     \* the configuration has a route to the peer
  turn,       \* the step in flight
  runner,     \* activeExecutions: none, queued behind the gate, running
  inbox,      \* the engine's unacknowledged items, oldest first
  arrived,    \* items the engine ever took
  out,        \* replies the engine admitted, by message and resend number
  hist        \* what was run, licensed, removed and torn, for the properties

drainVars == <<rec, corr, open, routed, turn, runner, inbox, arrived, out, hist>>

Terminal == {"acked", "held", "rejected", "reply_failed", "reply_received", "discarded"}

NoRow == [phase |-> "none", attempt |-> 0, resend |-> 0, acked |-> FALSE, told |-> FALSE,
          large |-> FALSE, text |-> 0, consumed |-> FALSE]

NoTurn == [pc |-> "idle", item |-> "none", fresh |-> FALSE, then |-> "end"]

Turn(pc, i, then) == [pc |-> pc, item |-> i, fresh |-> FALSE, then |-> then]

NotSent == [text |-> 0, dead |-> FALSE]

DrainInit ==
  /\ rec = [i \in Items |-> NoRow] /\ corr = [x \in Asks |-> "none"]
  /\ open = TRUE /\ routed = TRUE /\ turn = NoTurn /\ runner = [i \in Items |-> "none"]
  /\ inbox = <<>> /\ arrived = {} /\ out = [i \in Items |-> [n \in 0 .. MaxRetries |-> NotSent]]
  /\ hist = [runs |-> [i \in Items |-> 0], licence |-> [i \in Items |-> 1], gone |-> {}, torn |-> {}]

Rows == {i \in Items : rec[i].phase # "none"}

EngineFrame == UNCHANGED <<inbox, arrived, out>>

OpenFrame == UNCHANGED <<open, routed>>

Set(i, row) == rec' = [rec EXCEPT ![i] = row]

-----------------------------------------------------------------------------
(* step: retention first, then the first kind of work there is.            *)

Expirable ==
  {i \in Items : \/ rec[i].phase \in {"acked", "rejected", "discarded"}
                 \/ rec[i].phase = "reply_received" /\ rec[i].consumed}

Ended == {x \in Asks : corr[x] \in {"replied", "closed"}}

In(rs, phases) == {i \in Items : rs[i].phase \in phases}

Owed(rs) ==
  {i \in Items : /\ ~rs[i].told
                 /\ rs[i].phase = "held" \/ (rs[i].phase = "reply_failed" /\ rs[i].large)}

Begins(rs, then) == rec' = rs /\ turn' = then

\* What one step does with the rows rs that retention left.
Chooses(rs) ==
  \/ \E i \in In(rs, {"resend_pending"}) :
       Begins([rs EXCEPT ![i].phase = "result"], Turn("send", i, "end")) /\ UNCHANGED runner
  \/ /\ In(rs, {"resend_pending"}) = {}
     /\ \E i \in In(rs, {"retry_pending"}) :
          /\ Begins([rs EXCEPT ![i].phase = "executing", ![i].told = FALSE], Turn("run", i, "end"))
          /\ runner' = [runner EXCEPT ![i] = "queued"]
  \/ /\ In(rs, {"resend_pending", "retry_pending"}) = {}
     /\ \E i \in In(rs, {"result", "admitted"}) : Begins(rs, Turn("send", i, "end"))
     /\ UNCHANGED runner
  \/ /\ In(rs, {"resend_pending", "retry_pending", "result", "admitted"}) = {}
     /\ \E i \in Owed(rs) : Begins(rs, Turn("tell", i, "end"))
     /\ UNCHANGED runner
  \/ /\ In(rs, {"resend_pending", "retry_pending", "result", "admitted"}) = {} /\ Owed(rs) = {}
     /\ Cardinality(In(rs, Terminal)) < MaxRecords
     /\ Begins(rs, Turn("poll", "none", "end")) /\ UNCHANGED runner

(* A row retention removes while its item is unacknowledged is forgotten:  *)
(* the item will be taken as new.                                          *)
Step ==
  /\ open /\ turn = NoTurn
  /\ \E S \in SUBSET Expirable, T \in SUBSET Ended :
       /\ S \cap hist.gone = {} /\ Cardinality(hist.gone \cup S) <= MaxForget
       /\ Chooses([i \in Items |-> IF i \in S THEN NoRow ELSE rec[i]])
       /\ hist' = [hist EXCEPT !.gone = @ \cup S,
                               !.runs = [i \in Items |-> IF i \in S THEN 0 ELSE @[i]],
                               !.licence = [i \in Items |-> IF i \in S THEN 1 ELSE @[i]]]
       /\ corr' = [x \in Asks |-> IF x \in T THEN "none" ELSE corr[x]]
  /\ EngineFrame /\ OpenFrame

-----------------------------------------------------------------------------
(* The inbox answers with its oldest item, or with nothing.                *)

NewRow(phase) == [NoRow EXCEPT !.phase = phase, !.attempt = 1]

\* Not an envelope this drain accepts, or from a peer it has no route to.
Junk(i) == Kind[i] = "junk" \/ ~routed

Rejects(i) == Set(i, NewRow("rejected")) /\ turn' = Turn("ack", i, "end")

\* Nor a reply to what was never asked, or is settled.
Refused(i) == Junk(i) \/ (Kind[i] # "request" /\ corr[InReplyTo[i]] # "open")

\* The oldest item i is on record, or is put there.
Takes(i) ==
  \/ /\ rec[i].phase \in Terminal
     /\ turn' = Turn("ack", i, "end") /\ UNCHANGED <<rec, corr, runner>>
  \/ /\ rec[i].phase \in {"retry_pending", "resend_pending"}
     /\ turn' = NoTurn /\ UNCHANGED <<rec, corr, runner>>
  \/ /\ rec[i].phase \notin Terminal \cup {"retry_pending", "resend_pending"}
     /\ \/ Refused(i) /\ Rejects(i) /\ UNCHANGED <<corr, runner>>
        \/ /\ ~Refused(i) /\ Kind[i] = "request"
           /\ Set(i, NewRow("executing")) /\ runner' = [runner EXCEPT ![i] = "queued"]
           /\ turn' = [Turn("run", i, "end") EXCEPT !.fresh = TRUE] /\ UNCHANGED corr
        \/ /\ ~Refused(i) /\ Kind[i] # "request"
           /\ corr' = [corr EXCEPT ![InReplyTo[i]] = IF Kind[i] = "reply" THEN "replied" ELSE @]
           /\ turn' = Turn("file", i, "end") /\ UNCHANGED <<rec, runner>>

Polls ==
  /\ turn.pc = "poll" /\ UNCHANGED hist /\ EngineFrame /\ OpenFrame
  /\ IF inbox = <<>> THEN turn' = NoTurn /\ UNCHANGED <<rec, corr, runner>> ELSE Takes(Head(inbox))

\* The second statement: the reply is put on record, and the item acknowledged.
FileReply ==
  /\ turn.pc = "file" /\ Set(turn.item, NewRow("reply_received"))
  /\ turn' = Turn("ack", turn.item, "end")
  /\ UNCHANGED <<corr, runner, hist>> /\ EngineFrame /\ OpenFrame

-----------------------------------------------------------------------------
(* executeRunnerTurn.                                                      *)

Starts(i) ==
  /\ turn.pc = "run" /\ turn.item = i /\ runner[i] = "queued"
  /\ runner' = [runner EXCEPT ![i] = "running"] /\ hist' = [hist EXCEPT !.runs[i] = @ + 1]
  /\ UNCHANGED <<rec, corr, turn>> /\ EngineFrame /\ OpenFrame

\* Mutant: a retry that never started is forgotten like a new request.
NotStarted_Deletes(i) == NoRow

\* Not started is not held: a new request goes back to the inbox.
NotStarted(i) == IF turn.fresh THEN NoRow ELSE [rec[i] EXCEPT !.phase = "held"]

NeverStarts(i) ==
  /\ turn.pc = "run" /\ turn.item = i /\ runner[i] = "queued"
  /\ Set(i, NotStarted(i)) /\ turn' = NoTurn /\ runner' = [runner EXCEPT ![i] = "none"]
  /\ UNCHANGED <<corr, hist>> /\ EngineFrame /\ OpenFrame

Holds(i) == Set(i, [rec[i] EXCEPT !.phase = "held"])

RunnerReturns(i) ==
  /\ turn.pc = "run" /\ turn.item = i /\ runner[i] = "running"
  /\ runner' = [runner EXCEPT ![i] = "none"]
  /\ \/ /\ Set(i, [rec[i] EXCEPT !.phase = "result", !.text = hist.runs[i]])
        /\ turn' = Turn("send", i, "end")
     \/ /\ Set(i, [rec[i] EXCEPT !.phase = "reply_failed", !.large = TRUE, !.text = hist.runs[i]])
        /\ turn' = Turn("ack", i, "tell")
     \/ Holds(i) /\ turn' = Turn("ack", i, "tell")
  /\ UNCHANGED <<corr, hist>> /\ EngineFrame /\ OpenFrame

(* The time is over, or the drain is stopped: the run is held and the      *)
(* runner may go on.  After a stop the acknowledgement is not sent.        *)
RunnerInterrupted(i) ==
  /\ turn.pc = "run" /\ turn.item = i /\ runner[i] = "running" /\ Holds(i)
  /\ turn' \in {Turn("ack", i, "tell"), NoTurn}
  /\ UNCHANGED <<corr, runner, hist>> /\ EngineFrame /\ OpenFrame

LateEnds(i) ==
  /\ runner[i] = "running" /\ ~(turn.pc = "run" /\ turn.item = i)
  /\ runner' = [runner EXCEPT ![i] = "none"]
  /\ UNCHANGED <<rec, corr, turn, hist>> /\ EngineFrame /\ OpenFrame

-----------------------------------------------------------------------------
(* deliverReply: send under the reply's own id, and ask for its status.    *)

ReplyFails(i) ==
  Set(i, [rec[i] EXCEPT !.phase = "reply_failed"]) /\ turn' = Turn("ack", i, "end")

NoRoute ==
  /\ turn.pc = "send" /\ ~routed /\ ReplyFails(turn.item)
  /\ UNCHANGED <<corr, runner, hist>> /\ EngineFrame /\ OpenFrame

\* The engine admits a new id, knows an equal message, or refuses a conflict; the
\* answer may be lost, and the outbox may be full.
Send ==
  LET i == turn.item
      was == out[i][rec[i].resend]
  IN /\ turn.pc = "send" /\ routed
     /\ \/ /\ was \in {NotSent, [was EXCEPT !.text = rec[i].text]}
           /\ out' = [out EXCEPT ![i][rec[i].resend].text = rec[i].text]
           /\ turn' = Turn("status", i, "end") /\ UNCHANGED rec
        \/ was # NotSent /\ was.text # rec[i].text /\ ReplyFails(i) /\ UNCHANGED out
        \/ turn' \in {Turn("status", i, "end"), NoTurn} /\ UNCHANGED <<out, rec>>
     /\ UNCHANGED <<corr, runner, hist, inbox, arrived>> /\ OpenFrame

Status ==
  LET i == turn.item
      now == out[i][rec[i].resend]
  IN /\ turn.pc = "status" /\ now # NotSent
     /\ IF now.text # rec[i].text \/ now.dead THEN ReplyFails(i)
        ELSE Set(i, [rec[i] EXCEPT !.phase = "admitted"]) /\ turn' = Turn("ack", i, "acked")
     /\ UNCHANGED <<corr, runner, hist>> /\ EngineFrame /\ OpenFrame

-----------------------------------------------------------------------------
(* ackItem, and what was waiting for it.                                   *)

Then(i) ==
  /\ turn' = IF turn.then = "tell" THEN Turn("tell", i, "end") ELSE NoTurn
  /\ Set(i, [rec[i] EXCEPT !.acked = TRUE,
                           !.phase = IF turn.then = "acked" THEN "acked" ELSE @])

\* The inbox, where an item is once, after the engine took the acknowledgement of i.
Without(q, i) ==
  IF \E k \in 1 .. Len(q) : q[k] = i THEN RemoveAt(q, CHOOSE k \in 1 .. Len(q) : q[k] = i) ELSE q

Ack ==
  /\ turn.pc = "ack" /\ Then(turn.item)
  /\ inbox' = IF rec[turn.item].acked THEN inbox ELSE Without(inbox, turn.item)
  /\ UNCHANGED <<corr, runner, arrived, out, hist>> /\ OpenFrame

\* The engine has it, and the answer is lost.
AckLost ==
  /\ turn.pc = "ack" /\ ~rec[turn.item].acked /\ turn' = NoTurn
  /\ inbox' = Without(inbox, turn.item)
  /\ UNCHANGED <<rec, corr, runner, arrived, out, hist>> /\ OpenFrame

\* Sent, refused or without a route: the outcome is tried once.
Tell ==
  /\ turn.pc = "tell" /\ turn' = NoTurn /\ Set(turn.item, [rec[turn.item] EXCEPT !.told = TRUE])
  /\ UNCHANGED <<corr, runner, hist>> /\ EngineFrame /\ OpenFrame

(* The engine does not answer, or the drain is stopped: the step throws.   *)
StepFails ==
  /\ turn.pc \in {"poll", "status", "tell"} \/ (turn.pc = "ack" /\ ~rec[turn.item].acked)
  /\ turn' = NoTurn
  /\ UNCHANGED <<rec, corr, runner, hist>> /\ EngineFrame /\ OpenFrame

-----------------------------------------------------------------------------
(* resolvePeerRecord and the application's calls run between the awaits.   *)

\* Mutant: a failed reply may be produced again, and not only sent again.
MayRetry_Failed(i) == rec[i].phase \in {"held", "reply_failed"} /\ runner[i] = "none"

MayRetry(i) == rec[i].phase = "held" /\ runner[i] = "none"

Resolves(i, row) ==
  /\ open /\ Set(i, row) /\ UNCHANGED <<corr, turn, runner>> /\ EngineFrame /\ OpenFrame

Retry(i) ==
  /\ MayRetry(i) /\ rec[i].attempt <= MaxRetries
  /\ Resolves(i, [rec[i] EXCEPT !.phase = "retry_pending", !.attempt = @ + 1])
  /\ hist' = [hist EXCEPT !.licence[i] = @ + 1]

Discard(i) ==
  /\ rec[i].phase \in {"held", "reply_failed"} /\ UNCHANGED hist
  /\ Resolves(i, [rec[i] EXCEPT !.phase = "discarded"])

Resend(i) ==
  /\ rec[i].phase = "reply_failed" /\ rec[i].resend < MaxRetries /\ UNCHANGED hist
  /\ Resolves(i, [rec[i] EXCEPT !.phase = "resend_pending", !.resend = @ + 1])

ConsumeReply(i) ==
  /\ rec[i].phase = "reply_received" /\ ~rec[i].consumed /\ UNCHANGED hist
  /\ Resolves(i, [rec[i] EXCEPT !.consumed = TRUE])

Correlates(x, state) ==
  /\ corr' = [corr EXCEPT ![x] = state]
  /\ UNCHANGED <<rec, turn, runner, hist>> /\ EngineFrame /\ OpenFrame

\* The correlation is on record before the request is sent.
SendRequest(x) == open /\ routed /\ corr[x] = "none" /\ Correlates(x, "open")

CloseOutbound(x) == open /\ corr[x] \in {"open", "replied"} /\ Correlates(x, "closed")

-----------------------------------------------------------------------------
Crash ==
  /\ open /\ open' = FALSE /\ turn' = NoTurn /\ runner' = [i \in Items |-> "none"]
  /\ hist' = [hist EXCEPT !.torn = IF turn.pc = "file" THEN @ \cup {InReplyTo[turn.item]} ELSE @]
  /\ UNCHANGED <<rec, corr, routed>> /\ EngineFrame

\* Mutant: what was executing is taken from the inbox again.
Recovered_Reruns(row) == IF row.phase = "executing" THEN NoRow ELSE row

Recovered(row) == IF row.phase = "executing" THEN [row EXCEPT !.phase = "held"] ELSE row

Open(b) ==
  /\ ~open /\ open' = TRUE /\ routed' = b
  /\ rec' = [i \in Items |-> Recovered(rec[i])]
  /\ UNCHANGED <<corr, turn, runner, hist>> /\ EngineFrame

(* The engine: a peer's message is taken once; an admitted reply may be    *)
(* refused or expire.                                                      *)
Arrive(i) ==
  /\ i \notin arrived /\ arrived' = arrived \cup {i} /\ inbox' = Append(inbox, i)
  /\ UNCHANGED <<rec, corr, turn, runner, out, hist>> /\ OpenFrame

ReplyDies(i, n) ==
  /\ out[i][n] # NotSent /\ ~out[i][n].dead /\ out' = [out EXCEPT ![i][n].dead = TRUE]
  /\ UNCHANGED <<rec, corr, turn, runner, inbox, arrived, hist>> /\ OpenFrame

DrainNext ==
  \/ Step \/ Polls \/ FileReply \/ NoRoute \/ Send \/ Status \/ Ack \/ AckLost \/ Tell \/ StepFails
  \/ \E i \in Items :
       \/ Starts(i) \/ NeverStarts(i) \/ RunnerReturns(i) \/ RunnerInterrupted(i) \/ LateEnds(i)
       \/ Retry(i) \/ Discard(i) \/ Resend(i) \/ ConsumeReply(i) \/ Arrive(i)
       \/ \E n \in 0 .. MaxRetries : ReplyDies(i, n)
  \/ \E x \in Asks : SendRequest(x) \/ CloseOutbound(x)
  \/ Crash \/ \E b \in BOOLEAN : Open(b)

DrainSpec == DrainInit /\ [][DrainNext]_drainVars

-----------------------------------------------------------------------------
(* A request is run once, and once more for each retry the operator asked  *)
(* for, whatever is lost, stopped or killed between the run and its record *)
(* (counted from the last time retention forgot it unacknowledged).        *)
RunsAreLicensed ==
  \A i \in Items : hist.runs[i] <= hist.licence[i]

(* The peer never gets two different answers to one request, resent or     *)
(* not, as long as the request is remembered.                              *)
OneAnswer ==
  \A i \in Items \ hist.gone : \A n, k \in 0 .. MaxRetries :
    NotSent \notin {out[i][n], out[i][k]} => out[i][n].text = out[i][k].text

(* What left the engine's inbox is in the journal until retention ends it, *)
(* and a correlation closed by a reply has that reply on record, unless    *)
(* the process died between the two statements.                            *)
NothingLost ==
  /\ \A i \in arrived : i \in Rows \cup Range(inbox) \cup hist.gone
  /\ \A x \in Asks \ hist.torn :
       corr[x] = "replied" =>
         \/ turn.pc = "file"
         \/ \E i \in Items : Kind[i] = "reply" /\ InReplyTo[i] = x
                              /\ (rec[i].phase = "reply_received" \/ i \in hist.gone)
=============================================================================
