------------------------------ MODULE Exchange ------------------------------
(***************************************************************************)
(* What same-device messaging promises about one request, whoever executes *)
(* it and however often the service restarts: it is executed at most once  *)
(* per admission; it is answered at most once, by its executor while the   *)
(* execution is in good standing or afterwards by the owner; a held        *)
(* request is never started again and never answered by a late result on   *)
(* its own; an answer is forgotten only after it was read.                 *)
(*                                                                         *)
(* One step may move several requests: recovery holds them together and    *)
(* compaction forgets them together.                                       *)
(***************************************************************************)
EXTENDS FiniteSets

CONSTANTS Msgs, Texts, Legacy

VARIABLES
  phase,    \* where each request stands
  answers   \* the answers stored for it

Answer == [text : Texts, owner : BOOLEAN, read : BOOLEAN]

Unread(t, byOwner) == [text |-> t, owner |-> byOwner, read |-> FALSE]
Seen(a) == [text |-> a.text, owner |-> a.owner, read |-> TRUE]
AllRead(m) == \A a \in answers[m] : a.read

Admit(m) ==
  /\ phase[m] = "absent" /\ phase'[m] = "queued_local"
  /\ answers[m] = {} /\ answers'[m] = {}

Begin(m) ==
  /\ phase[m] = "queued_local" /\ phase'[m] = "executing"
  /\ answers'[m] = answers[m]

Finish(m) ==
  /\ phase[m] = "executing" /\ phase'[m] = "completed"
  /\ answers[m] = {}
  /\ \E t \in Texts : answers'[m] = {Unread(t, FALSE)}

Hold(m) ==
  /\ phase[m] = "executing" /\ phase'[m] = "held"
  /\ answers'[m] = answers[m]

OwnerCloses(m) ==
  /\ phase[m] = "held" /\ phase'[m] = "failed"
  /\ answers[m] = {} /\ answers'[m] = {}

\* The owner accepts the late result.
OwnerAnswers(m) ==
  /\ phase[m] = "held" /\ phase'[m] = "completed"
  /\ answers[m] = {}
  /\ \E t \in Texts : answers'[m] = {Unread(t, TRUE)}

\* Only for a record an older build left held with its answer stored.
OwnerConfirms(m) ==
  /\ m \in Legacy
  /\ phase[m] = "held" /\ phase'[m] = "completed"
  /\ answers[m] # {} /\ answers'[m] = answers[m]

Read(m) ==
  /\ phase'[m] = phase[m]
  /\ answers'[m] = {Seen(a) : a \in answers[m]}

ForgetAnswer(m) ==
  /\ phase'[m] = phase[m]
  /\ AllRead(m) /\ answers'[m] = {}

Forget(m) ==
  /\ phase[m] \in {"completed", "failed"} /\ phase'[m] = "absent"
  /\ AllRead(m) /\ answers'[m] = {}

Stay(m) == phase'[m] = phase[m] /\ answers'[m] = answers[m]

Move(m) ==
  \/ Admit(m) \/ Begin(m) \/ Finish(m) \/ Hold(m)
  \/ OwnerCloses(m) \/ OwnerAnswers(m) \/ OwnerConfirms(m)
  \/ Read(m) \/ ForgetAnswer(m) \/ Forget(m) \/ Stay(m)

ExchangeInit ==
  /\ phase = [m \in Msgs |-> IF m \in Legacy THEN "held" ELSE "absent"]
  /\ answers \in [Msgs -> SUBSET Answer]
  /\ \A m \in Msgs \ Legacy : answers[m] = {}

ExchangeNext == \A m \in Msgs : Move(m)

ExchangeSpec == ExchangeInit /\ [][ExchangeNext]_<<phase, answers>>
=============================================================================
