------------------------------ MODULE CursorAcp ------------------------------
(***************************************************************************)
(* The Cursor ACP lane: a drain that has one delivery at a time answered    *)
(* by a long-lived `agent acp' child over JSON-RPC.  Each MESH room has one *)
(* ACP session, kept in the runtime's registry and loaded again when the    *)
(* child was replaced.  The helper owns claim, reply and acknowledgement.   *)
(***************************************************************************)
EXTENDS Naturals, FiniteSets

CONSTANTS
  Deliveries,      \* deliveries, handled one at a time
  Rooms,           \* MESH rooms
  RoomOf,          \* the room of each delivery
  CrashThreshold,  \* exits of the child that open the slot's circuit
  MaxFailures,     \* recorded failures after which the helper abandons
  MaxFaults        \* bound: exits, timeouts, failed calls, lost sessions

VARIABLES
  box,      \* per delivery, at the helper: pending, open, replied, acked, abandoned
  fails,    \* per delivery: recorded failures
  tries,    \* per delivery: prompts sent
  reply,    \* per delivery: the turns whose text its reply holds
  job,      \* the delivery in runDelivery, its step and the text collected
  child,    \* the slot's process: none, spawned, up
  crashes,  \* crashCount and whether the circuit is open
  turns,    \* prompts the child works on: <<delivery, attempt>>
  asking,   \* turns that asked this client (each once), and whether they still wait
  session,  \* per room: none, kept (in the registry) or gone (kept, not loadable)
  faults

acpVars == <<box, fails, tries, reply, job, child, crashes, turns, asking, session, faults>>

NoJob == [d |-> 0, pc |-> "none", text |-> {}]

AcpInit ==
  /\ box = [d \in Deliveries |-> "pending"] /\ reply = [d \in Deliveries |-> {}]
  /\ fails = [d \in Deliveries |-> 0] /\ tries = [d \in Deliveries |-> 0]
  /\ job = NoJob /\ child = "none" /\ crashes = [count |-> 0, open |-> FALSE] /\ turns = {} /\ asking = {}
  /\ session = [r \in Rooms |-> "none"] /\ faults = 0

Fault == faults < MaxFaults /\ faults' = faults + 1

To(pc) == job' = [job EXCEPT !.pc = pc]

At(pc) == job.pc = pc

Room == RoomOf[job.d]

-----------------------------------------------------------------------------
(* The drain and the helper.                                                *)

Unfinished == {d \in Deliveries : box[d] \in {"open", "replied"}}

\* A reply that is durable is acknowledged before new work is taken.
AckReplied ==
  /\ job = NoJob
  /\ \E d \in Unfinished : box[d] = "replied" /\ box' = [box EXCEPT ![d] = "acked"]
  /\ UNCHANGED <<fails, tries, reply, job, child, crashes, turns, asking, session, faults>>

Resolve(d) ==
  /\ job = NoJob /\ box[d] \in {"pending", "open"} /\ Unfinished \subseteq {d}
  /\ box' = [box EXCEPT ![d] = "open"] /\ job' = [d |-> d, pc |-> "acquire", text |-> {}]
  /\ UNCHANGED <<fails, tries, reply, child, crashes, turns, asking, session, faults>>

\* Mutant: a delivery that failed is not recorded with the helper.
Recorded_Never == fails' = fails /\ box' = box

\* recordFailure: too many and the helper abandons the delivery.
Recorded ==
  IF box[job.d] # "open" THEN UNCHANGED <<fails, box>>
  ELSE /\ fails' = [fails EXCEPT ![job.d] = @ + 1]
       /\ box' = [box EXCEPT ![job.d] = IF fails[job.d] + 1 = MaxFailures THEN "abandoned" ELSE @]

\* runDelivery throws: the conversation is idle, the slot free, the failure recorded.
Failed == job' = NoJob /\ Recorded /\ UNCHANGED <<tries, reply>>

-----------------------------------------------------------------------------
(* The slot: acquire, ready, and the child's exit.                          *)

Acquire ==
  /\ At("acquire") /\ UNCHANGED <<child, crashes, turns, asking, session, faults>>
  /\ IF crashes.open THEN Failed
     ELSE To("ready") /\ UNCHANGED <<box, fails, tries, reply>>

CircuitCloses ==
  /\ crashes.open /\ crashes' = [crashes EXCEPT !.open = FALSE]
  /\ UNCHANGED <<box, fails, tries, reply, job, child, turns, asking, session, faults>>

\* ensureSlotStarted: a child is spawned, initialized and authenticated.
Spawn ==
  /\ At("ready") /\ child = "none" /\ child' = "spawned"
  /\ UNCHANGED <<box, fails, tries, reply, job, crashes, turns, asking, session, faults>>

EnsureReady ==
  /\ At("ready") /\ child = "spawned" /\ child' = "up"
  /\ UNCHANGED <<box, fails, tries, reply, job, crashes, turns, asking, session, faults>>

Admit ==
  /\ At("ready") /\ child = "up" /\ To(IF session[Room] = "none" THEN "new" ELSE "load")
  /\ UNCHANGED <<box, fails, tries, reply, child, crashes, turns, asking, session, faults>>

\* The slot keeps no handle of a child that never became ready.
ReadyFails ==
  /\ At("ready") /\ child = "spawned" /\ Fault /\ Failed /\ child' = "none"
  /\ UNCHANGED <<crashes, turns, asking, session>>

\* A call that is pending fails with the child; a call of the helper goes on.
ChildExits ==
  /\ child = "up" /\ Fault /\ child' = "none" /\ turns' = {} /\ asking' = {}
  /\ crashes' = [count |-> crashes.count + 1, open |-> crashes.count + 1 >= CrashThreshold]
  /\ IF job.pc \in {"load", "new", "config", "prompt"} THEN Failed
     ELSE UNCHANGED <<box, fails, tries, reply, job>>
  /\ UNCHANGED session

-----------------------------------------------------------------------------
(* ensureSession.                                                           *)

SessionLoad ==
  /\ At("load") /\ session[Room] = "kept" /\ To("config")
  /\ UNCHANGED <<box, fails, tries, reply, child, crashes, turns, asking, session, faults>>

SessionUnknown ==
  /\ At("load") /\ session[Room] = "gone" /\ To("new")
  /\ UNCHANGED <<box, fails, tries, reply, child, crashes, turns, asking, session, faults>>

SessionLoadFails ==
  /\ At("load") /\ Fault /\ To("new")
  /\ UNCHANGED <<box, fails, tries, reply, child, crashes, turns, asking, session>>

\* The registry refuses a second session for a room.
SessionNew ==
  /\ At("new") /\ UNCHANGED <<child, crashes, turns, asking, faults>>
  /\ IF session[Room] = "none"
     THEN session' = [session EXCEPT ![Room] = "kept"] /\ To("config") /\ UNCHANGED <<box, fails, tries, reply>>
     ELSE Failed /\ UNCHANGED session

CallFails ==
  /\ job.pc \in {"new", "config"} /\ Fault /\ Failed /\ UNCHANGED <<child, crashes, turns, asking, session>>

SessionLost(r) ==
  /\ session[r] = "kept" /\ Fault /\ session' = [session EXCEPT ![r] = "gone"]
  /\ UNCHANGED <<box, fails, tries, reply, job, child, crashes, turns, asking>>

-----------------------------------------------------------------------------
(* sessionPrompt: updates are collected until the prompt is answered.       *)

MyTurn == <<job.d, tries[job.d]>>

\* Mode and model are set, and the prompt is sent.
SessionPrompt ==
  /\ At("config") /\ To("prompt")
  /\ tries' = [tries EXCEPT ![job.d] = @ + 1] /\ turns' = turns \cup {<<job.d, tries[job.d] + 1>>}
  /\ UNCHANGED <<box, fails, reply, child, crashes, asking, session, faults>>

\* Mutant: every update of the child is collected.
Hears_All(t) == At("prompt")

\* The listener keeps the updates of its session.
Hears(t) == At("prompt") /\ RoomOf[t[1]] = Room

Update(t) ==
  /\ t \in turns /\ Hears(t) /\ job' = [job EXCEPT !.text = @ \cup {t}]
  /\ UNCHANGED <<box, fails, tries, reply, child, crashes, turns, asking, session, faults>>

Waiting(t) == <<t, TRUE>> \in asking

\* A turn whose prompt was given up ends unheard.
TurnEnds(t) ==
  /\ t \in turns /\ ~Waiting(t) /\ turns' = turns \ {t} /\ asking' = asking \ {<<t, FALSE>>}
  /\ job' = IF At("prompt") /\ t = MyTurn THEN [job EXCEPT !.pc = "reply", !.text = @ \cup {t}] ELSE job
  /\ UNCHANGED <<box, fails, tries, reply, child, crashes, session, faults>>

EmptyAnswer ==
  /\ At("prompt") /\ MyTurn \in turns /\ ~Waiting(MyTurn) /\ job.text = {} /\ Fault /\ Failed
  /\ turns' = turns \ {MyTurn} /\ asking' = asking \ {<<MyTurn, FALSE>>}
  /\ UNCHANGED <<child, crashes, session>>

\* The child asks for a permission, a choice or the approval of a plan.
Asks(t) ==
  /\ t \in turns /\ asking \cap ({t} \X BOOLEAN) = {} /\ asking' = asking \cup {<<t, TRUE>>}
  /\ UNCHANGED <<box, fails, tries, reply, job, child, crashes, turns, session, faults>>

\* handleLine answers whatever is asked, also for a turn nobody waits for.
Answers(t) ==
  /\ Waiting(t) /\ asking' = (asking \ {<<t, TRUE>>}) \cup {<<t, FALSE>>}
  /\ UNCHANGED <<box, fails, tries, reply, job, child, crashes, turns, session, faults>>

\* The child goes on with the turn: no session/cancel is sent.
PromptTimesOut ==
  /\ At("prompt") /\ Fault /\ Failed /\ UNCHANGED <<child, crashes, turns, asking, session>>

-----------------------------------------------------------------------------
(* The settlement by the helper.                                            *)

Reply ==
  /\ At("reply") /\ To("ack") /\ box' = [box EXCEPT ![job.d] = "replied"]
  /\ reply' = [reply EXCEPT ![job.d] = job.text]
  /\ UNCHANGED <<fails, tries, child, crashes, turns, asking, session, faults>>

\* The helper fails before or after it made the reply durable.
ReplyFails ==
  /\ At("reply") /\ Fault /\ job' = NoJob /\ UNCHANGED <<tries, child, crashes, turns, asking, session>>
  /\ \/ Recorded /\ UNCHANGED reply
     \/ /\ box' = [box EXCEPT ![job.d] = "replied"] /\ UNCHANGED fails
        /\ reply' = [reply EXCEPT ![job.d] = job.text]

Ack ==
  /\ At("ack") /\ job' = NoJob /\ box' = [box EXCEPT ![job.d] = "acked"]
  /\ UNCHANGED <<fails, tries, reply, child, crashes, turns, asking, session, faults>>

AckFails ==
  /\ At("ack") /\ Fault /\ Failed /\ UNCHANGED <<child, crashes, turns, asking, session>>

\* The supervisor restarts: child and registry are new, the helper's record stays.
Restart ==
  /\ Fault /\ job' = NoJob /\ child' = "none" /\ turns' = {} /\ asking' = {}
  /\ crashes' = [count |-> 0, open |-> FALSE] /\ session' = [r \in Rooms |-> "none"]
  /\ UNCHANGED <<box, fails, tries, reply>>

-----------------------------------------------------------------------------
Runs ==
  \/ AckReplied \/ (\E d \in Deliveries : Resolve(d)) \/ Acquire \/ Spawn \/ EnsureReady \/ Admit \/ SessionLoad
  \/ SessionUnknown \/ SessionNew \/ SessionPrompt
  \/ (\E t \in turns : TurnEnds(t)) \/ (\E t \in turns : Answers(t)) \/ Reply \/ Ack

AcpNext ==
  \/ Runs \/ CircuitCloses \/ ReadyFails \/ ChildExits \/ SessionLoadFails \/ CallFails
  \/ (\E r \in Rooms : SessionLost(r)) \/ (\E t \in turns : Update(t) \/ Asks(t))
  \/ EmptyAnswer \/ PromptTimesOut \/ ReplyFails \/ AckFails \/ Restart

(* The drain's timer runs, calls are answered or time out, backoff passes.  *)
AcpSpec == AcpInit /\ [][AcpNext]_acpVars /\ WF_acpVars(Runs) /\ WF_acpVars(CircuitCloses)

-----------------------------------------------------------------------------
(* The text of a reply comes from turns of its own room: not from a turn of *)
(* another room that the child still works on because its prompt was given  *)
(* up (a turn of an earlier delivery of the same room may be heard).        *)
RepliesStayInRoom ==
  \A d \in Deliveries : \A t \in reply[d] : RoomOf[t[1]] = RoomOf[d]

(* A delivery the drain has claimed ends: it is answered and acknowledged,  *)
(* or it fails often enough to be abandoned and the next one is reached.    *)
DeliveryEnds ==
  \A d \in Deliveries : box[d] = "open" ~> box[d] \in {"acked", "abandoned"}

=============================================================================
