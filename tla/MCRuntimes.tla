----------------------------- MODULE MCRuntimes -----------------------------
(***************************************************************************)
(* What is between a message and the turn that answers it, for TLC: the    *)
(* headless runtime, the shared app server, the worker pool, the admission *)
(* of local sends, and their routes and pins.  They share no state: a      *)
(* behaviour takes one `part` and leaves the others at rest.               *)
(***************************************************************************)
EXTENDS HeadlessRuntime, Integers, FiniteSets, TLC

CONSTANTS d1, d2, e1, r1, r2, o1, s1, m1,
          Mail, Threads, Bootstrap, NoThread, MaxConsecutive, MaxFaults, MaxRebinds, MaxUserTurns,
          Slots, Callers, CrashThreshold, MaxProcs,
          Sends, Senders, Msgs, MaxRate, Window, MaxDepth, NoMsg,
          asker, helper, other, worker, worker2, principal, p1, p2, rpc1, rpc2, Nothing

VARIABLES part,
          file, thread, phase, initialized, failures, live, queue, pump, corr, retained,
          bridge, own, served, user, said, unread, hint, open, settled, faults, rebinds,
          bound, asked,
          pool, stage,
          pc, req, depth, charge, age, stored, cache, chain,
          chat, router, pinning, registry, rows, pins, told, call

Shared == INSTANCE SharedAppServer WITH Deliveries <- Mail, turns <- served, mail <- unread
Pool == INSTANCE WorkerPool WITH phase <- stage
Limits == INSTANCE Admission WITH Requests <- Sends, None <- NoMsg

\* One request under two message ids; the second may go to another chat.
PinMail == [m \in {p1, p2} |->
             [from |-> asker, req |-> p1, to |-> IF m = p1 THEN {helper} ELSE {helper, other}]]

Pin == INSTANCE ReplyRoutes WITH
  Chats <- {asker, helper, other}, Instances <- {}, Principal <- principal,
  Msgs <- {p1, p2}, Mail <- PinMail, Rpcs <- {rpc1, rpc2}, MaxGen <- 2, MaxChild <- 1,
  Moving <- {asker}, None <- Nothing

\* One message, sent and sent again while the chats restart and the owner
\* switches the pinning.
Switch == INSTANCE ReplyRoutes WITH
  Chats <- {asker, helper, other}, Instances <- {}, Principal <- principal,
  Msgs <- {p1}, Mail <- PinMail, Rpcs <- {rpc1, rpc2}, MaxGen <- 2, MaxChild <- 1,
  Moving <- {asker, helper, "pinning"}, None <- Nothing

\* One message, sent by principal and by the address of a worker.
RouteMail == [m \in {p1} |-> [from |-> asker, req |-> p1, to |-> {principal, worker}]]

Route == INSTANCE ReplyRoutes WITH
  Chats <- {asker}, Instances <- {worker, worker2}, Principal <- principal,
  Msgs <- {p1}, Mail <- RouteMail, Rpcs <- {rpc1, rpc2}, MaxGen <- 1, MaxChild <- 1,
  Moving <- {"router", "registry"}, None <- Nothing

ASSUME RuntimesConstants ==
  Shared!SharedAssumption /\ Pool!PoolAssumption /\ Limits!AdmissionAssumption
    /\ Pin!RoutesAssumption /\ Switch!RoutesAssumption /\ Route!RoutesAssumption

\* Two deliveries of one room, and one of another that asks for no reply.
MCRoomOf == d1 :> r1 @@ d2 :> r1 @@ e1 :> r2

sharedVars == <<file, thread, phase, initialized, failures, live, queue, pump, corr, retained,
                bridge, own, served, user, said, unread, hint, open, settled, faults, rebinds,
                bound, asked>>
poolVars == <<pool, stage>>
limitVars == <<pc, req, depth, charge, age, stored, cache, chain>>
routeVars == <<chat, router, pinning, registry, rows, pins, told, call>>

(* The first message of a conversation may have been admitted before the   *)
(* sends explored here, and its depth may still be cached.                 *)
LimitsInit ==
  \/ Limits!Init
  \/ /\ pc = [x \in Sends |-> "new"] /\ req = [x \in Sends |-> Limits!NoAsk]
     /\ depth = [x \in Sends |-> 0] /\ charge = [x \in Sends |-> "none"]
     /\ age = [x \in Sends |-> 0]
     /\ stored = [m \in Msgs |-> IF m = m1 THEN [sender |-> s1, parent |-> NoMsg, depth |-> 1]
                                ELSE Limits!NoRecord]
     /\ cache \in {[m \in Msgs |-> IF m = m1 THEN k ELSE 0] : k \in 0 .. 1}
     /\ chain = [m \in Msgs |-> IF m = m1 THEN 1 ELSE 0]

RuntimesInit ==
  /\ part \in {"headless", "shared", "pool", "limits", "pins", "switch", "routes"}
  /\ RuntimeInit /\ Shared!SharedInit /\ Pool!PoolInit /\ LimitsInit
  /\ part # "shared" => own
  /\ part # "limits" => \A m \in Msgs : chain[m] = 0
  /\ CASE part = "routes" -> Route!RoutesInit
       [] part = "switch" -> Switch!RoutesInit
       [] OTHER -> Pin!RoutesInit

RuntimesNext ==
  \/ /\ part = "headless" /\ RuntimeNext
     /\ UNCHANGED <<part, sharedVars, poolVars, limitVars, routeVars>>
  \/ /\ part = "shared" /\ Shared!SharedNext
     /\ UNCHANGED <<part, runtimeVars, poolVars, limitVars, routeVars>>
  \/ /\ part = "pool" /\ Pool!PoolNext
     /\ UNCHANGED <<part, runtimeVars, sharedVars, limitVars, routeVars>>
  \/ /\ part = "limits" /\ Limits!Next
     /\ UNCHANGED <<part, runtimeVars, sharedVars, poolVars, routeVars>>
  \/ /\ \/ part = "pins" /\ Pin!RoutesNext
        \/ part = "switch" /\ Switch!RoutesNext
        \/ part = "routes" /\ Route!RoutesNext
     /\ UNCHANGED <<part, runtimeVars, sharedVars, poolVars, limitVars>>

RuntimesSpec ==
  RuntimesInit
    /\ [][RuntimesNext]_<<part, runtimeVars, sharedVars, poolVars, limitVars,
                          routeVars>>

\* A delivery is given to at most one headless turn that no operator cancelled;
\* the turn runs under its process's lease, and a delivery that wants a reply
\* is acknowledged only with its completion on record, whatever crashes, is
\* handed over or cancelled in between.  In the shared app server the turn runs
\* in the thread the binding named and its own text is the answer, though the
\* user speaks there too, sockets drop and the thread is rebound.
TurnsAreAccounted ==
  /\ part = "headless" => AtMostOneTurn /\ TurnHasLease /\ AckHasRecord
  /\ part = "shared" => Shared!TurnInBoundThread /\ Shared!ReplyIsOwnTurns

\* While calls wait for the pool and no restart is under way, every slot is
\* busy or behind a circuit nobody has looked at since.
NoLostWakeup == part = "pool" => Pool!NoLostWakeup

\* However sends interleave, a sender's admissions in a window and the length
\* of a chain of replies stay within their limits, through restarts, displaced
\* cache entries and compaction; a pinned conversation stays with its two chats
\* and never falls back to an older run of either, though both are observed
\* before an await; and a sender is told the route its message took.
SendsAreKept ==
  /\ part = "limits" => Limits!RateBound /\ Limits!LoopBound
  /\ part = "pins" => Pin!RoutesTypeOK /\ Pin!PinIsKept
  /\ part = "switch" => Switch!PinIsKept
  /\ part = "routes" => Route!RoutesTypeOK /\ Route!ToldIsTaken
=============================================================================
