----------------------------- MODULE ReplyRoutes ----------------------------
(***************************************************************************)
(* Where a message goes and where its answer may come from: the handlers   *)
(* of send_message and send_reply between their awaits, the unified router *)
(* that turns a principal into a local recipient, and the pins that tie a  *)
(* conversation of two attached chats to exactly these two chats.          *)
(*                                                                         *)
(* Every await is a step boundary: meanwhile the owner may switch the      *)
(* router or the pinning, the registry may rebind the principal, a chat    *)
(* may be restarted or lose its MCP child, and other calls commit.         *)
(***************************************************************************)
EXTENDS Naturals, FiniteSets

CONSTANTS
  Chats,       \* session-... addresses
  Instances,   \* configured workers
  Principal,   \* an agent_... address
  Msgs,
  Mail,        \* [Msgs -> [from, to, req]]: what a client sends under an id
  Rpcs,        \* concurrent RPCs
  MaxGen,      \* bound: runs of a chat
  MaxChild,    \* bound: MCP children of a chat
  Moving,      \* what changes meanwhile: chats, "router", "pinning", "registry"
  None

Gens == 1..MaxGen
Pins == [chat : Chats, local : Gens, remote : Gens]

RoutesAssumption ==
  /\ MaxGen \in Nat \ {0} /\ MaxChild \in Nat \ {0}
  /\ None \notin Chats \cup Instances \cup {Principal} \cup Pins
  /\ \A m \in Msgs : Mail[m].from \in Chats
                  /\ Mail[m].to \subseteq (Chats \cup Instances \cup {Principal})

VARIABLES
  chat,      \* [gen, child, on]: discovered generation, MCP child, live lease
  router,    \* router.json says enabled
  pinning,   \* the owner admits new pins
  registry,  \* the instances bound to the principal, None if unreadable
  rows,      \* local_messages
  pins,      \* local_reply_routes, by sender and request
  told,      \* the targets named in receipts and statuses, by message
  call       \* the handlers under way

routeVars == <<chat, router, pinning, registry, rows, pins, told, call>>

Key(m) == <<Mail[m].from, Mail[m].req>>
Keys == {Key(m) : m \in Msgs}
Idle == [at |-> "idle"]

RoutesInit ==
  /\ chat = [s \in Chats |-> [gen |-> 1, child |-> 1, on |-> TRUE]]
  /\ router \in BOOLEAN /\ ("router" \notin Moving => ~ router)
  /\ pinning \in BOOLEAN /\ ("pinning" \notin Moving => pinning)
  /\ registry \in {{i} : i \in Instances} \cup {Instances}
  /\ rows = [m \in Msgs |-> None]
  /\ pins = [k \in Keys |-> None]
  /\ told = [m \in Msgs |-> {}]
  /\ call = [c \in Rpcs |-> Idle]

---------------------------------------------------------------------------
(* Chats, owner and registry.                                              *)

\* The credential (its generation and child) is the one now attached.
Live(s, gen, child) ==
  chat[s].on /\ chat[s].gen = gen /\ chat[s].child = child

\* A lifecycle event opens a new run: the attachment of the old one is void.
NewRun(s) ==
  /\ chat[s].gen < MaxGen
  /\ chat' = [chat EXCEPT ![s].gen = @ + 1, ![s].on = FALSE]
  /\ UNCHANGED <<router, pinning, registry, rows, pins, told, call>>

\* The lease runs out, or the child detaches.
Lapse(s) ==
  /\ chat[s].on
  /\ chat' = [chat EXCEPT ![s].on = FALSE]
  /\ UNCHANGED <<router, pinning, registry, rows, pins, told, call>>

\* The same child comes back, or another one takes its place.
Attach(s) ==
  /\ ~ chat[s].on
  /\ \E child \in {chat[s].child, chat[s].child + 1} \cap 1..MaxChild :
       chat' = [chat EXCEPT ![s].child = child, ![s].on = TRUE]
  /\ UNCHANGED <<router, pinning, registry, rows, pins, told, call>>

SwitchRouter ==
  /\ "router" \in Moving
  /\ router' = ~ router
  /\ UNCHANGED <<chat, pinning, registry, rows, pins, told, call>>

SwitchPinning ==
  /\ "pinning" \in Moving
  /\ pinning' = ~ pinning
  /\ UNCHANGED <<chat, router, registry, rows, pins, told, call>>

Rebind ==
  /\ "registry" \in Moving
  /\ registry' \in (SUBSET Instances \cup {None}) \ {registry}
  /\ UNCHANGED <<chat, router, pinning, rows, pins, told, call>>

---------------------------------------------------------------------------
(* The router.                                                             *)

\* resolveSend: off, it passes the address on; an address is itself; a
\* principal must have exactly one local binding in a registry that is read.
Resolutions(to) ==
  IF ~ router THEN {[to |-> to, via |-> None, who |-> None]}
  ELSE IF to # Principal THEN {[to |-> to, via |-> "id", who |-> None]}
  ELSE IF registry # None /\ Cardinality(registry) = 1
       THEN {[to |-> i, via |-> "principal", who |-> Principal] : i \in registry}
       ELSE {}

\* Mutant: the envelope's hash alone; it knows the recipient, not how it was
\* named.
IntentMatch_Hash(row, k) == TRUE

\* isRouteIntentMatch: a retry means what the recorded message meant.  A row
\* from a time without router has no via and matches either kind of id.
IntentMatch(row, k) ==
  /\ row.who = k.who
  /\ row.who # None => row.via = "principal" /\ k.via = "principal"
  /\ row.who = None => "principal" \notin {row.via, k.via}

\* The receipt describes the record, not the resolution of this call.
ReceiptTarget(row, asked) ==
  [asked |-> asked, via |-> IF row.who # None \/ row.via = "principal" THEN "principal" ELSE "id",
   who |-> row.who]

\* The status of a message sent by id names who is bound to it by now.
StatusTarget(row) ==
  IF row.who # None \/ row.via = "principal"
  THEN [asked |-> None, via |-> "principal", who |-> row.who]
  ELSE [asked |-> None, via |-> "id",
        who |-> IF registry # None /\ row.to \in registry THEN Principal ELSE None]

Status(m) ==
  /\ rows[m] # None /\ router
  /\ told' = [told EXCEPT ![m] = @ \cup {StatusTarget(rows[m])}]
  /\ UNCHANGED <<chat, router, pinning, registry, rows, pins, call>>

---------------------------------------------------------------------------
(* send_message.                                                           *)

Goes(c, k) == call' = [call EXCEPT ![c] = k]
Fails(c) == Goes(c, Idle) /\ UNCHANGED <<rows, pins, told>>

\* The policy is switched off, the journal fails, the connection is gone.
Breaks(c) ==
  /\ call[c] # Idle
  /\ Fails(c)
  /\ UNCHANGED <<chat, router, pinning, registry>>

\* The caller's credential was checked, the address is resolved.
Send(c, m, to) ==
  LET s == Mail[m].from IN
  /\ call[c] = Idle /\ chat[s].on /\ to \in Mail[m].to
  /\ \E r \in Resolutions(to) :
       Goes(c, [at |-> "look", m |-> m, asked |-> to, to |-> r.to, via |-> r.via,
                who |-> r.who, gen |-> chat[s].gen, child |-> chat[s].child,
                route |-> None, local |-> None])
  /\ UNCHANGED <<chat, router, pinning, registry, rows, pins, told>>

\* Past the owner's rules and the receiver's policy (a principal nobody
\* resolved is no recipient, a chat has to be attached) the record and its pin
\* are read.  Only attached pairs are pinned, a retry exactly if the record is;
\* the switch is for new pins.
Look(c) ==
  LET k == call[c]
      route == IF rows[k.m] # None /\ rows[k.m].pinned THEN pins[Key(k.m)] ELSE None
      pin == /\ rows[k.m] # None => route # None
             /\ route # None \/ pinning
             /\ k.to \in Chats
  IN /\ k.at = "look"
     /\ IF k.to # Principal /\ (k.to \in Chats => chat[k.to].on)
        THEN /\ Goes(c, [k EXCEPT !.at = IF pin THEN "authenticate" ELSE "record", !.route = route])
             /\ UNCHANGED <<rows, pins, told>>
        ELSE Fails(c)
     /\ UNCHANGED <<chat, router, pinning, registry>>

\* The sender is still the attached chat that was checked at the door.
Authenticate(c) ==
  LET k == call[c] IN
  /\ k.at = "authenticate"
  /\ IF Live(Mail[k.m].from, k.gen, k.child)
     THEN Goes(c, [k EXCEPT !.at = "describe"]) /\ UNCHANGED <<rows, pins, told>>
     ELSE Fails(c)
  /\ UNCHANGED <<chat, router, pinning, registry>>

\* Mutant: the addresses are not compared.
Renews_AnyChat(pin, s, local, remote) ==
  local >= pin.local /\ remote >= pin.remote

\* Mutant: the generations are not compared.
Renews_AnyRun(pin, s, local, remote) ==
  pin.chat = s

\* verifyLocalReplyRoute: the same chats, in runs that are not older.
Renews(pin, s, local, remote) ==
  pin.chat = s /\ local >= pin.local /\ remote >= pin.remote

\* Observes the recipient; a pinned retry is verified against its route.
Describe(c) ==
  LET k == call[c] IN
  /\ k.at = "describe"
  /\ IF chat[k.to].on
        /\ (k.route # None => Renews(k.route, k.to, chat[k.to].gen, k.gen))
     THEN /\ Goes(c, [k EXCEPT !.at = "record", !.local = chat[k.to].gen])
          /\ UNCHANGED <<rows, pins, told>>
     ELSE Fails(c)
  /\ UNCHANGED <<chat, router, pinning, registry>>

Pinned(k) == k.local # None

\* recordSend finds the same envelope, meant the same way, pinned or not alike.
IsDuplicate(k) ==
  /\ rows[k.m] # None
  /\ rows[k.m].to = k.to /\ IntentMatch(rows[k.m], k)
  /\ rows[k.m].pinned = Pinned(k)

\* checkAttachedIdentity of both ends and pinInTransaction, in the
\* transaction that inserts the message.
MayPin(k) ==
  LET pin == pins[Key(k.m)] IN
  /\ chat[k.to].on /\ chat[k.to].gen = k.local
  /\ Live(Mail[k.m].from, k.gen, k.child)
  /\ pin # None => Renews(pin, k.to, k.local, k.gen)

MayInsert(k) == rows[k.m] = None /\ (Pinned(k) => MayPin(k))

Row(k) ==
  [to |-> k.to, via |-> k.via, who |-> k.who, pinned |-> Pinned(k), phase |-> "queued",
   claim |-> None, sentBy |-> IF Pinned(k) THEN k.gen ELSE None, repliedBy |-> None]

Receipt(k, row) ==
  told' = IF router THEN [told EXCEPT ![k.m] = @ \cup {ReceiptTarget(row, k.asked)}] ELSE told

RecordSend(c) ==
  LET k == call[c] IN
  /\ k.at = "record"
  /\ \/ /\ IsDuplicate(k)
        /\ Goes(c, Idle) /\ Receipt(k, rows[k.m])
        /\ UNCHANGED <<rows, pins>>
     \/ /\ MayInsert(k)
        /\ rows' = [rows EXCEPT ![k.m] = Row(k)]
        /\ pins' = IF Pinned(k)
                   THEN [pins EXCEPT ![Key(k.m)] = [chat |-> k.to, local |-> k.local, remote |-> k.gen]]
                   ELSE pins
        /\ Goes(c, Idle) /\ Receipt(k, Row(k))
     \/ ~ IsDuplicate(k) /\ ~ MayInsert(k) /\ Fails(c)
  /\ UNCHANGED <<chat, router, pinning, registry>>

---------------------------------------------------------------------------
(* Claims and replies of the recipient chat.                               *)

Claim(m) ==
  /\ rows[m] # None /\ rows[m].to \in Chats /\ rows[m].phase = "queued"
  /\ chat[rows[m].to].on
  /\ rows' = [rows EXCEPT ![m].phase = "executing", ![m].claim = chat[rows[m].to].gen]
  /\ UNCHANGED <<chat, router, pinning, registry, pins, told, call>>

\* A claim that is found expired, by another one or by the reaper, is held.
Expire(m) ==
  /\ rows[m] # None /\ rows[m].phase = "executing"
  /\ rows' = [rows EXCEPT ![m].phase = "held"]
  /\ UNCHANGED <<chat, router, pinning, registry, pins, told, call>>

\* The credential was checked and the pin of the message read.
Reply(c, m) ==
  LET s == rows[m].to IN
  /\ call[c] = Idle /\ rows[m] # None /\ s \in Chats /\ chat[s].on
  /\ Goes(c, [at |-> IF rows[m].pinned THEN "verify" ELSE "answer", m |-> m,
              gen |-> chat[s].gen, child |-> chat[s].child,
              remote |-> IF rows[m].pinned THEN pins[Key(m)].remote ELSE None])
  /\ UNCHANGED <<chat, router, pinning, registry, rows, pins, told>>

Verify(c) ==
  LET k == call[c] IN
  /\ k.at = "verify"
  /\ IF Live(rows[k.m].to, k.gen, k.child)
     THEN Goes(c, [k EXCEPT !.at = "observe"]) /\ UNCHANGED <<rows, pins, told>>
     ELSE Fails(c)
  /\ UNCHANGED <<chat, router, pinning, registry>>

\* The asking chat as it is now; while it is offline, as it was pinned: the
\* answer waits for that chat and goes to no other.
Observe(c) ==
  LET k == call[c]
      from == chat[Mail[k.m].from] IN
  /\ k.at = "observe"
  /\ Goes(c, [k EXCEPT !.at = "answer", !.remote = IF from.on THEN from.gen ELSE @])
  /\ UNCHANGED <<chat, router, pinning, registry, rows, pins, told>>

\* The pin, read again in the transaction, still holds for what was observed.
PinHolds(k) ==
  LET row == rows[k.m] IN
  row.pinned => /\ Live(row.to, k.gen, k.child)
                /\ Renews(pins[Key(k.m)], row.to, k.gen, k.remote)

\* The claim is of this run, or the pin lets a newer run of the chat finish it.
HoldsClaim(k) ==
  LET row == rows[k.m] IN
  row.claim # None /\ (row.claim = k.gen \/ (row.pinned /\ k.gen > row.claim))

Answers(k) == PinHolds(k) /\ HoldsClaim(k)

\* commitAcceptedReply: the pin and the claim advance with the reply.
Commit(k, row) ==
  /\ rows' = [rows EXCEPT ![k.m] = IF row.pinned THEN [row EXCEPT !.claim = k.gen] ELSE row]
  /\ pins' = IF row.pinned
             THEN [pins EXCEPT ![Key(k.m)].local = k.gen, ![Key(k.m)].remote = k.remote]
             ELSE pins

RecordReply(c) ==
  LET k == call[c]
      row == rows[k.m]
  IN /\ k.at = "answer"
     /\ Goes(c, Idle)
     /\ \/ /\ Answers(k) /\ row.phase = "executing"
           /\ Commit(k, [row EXCEPT !.phase = "completed", !.repliedBy = k.gen])
        \/ /\ Answers(k) /\ row.phase = "completed"
           /\ Commit(k, row)
        \/ /\ Answers(k) /\ row.phase = "executing"       \* the claim's lease ran out
           /\ rows' = [rows EXCEPT ![k.m].phase = "held"]
           /\ UNCHANGED pins
        \/ /\ ~ Answers(k) \/ row.phase \notin {"executing", "completed"}
           /\ UNCHANGED <<rows, pins>>
     /\ UNCHANGED <<chat, router, pinning, registry, told>>

---------------------------------------------------------------------------

CallNext(c) ==
  \/ \E m \in Msgs : Reply(c, m) \/ \E to \in Mail[m].to : Send(c, m, to)
  \/ Look(c) \/ Authenticate(c) \/ Describe(c) \/ RecordSend(c)
  \/ Verify(c) \/ Observe(c) \/ RecordReply(c) \/ Breaks(c)

RoutesNext ==
  \/ \E c \in Rpcs : CallNext(c)
  \/ \E m \in Msgs : Claim(m) \/ Expire(m) \/ Status(m)
  \/ \E s \in Chats \cap Moving : NewRun(s) \/ Lapse(s) \/ Attach(s)
  \/ SwitchRouter \/ SwitchPinning \/ Rebind

RoutesSpec == RoutesInit /\ [][RoutesNext]_routeVars

RoutesTypeOK ==
  /\ chat \in [Chats -> [gen : Gens, child : 1..MaxChild, on : BOOLEAN]]
  /\ router \in BOOLEAN /\ pinning \in BOOLEAN
  /\ registry \in SUBSET Instances \cup {None}
  /\ pins \in [Keys -> Pins \cup {None}]

\* A pinned conversation belongs to two chats and to their newest runs: every
\* pinned message of one request went to the one chat the pin names, however
\* the sender reuses the request; the pin is not behind a run that has sent or
\* answered in it, nor ahead of the runs there are, though replies are verified
\* against a sender observed before an await.
PinIsKept ==
  \A m \in Msgs : rows[m] # None /\ rows[m].pinned =>
    LET pin == pins[Key(m)] IN
    /\ pin # None /\ pin.chat = rows[m].to
    /\ pin.local <= chat[pin.chat].gen /\ pin.remote <= chat[Mail[m].from].gen
    /\ pin.remote >= rows[m].sentBy
    /\ rows[m].repliedBy # None => pin.local >= rows[m].repliedBy

\* What a sender is told of a route is the route the message took: a receipt
\* says "by principal" exactly to who asked by principal, and names the
\* principal on record, across retries, rebinding and a router that is
\* switched on or off between the two.
ToldIsTaken ==
  \A m \in Msgs : \A t \in told[m] :
    /\ rows[m] # None
    /\ t.via = "principal" <=> rows[m].who # None
    /\ t.via = "principal" => t.who = rows[m].who
    /\ t.asked # None => (t.via = "principal" <=> t.asked = Principal)
=============================================================================
