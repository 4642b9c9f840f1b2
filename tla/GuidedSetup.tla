---------------------------- MODULE GuidedSetup ----------------------------
(***************************************************************************)
(* `triangle setup` (packages/triangle-cli/src): one device joins a MESH   *)
(* authority, gets an agent there, and configures the background service   *)
(* of the account for one profile.                                         *)
(*                                                                         *)
(* Every home is one state directory with its own setup lock, custody lock *)
(* and authority; all of them share the account's installation: the        *)
(* profile's binding, the runtime files and the service.  A workload key   *)
(* names the agent the authority creates for it.  A process may die, or    *)
(* fail locally, between any two steps; a request may be lost before or    *)
(* after the authority applied it, arrive after its sender gave up, be     *)
(* refused, or be answered by a proxy with a 408, 425 or 429 that does not *)
(* say what the authority did.                                             *)
(***************************************************************************)
EXTENDS FiniteSets, Naturals

CONSTANTS
    Homes,          \* state homes of one account (--home)
    Keys,           \* workload keys that can be generated
    NoKey,          \* no key, no agent
    DeviceKey,      \* stands for the absent key of a device-only join
    NoHome,         \* nobody holds the runtime lock
    Proxied,        \* the requests, of {"join", "op"}, a proxy may answer
    MaxFaults       \* bound on lost, late and proxied requests and crashes

\* What the constants are assumed to be.
SetupAssumption ==
    /\ NoKey \notin Keys /\ DeviceKey \notin Keys /\ NoKey # DeviceKey
    /\ NoHome \notin Homes /\ MaxFaults \in Nat

VARIABLES
    pc,         \* where the setup process of a home stands, "idle" when none runs
    sel,        \* selectedAgentId, then the agent chosen
    current,    \* validateChoices saw an instance of the profile
    setupJ,     \* journal/setup.json: [open, agent]
    joinJ,      \* journal/join.json: the workload key it holds
    opJ,        \* journal/op-*.json of agent.create: the workload key it holds
    controller, \* owner/controller.json: its state
    keyFile,    \* agents with a workload-key.json
    agentFile,  \* agents with an agent.json
    cache,      \* cache/setup/<profile>.json: its agent
    invite,     \* what the invitation is for: "teammate" or "device"
    redeemed,   \* authority: the key the invitation was redeemed with
    standing,   \* authority: the controller's state
    created,    \* authority: the agents
    inflight,   \* requests <<kind, key>> not yet at the authority, their sender gone
    abandoned,  \* keys the user discarded with --abandon
    binding,    \* profiles-v1/profile-*.json: [home, agent]
    staged,     \* the runtime bundles and manifests are installed
    profiled,   \* headless-runtime-binding.json names the profile
    instance,   \* the profile's client instance is installed and enabled
    rtLock,     \* holder of client/.setup-runtime-lock
    faults

process == <<pc, sel, current>>
disk == <<setupJ, joinJ, opJ, controller, keyFile, agentFile, cache>>
authority == <<invite, redeemed, standing, created, inflight>>
account == <<binding, staged, profiled, instance, rtLock>>
setupVars == <<process, disk, authority, account, abandoned, faults>>

Unbound == [home |-> NoHome, agent |-> NoKey]

JoinStages == {"redeem", "redeemAgain", "saveOwner", "saveKey", "saveAgent", "joinDone"}
OpStages == {"create", "replay", "installKey", "installAgent", "opDone"}
\* The stages in which a setup process holds the custody lock.
Locked == JoinStages \cup (OpStages \ {"replay"})
RuntimeStages == {"bind", "stage", "headless", "service", "status"}
Stages == {"idle", "join", "session", "ops", "choose", "configure", "record"}
              \cup JoinStages \cup OpStages \cup RuntimeStages

SetupInit ==
    /\ pc = [h \in Homes |-> "idle"]
    /\ sel = [h \in Homes |-> NoKey]
    /\ current = [h \in Homes |-> FALSE]
    /\ setupJ = [h \in Homes |-> [open |-> FALSE, agent |-> NoKey]]
    /\ joinJ = [h \in Homes |-> NoKey]
    /\ opJ = [h \in Homes |-> NoKey]
    /\ controller = [h \in Homes |-> "none"]
    /\ keyFile = [h \in Homes |-> {}]
    /\ agentFile = [h \in Homes |-> {}]
    /\ cache = [h \in Homes |-> NoKey]
    /\ invite \in [Homes -> {"teammate", "device"}]
    /\ redeemed = [h \in Homes |-> NoKey]
    /\ standing = [h \in Homes |-> "none"]
    /\ created = [h \in Homes |-> {}]
    /\ inflight = [h \in Homes |-> {}]
    /\ abandoned = {}
    /\ binding = Unbound
    /\ staged = FALSE
    /\ profiled = FALSE
    /\ instance = FALSE
    /\ rtLock = NoHome
    /\ faults = 0

Goes(h, from, to) == pc[h] \in from /\ pc' = [pc EXCEPT ![h] = to]

Fault == faults < MaxFaults /\ faults' = faults + 1

\* A key never used before: generateEd25519.
Fresh(k) ==
    /\ \A h \in Homes :
          /\ k \notin keyFile[h] \cup created[h]
          /\ k # joinJ[h] /\ k # opJ[h]
          /\ \A r \in inflight[h] : r[2] # k
    /\ k \notin abandoned

-----------------------------------------------------------------------------
(* The authority (external): what it does with a request that reaches it.  *)

\* A redemption is repeated for the key it was made with and refused for
\* any other; a device invitation creates no agent.
CanRedeem(h, k) ==
    /\ redeemed[h] \in {NoKey, k}
    /\ (invite[h] = "device") = (k = DeviceKey)

Redeems(h, k) ==
    /\ redeemed' = [redeemed EXCEPT ![h] = k]
    /\ standing' = [standing EXCEPT ![h] = IF @ # "none" THEN @
                        ELSE IF k = DeviceKey THEN "pending" ELSE "active"]
    /\ created' = IF k = DeviceKey THEN created
                  ELSE [created EXCEPT ![h] = @ \cup {k}]

\* One agent per handle, and setup always asks for the profile's handle.
CanCreate(h, k) == standing[h] = "active" /\ created[h] \subseteq {k}

Creates(h, k) ==
    /\ created' = [created EXCEPT ![h] = @ \cup {k}]
    /\ UNCHANGED <<redeemed, standing>>

\* A request whose sender has given up reaches the authority after all.
Arrives(h) ==
    /\ \E r \in inflight[h] :
          /\ inflight' = [inflight EXCEPT ![h] = @ \ {r}]
          /\ \/ r[1] = "join" /\ CanRedeem(h, r[2]) /\ Redeems(h, r[2])
             \/ r[1] = "op" /\ CanCreate(h, r[2]) /\ Creates(h, r[2])
             \/ /\ ~ IF r[1] = "join" THEN CanRedeem(h, r[2]) ELSE CanCreate(h, r[2])
                /\ UNCHANGED <<redeemed, standing, created>>
    /\ UNCHANGED <<process, disk, invite, account, abandoned, faults>>

\* Another device of the owner approves this one.
Approve(h) ==
    /\ standing[h] = "pending"
    /\ standing' = [standing EXCEPT ![h] = "active"]
    /\ UNCHANGED <<process, disk, invite, redeemed, created, inflight, account, abandoned, faults>>

\* transport.request for a mutation: the authority is not asked, or the
\* answer is lost, or the request is still on its way (OutcomeUnknownError).
Lost(h, kind, k, admits, applies) ==
    /\ Fault
    /\ \/ admits /\ applies /\ UNCHANGED inflight
       \/ /\ inflight' = [inflight EXCEPT ![h] = @ \cup {<<kind, k>>}]
          /\ UNCHANGED <<redeemed, standing, created>>

\* A 408, 425 or 429 of a proxy, whatever the authority did.
ByProxy(kind, admits, applies) ==
    /\ kind \in Proxied
    /\ Fault
    /\ \/ admits /\ applies
       \/ UNCHANGED <<redeemed, standing, created>>
    /\ UNCHANGED inflight
-----------------------------------------------------------------------------
(* setup: choices, preflight and the setup journal.                        *)

\* validateChoices: a profile already bound is usable only from the home it
\* is bound to, with its key still there.
BindingServes(h) ==
    binding # Unbound => binding.home = h /\ binding.agent \in keyFile[h]

\* pending?.agentId ?? previous?.agentId, and the runtime's own answer.
Saved(h) == IF setupJ[h].agent # NoKey THEN setupJ[h].agent ELSE cache[h]

Selected(h) == IF binding # Unbound THEN binding.agent ELSE Saved(h)

Agree(h) ==
    /\ NoKey \in {setupJ[h].agent, cache[h]} \/ setupJ[h].agent = cache[h]
    /\ binding # Unbound =>
          Saved(h) \in {NoKey, binding.agent} /\ binding.agent \in agentFile[h]

StartSetup(h) ==
    /\ Goes(h, {"idle"}, "join")
    /\ BindingServes(h)
    /\ Agree(h)
    /\ sel' = [sel EXCEPT ![h] = Selected(h)]
    /\ setupJ' = [setupJ EXCEPT ![h] = [open |-> TRUE, agent |-> Selected(h)]]
    /\ UNCHANGED <<current, joinJ, opJ, controller, keyFile, agentFile, cache,
                   authority, account, abandoned, faults>>

\* An unfinished join goes first; a joined home skips the join.
EnterJoin(h) ==
    /\ \/ joinJ[h] # NoKey /\ Goes(h, {"join"}, "redeemAgain")
       \/ joinJ[h] = NoKey /\ controller[h] # "none" /\ Goes(h, {"join"}, "session")
    /\ UNCHANGED <<sel, current, disk, authority, account, abandoned, faults>>
-----------------------------------------------------------------------------
(* join and resumeJoin.                                                    *)

\* signAndSend: the keys and the signed request are on disk before the send.
Join(h) ==
    /\ joinJ[h] = NoKey /\ controller[h] = "none"
    /\ Goes(h, {"join"}, "redeem")
    /\ \E k \in Keys : Fresh(k) /\ joinJ' = [joinJ EXCEPT ![h] = k]
    /\ UNCHANGED <<sel, current, setupJ, opJ, controller, keyFile, agentFile, cache,
                   authority, account, abandoned, faults>>

RedeemAnswered(h) ==
    /\ Goes(h, {"redeem", "redeemAgain"}, "saveOwner")
    /\ CanRedeem(h, joinJ[h])
    /\ Redeems(h, joinJ[h])
    /\ UNCHANGED <<sel, current, disk, invite, inflight, account, abandoned, faults>>

\* OutcomeUnknownError: the journal stays for --resume.
RedeemLost(h) ==
    /\ Goes(h, {"redeem", "redeemAgain"}, "idle")
    /\ Lost(h, "join", joinJ[h], CanRedeem(h, joinJ[h]), Redeems(h, joinJ[h]))
    /\ UNCHANGED <<sel, current, disk, invite, account, abandoned>>

\* The journal after a refusal: join frees it for every 4xx, resumeJoin never.
JoinFreed(h) == IF pc[h] = "redeem" THEN NoKey ELSE joinJ[h]

\* A refusal of the authority; the first refusal of a device link is answered
\* by signing again without an agent, with a fresh challenge.
RedeemRefused(h) ==
    /\ ~CanRedeem(h, joinJ[h])
    /\ IF pc[h] = "redeem" /\ invite[h] = "device" /\ joinJ[h] # DeviceKey
       THEN /\ Goes(h, {"redeem"}, "redeem")
            /\ joinJ' = [joinJ EXCEPT ![h] = DeviceKey]
       ELSE /\ Goes(h, {"redeem", "redeemAgain"}, "idle")
            /\ joinJ' = [joinJ EXCEPT ![h] = JoinFreed(h)]
    /\ UNCHANGED <<sel, current, setupJ, opJ, controller, keyFile, agentFile, cache,
                   authority, account, abandoned, faults>>

RedeemByProxy(h) ==
    /\ Goes(h, {"redeem", "redeemAgain"}, "idle")
    /\ ByProxy("join", CanRedeem(h, joinJ[h]), Redeems(h, joinJ[h]))
    /\ joinJ' = [joinJ EXCEPT ![h] = JoinFreed(h)]
    /\ UNCHANGED <<sel, current, setupJ, opJ, controller, keyFile, agentFile, cache,
                   invite, account, abandoned>>

\* persistResult: authority and controller, then the key, then the agent.
SaveOwner(h) ==
    /\ Goes(h, {"saveOwner"}, IF joinJ[h] = DeviceKey THEN "joinDone" ELSE "saveKey")
    /\ controller' = [controller EXCEPT ![h] = standing[h]]
    /\ UNCHANGED <<sel, current, setupJ, joinJ, opJ, keyFile, agentFile, cache,
                   authority, account, abandoned, faults>>

\* Mutant: the journal is removed before the agent's key is installed.
SaveKey_Drops(h) ==
    /\ Goes(h, {"saveKey"}, "saveAgent")
    /\ joinJ' = [joinJ EXCEPT ![h] = NoKey]
    /\ UNCHANGED <<sel, current, setupJ, opJ, controller, keyFile, agentFile, cache,
                   authority, account, abandoned, faults>>

SaveKey(h) ==
    /\ Goes(h, {"saveKey"}, "saveAgent")
    /\ keyFile' = [keyFile EXCEPT ![h] = @ \cup {joinJ[h]}]
    /\ UNCHANGED <<sel, current, setupJ, joinJ, opJ, controller, agentFile, cache,
                   authority, account, abandoned, faults>>

SaveAgent(h) ==
    /\ Goes(h, {"saveAgent"}, "joinDone")
    /\ agentFile' = [agentFile EXCEPT ![h] = @ \cup {joinJ[h]}]
    /\ UNCHANGED <<sel, current, setupJ, joinJ, opJ, controller, keyFile, cache,
                   authority, account, abandoned, faults>>

JoinDone(h) ==
    /\ Goes(h, {"joinDone"}, "session")
    /\ joinJ' = [joinJ EXCEPT ![h] = NoKey]
    /\ UNCHANGED <<sel, current, setupJ, opJ, controller, keyFile, agentFile, cache,
                   authority, account, abandoned, faults>>
-----------------------------------------------------------------------------
(* The owner's session: approval, unfinished creations, a new agent.       *)

\* refreshController: a pending device asks; setup returns while it is pending.
Refresh(h) ==
    /\ controller[h] # "none"
    /\ \/ /\ "active" \in {controller[h], standing[h]}
          /\ Goes(h, {"session"}, "ops")
          /\ controller' = [controller EXCEPT ![h] = "active"]
       \/ /\ controller[h] = "pending" /\ standing[h] # "active"
          /\ Goes(h, {"session"}, "idle")
          /\ UNCHANGED controller
    /\ UNCHANGED <<sel, current, setupJ, joinJ, opJ, keyFile, agentFile, cache,
                   authority, account, abandoned, faults>>

\* An unfinished agent.create is replayed before anything is created.
ListOperations(h) ==
    /\ Goes(h, {"ops"}, IF opJ[h] # NoKey THEN "replay" ELSE "choose")
    /\ UNCHANGED <<sel, current, disk, authority, account, abandoned, faults>>

\* addAgent: a fresh key, signed and journaled before it is sent.  A selected
\* agent, or a local one, is never replaced.
AddAgent(h) ==
    /\ sel[h] = NoKey /\ agentFile[h] = {}
    /\ Goes(h, {"choose"}, "create")
    /\ \E k \in Keys : Fresh(k) /\ opJ' = [opJ EXCEPT ![h] = k]
    /\ UNCHANGED <<sel, current, setupJ, joinJ, controller, keyFile, agentFile, cache,
                   authority, account, abandoned, faults>>

CreateAnswered(h) ==
    /\ Goes(h, {"create", "replay"}, "installKey")
    /\ opJ[h] # NoKey /\ CanCreate(h, opJ[h])
    /\ Creates(h, opJ[h])
    /\ UNCHANGED <<sel, current, disk, invite, inflight, account, abandoned, faults>>

CreateLost(h) ==
    /\ Goes(h, {"create", "replay"}, "idle")
    /\ opJ[h] # NoKey
    /\ Lost(h, "op", opJ[h], CanCreate(h, opJ[h]), Creates(h, opJ[h]))
    /\ UNCHANGED <<sel, current, disk, invite, account, abandoned>>

\* sendJournaled: only a definitive refusal of the first send frees the entry;
\* a journal the user discarded meanwhile ends the replay.
CreateRefused(h) ==
    /\ opJ[h] # NoKey => ~CanCreate(h, opJ[h])
    /\ Goes(h, {"create", "replay"}, "idle")
    /\ opJ' = [opJ EXCEPT ![h] = IF pc[h] = "create" THEN NoKey ELSE @]
    /\ UNCHANGED <<sel, current, setupJ, joinJ, controller, keyFile, agentFile, cache,
                   authority, account, abandoned, faults>>

\* AMBIGUOUS_4XX: the entry is kept.
CreateByProxy(h) ==
    /\ Goes(h, {"create", "replay"}, "idle")
    /\ opJ[h] # NoKey
    /\ ByProxy("op", CanCreate(h, opJ[h]), Creates(h, opJ[h]))
    /\ UNCHANGED <<sel, current, disk, invite, account, abandoned>>

\* applyEffect: the key, then the agent; then the entry goes.
InstallKey(h) ==
    /\ Goes(h, {"installKey"}, "installAgent")
    /\ keyFile' = [keyFile EXCEPT ![h] = @ \cup {opJ[h]}]
    /\ UNCHANGED <<sel, current, setupJ, joinJ, opJ, controller, agentFile, cache,
                   authority, account, abandoned, faults>>

InstallAgent(h) ==
    /\ Goes(h, {"installAgent"}, "opDone")
    /\ agentFile' = [agentFile EXCEPT ![h] = @ \cup {opJ[h]}]
    /\ UNCHANGED <<sel, current, setupJ, joinJ, opJ, controller, keyFile, cache,
                   authority, account, abandoned, faults>>

OperationDone(h) ==
    /\ Goes(h, {"opDone"}, "choose")
    /\ opJ' = [opJ EXCEPT ![h] = NoKey]
    /\ UNCHANGED <<sel, current, setupJ, joinJ, controller, keyFile, agentFile, cache,
                   authority, account, abandoned, faults>>

\* The agent of this setup: the selected one or the local one of its handle;
\* its key must be here.  It goes into the setup journal before configure.
ChooseAgent(h) ==
    /\ \E a \in agentFile[h] \cap keyFile[h] :
          /\ sel[h] \in {NoKey, a}
          /\ Goes(h, {"choose"}, "configure")
          /\ sel' = [sel EXCEPT ![h] = a]
          /\ setupJ' = [setupJ EXCEPT ![h] = [open |-> TRUE, agent |-> a]]
    /\ UNCHANGED <<current, joinJ, opJ, controller, keyFile, agentFile, cache,
                   authority, account, abandoned, faults>>
-----------------------------------------------------------------------------
(* configure, under the account's runtime lock.                            *)

\* Mutant: configure relies on the preflight's look at the binding.
MayBind_Preflight(h) == TRUE

MayBind(h) == BindingServes(h) /\ binding.agent \in {NoKey, sel[h]}

EnterConfigure(h) ==
    /\ Goes(h, {"configure"}, "bind")
    /\ rtLock = NoHome
    /\ MayBind(h)
    /\ rtLock' = h
    /\ current' = [current EXCEPT ![h] = instance]
    /\ UNCHANGED <<sel, disk, authority, binding, staged, profiled, instance, abandoned, faults>>

\* The helper verifies the key with the authority and binds the profile.
Bind(h) ==
    /\ Goes(h, {"bind"}, "stage")
    /\ sel[h] \in created[h]
    /\ binding' = [home |-> h, agent |-> sel[h]]
    /\ UNCHANGED <<sel, current, disk, authority, staged, profiled, instance, rtLock, abandoned, faults>>

\* stageRuntimeBundle: a staging directory renamed to its content address,
\* then the manifest; repeated, it verifies what is there.
StageRuntimeBundle(h) ==
    /\ Goes(h, {"stage"}, "headless")
    /\ staged' = TRUE
    /\ UNCHANGED <<sel, current, disk, authority, binding, profiled, instance, rtLock, abandoned, faults>>

\* Mutant: the service is configured without its headless binding.
ConfigureHeadless_Skips(h) ==
    /\ Goes(h, {"headless"}, "service")
    /\ UNCHANGED <<sel, current, disk, authority, account, abandoned, faults>>

\* configureHeadless: installation.json and the runtime binding's profile.
ConfigureHeadless(h) ==
    /\ Goes(h, {"headless"}, "service")
    /\ profiled' = TRUE
    /\ UNCHANGED <<sel, current, disk, authority, binding, staged, instance, rtLock, abandoned, faults>>

\* agent add when the check saw no instance, else agent enable.
AddService(h) ==
    /\ ~current[h]
    /\ Goes(h, {"service"}, "status")
    /\ instance' = TRUE
    /\ UNCHANGED <<sel, current, disk, authority, binding, staged, profiled, rtLock, abandoned, faults>>

EnableService(h) ==
    /\ current[h] /\ instance
    /\ Goes(h, {"service"}, "status")
    /\ UNCHANGED <<sel, current, disk, authority, account, abandoned, faults>>

\* helper status and launchctl print agree that the service runs.
CheckService(h) ==
    /\ Goes(h, {"status"}, "record")
    /\ binding.agent = sel[h]
    /\ rtLock' = NoHome
    /\ UNCHANGED <<sel, current, disk, authority, binding, staged, profiled, instance, abandoned, faults>>

\* The choice is cached and the setup journal removed, in one custody lock.
Record(h) ==
    /\ Goes(h, {"record"}, "idle")
    /\ cache' = [cache EXCEPT ![h] = sel[h]]
    /\ setupJ' = [setupJ EXCEPT ![h] = [open |-> FALSE, agent |-> NoKey]]
    /\ UNCHANGED <<sel, current, joinJ, opJ, controller, keyFile, agentFile,
                   authority, account, abandoned, faults>>
-----------------------------------------------------------------------------
\* A crash, or any local failure: files stay, the kernel frees the locks.
Crash(h) ==
    /\ pc[h] # "idle"
    /\ Fault
    /\ pc' = [pc EXCEPT ![h] = "idle"]
    /\ rtLock' = IF rtLock = h THEN NoHome ELSE rtLock
    /\ UNCHANGED <<sel, current, disk, authority, binding, staged, profiled, instance, abandoned>>

\* setup stops where configure refuses: another home's binding, a busy lock.
ConfigureRefused(h) ==
    /\ Goes(h, {"configure"}, "idle")
    /\ rtLock # NoHome \/ ~MayBind(h)
    /\ UNCHANGED <<sel, current, disk, authority, account, abandoned, faults>>

\* `triangle join --abandon`: needs the custody lock, which a join holds.
AbandonJoin(h) ==
    /\ joinJ[h] # NoKey
    /\ pc[h] \notin Locked
    /\ abandoned' = abandoned \cup ({joinJ[h]} \ {DeviceKey})
    /\ joinJ' = [joinJ EXCEPT ![h] = NoKey]
    /\ UNCHANGED <<process, setupJ, opJ, controller, keyFile, agentFile, cache,
                   authority, account, faults>>

\* `triangle resume --abandon`: every journal but the join's, of a joined home.
AbandonOperations(h) ==
    /\ controller[h] # "none"
    /\ opJ[h] # NoKey \/ setupJ[h].open
    /\ pc[h] \notin Locked
    /\ abandoned' = abandoned \cup ({opJ[h]} \ {NoKey})
    /\ opJ' = [opJ EXCEPT ![h] = NoKey]
    /\ setupJ' = [setupJ EXCEPT ![h] = [open |-> FALSE, agent |-> NoKey]]
    /\ UNCHANGED <<process, joinJ, controller, keyFile, agentFile, cache,
                   authority, account, faults>>

SetupNext ==
    \E h \in Homes :
        \/ StartSetup(h) \/ EnterJoin(h)
        \/ Join(h) \/ RedeemAnswered(h) \/ RedeemLost(h) \/ RedeemRefused(h) \/ RedeemByProxy(h)
        \/ SaveOwner(h) \/ SaveKey(h) \/ SaveAgent(h) \/ JoinDone(h)
        \/ Refresh(h) \/ ListOperations(h) \/ AddAgent(h)
        \/ CreateAnswered(h) \/ CreateLost(h) \/ CreateRefused(h) \/ CreateByProxy(h)
        \/ InstallKey(h) \/ InstallAgent(h) \/ OperationDone(h) \/ ChooseAgent(h)
        \/ EnterConfigure(h) \/ ConfigureRefused(h) \/ Bind(h) \/ StageRuntimeBundle(h)
        \/ ConfigureHeadless(h) \/ AddService(h) \/ EnableService(h) \/ CheckService(h) \/ Record(h)
        \/ Crash(h) \/ AbandonJoin(h) \/ AbandonOperations(h)
        \/ Arrives(h) \/ Approve(h)

SetupSpec == SetupInit /\ [][SetupNext]_setupVars
-----------------------------------------------------------------------------
\* Keys and binding have their types.
SetupTypeOK ==
    /\ pc \in [Homes -> Stages]
    /\ sel \in [Homes -> Keys \cup {NoKey}]
    /\ joinJ \in [Homes -> Keys \cup {NoKey, DeviceKey}]
    /\ opJ \in [Homes -> Keys \cup {NoKey}]
    /\ binding \in [home : Homes \cup {NoHome}, agent : Keys \cup {NoKey}]

\* An agent the authority has created for this device has its workload key on
\* this device: in the journal entry that asked for it or installed, whatever
\* answers were lost, however late a request arrived and wherever the process
\* died - unless the user discarded that entry (join.mjs:150, session.mjs:106-113).
KeyIsKept ==
    \A h \in Homes : \A k \in created[h] :
        k \in keyFile[h] \cup {joinJ[h], opJ[h]} \cup abandoned

\* A profile once bound to an agent is never bound to another one, though two
\* homes with their own setup locks may set the same profile up at once
\* (setup-runtime.mjs:678-681 "No binding was changed").
BindingIsKept == [][binding # Unbound => binding' = binding]_setupVars

\* A service that was added for the profile has everything it starts with: a
\* bound agent whose key and record are on disk, the runtime bundle and the
\* runtime binding, in whatever order two setups and their crashes ran
\* (setup-runtime.mjs:694-727).
ServiceIsBacked ==
    instance => /\ staged /\ profiled
                /\ \E h \in Homes : /\ binding.home = h
                                    /\ binding.agent \in keyFile[h] \cap agentFile[h] \cap created[h]
=============================================================================
