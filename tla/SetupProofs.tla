---------------------------- MODULE SetupProofs -----------------------------
(***************************************************************************)
(* Commands of an owner and requests of a peer against an authority that   *)
(* may lose, delay or refuse them, for every set of homes, keys, writers,  *)
(* requests and messages and every bound.                                  *)
(*                                                                         *)
(* The guided setup: a key leaves its journal only where nobody has heard  *)
(* of it or where it is installed (KeysOK), which the journal, the files,  *)
(* the authority and the requests on their way must be looked at together  *)
(* for; and what configure writes rests on its lock, so the account is     *)
(* described home by home (AtAccount).                                     *)
(*                                                                         *)
(* The progress journal: a snapshot that is read under the lock lacks no   *)
(* evidence until it is written.                                           *)
(*                                                                         *)
(* The A2A gateway: the last message a projection looks up is not before   *)
(* the message the request posted (AnswerOK), and the cache holds no token *)
(* as old as a refused one (TokenOK).                                      *)
(***************************************************************************)
EXTENDS MCSetup, Sequences, TLAPS

\* The authority has not heard of key k, and no request on its way names it.
Unsent(k, made, way) == k = DeviceKey \/ (k \notin made /\ \A r \in way : r[2] # k)

\* The journals J and O of a home whose process stands at p, the agents `made`
\* for it, the requests on their way and the keys K installed or discarded:
\* a key is dropped only where nobody has heard of it or it is installed.
KeysOK(p, J, O, made, way, K) ==
  /\ J \in Keys \cup {NoKey, DeviceKey} /\ O \in Keys \cup {NoKey} /\ made \subseteq Keys
  /\ \A r \in way : r[2] \in Keys \/ (r[2] = DeviceKey /\ r[1] # "op")
  /\ "join" \notin Proxied => /\ \A k \in made : k \in K \cup {J, O}
                             /\ \A r \in way : r[2] = DeviceKey \/ r[2] \in K \cup {J, O}
  /\ p \in JoinStages => J # NoKey
  /\ p = "redeem" => Unsent(J, made, way)
  /\ p = "create" => O # NoKey /\ Unsent(O, made, way)
  /\ p = "installKey" => O # NoKey
  /\ p = "choose" => O = NoKey
  /\ p = "saveAgent" => J \in K
  /\ p = "joinDone" => J \in K \cup {DeviceKey}
  /\ p \in {"installAgent", "opDone"} => O \in K

HomeOK(h) == KeysOK(pc[h], joinJ[h], opJ[h], created[h], inflight[h], keyFile[h] \cup abandoned)

Bound(h, S) == [home |-> h, agent |-> S]

\* The chosen agent is on disk from its choice on.
ChoiceOK(p, S, files) == p \in RuntimeStages \cup {"configure", "record"} => S \in files

\* A bound agent was made by the authority and is on disk.
BindingOK ==
  binding = Unbound \/
    \E h \in Homes : \E a \in keyFile[h] \cap agentFile[h] \cap created[h] : binding = Bound(h, a)

SetupShape ==
  /\ pc = [h \in Homes |-> pc[h]] /\ sel = [h \in Homes |-> sel[h]]
  /\ joinJ = [h \in Homes |-> joinJ[h]] /\ opJ = [h \in Homes |-> opJ[h]]
  /\ keyFile = [h \in Homes |-> keyFile[h]] /\ agentFile = [h \in Homes |-> agentFile[h]]
  /\ created = [h \in Homes |-> created[h]] /\ inflight = [h \in Homes |-> inflight[h]]

KeysInv == \A h \in Homes : HomeOK(h)

AccountInv ==
  /\ \A h \in Homes : /\ ChoiceOK(pc[h], sel[h], keyFile[h] \cap agentFile[h])
                      /\ pc[h] \in RuntimeStages => rtLock = h
                      /\ pc[h] = "bind" => binding = Unbound \/ binding = Bound(h, sel[h])
                      /\ pc[h] \in {"stage", "headless", "service", "status"} =>
                           binding = Bound(h, sel[h]) /\ sel[h] \in created[h]
                      /\ pc[h] \in {"headless", "service", "status"} => staged
                      /\ pc[h] \in {"service", "status"} => profiled
  /\ BindingOK
  /\ instance => staged /\ profiled /\ binding # Unbound

SetupInv == SetupShape /\ KeysInv /\ AccountInv

\* The markers are no keys and no homes.
LEMMA KeyConstants == NoKey \notin Keys /\ DeviceKey \notin Keys /\ NoKey # DeviceKey /\ NoHome \notin Homes
  BY SetupConstants DEF SetupAssumption

\* A device nobody has set up.
LEMMA SetupInitially == SetupInit => SetupInv
<1> SUFFICES ASSUME SetupInit PROVE SetupInv
  OBVIOUS
<1>1. SetupShape
  BY DEF SetupInit, SetupShape
<1>2. KeysInv
  BY DEF SetupInit, KeysInv, HomeOK, KeysOK, JoinStages
<1>3. AccountInv
  BY DEF SetupInit, AccountInv, ChoiceOK, RuntimeStages, BindingOK
<1> QED BY <1>1, <1>2, <1>3 DEF SetupInv

\* A step of one home h, with the state it leaves behind: only its own entries
\* change, and what the user discarded is never taken back.
Moves(h, p, S, J, O, K, A, made, way) ==
  /\ pc' = [pc EXCEPT ![h] = p] /\ sel' = [sel EXCEPT ![h] = S]
  /\ joinJ' = [joinJ EXCEPT ![h] = J] /\ opJ' = [opJ EXCEPT ![h] = O]
  /\ keyFile' = [keyFile EXCEPT ![h] = K] /\ agentFile' = [agentFile EXCEPT ![h] = A]
  /\ created' = [created EXCEPT ![h] = made] /\ inflight' = [inflight EXCEPT ![h] = way]

\* The entries after such a step.
Moved(h, p, S, J, O, K, A, made, way) ==
  /\ SetupShape'
  /\ pc'[h] = p /\ sel'[h] = S /\ joinJ'[h] = J /\ opJ'[h] = O /\ keyFile'[h] = K /\ agentFile'[h] = A
  /\ created'[h] = made /\ inflight'[h] = way
  /\ \A g \in Homes \ {h} :
       /\ pc'[g] = pc[g] /\ sel'[g] = sel[g] /\ joinJ'[g] = joinJ[g] /\ opJ'[g] = opJ[g]
       /\ keyFile'[g] = keyFile[g] /\ agentFile'[g] = agentFile[g]
       /\ created'[g] = created[g] /\ inflight'[g] = inflight[g]

\* What a step of one home leaves of every home.
LEMMA MovedShape ==
  ASSUME SetupShape, NEW h \in Homes, NEW p, NEW S, NEW J, NEW O, NEW K, NEW A, NEW made, NEW way,
         Moves(h, p, S, J, O, K, A, made, way)
  PROVE  Moved(h, p, S, J, O, K, A, made, way)
<1>1. SetupShape'
  BY DEF SetupShape, Moves
<1>2. /\ pc'[h] = p /\ sel'[h] = S /\ joinJ'[h] = J /\ opJ'[h] = O /\ keyFile'[h] = K /\ agentFile'[h] = A
      /\ created'[h] = made /\ inflight'[h] = way
  BY DEF SetupShape, Moves
<1>3. ASSUME NEW g \in Homes, g # h
      PROVE  /\ pc'[g] = pc[g] /\ sel'[g] = sel[g] /\ joinJ'[g] = joinJ[g] /\ opJ'[g] = opJ[g]
             /\ keyFile'[g] = keyFile[g] /\ agentFile'[g] = agentFile[g]
             /\ created'[g] = created[g] /\ inflight'[g] = inflight[g]
  BY <1>3 DEF SetupShape, Moves
<1> QED BY <1>1, <1>2, <1>3 DEF Moved

\* More keys discarded or installed do no harm.
LEMMA KeysGrow ==
  ASSUME NEW p, NEW J, NEW O, NEW made, NEW way, NEW K, NEW L, K \subseteq L, KeysOK(p, J, O, made, way, K)
  PROVE  KeysOK(p, J, O, made, way, L)
  BY DEF KeysOK

\* A step whose own home is well leaves every home well.
LEMMA KeysMove ==
  ASSUME SetupInv, NEW h \in Homes, NEW p, NEW S, NEW J, NEW O, NEW K, NEW A, NEW made, NEW way,
         Moves(h, p, S, J, O, K, A, made, way), abandoned \subseteq abandoned',
         KeysOK(p, J, O, made, way, K \cup abandoned')
  PROVE  KeysInv'
<1>0. Moved(h, p, S, J, O, K, A, made, way) /\ SetupInv
  BY MovedShape DEF SetupInv
<1> USE <1>0 DEF Moved, SetupInv
<1> SUFFICES ASSUME NEW g \in Homes
             PROVE  KeysOK(pc'[g], joinJ'[g], opJ'[g], created'[g], inflight'[g], keyFile'[g] \cup abandoned')
  BY DEF KeysInv, HomeOK
<1>1. CASE g = h
  BY <1>1
<1>2. CASE g # h
  <2>1. KeysOK(pc[g], joinJ[g], opJ[g], created[g], inflight[g], keyFile[g] \cup abandoned)
    BY DEF KeysInv, HomeOK
  <2>2. keyFile[g] \cup abandoned \subseteq keyFile[g] \cup abandoned'
    OBVIOUS
  <2>3. KeysOK(pc[g], joinJ[g], opJ[g], created[g], inflight[g], keyFile[g] \cup abandoned')
    BY <2>1, <2>2, KeysGrow
  <2> QED BY <1>2, <2>3
<1> QED BY <1>1, <1>2

\* Outside configure nothing of the account changes, and files only come.
LEMMA AccountStays ==
  ASSUME SetupInv, NEW h \in Homes, NEW p, NEW S, NEW J, NEW O, NEW K, NEW A, NEW made, NEW way,
         Moves(h, p, S, J, O, K, A, made, way), UNCHANGED <<binding, staged, profiled, instance, rtLock>>,
         \/ p \notin RuntimeStages \cup {"configure", "record"}
         \/ p = "configure" /\ S \in K \cap A
         \/ p = pc[h] /\ S = sel[h],
         keyFile[h] \subseteq K, agentFile[h] \subseteq A, created[h] \subseteq made
  PROVE  AccountInv'
<1>0. Moved(h, p, S, J, O, K, A, made, way) /\ SetupInv
  BY MovedShape DEF SetupInv
<1> USE <1>0 DEF Moved, SetupInv
<1>1. BindingOK'
  <2>1. CASE binding = Unbound
    BY <2>1 DEF BindingOK
  <2>2. CASE binding # Unbound
    <3>0. PICK g \in Homes : \E a \in keyFile[g] \cap agentFile[g] \cap created[g] : binding = Bound(g, a)
      BY <2>2 DEF AccountInv, BindingOK
    <3>1. PICK a \in keyFile[g] \cap agentFile[g] \cap created[g] : binding = Bound(g, a)
      BY <3>0
    <3>2. a \in keyFile'[g] \cap agentFile'[g] \cap created'[g]
      BY <3>1
    <3> QED BY <3>1, <3>2 DEF BindingOK
  <2> QED BY <2>1, <2>2
<1>2. ASSUME NEW g \in Homes
      PROVE /\ ChoiceOK(pc'[g], sel'[g], keyFile'[g] \cap agentFile'[g])
            /\ pc'[g] \in RuntimeStages => rtLock = g
            /\ pc'[g] = "bind" => binding = Unbound \/ binding = Bound(g, sel'[g])
            /\ pc'[g] \in {"stage", "headless", "service", "status"} =>
                 binding = Bound(g, sel'[g]) /\ sel'[g] \in created'[g]
            /\ pc'[g] \in {"headless", "service", "status"} => staged
            /\ pc'[g] \in {"service", "status"} => profiled
  <2>0. /\ ChoiceOK(pc[g], sel[g], keyFile[g] \cap agentFile[g])
        /\ pc[g] \in RuntimeStages => rtLock = g
        /\ pc[g] = "bind" => binding = Unbound \/ binding = Bound(g, sel[g])
        /\ pc[g] \in {"stage", "headless", "service", "status"} =>
             binding = Bound(g, sel[g]) /\ sel[g] \in created[g]
        /\ pc[g] \in {"headless", "service", "status"} => staged
        /\ pc[g] \in {"service", "status"} => profiled
    BY DEF AccountInv
  <2>1. CASE g # h
    BY <2>0, <2>1
  <2>2. CASE g = h /\ p = pc[h] /\ S = sel[h]
    BY <2>0, <2>2 DEF ChoiceOK
  <2>3. CASE g = h /\ ~(p = pc[h] /\ S = sel[h])
    BY <2>3 DEF ChoiceOK, RuntimeStages
  <2> QED BY <2>1, <2>2, <2>3
<1> QED BY <1>1, <1>2 DEF AccountInv

\* A step outside configure.
LEMMA HomeStep ==
  ASSUME SetupInv, NEW h \in Homes, NEW p, NEW S, NEW J, NEW O, NEW K, NEW A, NEW made, NEW way,
         Moves(h, p, S, J, O, K, A, made, way), UNCHANGED <<binding, staged, profiled, instance, rtLock>>,
         \/ p \notin RuntimeStages \cup {"configure", "record"}
         \/ p = "configure" /\ S \in K \cap A
         \/ p = pc[h] /\ S = sel[h],
         keyFile[h] \subseteq K, agentFile[h] \subseteq A, created[h] \subseteq made,
         abandoned \subseteq abandoned', KeysOK(p, J, O, made, way, K \cup abandoned')
  PROVE  SetupInv'
<1>1. SetupShape'
  BY MovedShape DEF SetupInv, Moved
<1>2. KeysInv'
  BY KeysMove
<1>3. AccountInv'
  BY AccountStays
<1> QED BY <1>1, <1>2, <1>3 DEF SetupInv

\* A variable that does not change, as a step of home h.
LEMMA SameEntry ==
  ASSUME SetupShape, NEW h \in Homes
  PROVE  /\ pc = [pc EXCEPT ![h] = pc[h]] /\ sel = [sel EXCEPT ![h] = sel[h]]
         /\ joinJ = [joinJ EXCEPT ![h] = joinJ[h]] /\ opJ = [opJ EXCEPT ![h] = opJ[h]]
         /\ keyFile = [keyFile EXCEPT ![h] = keyFile[h]] /\ agentFile = [agentFile EXCEPT ![h] = agentFile[h]]
         /\ created = [created EXCEPT ![h] = created[h]] /\ inflight = [inflight EXCEPT ![h] = inflight[h]]
  BY DEF SetupShape

\* The stages in which nothing is asked of the journals.
Plain == {"idle", "join", "session", "ops", "replay", "configure", "record"} \cup RuntimeStages

\* A process that waits for nothing asks nothing of the journals.
LEMMA PlainOK ==
  ASSUME NEW p \in Plain, NEW q, NEW J, NEW O, NEW made, NEW way, NEW K, KeysOK(q, J, O, made, way, K)
  PROVE  KeysOK(p, J, O, made, way, K)
  BY DEF KeysOK, Plain, RuntimeStages, JoinStages

\* The process goes on, and no journal, key or request changes.
LEMMA ProcessStep ==
  ASSUME SetupInv, NEW h \in Homes, NEW p, NEW S, pc' = [pc EXCEPT ![h] = p], sel' = [sel EXCEPT ![h] = S],
         UNCHANGED <<joinJ, opJ, keyFile, agentFile, created, inflight, abandoned>>,
         UNCHANGED <<binding, staged, profiled, instance, rtLock>>,
         \/ p \notin RuntimeStages \cup {"configure", "record"}
         \/ p = "configure" /\ S \in keyFile[h] \cap agentFile[h],
         p \in Plain \/ KeysOK(p, joinJ[h], opJ[h], created[h], inflight[h], keyFile[h] \cup abandoned)
  PROVE  SetupInv'
<1>1. SetupShape /\ KeysOK(pc[h], joinJ[h], opJ[h], created[h], inflight[h], keyFile[h] \cup abandoned)
  BY DEF SetupInv, KeysInv, HomeOK
<1>2. Moves(h, p, S, joinJ[h], opJ[h], keyFile[h], agentFile[h], created[h], inflight[h])
  BY <1>1, SameEntry DEF Moves
<1>3. KeysOK(p, joinJ[h], opJ[h], created[h], inflight[h], keyFile[h] \cup abandoned')
  BY <1>1, PlainOK
<1> QED BY <1>2, <1>3, HomeStep

\* Preflight selects an agent and opens the setup journal.
LEMMA StartSetupOK ==
  ASSUME SetupInv, NEW h \in Homes, StartSetup(h) PROVE SetupInv'
<1>1. /\ pc' = [pc EXCEPT ![h] = "join"] /\ sel' = [sel EXCEPT ![h] = Selected(h)]
      /\ UNCHANGED <<joinJ, opJ, keyFile, agentFile, created, inflight, abandoned>>
      /\ UNCHANGED <<binding, staged, profiled, instance, rtLock>>
  BY DEF StartSetup, Goes, authority, account
<1> QED BY <1>1, ProcessStep DEF Plain, RuntimeStages

\* An unfinished join goes first, and a joined home skips it.
LEMMA EnterJoinOK ==
  ASSUME SetupInv, NEW h \in Homes, EnterJoin(h) PROVE SetupInv'
<1>0. SetupShape /\ KeysOK(pc[h], joinJ[h], opJ[h], created[h], inflight[h], keyFile[h] \cup abandoned)
  BY DEF SetupInv, KeysInv, HomeOK
<1>1. PICK p \in {"redeemAgain", "session"} :
        pc' = [pc EXCEPT ![h] = p] /\ (p = "redeemAgain" => joinJ[h] # NoKey)
  BY DEF EnterJoin, Goes
<1>2. /\ sel' = [sel EXCEPT ![h] = sel[h]] /\ UNCHANGED <<joinJ, opJ, keyFile, agentFile, created, inflight, abandoned>>
      /\ UNCHANGED <<binding, staged, profiled, instance, rtLock>>
  BY <1>0, SameEntry DEF EnterJoin, disk, authority, account
<1>3. p \in Plain \/ KeysOK(p, joinJ[h], opJ[h], created[h], inflight[h], keyFile[h] \cup abandoned)
  BY <1>0, <1>1 DEF KeysOK, JoinStages, Plain
<1> QED BY <1>1, <1>2, <1>3, ProcessStep DEF RuntimeStages

\* A fresh key is in the join journal before anybody has heard of it.
LEMMA JoinOK ==
  ASSUME SetupInv, NEW h \in Homes, Join(h) PROVE SetupInv'
<1>0. SetupShape /\ KeysOK(pc[h], joinJ[h], opJ[h], created[h], inflight[h], keyFile[h] \cup abandoned)
  BY DEF SetupInv, KeysInv, HomeOK
<1>1. PICK k \in Keys : Fresh(k) /\ joinJ' = [joinJ EXCEPT ![h] = k]
  BY DEF Join
<1>2. joinJ[h] = NoKey /\ pc' = [pc EXCEPT ![h] = "redeem"] /\ k \notin created[h] /\ \A r \in inflight[h] : r[2] # k
  BY <1>1 DEF Join, Goes, Fresh
<1>3. /\ UNCHANGED <<opJ, keyFile, agentFile, created, inflight, abandoned, sel>>
      /\ UNCHANGED <<binding, staged, profiled, instance, rtLock>>
  BY DEF Join, authority, account
<1>4. Moves(h, "redeem", sel[h], k, opJ[h], keyFile[h], agentFile[h], created[h], inflight[h])
  BY <1>0, <1>1, <1>2, <1>3, SameEntry DEF Moves
<1>5. KeysOK("redeem", k, opJ[h], created[h], inflight[h], keyFile[h] \cup abandoned')
  BY <1>0, <1>2, <1>3, KeyConstants DEF KeysOK, Unsent
<1> QED BY <1>3, <1>4, <1>5, HomeStep DEF RuntimeStages

\* What a redemption does at the authority.
LEMMA RedeemsMakes ==
  ASSUME SetupInv, NEW h \in Homes, NEW k \in Keys \cup {DeviceKey}, Redeems(h, k)
  PROVE  \E made : /\ created' = [created EXCEPT ![h] = made]
                   /\ made = created[h] \cup ({k} \ {DeviceKey}) /\ made \subseteq Keys
<1>1. SetupShape /\ KeysOK(pc[h], joinJ[h], opJ[h], created[h], inflight[h], keyFile[h] \cup abandoned)
  BY DEF SetupInv, KeysInv, HomeOK
<1>2. created[h] \subseteq Keys
  BY <1>1 DEF KeysOK
<1>3. CASE k = DeviceKey
  <2>1. created' = [created EXCEPT ![h] = created[h]] /\ created[h] = created[h] \cup ({k} \ {DeviceKey})
    BY <1>1, <1>3, SameEntry DEF Redeems
  <2> QED BY <1>2, <2>1
<1>4. CASE k # DeviceKey
  <2>1. created' = [created EXCEPT ![h] = created[h] \cup {k}]
    BY <1>4 DEF Redeems
  <2>2. created[h] \cup {k} = created[h] \cup ({k} \ {DeviceKey})
    BY <1>4
  <2> QED BY <1>2, <1>4, <2>1, <2>2
<1> QED BY <1>3, <1>4

\* The same for the process that asks: the key is the one of its journal.
LEMMA RedeemsIs ==
  ASSUME SetupInv, NEW h \in Homes, pc[h] \in {"redeem", "redeemAgain"}, Redeems(h, joinJ[h])
  PROVE  \E made : /\ created' = [created EXCEPT ![h] = made]
                   /\ made = created[h] \cup ({joinJ[h]} \ {DeviceKey}) /\ made \subseteq Keys
<1>1. KeysOK(pc[h], joinJ[h], opJ[h], created[h], inflight[h], keyFile[h] \cup abandoned)
  BY DEF SetupInv, KeysInv, HomeOK
<1>2. joinJ[h] \in Keys \cup {DeviceKey}
  BY <1>1 DEF KeysOK, JoinStages
<1> QED BY <1>2, RedeemsMakes

\* The agent made by the redemption is the one of the join journal.
LEMMA RedeemAnsweredOK ==
  ASSUME SetupInv, NEW h \in Homes, RedeemAnswered(h) PROVE SetupInv'
<1>0. SetupShape /\ KeysOK(pc[h], joinJ[h], opJ[h], created[h], inflight[h], keyFile[h] \cup abandoned)
  BY DEF SetupInv, KeysInv, HomeOK
<1>1. /\ pc' = [pc EXCEPT ![h] = "saveOwner"] /\ pc[h] \in {"redeem", "redeemAgain"} /\ Redeems(h, joinJ[h])
      /\ UNCHANGED <<sel, joinJ, opJ, keyFile, agentFile, inflight, abandoned>>
      /\ UNCHANGED <<binding, staged, profiled, instance, rtLock>>
  BY DEF RedeemAnswered, Goes, disk, account
<1>2. PICK made : /\ created' = [created EXCEPT ![h] = made]
                  /\ made = created[h] \cup ({joinJ[h]} \ {DeviceKey}) /\ made \subseteq Keys
  BY <1>1, RedeemsIs
<1>3. Moves(h, "saveOwner", sel[h], joinJ[h], opJ[h], keyFile[h], agentFile[h], made, inflight[h])
  BY <1>0, <1>1, <1>2, SameEntry DEF Moves
<1>4. KeysOK("saveOwner", joinJ[h], opJ[h], made, inflight[h], keyFile[h] \cup abandoned')
  BY <1>0, <1>1, <1>2 DEF KeysOK, JoinStages
<1>5. created[h] \subseteq made
  BY <1>2
<1> QED BY <1>1, <1>3, <1>4, <1>5, HomeStep DEF RuntimeStages

\* A redemption without an answer keeps its journal.
LEMMA RedeemLostOK ==
  ASSUME SetupInv, NEW h \in Homes, RedeemLost(h) PROVE SetupInv'
<1>0. SetupShape /\ KeysOK(pc[h], joinJ[h], opJ[h], created[h], inflight[h], keyFile[h] \cup abandoned)
  BY DEF SetupInv, KeysInv, HomeOK
<1>1. /\ pc' = [pc EXCEPT ![h] = "idle"] /\ pc[h] \in {"redeem", "redeemAgain"}
      /\ UNCHANGED <<sel, joinJ, opJ, keyFile, agentFile, abandoned>>
      /\ UNCHANGED <<binding, staged, profiled, instance, rtLock>>
  BY DEF RedeemLost, Goes, disk, account
<1>2. CASE Redeems(h, joinJ[h]) /\ UNCHANGED inflight
  <2>2. PICK made : /\ created' = [created EXCEPT ![h] = made]
                    /\ made = created[h] \cup ({joinJ[h]} \ {DeviceKey}) /\ made \subseteq Keys
    BY <1>1, <1>2, RedeemsIs
  <2>3. Moves(h, "idle", sel[h], joinJ[h], opJ[h], keyFile[h], agentFile[h], made, inflight[h])
    BY <1>0, <1>1, <1>2, <2>2, SameEntry DEF Moves
  <2>4. KeysOK("idle", joinJ[h], opJ[h], made, inflight[h], keyFile[h] \cup abandoned')
    BY <1>0, <1>1, <2>2 DEF KeysOK, JoinStages
  <2>5. created[h] \subseteq made
    BY <2>2
  <2> QED BY <1>1, <2>3, <2>4, <2>5, HomeStep DEF RuntimeStages
<1>3. CASE inflight' = [inflight EXCEPT ![h] = @ \cup {<<"join", joinJ[h]>>}] /\ UNCHANGED created
  <2> DEFINE way == inflight[h] \cup {<<"join", joinJ[h]>>}
  <2>1. Moves(h, "idle", sel[h], joinJ[h], opJ[h], keyFile[h], agentFile[h], created[h], way)
    BY <1>0, <1>1, <1>3, SameEntry DEF Moves
  <2>2. KeysOK("idle", joinJ[h], opJ[h], created[h], way, keyFile[h] \cup abandoned')
    BY <1>0, <1>1 DEF KeysOK, JoinStages
  <2> HIDE DEF way
  <2> QED BY <1>1, <2>1, <2>2, HomeStep DEF RuntimeStages
<1> QED BY <1>2, <1>3 DEF RedeemLost, Lost

\* A journal freed after a refusal held a key nobody has heard of.
LEMMA RedeemRefusedOK ==
  ASSUME SetupInv, NEW h \in Homes, RedeemRefused(h) PROVE SetupInv'
<1>0. SetupShape /\ KeysOK(pc[h], joinJ[h], opJ[h], created[h], inflight[h], keyFile[h] \cup abandoned)
  BY DEF SetupInv, KeysInv, HomeOK
<1>1. /\ UNCHANGED <<sel, opJ, keyFile, agentFile, created, inflight, abandoned>>
      /\ UNCHANGED <<binding, staged, profiled, instance, rtLock>>
  BY DEF RedeemRefused, authority, account
<1>2. CASE pc[h] = "redeem" /\ pc' = [pc EXCEPT ![h] = "redeem"] /\ joinJ' = [joinJ EXCEPT ![h] = DeviceKey]
  <2>1. Moves(h, "redeem", sel[h], DeviceKey, opJ[h], keyFile[h], agentFile[h], created[h], inflight[h])
    BY <1>0, <1>1, <1>2, SameEntry DEF Moves
  <2>2. KeysOK("redeem", DeviceKey, opJ[h], created[h], inflight[h], keyFile[h] \cup abandoned')
    BY <1>0, <1>1, <1>2, KeyConstants DEF KeysOK, JoinStages, Unsent
  <2> QED BY <1>1, <2>1, <2>2, HomeStep DEF RuntimeStages
<1>3. CASE /\ pc[h] \in {"redeem", "redeemAgain"} /\ pc' = [pc EXCEPT ![h] = "idle"]
           /\ joinJ' = [joinJ EXCEPT ![h] = JoinFreed(h)]
  <2> DEFINE J == JoinFreed(h)
  <2>1. Moves(h, "idle", sel[h], J, opJ[h], keyFile[h], agentFile[h], created[h], inflight[h])
    BY <1>0, <1>1, <1>3, SameEntry DEF Moves
  <2>2. KeysOK("idle", J, opJ[h], created[h], inflight[h], keyFile[h] \cup abandoned')
    BY <1>0, <1>1, <1>3, KeyConstants DEF KeysOK, JoinStages, Unsent, JoinFreed
  <2> HIDE DEF J
  <2> QED BY <1>1, <2>1, <2>2, HomeStep DEF RuntimeStages
<1> QED BY <1>2, <1>3 DEF RedeemRefused, Goes

\* A 4xx of a proxy frees the journal of the first send: nothing is claimed
\* of the keys where a proxy may answer a join.
LEMMA RedeemByProxyOK ==
  ASSUME SetupInv, NEW h \in Homes, RedeemByProxy(h) PROVE SetupInv'
<1>0. SetupShape /\ KeysOK(pc[h], joinJ[h], opJ[h], created[h], inflight[h], keyFile[h] \cup abandoned)
  BY DEF SetupInv, KeysInv, HomeOK
<1> DEFINE J == JoinFreed(h)
<1>1. /\ pc' = [pc EXCEPT ![h] = "idle"] /\ pc[h] \in {"redeem", "redeemAgain"} /\ "join" \in Proxied
      /\ joinJ' = [joinJ EXCEPT ![h] = J]
      /\ UNCHANGED <<sel, opJ, keyFile, agentFile, inflight, abandoned>>
      /\ UNCHANGED <<binding, staged, profiled, instance, rtLock>>
  BY DEF RedeemByProxy, ByProxy, Goes, account
<1>2. PICK made : created' = [created EXCEPT ![h] = made] /\ made \subseteq Keys /\ created[h] \subseteq made
  <2>1. CASE Redeems(h, joinJ[h])
    <3>1. PICK made : /\ created' = [created EXCEPT ![h] = made]
                      /\ made = created[h] \cup ({joinJ[h]} \ {DeviceKey}) /\ made \subseteq Keys
      BY <1>1, <2>1, RedeemsIs
    <3> QED BY <3>1
  <2>2. CASE UNCHANGED created
    <3>1. created' = [created EXCEPT ![h] = created[h]] /\ created[h] \subseteq Keys
      BY <1>0, <2>2, SameEntry DEF KeysOK
    <3> QED BY <3>1
  <2> QED BY <2>1, <2>2 DEF RedeemByProxy, ByProxy
<1>3. Moves(h, "idle", sel[h], J, opJ[h], keyFile[h], agentFile[h], made, inflight[h])
  BY <1>0, <1>1, <1>2, SameEntry DEF Moves
<1>4. KeysOK("idle", J, opJ[h], made, inflight[h], keyFile[h] \cup abandoned')
  BY <1>0, <1>1, <1>2 DEF KeysOK, JoinStages, JoinFreed
<1> HIDE DEF J
<1> QED BY <1>1, <1>2, <1>3, <1>4, HomeStep DEF RuntimeStages

\* The owner is saved; the key is still in the journal.
LEMMA SaveOwnerOK ==
  ASSUME SetupInv, NEW h \in Homes, SaveOwner(h) PROVE SetupInv'
<1>0. SetupShape /\ KeysOK(pc[h], joinJ[h], opJ[h], created[h], inflight[h], keyFile[h] \cup abandoned)
  BY DEF SetupInv, KeysInv, HomeOK
<1> DEFINE p == IF joinJ[h] = DeviceKey THEN "joinDone" ELSE "saveKey"
<1>1. /\ pc' = [pc EXCEPT ![h] = p] /\ pc[h] = "saveOwner"
      /\ sel' = [sel EXCEPT ![h] = sel[h]] /\ UNCHANGED <<joinJ, opJ, keyFile, agentFile, created, inflight, abandoned>>
      /\ UNCHANGED <<binding, staged, profiled, instance, rtLock>>
  BY <1>0, SameEntry DEF SaveOwner, Goes, authority, account
<1>2. KeysOK(p, joinJ[h], opJ[h], created[h], inflight[h], keyFile[h] \cup abandoned)
  BY <1>0, <1>1 DEF KeysOK, JoinStages
<1>3. p \notin RuntimeStages \cup {"configure", "record"}
  BY DEF RuntimeStages
<1> HIDE DEF p
<1> QED BY <1>1, <1>2, <1>3, ProcessStep

\* The key is installed from the journal.
LEMMA SaveKeyOK ==
  ASSUME SetupInv, NEW h \in Homes, SaveKey(h) PROVE SetupInv'
<1>0. SetupShape /\ KeysOK(pc[h], joinJ[h], opJ[h], created[h], inflight[h], keyFile[h] \cup abandoned)
  BY DEF SetupInv, KeysInv, HomeOK
<1> DEFINE K == keyFile[h] \cup {joinJ[h]}
<1>1. /\ pc' = [pc EXCEPT ![h] = "saveAgent"] /\ pc[h] = "saveKey" /\ keyFile' = [keyFile EXCEPT ![h] = K]
      /\ UNCHANGED <<sel, joinJ, opJ, agentFile, created, inflight, abandoned>>
      /\ UNCHANGED <<binding, staged, profiled, instance, rtLock>>
  BY DEF SaveKey, Goes, authority, account
<1>2. Moves(h, "saveAgent", sel[h], joinJ[h], opJ[h], K, agentFile[h], created[h], inflight[h])
  BY <1>0, <1>1, SameEntry DEF Moves
<1>3. KeysOK("saveAgent", joinJ[h], opJ[h], created[h], inflight[h], K \cup abandoned')
  BY <1>0, <1>1 DEF KeysOK, JoinStages
<1>4. keyFile[h] \subseteq K
  OBVIOUS
<1> HIDE DEF K
<1> QED BY <1>1, <1>2, <1>3, <1>4, HomeStep DEF RuntimeStages

\* The agent record follows the key.
LEMMA SaveAgentOK ==
  ASSUME SetupInv, NEW h \in Homes, SaveAgent(h) PROVE SetupInv'
<1>0. SetupShape /\ KeysOK(pc[h], joinJ[h], opJ[h], created[h], inflight[h], keyFile[h] \cup abandoned)
  BY DEF SetupInv, KeysInv, HomeOK
<1> DEFINE A == agentFile[h] \cup {joinJ[h]}
<1>1. /\ pc' = [pc EXCEPT ![h] = "joinDone"] /\ pc[h] = "saveAgent" /\ agentFile' = [agentFile EXCEPT ![h] = A]
      /\ UNCHANGED <<sel, joinJ, opJ, keyFile, created, inflight, abandoned>>
      /\ UNCHANGED <<binding, staged, profiled, instance, rtLock>>
  BY DEF SaveAgent, Goes, authority, account
<1>2. Moves(h, "joinDone", sel[h], joinJ[h], opJ[h], keyFile[h], A, created[h], inflight[h])
  BY <1>0, <1>1, SameEntry DEF Moves
<1>3. KeysOK("joinDone", joinJ[h], opJ[h], created[h], inflight[h], keyFile[h] \cup abandoned')
  BY <1>0, <1>1 DEF KeysOK, JoinStages
<1>4. agentFile[h] \subseteq A
  OBVIOUS
<1> HIDE DEF A
<1> QED BY <1>1, <1>2, <1>3, <1>4, HomeStep DEF RuntimeStages

\* The journal goes when the key is installed.
LEMMA JoinDoneOK ==
  ASSUME SetupInv, NEW h \in Homes, JoinDone(h) PROVE SetupInv'
<1>0. SetupShape /\ KeysOK(pc[h], joinJ[h], opJ[h], created[h], inflight[h], keyFile[h] \cup abandoned)
  BY DEF SetupInv, KeysInv, HomeOK
<1>1. /\ pc' = [pc EXCEPT ![h] = "session"] /\ pc[h] = "joinDone" /\ joinJ' = [joinJ EXCEPT ![h] = NoKey]
      /\ UNCHANGED <<sel, opJ, keyFile, agentFile, created, inflight, abandoned>>
      /\ UNCHANGED <<binding, staged, profiled, instance, rtLock>>
  BY DEF JoinDone, Goes, authority, account
<1>2. Moves(h, "session", sel[h], NoKey, opJ[h], keyFile[h], agentFile[h], created[h], inflight[h])
  BY <1>0, <1>1, SameEntry DEF Moves
<1>3. KeysOK("session", NoKey, opJ[h], created[h], inflight[h], keyFile[h] \cup abandoned')
  BY <1>0, <1>1, KeyConstants DEF KeysOK, JoinStages
<1> QED BY <1>1, <1>2, <1>3, HomeStep DEF RuntimeStages

\* Asking for approval changes no key.
LEMMA RefreshOK ==
  ASSUME SetupInv, NEW h \in Homes, Refresh(h) PROVE SetupInv'
<1>0. SetupShape /\ KeysOK(pc[h], joinJ[h], opJ[h], created[h], inflight[h], keyFile[h] \cup abandoned)
  BY DEF SetupInv, KeysInv, HomeOK
<1>1. PICK p \in {"ops", "idle"} : pc' = [pc EXCEPT ![h] = p]
  BY DEF Refresh, Goes
<1>2. /\ sel' = [sel EXCEPT ![h] = sel[h]] /\ UNCHANGED <<joinJ, opJ, keyFile, agentFile, created, inflight, abandoned>>
      /\ UNCHANGED <<binding, staged, profiled, instance, rtLock>>
  BY <1>0, SameEntry DEF Refresh, authority, account
<1> QED BY <1>1, <1>2, ProcessStep DEF RuntimeStages, Plain

\* Only a home without an unfinished creation goes on to choose.
LEMMA ListOperationsOK ==
  ASSUME SetupInv, NEW h \in Homes, ListOperations(h) PROVE SetupInv'
<1>0. SetupShape /\ KeysOK(pc[h], joinJ[h], opJ[h], created[h], inflight[h], keyFile[h] \cup abandoned)
  BY DEF SetupInv, KeysInv, HomeOK
<1>1. PICK p \in {"replay", "choose"} : pc' = [pc EXCEPT ![h] = p] /\ (p = "choose" => opJ[h] = NoKey)
  BY DEF ListOperations, Goes
<1>2. /\ sel' = [sel EXCEPT ![h] = sel[h]] /\ UNCHANGED <<joinJ, opJ, keyFile, agentFile, created, inflight, abandoned>>
      /\ UNCHANGED <<binding, staged, profiled, instance, rtLock>>
  BY <1>0, SameEntry DEF ListOperations, disk, authority, account
<1>3. p \in Plain \/ KeysOK(p, joinJ[h], opJ[h], created[h], inflight[h], keyFile[h] \cup abandoned)
  BY <1>0, <1>1 DEF KeysOK, JoinStages, Plain
<1> QED BY <1>1, <1>2, <1>3, ProcessStep DEF RuntimeStages

\* A fresh key is in the operation journal before it is sent.
LEMMA AddAgentOK ==
  ASSUME SetupInv, NEW h \in Homes, AddAgent(h) PROVE SetupInv'
<1>0. SetupShape /\ KeysOK(pc[h], joinJ[h], opJ[h], created[h], inflight[h], keyFile[h] \cup abandoned)
  BY DEF SetupInv, KeysInv, HomeOK
<1>1. PICK k \in Keys : Fresh(k) /\ opJ' = [opJ EXCEPT ![h] = k]
  BY DEF AddAgent
<1>2. /\ pc[h] = "choose" /\ pc' = [pc EXCEPT ![h] = "create"]
      /\ k \notin created[h] /\ \A r \in inflight[h] : r[2] # k
  BY <1>1 DEF AddAgent, Goes, Fresh
<1>3. /\ UNCHANGED <<sel, joinJ, keyFile, agentFile, created, inflight, abandoned>>
      /\ UNCHANGED <<binding, staged, profiled, instance, rtLock>>
  BY DEF AddAgent, authority, account
<1>4. Moves(h, "create", sel[h], joinJ[h], k, keyFile[h], agentFile[h], created[h], inflight[h])
  BY <1>0, <1>1, <1>2, <1>3, SameEntry DEF Moves
<1>5. KeysOK("create", joinJ[h], k, created[h], inflight[h], keyFile[h] \cup abandoned')
  BY <1>0, <1>2, <1>3, KeyConstants DEF KeysOK, Unsent, JoinStages
<1> QED BY <1>3, <1>4, <1>5, HomeStep DEF RuntimeStages

\* The agent the authority made is the one of the operation journal.
LEMMA CreateAnsweredOK ==
  ASSUME SetupInv, NEW h \in Homes, CreateAnswered(h) PROVE SetupInv'
<1>0. SetupShape /\ KeysOK(pc[h], joinJ[h], opJ[h], created[h], inflight[h], keyFile[h] \cup abandoned)
  BY DEF SetupInv, KeysInv, HomeOK
<1> DEFINE made == created[h] \cup {opJ[h]}
<1>1. /\ pc' = [pc EXCEPT ![h] = "installKey"] /\ opJ[h] # NoKey /\ created' = [created EXCEPT ![h] = made]
      /\ UNCHANGED <<sel, joinJ, opJ, keyFile, agentFile, inflight, abandoned>>
      /\ UNCHANGED <<binding, staged, profiled, instance, rtLock>>
  BY DEF CreateAnswered, Creates, Goes, disk, account
<1>2. Moves(h, "installKey", sel[h], joinJ[h], opJ[h], keyFile[h], agentFile[h], made, inflight[h])
  BY <1>0, <1>1, SameEntry DEF Moves
<1>3. KeysOK("installKey", joinJ[h], opJ[h], made, inflight[h], keyFile[h] \cup abandoned')
  BY <1>0, <1>1 DEF KeysOK, JoinStages
<1>4. created[h] \subseteq made
  OBVIOUS
<1> HIDE DEF made
<1> QED BY <1>1, <1>2, <1>3, <1>4, HomeStep DEF RuntimeStages

\* A creation whose answer is not seen: the authority made the agent, the
\* request is still on its way, or neither.
LEMMA CreateUnseenOK ==
  ASSUME SetupInv, NEW h \in Homes, pc' = [pc EXCEPT ![h] = "idle"], opJ[h] # NoKey,
         UNCHANGED <<sel, joinJ, opJ, keyFile, agentFile, abandoned>>,
         UNCHANGED <<binding, staged, profiled, instance, rtLock>>,
         \/ Creates(h, opJ[h]) /\ UNCHANGED inflight
         \/ inflight' = [inflight EXCEPT ![h] = @ \cup {<<"op", opJ[h]>>}] /\ UNCHANGED created
         \/ UNCHANGED <<created, inflight>>
  PROVE  SetupInv'
<1>0. SetupShape /\ KeysOK(pc[h], joinJ[h], opJ[h], created[h], inflight[h], keyFile[h] \cup abandoned)
  BY DEF SetupInv, KeysInv, HomeOK
<1>1. CASE Creates(h, opJ[h]) /\ UNCHANGED inflight
  <2> DEFINE made == created[h] \cup {opJ[h]}
  <2>1. Moves(h, "idle", sel[h], joinJ[h], opJ[h], keyFile[h], agentFile[h], made, inflight[h])
    BY <1>0, <1>1, SameEntry DEF Moves, Creates
  <2>2. KeysOK("idle", joinJ[h], opJ[h], made, inflight[h], keyFile[h] \cup abandoned')
    BY <1>0 DEF KeysOK, JoinStages
  <2>3. created[h] \subseteq made
    OBVIOUS
  <2> HIDE DEF made
  <2> QED BY <2>1, <2>2, <2>3, HomeStep DEF RuntimeStages
<1>2. CASE inflight' = [inflight EXCEPT ![h] = @ \cup {<<"op", opJ[h]>>}] /\ UNCHANGED created
  <2> DEFINE way == inflight[h] \cup {<<"op", opJ[h]>>}
  <2>1. Moves(h, "idle", sel[h], joinJ[h], opJ[h], keyFile[h], agentFile[h], created[h], way)
    BY <1>0, <1>2, SameEntry DEF Moves
  <2>2. KeysOK("idle", joinJ[h], opJ[h], created[h], way, keyFile[h] \cup abandoned')
    BY <1>0 DEF KeysOK, JoinStages
  <2> HIDE DEF way
  <2> QED BY <2>1, <2>2, HomeStep DEF RuntimeStages
<1>3. CASE UNCHANGED <<created, inflight>>
  <2>1. sel' = [sel EXCEPT ![h] = sel[h]]
    BY <1>0, SameEntry
  <2> QED BY <1>3, <2>1, ProcessStep DEF Plain, RuntimeStages
<1> QED BY <1>1, <1>2, <1>3

\* A creation without an answer keeps its entry.
LEMMA CreateLostOK ==
  ASSUME SetupInv, NEW h \in Homes, CreateLost(h) PROVE SetupInv'
<1>1. /\ pc' = [pc EXCEPT ![h] = "idle"] /\ opJ[h] # NoKey
      /\ UNCHANGED <<sel, joinJ, opJ, keyFile, agentFile, abandoned>>
      /\ UNCHANGED <<binding, staged, profiled, instance, rtLock>>
  BY DEF CreateLost, Goes, disk, account
<1>2. \/ Creates(h, opJ[h]) /\ UNCHANGED inflight
      \/ inflight' = [inflight EXCEPT ![h] = @ \cup {<<"op", opJ[h]>>}] /\ UNCHANGED created
  BY DEF CreateLost, Lost
<1> QED BY <1>1, <1>2, CreateUnseenOK

\* A 4xx of a proxy keeps the entry of a creation.
LEMMA CreateByProxyOK ==
  ASSUME SetupInv, NEW h \in Homes, CreateByProxy(h) PROVE SetupInv'
<1>1. /\ pc' = [pc EXCEPT ![h] = "idle"] /\ opJ[h] # NoKey
      /\ UNCHANGED <<sel, joinJ, opJ, keyFile, agentFile, abandoned>>
      /\ UNCHANGED <<binding, staged, profiled, instance, rtLock>>
  BY DEF CreateByProxy, Goes, disk, account
<1>2. (Creates(h, opJ[h]) /\ UNCHANGED inflight) \/ UNCHANGED <<created, inflight>>
  BY DEF CreateByProxy, ByProxy
<1> QED BY <1>1, <1>2, CreateUnseenOK

\* Only the refusal of the first send frees an entry, and nobody has heard of
\* its key.
LEMMA CreateRefusedOK ==
  ASSUME SetupInv, NEW h \in Homes, CreateRefused(h) PROVE SetupInv'
<1>0. SetupShape /\ KeysOK(pc[h], joinJ[h], opJ[h], created[h], inflight[h], keyFile[h] \cup abandoned)
  BY DEF SetupInv, KeysInv, HomeOK
<1> DEFINE O == IF pc[h] = "create" THEN NoKey ELSE opJ[h]
<1>1. /\ pc' = [pc EXCEPT ![h] = "idle"] /\ opJ' = [opJ EXCEPT ![h] = O]
      /\ UNCHANGED <<sel, joinJ, keyFile, agentFile, created, inflight, abandoned>>
      /\ UNCHANGED <<binding, staged, profiled, instance, rtLock>>
  BY DEF CreateRefused, Goes, authority, account
<1>2. Moves(h, "idle", sel[h], joinJ[h], O, keyFile[h], agentFile[h], created[h], inflight[h])
  BY <1>0, <1>1, SameEntry DEF Moves
<1>3. KeysOK("idle", joinJ[h], O, created[h], inflight[h], keyFile[h] \cup abandoned')
  BY <1>0, <1>1, KeyConstants DEF KeysOK, JoinStages, Unsent
<1> HIDE DEF O
<1> QED BY <1>1, <1>2, <1>3, HomeStep DEF RuntimeStages

\* The key is installed from the operation journal.
LEMMA InstallKeyOK ==
  ASSUME SetupInv, NEW h \in Homes, InstallKey(h) PROVE SetupInv'
<1>0. SetupShape /\ KeysOK(pc[h], joinJ[h], opJ[h], created[h], inflight[h], keyFile[h] \cup abandoned)
  BY DEF SetupInv, KeysInv, HomeOK
<1> DEFINE K == keyFile[h] \cup {opJ[h]}
<1>1. /\ pc' = [pc EXCEPT ![h] = "installAgent"] /\ pc[h] = "installKey" /\ keyFile' = [keyFile EXCEPT ![h] = K]
      /\ UNCHANGED <<sel, joinJ, opJ, agentFile, created, inflight, abandoned>>
      /\ UNCHANGED <<binding, staged, profiled, instance, rtLock>>
  BY DEF InstallKey, Goes, authority, account
<1>2. Moves(h, "installAgent", sel[h], joinJ[h], opJ[h], K, agentFile[h], created[h], inflight[h])
  BY <1>0, <1>1, SameEntry DEF Moves
<1>3. KeysOK("installAgent", joinJ[h], opJ[h], created[h], inflight[h], K \cup abandoned')
  BY <1>0, <1>1 DEF KeysOK, JoinStages
<1>4. keyFile[h] \subseteq K
  OBVIOUS
<1> HIDE DEF K
<1> QED BY <1>1, <1>2, <1>3, <1>4, HomeStep DEF RuntimeStages

\* The agent record follows the key.
LEMMA InstallAgentOK ==
  ASSUME SetupInv, NEW h \in Homes, InstallAgent(h) PROVE SetupInv'
<1>0. SetupShape /\ KeysOK(pc[h], joinJ[h], opJ[h], created[h], inflight[h], keyFile[h] \cup abandoned)
  BY DEF SetupInv, KeysInv, HomeOK
<1> DEFINE A == agentFile[h] \cup {opJ[h]}
<1>1. /\ pc' = [pc EXCEPT ![h] = "opDone"] /\ pc[h] = "installAgent" /\ agentFile' = [agentFile EXCEPT ![h] = A]
      /\ UNCHANGED <<sel, joinJ, opJ, keyFile, created, inflight, abandoned>>
      /\ UNCHANGED <<binding, staged, profiled, instance, rtLock>>
  BY DEF InstallAgent, Goes, authority, account
<1>2. Moves(h, "opDone", sel[h], joinJ[h], opJ[h], keyFile[h], A, created[h], inflight[h])
  BY <1>0, <1>1, SameEntry DEF Moves
<1>3. KeysOK("opDone", joinJ[h], opJ[h], created[h], inflight[h], keyFile[h] \cup abandoned')
  BY <1>0, <1>1 DEF KeysOK, JoinStages
<1>4. agentFile[h] \subseteq A
  OBVIOUS
<1> HIDE DEF A
<1> QED BY <1>1, <1>2, <1>3, <1>4, HomeStep DEF RuntimeStages

\* The entry goes when the key is installed.
LEMMA OperationDoneOK ==
  ASSUME SetupInv, NEW h \in Homes, OperationDone(h) PROVE SetupInv'
<1>0. SetupShape /\ KeysOK(pc[h], joinJ[h], opJ[h], created[h], inflight[h], keyFile[h] \cup abandoned)
  BY DEF SetupInv, KeysInv, HomeOK
<1>1. /\ pc' = [pc EXCEPT ![h] = "choose"] /\ pc[h] = "opDone" /\ opJ' = [opJ EXCEPT ![h] = NoKey]
      /\ UNCHANGED <<sel, joinJ, keyFile, agentFile, created, inflight, abandoned>>
      /\ UNCHANGED <<binding, staged, profiled, instance, rtLock>>
  BY DEF OperationDone, Goes, authority, account
<1>2. Moves(h, "choose", sel[h], joinJ[h], NoKey, keyFile[h], agentFile[h], created[h], inflight[h])
  BY <1>0, <1>1, SameEntry DEF Moves
<1>3. KeysOK("choose", joinJ[h], NoKey, created[h], inflight[h], keyFile[h] \cup abandoned')
  BY <1>0, <1>1, KeyConstants DEF KeysOK, JoinStages
<1> QED BY <1>1, <1>2, <1>3, HomeStep DEF RuntimeStages

\* The chosen agent is on disk.
LEMMA ChooseAgentOK ==
  ASSUME SetupInv, NEW h \in Homes, ChooseAgent(h) PROVE SetupInv'
<1>1. PICK a \in agentFile[h] \cap keyFile[h] :
        pc' = [pc EXCEPT ![h] = "configure"] /\ sel' = [sel EXCEPT ![h] = a]
  BY DEF ChooseAgent, Goes
<1>2. /\ UNCHANGED <<joinJ, opJ, keyFile, agentFile, created, inflight, abandoned>>
      /\ UNCHANGED <<binding, staged, profiled, instance, rtLock>>
  BY DEF ChooseAgent, authority, account
<1> QED BY <1>1, <1>2, ProcessStep DEF RuntimeStages, Plain

\* A refused configuration changes nothing.
LEMMA ConfigureRefusedOK ==
  ASSUME SetupInv, NEW h \in Homes, ConfigureRefused(h) PROVE SetupInv'
<1>0. SetupShape /\ KeysOK(pc[h], joinJ[h], opJ[h], created[h], inflight[h], keyFile[h] \cup abandoned)
  BY DEF SetupInv, KeysInv, HomeOK
<1>1. /\ pc' = [pc EXCEPT ![h] = "idle"] /\ sel' = [sel EXCEPT ![h] = sel[h]]
      /\ UNCHANGED <<joinJ, opJ, keyFile, agentFile, created, inflight, abandoned>>
      /\ UNCHANGED <<binding, staged, profiled, instance, rtLock>>
  BY <1>0, SameEntry DEF ConfigureRefused, Goes, disk, authority, account
<1> QED BY <1>1, ProcessStep DEF RuntimeStages, Plain

\* The choice is cached and the setup journal closed.
LEMMA RecordOK ==
  ASSUME SetupInv, NEW h \in Homes, Record(h) PROVE SetupInv'
<1>0. SetupShape /\ KeysOK(pc[h], joinJ[h], opJ[h], created[h], inflight[h], keyFile[h] \cup abandoned)
  BY DEF SetupInv, KeysInv, HomeOK
<1>1. /\ pc' = [pc EXCEPT ![h] = "idle"] /\ sel' = [sel EXCEPT ![h] = sel[h]]
      /\ UNCHANGED <<joinJ, opJ, keyFile, agentFile, created, inflight, abandoned>>
      /\ UNCHANGED <<binding, staged, profiled, instance, rtLock>>
  BY <1>0, SameEntry DEF Record, Goes, authority, account
<1> QED BY <1>1, ProcessStep DEF RuntimeStages, Plain

\* Approval changes nothing the keys or the account depend on.
LEMMA ApproveOK ==
  ASSUME SetupInv, NEW h \in Homes, Approve(h) PROVE SetupInv'
<1>1. /\ UNCHANGED <<pc, sel, joinJ, opJ, keyFile, agentFile, created, inflight, abandoned>>
      /\ UNCHANGED <<binding, staged, profiled, instance, rtLock>>
  BY DEF Approve, process, disk, account
<1> QED BY <1>1 DEF SetupInv, SetupShape, KeysInv, HomeOK, AccountInv, BindingOK

\* A join journal the user discards is no longer owed.
LEMMA AbandonJoinOK ==
  ASSUME SetupInv, NEW h \in Homes, AbandonJoin(h) PROVE SetupInv'
<1>0. SetupShape /\ KeysOK(pc[h], joinJ[h], opJ[h], created[h], inflight[h], keyFile[h] \cup abandoned)
  BY DEF SetupInv, KeysInv, HomeOK
<1>1. /\ pc[h] \notin Locked /\ joinJ' = [joinJ EXCEPT ![h] = NoKey]
      /\ abandoned' = abandoned \cup ({joinJ[h]} \ {DeviceKey})
      /\ UNCHANGED <<pc, sel, opJ, keyFile, agentFile, created, inflight>>
      /\ UNCHANGED <<binding, staged, profiled, instance, rtLock>>
  BY DEF AbandonJoin, process, authority, account
<1>2. Moves(h, pc[h], sel[h], NoKey, opJ[h], keyFile[h], agentFile[h], created[h], inflight[h])
  BY <1>0, <1>1, SameEntry DEF Moves
<1>3. KeysOK(pc[h], NoKey, opJ[h], created[h], inflight[h], keyFile[h] \cup abandoned')
  BY <1>0, <1>1, KeyConstants DEF KeysOK, JoinStages, OpStages, Locked
<1> QED BY <1>1, <1>2, <1>3, HomeStep

\* An operation journal the user discards is no longer owed.
LEMMA AbandonOperationsOK ==
  ASSUME SetupInv, NEW h \in Homes, AbandonOperations(h) PROVE SetupInv'
<1>0. SetupShape /\ KeysOK(pc[h], joinJ[h], opJ[h], created[h], inflight[h], keyFile[h] \cup abandoned)
  BY DEF SetupInv, KeysInv, HomeOK
<1>1. /\ pc[h] \notin Locked /\ opJ' = [opJ EXCEPT ![h] = NoKey]
      /\ abandoned' = abandoned \cup ({opJ[h]} \ {NoKey})
      /\ UNCHANGED <<pc, sel, joinJ, keyFile, agentFile, created, inflight>>
      /\ UNCHANGED <<binding, staged, profiled, instance, rtLock>>
  BY DEF AbandonOperations, process, authority, account
<1>2. Moves(h, pc[h], sel[h], joinJ[h], NoKey, keyFile[h], agentFile[h], created[h], inflight[h])
  BY <1>0, <1>1, SameEntry DEF Moves
<1>3. KeysOK(pc[h], joinJ[h], NoKey, created[h], inflight[h], keyFile[h] \cup abandoned')
  BY <1>0, <1>1, KeyConstants DEF KeysOK, JoinStages, OpStages, Locked
<1> QED BY <1>1, <1>2, <1>3, HomeStep

\* A late request makes the agent of a key that is still kept.
LEMMA ArrivesOK ==
  ASSUME SetupInv, NEW h \in Homes, Arrives(h) PROVE SetupInv'
<1>0. SetupShape /\ KeysOK(pc[h], joinJ[h], opJ[h], created[h], inflight[h], keyFile[h] \cup abandoned)
  BY DEF SetupInv, KeysInv, HomeOK
<1>1. /\ UNCHANGED <<pc, sel, joinJ, opJ, keyFile, agentFile, abandoned>>
      /\ UNCHANGED <<binding, staged, profiled, instance, rtLock>>
  BY DEF Arrives, process, disk, account
<1>2. PICK r \in inflight[h] :
        /\ inflight' = [inflight EXCEPT ![h] = @ \ {r}]
        /\ \/ r[1] = "join" /\ CanRedeem(h, r[2]) /\ Redeems(h, r[2])
           \/ r[1] = "op" /\ CanCreate(h, r[2]) /\ Creates(h, r[2])
           \/ UNCHANGED <<redeemed, standing, created>>
  BY DEF Arrives
<1>3. r[2] \in Keys \/ (r[2] = DeviceKey /\ r[1] # "op")
  BY <1>0 DEF KeysOK
<1>4. PICK made : /\ created' = [created EXCEPT ![h] = made] /\ made \subseteq Keys
                  /\ created[h] \subseteq made /\ made \subseteq created[h] \cup ({r[2]} \ {DeviceKey})
  <2>0. created[h] \subseteq Keys
    BY <1>0 DEF KeysOK
  <2>1. CASE Redeems(h, r[2])
    <3>1. PICK made : /\ created' = [created EXCEPT ![h] = made]
                      /\ made = created[h] \cup ({r[2]} \ {DeviceKey}) /\ made \subseteq Keys
      BY <1>3, <2>1, RedeemsMakes
    <3> QED BY <3>1
  <2>2. CASE r[1] = "op" /\ Creates(h, r[2])
    <3>1. created' = [created EXCEPT ![h] = created[h] \cup {r[2]}] /\ r[2] \in Keys
      BY <1>3, <2>2 DEF Creates
    <3>2. {r[2]} = {r[2]} \ {DeviceKey}
      BY <3>1, KeyConstants
    <3> QED BY <2>0, <3>1, <3>2
  <2>3. CASE UNCHANGED created
    <3>1. created' = [created EXCEPT ![h] = created[h]]
      BY <1>0, <2>3, SameEntry
    <3> QED BY <2>0, <3>1
  <2> QED BY <1>2, <2>1, <2>2, <2>3
<1> DEFINE way == inflight[h] \ {r}
<1>5. Moves(h, pc[h], sel[h], joinJ[h], opJ[h], keyFile[h], agentFile[h], made, way)
  BY <1>0, <1>1, <1>2, <1>4, SameEntry DEF Moves
<1>6. KeysOK(pc[h], joinJ[h], opJ[h], made, way, keyFile[h] \cup abandoned')
  BY <1>0, <1>1, <1>3, <1>4 DEF KeysOK, Unsent
<1> HIDE DEF way
<1> QED BY <1>1, <1>4, <1>5, <1>6, HomeStep

\* What a home's process stands for in the account.
AtAccount(g) ==
  /\ ChoiceOK(pc[g], sel[g], keyFile[g] \cap agentFile[g])
  /\ pc[g] \in RuntimeStages => rtLock = g
  /\ pc[g] = "bind" => binding = Unbound \/ binding = Bound(g, sel[g])
  /\ pc[g] \in {"stage", "headless", "service", "status"} =>
       binding = Bound(g, sel[g]) /\ sel[g] \in created[g]
  /\ pc[g] \in {"headless", "service", "status"} => staged
  /\ pc[g] \in {"service", "status"} => profiled

\* The account invariant, home by home.
LEMMA AccountIs ==
  AccountInv <=> /\ \A g \in Homes : AtAccount(g)
                 /\ BindingOK
                 /\ instance => staged /\ profiled /\ binding # Unbound
  BY DEF AccountInv, AtAccount

\* A step of configure: the process of h alone holds the runtime lock, so what
\* it changes concerns nobody else.
LEMMA ConfigureStep ==
  ASSUME SetupInv, NEW h \in Homes, NEW p \in Plain, pc' = [pc EXCEPT ![h] = p],
         UNCHANGED <<sel, joinJ, opJ, keyFile, agentFile, created, inflight, abandoned>>,
         rtLock \in {h, NoHome}, pc'[h] = p => AtAccount(h)', BindingOK',
         instance' => staged' /\ profiled' /\ binding' # Unbound
  PROVE  SetupInv'
<1>0. SetupShape /\ KeysOK(pc[h], joinJ[h], opJ[h], created[h], inflight[h], keyFile[h] \cup abandoned)
  BY DEF SetupInv, KeysInv, HomeOK
<1>1. Moves(h, p, sel[h], joinJ[h], opJ[h], keyFile[h], agentFile[h], created[h], inflight[h])
  BY <1>0, SameEntry DEF Moves
<1>2. KeysOK(p, joinJ[h], opJ[h], created[h], inflight[h], keyFile[h] \cup abandoned')
  BY <1>0, PlainOK
<1>3. KeysInv'
  BY <1>1, <1>2, KeysMove
<1>4. SetupShape' /\ pc'[h] = p /\ \A g \in Homes \ {h} : pc'[g] = pc[g]
  BY <1>0, <1>1, MovedShape DEF Moved
<1>5. ASSUME NEW g \in Homes
      PROVE  AtAccount(g)'
  <2>1. CASE g = h
    BY <1>4, <2>1
  <2>2. CASE g # h
    <3>1. pc[g] \notin RuntimeStages /\ ChoiceOK(pc[g], sel[g], keyFile[g] \cap agentFile[g])
      BY <2>2, KeyConstants, AccountIs DEF SetupInv, AtAccount
    <3> QED BY <1>4, <2>2, <3>1 DEF AtAccount, RuntimeStages
  <2> QED BY <2>1, <2>2
<1>6. AccountInv'
  BY <1>5 DEF AccountInv, AtAccount
<1> QED BY <1>3, <1>4, <1>6 DEF SetupInv

\* Under the runtime lock the binding is absent or this agent's own.
LEMMA EnterConfigureOK ==
  ASSUME SetupInv, NEW h \in Homes, EnterConfigure(h) PROVE SetupInv'
<1>0. AtAccount(h) /\ BindingOK /\ (instance => staged /\ profiled /\ binding # Unbound)
  BY AccountIs DEF SetupInv
<1>1. /\ pc[h] = "configure" /\ pc' = [pc EXCEPT ![h] = "bind"]
      /\ UNCHANGED <<sel, joinJ, opJ, keyFile, agentFile, created, inflight, abandoned>>
      /\ rtLock' = h /\ MayBind(h) /\ UNCHANGED <<binding, staged, profiled, instance>>
  BY DEF EnterConfigure, Goes, disk, authority
<1>6. binding = Unbound \/ binding = Bound(h, sel[h])
  <2>1. CASE binding = Unbound
    BY <2>1
  <2>2. CASE binding # Unbound
    <3>0. PICK g \in Homes : \E a \in keyFile[g] \cap agentFile[g] \cap created[g] : binding = Bound(g, a)
      BY <1>0, <2>2 DEF BindingOK
    <3>1. PICK a \in keyFile[g] \cap agentFile[g] \cap created[g] : binding = Bound(g, a)
      BY <3>0
    <3>2. a \in Keys
      BY <3>1 DEF SetupInv, KeysInv, HomeOK, KeysOK
    <3>3. binding.home = g /\ binding.agent = a
      BY <3>1 DEF Bound
    <3>4. g = h /\ a = sel[h]
      BY <1>1, <2>2, <3>2, <3>3, KeyConstants DEF MayBind, BindingServes
    <3> QED BY <3>1, <3>4
  <2> QED BY <2>1, <2>2
<1>2. pc'[h] = "bind" => AtAccount(h)'
  BY <1>0, <1>1, <1>6 DEF AtAccount, ChoiceOK, RuntimeStages
<1>3. BindingOK'
  BY <1>0, <1>1 DEF BindingOK
<1>4. instance' => staged' /\ profiled' /\ binding' # Unbound
  BY <1>0, <1>1
<1>5. rtLock \in {h, NoHome}
  BY <1>0, <1>1 DEF AtAccount, RuntimeStages, EnterConfigure
<1> QED BY <1>1, <1>2, <1>3, <1>4, <1>5, ConfigureStep DEF Plain, RuntimeStages

\* The profile is bound to the chosen agent, which is on disk and made.
LEMMA BindOK ==
  ASSUME SetupInv, NEW h \in Homes, Bind(h) PROVE SetupInv'
<1>0. AtAccount(h) /\ BindingOK /\ (instance => staged /\ profiled /\ binding # Unbound)
  BY AccountIs DEF SetupInv
<1>1. /\ pc[h] = "bind" /\ pc' = [pc EXCEPT ![h] = "stage"]
      /\ UNCHANGED <<sel, joinJ, opJ, keyFile, agentFile, created, inflight, abandoned>>
      /\ sel[h] \in created[h] /\ binding' = Bound(h, sel[h])
      /\ UNCHANGED <<staged, profiled, instance, rtLock>>
  BY DEF Bind, Goes, disk, authority, Bound
<1>2. pc'[h] = "stage" => AtAccount(h)'
  BY <1>0, <1>1 DEF AtAccount, ChoiceOK, RuntimeStages
<1>3. BindingOK'
  BY <1>0, <1>1 DEF BindingOK, AtAccount, ChoiceOK, RuntimeStages
<1>4. instance' => staged' /\ profiled' /\ binding' # Unbound
  BY <1>0, <1>1, KeyConstants DEF Bound, Unbound
<1>5. rtLock \in {h, NoHome}
  BY <1>0, <1>1 DEF AtAccount, RuntimeStages
<1> QED BY <1>1, <1>2, <1>3, <1>4, <1>5, ConfigureStep DEF Plain, RuntimeStages

\* The runtime bundle is staged.
LEMMA StageRuntimeBundleOK ==
  ASSUME SetupInv, NEW h \in Homes, StageRuntimeBundle(h) PROVE SetupInv'
<1>0. AtAccount(h) /\ BindingOK /\ (instance => staged /\ profiled /\ binding # Unbound)
  BY AccountIs DEF SetupInv
<1>1. /\ pc[h] = "stage" /\ pc' = [pc EXCEPT ![h] = "headless"]
      /\ UNCHANGED <<sel, joinJ, opJ, keyFile, agentFile, created, inflight, abandoned>>
      /\ staged' /\ UNCHANGED <<binding, profiled, instance, rtLock>>
  BY DEF StageRuntimeBundle, Goes, disk, authority
<1>2. pc'[h] = "headless" => AtAccount(h)'
  BY <1>0, <1>1 DEF AtAccount, ChoiceOK, RuntimeStages
<1>3. BindingOK'
  BY <1>0, <1>1 DEF BindingOK
<1>4. instance' => staged' /\ profiled' /\ binding' # Unbound
  BY <1>0, <1>1
<1>5. rtLock \in {h, NoHome}
  BY <1>0, <1>1 DEF AtAccount, RuntimeStages
<1> QED BY <1>1, <1>2, <1>3, <1>4, <1>5, ConfigureStep DEF Plain, RuntimeStages

\* The runtime binding names the profile.
LEMMA ConfigureHeadlessOK ==
  ASSUME SetupInv, NEW h \in Homes, ConfigureHeadless(h) PROVE SetupInv'
<1>0. AtAccount(h) /\ BindingOK /\ (instance => staged /\ profiled /\ binding # Unbound)
  BY AccountIs DEF SetupInv
<1>1. /\ pc[h] = "headless" /\ pc' = [pc EXCEPT ![h] = "service"]
      /\ UNCHANGED <<sel, joinJ, opJ, keyFile, agentFile, created, inflight, abandoned>>
      /\ profiled' /\ UNCHANGED <<binding, staged, instance, rtLock>>
  BY DEF ConfigureHeadless, Goes, disk, authority
<1>2. pc'[h] = "service" => AtAccount(h)'
  BY <1>0, <1>1 DEF AtAccount, ChoiceOK, RuntimeStages
<1>3. BindingOK'
  BY <1>0, <1>1 DEF BindingOK
<1>4. instance' => staged' /\ profiled' /\ binding' # Unbound
  BY <1>0, <1>1
<1>5. rtLock \in {h, NoHome}
  BY <1>0, <1>1 DEF AtAccount, RuntimeStages
<1> QED BY <1>1, <1>2, <1>3, <1>4, <1>5, ConfigureStep DEF Plain, RuntimeStages

\* A service is added when everything it starts with is there.
LEMMA AddServiceOK ==
  ASSUME SetupInv, NEW h \in Homes, AddService(h) PROVE SetupInv'
<1>0. AtAccount(h) /\ BindingOK /\ (instance => staged /\ profiled /\ binding # Unbound)
  BY AccountIs DEF SetupInv
<1>1. /\ pc[h] = "service" /\ pc' = [pc EXCEPT ![h] = "status"]
      /\ UNCHANGED <<sel, joinJ, opJ, keyFile, agentFile, created, inflight, abandoned>>
      /\ UNCHANGED <<binding, staged, profiled, rtLock>>
  BY DEF AddService, Goes, disk, authority
<1>2. pc'[h] = "status" => AtAccount(h)'
  BY <1>0, <1>1 DEF AtAccount, ChoiceOK, RuntimeStages
<1>3. BindingOK'
  BY <1>0, <1>1 DEF BindingOK
<1>4. instance' => staged' /\ profiled' /\ binding' # Unbound
  BY <1>0, <1>1, KeyConstants DEF AtAccount, Bound, Unbound
<1>5. rtLock \in {h, NoHome}
  BY <1>0, <1>1 DEF AtAccount, RuntimeStages
<1> QED BY <1>1, <1>2, <1>3, <1>4, <1>5, ConfigureStep DEF Plain, RuntimeStages

\* A service that is there is enabled.
LEMMA EnableServiceOK ==
  ASSUME SetupInv, NEW h \in Homes, EnableService(h) PROVE SetupInv'
<1>0. AtAccount(h) /\ BindingOK /\ (instance => staged /\ profiled /\ binding # Unbound)
  BY AccountIs DEF SetupInv
<1>1. /\ pc[h] = "service" /\ pc' = [pc EXCEPT ![h] = "status"]
      /\ UNCHANGED <<sel, joinJ, opJ, keyFile, agentFile, created, inflight, abandoned>>
      /\ UNCHANGED <<binding, staged, profiled, instance, rtLock>>
  BY DEF EnableService, Goes, disk, authority, account
<1>2. pc'[h] = "status" => AtAccount(h)'
  BY <1>0, <1>1 DEF AtAccount, ChoiceOK, RuntimeStages
<1>3. BindingOK'
  BY <1>0, <1>1 DEF BindingOK
<1>4. instance' => staged' /\ profiled' /\ binding' # Unbound
  BY <1>0, <1>1
<1>5. rtLock \in {h, NoHome}
  BY <1>0, <1>1 DEF AtAccount, RuntimeStages
<1> QED BY <1>1, <1>2, <1>3, <1>4, <1>5, ConfigureStep DEF Plain, RuntimeStages

\* The runtime lock is released.
LEMMA CheckServiceOK ==
  ASSUME SetupInv, NEW h \in Homes, CheckService(h) PROVE SetupInv'
<1>0. AtAccount(h) /\ BindingOK /\ (instance => staged /\ profiled /\ binding # Unbound)
  BY AccountIs DEF SetupInv
<1>1. /\ pc[h] = "status" /\ pc' = [pc EXCEPT ![h] = "record"]
      /\ UNCHANGED <<sel, joinJ, opJ, keyFile, agentFile, created, inflight, abandoned>>
      /\ UNCHANGED <<binding, staged, profiled, instance>>
  BY DEF CheckService, Goes, disk, authority
<1>2. pc'[h] = "record" => AtAccount(h)'
  BY <1>0, <1>1 DEF AtAccount, ChoiceOK, RuntimeStages
<1>3. BindingOK'
  BY <1>0, <1>1 DEF BindingOK
<1>4. instance' => staged' /\ profiled' /\ binding' # Unbound
  BY <1>0, <1>1
<1>5. rtLock \in {h, NoHome}
  BY <1>0, <1>1 DEF AtAccount, RuntimeStages
<1> QED BY <1>1, <1>2, <1>3, <1>4, <1>5, ConfigureStep DEF Plain, RuntimeStages

\* A crash frees the runtime lock and leaves every file.
LEMMA CrashOK ==
  ASSUME SetupInv, NEW h \in Homes, Crash(h) PROVE SetupInv'
<1>0. AtAccount(h) /\ BindingOK /\ (instance => staged /\ profiled /\ binding # Unbound)
  BY AccountIs DEF SetupInv
<1>1. /\ pc' = [pc EXCEPT ![h] = "idle"] /\ rtLock' = IF rtLock = h THEN NoHome ELSE rtLock
      /\ UNCHANGED <<sel, joinJ, opJ, keyFile, agentFile, created, inflight, abandoned>>
      /\ UNCHANGED <<binding, staged, profiled, instance>>
  BY DEF Crash, disk, authority
<1>2. CASE rtLock = h
  <2>1. pc'[h] = "idle" => AtAccount(h)'
    BY DEF AtAccount, ChoiceOK, RuntimeStages
  <2>2. BindingOK' /\ (instance' => staged' /\ profiled' /\ binding' # Unbound)
    BY <1>0, <1>1 DEF BindingOK
  <2> QED BY <1>1, <1>2, <2>1, <2>2, ConfigureStep DEF Plain, RuntimeStages
<1>3. CASE rtLock # h
  <2>1. sel' = [sel EXCEPT ![h] = sel[h]] /\ rtLock' = rtLock
    BY <1>1, <1>3, SameEntry DEF SetupInv
  <2> QED BY <1>1, <2>1, ProcessStep DEF Plain, RuntimeStages
<1> QED BY <1>2, <1>3

\* Every step of the setup keeps the invariant.
LEMMA SetupStep ==
  ASSUME SetupInv, SetupNext PROVE SetupInv'
<1>1. PICK h \in Homes :
        \/ StartSetup(h) \/ EnterJoin(h)
        \/ Join(h) \/ RedeemAnswered(h) \/ RedeemLost(h) \/ RedeemRefused(h) \/ RedeemByProxy(h)
        \/ SaveOwner(h) \/ SaveKey(h) \/ SaveAgent(h) \/ JoinDone(h)
        \/ Refresh(h) \/ ListOperations(h) \/ AddAgent(h)
        \/ CreateAnswered(h) \/ CreateLost(h) \/ CreateRefused(h) \/ CreateByProxy(h)
        \/ InstallKey(h) \/ InstallAgent(h) \/ OperationDone(h) \/ ChooseAgent(h)
        \/ EnterConfigure(h) \/ ConfigureRefused(h) \/ Bind(h) \/ StageRuntimeBundle(h)
        \/ ConfigureHeadless(h) \/ AddService(h) \/ EnableService(h) \/ CheckService(h) \/ Record(h)
        \/ Crash(h) \/ AbandonJoin(h) \/ AbandonOperations(h)
        \/ Arrives(h) \/ Approve(h)
  BY DEF SetupNext
<1>2. CASE RedeemByProxy(h)
  BY <1>2, RedeemByProxyOK
<1>3. CASE StartSetup(h) \/ EnterJoin(h) \/ Join(h) \/ RedeemAnswered(h) \/ RedeemLost(h) \/ RedeemRefused(h)
  BY <1>3, StartSetupOK, EnterJoinOK, JoinOK, RedeemAnsweredOK, RedeemLostOK, RedeemRefusedOK
<1>4. CASE SaveOwner(h) \/ SaveKey(h) \/ SaveAgent(h) \/ JoinDone(h) \/ Refresh(h) \/ ListOperations(h) \/ AddAgent(h)
  BY <1>4, SaveOwnerOK, SaveKeyOK, SaveAgentOK, JoinDoneOK, RefreshOK, ListOperationsOK, AddAgentOK
<1>5. CASE CreateAnswered(h) \/ CreateLost(h) \/ CreateRefused(h) \/ CreateByProxy(h)
  BY <1>5, CreateAnsweredOK, CreateLostOK, CreateRefusedOK, CreateByProxyOK
<1>6. CASE InstallKey(h) \/ InstallAgent(h) \/ OperationDone(h) \/ ChooseAgent(h)
  BY <1>6, InstallKeyOK, InstallAgentOK, OperationDoneOK, ChooseAgentOK
<1>7. CASE EnterConfigure(h) \/ ConfigureRefused(h) \/ Bind(h) \/ StageRuntimeBundle(h) \/ ConfigureHeadless(h)
  BY <1>7, EnterConfigureOK, ConfigureRefusedOK, BindOK, StageRuntimeBundleOK, ConfigureHeadlessOK
<1>8. CASE AddService(h) \/ EnableService(h) \/ CheckService(h) \/ Record(h) \/ Crash(h)
  BY <1>8, AddServiceOK, EnableServiceOK, CheckServiceOK, RecordOK, CrashOK
<1>9. CASE AbandonJoin(h) \/ AbandonOperations(h) \/ Arrives(h) \/ Approve(h)
  BY <1>9, AbandonJoinOK, AbandonOperationsOK, ArrivesOK, ApproveOK
<1> QED BY <1>1, <1>2, <1>3, <1>4, <1>5, <1>6, <1>7, <1>8, <1>9

\* The other two parts leave the setup alone.
LEMMA SetupRests ==
  ASSUME SetupInv, UNCHANGED setupVars PROVE SetupInv'
  BY DEF setupVars, process, disk, authority, account, SetupInv, SetupShape, KeysInv, HomeOK, AccountInv, BindingOK

\* What the invariant says of the device.
LEMMA SetupSafe ==
  SetupInv => ServiceIsBacked /\ ("join" \notin Proxied => KeyIsKept)
<1> SUFFICES ASSUME SetupInv PROVE ServiceIsBacked /\ ("join" \notin Proxied => KeyIsKept)
  OBVIOUS
<1>1. ASSUME "join" \notin Proxied PROVE KeyIsKept
  BY <1>1 DEF SetupInv, KeysInv, HomeOK, KeysOK, KeyIsKept
<1>2. ASSUME instance PROVE binding # Unbound /\ staged /\ profiled /\ BindingOK
  BY <1>2, AccountIs DEF SetupInv
<1>3. ASSUME instance
      PROVE \E h \in Homes : /\ binding.home = h
                            /\ binding.agent \in keyFile[h] \cap agentFile[h] \cap created[h]
  <2>1. PICK g \in Homes : \E a \in keyFile[g] \cap agentFile[g] \cap created[g] : binding = Bound(g, a)
    BY <1>2, <1>3 DEF BindingOK
  <2>2. PICK a \in keyFile[g] \cap agentFile[g] \cap created[g] : binding = Bound(g, a)
    BY <2>1
  <2>3. binding.home = g /\ binding.agent = a
    BY <2>2 DEF Bound
  <2> QED BY <2>2, <2>3
<1> QED BY <1>1, <1>2, <1>3 DEF ServiceIsBacked

\* Only Bind writes the binding, and where it stands there is none or its own.
LEMMA BindingStep ==
  ASSUME SetupInv, SetupNext, binding # Unbound PROVE binding' = binding
<1>1. CASE \E h \in Homes : Bind(h)
  <2>1. PICK h \in Homes : Bind(h)
    BY <1>1
  <2>2. pc[h] = "bind" /\ binding' = Bound(h, sel[h])
    BY <2>1 DEF Bind, Goes, Bound
  <2>3. AtAccount(h)
    BY AccountIs DEF SetupInv
  <2> QED BY <2>2, <2>3 DEF AtAccount
<1>2. CASE ~\E h \in Homes : Bind(h)
  <2>1. PICK h \in Homes :
        \/ StartSetup(h) \/ EnterJoin(h)
        \/ Join(h) \/ RedeemAnswered(h) \/ RedeemLost(h) \/ RedeemRefused(h) \/ RedeemByProxy(h)
        \/ SaveOwner(h) \/ SaveKey(h) \/ SaveAgent(h) \/ JoinDone(h)
        \/ Refresh(h) \/ ListOperations(h) \/ AddAgent(h)
        \/ CreateAnswered(h) \/ CreateLost(h) \/ CreateRefused(h) \/ CreateByProxy(h)
        \/ InstallKey(h) \/ InstallAgent(h) \/ OperationDone(h) \/ ChooseAgent(h)
        \/ EnterConfigure(h) \/ ConfigureRefused(h) \/ StageRuntimeBundle(h)
        \/ ConfigureHeadless(h) \/ AddService(h) \/ EnableService(h) \/ CheckService(h) \/ Record(h)
        \/ Crash(h) \/ AbandonJoin(h) \/ AbandonOperations(h)
        \/ Arrives(h) \/ Approve(h)
    BY <1>2 DEF SetupNext
  <2> USE DEF account
  <2>2. CASE \/ StartSetup(h) \/ EnterJoin(h) \/ Join(h) \/ RedeemAnswered(h) \/ RedeemLost(h)
             \/ RedeemRefused(h) \/ RedeemByProxy(h)
    BY <2>2 DEF StartSetup, EnterJoin, Join, RedeemAnswered, RedeemLost, RedeemRefused, RedeemByProxy
  <2>3. CASE SaveOwner(h) \/ SaveKey(h) \/ SaveAgent(h) \/ JoinDone(h) \/ Refresh(h) \/ ListOperations(h) \/ AddAgent(h)
    BY <2>3 DEF SaveOwner, SaveKey, SaveAgent, JoinDone, Refresh, ListOperations, AddAgent
  <2>4. CASE \/ CreateAnswered(h) \/ CreateLost(h) \/ CreateRefused(h) \/ CreateByProxy(h)
             \/ InstallKey(h) \/ InstallAgent(h) \/ OperationDone(h) \/ ChooseAgent(h)
    BY <2>4 DEF CreateAnswered, CreateLost, CreateRefused, CreateByProxy, InstallKey, InstallAgent,
                OperationDone, ChooseAgent
  <2>5. CASE EnterConfigure(h) \/ ConfigureRefused(h) \/ StageRuntimeBundle(h) \/ ConfigureHeadless(h) \/ AddService(h)
    BY <2>5 DEF EnterConfigure, ConfigureRefused, StageRuntimeBundle, ConfigureHeadless, AddService
  <2>6. CASE \/ EnableService(h) \/ CheckService(h) \/ Record(h) \/ Crash(h) \/ AbandonJoin(h)
             \/ AbandonOperations(h) \/ Arrives(h) \/ Approve(h)
    BY <2>6 DEF EnableService, CheckService, Record, Crash, AbandonJoin, AbandonOperations, Arrives, Approve
  <2> QED BY <2>1, <2>2, <2>3, <2>4, <2>5, <2>6
<1> QED BY <1>1, <1>2

-----------------------------------------------------------------------------
\* What a writer of the journal is doing: one that waits or writes has a field
\* and a stamp, one that has read has a snapshot that lacks no evidence E.
WriterOK(r, E) ==
  /\ r.at \in {"waiting", "locked"} =>
       r = [at |-> r.at, field |-> r.field, stamp |-> r.stamp] /\ r.field \in Fields /\ r.stamp \in Nat
  /\ r.at = "read" =>
       r.field \in Fields /\ r.stamp \in Nat /\ r.seen \in [Fields -> Nat] /\ \A f \in Fields : r.seen[f] >= E[f]

\* Whoever reads or writes the document holds its lock.
ProgressInv ==
  /\ doc \in [Fields -> Nat] /\ evidence \in [Fields -> Nat] /\ clock \in Nat
  /\ \A f \in Fields : doc[f] >= evidence[f]
  /\ writer = [w \in Writers |-> writer[w]]
  /\ \A w \in Writers : WriterOK(writer[w], evidence) /\ (writer[w].at \in {"locked", "read"} => lock = w)

\* An empty document, and nobody writes.
LEMMA ProgressInitially == Progress!ProgressInit => ProgressInv
<1> SUFFICES ASSUME Progress!ProgressInit PROVE ProgressInv
  OBVIOUS
<1>1. doc = [f \in Fields |-> 0] /\ evidence = [f \in Fields |-> 0] /\ clock = 1
  BY DEF Progress!ProgressInit, Progress!Blank
<1>2. writer = [w \in Writers |-> writer[w]] /\ \A w \in Writers : writer[w] = [at |-> "idle"]
  BY DEF Progress!ProgressInit, Progress!Idle
<1>3. \A w \in Writers : writer[w].at = "idle"
  BY <1>2
<1> QED BY <1>1, <1>2, <1>3 DEF ProgressInv, WriterOK

\* One writer moves and the document stays.
LEMMA WriterMoves ==
  ASSUME ProgressInv, NEW w \in Writers, NEW r, Progress!Does(w, r), WriterOK(r, evidence),
         r.at \in {"locked", "read"} => lock' = w,
         lock' = lock \/ (lock = w /\ r.at \notin {"locked", "read"}) \/ lock = Progress!Nobody,
         UNCHANGED <<doc, evidence>>, clock' = clock
  PROVE  ProgressInv'
<1>1. writer' = [v \in Writers |-> writer'[v]] /\ writer'[w] = r /\ \A v \in Writers \ {w} : writer'[v] = writer[v]
  BY DEF Progress!Does, ProgressInv
<1>2. Progress!Nobody \notin Writers
  BY SetupConstants DEF Progress!ProgressAssumption
<1>3. ASSUME NEW v \in Writers PROVE WriterOK(writer'[v], evidence) /\ (writer'[v].at \in {"locked", "read"} => lock' = v)
  <2>1. CASE v = w
    BY <1>1, <2>1
  <2>2. CASE v # w
    BY <1>1, <1>2, <2>2 DEF ProgressInv
  <2> QED BY <2>1, <2>2
<1> QED BY <1>1, <1>3 DEF ProgressInv

\* A writer that does nothing has nothing to keep.
LEMMA IdleIs == Progress!Idle.at = "idle" /\ \A E : WriterOK(Progress!Idle, E)
  BY DEF Progress!Idle, WriterOK

\* A writer asks for the lock with its field and a stamp (Record).
LEMMA WriterRecordOK ==
  ASSUME ProgressInv, NEW w \in Writers, NEW f \in Fields, Progress!Record(w, f) PROVE ProgressInv'
<1> DEFINE r == [at |-> "waiting", field |-> f, stamp |-> clock]
<1>1. Progress!Does(w, r) /\ UNCHANGED <<doc, lock, clock, evidence>>
  BY DEF Progress!Record
<1>2. WriterOK(r, evidence) /\ r.at = "waiting"
  BY DEF WriterOK, ProgressInv
<1> HIDE DEF r
<1> QED BY <1>1, <1>2, WriterMoves

\* A writer gets the lock.
LEMMA AcquireOK ==
  ASSUME ProgressInv, NEW w \in Writers, Progress!Acquire(w) PROVE ProgressInv'
<1> DEFINE q == writer[w]
           r == [writer[w] EXCEPT !.at = "locked"]
<1>1. Progress!Does(w, r) /\ UNCHANGED <<doc, clock, evidence>> /\ lock' = w /\ lock = Progress!Nobody /\ q.at = "waiting"
  BY DEF Progress!Acquire
<1>2. WriterOK(q, evidence)
  BY DEF ProgressInv
<1>3. r = [at |-> "locked", field |-> q.field, stamp |-> q.stamp]
  BY <1>1, <1>2 DEF WriterOK
<1>4. WriterOK(r, evidence) /\ r.at = "locked"
  BY <1>1, <1>2, <1>3 DEF WriterOK
<1> HIDE DEF r
<1> QED BY <1>1, <1>4, WriterMoves

\* A writer stops waiting for it.
LEMMA GiveUpOK ==
  ASSUME ProgressInv, NEW w \in Writers, Progress!GiveUp(w) PROVE ProgressInv'
<1>1. Progress!Does(w, Progress!Idle) /\ UNCHANGED <<doc, clock, evidence, lock>>
  BY DEF Progress!GiveUp
<1> QED BY <1>1, IdleIs, WriterMoves

\* A write that fails leaves the document as it was.
LEMMA WriteFailsOK ==
  ASSUME ProgressInv, NEW w \in Writers, Progress!WriteFails(w) PROVE ProgressInv'
<1>1. Progress!Does(w, Progress!Idle) /\ UNCHANGED <<doc, clock, evidence>>
      /\ lock' = IF lock = w THEN Progress!Nobody ELSE lock
  BY DEF Progress!WriteFails, Progress!Leaves
<1>2. lock' = lock \/ lock = w
  BY <1>1
<1> QED BY <1>1, <1>2, IdleIs, WriterMoves

\* The holder of the lock is the only one that reads or writes.
LEMMA HolderMoves ==
  ASSUME ProgressInv, NEW w \in Writers, writer[w].at \in {"locked", "read"}, NEW r, Progress!Does(w, r),
         WriterOK(r, evidence'), r.at \in {"locked", "read"} => lock' = w, clock' = clock,
         doc' \in [Fields -> Nat], evidence' \in [Fields -> Nat], \A f \in Fields : doc'[f] >= evidence'[f]
  PROVE  ProgressInv'
<1>1. writer' = [v \in Writers |-> writer'[v]] /\ writer'[w] = r /\ \A v \in Writers \ {w} : writer'[v] = writer[v]
  BY DEF Progress!Does, ProgressInv
<1>3. ASSUME NEW v \in Writers PROVE WriterOK(writer'[v], evidence') /\ (writer'[v].at \in {"locked", "read"} => lock' = v)
  <2>1. CASE v = w
    BY <1>1, <2>1
  <2>2. CASE v # w
    <3>1. writer'[v] = writer[v] /\ writer[v].at \notin {"locked", "read"}
      BY <1>1, <2>2 DEF ProgressInv
    <3> QED BY <3>1 DEF ProgressInv, WriterOK
  <2> QED BY <2>1, <2>2
<1> QED BY <1>1, <1>3 DEF ProgressInv

\* What the holder of the lock reads lacks no evidence.
LEMMA ReadDocumentOK ==
  ASSUME ProgressInv, NEW w \in Writers, Progress!ReadDocument(w) PROVE ProgressInv'
<1>1. writer[w].at = "locked" /\ UNCHANGED <<doc, lock, clock>> /\ lock = w
  BY DEF Progress!ReadDocument, ProgressInv
<1>2. PICK snap \in {doc, Progress!Blank} :
        /\ evidence' = IF snap = doc THEN evidence ELSE Progress!Blank
        /\ Progress!Does(w, [at |-> "read", field |-> writer[w].field, stamp |-> writer[w].stamp, seen |-> snap])
  BY DEF Progress!ReadDocument
<1> DEFINE r == [at |-> "read", field |-> writer[w].field, stamp |-> writer[w].stamp, seen |-> snap]
<1>3. WriterOK(writer[w], evidence)
  BY DEF ProgressInv
<1>4. snap \in [Fields -> Nat] /\ evidence' \in [Fields -> Nat]
  BY <1>2 DEF ProgressInv, Progress!Blank
<1>5. \A f \in Fields : snap[f] >= evidence'[f] /\ doc[f] >= evidence'[f]
  BY <1>2 DEF ProgressInv, Progress!Blank
<1>6. r.at = "read" /\ r.field = writer[w].field /\ r.stamp = writer[w].stamp /\ r.seen = snap
  OBVIOUS
<1> HIDE DEF r
<1>7. WriterOK(r, evidence')
  BY <1>1, <1>3, <1>4, <1>5, <1>6 DEF WriterOK
<1>8. doc' \in [Fields -> Nat] /\ \A f \in Fields : doc'[f] >= evidence'[f]
  BY <1>1, <1>5 DEF ProgressInv
<1>9. Progress!Does(w, r)
  BY <1>2 DEF r
<1> QED BY <1>1, <1>4, <1>7, <1>8, <1>9, HolderMoves

\* What it writes keeps the newer stamp of every field.
LEMMA WriteDocumentOK ==
  ASSUME ProgressInv, NEW w \in Writers, Progress!WriteDocument(w) PROVE ProgressInv'
<1> DEFINE r == writer[w]
           st == IF r.seen[r.field] > r.stamp THEN r.seen[r.field] ELSE r.stamp
           ev == IF evidence[r.field] > r.stamp THEN evidence[r.field] ELSE r.stamp
<1>1. /\ r.at = "read" /\ doc' = [r.seen EXCEPT ![r.field] = st] /\ evidence' = [evidence EXCEPT ![r.field] = ev]
      /\ Progress!Does(w, Progress!Idle) /\ clock' = clock
  BY DEF Progress!WriteDocument, Progress!LaterIso
<1>2. WriterOK(r, evidence) /\ evidence \in [Fields -> Nat]
  BY DEF ProgressInv
<1>3. /\ r.field \in Fields /\ r.stamp \in Nat /\ r.seen \in [Fields -> Nat]
      /\ \A f \in Fields : r.seen[f] >= evidence[f]
  BY <1>1, <1>2 DEF WriterOK
<1>4. st \in Nat /\ ev \in Nat /\ st >= ev
  BY <1>2, <1>3
<1> HIDE DEF st, ev
<1>5. doc' \in [Fields -> Nat] /\ evidence' \in [Fields -> Nat]
  BY <1>1, <1>2, <1>3, <1>4
<1>6. \A f \in Fields : doc'[f] >= evidence'[f]
  BY <1>1, <1>2, <1>3, <1>4
<1>7. writer[w].at \in {"locked", "read"}
  BY <1>1
<1> HIDE DEF r
<1> QED BY <1>1, <1>5, <1>6, <1>7, IdleIs, HolderMoves

\* Nothing but the clock moves.
LEMMA ProgressRests ==
  ASSUME ProgressInv, UNCHANGED <<doc, writer, lock, evidence>>, clock' \in Nat PROVE ProgressInv'
  BY DEF ProgressInv

\* Every step of the writers keeps the evidence.
LEMMA ProgressStep == ProgressInv /\ Progress!ProgressNext => ProgressInv'
<1> SUFFICES ASSUME ProgressInv, Progress!ProgressNext PROVE ProgressInv'
  OBVIOUS
<1>1. CASE Progress!Tick
  <2>1. clock' \in Nat /\ UNCHANGED <<doc, writer, lock, evidence>>
    BY <1>1 DEF Progress!Tick, ProgressInv
  <2> QED BY <2>1, ProgressRests
<1>2. ASSUME NEW w \in Writers,
        \/ \E f \in Fields : Progress!Record(w, f)
        \/ Progress!Acquire(w) \/ Progress!GiveUp(w) \/ Progress!ReadDocument(w)
        \/ Progress!WriteDocument(w) \/ Progress!WriteFails(w)
      PROVE ProgressInv'
  BY <1>2, WriterRecordOK, AcquireOK, GiveUpOK, ReadDocumentOK, WriteDocumentOK, WriteFailsOK
<1> QED BY <1>1, <1>2 DEF Progress!ProgressNext

-----------------------------------------------------------------------------
\* The A2A gateway, from here on.
Places == {"new", "auth", "join", "sent", "lookup", "post", "poll", "rpc", "done"}
Calls == {"none", "introspect", "list", "page", "history", "ticket"}
Results == {"none", "auth", "failed", "submitted", "empty", "not_found", "completed", "timeout", "denied", "sent"}
ReqType == [pc : Places, job : Gateway!Jobs, op : Calls, tok : Nat, try : Nat, first : Nat,
            left : Seq(Nat), got : Nat, checks : Nat, res : Results]

\* No message m stands in the room rm after position n.
NotLater(m, rm, n) == \A i \in DOMAIN rm : rm[i] = m => i <= n

\* A retry is owed a token newer than the one refused: the cache c holds none
\* or a newer one, and n tokens have been issued.
TokenOK(r, c, n) ==
  /\ r.tok <= n /\ r.first <= n
  /\ r.try = 1 => c = 0 \/ c > r.first
  /\ r.pc = "sent" /\ r.try = 1 => r.tok > r.first

\* A request that projects the task looks last at a message that is not before
\* its own.
AnswerOK(r, rm, ans) ==
  /\ r.res = "completed" => r.pc = "done"
  /\ r.pc = "post" => r.job.kind = "send"
  /\ r.op = "page" => r.job.kind # "send"
  /\ r.pc \in {"auth", "join", "sent"} /\ r.op = "history" => r.left # <<>>
  /\ r.job.kind = "send" =>
       /\ r.op \in {"list", "history"} \/ r.pc = "poll" \/ r.res = "completed" =>
            \E i \in DOMAIN rm : rm[i] = r.job.m
       /\ r.pc \in {"auth", "join", "sent"} /\ r.op = "history" => NotLater(r.job.m, rm, r.left[Len(r.left)])
       /\ r.res = "completed" => NotLater(r.job.m, rm, r.got) /\ r.got \in ans

RequestOK(r, rm, ans, c, n) == r \in ReqType /\ TokenOK(r, c, n) /\ AnswerOK(r, rm, ans)

GatewayInv ==
  /\ room \in Seq(Messages) /\ cached \in Nat /\ issued \in Nat /\ cached <= issued
  /\ req = [r \in Requests |-> req[r]]
  /\ \A r \in Requests : RequestOK(req[r], room, answered, cached, issued)

\* A request before it begins.
LEMMA JobsIn ==
  ASSUME NEW j \in Gateway!Jobs
  PROVE  /\ Gateway!Request(j) \in ReqType /\ Gateway!Request(j).tok = 0 /\ Gateway!Request(j).first = 0
         /\ Gateway!Request(j).try = 0 /\ Gateway!Request(j).pc = "new" /\ Gateway!Request(j).op = "none"
         /\ Gateway!Request(j).res = "none"
<1>1. <<>> \in Seq(Nat)
  OBVIOUS
<1> QED BY <1>1 DEF Gateway!Request, ReqType, Places, Calls, Results

\* An empty room, no token, requests that have not begun.
LEMMA GatewayInitially == Gateway!GatewayInit => GatewayInv
<1> SUFFICES ASSUME Gateway!GatewayInit PROVE GatewayInv
  OBVIOUS
<1>1. room = <<>> /\ cached = 0 /\ issued = 0 /\ req \in [Requests -> {Gateway!Request(j) : j \in Gateway!Jobs}]
  BY DEF Gateway!GatewayInit
<1>2. ASSUME NEW r \in Requests PROVE RequestOK(req[r], room, answered, cached, issued)
  <2>1. PICK j \in Gateway!Jobs : req[r] = Gateway!Request(j)
    BY <1>1
  <2> QED BY <1>1, <2>1, JobsIn DEF RequestOK, TokenOK, AnswerOK
<1> QED BY <1>1, <1>2 DEF GatewayInv

\* A call that starts, field by field.
LEMMA CallingIs ==
  ASSUME NEW r \in ReqType, NEW o \in Calls, NEW q, q = Gateway!Calling(r, o)
  PROVE  /\ q \in ReqType /\ q.pc = "auth" /\ q.op = o /\ q.try = 0 /\ q.tok = 0 /\ q.first = 0
         /\ q.job = r.job /\ q.left = r.left /\ q.got = r.got /\ q.checks = r.checks /\ q.res = r.res
  BY DEF Gateway!Calling, ReqType, Places

\* A request that ends, field by field.
LEMMA EndedIs ==
  ASSUME NEW r \in ReqType, NEW s \in Results, NEW q, q = Gateway!Ended(r, s)
  PROVE  /\ q \in ReqType /\ q.pc = "done" /\ q.op = "none" /\ q.try = 0 /\ q.tok = 0 /\ q.first = 0
         /\ q.job = r.job /\ q.got = r.got /\ q.res = s
<1>1. <<>> \in Seq(Nat)
  OBVIOUS
<1> QED BY <1>1 DEF Gateway!Ended, ReqType, Places, Calls

\* Replies and other messages do not disturb a request.
LEMMA RoomGrows ==
  ASSUME NEW r, NEW rm, NEW rn, NEW ans, NEW an2, AnswerOK(r, rm, ans), ans \subseteq an2,
         \A i \in DOMAIN rm : i \in DOMAIN rn /\ rn[i] = rm[i],
         \A i \in DOMAIN rn \ DOMAIN rm : \A k \in DOMAIN rm : rn[i] # rm[k]
  PROVE  AnswerOK(r, rn, an2)
<1>1. ASSUME NEW m, NEW n, NotLater(m, rm, n), \E i \in DOMAIN rm : rm[i] = m PROVE NotLater(m, rn, n)
  BY <1>1 DEF NotLater
<1> QED BY <1>1 DEF AnswerOK

\* The room with message m in it: nothing moves, and only m may be new.
GrownBy(m, rn) ==
  /\ rn \in Seq(Messages)
  /\ \A i \in DOMAIN room : i \in DOMAIN rn /\ rn[i] = room[i]
  /\ \A i \in DOMAIN rn \ DOMAIN room : \A k \in DOMAIN room : rn[i] # room[k]
  /\ \E i \in DOMAIN rn : rn[i] = m

\* Posting adds at most one message, at the end.
LEMMA PostedGrows ==
  ASSUME NEW m \in Messages, room \in Seq(Messages)
  PROVE  GrownBy(m, Gateway!Posted(m))
<1> DEFINE rn == Gateway!Posted(m)
<1> SUFFICES GrownBy(m, rn)
  OBVIOUS
<1> USE DEF GrownBy
<1>1. CASE m \in Gateway!Range(room)
  BY <1>1 DEF Gateway!Posted, Gateway!Range
<1>2. CASE m \notin Gateway!Range(room)
  <2>1. rn = Append(room, m) /\ \A k \in DOMAIN room : room[k] # m
    BY <1>2 DEF Gateway!Posted, Gateway!Range
  <2>2. /\ rn \in Seq(Messages) /\ DOMAIN room = 1..Len(room) /\ DOMAIN rn = 1..(Len(room) + 1)
        /\ rn[Len(room) + 1] = m /\ \A i \in 1..Len(room) : rn[i] = room[i]
    BY <2>1
  <2>3. Len(room) \in Nat
    OBVIOUS
  <2>4. \A i \in DOMAIN rn \ DOMAIN room : i = Len(room) + 1
    BY <2>2, <2>3
  <2>5. Len(room) + 1 \in DOMAIN rn
    BY <2>2, <2>3
  <2> QED BY <2>1, <2>2, <2>4, <2>5, <2>3
<1> QED BY <1>1, <1>2

\* One request moves; what the others see of the room and the tokens may change
\* in the ways below.
LEMMA RequestMoves ==
  ASSUME GatewayInv, NEW r \in Requests, NEW q, req' = [req EXCEPT ![r] = q],
         RequestOK(q, room', answered', cached', issued'),
         room' \in Seq(Messages), answered \subseteq answered',
         \A i \in DOMAIN room : i \in DOMAIN room' /\ room'[i] = room[i],
         \A i \in DOMAIN room' \ DOMAIN room : \A k \in DOMAIN room : room'[i] # room[k],
         cached' \in {cached, 0}, issued' = issued
  PROVE  GatewayInv'
<1>1. req' = [s \in Requests |-> req'[s]] /\ req'[r] = q /\ \A s \in Requests \ {r} : req'[s] = req[s]
  BY DEF GatewayInv
<1>2. ASSUME NEW s \in Requests PROVE RequestOK(req'[s], room', answered', cached', issued')
  <2>1. CASE s = r
    BY <1>1, <2>1
  <2>2. CASE s # r
    <3>1. RequestOK(req[s], room, answered, cached, issued) /\ req'[s] = req[s]
      BY <1>1, <2>2 DEF GatewayInv
    <3>2. AnswerOK(req[s], room', answered')
      BY <3>1, RoomGrows DEF RequestOK
    <3>3. TokenOK(req[s], cached', issued')
      BY <3>1 DEF RequestOK, TokenOK
    <3> QED BY <3>1, <3>2, <3>3 DEF RequestOK
  <2> QED BY <2>1, <2>2
<1>3. cached' \in Nat /\ issued' \in Nat /\ cached' <= issued'
  BY DEF GatewayInv
<1> QED BY <1>1, <1>2, <1>3 DEF GatewayInv

\* The same with the room and the tokens as they are.
LEMMA RequestAlone ==
  ASSUME GatewayInv, NEW r \in Requests, NEW q, req' = [req EXCEPT ![r] = q],
         RequestOK(q, room, answered, cached, issued), UNCHANGED <<room, answered, cached, issued>>
  PROVE  GatewayInv'
<1>1. room \in Seq(Messages)
  BY DEF GatewayInv
<1> QED BY <1>1, RequestMoves

\* A request that ends without "completed" asks for nothing more.
LEMMA EndedOK ==
  ASSUME NEW r \in ReqType, NEW s \in Results \ {"completed"}, NEW rm, NEW ans, NEW c, NEW n \in Nat,
         NEW q, q = Gateway!Ended(r, s)
  PROVE  RequestOK(q, rm, ans, c, n)
  BY EndedIs DEF RequestOK, TokenOK, AnswerOK

\* A new call starts without a token and without a refused one.
LEMMA CallingOK ==
  ASSUME NEW r \in ReqType, NEW o \in Calls \ {"history"}, NEW rm, NEW ans, NEW c, NEW n \in Nat,
         r.res # "completed", o = "page" => r.job.kind # "send",
         o = "list" /\ r.job.kind = "send" => \E i \in DOMAIN rm : rm[i] = r.job.m,
         NEW q, q = Gateway!Calling(r, o)
  PROVE  RequestOK(q, rm, ans, c, n)
  BY CallingIs DEF RequestOK, TokenOK, AnswerOK

\* A request that only goes on to another place.
LEMMA PlaceOK ==
  ASSUME NEW r, NEW p \in Places, NEW rm, NEW ans, NEW c, NEW n, RequestOK(r, rm, ans, c, n),
         r.res # "completed", p # "poll", p # "sent", p = "post" => r.job.kind = "send",
         p \in {"auth", "join"} => r.pc \in {"auth", "join", "sent"},
         NEW q, q = [r EXCEPT !.pc = p]
  PROVE  RequestOK(q, rm, ans, c, n)
<1>1. r \in ReqType
  BY DEF RequestOK
<1>2. /\ q \in ReqType /\ q.pc = p /\ q.op = r.op /\ q.try = r.try /\ q.tok = r.tok /\ q.first = r.first
      /\ q.job = r.job /\ q.left = r.left /\ q.got = r.got /\ q.checks = r.checks /\ q.res = r.res
  BY <1>1 DEF ReqType
<1> QED BY <1>2 DEF RequestOK, TokenOK, AnswerOK

\* A request under way has not been told "completed".
LEMMA NotCompleted ==
  ASSUME GatewayInv, NEW r \in Requests, req[r].pc # "done" PROVE req[r].res # "completed"
  BY DEF GatewayInv, RequestOK, AnswerOK

\* A request begins.
LEMMA BeginOK ==
  ASSUME GatewayInv, NEW r \in Requests, Gateway!Begin(r) PROVE GatewayInv'
<1>0. /\ RequestOK(req[r], room, answered, cached, issued) /\ req[r] \in ReqType
      /\ cached \in Nat /\ issued \in Nat /\ cached <= issued /\ room \in Seq(Messages)
  BY DEF GatewayInv, RequestOK
<1>1. req[r].pc = "new" /\ req[r].res # "completed" /\ UNCHANGED <<room, answered, cached, issued>>
  BY NotCompleted DEF Gateway!Begin
<1>2. CASE req[r].job.kind = "outbound"
  <2> DEFINE q == [req[r] EXCEPT !.pc = "lookup"]
  <2>1. req' = [req EXCEPT ![r] = q]
    BY <1>2 DEF Gateway!Begin
  <2>2. RequestOK(q, room, answered, cached, issued)
    BY <1>0, <1>1, PlaceOK DEF Places
  <2> HIDE DEF q
  <2> QED BY <1>1, <2>1, <2>2, RequestAlone
<1>3. CASE req[r].job.kind # "outbound"
  <2> DEFINE q == Gateway!Calling(req[r], "introspect")
  <2>1. req' = [req EXCEPT ![r] = q]
    BY <1>3 DEF Gateway!Begin
  <2>2. RequestOK(q, room, answered, cached, issued)
    BY <1>0, <1>1, CallingOK DEF Calls
  <2> HIDE DEF q
  <2> QED BY <1>1, <2>1, <2>2, RequestAlone
<1> QED BY <1>2, <1>3

\* A call takes the cached token, or waits for the exchange.
LEMMA AccessTokenOK ==
  ASSUME GatewayInv, NEW r \in Requests, Gateway!AccessToken(r) PROVE GatewayInv'
<1>0. /\ RequestOK(req[r], room, answered, cached, issued) /\ req[r] \in ReqType
      /\ cached \in Nat /\ issued \in Nat /\ cached <= issued /\ room \in Seq(Messages)
  BY DEF GatewayInv, RequestOK
<1>1. req[r].pc = "auth" /\ req[r].res # "completed" /\ UNCHANGED <<room, answered, cached, issued>>
  BY NotCompleted DEF Gateway!AccessToken
<1>2. CASE cached # 0
  <2> DEFINE q == [req[r] EXCEPT !.pc = "sent", !.tok = cached]
  <2>1. req' = [req EXCEPT ![r] = q]
    BY <1>2 DEF Gateway!AccessToken, GatewayInv
  <2>2. /\ q \in ReqType /\ q.pc = "sent" /\ q.op = req[r].op /\ q.try = req[r].try /\ q.tok = cached
        /\ q.first = req[r].first /\ q.job = req[r].job /\ q.left = req[r].left /\ q.got = req[r].got
        /\ q.res = req[r].res
    BY <1>0 DEF ReqType, Places
  <2> HIDE DEF q
  <2>3. RequestOK(q, room, answered, cached, issued)
    BY <1>0, <1>1, <1>2, <2>2 DEF RequestOK, TokenOK, AnswerOK
  <2> QED BY <1>1, <2>1, <2>3, RequestAlone
<1>3. CASE cached = 0
  <2> DEFINE q == [req[r] EXCEPT !.pc = "join"]
  <2>1. req' = [req EXCEPT ![r] = q]
    BY <1>3 DEF Gateway!AccessToken, GatewayInv
  <2>2. RequestOK(q, room, answered, cached, issued)
    BY <1>0, <1>1, PlaceOK DEF Places
  <2> HIDE DEF q
  <2> QED BY <1>1, <2>1, <2>2, RequestAlone
<1> QED BY <1>2, <1>3

\* A refused token is dropped from the cache, and is not newer than any to come.
LEMMA RefusedOK ==
  ASSUME GatewayInv, NEW r \in Requests, Gateway!Refused(r) PROVE GatewayInv'
<1>0. /\ RequestOK(req[r], room, answered, cached, issued) /\ req[r] \in ReqType
      /\ cached \in Nat /\ issued \in Nat /\ cached <= issued /\ room \in Seq(Messages)
  BY DEF GatewayInv, RequestOK
<1>1. /\ req[r].pc = "sent" /\ req[r].res # "completed" /\ UNCHANGED <<room, answered, issued>>
      /\ \A i \in DOMAIN room' \ DOMAIN room : \A k \in DOMAIN room : room'[i] # room[k]
  BY NotCompleted DEF Gateway!Refused
<1>2. CASE req[r].try = 0
  <2> DEFINE q == [req[r] EXCEPT !.pc = "auth", !.try = 1, !.first = req[r].tok]
  <2>1. req' = [req EXCEPT ![r] = q] /\ cached' = 0
    BY <1>2 DEF Gateway!Refused, GatewayInv
  <2>2. /\ q \in ReqType /\ q.pc = "auth" /\ q.op = req[r].op /\ q.try = 1 /\ q.tok = req[r].tok
        /\ q.first = req[r].tok /\ q.job = req[r].job /\ q.left = req[r].left /\ q.got = req[r].got
        /\ q.res = req[r].res
    BY <1>0 DEF ReqType, Places
  <2> HIDE DEF q
  <2>3. RequestOK(q, room', answered', cached', issued')
    BY <1>0, <1>1, <2>1, <2>2 DEF RequestOK, TokenOK, AnswerOK
  <2> QED BY <1>0, <1>1, <2>1, <2>3, RequestMoves
<1>3. CASE req[r].try # 0
  <2> DEFINE q == Gateway!Ended(req[r], "auth")
  <2>1. req' = [req EXCEPT ![r] = q] /\ UNCHANGED cached
    BY <1>3 DEF Gateway!Refused
  <2>2. RequestOK(q, room, answered, cached, issued)
    BY <1>0, EndedOK DEF Results
  <2> HIDE DEF q
  <2> QED BY <1>1, <2>1, <2>2, RequestAlone
<1> QED BY <1>2, <1>3

\* A request ends, and the room and the tokens stay.
LEMMA EndsOK ==
  ASSUME GatewayInv, NEW r \in Requests, NEW s \in Results \ {"completed"},
         req' = [req EXCEPT ![r] = Gateway!Ended(req[r], s)], UNCHANGED <<room, answered, cached, issued>>
  PROVE  GatewayInv'
<1>0. /\ RequestOK(req[r], room, answered, cached, issued) /\ req[r] \in ReqType
      /\ cached \in Nat /\ issued \in Nat /\ cached <= issued /\ room \in Seq(Messages)
  BY DEF GatewayInv, RequestOK
<1> DEFINE q == Gateway!Ended(req[r], s)
<1>1. req' = [req EXCEPT ![r] = q]
  OBVIOUS
<1>2. RequestOK(q, room, answered, cached, issued)
  BY <1>0, EndedOK
<1> HIDE DEF q
<1> QED BY <1>1, <1>2, RequestAlone

\* A request starts its next call, and the room and the tokens stay.
LEMMA CallsOK ==
  ASSUME GatewayInv, NEW r \in Requests, NEW o \in Calls \ {"history"}, req[r].pc # "done",
         req' = [req EXCEPT ![r] = Gateway!Calling(req[r], o)], UNCHANGED <<room, answered, cached, issued>>,
         o = "page" => req[r].job.kind # "send",
         o = "list" /\ req[r].job.kind = "send" => \E i \in DOMAIN room : room[i] = req[r].job.m
  PROVE  GatewayInv'
<1>0. /\ RequestOK(req[r], room, answered, cached, issued) /\ req[r] \in ReqType
      /\ cached \in Nat /\ issued \in Nat /\ cached <= issued /\ room \in Seq(Messages)
  BY DEF GatewayInv, RequestOK
<1> DEFINE q == Gateway!Calling(req[r], o)
<1>1. req' = [req EXCEPT ![r] = q]
  OBVIOUS
<1>2. req[r].res # "completed"
  BY NotCompleted
<1>3. RequestOK(q, room, answered, cached, issued)
  BY <1>0, <1>2, CallingOK
<1> HIDE DEF q
<1> QED BY <1>1, <1>3, RequestAlone

\* A request goes on to another place, and the room and the tokens stay.
LEMMA GoesOn ==
  ASSUME GatewayInv, NEW r \in Requests, NEW p \in {"lookup", "post", "rpc"}, req[r].pc # "done",
         p = "post" => req[r].job.kind = "send",
         req' = [req EXCEPT ![r] = [req[r] EXCEPT !.pc = p]], UNCHANGED <<room, answered, cached, issued>>
  PROVE  GatewayInv'
<1>0. /\ RequestOK(req[r], room, answered, cached, issued) /\ req[r] \in ReqType
      /\ cached \in Nat /\ issued \in Nat /\ cached <= issued /\ room \in Seq(Messages)
  BY DEF GatewayInv, RequestOK
<1> DEFINE q == [req[r] EXCEPT !.pc = p]
<1>1. req' = [req EXCEPT ![r] = q]
  OBVIOUS
<1>2. req[r].res # "completed"
  BY NotCompleted
<1>3. RequestOK(q, room, answered, cached, issued)
  BY <1>0, <1>2, PlaceOK DEF Places
<1> HIDE DEF q
<1> QED BY <1>1, <1>3, RequestAlone

\* A call fails.
LEMMA CallFailsOK ==
  ASSUME GatewayInv, NEW r \in Requests, Gateway!CallFails(r) PROVE GatewayInv'
<1>1. req' = [req EXCEPT ![r] = Gateway!Ended(req[r], "failed")] /\ UNCHANGED <<room, answered, cached, issued>>
  BY DEF Gateway!CallFails
<1> QED BY <1>1, EndsOK DEF Results

\* A ticket is good.
LEMMA IntrospectedOK ==
  ASSUME GatewayInv, NEW r \in Requests, Gateway!Introspected(r) PROVE GatewayInv'
<1>1. req[r].pc = "sent" /\ UNCHANGED <<room, answered, cached, issued>>
  BY DEF Gateway!Introspected, Gateway!Accepted
<1>2. CASE req[r].job.kind = "send"
  <2>1. req' = [req EXCEPT ![r] = [req[r] EXCEPT !.pc = "post"]]
    BY <1>2 DEF Gateway!Introspected
  <2> QED BY <1>1, <1>2, <2>1, GoesOn
<1>3. CASE req[r].job.kind # "send"
  <2>1. PICK o \in {"page", "list"} : req' = [req EXCEPT ![r] = Gateway!Calling(req[r], o)]
    BY <1>3 DEF Gateway!Introspected
  <2> QED BY <1>1, <1>3, <2>1, CallsOK DEF Calls
<1> QED BY <1>2, <1>3

\* What is sent is a message.
LEMMA SendIn == \A j \in Gateway!Jobs : j.kind = "send" => j.m \in Messages
  BY DEF Gateway!Jobs

\* The message of a request that posts, in the room.
LEMMA PostOK ==
  ASSUME GatewayInv, NEW r \in Requests, req[r].pc = "post", room' = Gateway!Posted(req[r].job.m),
         NEW q, req' = [req EXCEPT ![r] = q], UNCHANGED <<answered, cached, issued>>,
         \/ \E s \in Results \ {"completed"} : q = Gateway!Ended(req[r], s)
         \/ q = Gateway!Calling(req[r], "list")
  PROVE  GatewayInv'
<1>0. /\ RequestOK(req[r], room, answered, cached, issued) /\ req[r] \in ReqType
      /\ cached \in Nat /\ issued \in Nat /\ cached <= issued /\ room \in Seq(Messages)
  BY DEF GatewayInv, RequestOK
<1>1. req[r].job.kind = "send" /\ req[r].job \in Gateway!Jobs /\ req[r].res # "completed"
  BY <1>0, NotCompleted DEF RequestOK, AnswerOK, ReqType
<1>2. req[r].job.m \in Messages
  BY <1>1, SendIn
<1>3. /\ room' \in Seq(Messages)
      /\ \A i \in DOMAIN room : i \in DOMAIN room' /\ room'[i] = room[i]
      /\ \A i \in DOMAIN room' \ DOMAIN room : \A k \in DOMAIN room : room'[i] # room[k]
      /\ \E i \in DOMAIN room' : room'[i] = req[r].job.m
  <2>1. GrownBy(req[r].job.m, Gateway!Posted(req[r].job.m))
    BY <1>0, <1>2, PostedGrows
  <2> QED BY <2>1 DEF GrownBy
<1>4. CASE q = Gateway!Calling(req[r], "list")
  <2>1. RequestOK(q, room', answered', cached', issued')
    BY <1>0, <1>1, <1>3, <1>4, CallingOK DEF Calls
  <2> QED BY <1>3, <2>1, RequestMoves
<1>5. CASE \E s \in Results \ {"completed"} : q = Gateway!Ended(req[r], s)
  <2>1. RequestOK(q, room', answered', cached', issued')
    BY <1>0, <1>5, EndedOK
  <2> QED BY <1>3, <2>1, RequestMoves
<1> QED BY <1>4, <1>5

\* A message is posted, and its sender leaves or waits.
LEMMA SendMessageOK ==
  ASSUME GatewayInv, NEW r \in Requests, Gateway!SendMessage(r) PROVE GatewayInv'
<1>1. /\ req[r].pc = "post" /\ room' = Gateway!Posted(req[r].job.m) /\ UNCHANGED <<answered, cached, issued>>
  BY DEF Gateway!SendMessage
<1>2. PICK q : req' = [req EXCEPT ![r] = q] /\ q \in {Gateway!Ended(req[r], "submitted"), Gateway!Calling(req[r], "list")}
  BY DEF Gateway!SendMessage
<1> QED BY <1>1, <1>2, PostOK DEF Results

\* A message is posted and the answer lost.
LEMMA SendLostOK ==
  ASSUME GatewayInv, NEW r \in Requests, Gateway!SendLost(r) PROVE GatewayInv'
<1>1. /\ req[r].pc = "post" /\ room' = Gateway!Posted(req[r].job.m) /\ UNCHANGED <<answered, cached, issued>>
  BY DEF Gateway!SendLost
<1>2. PICK q : req' = [req EXCEPT ![r] = q] /\ q = Gateway!Ended(req[r], "failed")
  BY DEF Gateway!SendLost
<1> QED BY <1>1, <1>2, PostOK DEF Results

\* A page of tasks is listed.
LEMMA ListTasksOK ==
  ASSUME GatewayInv, NEW r \in Requests, Gateway!ListTasks(r) PROVE GatewayInv'
<1>1. /\ req[r].pc = "sent" /\ req[r].op = "page" /\ UNCHANGED <<room, answered, cached, issued>>
      /\ \/ req' = [req EXCEPT ![r] = Gateway!Ended(req[r], "empty")]
         \/ req' = [req EXCEPT ![r] = Gateway!Calling(req[r], "list")]
  BY DEF Gateway!ListTasks, Gateway!Accepted
<1>2. req[r].job.kind # "send"
  BY <1>1 DEF GatewayInv, RequestOK, AnswerOK
<1> QED BY <1>1, <1>2, EndsOK, CallsOK DEF Results, Calls

\* A peer stops waiting.
LEMMA GivesUpOK ==
  ASSUME GatewayInv, NEW r \in Requests, Gateway!GivesUp(r) PROVE GatewayInv'
<1>1. req' = [req EXCEPT ![r] = Gateway!Ended(req[r], "timeout")] /\ UNCHANGED <<room, answered, cached, issued>>
  BY DEF Gateway!GivesUp
<1> QED BY <1>1, EndsOK DEF Results

\* The recipient of an outbound call is looked up.
LEMMA LookupOK ==
  ASSUME GatewayInv, NEW r \in Requests, Gateway!Lookup(r) PROVE GatewayInv'
<1>1. /\ req[r].pc = "lookup" /\ UNCHANGED <<room, answered, cached, issued>>
      /\ \/ req' = [req EXCEPT ![r] = Gateway!Calling(req[r], "ticket")]
         \/ req' = [req EXCEPT ![r] = Gateway!Ended(req[r], "not_found")]
  BY DEF Gateway!Lookup
<1> QED BY <1>1, EndsOK, CallsOK DEF Results, Calls

\* A ticket for it is asked for.
LEMMA TicketOK ==
  ASSUME GatewayInv, NEW r \in Requests, Gateway!Ticket(r) PROVE GatewayInv'
<1>1. /\ req[r].pc = "sent" /\ UNCHANGED <<room, answered, cached, issued>>
      /\ \/ req' = [req EXCEPT ![r] = [req[r] EXCEPT !.pc = "rpc"]]
         \/ req' = [req EXCEPT ![r] = Gateway!Ended(req[r], "denied")]
  BY DEF Gateway!Ticket, Gateway!Accepted, GatewayInv
<1> QED BY <1>1, EndsOK, GoesOn DEF Results

\* The peer is called.
LEMMA PeerRpcOK ==
  ASSUME GatewayInv, NEW r \in Requests, Gateway!PeerRpc(r) PROVE GatewayInv'
<1>1. req' = [req EXCEPT ![r] = Gateway!Ended(req[r], "sent")] /\ UNCHANGED <<room, answered, cached, issued>>
  BY DEF Gateway!PeerRpc
<1> QED BY <1>1, EndsOK DEF Results

\* A waiting request projects the task again.
LEMMA PollOK ==
  ASSUME GatewayInv, NEW r \in Requests, Gateway!Poll(r) PROVE GatewayInv'
<1>0. /\ RequestOK(req[r], room, answered, cached, issued) /\ req[r] \in ReqType
      /\ cached \in Nat /\ issued \in Nat /\ cached <= issued /\ room \in Seq(Messages)
  BY DEF GatewayInv, RequestOK
<1>1. /\ req[r].pc = "poll" /\ req[r].res # "completed" /\ UNCHANGED <<room, answered, cached, issued>>
      /\ req' = [req EXCEPT ![r] = [Gateway!Calling(req[r], "list") EXCEPT !.checks = req[r].checks + 1]]
  BY NotCompleted DEF Gateway!Poll
<1> DEFINE p == Gateway!Calling(req[r], "list")
           n == req[r].checks + 1
           q == [p EXCEPT !.checks = n]
<1>2. req[r].job.kind = "send" => \E i \in DOMAIN room : room[i] = req[r].job.m
  BY <1>0, <1>1 DEF RequestOK, AnswerOK
<1>3. RequestOK(p, room, answered, cached, issued)
  BY <1>0, <1>1, <1>2, CallingOK DEF Calls
<1>4. req' = [req EXCEPT ![r] = q]
  BY <1>1
<1>7. n \in Nat /\ p \in ReqType
  BY <1>0, <1>3 DEF RequestOK, ReqType
<1> HIDE DEF p, n
<1>5. /\ q \in ReqType /\ q.pc = p.pc /\ q.op = p.op /\ q.try = p.try /\ q.tok = p.tok /\ q.first = p.first
      /\ q.job = p.job /\ q.left = p.left /\ q.got = p.got /\ q.res = p.res
  BY <1>7 DEF ReqType
<1> HIDE DEF q
<1>6. RequestOK(q, room, answered, cached, issued)
  BY <1>3, <1>5 DEF RequestOK, TokenOK, AnswerOK
<1> QED BY <1>1, <1>4, <1>6, RequestAlone

\* A request that goes on to the messages l, with reply g so far.
LEMMA HistoryOK ==
  ASSUME GatewayInv, NEW r \in Requests, NEW l \in Seq(Nat), NEW g \in Nat, req[r].pc # "done", l # <<>>,
         req' = [req EXCEPT ![r] = [Gateway!Calling(req[r], "history") EXCEPT !.left = l, !.got = g]],
         UNCHANGED <<room, answered, cached, issued>>,
         req[r].job.kind = "send" => (\E i \in DOMAIN room : room[i] = req[r].job.m) /\ NotLater(req[r].job.m, room, l[Len(l)])
  PROVE  GatewayInv'
<1>0. /\ RequestOK(req[r], room, answered, cached, issued) /\ req[r] \in ReqType
      /\ cached \in Nat /\ issued \in Nat /\ cached <= issued /\ room \in Seq(Messages)
  BY DEF GatewayInv, RequestOK
<1> DEFINE p == Gateway!Calling(req[r], "history")
           q == [p EXCEPT !.left = l, !.got = g]
<1>1. req' = [req EXCEPT ![r] = q]
  OBVIOUS
<1>2. req[r].res # "completed"
  BY NotCompleted
<1>3. /\ p \in ReqType /\ p.pc = "auth" /\ p.op = "history" /\ p.try = 0 /\ p.tok = 0 /\ p.first = 0
      /\ p.job = req[r].job /\ p.res = req[r].res
  BY <1>0, CallingIs DEF Calls
<1> HIDE DEF p
<1>4. /\ q \in ReqType /\ q.pc = p.pc /\ q.op = p.op /\ q.try = p.try /\ q.tok = p.tok /\ q.first = p.first
      /\ q.job = p.job /\ q.left = l /\ q.got = g /\ q.res = p.res
  BY <1>3 DEF ReqType
<1> HIDE DEF q
<1>5. RequestOK(q, room, answered, cached, issued)
  BY <1>0, <1>2, <1>3, <1>4 DEF RequestOK, TokenOK, AnswerOK
<1> QED BY <1>1, <1>5, RequestAlone

\* The last message listed is not before the one the request posted.
LEMMA ListCorrelationsOK ==
  ASSUME GatewayInv, NEW r \in Requests, Gateway!ListCorrelations(r) PROVE GatewayInv'
<1>0. /\ RequestOK(req[r], room, answered, cached, issued) /\ req[r] \in ReqType
      /\ cached \in Nat /\ issued \in Nat /\ cached <= issued /\ room \in Seq(Messages)
  BY DEF GatewayInv, RequestOK
<1>1. req[r].pc = "sent" /\ req[r].op = "list" /\ UNCHANGED <<room, answered, cached, issued>>
  BY DEF Gateway!ListCorrelations, Gateway!Accepted
<1>2. CASE room = <<>>
  <2>1. req' = [req EXCEPT ![r] = Gateway!Ended(req[r], "not_found")]
    BY <1>2 DEF Gateway!ListCorrelations
  <2> QED BY <1>1, <2>1, EndsOK DEF Results
<1>3. CASE room # <<>> /\ Len(room) > MaxContinuations
  <2>1. req' = [req EXCEPT ![r] = Gateway!Ended(req[r], "failed")]
    BY <1>3 DEF Gateway!ListCorrelations
  <2> QED BY <1>1, <2>1, EndsOK DEF Results
<1>4. CASE room # <<>> /\ ~(Len(room) > MaxContinuations)
  <2> DEFINE l == Gateway!Correlations
             g == 0
  <2>1. req' = [req EXCEPT ![r] = [Gateway!Calling(req[r], "history") EXCEPT !.left = l, !.got = g]]
    BY <1>4 DEF Gateway!ListCorrelations
  <2>2. Len(room) \in Nat /\ Len(room) # 0 /\ DOMAIN room = 1..Len(room)
    BY <1>0, <1>4
  <2>3. l = [k \in 1..Len(room) |-> k]
    BY <2>2 DEF Gateway!Correlations
  <2>4. l \in Seq(Nat) /\ Len(l) = Len(room) /\ l # <<>> /\ l[Len(l)] = Len(room)
    BY <2>2, <2>3
  <2>5. NotLater(req[r].job.m, room, Len(room))
    BY <2>2 DEF NotLater
  <2>6. req[r].job.kind = "send" => \E i \in DOMAIN room : room[i] = req[r].job.m
    BY <1>0, <1>1 DEF RequestOK, AnswerOK
  <2>7. g \in Nat
    OBVIOUS
  <2> HIDE DEF l, g
  <2> QED BY <1>1, <2>1, <2>4, <2>5, <2>6, <2>7, HistoryOK
<1> QED BY <1>2, <1>3, <1>4

\* The reply to the last message listed decides.
LEMMA ProjectCorrelationOK ==
  ASSUME GatewayInv, NEW r \in Requests, Gateway!ProjectCorrelation(r) PROVE GatewayInv'
<1>0. /\ RequestOK(req[r], room, answered, cached, issued) /\ req[r] \in ReqType
      /\ cached \in Nat /\ issued \in Nat /\ cached <= issued /\ room \in Seq(Messages)
  BY DEF GatewayInv, RequestOK
<1>1. req[r].pc = "sent" /\ req[r].op = "history" /\ req[r].res # "completed" /\ UNCHANGED <<room, answered, cached, issued>>
  BY NotCompleted DEF Gateway!ProjectCorrelation, Gateway!Accepted
<1> DEFINE l == req[r].left
           g == Gateway!Latest(Head(l), req[r].got)
<1>2. l \in Seq(Nat) /\ l # <<>> /\ (req[r].job.kind = "send" => NotLater(req[r].job.m, room, l[Len(l)]))
  BY <1>0, <1>1 DEF RequestOK, AnswerOK, ReqType
<1>3. Head(l) \in Nat /\ Tail(l) \in Seq(Nat) /\ Len(l) \in Nat
  BY <1>2
<1>4. g \in Nat /\ (g # 0 => g = Head(l) /\ g \in answered)
  BY <1>3 DEF Gateway!Latest
<1>5. req[r].job.kind = "send" => \E i \in DOMAIN room : room[i] = req[r].job.m
  BY <1>0, <1>1 DEF RequestOK, AnswerOK
<1>6. CASE Tail(l) # <<>>
  <2> DEFINE t == Tail(l)
  <2>1. req' = [req EXCEPT ![r] = [Gateway!Calling(req[r], "history") EXCEPT !.left = t, !.got = g]]
    BY <1>6 DEF Gateway!ProjectCorrelation
  <2>2. t[Len(t)] = l[Len(l)]
    BY <1>2, <1>6
  <2>3. t \in Seq(Nat) /\ t # <<>>
    BY <1>3, <1>6
  <2> HIDE DEF t, g, l
  <2> QED BY <1>1, <1>2, <1>4, <1>5, <2>1, <2>2, <2>3, HistoryOK
<1>7. CASE Tail(l) = <<>>
  <2>1. Len(l) = 1 /\ l[Len(l)] = Head(l)
    <3> HIDE DEF l
    <3>1. Len(Tail(l)) = Len(l) - 1 /\ Len(<<>>) = 0 /\ Head(l) = l[1]
      BY <1>2
    <3>2. Len(Tail(l)) = Len(<<>>)
      BY <1>7, Zenon
    <3> DEFINE n == Len(l)
               k == Len(Tail(l))
    <3>4. k = n - 1 /\ k = 0
      BY <3>1, <3>2
    <3>5. n \in Nat
      BY <1>3
    <3> HIDE DEF n, k
    <3>6. n = 1
      BY <3>4, <3>5
    <3>3. Len(l) = 1
      BY <3>6 DEF n
    <3> QED BY <3>1, <3>3
  <2>2. req' = [req EXCEPT ![r] = Gateway!Projected(req[r], g)]
    BY <1>7 DEF Gateway!ProjectCorrelation
  <2> HIDE DEF g
  <2> DEFINE p == [req[r] EXCEPT !.got = g]
  <2>3. p \in ReqType /\ p.job = req[r].job /\ p.got = g
    BY <1>0, <1>4 DEF ReqType
  <2>4. CASE g # 0
    <3> DEFINE q == Gateway!Ended(p, "completed")
    <3>1. req' = [req EXCEPT ![r] = q]
      BY <2>2, <2>4 DEF Gateway!Projected
    <3> HIDE DEF p
    <3>2. /\ q \in ReqType /\ q.pc = "done" /\ q.op = "none" /\ q.try = 0 /\ q.tok = 0 /\ q.first = 0
          /\ q.job = req[r].job /\ q.got = g /\ q.res = "completed"
      BY <2>3, EndedIs DEF Results
    <3> HIDE DEF q
    <3>3. RequestOK(q, room, answered, cached, issued)
      BY <1>0, <1>2, <1>4, <1>5, <2>1, <2>4, <3>2 DEF RequestOK, TokenOK, AnswerOK
    <3> QED BY <1>1, <3>1, <3>3, RequestAlone
  <2>5. CASE g = 0 /\ req[r].job.kind = "send"
    <3> DEFINE q == [req[r] EXCEPT !.pc = "poll", !.left = <<>>, !.got = 0]
    <3>1. req' = [req EXCEPT ![r] = q]
      BY <2>2, <2>5 DEF Gateway!Projected
    <3>2. <<>> \in Seq(Nat)
      OBVIOUS
    <3>3. /\ q \in ReqType /\ q.pc = "poll" /\ q.op = req[r].op /\ q.try = req[r].try /\ q.tok = req[r].tok
          /\ q.first = req[r].first /\ q.job = req[r].job /\ q.res = req[r].res
      BY <1>0, <3>2 DEF ReqType, Places
    <3> HIDE DEF q
    <3>4. RequestOK(q, room, answered, cached, issued)
      BY <1>0, <1>1, <1>5, <2>5, <3>3 DEF RequestOK, TokenOK, AnswerOK
    <3> QED BY <1>1, <3>1, <3>4, RequestAlone
  <2>6. CASE g = 0 /\ req[r].job.kind # "send"
    <3> DEFINE q == Gateway!Ended(p, "submitted")
    <3>1. req' = [req EXCEPT ![r] = q]
      BY <2>2, <2>6 DEF Gateway!Projected
    <3> HIDE DEF p
    <3>2. RequestOK(q, room, answered, cached, issued)
      BY <1>0, <2>3, EndedOK DEF Results
    <3> HIDE DEF q
    <3> QED BY <1>1, <3>1, <3>2, RequestAlone
  <2> QED BY <2>4, <2>5, <2>6
<1> QED BY <1>6, <1>7

\* A new token is newer than every refused one.
LEMMA ExchangeOK ==
  ASSUME GatewayInv, Gateway!Exchange PROVE GatewayInv'
<1>0. cached \in Nat /\ issued \in Nat /\ cached <= issued /\ room \in Seq(Messages)
  BY DEF GatewayInv
<1>1. issued' = issued + 1 /\ cached' = issued' /\ UNCHANGED <<room, answered>>
  BY DEF Gateway!Exchange
<1>2. req' = [r \in Requests |-> IF req[r].pc # "join" THEN req[r]
                              ELSE [req[r] EXCEPT !.pc = "sent", !.tok = issued']]
  BY DEF Gateway!Exchange
<1>3. ASSUME NEW r \in Requests PROVE RequestOK(req'[r], room, answered, issued + 1, issued + 1)
  <2>1. RequestOK(req[r], room, answered, cached, issued) /\ req[r] \in ReqType
    BY DEF GatewayInv, RequestOK
  <2>2. CASE req[r].pc # "join"
    <3>1. req'[r] = req[r]
      BY <1>2, <2>2
    <3> QED BY <1>0, <2>1, <3>1 DEF RequestOK, TokenOK, ReqType
  <2>3. CASE req[r].pc = "join"
    <3> DEFINE n == issued + 1
               q == [req[r] EXCEPT !.pc = "sent", !.tok = n]
    <3>1. req'[r] = q
      BY <1>2, <1>1, <2>3
    <3>2. n \in Nat /\ n > issued
      BY <1>0
    <3> HIDE DEF n
    <3>3. /\ q \in ReqType /\ q.pc = "sent" /\ q.op = req[r].op /\ q.try = req[r].try /\ q.tok = n
          /\ q.first = req[r].first /\ q.job = req[r].job /\ q.left = req[r].left /\ q.got = req[r].got
          /\ q.res = req[r].res
      BY <2>1, <3>2 DEF ReqType, Places
    <3> HIDE DEF q
    <3>4. TokenOK(q, n, n)
      BY <1>0, <2>1, <3>2, <3>3 DEF RequestOK, TokenOK, ReqType
    <3>5. AnswerOK(q, room, answered)
      BY <2>1, <2>3, <3>3 DEF RequestOK, AnswerOK
    <3> QED BY <3>1, <3>3, <3>4, <3>5 DEF RequestOK, n
  <2> QED BY <2>2, <2>3
<1>4. req' = [r \in Requests |-> req'[r]]
  <2> DEFINE F(r) == IF req[r].pc # "join" THEN req[r] ELSE [req[r] EXCEPT !.pc = "sent", !.tok = issued']
  <2>1. req' = [r \in Requests |-> F(r)]
    BY <1>2
  <2> HIDE DEF F
  <2> QED BY <2>1
<1>5. cached' = issued + 1 /\ issued' = issued + 1 /\ cached' \in Nat /\ issued' \in Nat /\ cached' <= issued'
  BY <1>0, <1>1
<1> QED BY <1>0, <1>1, <1>3, <1>4, <1>5 DEF GatewayInv

\* Everybody who waits for a failed exchange ends.
LEMMA ExchangeFailsOK ==
  ASSUME GatewayInv, Gateway!ExchangeFails PROVE GatewayInv'
<1>1. /\ UNCHANGED <<room, answered, cached, issued>>
      /\ req' = [r \in Requests |-> IF req[r].pc = "join" THEN Gateway!Ended(req[r], "auth") ELSE req[r]]
  BY DEF Gateway!ExchangeFails
<1>2. ASSUME NEW r \in Requests PROVE RequestOK(req'[r], room, answered, cached, issued)
  <2>1. RequestOK(req[r], room, answered, cached, issued) /\ req[r] \in ReqType /\ issued \in Nat
    BY DEF GatewayInv, RequestOK
  <2>2. CASE req[r].pc # "join"
    <3>1. req'[r] = req[r]
      BY <1>1, <2>2
    <3> QED BY <2>1, <3>1
  <2>3. CASE req[r].pc = "join"
    <3>1. req'[r] = Gateway!Ended(req[r], "auth")
      BY <1>1, <2>3
    <3> QED BY <2>1, <3>1, EndedOK DEF Results
  <2> QED BY <2>2, <2>3
<1>3. req' = [r \in Requests |-> req'[r]]
  BY <1>1
<1> QED BY <1>1, <1>2, <1>3 DEF GatewayInv

\* What the room and the worker do, and tokens that expire, disturb no request.
LEMMA OutsideOK ==
  ASSUME GatewayInv, UNCHANGED <<req, issued>>, room' \in Seq(Messages), answered \subseteq answered',
         \A i \in DOMAIN room : i \in DOMAIN room' /\ room'[i] = room[i],
         \A i \in DOMAIN room' \ DOMAIN room : \A k \in DOMAIN room : room'[i] # room[k],
         cached' \in {cached, 0}
  PROVE  GatewayInv'
<1>1. ASSUME NEW s \in Requests PROVE RequestOK(req[s], room', answered', cached', issued)
  <2>1. RequestOK(req[s], room, answered, cached, issued)
    BY DEF GatewayInv
  <2>2. AnswerOK(req[s], room', answered')
    BY <2>1, RoomGrows DEF RequestOK
  <2>3. TokenOK(req[s], cached', issued)
    BY <2>1 DEF RequestOK, TokenOK
  <2> QED BY <2>1, <2>2, <2>3 DEF RequestOK
<1>2. cached' \in Nat /\ cached' <= issued
  BY DEF GatewayInv
<1> QED BY <1>1, <1>2 DEF GatewayInv

\* Every step of the gateway, of MESH and of the worker.
LEMMA GatewayStep ==
  ASSUME GatewayInv, Gateway!GatewayNext PROVE GatewayInv'
<1>0. room \in Seq(Messages)
  BY DEF GatewayInv
<1>1. ASSUME NEW r \in Requests, Gateway!RequestStep(r) PROVE GatewayInv'
  <2>1. CASE Gateway!Begin(r) \/ Gateway!AccessToken(r) \/ Gateway!Refused(r) \/ Gateway!CallFails(r)
    BY <2>1, BeginOK, AccessTokenOK, RefusedOK, CallFailsOK
  <2>2. CASE \/ Gateway!Introspected(r) \/ Gateway!SendMessage(r) \/ Gateway!SendLost(r)
             \/ Gateway!ListTasks(r) \/ Gateway!ListCorrelations(r)
    BY <2>2, IntrospectedOK, SendMessageOK, SendLostOK, ListTasksOK, ListCorrelationsOK
  <2>3. CASE Gateway!ProjectCorrelation(r) \/ Gateway!Poll(r) \/ Gateway!GivesUp(r)
    BY <2>3, ProjectCorrelationOK, PollOK, GivesUpOK
  <2>4. CASE Gateway!Lookup(r) \/ Gateway!Ticket(r) \/ Gateway!PeerRpc(r)
    BY <2>4, LookupOK, TicketOK, PeerRpcOK
  <2> QED BY <1>1, <2>1, <2>2, <2>3, <2>4 DEF Gateway!RequestStep
<1>2. CASE Gateway!Exchange \/ Gateway!ExchangeFails
  BY <1>2, ExchangeOK, ExchangeFailsOK
<1>3. CASE Gateway!Revoke
  <2>1. UNCHANGED <<req, issued, room, answered>> /\ cached' \in {cached, 0}
    BY <1>3 DEF Gateway!Revoke
  <2> QED BY <1>0, <2>1, OutsideOK
<1>4. ASSUME NEW m \in Messages, Gateway!PostedElsewhere(m) PROVE GatewayInv'
  <2>1. UNCHANGED <<req, issued, answered, cached>> /\ room' = Gateway!Posted(m)
    BY <1>4 DEF Gateway!PostedElsewhere
  <2>2. GrownBy(m, Gateway!Posted(m))
    BY <1>0, PostedGrows
  <2>3. /\ room' \in Seq(Messages)
        /\ \A i \in DOMAIN room : i \in DOMAIN room' /\ room'[i] = room[i]
        /\ \A i \in DOMAIN room' \ DOMAIN room : \A k \in DOMAIN room : room'[i] # room[k]
    BY <2>1, <2>2 DEF GrownBy
  <2> QED BY <2>1, <2>3, OutsideOK
<1>5. ASSUME NEW k \in DOMAIN room \ answered, Gateway!Reply(k) PROVE GatewayInv'
  <2>1. UNCHANGED <<req, issued, room, cached>> /\ answered \subseteq answered'
    BY <1>5 DEF Gateway!Reply
  <2> QED BY <1>0, <2>1, OutsideOK
<1> QED BY <1>1, <1>2, <1>3, <1>4, <1>5 DEF Gateway!GatewayNext

\* The other two parts leave the gateway alone.
LEMMA GatewayRests ==
  ASSUME GatewayInv, UNCHANGED gatewayVars PROVE GatewayInv'
  BY DEF gatewayVars, GatewayInv

\* What the invariant says of answers and tokens.
LEMMA GatewaySafe == GatewayInv => Gateway!AnswerIsNotOlder /\ Gateway!RetryIsFresh
<1> SUFFICES ASSUME GatewayInv PROVE Gateway!AnswerIsNotOlder /\ Gateway!RetryIsFresh
  OBVIOUS
<1>1. Gateway!RetryIsFresh
  BY DEF GatewayInv, RequestOK, TokenOK, Gateway!RetryIsFresh
<1>2. ASSUME NEW r \in Requests, req[r].res = "completed", req[r].job.kind = "send"
      PROVE  /\ req[r].job.m \in Gateway!Range(room) /\ req[r].got >= Gateway!Position(req[r].job.m)
             /\ req[r].got \in answered
  <2>1. /\ \E i \in DOMAIN room : room[i] = req[r].job.m /\ req[r].got \in answered
        /\ NotLater(req[r].job.m, room, req[r].got)
    BY <1>2 DEF GatewayInv, RequestOK, AnswerOK
  <2> DEFINE k == Gateway!Position(req[r].job.m)
  <2>2. k \in DOMAIN room /\ room[k] = req[r].job.m
    BY <2>1 DEF Gateway!Position
  <2>3. k \in Nat /\ req[r].got \in Nat
    BY <2>2 DEF GatewayInv, RequestOK, ReqType
  <2> HIDE DEF k
  <2>4. req[r].got >= k
    BY <2>1, <2>2, <2>3 DEF NotLater
  <2> QED BY <2>1, <2>4 DEF Gateway!Range, k
<1> QED BY <1>1, <1>2 DEF Gateway!AnswerIsNotOlder

-----------------------------------------------------------------------------
\* The three parts together: one of them moves, the others rest.
PartsInv == SetupInv /\ ProgressInv /\ GatewayInv

\* Every behaviour keeps the three invariants.
LEMMA PartsInvariant == MCSpec => []PartsInv
<1>1. MCInit => PartsInv
  BY SetupInitially, ProgressInitially, GatewayInitially DEF MCInit, PartsInv
<1>2. ASSUME PartsInv, [MCNext]_<<part, setupVars, progressVars, gatewayVars>> PROVE PartsInv'
  <2> USE <1>2 DEF PartsInv
  <2>1. CASE SetupNext /\ UNCHANGED <<progressVars, gatewayVars>>
    <3>1. ProgressInv'
      BY <2>1, ProgressRests DEF progressVars, ProgressInv
    <3> QED BY <2>1, <3>1, SetupStep, GatewayRests
  <2>2. CASE Progress!ProgressNext /\ UNCHANGED <<setupVars, gatewayVars>>
    BY <2>2, ProgressStep, SetupRests, GatewayRests
  <2>3. CASE Gateway!GatewayNext /\ UNCHANGED <<setupVars, progressVars>>
    <3>1. ProgressInv'
      BY <2>3, ProgressRests DEF progressVars, ProgressInv
    <3> QED BY <2>3, <3>1, GatewayStep, SetupRests
  <2>4. CASE UNCHANGED <<part, setupVars, progressVars, gatewayVars>>
    <3>1. ProgressInv'
      BY <2>4, ProgressRests DEF progressVars, ProgressInv
    <3> QED BY <2>4, <3>1, SetupRests, GatewayRests
  <2> QED BY <2>1, <2>2, <2>3, <2>4 DEF MCNext
<1> QED BY <1>1, <1>2, PTL DEF MCSpec

\* What a command relies on stays on disk for every set of homes, keys, writers
\* and fields and however many requests are lost or late: an agent the authority
\* made has its key on this device, a service that was added has everything it
\* starts with, and what the progress journal reported as written is not erased
\* (join.mjs, session.mjs, setup-runtime.mjs, the progress journal).  The
\* hypothesis is the one the code needs: where a proxy may answer a join,
\* join.mjs frees the only copy of a key the authority may have accepted.
THEOREM RecordsAreSafe ==
  ASSUME "join" \notin Proxied
  PROVE  MCSpec => []RecordsAreKept
<1>1. PartsInv => RecordsAreKept
  BY SetupSafe DEF PartsInv, ProgressInv, RecordsAreKept, Progress!EvidenceStays
<1> QED BY <1>1, PartsInvariant, PTL

\* Whatever a proxy answers, a service that was added has its bound agent, the
\* agent's key and record, the runtime bundle and the runtime binding
\* (setup-runtime.mjs).
THEOREM ServicesAreBacked == MCSpec => []ServiceIsBacked
<1>1. PartsInv => ServiceIsBacked
  BY SetupSafe DEF PartsInv
<1> QED BY <1>1, PartsInvariant, PTL

\* A profile once bound is never bound to another agent or home, whatever a
\* proxy answers and however many homes set it up at once (setup-runtime.mjs).
THEOREM BindingsAreKept == MCSpec => BindingIsKept
<1>1. ASSUME PartsInv, [MCNext]_<<part, setupVars, progressVars, gatewayVars>>
      PROVE  [binding # Unbound => binding' = binding]_setupVars
  <2>1. CASE SetupNext
    BY <1>1, <2>1, BindingStep DEF PartsInv
  <2>2. CASE UNCHANGED setupVars
    BY <2>2
  <2> QED BY <1>1, <2>1, <2>2 DEF MCNext
<1> QED BY <1>1, PartsInvariant, PTL DEF MCSpec, BindingIsKept

\* A peer that waits is never told "completed" by a reply to an earlier message
\* of its task, and the retry after a 401 never carries the refused token, for
\* any number of requests, messages and tokens (projectTask, waitForBridgeTask
\* and accessToken of the A2A gateway).
THEOREM GatewayIsSafe == MCSpec => []GatewayAnswers
<1>1. PartsInv => GatewayAnswers
  BY GatewaySafe DEF PartsInv, GatewayAnswers
<1> QED BY <1>1, PartsInvariant, PTL
=============================================================================
