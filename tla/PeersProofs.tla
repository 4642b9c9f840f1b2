---------------------------- MODULE PeersProofs -----------------------------
(***************************************************************************)
(* Proofs about the peer engine, for any number of devices, messages,      *)
(* payloads and concurrent attempts, and about the identity registry, for  *)
(* any number of profiles, principals and owner commands.                  *)
(*                                                                         *)
(* IInv keeps accounts of every message: a device whose inbox it may still *)
(* enter was paid for when it was queued, because an inbound record that   *)
(* suppresses duplicates outlives the last attempt.  It gives              *)
(* DeliveredOnce.                                                          *)
(*                                                                         *)
(* KInv says what receipts, sequence numbers and counters say, of the      *)
(* journal and of what a damaged tail may turn out to hold.  With IInv it  *)
(* gives ReceiptsAreKept.                                                  *)
(*                                                                         *)
(* RegistryInv says which registries the audit log accounts for: the file  *)
(* in place, the one a power loss brings back, the one a command under the *)
(* lock is about to put in place, and those the snapshot provider has read *)
(* and cached.  It gives RegistryIsSound.                                  *)
(***************************************************************************)
EXTENDS MCPeers, Sequences, FiniteSetTheorems, TLAPS

-----------------------------------------------------------------------------
(* The inductive invariant.                                                *)

\* The state the argument is about is well formed.
Shape ==
  /\ journal \in [Devices -> Journal]
  /\ tail \in [Devices -> Journal \cup {None}]
  /\ attempt \in [Slots -> Attempt \cup {None}]
  /\ sends \in [Keys -> Nat]
  /\ accepts \in [Keys -> Nat]

\* What a restart of p may find in its file.
Views(p) == {journal[p], tail[p]} \ {None}

\* A message is active while an attempt is under way or may still be begun.
Out(k) == journal[k[1]].out[k[2]]
IsOf(t, k) == attempt[t] # None /\ attempt[t].key = k
Trying(k) == Out(k) # None /\ Out(k).state = "queued" /\ Out(k).age < Expiry
Active(k) == Trying(k) \/ \E t \in Slots : IsOf(t, k)

\* An inbound record suppresses every duplicate that may still arrive: it is
\* not forgotten before the last attempt has ended.
Covers(rec, k) ==
  /\ rec # None
  /\ rec.consumed =>
       /\ \A t \in Slots : IsOf(t, k) => rec.age < attempt[t].age + Expiry
       /\ Trying(k) => rec.age <= Out(k).age

\* A damaged tail of p holds the message, which the journal does not know yet.
Comes(k, p) == tail[p] # None /\ tail[p].inn[k] # None /\ journal[p].inn[k] = None

\* The devices whose inbox the message may still enter.
Open(k) ==
  {p \in Devices : \/ Comes(k, p)
                   \/ /\ Active(k) /\ p = Out(k).peer
                      /\ \E j \in Views(p) : ~Covers(j.inn[k], k)}

\* Every such entry was paid for when the message was queued.
Paid(k) == accepts[k] + Cardinality(Open(k)) <= sends[k]
Credit == \A k \in Keys : Paid(k)

\* The sender remembers a message at least until its last attempt has ended.
Backed(a, rec) ==
  rec # None /\ rec.peer = a.peer /\ rec.body = a.body /\ rec.age < a.age + Expiry
Timely ==
  \A t \in Slots, k \in Keys : IsOf(t, k) =>
    \A j \in Views(k[1]) : Backed(attempt[t], j.out[k[2]])

\* A damaged tail i knows what the journal j knows, a message that is queued
\* there is queued in the journal for as long, and one that only the tail knows
\* is not consumed and has a number of its own.
Agrees(j, i) ==
  /\ \A id \in Ids : j.out[id] # None =>
       /\ i.out[id] # None
       /\ i.out[id].peer = j.out[id].peer /\ i.out[id].body = j.out[id].body
       /\ i.out[id].age <= j.out[id].age
       /\ i.out[id].state = "queued" =>
            j.out[id].state = "queued" /\ i.out[id].age = j.out[id].age
  /\ \A k \in Keys :
       /\ j.inn[k] # None =>
            /\ i.inn[k] # None
            /\ i.inn[k].seq = j.inn[k].seq /\ i.inn[k].body = j.inn[k].body
            /\ ~i.inn[k].consumed => ~j.inn[k].consumed
       /\ j.inn[k] = None /\ i.inn[k] # None => ~i.inn[k].consumed /\ i.inn[k].seq > j.hi
  /\ j.hi <= i.hi
TailAgrees == \A d \in Devices : tail[d] # None => Agrees(journal[d], tail[d])

IInv == Shape /\ Credit /\ Timely /\ TailAgrees

-----------------------------------------------------------------------------
(* The journal's operations.                                               *)

\* A journal has its three parts.
LEMMA JournalParts ==
  ASSUME NEW j \in Journal
  PROVE  /\ j.out \in [Ids -> Outbound \cup {None}]
         /\ j.inn \in [Keys -> Inbound \cup {None}]
         /\ j.hi \in Nat /\ j # None
BY NoneAssumption DEF Journal

\* Writing one outbound record.
LEMMA WithOutIs ==
  ASSUME NEW j \in Journal, NEW id \in Ids, NEW rec \in Outbound
  PROVE  /\ WithOut(j, id, rec) \in Journal
         /\ WithOut(j, id, rec).inn = j.inn /\ WithOut(j, id, rec).hi = j.hi
         /\ WithOut(j, id, rec).out[id] = rec
         /\ \A x \in Ids \ {id} : WithOut(j, id, rec).out[x] = j.out[x]
<1> DEFINE f == [j.out EXCEPT ![id] = rec]
<1>1. f \in [Ids -> Outbound \cup {None}] /\ f[id] = rec /\ \A x \in Ids \ {id} : f[x] = j.out[x]
  BY JournalParts
<1>2. WithOut(j, id, rec) = [j EXCEPT !.out = f]
  BY DEF WithOut
<1> HIDE DEF f
<1>3. [j EXCEPT !.out = f] \in Journal /\ [j EXCEPT !.out = f].out = f
      /\ [j EXCEPT !.out = f].inn = j.inn /\ [j EXCEPT !.out = f].hi = j.hi
  BY <1>1 DEF Journal
<1> QED
  BY <1>1, <1>2, <1>3

\* Writing one inbound record.
LEMMA WithInIs ==
  ASSUME NEW j \in Journal, NEW k \in Keys, NEW rec \in Inbound
  PROVE  /\ WithIn(j, k, rec) \in Journal
         /\ WithIn(j, k, rec).out = j.out
         /\ WithIn(j, k, rec).hi = j.hi
         /\ WithIn(j, k, rec).inn[k] = rec
         /\ \A x \in Keys \ {k} : WithIn(j, k, rec).inn[x] = j.inn[x]
<1> DEFINE f == [j.inn EXCEPT ![k] = rec]
<1>1. f \in [Keys -> Inbound \cup {None}] /\ f[k] = rec /\ \A x \in Keys \ {k} : f[x] = j.inn[x]
  BY JournalParts
<1>2. WithIn(j, k, rec) = [j EXCEPT !.inn = f]
  BY DEF WithIn
<1> HIDE DEF f
<1>3. [j EXCEPT !.inn = f] \in Journal /\ [j EXCEPT !.inn = f].inn = f
      /\ [j EXCEPT !.inn = f].out = j.out /\ [j EXCEPT !.inn = f].hi = j.hi
  BY <1>1 DEF Journal
<1> QED
  BY <1>1, <1>2, <1>3

\* send_message
LEMMA QueuedLocalIs ==
  ASSUME NEW j \in Journal, NEW id \in Ids, NEW peer \in Devices, NEW body \in Bodies,
         j.out[id] = None
  PROVE  LET i == QueuedLocal(j, id, peer, body) IN
         /\ i \in Journal /\ i.inn = j.inn /\ i.hi = j.hi
         /\ i.out[id] # None /\ i.out[id].peer = peer /\ i.out[id].age = 0
         /\ i.out[id].body = body
         /\ i.out[id].state = "queued"
         /\ \A x \in Ids \ {id} : i.out[x] = j.out[x]
         /\ Agrees(j, i)
<1> DEFINE rec == [state |-> "queued", peer |-> peer, body |-> body, age |-> 0]
           i == QueuedLocal(j, id, peer, body)
<1>1. rec \in Outbound /\ rec # None
  BY NoneAssumption, PeerAssumption DEF Outbound, Terminal
<1>2. /\ i \in Journal /\ i.inn = j.inn /\ i.hi = j.hi /\ i.out[id] = rec
      /\ \A x \in Ids \ {id} : i.out[x] = j.out[x]
  BY <1>1, WithOutIs DEF QueuedLocal
<1>3. rec.peer = peer /\ rec.body = body /\ rec.age = 0 /\ rec.state = "queued"
  OBVIOUS
<1> HIDE DEF rec, i
<1>4. \A x \in Ids : j.out[x] # None => i.out[x] = j.out[x]
  BY <1>2
<1>5. \A x \in Ids : j.out[x] # None => j.out[x].age \in 0..Retention
  BY JournalParts DEF Outbound
<1>6. Agrees(j, i)
  BY <1>2, <1>4, <1>5, PeerAssumption, JournalParts DEF Agrees
<1> QED
  BY <1>1, <1>2, <1>3, <1>6 DEF i

\* record_settled, record_refused, record_expired
LEMMA FinishIs ==
  ASSUME NEW j \in Journal, NEW id \in Ids, NEW state \in Terminal
  PROVE  LET i == Finish(j, id, state) IN
         /\ i \in Journal /\ i.inn = j.inn /\ i.hi = j.hi
         /\ \A x \in Ids \ {id} : i.out[x] = j.out[x]
         /\ \/ i.out[id] = j.out[id]
            \/ /\ j.out[id] # None /\ i.out[id] # None
               /\ i.out[id].peer = j.out[id].peer /\ i.out[id].body = j.out[id].body
               /\ i.out[id].age = 0 /\ i.out[id].state = state
         /\ Agrees(j, i)
<1> DEFINE rec == [j.out[id] EXCEPT !.state = state, !.age = 0]
           i == Finish(j, id, state)
<1>5. \A x \in Ids : j.out[x] # None => j.out[x].age \in 0..Retention
  BY JournalParts DEF Outbound
<1>1. CASE j.out[id] = None \/ j.out[id].state # "queued"
  <2>1. i = j
    BY <1>1 DEF Finish
  <2>2. Agrees(j, j)
    BY <1>5, JournalParts DEF Agrees
  <2> QED
    BY <2>1, <2>2
<1>2. CASE ~(j.out[id] = None \/ j.out[id].state # "queued")
  <2>1. i = WithOut(j, id, rec)
    BY <1>2 DEF Finish
  <2>2. j.out[id] \in Outbound
    BY <1>2, JournalParts
  <2> DEFINE r == [j.out[id] EXCEPT !.state = state]
  <2>a. r \in Outbound /\ r.peer = j.out[id].peer /\ r.body = j.out[id].body /\ r.state = state
    BY <2>2 DEF Outbound, Terminal
  <2>b. rec = [r EXCEPT !.age = 0]
    OBVIOUS
  <2> HIDE DEF r, rec
  <2>3. /\ rec \in Outbound /\ rec.peer = j.out[id].peer /\ rec.body = j.out[id].body
        /\ rec.age = 0 /\ rec.state = state
    BY <2>a, <2>b, PeerAssumption DEF Outbound
  <2>4. rec # None
    BY <2>3, NoneAssumption
  <2> HIDE DEF i
  <2>c. state # "queued"
    BY DEF Terminal
  <2>5. /\ i \in Journal /\ i.inn = j.inn /\ i.hi = j.hi /\ i.out[id] = rec
        /\ \A x \in Ids \ {id} : i.out[x] = j.out[x]
    BY <2>1, <2>3, WithOutIs
  <2>6. Agrees(j, i)
    BY <1>5, <2>3, <2>4, <2>5, <2>c, PeerAssumption, JournalParts DEF Agrees
  <2> QED
    BY <1>2, <2>3, <2>4, <2>5, <2>6 DEF i
<1> QED
  BY <1>1, <1>2

\* accept_inbound
LEMMA ReceivedPeerIs ==
  ASSUME NEW j \in Journal, NEW k \in Keys, NEW body \in Bodies, j.inn[k] = None
  PROVE  LET i == ReceivedPeer(j, k, body) IN
         /\ i \in Journal /\ i.out = j.out
         /\ i.inn[k] # None /\ ~i.inn[k].consumed /\ i.inn[k].body = body
         /\ i.inn[k].seq = j.hi + 1 /\ i.hi = j.hi + 1
         /\ \A x \in Keys \ {k} : i.inn[x] = j.inn[x]
         /\ Agrees(j, i)
<1> DEFINE rec == [body |-> body, consumed |-> FALSE, age |-> 0, seq |-> j.hi + 1]
           w == WithIn(j, k, rec)
           i == ReceivedPeer(j, k, body)
<1>a. rec \in Inbound
  BY PeerAssumption, JournalParts DEF Inbound
<1>b. ~rec.consumed
  BY Zenon
<1>c. rec.body = body /\ rec.seq = j.hi + 1
  OBVIOUS
<1>1. rec \in Inbound /\ rec # None /\ ~rec.consumed
  BY <1>a, <1>b, NoneAssumption, Zenon
<1>3. i = [w EXCEPT !.hi = w.hi + 1]
  BY DEF ReceivedPeer
<1> HIDE DEF rec
<1>2. /\ w \in Journal /\ w.out = j.out /\ w.hi = j.hi /\ w.inn[k] = rec
      /\ \A x \in Keys \ {k} : w.inn[x] = j.inn[x]
  BY <1>1, WithInIs
<1> HIDE DEF w, i
<1>4. i \in Journal /\ i.out = w.out /\ i.inn = w.inn /\ i.hi = j.hi + 1
  BY <1>2, <1>3 DEF Journal
<1>5. \A x \in Ids : j.out[x] # None => j.out[x].age \in 0..Retention
  BY JournalParts DEF Outbound
<1>6. Agrees(j, i)
  BY <1>1, <1>2, <1>4, <1>5, <1>c, JournalParts DEF Agrees
<1> QED
  BY <1>1, <1>2, <1>4, <1>6, <1>c DEF i

\* ack
LEMMA ConsumedIs ==
  ASSUME NEW j \in Journal, NEW k \in Keys, j.inn[k] # None
  PROVE  LET i == Consumed(j, k) IN
         /\ i \in Journal /\ i.out = j.out
         /\ i.inn[k] # None /\ i.inn[k].age = 0 /\ i.inn[k].consumed
         /\ i.inn[k].seq = j.inn[k].seq /\ i.hi = j.hi
         /\ \A x \in Keys \ {k} : i.inn[x] = j.inn[x]
         /\ Agrees(j, i)
<1> DEFINE rec == [j.inn[k] EXCEPT !.consumed = TRUE, !.age = 0]
           i == Consumed(j, k)
<1>1. j.inn[k] \in Inbound
  BY JournalParts
<1> DEFINE r == [j.inn[k] EXCEPT !.consumed = TRUE]
<1>a. r \in Inbound /\ r.consumed = TRUE /\ r.seq = j.inn[k].seq /\ r.body = j.inn[k].body
  BY <1>1 DEF Inbound
<1>b. rec = [r EXCEPT !.age = 0]
  OBVIOUS
<1> HIDE DEF r, rec
<1>2. /\ rec \in Inbound /\ rec.age = 0 /\ rec.consumed = TRUE
      /\ rec.seq = j.inn[k].seq /\ rec.body = j.inn[k].body
  BY <1>a, <1>b, PeerAssumption DEF Inbound
<1>3. rec # None
  BY <1>2, NoneAssumption
<1>4. /\ i \in Journal /\ i.out = j.out /\ i.inn[k] = rec /\ i.hi = j.hi
      /\ \A x \in Keys \ {k} : i.inn[x] = j.inn[x]
  BY <1>2, WithInIs DEF Consumed, rec
<1> HIDE DEF i
<1>5. \A x \in Ids : j.out[x] # None => j.out[x].age \in 0..Retention
  BY JournalParts DEF Outbound
<1>6. Agrees(j, i)
  BY <1>2, <1>3, <1>4, <1>5, JournalParts DEF Agrees
<1> QED
  BY <1>2, <1>3, <1>4, <1>6 DEF i

\* Nothing is written, or what is known is written again.
LEMMA AgreesSelf == ASSUME NEW j \in Journal PROVE Agrees(j, j)
<1>1. \A x \in Ids : j.out[x] # None => j.out[x].age \in 0..Retention
  BY JournalParts DEF Outbound
<1> QED
  BY <1>1, JournalParts DEF Agrees

\* Compaction keeps a record or drops it.
LEMMA DroppedIs ==
  ASSUME NEW j \in Journal
  PROVE  /\ Dropped(j) \in Journal /\ Dropped(j).hi = j.hi
         /\ \A id \in Ids : Dropped(j).out[id] =
              IF j.out[id] # None /\ KeepsOut(j.out[id]) THEN j.out[id] ELSE None
         /\ \A k \in Keys : Dropped(j).inn[k] =
              IF j.inn[k] # None /\ KeepsIn(j.inn[k]) THEN j.inn[k] ELSE None
<1> DEFINE o == [id \in Ids |-> IF j.out[id] # None /\ KeepsOut(j.out[id]) THEN j.out[id] ELSE None]
           n == [k \in Keys |-> IF j.inn[k] # None /\ KeepsIn(j.inn[k]) THEN j.inn[k] ELSE None]
<1>1. o \in [Ids -> Outbound \cup {None}] /\ n \in [Keys -> Inbound \cup {None}] /\ j.hi \in Nat
  BY JournalParts
<1>2. Dropped(j) = [out |-> o, inn |-> n, hi |-> j.hi]
  BY DEF Dropped
<1>3. /\ \A id \in Ids : o[id] =
              IF j.out[id] # None /\ KeepsOut(j.out[id]) THEN j.out[id] ELSE None
      /\ \A k \in Keys : n[k] =
              IF j.inn[k] # None /\ KeepsIn(j.inn[k]) THEN j.inn[k] ELSE None
  OBVIOUS
<1> HIDE DEF o, n
<1>4. Dropped(j) \in Journal
  BY <1>1, <1>2 DEF Journal
<1> QED
  BY <1>2, <1>3, <1>4

\* Time ages the outbound records and what was consumed.
LEMMA AgedIs ==
  ASSUME NEW j \in Journal
  PROVE  /\ Aged(j) \in Journal /\ Aged(j).hi = j.hi
         /\ \A id \in Ids :
              /\ Aged(j).out[id] = None <=> j.out[id] = None
              /\ j.out[id] # None =>
                   /\ Aged(j).out[id].state = j.out[id].state
                   /\ Aged(j).out[id].peer = j.out[id].peer
                   /\ Aged(j).out[id].body = j.out[id].body
                   /\ Aged(j).out[id].age = Older(j.out[id].age, Retention)
         /\ \A k \in Keys :
              /\ Aged(j).inn[k] = None <=> j.inn[k] = None
              /\ j.inn[k] # None =>
                   /\ Aged(j).inn[k].consumed <=> j.inn[k].consumed
                   /\ Aged(j).inn[k].seq = j.inn[k].seq
                   /\ Aged(j).inn[k].body = j.inn[k].body
                   /\ j.inn[k].consumed => Aged(j).inn[k].age = Older(j.inn[k].age, Retention)
<1> DEFINE ro(id) == [j.out[id] EXCEPT !.age = Older(@, Retention)]
           rn(k) == [j.inn[k] EXCEPT !.age = Older(@, Retention)]
           o == [id \in Ids |-> IF j.out[id] = None THEN None ELSE ro(id)]
           n == [k \in Keys |-> IF j.inn[k] = None \/ ~j.inn[k].consumed THEN j.inn[k] ELSE rn(k)]
<1>1. \A id \in Ids : j.out[id] # None =>
        /\ ro(id) \in Outbound /\ ro(id).state = j.out[id].state
        /\ ro(id).peer = j.out[id].peer /\ ro(id).body = j.out[id].body
        /\ ro(id).age = Older(j.out[id].age, Retention)
  BY JournalParts, PeerAssumption DEF Outbound, Older
<1>2. \A k \in Keys : j.inn[k] # None =>
        /\ rn(k) \in Inbound /\ rn(k).consumed = j.inn[k].consumed
        /\ rn(k).seq = j.inn[k].seq /\ rn(k).body = j.inn[k].body
        /\ rn(k).age = Older(j.inn[k].age, Retention)
  BY JournalParts, PeerAssumption DEF Inbound, Older
<1>3. Aged(j) = [out |-> o, inn |-> n, hi |-> j.hi]
  BY DEF Aged
<1>4. /\ \A id \in Ids : o[id] = IF j.out[id] = None THEN None ELSE ro(id)
      /\ \A k \in Keys : n[k] = IF j.inn[k] = None \/ ~j.inn[k].consumed THEN j.inn[k] ELSE rn(k)
  OBVIOUS
<1>a. \A id \in Ids : (j.out[id] = None => o[id] = None) /\ (j.out[id] # None => o[id] = ro(id))
  BY <1>4
<1>b. \A k \in Keys : (j.inn[k] = None => n[k] = None)
        /\ (j.inn[k] # None => (j.inn[k].consumed /\ n[k] = rn(k)) \/ (~j.inn[k].consumed /\ n[k] = j.inn[k]))
  BY <1>4
<1> HIDE DEF ro, rn
<1>5. o \in [Ids -> Outbound \cup {None}]
  BY <1>1
<1>6. n \in [Keys -> Inbound \cup {None}]
  BY <1>2, JournalParts
<1> HIDE DEF o, n
<1>7. Aged(j) \in Journal /\ Aged(j).out = o /\ Aged(j).inn = n /\ Aged(j).hi = j.hi
  BY <1>3, <1>5, <1>6, JournalParts DEF Journal
<1>8. \A id \in Ids : j.out[id] # None => ro(id) # None
  BY <1>1, NoneAssumption
<1>9. \A k \in Keys : j.inn[k] # None => rn(k) # None
  BY <1>2, NoneAssumption
<1> QED
  BY <1>1, <1>2, <1>7, <1>8, <1>9, <1>a, <1>b, Zenon

-----------------------------------------------------------------------------
(* A step that leaves a message alone.                                     *)

\* No attempt of k gets younger, none is begun but for a message that is still
\* tried, and k is tried after the step only if it was before.
Calm(k) ==
  /\ \A t \in Slots : IsOf(t, k)' =>
       \/ IsOf(t, k) /\ attempt'[t].age = attempt[t].age
       \/ Trying(k) /\ attempt'[t].age = 0
  /\ Trying(k)' => Trying(k) /\ Out(k)'.age = Out(k).age
  /\ Active(k)' => Out(k)'.peer = Out(k).peer

\* A record that was just written suppresses duplicates.
Renewed(rec) == rec # None /\ (rec.consumed => rec.age = 0)

\* No inbox forgets k, but by compaction, and a damaged tail gets it only where
\* it may enter.
Follows(k) ==
  \A p \in Devices :
    /\ \A v \in Views(p)' :
         \/ Renewed(v.inn[k])
         \/ \E u \in Views(p) :
              \/ v.inn[k] = u.inn[k]
              \/ u.inn[k] # None /\ ~KeepsIn(u.inn[k])
    /\ Comes(k, p)' => p \in Open(k)

\* The parts of the state that concern a message.
LEMMA MessageParts ==
  ASSUME Shape, NEW k \in Keys
  PROVE  /\ k[1] \in Devices /\ k[2] \in Ids
         /\ Out(k) \in Outbound \cup {None}
         /\ Out(k) # None => Out(k).age \in 0..Retention /\ Out(k).peer \in Devices
         /\ \A t \in Slots : attempt[t] # None =>
              /\ attempt[t].age \in 0..Timeout /\ attempt[t].key \in Keys
              /\ attempt[t].peer \in Devices
         /\ \A p \in Devices : \A j \in Views(p) :
              j \in Journal /\ j.inn[k] \in Inbound \cup {None}
<1>1. k[1] \in Devices /\ k[2] \in Ids
  BY DEF Keys
<1>2. Out(k) \in Outbound \cup {None}
  BY <1>1, JournalParts DEF Shape, Out
<1>3. Out(k) # None => Out(k).age \in 0..Retention /\ Out(k).peer \in Devices
  BY <1>2 DEF Outbound
<1>4. \A t \in Slots : attempt[t] # None =>
              /\ attempt[t].age \in 0..Timeout /\ attempt[t].key \in Keys
              /\ attempt[t].peer \in Devices
  BY DEF Shape, Attempt
<1>5. \A p \in Devices : \A j \in Views(p) : j \in Journal
  BY DEF Shape, Views
<1> QED
  BY <1>1, <1>2, <1>3, <1>4, <1>5, JournalParts

\* A record that suppresses an active message survives compaction.
LEMMA CoveredIsKept ==
  ASSUME Shape, NEW k \in Keys, NEW rec \in Inbound, Active(k), Covers(rec, k)
  PROVE  KeepsIn(rec)
<1>1. rec.age \in 0..Retention
  BY DEF Inbound
<1>2. CASE ~rec.consumed
  BY <1>2 DEF KeepsIn
<1>3. CASE rec.consumed /\ Trying(k)
  <2>1. rec.age <= Out(k).age /\ Out(k).age < Expiry /\ Out(k).age \in 0..Retention
    BY <1>3, MessageParts DEF Covers, Trying
  <2> QED
    BY <1>1, <2>1, PeerAssumption DEF KeepsIn, Fresh
<1>4. CASE rec.consumed /\ ~Trying(k)
  <2>1. PICK t \in Slots : IsOf(t, k)
    BY <1>4 DEF Active
  <2>2. rec.age < attempt[t].age + Expiry /\ attempt[t].age \in 0..Timeout
    BY <1>4, <2>1, MessageParts DEF Covers, IsOf
  <2> QED
    BY <1>1, <2>2, PeerAssumption DEF KeepsIn, Fresh
<1> QED
  BY <1>2, <1>3, <1>4

\* A record that suppresses a message goes on doing so.
LEMMA CoversStays ==
  ASSUME Shape, Shape', NEW k \in Keys, NEW rec \in Inbound, Calm(k), Covers(rec, k)
  PROVE  Covers(rec, k)'
<1>1. rec.age \in 0..Retention /\ rec # None
  BY NoneAssumption DEF Inbound
<1> SUFFICES ASSUME rec.consumed
             PROVE  /\ \A t \in Slots : IsOf(t, k)' => rec.age < attempt'[t].age + Expiry
                    /\ Trying(k)' => rec.age <= Out(k)'.age
  BY <1>1 DEF Covers
<1>2. ASSUME NEW t \in Slots, IsOf(t, k)' PROVE rec.age < attempt'[t].age + Expiry
  <2>1. CASE IsOf(t, k) /\ attempt'[t].age = attempt[t].age
    BY <2>1 DEF Covers
  <2>2. CASE Trying(k) /\ attempt'[t].age = 0
    <3>1. rec.age <= Out(k).age /\ Out(k).age < Expiry /\ Out(k).age \in 0..Retention
      BY <2>2, MessageParts DEF Covers, Trying
    <3> QED
      BY <1>1, <2>2, <3>1, PeerAssumption
  <2> QED
    BY <1>2, <2>1, <2>2 DEF Calm
<1>3. Trying(k)' => rec.age <= Out(k)'.age
  BY DEF Calm, Covers
<1> QED
  BY <1>2, <1>3

\* A record that was just written suppresses every duplicate.
LEMMA RenewedCovers ==
  ASSUME Shape', NEW k \in Keys, NEW rec, Renewed(rec)
  PROVE  Covers(rec, k)'
<1>1. \A t \in Slots : IsOf(t, k)' => 0 < attempt'[t].age + Expiry
  BY PeerAssumption DEF IsOf, Shape, Attempt
<1>2. journal'[k[1]].out[k[2]] \in Outbound \cup {None}
  BY JournalParts DEF Shape, Keys
<1>3. Trying(k)' => 0 <= Out(k)'.age
  BY <1>2 DEF Trying, Out, Outbound
<1> QED
  BY <1>1, <1>3 DEF Covers, Renewed

\* Such a step opens no inbox to k.
LEMMA OpenShrinks ==
  ASSUME Shape, Shape', NEW k \in Keys, Calm(k), Follows(k)
  PROVE  Open(k)' \subseteq Open(k)
<1> SUFFICES ASSUME NEW p \in Devices, Active(k)', p = Out(k)'.peer,
                    NEW v \in Views(p)', ~Covers(v.inn[k], k)'
             PROVE  p \in Open(k)
  BY DEF Open, Follows
<1>1. Active(k) /\ p = Out(k).peer
  <2>1. Active(k)
    BY DEF Active, Calm
  <2> QED
    BY <2>1 DEF Calm
<1>2. ~Renewed(v.inn[k])
  BY RenewedCovers
<1>3. PICK u \in Views(p) : v.inn[k] = u.inn[k] \/ (u.inn[k] # None /\ ~KeepsIn(u.inn[k]))
  BY <1>2 DEF Follows
<1>4. u.inn[k] \in Inbound \cup {None}
  BY MessageParts
<1>5. ~Covers(u.inn[k], k)
  <2>1. CASE u.inn[k] = None
    BY <2>1 DEF Covers
  <2>2. CASE u.inn[k] # None /\ ~KeepsIn(u.inn[k])
    BY <1>1, <1>4, <2>2, CoveredIsKept
  <2>3. CASE u.inn[k] # None /\ v.inn[k] = u.inn[k]
    BY <1>4, <2>3, CoversStays
  <2> QED
    BY <1>3, <2>1, <2>2, <2>3
<1> QED
  BY <1>1, <1>5 DEF Open

\* The balance: one more entry costs an open inbox, one more message pays for
\* one.
LEMMA Balance ==
  ASSUME NEW S \in SUBSET Devices, NEW T \in SUBSET Devices
  PROVE  /\ Cardinality(S) \in Nat /\ Cardinality(T) \in Nat
         /\ T \subseteq S => Cardinality(T) <= Cardinality(S)
         /\ \A q : T \subseteq S \cup {q} => Cardinality(T) <= Cardinality(S) + 1
         /\ \A p \in S : T \subseteq S \ {p} => Cardinality(T) + 1 <= Cardinality(S)
         /\ \A p \in S : \A q : T \subseteq (S \ {p}) \cup {q} => Cardinality(T) <= Cardinality(S)
<1>1. IsFiniteSet(S) /\ IsFiniteSet(T)
  BY PeerAssumption, FS_Subset
<1>2. Cardinality(S) \in Nat /\ Cardinality(T) \in Nat
  BY <1>1, FS_CardinalityType
<1>3. \A R : IsFiniteSet(R) /\ T \subseteq R => Cardinality(T) <= Cardinality(R)
  BY FS_Subset
<1>4. \A R, q : IsFiniteSet(R) =>
        /\ IsFiniteSet(R \cup {q})
        /\ Cardinality(R \cup {q}) \in {Cardinality(R), Cardinality(R) + 1}
  BY FS_AddElement
<1>5. \A p \in S : IsFiniteSet(S \ {p}) /\ Cardinality(S \ {p}) = Cardinality(S) - 1
  BY <1>1, FS_RemoveElement
<1>6. ASSUME NEW q, T \subseteq S \cup {q} PROVE Cardinality(T) <= Cardinality(S) + 1
  <2>1. Cardinality(T) <= Cardinality(S \cup {q})
    BY <1>1, <1>3, <1>4, <1>6
  <2>2. Cardinality(S \cup {q}) \in {Cardinality(S), Cardinality(S) + 1}
    BY <1>1, <1>4
  <2> QED
    BY <1>2, <2>1, <2>2
<1>7. ASSUME NEW p \in S, T \subseteq S \ {p} PROVE Cardinality(T) + 1 <= Cardinality(S)
  <2>1. Cardinality(T) <= Cardinality(S \ {p})
    BY <1>3, <1>5, <1>7
  <2> QED
    BY <1>2, <1>5, <2>1
<1>8. ASSUME NEW p \in S, NEW q, T \subseteq (S \ {p}) \cup {q}
      PROVE  Cardinality(T) <= Cardinality(S)
  <2> DEFINE R == S \ {p}
  <2>1. IsFiniteSet(R) /\ Cardinality(R) = Cardinality(S) - 1
    BY <1>5
  <2>2. T \subseteq R \cup {q}
    BY <1>8
  <2> HIDE DEF R
  <2>3. Cardinality(T) <= Cardinality(R \cup {q})
    BY <1>3, <1>4, <2>1, <2>2
  <2>4. Cardinality(R \cup {q}) \in {Cardinality(R), Cardinality(R) + 1}
    BY <1>4, <2>1
  <2> QED
    BY <1>2, <2>1, <2>3, <2>4
<1>9. T \subseteq S => Cardinality(T) <= Cardinality(S)
  BY <1>1, <1>3
<1> QED
  BY <1>2, <1>6, <1>7, <1>8, <1>9

\* How many inboxes are open, before and after a step.
LEMMA OpenBalance ==
  ASSUME Shape, NEW k \in Keys, Paid(k)
  PROVE  \E S \in SUBSET Devices, T \in SUBSET Devices :
           /\ S = Open(k) /\ T = Open(k)'
           /\ accepts[k] \in Nat /\ sends[k] \in Nat
           /\ accepts[k] + Cardinality(S) <= sends[k]
           /\ Paid(k)' <=> accepts'[k] + Cardinality(T) <= sends'[k]
<1>1. Open(k) \in SUBSET Devices /\ Open(k)' \in SUBSET Devices
  BY DEF Open
<1>2. accepts[k] \in Nat /\ sends[k] \in Nat
  BY DEF Shape
<1>3. Paid(k)' <=> accepts'[k] + Cardinality(Open(k)') <= sends'[k]
  BY DEF Paid
<1>4. accepts[k] + Cardinality(Open(k)) <= sends[k]
  BY DEF Paid
<1> QED
  BY <1>1, <1>2, <1>3, <1>4, Zenon

\* A message that is left alone stays paid for.
LEMMA PaidStays ==
  ASSUME Shape, Shape', NEW k \in Keys, Paid(k), Calm(k), Follows(k),
         accepts'[k] = accepts[k], sends'[k] = sends[k]
  PROVE  Paid(k)'
<1>1. Open(k)' \subseteq Open(k)
  BY OpenShrinks
<1>2. PICK S \in SUBSET Devices, T \in SUBSET Devices :
           /\ S = Open(k) /\ T = Open(k)'
           /\ accepts[k] \in Nat /\ sends[k] \in Nat
           /\ accepts[k] + Cardinality(S) <= sends[k]
           /\ Paid(k)' <=> accepts'[k] + Cardinality(T) <= sends'[k]
  BY OpenBalance
<1>3. Cardinality(S) \in Nat /\ Cardinality(T) \in Nat /\ Cardinality(T) <= Cardinality(S)
  BY <1>1, <1>2, Balance
<1> QED
  BY <1>2, <1>3

\* A message that enters an inbox is paid for by that inbox, which closes.
LEMMA AcceptPays ==
  ASSUME Shape, Shape', NEW k \in Keys, Paid(k), Calm(k), Follows(k), NEW d,
         d \in Open(k), d \notin Open(k)',
         accepts'[k] = accepts[k] + 1, sends'[k] = sends[k]
  PROVE  Paid(k)'
<1>1. Open(k)' \subseteq Open(k)
  BY OpenShrinks
<1>2. PICK S \in SUBSET Devices, T \in SUBSET Devices :
           /\ S = Open(k) /\ T = Open(k)'
           /\ accepts[k] \in Nat /\ sends[k] \in Nat
           /\ accepts[k] + Cardinality(S) <= sends[k]
           /\ Paid(k)' <=> accepts'[k] + Cardinality(T) <= sends'[k]
  BY OpenBalance
<1>3. d \in S /\ T \subseteq S \ {d}
  BY <1>1, <1>2
<1>4. Cardinality(S) \in Nat /\ Cardinality(T) \in Nat /\ Cardinality(T) + 1 <= Cardinality(S)
  BY <1>3, Balance
<1> QED
  BY <1>2, <1>4

-----------------------------------------------------------------------------
(* A step that writes one record.                                          *)

\* What an append of i to d's journal may leave there.
Wrote(d, i) ==
  /\ \A p \in Devices \ {d} : journal'[p] = journal[p] /\ tail'[p] = tail[p]
  /\ \/ journal'[d] = journal[d] /\ tail'[d] = tail[d]
     \/ journal'[d] = journal[d] /\ tail[d] = None /\ tail'[d] = i
     \/ journal'[d] \in {i, Dropped(i)} /\ tail[d] = None /\ tail'[d] = None

\* append_durable, whether it fails or not.
LEMMA AppendWrites ==
  ASSUME Shape, NEW d \in Devices, NEW i \in Journal, AppendDurable(d, i) \/ AppendFails(d, i)
  PROVE  /\ Wrote(d, i)
         /\ journal' \in [Devices -> Journal]
         /\ tail' \in [Devices -> Journal \cup {None}]
<1>1. Dropped(i) \in Journal
  BY DroppedIs
<1>2. CASE AppendDurable(d, i)
  <2>1. PICK j \in {i, Dropped(i)} : journal' = [journal EXCEPT ![d] = j]
    BY <1>2 DEF AppendDurable
  <2>2. tail' = tail /\ tail[d] = None
    BY <1>2 DEF AppendDurable
  <2> QED
    BY <1>1, <2>1, <2>2 DEF Shape, Wrote
<1>3. CASE AppendFails(d, i)
  <2>1. journal' = journal
    BY <1>3 DEF AppendFails
  <2>2. CASE tail' = tail
    BY <2>1, <2>2 DEF Shape, Wrote
  <2>3. CASE tail[d] = None /\ tail' = [tail EXCEPT ![d] = i]
    BY <2>1, <2>3 DEF Shape, Wrote
  <2> QED
    BY <1>3, <2>2, <2>3 DEF AppendFails
<1> QED
  BY <1>2, <1>3

\* What may be on disk after the step.
LEMMA WroteViews ==
  ASSUME Shape, NEW d \in Devices, NEW i \in Journal, Wrote(d, i)
  PROVE  /\ \A p \in Devices \ {d} : Views(p)' = Views(p)
         /\ \A v \in Views(d)' : v \in Views(d) \cup {i, Dropped(i)}
         /\ \A p \in Devices : journal[p] \in Views(p)
<1>1. \A p \in Devices : journal[p] # None
  BY JournalParts DEF Shape
<1> QED
  BY <1>1 DEF Wrote, Views

\* A damaged tail agrees with the journal.
LEMMA WroteAgrees ==
  ASSUME Shape, TailAgrees, NEW d \in Devices, NEW i \in Journal,
         Wrote(d, i), Agrees(journal[d], i)
  PROVE  TailAgrees'
<1> SUFFICES ASSUME NEW p \in Devices, tail'[p] # None PROVE Agrees(journal'[p], tail'[p])
  BY DEF TailAgrees, Agrees
<1>1. CASE p # d
  BY <1>1 DEF Wrote, TailAgrees
<1>2. CASE p = d
  BY <1>2 DEF Wrote, TailAgrees
<1> QED
  BY <1>1, <1>2

\* The inboxes follow, when the record keeps what is known of k or writes it
\* where it may enter.
LEMMA WroteFollows ==
  ASSUME Shape, NEW d \in Devices, NEW i \in Journal, Wrote(d, i), NEW k \in Keys,
         \/ i.inn[k] = journal[d].inn[k]
         \/ Renewed(i.inn[k]) /\ (journal[d].inn[k] = None => d \in Open(k))
  PROVE  Follows(k)
<1> SUFFICES ASSUME NEW p \in Devices
             PROVE  /\ \A v \in Views(p)' :
                         \/ Renewed(v.inn[k])
                         \/ \E u \in Views(p) :
                              \/ v.inn[k] = u.inn[k]
                              \/ u.inn[k] # None /\ ~KeepsIn(u.inn[k])
                    /\ Comes(k, p)' => p \in Open(k)
  BY DEF Follows
<1>1. Comes(k, p) => p \in Open(k)
  BY DEF Open
<1>2. CASE p # d
  <2>1. Views(p)' = Views(p)
    BY <1>2, WroteViews
  <2>2. Comes(k, p)' <=> Comes(k, p)
    BY <1>2 DEF Comes, Wrote
  <2> QED
    BY <1>1, <2>1, <2>2
<1>3. CASE p = d
  <2>1. ASSUME NEW v \in Views(d)'
        PROVE  \/ Renewed(v.inn[k])
               \/ \E u \in Views(d) :
                    \/ v.inn[k] = u.inn[k]
                    \/ u.inn[k] # None /\ ~KeepsIn(u.inn[k])
    <3>1. CASE v \in Views(d)
      BY <3>1
    <3>2. CASE v = i
      BY <3>2, WroteViews
    <3>3. CASE v = Dropped(i)
      <4>1. v.inn[k] = IF i.inn[k] # None /\ KeepsIn(i.inn[k]) THEN i.inn[k] ELSE None
        BY <3>3, DroppedIs
      <4>2. CASE i.inn[k] = journal[d].inn[k]
        BY <4>1, <4>2, WroteViews
      <4>3. CASE Renewed(i.inn[k])
        <5>1. KeepsIn(i.inn[k])
          BY <4>3, PeerAssumption DEF Renewed, KeepsIn, Fresh
        <5> QED
          BY <4>1, <4>3, <5>1 DEF Renewed
      <4> QED
        BY <4>2, <4>3
    <3> QED
      BY <3>1, <3>2, <3>3, WroteViews
  <2>2. Comes(k, d)' => d \in Open(k)
    BY <1>1, <1>3 DEF Comes, Wrote
  <2> QED
    BY <1>3, <2>1, <2>2
<1> QED
  BY <1>2, <1>3

\* No outbox forgets k, but by compaction.
Lasts(k) ==
  \A v \in Views(k[1])' : \E u \in Views(k[1]) :
    LET old == u.out[k[2]]
        new == v.out[k[2]] IN
    \/ new = old
    \/ old # None /\ ~KeepsOut(old)
    \/ old # None /\ new # None /\ new.peer = old.peer /\ new.body = old.body /\ new.age = 0

\* The record keeps what is known of the outbound message or finishes it.
KeepsOrEnds(old, new) ==
  \/ new = old
  \/ /\ old # None /\ new # None /\ new.peer = old.peer /\ new.body = old.body /\ new.age = 0
     /\ new.state # "queued"

\* What the sender knows of a message lasts.
LEMMA WroteLasts ==
  ASSUME Shape, NEW d \in Devices, NEW i \in Journal, Wrote(d, i), NEW k \in Keys,
         k[1] = d => KeepsOrEnds(journal[d].out[k[2]], i.out[k[2]])
  PROVE  Lasts(k)
<1>1. k[1] \in Devices /\ k[2] \in Ids
  BY DEF Keys
<1>2. CASE k[1] # d
  BY <1>1, <1>2, WroteViews DEF Lasts
<1>3. CASE k[1] = d
  <2> DEFINE old == journal[d].out[k[2]]
  <2> SUFFICES ASSUME NEW v \in Views(d)', v \notin Views(d)
               PROVE  \/ v.out[k[2]] = old
                      \/ old # None /\ ~KeepsOut(old)
                      \/ /\ old # None /\ v.out[k[2]] # None
                         /\ v.out[k[2]].peer = old.peer /\ v.out[k[2]].body = old.body
                         /\ v.out[k[2]].age = 0
    BY <1>3, WroteViews DEF Lasts
  <2>1. KeepsOrEnds(old, i.out[k[2]])
    BY <1>3
  <2> HIDE DEF old
  <2>2. CASE v = i
    BY <2>1, <2>2 DEF KeepsOrEnds
  <2>3. CASE v = Dropped(i)
    <3>1. v.out[k[2]] = IF i.out[k[2]] # None /\ KeepsOut(i.out[k[2]]) THEN i.out[k[2]] ELSE None
      BY <1>1, <2>3, DroppedIs
    <3>2. i.out[k[2]] # None /\ i.out[k[2]].age = 0 => KeepsOut(i.out[k[2]])
      BY PeerAssumption DEF KeepsOut, Fresh
    <3> QED
      BY <2>1, <3>1, <3>2 DEF KeepsOrEnds
  <2> QED
    BY <2>2, <2>3, WroteViews
<1> QED
  BY <1>2, <1>3

\* An attempt goes on as it was.
Same(t) ==
  /\ attempt[t] # None
  /\ attempt'[t].key = attempt[t].key
  /\ attempt'[t].peer = attempt[t].peer
  /\ attempt'[t].body = attempt[t].body
  /\ attempt'[t].age = attempt[t].age

\* The sender's record outlives the attempts.
LEMMA TimelyStep ==
  ASSUME Shape, Timely,
         \A t \in Slots, k \in Keys : IsOf(t, k)' =>
           \/ Same(t) /\ Lasts(k)
           \/ \A v \in Views(k[1])' : Backed(attempt'[t], v.out[k[2]])
  PROVE  Timely'
<1> SUFFICES ASSUME NEW t \in Slots, NEW k \in Keys, IsOf(t, k)', Same(t), Lasts(k),
                    NEW v \in Views(k[1])'
             PROVE  Backed(attempt'[t], v.out[k[2]])
  BY DEF Timely, Backed
<1> DEFINE new == v.out[k[2]]
<1>1. PICK u \in Views(k[1]) :
        \/ new = u.out[k[2]]
        \/ u.out[k[2]] # None /\ ~KeepsOut(u.out[k[2]])
        \/ /\ u.out[k[2]] # None /\ new # None /\ new.peer = u.out[k[2]].peer
           /\ new.body = u.out[k[2]].body /\ new.age = 0
  BY DEF Lasts
<1> DEFINE old == u.out[k[2]]
<1>2. Backed(attempt[t], old)
  BY DEF Timely, Same, IsOf
<1>3. attempt[t].age \in 0..Timeout
  BY DEF Shape, Same, Attempt
<1>4. old \in Outbound
  <2>1. u \in Journal
    BY DEF Shape, Views, Keys
  <2> QED
    BY <1>2, <2>1, JournalParts DEF Backed, Keys
<1>5. KeepsOut(old)
  BY <1>2, <1>3, <1>4, PeerAssumption DEF Backed, KeepsOut, Fresh, Outbound
<1>6. new = old \/ (new # None /\ new.peer = old.peer /\ new.body = old.body /\ new.age = 0)
  BY <1>1, <1>5
<1> HIDE DEF old, new
<1>7. Backed(attempt'[t], new)
  BY <1>2, <1>3, <1>6, PeerAssumption DEF Backed, Same
<1> QED
  BY <1>7 DEF new

\* A message whose attempts go on, or are begun while it is tried, is left
\* alone when its record is kept, finished or dropped.
LEMMA CalmStep ==
  ASSUME Shape', Timely', NEW k \in Keys,
         \A t \in Slots : IsOf(t, k)' => Same(t) \/ (Trying(k) /\ attempt'[t].age = 0),
         Out(k)' # None =>
           /\ Out(k) # None /\ Out(k)'.peer = Out(k).peer
           /\ Out(k)'.state = "queued" => Out(k).state = "queued" /\ Out(k)'.age = Out(k).age
  PROVE  Calm(k)
<1>1. \A t \in Slots : IsOf(t, k)' =>
        (IsOf(t, k) /\ attempt'[t].age = attempt[t].age) \/ (Trying(k) /\ attempt'[t].age = 0)
  BY DEF IsOf, Same
<1>2. Trying(k)' => Trying(k) /\ Out(k)'.age = Out(k).age
  BY DEF Trying
<1>3. Active(k)' => Out(k)' # None
  <2>1. journal'[k[1]] \in Views(k[1])'
    <3>1. journal'[k[1]] \in Journal
      BY DEF Shape, Keys
    <3> QED
      BY <3>1, JournalParts DEF Views
  <2>2. \A t \in Slots : IsOf(t, k)' => Out(k)' # None
    BY <2>1 DEF Timely, IsOf, Backed, Out
  <2> QED
    BY <2>2 DEF Active, Trying
<1> QED
  BY <1>1, <1>2, <1>3 DEF Calm

\* The attempts go on, or one is begun for a message that is still tried and
\* nothing is written.
Runs ==
  \A t \in Slots, k \in Keys : IsOf(t, k)' =>
    \/ Same(t)
    \/ /\ Trying(k) /\ attempt'[t].age = 0
       /\ attempt'[t].peer = Out(k).peer /\ attempt'[t].body = Out(k).body
       /\ journal' = journal /\ tail' = tail

\* The record i keeps or ends what d's outbox knows, or it is not applied.
Continues(d, i) ==
  /\ Agrees(journal[d], i)
  /\ \A id \in Ids : \/ KeepsOrEnds(journal[d].out[id], i.out[id])
                     \/ journal[d].out[id] = None /\ journal' = journal

\* One record is written, and attempts go on or end.
LEMMA WriteStep ==
  ASSUME Shape, Shape', Timely, TailAgrees, NEW d \in Devices, NEW i \in Journal,
         Wrote(d, i), Continues(d, i), Runs
  PROVE  Timely' /\ TailAgrees' /\ \A k \in Keys : Calm(k)
<1>1. TailAgrees'
  BY WroteAgrees DEF Continues
<1>2. Timely'
  <2> SUFFICES ASSUME NEW t \in Slots, NEW k \in Keys, IsOf(t, k)'
               PROVE  \/ Same(t) /\ Lasts(k)
                      \/ \A v \in Views(k[1])' : Backed(attempt'[t], v.out[k[2]])
    BY TimelyStep
  <2>0. k[1] \in Devices /\ k[2] \in Ids
    BY DEF Keys
  <2>1. CASE Same(t)
    <3>1. IsOf(t, k)
      BY <2>1 DEF IsOf, Same
    <3>2. journal[k[1]].out[k[2]] # None
      BY <2>0, <3>1, WroteViews DEF Timely, Backed
    <3>3. k[1] = d => KeepsOrEnds(journal[d].out[k[2]], i.out[k[2]])
      BY <2>0, <3>2 DEF Continues
    <3> QED
      BY <2>1, <3>3, WroteLasts
  <2>2. CASE /\ Trying(k) /\ attempt'[t].age = 0
             /\ attempt'[t].peer = Out(k).peer /\ attempt'[t].body = Out(k).body
             /\ journal' = journal /\ tail' = tail
    <3> SUFFICES ASSUME NEW v \in Views(k[1])' PROVE Backed(attempt'[t], v.out[k[2]])
      OBVIOUS
    <3>1. v \in Views(k[1])
      BY <2>2 DEF Views
    <3>2. Out(k) # None /\ Out(k).age \in 0..Retention /\ Out(k).age < Expiry
      BY <2>2, MessageParts DEF Trying
    <3>3. CASE v = journal[k[1]]
      BY <2>2, <3>2, <3>3, PeerAssumption DEF Backed, Out
    <3>4. CASE v = tail[k[1]] /\ tail[k[1]] # None
      <4>1. Agrees(journal[k[1]], v)
        BY <2>0, <3>4 DEF TailAgrees
      <4>2. /\ v.out[k[2]] # None /\ v.out[k[2]].peer = Out(k).peer
            /\ v.out[k[2]].body = Out(k).body /\ v.out[k[2]].age <= Out(k).age
        BY <2>0, <3>2, <4>1 DEF Agrees, Out
      <4>3. v.out[k[2]] \in Outbound
        BY <2>0, <3>1, <4>2, MessageParts, JournalParts
      <4>4. v.out[k[2]].age \in 0..Retention
        BY <4>3 DEF Outbound
      <4> QED
        BY <2>2, <3>2, <4>2, <4>4, PeerAssumption DEF Backed
    <3> QED
      BY <3>1, <3>3, <3>4 DEF Views
  <2> QED
    BY <2>1, <2>2 DEF Runs
<1>3. ASSUME NEW k \in Keys PROVE Calm(k)
  <2>0. k[1] \in Devices /\ k[2] \in Ids
    BY DEF Keys
  <2>1. \A t \in Slots : IsOf(t, k)' => Same(t) \/ (Trying(k) /\ attempt'[t].age = 0)
    BY DEF Runs
  <2>2. Out(k)' # None =>
          /\ Out(k) # None /\ Out(k)'.peer = Out(k).peer
          /\ Out(k)'.state = "queued" => Out(k).state = "queued" /\ Out(k)'.age = Out(k).age
    <3>1. CASE journal'[k[1]] = journal[k[1]]
      BY <3>1 DEF Out
    <3>2. CASE journal'[k[1]] # journal[k[1]]
      <4>1. k[1] = d /\ journal'[d] \in {i, Dropped(i)}
        BY <2>0, <3>2 DEF Wrote
      <4>2. KeepsOrEnds(Out(k), i.out[k[2]])
        BY <2>0, <3>2, <4>1 DEF Continues, Out
      <4>3. Out(k)' \in {i.out[k[2]], None}
        BY <2>0, <4>1, DroppedIs DEF Out
      <4> QED
        BY <4>2, <4>3 DEF KeepsOrEnds
    <3> QED
      BY <3>1, <3>2
  <2> QED
    BY <1>2, <2>1, <2>2, CalmStep
<1> QED
  BY <1>1, <1>2, <1>3

\* A step that queues nothing and accepts nothing.
LEMMA PlainStep ==
  ASSUME IInv, Shape', NEW d \in Devices, NEW i \in Journal, Wrote(d, i), Continues(d, i), Runs,
         \A k \in Keys :
           \/ i.inn[k] = journal[d].inn[k]
           \/ Renewed(i.inn[k]) /\ (journal[d].inn[k] = None => d \in Open(k)),
         accepts' = accepts, sends' = sends
  PROVE  IInv'
<1>1. Shape /\ Timely /\ TailAgrees /\ \A k \in Keys : Paid(k)
  BY DEF IInv, Credit
<1>2. Timely' /\ TailAgrees' /\ \A k \in Keys : Calm(k)
  BY <1>1, WriteStep
<1>3. ASSUME NEW k \in Keys PROVE Paid(k)'
  <2>1. Follows(k)
    BY <1>1, WroteFollows
  <2> QED
    BY <1>1, <1>2, <2>1, PaidStays
<1> QED
  BY <1>2, <1>3 DEF IInv, Credit

\* Nothing is written.
LEMMA StillStep ==
  ASSUME IInv, Shape', NEW d \in Devices, journal' = journal, tail' = tail,
         accepts' = accepts, sends' = sends, Runs
  PROVE  IInv'
<1>1. PICK i \in Journal : i = journal[d]
  BY DEF IInv, Shape
<1>2. Wrote(d, i)
  BY DEF Wrote
<1>3. Continues(d, i)
  BY <1>1, AgreesSelf DEF Continues, KeepsOrEnds
<1> QED
  BY <1>1, <1>2, <1>3, PlainStep

\* The attempts are well formed and go on, or they end.
GoOn == /\ attempt' \in [Slots -> Attempt \cup {None}]
        /\ \A t \in Slots : attempt'[t] # None => Same(t)

\* Attempts that go on or end stay what they are.
LEMMA GoOnRuns == GoOn => Runs
BY DEF GoOn, Runs, IsOf

\* An attempt that ends.
LEMMA EndsGoesOn ==
  ASSUME Shape, NEW t \in Slots, Ends(t) PROVE GoOn
BY DEF Shape, Ends, GoOn, Same

\* The handler replies.
LEMMA ReplyGoesOn ==
  ASSUME Shape, NEW t \in Slots, attempt[t] # None,
         NEW s \in {"sent", "receipt", "busy", "refused", "lost"}, Reply(t, s)
  PROVE  GoOn
<1> DEFINE a == [attempt[t] EXCEPT !.stage = s]
           b == IF attempt[t].waiting THEN a ELSE None
<1>1. attempt[t] \in Attempt
  BY DEF Shape
<1>2. /\ a \in Attempt /\ a.key = attempt[t].key /\ a.peer = attempt[t].peer
      /\ a.body = attempt[t].body /\ a.age = attempt[t].age
  BY <1>1 DEF Attempt
<1>3. attempt' = [attempt EXCEPT ![t] = b]
  BY DEF Reply
<1> HIDE DEF a
<1>4. b \in {a, None}
  BY Zenon
<1> HIDE DEF b
<1> QED
  BY <1>2, <1>3, <1>4 DEF Shape, GoOn, Same

-----------------------------------------------------------------------------
(* The actions.                                                            *)

\* An attempt of a message that is still tried begins.
LEMMA BeginStep ==
  ASSUME IInv, NEW d \in Devices, NEW id \in Ids, NEW t \in Slots,
         id \in QueuedIds(d), ~Expired(d, id),
         Begins(t, d, id, journal[d].out[id].peer, journal[d].out[id].body),
         UNCHANGED <<journal, tail, sends, accepts>>
  PROVE  IInv'
<1> DEFINE rec == journal[d].out[id]
           a == Sent(d, id, rec.peer, rec.body)
           q == <<d, id>>
<1>0. Shape
  BY DEF IInv
<1>1. rec \in Outbound /\ rec # None /\ rec.state = "queued"
  BY <1>0, JournalParts DEF Shape, QueuedIds
<1>2. a \in Attempt /\ a.key = q /\ a.peer = rec.peer /\ a.body = rec.body /\ a.age = 0 /\ a # None
  <2>1. a \in Attempt
    BY <1>1, PeerAssumption DEF Sent, Attempt, Outbound, Keys
  <2> QED
    BY <2>1, NoneAssumption DEF Sent
<1>3. q \in Keys /\ Out(q) = rec /\ Trying(q)
  BY <1>1, PeerAssumption DEF Keys, Out, Trying, Expired, Outbound
<1>4. attempt' = [attempt EXCEPT ![t] = a]
  BY DEF Begins
<1> HIDE DEF a, rec
<1>5. Shape'
  BY <1>0, <1>2, <1>4 DEF Shape
<1>6. Runs
  <2> SUFFICES ASSUME NEW s \in Slots, NEW k \in Keys, IsOf(s, k)'
               PROVE  \/ Same(s)
                      \/ /\ Trying(k) /\ attempt'[s].age = 0
                         /\ attempt'[s].peer = Out(k).peer /\ attempt'[s].body = Out(k).body
    BY DEF Runs
  <2>1. CASE s = t
    BY <1>0, <1>2, <1>3, <1>4, <2>1 DEF IsOf, Shape
  <2>2. CASE s # t
    BY <1>0, <1>4, <2>2 DEF IsOf, Shape, Same
  <2> QED
    BY <2>1, <2>2
<1> QED
  BY <1>5, <1>6, StillStep

\* finish_outbound
LEMMA RecordStep ==
  ASSUME IInv, NEW d \in Devices, NEW id \in Ids, NEW s \in Terminal,
         Record(d, id, s), GoOn, UNCHANGED <<sends, accepts>>
  PROVE  IInv'
<1>0. Shape
  BY DEF IInv
<1>1. PICK j \in Journal : j = journal[d]
  BY <1>0 DEF Shape
<1>2. PICK i \in Journal : i = Finish(j, id, s)
  BY FinishIs
<1>a. s # "queued"
  BY DEF Terminal
<1>b. /\ i.inn = j.inn /\ Agrees(j, i)
      /\ \A x \in Ids \ {id} : i.out[x] = j.out[x]
      /\ \/ i.out[id] = j.out[id]
         \/ /\ j.out[id] # None /\ i.out[id] # None
            /\ i.out[id].peer = j.out[id].peer /\ i.out[id].body = j.out[id].body
            /\ i.out[id].age = 0 /\ i.out[id].state = s
  BY <1>2, FinishIs
<1>c. \A x \in Ids : KeepsOrEnds(j.out[x], i.out[x])
  BY <1>a, <1>b DEF KeepsOrEnds
<1>3. i.inn = journal[d].inn /\ Continues(d, i)
  BY <1>1, <1>b, <1>c DEF Continues
<1>4. (journal' = journal /\ tail' = tail) \/ AppendDurable(d, i) \/ AppendFails(d, i)
  BY <1>1, <1>2 DEF Record
<1>5. /\ Wrote(d, i) /\ journal' \in [Devices -> Journal]
      /\ tail' \in [Devices -> Journal \cup {None}]
  BY <1>0, <1>4, AppendWrites DEF Wrote, Shape
<1>6. Shape'
  BY <1>0, <1>5 DEF Shape, GoOn
<1> QED
  BY <1>3, <1>5, <1>6, GoOnRuns, PlainStep

\* accept_inbound of a message the inbox does not hold: d is open to it.
LEMMA ArrivesWhereOpen ==
  ASSUME IInv, NEW t \in Slots, attempt[t] # None,
         journal[attempt[t].peer].inn[attempt[t].key] = None
  PROVE  /\ attempt[t].peer \in Open(attempt[t].key)
         /\ attempt[t].peer \in Devices /\ attempt[t].key \in Keys
         /\ attempt[t].body \in Bodies
<1>1. PICK d \in Devices, k \in Keys : d = attempt[t].peer /\ k = attempt[t].key
  BY DEF IInv, Shape, Attempt
<1>2. IsOf(t, k) /\ Active(k)
  BY <1>1 DEF IsOf, Active
<1>3. \A p \in Devices : journal[p] \in Views(p)
  BY JournalParts DEF IInv, Shape, Views
<1>4. Out(k).peer = d
  BY <1>1, <1>2, <1>3 DEF IInv, Timely, Backed, Out, Keys
<1>5. ~Covers(journal[d].inn[k], k)
  BY <1>1 DEF Covers
<1>6. d \in Open(k)
  BY <1>2, <1>3, <1>4, <1>5 DEF Open
<1>7. attempt[t].body \in Bodies
  BY DEF IInv, Shape, Attempt
<1> QED
  BY <1>1, <1>6, <1>7

\* The message enters the inbox, which closes to it.
LEMMA AcceptStep ==
  ASSUME IInv, NEW t \in Slots, attempt[t] # None, GoOn,
         NEW d \in Devices, d = attempt[t].peer, NEW k \in Keys, k = attempt[t].key,
         journal[d].inn[k] = None,
         AppendDurable(d, ReceivedPeer(journal[d], k, attempt[t].body)),
         accepts' = [accepts EXCEPT ![k] = @ + 1], sends' = sends
  PROVE  IInv'
<1>0. Shape /\ Timely /\ TailAgrees /\ \A x \in Keys : Paid(x)
  BY DEF IInv, Credit
<1>1. PICK j \in Journal, body \in Bodies : j = journal[d] /\ body = attempt[t].body
  BY <1>0 DEF Shape, Attempt
<1>2. PICK i \in Journal : i = ReceivedPeer(j, k, body)
  BY <1>1, ReceivedPeerIs
<1>3. /\ i.out = j.out /\ i.inn[k] # None /\ ~i.inn[k].consumed
      /\ \A x \in Keys \ {k} : i.inn[x] = j.inn[x]
      /\ Agrees(j, i)
  BY <1>1, <1>2, ReceivedPeerIs
<1>4. Continues(d, i) /\ Renewed(i.inn[k])
  BY <1>1, <1>3 DEF Continues, KeepsOrEnds, Renewed
<1>5. /\ Wrote(d, i) /\ journal' \in [Devices -> Journal]
      /\ tail' \in [Devices -> Journal \cup {None}]
      /\ AppendDurable(d, i)
  BY <1>0, <1>1, <1>2, AppendWrites
<1>6. Shape'
  BY <1>0, <1>5 DEF Shape, GoOn
<1>7. Timely' /\ TailAgrees' /\ \A x \in Keys : Calm(x)
  BY <1>0, <1>4, <1>5, <1>6, GoOnRuns, WriteStep
<1>8. d \in Open(k)
  BY ArrivesWhereOpen
<1>9. \A x \in Keys : Follows(x)
  BY <1>0, <1>1, <1>3, <1>4, <1>5, <1>8, WroteFollows
<1>10. \A x \in Keys \ {k} : Paid(x)'
  <2>1. \A x \in Keys \ {k} : accepts'[x] = accepts[x] /\ sends'[x] = sends[x]
    BY <1>0 DEF Shape
  <2> QED
    BY <1>0, <1>6, <1>7, <1>9, <2>1, PaidStays
<1>11. d \notin Open(k)'
  <2>1. tail'[d] = None /\ journal'[d] \in {i, Dropped(i)}
    BY <1>0, <1>5 DEF AppendDurable, Shape
  <2>2. journal'[d].inn[k] = i.inn[k]
    <3>1. KeepsIn(i.inn[k])
      BY <1>3 DEF KeepsIn
    <3> QED
      BY <1>3, <2>1, <3>1, DroppedIs
  <2>3. Covers(i.inn[k], k)'
    BY <1>4, <1>6, RenewedCovers
  <2>4. \A v \in Views(d)' : v.inn[k] = i.inn[k]
    BY <2>1, <2>2 DEF Views
  <2>5. ~Comes(k, d)'
    BY <2>1 DEF Comes
  <2> QED
    BY <2>3, <2>4, <2>5 DEF Open
<1>12. Paid(k)'
  <2>1. accepts'[k] = accepts[k] + 1 /\ sends'[k] = sends[k]
    BY <1>0 DEF Shape
  <2> QED
    BY <1>0, <1>6, <1>7, <1>8, <1>9, <1>11, <2>1, AcceptPays
<1> QED
  BY <1>6, <1>7, <1>10, <1>12 DEF IInv, Credit

\* handle_incoming
LEMMA HandleStep ==
  ASSUME IInv, NEW t \in Slots, Handle(t)
  PROVE  IInv'
<1>0. Shape /\ attempt[t] # None
  BY DEF IInv, Handle
<1>1. PICK d \in Devices, k \in Keys, body \in Bodies :
        d = attempt[t].peer /\ k = attempt[t].key /\ body = attempt[t].body
  BY <1>0 DEF Shape, Attempt
<1>2. PICK j \in Journal : j = journal[d]
  BY <1>0 DEF Shape
<1>3. sends' = sends
  BY DEF Handle
<1>4. CASE j.inn[k] = None /\ AppendDurable(d, ReceivedPeer(j, k, body)) /\ Reply(t, "receipt")
           /\ accepts' = [accepts EXCEPT ![k] = @ + 1]
  <2>1. GoOn
    BY <1>0, <1>4, ReplyGoesOn
  <2> QED
    BY <1>0, <1>1, <1>2, <1>3, <1>4, <2>1, AcceptStep
<1>5. CASE j.inn[k] = None /\ AppendFails(d, ReceivedPeer(j, k, body)) /\ NotStored(t)
           /\ accepts' = accepts
  <2>1. GoOn
    BY <1>0, <1>5, ReplyGoesOn DEF NotStored
  <2>2. PICK i \in Journal : i = ReceivedPeer(j, k, body)
    BY <1>5, ReceivedPeerIs
  <2>3. /\ i.out = j.out /\ i.inn[k] # None /\ ~i.inn[k].consumed
        /\ \A x \in Keys \ {k} : i.inn[x] = j.inn[x]
        /\ Agrees(j, i)
    BY <1>5, <2>2, ReceivedPeerIs
  <2>4. Continues(d, i) /\ Renewed(i.inn[k])
    BY <1>2, <2>3 DEF Continues, KeepsOrEnds, Renewed
  <2>5. /\ Wrote(d, i) /\ journal' \in [Devices -> Journal]
        /\ tail' \in [Devices -> Journal \cup {None}]
    BY <1>0, <1>5, <2>2, AppendWrites
  <2>6. Shape'
    BY <1>0, <1>3, <1>5, <2>1, <2>5 DEF Shape, GoOn
  <2>7. d \in Open(k)
    BY <1>0, <1>1, <1>2, <1>5, ArrivesWhereOpen
  <2> QED
    BY <1>2, <1>3, <1>5, <2>1, <2>3, <2>4, <2>5, <2>6, <2>7, GoOnRuns, PlainStep
<1>6. CASE journal' = journal /\ tail' = tail /\ accepts' = accepts
           /\ (Reply(t, "busy") \/ Reply(t, "refused"))
  <2>1. GoOn
    BY <1>0, <1>6, ReplyGoesOn
  <2>2. Shape'
    BY <1>0, <1>3, <1>6, <2>1 DEF Shape, GoOn
  <2> QED
    BY <1>3, <1>6, <2>1, <2>2, GoOnRuns, StillStep
<1>7. CASE /\ AppendDurable(d, j) \/ AppendFails(d, j)
           /\ Reply(t, "receipt") \/ NotStored(t)
           /\ accepts' = accepts
  <2>1. GoOn
    BY <1>0, <1>7, ReplyGoesOn DEF NotStored
  <2>2. Continues(d, j)
    BY <1>2, AgreesSelf DEF Continues, KeepsOrEnds
  <2>3. /\ Wrote(d, j) /\ journal' \in [Devices -> Journal]
        /\ tail' \in [Devices -> Journal \cup {None}]
    BY <1>0, <1>7, AppendWrites
  <2>4. Shape'
    BY <1>0, <1>3, <1>7, <2>1, <2>3 DEF Shape, GoOn
  <2> QED
    BY <1>2, <1>3, <1>7, <2>1, <2>2, <2>3, <2>4, GoOnRuns, PlainStep
<1> QED
  BY <1>1, <1>2, <1>4, <1>5, <1>6, <1>7 DEF Handle

\* ack
LEMMA ConsumeStep ==
  ASSUME IInv, NEW d \in Devices, NEW k \in Keys, Consume(d, k)
  PROVE  IInv'
<1>0. Shape
  BY DEF IInv
<1>1. PICK j \in Journal : j = journal[d]
  BY <1>0 DEF Shape
<1>2. PICK i \in Journal : i = Consumed(j, k)
  BY <1>1, ConsumedIs DEF Consume
<1>3. /\ i.out = j.out /\ i.inn[k] # None /\ i.inn[k].age = 0
      /\ \A x \in Keys \ {k} : i.inn[x] = j.inn[x]
      /\ Agrees(j, i)
  BY <1>1, <1>2, ConsumedIs DEF Consume
<1>4. Continues(d, i) /\ Renewed(i.inn[k]) /\ journal[d].inn[k] # None
  BY <1>1, <1>3 DEF Continues, KeepsOrEnds, Renewed, Consume
<1>5. /\ Wrote(d, i) /\ journal' \in [Devices -> Journal]
      /\ tail' \in [Devices -> Journal \cup {None}]
  BY <1>0, <1>1, <1>2, AppendWrites DEF Consume
<1>6. attempt' = attempt /\ accepts' = accepts /\ sends' = sends
  BY DEF Consume
<1>7. GoOn /\ Shape'
  BY <1>0, <1>5, <1>6 DEF Shape, GoOn, Same
<1> QED
  BY <1>1, <1>3, <1>4, <1>5, <1>6, <1>7, GoOnRuns, PlainStep

\* shutdown, a kill or a power failure
LEMMA StopStep ==
  ASSUME IInv, NEW d \in Devices, Stop(d)
  PROVE  IInv'
<1>0. Shape /\ journal' = journal /\ tail' = tail /\ accepts' = accepts /\ sends' = sends
  BY DEF IInv, Stop, History
<1> DEFINE w(t) == [attempt[t] EXCEPT !.waiting = FALSE]
           l(t) == [attempt[t] EXCEPT !.stage = "lost"]
<1>1. \A t \in Slots : attempt[t] # None =>
        /\ w(t) \in Attempt /\ w(t).key = attempt[t].key
        /\ w(t).peer = attempt[t].peer /\ w(t).age = attempt[t].age /\ w(t).body = attempt[t].body
  BY <1>0 DEF Shape, Attempt
<1>2. \A t \in Slots : attempt[t] # None =>
        /\ l(t) \in Attempt /\ l(t).key = attempt[t].key
        /\ l(t).peer = attempt[t].peer /\ l(t).age = attempt[t].age /\ l(t).body = attempt[t].body
  BY <1>0 DEF Shape, Attempt
<1>3. attempt' = [t \in Slots |->
       IF attempt[t] = None THEN None
       ELSE IF attempt[t].key[1] = d
            THEN IF attempt[t].stage = "sent" THEN w(t) ELSE None
       ELSE IF attempt[t].peer = d
            THEN IF attempt[t].waiting THEN l(t) ELSE None
       ELSE attempt[t]]
  BY DEF Stop
<1> HIDE DEF w, l
<1>4. \A t \in Slots : attempt'[t] = None
        \/ (attempt[t] # None /\ attempt'[t] \in {w(t), l(t), attempt[t]})
  BY <1>3, Zenon
<1>5. DOMAIN attempt' = Slots /\ attempt' = [t \in Slots |-> attempt'[t]]
  BY <1>3, Zenon
<1>6. \A t \in Slots : attempt'[t] \in Attempt \cup {None}
  BY <1>0, <1>1, <1>2, <1>4 DEF Shape
<1>7. attempt' \in [Slots -> Attempt \cup {None}]
  BY <1>5, <1>6
<1>8. GoOn
  BY <1>1, <1>2, <1>4, <1>7 DEF GoOn, Same
<1>9. Shape'
  BY <1>0, <1>7 DEF Shape
<1> QED
  BY <1>0, <1>8, <1>9, GoOnRuns, StillStep

\* The attempt fails, or its connection does.
LEMMA FailStep ==
  ASSUME IInv, NEW t \in Slots, AttemptFails(t) \/ Lose(t)
  PROVE  IInv'
<1>0. Shape /\ attempt[t] # None
  BY DEF IInv, AttemptFails, Lose, Waits
<1>1. UNCHANGED <<journal, tail, accepts, sends>>
  BY DEF AttemptFails, Lose, History
<1>2. attempt[t] \in Attempt
  BY <1>0 DEF Shape
<1>3. PICK d \in Devices : d = attempt[t].peer
  BY <1>2 DEF Attempt
<1>4. GoOn
  <2>1. CASE Ends(t)
    BY <1>0, <2>1, EndsGoesOn
  <2>2. CASE Reply(t, "lost")
    BY <1>0, <2>2, ReplyGoesOn
  <2>3. CASE attempt' = [attempt EXCEPT ![t] = [@ EXCEPT !.waiting = FALSE]]
    <3> DEFINE a == [attempt[t] EXCEPT !.waiting = FALSE]
    <3>1. /\ a \in Attempt /\ a.key = attempt[t].key /\ a.peer = attempt[t].peer
          /\ a.body = attempt[t].body /\ a.age = attempt[t].age
      BY <1>2 DEF Attempt
    <3>2. attempt' = [attempt EXCEPT ![t] = a]
      BY <2>3
    <3> HIDE DEF a
    <3> QED
      BY <1>0, <3>1, <3>2 DEF Shape, GoOn, Same
  <2> QED
    BY <2>1, <2>2, <2>3 DEF AttemptFails, Lose
<1>5. Shape'
  BY <1>0, <1>1, <1>4 DEF Shape, GoOn
<1> QED
  BY <1>1, <1>3, <1>4, <1>5, GoOnRuns, StillStep

\* An outcome reaches the sender.
LEMMA OutcomeStep ==
  ASSUME IInv, NEW t \in Slots, GetReceipt(t) \/ GetRefusal(t)
  PROVE  IInv'
<1>0. Shape /\ attempt[t] # None
  BY DEF IInv, GetReceipt, GetRefusal, Waits
<1>1. PICK k \in Keys : k = attempt[t].key
  BY <1>0 DEF Shape, Attempt
<1>2. k[1] \in Devices /\ k[2] \in Ids
  BY DEF Keys
<1>3. UNCHANGED <<accepts, sends>>
  BY DEF GetReceipt, GetRefusal, History
<1>4. GoOn
  BY <1>0, EndsGoesOn DEF GetReceipt, GetRefusal
<1>5. \/ Record(k[1], k[2], "settled") \/ Record(k[1], k[2], "refused")
      \/ (journal' = journal /\ tail' = tail)
  BY <1>1 DEF GetReceipt, GetRefusal
<1>6. CASE Record(k[1], k[2], "settled") \/ Record(k[1], k[2], "refused")
  <2>1. "settled" \in Terminal /\ "refused" \in Terminal
    BY DEF Terminal
  <2> QED
    BY <1>2, <1>3, <1>4, <1>6, <2>1, RecordStep
<1>7. CASE journal' = journal /\ tail' = tail
  <2>1. Shape'
    BY <1>0, <1>3, <1>4, <1>7 DEF Shape, GoOn
  <2> QED
    BY <1>2, <1>3, <1>4, <1>7, <2>1, GoOnRuns, StillStep
<1> QED
  BY <1>5, <1>6, <1>7

\* send_message of an id the journal does not know.
LEMMA SendNewStep ==
  ASSUME IInv, NEW d \in Devices, NEW id \in Ids, NEW peer \in Devices, NEW body \in Bodies,
         NEW t \in Slots, SendNew(d, id, peer, body, t)
  PROVE  IInv'
<1>0. Shape /\ Timely /\ TailAgrees /\ \A x \in Keys : Paid(x)
  BY DEF IInv, Credit
<1>1. PICK j \in Journal : j = journal[d]
  BY <1>0 DEF Shape
<1>2. j.out[id] = None /\ accepts' = accepts
  BY <1>1 DEF SendNew
<1>3. PICK i \in Journal : i = QueuedLocal(j, id, peer, body)
  BY <1>2, QueuedLocalIs
<1>4. /\ i.inn = j.inn /\ i.out[id] # None /\ i.out[id].peer = peer
      /\ i.out[id].body = body
      /\ i.out[id].age = 0 /\ i.out[id].state = "queued"
      /\ \A x \in Ids \ {id} : i.out[x] = j.out[x]
      /\ Agrees(j, i)
  BY <1>2, <1>3, QueuedLocalIs
<1>5. \/ /\ AppendDurable(d, i) /\ Begins(t, d, id, peer, body)
         /\ sends' = [sends EXCEPT ![<<d, id>>] = @ + 1]
      \/ AppendFails(d, i) /\ UNCHANGED <<attempt, sends>>
  BY <1>1, <1>3 DEF SendNew
<1>6. /\ Wrote(d, i) /\ journal' \in [Devices -> Journal]
      /\ tail' \in [Devices -> Journal \cup {None}]
  BY <1>0, <1>5, AppendWrites
<1>7. CASE AppendFails(d, i) /\ UNCHANGED <<attempt, sends>>
  <2>1. GoOn /\ Shape'
    BY <1>0, <1>2, <1>6, <1>7 DEF Shape, GoOn, Same
  <2>2. Continues(d, i)
    BY <1>1, <1>2, <1>4, <1>7 DEF Continues, KeepsOrEnds, AppendFails
  <2> QED
    BY <1>1, <1>2, <1>4, <1>6, <1>7, <2>1, <2>2, GoOnRuns, PlainStep
<1>8. CASE /\ AppendDurable(d, i) /\ Begins(t, d, id, peer, body)
           /\ sends' = [sends EXCEPT ![<<d, id>>] = @ + 1]
  <2>0. PICK q \in Keys : q = <<d, id>>
    BY DEF Keys
  <2>a. Sent(d, id, peer, body) \in Attempt
    BY PeerAssumption DEF Sent, Attempt, Keys
  <2>1. PICK a \in Attempt : a = Sent(d, id, peer, body)
    BY <2>a
  <2>2. a.key = q /\ a.peer = peer /\ a.body = body /\ a.age = 0 /\ a # None
    BY <2>0, <2>1, NoneAssumption DEF Sent
  <2>3. attempt[t] = None /\ attempt' = [attempt EXCEPT ![t] = a]
    BY <1>8, <2>1 DEF Begins
  <2>4. Shape'
    BY <1>0, <1>2, <1>6, <1>8, <2>0, <2>3 DEF Shape
  <2>5. tail'[d] = None /\ journal'[d].out[id] = i.out[id]
    <3>1. tail'[d] = None /\ journal'[d] \in {i, Dropped(i)}
      BY <1>0, <1>8 DEF AppendDurable, Shape
    <3>2. KeepsOut(i.out[id])
      BY <1>4 DEF KeepsOut
    <3> QED
      BY <1>4, <3>1, <3>2, DroppedIs
  <2>6. \A s \in Slots : ~IsOf(s, q)
    <3>1. journal[d] \in Views(d)
      BY <1>0, <1>6, WroteViews
    <3> QED
      BY <1>0, <1>1, <1>2, <2>0, <3>1 DEF Timely, Backed
  <2>7. \A s \in Slots, k \in Keys : IsOf(s, k)' =>
          (s = t /\ k = q) \/ (k # q /\ Same(s))
    <3> SUFFICES ASSUME NEW s \in Slots, NEW k \in Keys, IsOf(s, k)'
                 PROVE  (s = t /\ k = q) \/ (k # q /\ Same(s))
      OBVIOUS
    <3>1. CASE s = t
      BY <1>0, <2>2, <2>3, <3>1 DEF IsOf, Shape
    <3>2. CASE s # t
      BY <1>0, <2>3, <2>6, <3>2 DEF IsOf, Shape, Same
    <3> QED
      BY <3>1, <3>2
  <2>8. \A k \in Keys \ {q} : k[1] = d => k[2] \in Ids \ {id}
    BY <2>0 DEF Keys
  <2>9. \A k \in Keys \ {q} : Lasts(k)
    <3>1. \A k \in Keys \ {q} : k[1] = d => KeepsOrEnds(journal[d].out[k[2]], i.out[k[2]])
      BY <1>1, <1>4, <2>8 DEF KeepsOrEnds
    <3> QED
      BY <1>0, <1>6, <3>1, WroteLasts
  <2>10. Timely'
    <3>1. \A v \in Views(q[1])' : Backed(attempt'[t], v.out[q[2]])
      <4> SUFFICES ASSUME NEW v \in Views(q[1])' PROVE Backed(attempt'[t], v.out[q[2]])
        OBVIOUS
      <4>1. v.out[q[2]] = i.out[id]
        BY <2>0, <2>5 DEF Views
      <4>2. attempt'[t] = a
        BY <1>0, <2>3 DEF Shape
      <4> QED
        BY <1>4, <2>2, <4>1, <4>2, PeerAssumption DEF Backed
    <3>2. \A s \in Slots, k \in Keys : IsOf(s, k)' =>
           \/ Same(s) /\ Lasts(k)
           \/ \A v \in Views(k[1])' : Backed(attempt'[s], v.out[k[2]])
      BY <2>7, <2>9, <3>1
    <3> QED
      BY <1>0, <3>2, TimelyStep
  <2>11. TailAgrees'
    BY <1>0, <1>1, <1>4, <1>6, WroteAgrees
  <2>12. \A k \in Keys : Follows(k)
    BY <1>0, <1>1, <1>4, <1>6, WroteFollows
  <2>13. ASSUME NEW k \in Keys \ {q} PROVE Paid(k)'
    <3>1. k[1] \in Devices /\ k[2] \in Ids
      BY DEF Keys
    <3>2. Out(k)' \in {Out(k), None}
      <4>1. CASE k[1] # d
        BY <1>6, <3>1, <4>1 DEF Out, Wrote
      <4>2. CASE k[1] = d
        <5>1. i.out[k[2]] = journal[d].out[k[2]]
          BY <1>1, <1>4, <2>8, <4>2
        <5>2. journal'[d] \in {journal[d], i, Dropped(i)}
          BY <1>6 DEF Wrote
        <5> QED
          BY <3>1, <4>2, <5>1, <5>2, DroppedIs DEF Out
      <4> QED
        BY <4>1, <4>2
    <3>3. \A s \in Slots : IsOf(s, k)' => Same(s)
      BY <2>7
    <3>4. Calm(k)
      BY <2>4, <2>10, <3>2, <3>3, CalmStep
    <3>5. accepts'[k] = accepts[k] /\ sends'[k] = sends[k]
      BY <1>0, <1>2, <1>8, <2>0 DEF Shape
    <3> QED
      BY <1>0, <2>4, <2>12, <3>4, <3>5, PaidStays
  <2>14. Paid(q)'
    <3>1. PICK S \in SUBSET Devices, T \in SUBSET Devices :
             /\ S = Open(q) /\ T = Open(q)'
             /\ accepts[q] \in Nat /\ sends[q] \in Nat
             /\ accepts[q] + Cardinality(S) <= sends[q]
             /\ Paid(q)' <=> accepts'[q] + Cardinality(T) <= sends'[q]
      BY <1>0, OpenBalance
    <3>2. Out(q)'.peer = peer
      BY <1>4, <2>0, <2>5 DEF Out
    <3>3. Open(q)' \subseteq Open(q) \cup {peer}
      BY <2>12, <3>2 DEF Open, Follows
    <3>4. T \subseteq S \cup {peer}
      BY <3>1, <3>3
    <3>5. Cardinality(S) \in Nat /\ Cardinality(T) \in Nat /\ Cardinality(T) <= Cardinality(S) + 1
      BY <3>4, Balance
    <3>6. accepts'[q] = accepts[q] /\ sends'[q] = sends[q] + 1
      BY <1>0, <1>2, <1>8, <2>0 DEF Shape
    <3> QED
      BY <3>1, <3>5, <3>6
  <2> QED
    BY <2>4, <2>10, <2>11, <2>13, <2>14 DEF IInv, Credit
<1> QED
  BY <1>5, <1>7, <1>8

\* start: the journal or the damaged tail is replayed and compacted.
LEMMA StartStep ==
  ASSUME IInv, NEW d \in Devices, Start(d)
  PROVE  IInv'
<1>0. Shape /\ Timely /\ TailAgrees /\ \A x \in Keys : Paid(x)
  BY DEF IInv, Credit
<1>1. PICK j \in {journal[d], tail[d]} \ {None} :
        /\ journal' = [journal EXCEPT ![d] = [Dropped(j) EXCEPT !.hi = HighWater(Dropped(j))]]
        /\ sends' = [k \in Keys |-> sends[k] + Adopted(k[1] = d /\ j.out[k[2]] # None
                                                       /\ journal[d].out[k[2]] = None)]
        /\ accepts' = [k \in Keys |-> accepts[k] + Adopted(j.inn[k] # None
                                                           /\ journal[d].inn[k] = None)]
  BY Zenon DEF Start
<1>2. tail' = [tail EXCEPT ![d] = None] /\ attempt' = attempt
  BY DEF Start
<1>3. j \in Journal /\ j \in Views(d) /\ Agrees(journal[d], j)
  BY <1>0, <1>1, AgreesSelf DEF Shape, Views, TailAgrees
<1>4. PICK n \in Journal : /\ n.out = Dropped(j).out /\ n.inn = Dropped(j).inn
                           /\ journal' = [journal EXCEPT ![d] = n]
  <2>1. Dropped(j) \in Journal
    BY <1>3, DroppedIs
  <2> DEFINE n == [Dropped(j) EXCEPT !.hi = HighWater(Dropped(j))]
  <2>2. n \in Journal /\ n.out = Dropped(j).out /\ n.inn = Dropped(j).inn
    BY <2>1 DEF Journal, HighWater
  <2>3. journal' = [journal EXCEPT ![d] = n]
    BY <1>1
  <2> HIDE DEF n
  <2> QED
    BY <2>2, <2>3
<1>5. /\ journal'[d] = n /\ tail'[d] = None /\ Views(d)' = {n}
      /\ \A p \in Devices \ {d} : journal'[p] = journal[p] /\ tail'[p] = tail[p]
                                  /\ Views(p)' = Views(p)
  <2>1. n # None
    BY JournalParts
  <2> QED
    BY <1>0, <1>2, <1>4, <2>1 DEF Shape, Views
<1>6. Shape'
  <2>1. \A h \in BOOLEAN : Adopted(h) \in Nat
    BY DEF Adopted
  <2>2. sends' \in [Keys -> Nat] /\ accepts' \in [Keys -> Nat]
    BY <1>0, <1>1 DEF Shape, Adopted
  <2> QED
    BY <1>0, <1>2, <1>4, <2>2 DEF Shape
<1>7. \A id \in Ids : n.out[id] = IF j.out[id] # None /\ KeepsOut(j.out[id]) THEN j.out[id] ELSE None
  BY <1>3, <1>4, DroppedIs
<1>8. \A k \in Keys : n.inn[k] = IF j.inn[k] # None /\ KeepsIn(j.inn[k]) THEN j.inn[k] ELSE None
  BY <1>3, <1>4, DroppedIs
<1>9. \A k \in Keys : k[1] \in Devices /\ k[2] \in Ids
  BY DEF Keys
<1>10. \A t \in Slots, k \in Keys : IsOf(t, k)' => Same(t)
  BY <1>2 DEF IsOf, Same
<1>11. Timely'
  <2>1. ASSUME NEW k \in Keys PROVE Lasts(k)
    <3>1. CASE k[1] # d
      BY <1>5, <1>9, <3>1 DEF Lasts
    <3>2. CASE k[1] = d
      BY <1>3, <1>5, <1>7, <1>9, <3>2 DEF Lasts
    <3> QED
      BY <3>1, <3>2
  <2> QED
    BY <1>0, <1>10, <2>1, TimelyStep
<1>12. TailAgrees'
  <2> SUFFICES ASSUME NEW p \in Devices, tail'[p] # None PROVE Agrees(journal'[p], tail'[p])
    BY DEF TailAgrees, Agrees
  <2> QED
    BY <1>0, <1>5 DEF TailAgrees
<1>13. ASSUME NEW k \in Keys PROVE Follows(k)
  <2>1. \A p \in Devices \ {d} : Comes(k, p)' => p \in Open(k)
    BY <1>5 DEF Comes, Open
  <2>2. ~Comes(k, d)'
    BY <1>5 DEF Comes
  <2>3. n.inn[k] = j.inn[k] \/ (j.inn[k] # None /\ ~KeepsIn(j.inn[k]))
    BY <1>8
  <2> QED
    BY <1>3, <1>5, <2>1, <2>2, <2>3 DEF Follows
<1>14. ASSUME NEW k \in Keys PROVE Paid(k)'
  <2> DEFINE A == j.inn[k] # None /\ journal[d].inn[k] = None
             B == k[1] = d /\ j.out[k[2]] # None /\ journal[d].out[k[2]] = None
  <2>1. ~B => Open(k)' \subseteq Open(k)
    <3> SUFFICES ASSUME ~B PROVE Open(k)' \subseteq Open(k)
      OBVIOUS
    <3>1. Out(k)' # None =>
           /\ Out(k) # None /\ Out(k)'.peer = Out(k).peer
           /\ Out(k)'.state = "queued" => Out(k).state = "queued" /\ Out(k)'.age = Out(k).age
      <4>1. CASE k[1] # d
        BY <1>5, <1>9, <4>1 DEF Out
      <4>2. CASE k[1] = d
        <5>1. Out(k)' = n.out[k[2]] /\ Out(k) = journal[d].out[k[2]]
          BY <1>5, <4>2 DEF Out
        <5>2. Out(k)' # None => Out(k)' = j.out[k[2]] /\ journal[d].out[k[2]] # None
          BY <1>7, <1>9, <4>2, <5>1
        <5> QED
          BY <1>3, <1>9, <5>1, <5>2 DEF Agrees
      <4> QED
        BY <4>1, <4>2
    <3>2. Calm(k)
      BY <1>6, <1>10, <1>11, <3>1, CalmStep
    <3> QED
      BY <1>0, <1>6, <1>13, <3>2, OpenShrinks
  <2>2. B => Open(k)' \subseteq Open(k) \cup {n.out[k[2]].peer}
    BY <1>5, <1>13 DEF Open, Follows, Out
  <2>3. A => d \in Open(k) /\ d \notin Open(k)'
    <3> SUFFICES ASSUME A PROVE d \in Open(k) /\ d \notin Open(k)'
      OBVIOUS
    <3>1. j = tail[d] /\ tail[d] # None
      BY <1>1
    <3>2. d \in Open(k)
      BY <3>1 DEF Open, Comes
    <3>3. ~j.inn[k].consumed
      BY <1>3 DEF Agrees
    <3>4. n.inn[k] = j.inn[k] /\ Renewed(j.inn[k])
      BY <1>8, <3>3 DEF KeepsIn, Renewed
    <3>5. Covers(n.inn[k], k)'
      BY <1>6, <3>4, RenewedCovers
    <3>6. \A v \in Views(d)' : v = n
      BY <1>5
    <3>7. ~Comes(k, d)'
      BY <1>5 DEF Comes
    <3> QED
      BY <3>2, <3>5, <3>6, <3>7 DEF Open
  <2>4. PICK S \in SUBSET Devices, T \in SUBSET Devices :
           /\ S = Open(k) /\ T = Open(k)'
           /\ accepts[k] \in Nat /\ sends[k] \in Nat
           /\ accepts[k] + Cardinality(S) <= sends[k]
           /\ Paid(k)' <=> accepts'[k] + Cardinality(T) <= sends'[k]
    BY <1>0, OpenBalance
  <2>5. accepts'[k] = accepts[k] + Adopted(A) /\ sends'[k] = sends[k] + Adopted(B)
    BY <1>1
  <2>6. Cardinality(S) \in Nat /\ Cardinality(T) \in Nat
    BY Balance
  <2>7. /\ ~B => T \subseteq S
        /\ B => T \subseteq S \cup {n.out[k[2]].peer}
        /\ A => d \in S /\ d \notin T
    BY <2>1, <2>2, <2>3, <2>4
  <2> HIDE DEF A, B
  <2>8. CASE A /\ B
    <3>1. d \in S /\ T \subseteq (S \ {d}) \cup {n.out[k[2]].peer}
      BY <2>7, <2>8
    <3>2. Cardinality(T) <= Cardinality(S)
      BY <3>1, Balance
    <3>3. accepts'[k] = accepts[k] + 1 /\ sends'[k] = sends[k] + 1
      BY <2>5, <2>8 DEF Adopted
    <3> QED
      BY <2>4, <2>6, <3>2, <3>3
  <2>9. CASE A /\ ~B
    <3>1. d \in S /\ T \subseteq S \ {d}
      BY <2>7, <2>9
    <3>2. Cardinality(T) + 1 <= Cardinality(S)
      BY <3>1, Balance
    <3>3. accepts'[k] = accepts[k] + 1 /\ sends'[k] = sends[k]
      BY <2>4, <2>5, <2>9 DEF Adopted
    <3> QED
      BY <2>4, <2>6, <3>2, <3>3
  <2>10. CASE ~A /\ B
    <3>1. T \subseteq S \cup {n.out[k[2]].peer}
      BY <2>7, <2>10
    <3>2. Cardinality(T) <= Cardinality(S) + 1
      BY <3>1, Balance
    <3>3. accepts'[k] = accepts[k] /\ sends'[k] = sends[k] + 1
      BY <2>4, <2>5, <2>10 DEF Adopted
    <3> QED
      BY <2>4, <2>6, <3>2, <3>3
  <2>11. CASE ~A /\ ~B
    <3>1. T \subseteq S
      BY <2>7, <2>11
    <3>2. Cardinality(T) <= Cardinality(S)
      BY <3>1, Balance
    <3>3. accepts'[k] = accepts[k] /\ sends'[k] = sends[k]
      BY <2>4, <2>5, <2>11 DEF Adopted
    <3> QED
      BY <2>4, <2>6, <3>2, <3>3
  <2> QED
    BY <2>8, <2>9, <2>10, <2>11
<1> QED
  BY <1>6, <1>11, <1>12, <1>14 DEF IInv, Credit

\* Time passes: what is remembered ages no faster than the attempts do.
LEMMA TickStep ==
  ASSUME IInv, Tick
  PROVE  IInv'
<1>0. Shape /\ Timely /\ TailAgrees /\ \A x \in Keys : Paid(x)
  BY DEF IInv, Credit
<1>1. accepts' = accepts /\ sends' = sends
  BY DEF Tick, History
<1>2. /\ \A t \in Slots : (attempt'[t] = None) <=> (attempt[t] = None)
      /\ \A t \in Slots : attempt[t] # None =>
           /\ attempt'[t].key = attempt[t].key /\ attempt'[t].peer = attempt[t].peer
           /\ attempt'[t].body = attempt[t].body /\ attempt'[t].age = attempt[t].age + 1
      /\ attempt' \in [Slots -> Attempt \cup {None}]
  <2> DEFINE o(t) == [attempt[t] EXCEPT !.age = attempt[t].age + 1]
  <2>1. \A t \in Slots : attempt[t] # None =>
          /\ o(t) \in Attempt /\ o(t).key = attempt[t].key
          /\ o(t).peer = attempt[t].peer /\ o(t).body = attempt[t].body
          /\ o(t).age = attempt[t].age + 1
    <3> SUFFICES ASSUME NEW t \in Slots, attempt[t] # None
                 PROVE  /\ o(t) \in Attempt /\ o(t).key = attempt[t].key
                        /\ o(t).peer = attempt[t].peer /\ o(t).body = attempt[t].body
                        /\ o(t).age = attempt[t].age + 1
      OBVIOUS
    <3>1. attempt[t] \in Attempt
      BY <1>0 DEF Shape
    <3>2. attempt[t].age \in 0..Timeout /\ attempt[t].age < Timeout
      BY <3>1 DEF Tick, Attempt
    <3>3. attempt[t].age + 1 \in 0..Timeout
      BY <3>2, PeerAssumption
    <3> QED
      BY <3>1, <3>3 DEF Attempt
  <2>2. attempt' = [t \in Slots |-> IF attempt[t] = None THEN None ELSE o(t)]
    BY DEF Tick
  <2>3. \A t \in Slots : attempt[t] # None => o(t) # None
    BY <2>1, NoneAssumption
  <2> HIDE DEF o
  <2>4. \A t \in Slots : (attempt[t] = None => attempt'[t] = None)
                         /\ (attempt[t] # None => attempt'[t] = o(t))
    BY <2>2
  <2>5. attempt' \in [Slots -> Attempt \cup {None}]
    BY <2>1, <2>2
  <2> QED
    BY <2>1, <2>3, <2>4, <2>5
<1>3. /\ \A p \in Devices : journal'[p] = Aged(journal[p])
      /\ \A p \in Devices : tail'[p] = IF tail[p] = None THEN None ELSE Aged(tail[p])
      /\ journal' \in [Devices -> Journal] /\ tail' \in [Devices -> Journal \cup {None}]
  <2>1. /\ \A p \in Devices : Aged(journal[p]) \in Journal
        /\ \A p \in Devices : tail[p] # None => Aged(tail[p]) \in Journal
    BY <1>0, AgedIs DEF Shape
  <2>2. /\ journal' = [p \in Devices |-> Aged(journal[p])]
        /\ tail' = [p \in Devices |-> IF tail[p] = None THEN None ELSE Aged(tail[p])]
    BY DEF Tick
  <2> QED
    BY <2>1, <2>2
<1>4. Shape'
  BY <1>0, <1>1, <1>2, <1>3 DEF Shape
<1>5. \A p \in Devices : \A v \in Views(p)' : \E u \in Views(p) : v = Aged(u) /\ u \in Journal
  <2>1. \A p \in Devices : journal[p] \in Journal /\ journal[p] # None
    BY <1>0, JournalParts DEF Shape
  <2> QED
    BY <1>0, <1>3, <2>1 DEF Views, Shape
<1>6. \A k \in Keys : k[1] \in Devices /\ k[2] \in Ids
  BY DEF Keys
<1>7. \A t \in Slots, k \in Keys : IsOf(t, k)' => IsOf(t, k) /\ attempt'[t].age = attempt[t].age + 1
                                                 /\ attempt'[t].peer = attempt[t].peer
                                                 /\ attempt'[t].body = attempt[t].body
  BY <1>2 DEF IsOf
<1>8. Timely'
  <2> SUFFICES ASSUME NEW t \in Slots, NEW k \in Keys, IsOf(t, k)', NEW v \in Views(k[1])'
               PROVE  Backed(attempt'[t], v.out[k[2]])
    BY DEF Timely, Backed
  <2>1. PICK u \in Views(k[1]) : v = Aged(u) /\ u \in Journal
    BY <1>5, <1>6
  <2>2. Backed(attempt[t], u.out[k[2]])
    BY <1>0, <1>7 DEF Timely
  <2>3. u.out[k[2]].age \in 0..Retention /\ attempt[t].age \in 0..Timeout
    <3>1. u.out[k[2]] \in Outbound
      BY <1>6, <2>1, <2>2, JournalParts DEF Backed
    <3>2. attempt[t] \in Attempt
      BY <1>0, <1>7 DEF Shape, IsOf
    <3> QED
      BY <3>1, <3>2 DEF Outbound, Attempt
  <2>4. /\ v.out[k[2]] # None /\ v.out[k[2]].peer = u.out[k[2]].peer
        /\ v.out[k[2]].body = u.out[k[2]].body
        /\ v.out[k[2]].age = Older(u.out[k[2]].age, Retention)
    BY <1>6, <2>1, <2>2, AgedIs DEF Backed
  <2> QED
    BY <1>7, <2>2, <2>3, <2>4, PeerAssumption DEF Backed, Older
<1>9. TailAgrees'
  <2> SUFFICES ASSUME NEW p \in Devices, tail'[p] # None PROVE Agrees(journal'[p], tail'[p])
    BY DEF TailAgrees, Agrees
  <2>1. PICK j \in Journal, i \in Journal :
          /\ j = journal[p] /\ i = tail[p] /\ Agrees(j, i)
          /\ journal'[p] = Aged(j) /\ tail'[p] = Aged(i)
    BY <1>0, <1>3 DEF Shape, TailAgrees
  <2>2. ASSUME NEW id \in Ids, Aged(j).out[id] # None
        PROVE  /\ Aged(i).out[id] # None
               /\ Aged(i).out[id].peer = Aged(j).out[id].peer
               /\ Aged(i).out[id].body = Aged(j).out[id].body
               /\ Aged(i).out[id].age <= Aged(j).out[id].age
               /\ Aged(i).out[id].state = "queued" =>
                    Aged(j).out[id].state = "queued" /\ Aged(i).out[id].age = Aged(j).out[id].age
    <3>1. j.out[id] # None
      BY <2>2, AgedIs
    <3>2. /\ i.out[id] # None /\ i.out[id].peer = j.out[id].peer
          /\ i.out[id].body = j.out[id].body
          /\ i.out[id].age <= j.out[id].age
          /\ i.out[id].state = "queued" => j.out[id].state = "queued" /\ i.out[id].age = j.out[id].age
      BY <2>1, <3>1 DEF Agrees
    <3>3. j.out[id] \in Outbound /\ i.out[id] \in Outbound
      BY <3>1, <3>2, JournalParts
    <3>4. j.out[id].age \in 0..Retention /\ i.out[id].age \in 0..Retention
      BY <3>3 DEF Outbound
    <3>5. /\ Aged(j).out[id].state = j.out[id].state /\ Aged(j).out[id].peer = j.out[id].peer
          /\ Aged(j).out[id].body = j.out[id].body
          /\ Aged(j).out[id].age = Older(j.out[id].age, Retention)
      BY <3>1, AgedIs
    <3>6. /\ Aged(i).out[id].state = i.out[id].state /\ Aged(i).out[id].peer = i.out[id].peer
          /\ Aged(i).out[id].body = i.out[id].body
          /\ Aged(i).out[id].age = Older(i.out[id].age, Retention) /\ Aged(i).out[id] # None
      BY <3>2, AgedIs
    <3>7. Older(i.out[id].age, Retention) <= Older(j.out[id].age, Retention)
      BY <3>2, <3>4, PeerAssumption DEF Older
    <3> QED
      BY <3>2, <3>5, <3>6, <3>7
  <2>3. ASSUME NEW k \in Keys
        PROVE  /\ Aged(j).inn[k] # None =>
                    /\ Aged(i).inn[k] # None
                    /\ Aged(i).inn[k].seq = Aged(j).inn[k].seq
                    /\ Aged(i).inn[k].body = Aged(j).inn[k].body
                    /\ ~Aged(i).inn[k].consumed => ~Aged(j).inn[k].consumed
               /\ Aged(j).inn[k] = None /\ Aged(i).inn[k] # None =>
                    ~Aged(i).inn[k].consumed /\ Aged(i).inn[k].seq > Aged(j).hi
    <3>1. /\ j.inn[k] # None =>
               /\ i.inn[k] # None /\ i.inn[k].seq = j.inn[k].seq /\ i.inn[k].body = j.inn[k].body
               /\ ~i.inn[k].consumed => ~j.inn[k].consumed
          /\ j.inn[k] = None /\ i.inn[k] # None => ~i.inn[k].consumed /\ i.inn[k].seq > j.hi
      BY <2>1 DEF Agrees
    <3> QED
      BY <3>1, AgedIs
  <2>4. Aged(j).hi <= Aged(i).hi
    BY <2>1, AgedIs DEF Agrees
  <2> QED
    BY <2>1, <2>2, <2>3, <2>4 DEF Agrees
<1>10. ASSUME NEW k \in Keys PROVE Open(k)' \subseteq Open(k)
  <2>1. Trying(k)' => Trying(k) /\ Out(k)'.age = Out(k).age + 1
    <3>1. PICK j \in Journal : j = journal[k[1]] /\ journal'[k[1]] = Aged(j)
      BY <1>0, <1>3, <1>6 DEF Shape
    <3>2. Out(k) = j.out[k[2]] /\ Out(k)' = Aged(j).out[k[2]]
      BY <3>1 DEF Out
    <3>3. Out(k)' # None => /\ Out(k) # None /\ Out(k)'.state = Out(k).state
                            /\ Out(k)'.age = Older(Out(k).age, Retention)
                            /\ Out(k).age \in 0..Retention
      BY <1>0, <1>6, <3>2, AgedIs, MessageParts
    <3> QED
      BY <3>3, PeerAssumption DEF Trying, Older
  <2>2. Active(k)' => Active(k)
    BY <1>7, <2>1 DEF Active
  <2>3. Active(k)' => Out(k)'.peer = Out(k).peer
    <3>1. PICK j \in Journal : j = journal[k[1]] /\ journal'[k[1]] = Aged(j)
      BY <1>0, <1>3, <1>6 DEF Shape
    <3>2. Out(k) = j.out[k[2]] /\ Out(k)' = Aged(j).out[k[2]]
      BY <3>1 DEF Out
    <3>3. Active(k)' => Out(k) # None
      <4>1. \A t \in Slots : IsOf(t, k) => Out(k) # None
        <5>1. journal[k[1]] \in Views(k[1])
          BY <3>1, JournalParts DEF Views
        <5> QED
          BY <1>0, <5>1 DEF Timely, Backed, Out
      <4> QED
        BY <2>2, <4>1 DEF Active, Trying
    <3> QED
      BY <1>6, <3>2, <3>3, AgedIs
  <2>4. ASSUME NEW p \in Devices, Comes(k, p)' PROVE Comes(k, p)
    <3>1. tail[p] # None /\ tail'[p] = Aged(tail[p]) /\ journal'[p] = Aged(journal[p])
      BY <1>3, <2>4 DEF Comes
    <3>2. PICK j \in Journal, i \in Journal : j = journal[p] /\ i = tail[p]
      BY <1>0, <3>1 DEF Shape
    <3>3. Aged(i).inn[k] # None /\ Aged(j).inn[k] = None
      BY <2>4, <3>1, <3>2 DEF Comes
    <3> QED
      BY <3>1, <3>2, <3>3, AgedIs DEF Comes
  <2>5. ASSUME NEW p \in Devices, NEW v \in Views(p)', ~Covers(v.inn[k], k)'
        PROVE  \E u \in Views(p) : ~Covers(u.inn[k], k)
    <3>1. PICK u \in Views(p) : v = Aged(u) /\ u \in Journal
      BY <1>5
    <3> SUFFICES ASSUME Covers(u.inn[k], k) PROVE Covers(v.inn[k], k)'
      BY <2>5
    <3>2. u.inn[k] # None /\ v.inn[k] # None /\ (v.inn[k].consumed => u.inn[k].consumed)
          /\ (u.inn[k].consumed => v.inn[k].age = Older(u.inn[k].age, Retention))
      BY <3>1, AgedIs DEF Covers
    <3> SUFFICES ASSUME v.inn[k].consumed
                 PROVE  /\ \A t \in Slots : IsOf(t, k)' => v.inn[k].age < attempt'[t].age + Expiry
                        /\ Trying(k)' => v.inn[k].age <= Out(k)'.age
      BY <3>2 DEF Covers
    <3>3. u.inn[k] \in Inbound
      BY <3>1, <3>2, JournalParts
    <3>4. /\ u.inn[k].age \in 0..Retention /\ u.inn[k].consumed
          /\ v.inn[k].age \in {u.inn[k].age, u.inn[k].age + 1}
      BY <3>2, <3>3 DEF Inbound, Older
    <3>5. ASSUME NEW t \in Slots, IsOf(t, k)' PROVE v.inn[k].age < attempt'[t].age + Expiry
      <4>1. u.inn[k].age < attempt[t].age + Expiry /\ attempt'[t].age = attempt[t].age + 1
        BY <1>7, <3>4, <3>5 DEF Covers
      <4>2. attempt[t].age \in 0..Timeout
        BY <1>0, <1>7, <3>5, MessageParts DEF IsOf
      <4> QED
        BY <3>4, <4>1, <4>2, PeerAssumption
    <3>6. ASSUME Trying(k)' PROVE v.inn[k].age <= Out(k)'.age
      <4>1. u.inn[k].age <= Out(k).age /\ Out(k)'.age = Out(k).age + 1
        BY <2>1, <3>4, <3>6 DEF Covers
      <4>2. Out(k).age \in 0..Retention
        BY <1>0, <2>1, <3>6, MessageParts DEF Trying
      <4> QED
        BY <3>4, <4>1, <4>2
    <3> QED
      BY <3>5, <3>6
  <2> QED
    BY <2>2, <2>3, <2>4, <2>5 DEF Open
<1>11. ASSUME NEW k \in Keys PROVE Paid(k)'
  <2>1. PICK S \in SUBSET Devices, T \in SUBSET Devices :
           /\ S = Open(k) /\ T = Open(k)'
           /\ accepts[k] \in Nat /\ sends[k] \in Nat
           /\ accepts[k] + Cardinality(S) <= sends[k]
           /\ Paid(k)' <=> accepts'[k] + Cardinality(T) <= sends'[k]
    BY <1>0, OpenBalance
  <2>2. Cardinality(S) \in Nat /\ Cardinality(T) \in Nat /\ Cardinality(T) <= Cardinality(S)
    BY <1>10, <2>1, Balance
  <2> QED
    BY <1>1, <2>1, <2>2
<1> QED
  BY <1>4, <1>8, <1>9, <1>11 DEF IInv, Credit

\* Nothing is queued, and nothing is owed.
LEMMA InitHolds == Init => IInv
<1> SUFFICES ASSUME Init PROVE IInv
  OBVIOUS
<1>1. NoRecords \in Journal /\ NoRecords # None
  <2>1. NoRecords \in Journal
    BY DEF NoRecords, Journal
  <2> QED
    BY <2>1, NoneAssumption
<1>2. Shape
  BY <1>1 DEF Init, Shape
<1>3. Timely /\ TailAgrees
  BY DEF Init, Timely, TailAgrees, IsOf
<1>4. ASSUME NEW k \in Keys PROVE Paid(k)
  <2>1. k[1] \in Devices /\ k[2] \in Ids
    BY DEF Keys
  <2>2. Out(k) = None /\ ~Active(k)
    BY <2>1 DEF Init, NoRecords, Out, Active, Trying, IsOf
  <2>3. \A p \in Devices : ~Comes(k, p)
    BY DEF Init, Comes
  <2>4. Open(k) = {}
    BY <2>2, <2>3 DEF Open
  <2>5. Cardinality(Open(k)) = 0 /\ accepts[k] = 0 /\ sends[k] = 0
    BY <2>4, FS_EmptySet DEF Init
  <2> QED
    BY <2>5 DEF Paid
<1> QED
  BY <1>2, <1>3, <1>4 DEF IInv, Credit

\* Every action of the engine keeps the accounts.
LEMMA NextHolds == IInv /\ [Next]_vars => IInv'
<1> SUFFICES ASSUME IInv, [Next]_vars PROVE IInv'
  OBVIOUS
<1>0. Shape
  BY DEF IInv
<1>1. ASSUME NEW d \in Devices, NEW id \in Ids, NEW t \in Slots, NEW p \in Devices, NEW b \in Bodies,
             SendNew(d, id, p, b, t)
      PROVE  IInv'
  BY <1>1, SendNewStep
<1>2. ASSUME NEW d \in Devices, NEW id \in Ids, NEW t \in Slots,
             SendAgain(d, id, t) \/ Retry(d, id, t)
      PROVE  IInv'
  <2>1. /\ id \in QueuedIds(d) /\ ~Expired(d, id)
        /\ Begins(t, d, id, journal[d].out[id].peer, journal[d].out[id].body)
        /\ UNCHANGED <<journal, tail, sends, accepts>>
    BY <1>2 DEF SendAgain, Retry, History
  <2> QED
    BY <2>1, BeginStep
<1>3. ASSUME NEW d \in Devices, NEW id \in Ids, Expire(d, id) PROVE IInv'
  <2>1. Record(d, id, "expired") /\ UNCHANGED <<attempt, sends, accepts>>
    BY <1>3 DEF Expire, History
  <2>2. GoOn /\ "expired" \in Terminal
    BY <1>0, <2>1 DEF GoOn, Same, Shape, Terminal
  <2> QED
    BY <2>1, <2>2, RecordStep
<1>4. ASSUME NEW t \in Slots,
             GetReceipt(t) \/ GetRefusal(t) \/ AttemptFails(t) \/ Handle(t) \/ Lose(t)
      PROVE  IInv'
  BY <1>4, OutcomeStep, FailStep, HandleStep
<1>5. ASSUME NEW d \in Devices, NEW k \in Keys, Consume(d, k) PROVE IInv'
  BY <1>5, ConsumeStep
<1>6. ASSUME NEW d \in Devices, ReadPage(d) PROVE IInv'
  <2>1. UNCHANGED <<journal, tail, attempt, sends, accepts>>
    BY <1>6 DEF ReadPage, History
  <2>2. GoOn /\ Shape'
    BY <1>0, <2>1 DEF GoOn, Same, Shape
  <2> QED
    BY <2>1, <2>2, GoOnRuns, StillStep
<1>7. ASSUME NEW d \in Devices, Stop(d) \/ Start(d) PROVE IInv'
  BY <1>7, StopStep, StartStep
<1>8. CASE Tick
  BY <1>8, TickStep
<1>9. CASE UNCHANGED vars
  <2>1. UNCHANGED <<journal, tail, attempt, sends, accepts>>
    BY <1>9 DEF vars
  <2> QED
    BY <2>1 DEF IInv, Shape, Credit, Paid, Open, Comes, Active, Trying, Out, IsOf, Covers, Views,
                Timely, Backed, TailAgrees, Agrees
<1> QED
  BY <1>1, <1>2, <1>3, <1>4, <1>5, <1>6, <1>7, <1>8, <1>9 DEF Next

-----------------------------------------------------------------------------
(* The theorems.                                                           *)

\* The accounts of every message balance in every reachable state.
THEOREM EngineInvariant == Spec => []IInv
BY InitHolds, NextHolds, PTL DEF Spec

\* A message enters its receiver's inbox no more often than its sender queued
\* it, for any number of devices, messages and attempts, though connections
\* fail, appends fail, both engines restart and the receiver forgets
\* (peer-engine/src/engine.rs, journal.rs).
THEOREM EntersOncePerSend == Spec => []DeliveredOnce
<1>1. IInv => DeliveredOnce
  <2> SUFFICES ASSUME IInv, NEW k \in Keys PROVE accepts[k] <= sends[k]
    BY DEF DeliveredOnce
  <2>1. Shape /\ Paid(k)
    BY DEF IInv, Credit
  <2>2. PICK S \in SUBSET Devices : S = Open(k)
    BY DEF Open
  <2>3. Cardinality(S) \in Nat
    BY Balance
  <2> QED
    BY <2>1, <2>2, <2>3 DEF Shape, Paid
<1> QED
  BY <1>1, EngineInvariant, PTL

-----------------------------------------------------------------------------
(* Receipts, numbers and counts.                                           *)

\* The rest of the state is well formed.
Typed ==
  /\ up \in [Devices -> BOOLEAN]
  /\ lease \in [Devices -> [Ids -> 0..Lease]]
  /\ cursor \in [Devices -> Nat]
  /\ paged \in [Devices -> SUBSET Keys]
  /\ taken \in [Keys -> Nat]

\* Every inbound record has a number the journal has given.
Ranked(v) == \A k \in Keys : v.inn[k] # None => v.inn[k].seq <= v.hi

\* The cursor is not ahead of the numbers.
Numbers ==
  /\ \A d \in Devices : \A v \in Views(d) : Ranked(v)
  /\ \A d \in Devices : cursor[d] <= journal[d].hi
  /\ CursorMissesNothing

\* A restart, too, finds no more than the quota.
Within(v) == \A f \in Devices : Unconsumed(v, f) <= Quota
Counts ==
  /\ live \in [Devices -> [Devices -> 0..Quota]]
  /\ \A d \in Devices : \A v \in Views(d) : Within(v)
  /\ LiveIsExact

\* What a receipt says.
Stored(k, p, b) ==
  \/ /\ journal[p].inn[k] # None /\ ~journal[p].inn[k].consumed
     /\ journal[p].inn[k].body = b
  \/ taken[k] > 0

\* Receipts under way and outcomes on disk are true, and what the journal holds
\* as consumed was taken.
Receipts ==
  /\ \A t \in Slots, k \in Keys : IsOf(t, k) /\ attempt[t].stage = "receipt" =>
       Stored(k, attempt[t].peer, attempt[t].body)
  /\ \A d \in Devices, id \in Ids : \A v \in Views(d) :
       v.out[id] # None /\ v.out[id].state = "settled" =>
         Stored(<<d, id>>, v.out[id].peer, v.out[id].body)
  /\ \A d \in Devices, k \in Keys :
       journal[d].inn[k] # None /\ journal[d].inn[k].consumed => taken[k] > 0

KInv == Typed /\ Numbers /\ Counts /\ Receipts

\* v is u, but for consumed and for outbound records that compaction dropped.
Trims(v, u) ==
  /\ v.hi = u.hi
  /\ \A k \in Keys : \/ v.inn[k] = u.inn[k]
                     \/ v.inn[k] = None /\ u.inn[k] # None /\ u.inn[k].consumed
  /\ \A id \in Ids : v.out[id] \in {u.out[id], None}

\* The journal of d goes on to i or stays, and so does what is on its disk.
Moved(d, i) ==
  /\ Agrees(journal[d], i)
  /\ \A p \in Devices \ {d} : journal'[p] = journal[p] /\ Views(p)' = Views(p)
  /\ \A v \in Views(d)' : v \in Views(d) \/ Trims(v, i)
  /\ journal'[d] = journal[d] \/ Trims(journal'[d], i)

\* Compaction drops only what was consumed or has an outcome.
LEMMA DroppedTrims == ASSUME NEW j \in Journal PROVE Trims(j, j) /\ Trims(Dropped(j), j)
<1>1. \A k \in Keys : \/ Dropped(j).inn[k] = j.inn[k]
                      \/ Dropped(j).inn[k] = None /\ j.inn[k] # None /\ j.inn[k].consumed
  BY DroppedIs DEF KeepsIn
<1>2. \A id \in Ids : Dropped(j).out[id] \in {j.out[id], None}
  BY DroppedIs
<1> QED
  BY <1>1, <1>2, DroppedIs DEF Trims

\* append_durable moves the journal.
LEMMA WroteMoves ==
  ASSUME Shape, NEW d \in Devices, NEW i \in Journal, Wrote(d, i), Agrees(journal[d], i)
  PROVE  Moved(d, i)
<1>1. \A p \in Devices \ {d} : journal'[p] = journal[p] /\ Views(p)' = Views(p)
  BY WroteViews DEF Wrote
<1>2. \A v \in Views(d)' : v \in Views(d) \/ Trims(v, i)
  BY WroteViews, DroppedTrims
<1>3. journal'[d] = journal[d] \/ Trims(journal'[d], i)
  BY DroppedTrims DEF Wrote
<1> QED
  BY <1>1, <1>2, <1>3 DEF Moved

\* Nothing is written.
LEMMA StillMoves ==
  ASSUME Shape, NEW d \in Devices, UNCHANGED <<journal, tail>>
  PROVE  Moved(d, journal[d])
<1>1. journal[d] \in Journal
  BY DEF Shape
<1>2. Agrees(journal[d], journal[d])
  BY <1>1, AgreesSelf
<1> QED
  BY <1>2 DEF Moved, Views

\* No message gets behind the cursor unseen.
LEMMA NumbersStep ==
  ASSUME Shape, Shape', Typed, Numbers, NEW d \in Devices, NEW i \in Journal, Moved(d, i), Ranked(i),
         cursor' = cursor, \A p \in Devices \ {d} : paged'[p] = paged[p],
         \A k \in paged[d] : journal[d].inn[k] # None => k \in paged'[d]
  PROVE  Numbers'
<1>0. /\ journal[d] \in Journal /\ journal[d] \in Views(d)
      /\ cursor[d] \in Nat /\ cursor[d] <= journal[d].hi
  <2>1. journal[d] \in Journal
    BY DEF Shape
  <2> QED
    BY <2>1, JournalParts DEF Views, Typed, Numbers
<1>1. \A v : Trims(v, i) => Ranked(v)
  BY DEF Trims, Ranked
<1>2. ASSUME NEW p \in Devices, NEW v \in Views(p)' PROVE Ranked(v)
  <2>1. CASE p # d
    BY <1>2, <2>1 DEF Moved, Numbers
  <2>2. CASE p = d
    BY <1>1, <1>2, <2>2 DEF Moved, Numbers
  <2> QED
    BY <2>1, <2>2
<1>3. ASSUME NEW p \in Devices PROVE cursor'[p] <= journal'[p].hi
  <2>1. CASE p # d
    BY <2>1 DEF Moved, Numbers
  <2>2. CASE p = d /\ journal'[d] = journal[d]
    BY <1>0, <2>2
  <2>3. CASE p = d /\ Trims(journal'[d], i)
    <3>1. journal[d].hi <= i.hi /\ journal'[d].hi = i.hi
      BY <2>3 DEF Moved, Agrees, Trims
    <3>2. journal[d].hi \in Nat /\ i.hi \in Nat
      BY <1>0, JournalParts
    <3> QED
      BY <1>0, <2>3, <3>1, <3>2
  <2> QED
    BY <2>1, <2>2, <2>3 DEF Moved
<1>4. ASSUME NEW p \in Devices, NEW k \in Keys,
             journal'[p].inn[k] # None, ~journal'[p].inn[k].consumed,
             journal'[p].inn[k].seq <= cursor'[p]
      PROVE  k \in paged'[p]
  <2>1. CASE p # d
    BY <1>4, <2>1 DEF Moved, Numbers, CursorMissesNothing, Inbox
  <2>2. CASE p = d /\ journal'[d] = journal[d]
    BY <1>4, <2>2 DEF Numbers, CursorMissesNothing, Inbox
  <2>3. CASE p = d /\ Trims(journal'[d], i)
    <3>1. journal'[d].inn[k] = i.inn[k]
      BY <1>4, <2>3 DEF Trims
    <3>2. i.inn[k] # None /\ ~i.inn[k].consumed /\ i.inn[k].seq <= cursor[d]
      BY <1>4, <2>3, <3>1
    <3>3. journal[d].inn[k] # None
      <4> SUFFICES ASSUME journal[d].inn[k] = None PROVE FALSE
        OBVIOUS
      <4>1. i.inn[k].seq > journal[d].hi
        BY <3>2 DEF Moved, Agrees
      <4>2. i.inn[k].seq \in Nat /\ journal[d].hi \in Nat
        <5>1. i.inn[k] \in Inbound
          BY <3>2, JournalParts
        <5> QED
          BY <1>0, <5>1, JournalParts DEF Inbound
      <4> QED
        BY <1>0, <3>2, <4>1, <4>2
    <3>4. ~journal[d].inn[k].consumed /\ journal[d].inn[k].seq <= cursor[d]
      BY <3>2, <3>3 DEF Moved, Agrees
    <3>5. k \in paged[d]
      BY <3>3, <3>4 DEF Numbers, CursorMissesNothing, Inbox
    <3> QED
      BY <2>3, <3>3, <3>5
  <2> QED
    BY <2>1, <2>2, <2>3 DEF Moved
<1>5. CursorMissesNothing'
  BY <1>4 DEF CursorMissesNothing, Inbox
<1>6. \A p \in Devices : \A v \in Views(p)' : Ranked(v)
  BY <1>2
<1> QED
  BY <1>3, <1>5, <1>6 DEF Numbers, Ranked

\* What was taken is counted when the journal says so.
TakenMoves(d, i) ==
  \A k \in Keys :
    /\ taken'[k] \in Nat /\ taken'[k] >= taken[k]
    /\ /\ journal[d].inn[k] # None /\ ~journal[d].inn[k].consumed
       /\ i.inn[k] # None /\ i.inn[k].consumed
       => journal'[d] = journal[d] \/ taken'[k] > 0

\* A stored message stays, or is taken.
LEMMA StoredStays ==
  ASSUME Shape, Typed, NEW d \in Devices, NEW i \in Journal, Moved(d, i), TakenMoves(d, i),
         NEW k \in Keys, NEW p \in Devices, NEW b, Stored(k, p, b)
  PROVE  Stored(k, p, b)'
<1>1. CASE taken[k] > 0
  <2>1. taken[k] \in Nat /\ taken'[k] \in Nat /\ taken'[k] >= taken[k]
    BY DEF Typed, TakenMoves
  <2> QED
    BY <1>1, <2>1 DEF Stored
<1>2. CASE /\ journal[p].inn[k] # None /\ ~journal[p].inn[k].consumed
           /\ journal[p].inn[k].body = b
  <2>1. CASE p # d
    BY <1>2, <2>1 DEF Stored, Moved
  <2>2. CASE p = d /\ journal'[d] = journal[d]
    BY <1>2, <2>2 DEF Stored
  <2>3. CASE p = d /\ Trims(journal'[d], i) /\ journal'[d] # journal[d]
    <3>1. i.inn[k] # None /\ i.inn[k].body = b
      BY <1>2, <2>3 DEF Moved, Agrees
    <3>2. CASE i.inn[k].consumed
      BY <1>2, <2>3, <3>1, <3>2 DEF TakenMoves, Stored
    <3>3. CASE ~i.inn[k].consumed
      BY <2>3, <3>1, <3>3 DEF Trims, Stored
    <3> QED
      BY <3>2, <3>3
  <2> QED
    BY <2>1, <2>2, <2>3 DEF Moved
<1> QED
  BY <1>1, <1>2 DEF Stored

\* A receipt that is under way after the step was so before, or is true.
Answers ==
  \A t \in Slots, k \in Keys : IsOf(t, k)' /\ attempt'[t].stage = "receipt" =>
    \/ IsOf(t, k) /\ attempt[t].stage = "receipt" /\ Same(t)
    \/ Stored(k, attempt[t].peer, attempt[t].body)'

\* Receipts stay true while the journal moves on.
LEMMA ReceiptsStep ==
  ASSUME Shape, Typed, Receipts, Shape', NEW d \in Devices, NEW i \in Journal,
         Moved(d, i), TakenMoves(d, i), Answers,
         \A id \in Ids : i.out[id] # None /\ i.out[id].state = "settled" =>
           \/ i.out[id] = journal[d].out[id]
           \/ Stored(<<d, id>>, i.out[id].peer, i.out[id].body)
  PROVE  Receipts'
<1>1. ASSUME NEW t \in Slots, NEW k \in Keys, IsOf(t, k)', attempt'[t].stage = "receipt"
      PROVE  Stored(k, attempt[t].peer, attempt[t].body)'
  <2>1. CASE IsOf(t, k) /\ attempt[t].stage = "receipt" /\ Same(t)
    <3>1. PICK p \in Devices, b \in Bodies : p = attempt[t].peer /\ b = attempt[t].body
      BY <2>1 DEF Shape, Attempt, IsOf
    <3>2. Stored(k, p, b)
      BY <2>1, <3>1 DEF Receipts
    <3>3. Stored(k, p, b)'
      BY <3>2, StoredStays
    <3>4. attempt'[t].peer = p /\ attempt'[t].body = b
      BY <2>1, <3>1 DEF Same
    <3> QED
      BY <3>3, <3>4 DEF Stored
  <2> QED
    BY <1>1, <2>1 DEF Answers
<1>2. ASSUME NEW p \in Devices, NEW id \in Ids, NEW v \in Views(p)',
             v.out[id] # None, v.out[id].state = "settled"
      PROVE  Stored(<<p, id>>, v.out[id].peer, v.out[id].body)'
  <2>0. <<p, id>> \in Keys
    BY DEF Keys
  <2>1. Stored(<<p, id>>, v.out[id].peer, v.out[id].body)
    <3>1. CASE v \in Views(p)
      BY <1>2, <3>1 DEF Receipts
    <3>2. CASE v \notin Views(p)
      <4>1. p = d /\ Trims(v, i)
        BY <1>2, <3>2 DEF Moved
      <4>2. v.out[id] = i.out[id]
        BY <1>2, <4>1 DEF Trims
      <4>3. journal[d] \in Views(d)
        <5>1. journal[d] \in Journal
          BY DEF Shape
        <5> QED
          BY <5>1, JournalParts DEF Views
      <4>4. CASE i.out[id] = journal[d].out[id]
        BY <1>2, <4>1, <4>2, <4>3, <4>4 DEF Receipts
      <4>5. CASE Stored(<<d, id>>, i.out[id].peer, i.out[id].body)
        BY <4>1, <4>2, <4>5
      <4> QED
        BY <1>2, <4>2, <4>4, <4>5
    <3> QED
      BY <3>1, <3>2
  <2>2. v.out[id].peer \in Devices /\ v.out[id].body \in Bodies
    <3>1. v \in Journal
      BY DEF Shape, Views
    <3>2. v.out[id] \in Outbound
      BY <1>2, <3>1, JournalParts
    <3> QED
      BY <3>2 DEF Outbound
  <2>3. PICK q \in Devices, b \in Bodies, k \in Keys : q = v.out[id].peer /\ b = v.out[id].body /\ k = <<p, id>>
    BY <2>0, <2>2
  <2>4. Stored(k, q, b)'
    BY <2>1, <2>3, StoredStays
  <2> QED
    BY <2>3, <2>4
<1>3. ASSUME NEW p \in Devices, NEW k \in Keys,
             journal'[p].inn[k] # None, journal'[p].inn[k].consumed
      PROVE  taken'[k] > 0
  <2>0. taken[k] \in Nat /\ taken'[k] \in Nat /\ taken'[k] >= taken[k]
    BY DEF Typed, TakenMoves
  <2>1. CASE p # d
    BY <1>3, <2>0, <2>1 DEF Moved, Receipts
  <2>2. CASE p = d /\ journal'[d] = journal[d]
    BY <1>3, <2>0, <2>2 DEF Receipts
  <2>3. CASE p = d /\ Trims(journal'[d], i) /\ journal'[d] # journal[d]
    <3>1. i.inn[k] # None /\ i.inn[k].consumed
      BY <1>3, <2>3 DEF Trims
    <3>2. journal[d].inn[k] # None
      BY <3>1 DEF Moved, Agrees
    <3>3. CASE journal[d].inn[k].consumed
      BY <2>0, <3>2, <3>3 DEF Receipts
    <3>4. CASE ~journal[d].inn[k].consumed
      BY <2>3, <3>1, <3>2, <3>4 DEF TakenMoves
    <3> QED
      BY <3>3, <3>4
  <2> QED
    BY <2>1, <2>2, <2>3 DEF Moved
<1> QED
  BY <1>1, <1>2, <1>3 DEF Receipts

\* The unconsumed messages of a sender.
Unread(v, f) == {id \in Ids : v.inn[<<f, id>>] # None /\ ~v.inn[<<f, id>>].consumed}

\* Unconsumed is the size of a finite set.
LEMMA UnreadCounts ==
  ASSUME NEW v, NEW f
  PROVE  /\ Unconsumed(v, f) = Cardinality(Unread(v, f))
         /\ IsFiniteSet(Unread(v, f)) /\ Unconsumed(v, f) \in Nat
<1>1. Unconsumed(v, f) = Cardinality(Unread(v, f)) /\ Unread(v, f) \subseteq Ids
  BY DEF Unconsumed, Unread
<1>2. IsFiniteSet(Unread(v, f))
  BY <1>1, PeerAssumption, FS_Subset
<1> QED
  BY <1>1, <1>2, FS_CardinalityType

\* Compaction drops no unconsumed message.
LEMMA TrimsCounts ==
  ASSUME NEW v, NEW u, Trims(v, u), NEW f \in Devices
  PROVE  Unconsumed(v, f) = Unconsumed(u, f)
<1>1. \A id \in Ids : <<f, id>> \in Keys
  BY DEF Keys
<1>2. \A id \in Ids : id \in Unread(v, f) <=> id \in Unread(u, f)
  BY <1>1 DEF Trims, Unread
<1>3. Unread(v, f) = Unread(u, f)
  BY <1>2 DEF Unread
<1> QED
  BY <1>3, UnreadCounts

\* accept_inbound and ack count by one.
LEMMA OneMoreUnread ==
  ASSUME NEW v \in Journal, NEW u \in Journal, NEW k \in Keys,
         \A x \in Keys \ {k} : v.inn[x] = u.inn[x],
         u.inn[k] = None \/ u.inn[k].consumed,
         v.inn[k] # None, ~v.inn[k].consumed
  PROVE  /\ Unconsumed(v, k[1]) = Unconsumed(u, k[1]) + 1
         /\ \A f \in Devices \ {k[1]} : Unconsumed(v, f) = Unconsumed(u, f)
<1>0. k = <<k[1], k[2]>> /\ k[1] \in Devices /\ k[2] \in Ids
  BY DEF Keys
<1>1. \A f \in Devices, id \in Ids : <<f, id>> \in Keys /\ (<<f, id>> = k => f = k[1] /\ id = k[2])
  BY DEF Keys
<1>2. ASSUME NEW f \in Devices \ {k[1]} PROVE Unconsumed(v, f) = Unconsumed(u, f)
  <2>1. \A id \in Ids : v.inn[<<f, id>>] = u.inn[<<f, id>>]
    BY <1>1
  <2>2. Unread(v, f) = Unread(u, f)
    BY <2>1 DEF Unread
  <2> QED
    BY <2>2, UnreadCounts
<1>3. \A id \in Ids \ {k[2]} : v.inn[<<k[1], id>>] = u.inn[<<k[1], id>>]
  BY <1>0, <1>1
<1>4. Unread(v, k[1]) = Unread(u, k[1]) \cup {k[2]} /\ k[2] \notin Unread(u, k[1])
  <2>1. k[2] \in Unread(v, k[1]) /\ k[2] \notin Unread(u, k[1])
    BY <1>0 DEF Unread
  <2>2. \A id \in Ids \ {k[2]} : id \in Unread(v, k[1]) <=> id \in Unread(u, k[1])
    BY <1>3 DEF Unread
  <2>3. Unread(v, k[1]) \subseteq Ids /\ Unread(u, k[1]) \subseteq Ids
    BY DEF Unread
  <2> QED
    BY <2>1, <2>2, <2>3
<1>5. Cardinality(Unread(u, k[1]) \cup {k[2]}) = Cardinality(Unread(u, k[1])) + 1
  <2> DEFINE S == Unread(u, k[1])
  <2>1. IsFiniteSet(S) /\ k[2] \notin S
    BY <1>4, UnreadCounts
  <2> HIDE DEF S
  <2>2. Cardinality(S \cup {k[2]}) = Cardinality(S) + 1
    BY <2>1, FS_AddElement
  <2> QED
    BY <2>2 DEF S
<1>6. Unconsumed(v, k[1]) = Unconsumed(u, k[1]) + 1
  <2>1. /\ Unconsumed(v, k[1]) = Cardinality(Unread(v, k[1]))
        /\ Unconsumed(u, k[1]) = Cardinality(Unread(u, k[1]))
    BY UnreadCounts
  <2> QED
    BY <1>4, <1>5, <2>1
<1> QED
  BY <1>2, <1>6

\* What is on disk stays within the quota and the counter exact.
LEMMA CountsStep ==
  ASSUME Shape, Counts, NEW d \in Devices, NEW i \in Journal, Moved(d, i), Within(i),
         \A p \in Devices \ {d} : live'[p] = live[p] /\ (up'[p] => up[p]),
         live' \in [Devices -> [Devices -> 0..Quota]],
         up'[d] => \A f \in Devices : live'[d][f] = Unconsumed(journal'[d], f)
  PROVE  Counts'
<1>1. ASSUME NEW p \in Devices, NEW v \in Views(p)' PROVE Within(v)
  <2>1. CASE v \in Views(p)
    BY <2>1 DEF Counts
  <2>2. CASE p = d /\ Trims(v, i)
    BY <2>2, TrimsCounts DEF Within
  <2> QED
    BY <1>1, <2>1, <2>2 DEF Moved
<1>2. ASSUME NEW p \in Devices, up'[p], NEW f \in Devices
      PROVE  live'[p][f] = Unconsumed(journal'[p], f)
  <2>1. CASE p = d
    BY <1>2, <2>1
  <2>2. CASE p # d
    <3>1. journal'[p] = journal[p] /\ live'[p] = live[p] /\ up[p]
      BY <1>2, <2>2 DEF Moved
    <3> QED
      BY <3>1 DEF Counts, LiveIsExact
  <2> QED
    BY <2>1, <2>2
<1>3. LiveIsExact'
  BY <1>2 DEF LiveIsExact, Unconsumed
<1> QED
  BY <1>1, <1>3 DEF Counts, Within, Unconsumed

\* Every action keeps the rest of the state well formed.
LEMMA TypedStep == ASSUME Shape, Typed, Next PROVE Typed'
<1>0. Lease \in Nat
  BY PeerAssumption DEF Lease
<1>1. ASSUME NEW d \in Devices, NEW id \in Ids, lease' = [lease EXCEPT ![d][id] = Lease]
      PROVE  lease' \in [Devices -> [Ids -> 0..Lease]]
  BY <1>0, <1>1 DEF Typed
<1>2. ASSUME NEW d \in Devices, NEW id \in Ids, NEW t \in Slots, NEW p \in Devices, NEW b \in Bodies,
             SendNew(d, id, p, b, t)
      PROVE  Typed'
  <2>1. lease' = [lease EXCEPT ![d][id] = Lease] \/ lease' = lease
    BY <1>2 DEF SendNew, Begins
  <2>2. UNCHANGED <<up, cursor, paged, taken>>
    BY <1>2 DEF SendNew
  <2> QED
    BY <1>1, <2>1, <2>2 DEF Typed
<1>3. ASSUME NEW d \in Devices, NEW id \in Ids, NEW t \in Slots, SendAgain(d, id, t) \/ Retry(d, id, t)
      PROVE  Typed'
  <2>1. lease' = [lease EXCEPT ![d][id] = Lease] /\ UNCHANGED <<up, cursor, paged, taken>>
    BY <1>3 DEF SendAgain, Retry, Begins, History
  <2> QED
    BY <1>1, <2>1 DEF Typed
<1>4. ASSUME NEW d \in Devices, NEW id \in Ids, Expire(d, id) PROVE Typed'
  BY <1>4 DEF Expire, History, Typed
<1>5. ASSUME NEW t \in Slots, GetReceipt(t) \/ GetRefusal(t) \/ Lose(t) PROVE Typed'
  BY <1>5 DEF GetReceipt, GetRefusal, Lose, History, Typed
<1>6. ASSUME NEW t \in Slots, AttemptFails(t) PROVE Typed'
  <2>1. PICK k \in Keys : k = attempt[t].key
    BY <1>6 DEF AttemptFails, Waits, Shape, Attempt
  <2>2. PICK b \in 1..Lease :
          lease' = [lease EXCEPT ![k[1]][k[2]] =
                      IF journal[k[1]].out[k[2]] = None THEN lease[k[1]][k[2]] ELSE b]
    BY <1>6, <2>1 DEF AttemptFails, ScheduleRetry
  <2>3. k[1] \in Devices /\ k[2] \in Ids
    BY DEF Keys
  <2> DEFINE c == IF journal[k[1]].out[k[2]] = None THEN lease[k[1]][k[2]] ELSE b
  <2>a. c \in 0..Lease
    BY <1>0, <2>3 DEF Typed
  <2>4. lease' = [lease EXCEPT ![k[1]][k[2]] = c]
    BY <2>2
  <2> HIDE DEF c
  <2>5. lease' \in [Devices -> [Ids -> 0..Lease]]
    BY <2>3, <2>4, <2>a DEF Typed
  <2>6. UNCHANGED <<up, cursor, paged, taken>>
    BY <1>6 DEF AttemptFails, History
  <2> QED
    BY <2>5, <2>6 DEF Typed
<1>7. ASSUME NEW t \in Slots, Handle(t) PROVE Typed'
  <2>1. UNCHANGED <<up, lease, cursor, taken>>
    BY <1>7 DEF Handle
  <2>2. paged' = paged \/ paged' = [paged EXCEPT ![attempt[t].peer] = @ \ {attempt[t].key}]
    BY <1>7 DEF Handle
  <2>3. attempt[t].peer \in Devices
    BY <1>7 DEF Handle, Shape, Attempt
  <2> QED
    BY <2>1, <2>2, <2>3 DEF Typed
<1>8. ASSUME NEW d \in Devices, NEW k \in Keys, Consume(d, k) PROVE Typed'
  <2>1. taken' = taken \/ taken' = [taken EXCEPT ![k] = @ + 1]
    BY <1>8 DEF Consume
  <2>2. UNCHANGED <<up, lease, cursor, paged>>
    BY <1>8 DEF Consume
  <2> QED
    BY <2>1, <2>2 DEF Typed
<1>9. ASSUME NEW d \in Devices, ReadPage(d) PROVE Typed'
  <2>1. PICK last \in {journal[d].inn[k].seq : k \in Inbox(d)} \ 0..cursor[d] :
          /\ cursor' = [cursor EXCEPT ![d] = last]
          /\ paged' = [paged EXCEPT ![d] = @ \cup
               {k \in Inbox(d) : journal[d].inn[k].seq \in cursor[d] + 1 .. last}]
    BY <1>9 DEF ReadPage
  <2>2. PICK x \in Inbox(d) : last = journal[d].inn[x].seq
    OBVIOUS
  <2>3. last \in Nat
    <3>1. journal[d].inn[x] \in Inbound
      BY <2>2, JournalParts DEF Inbox, Shape
    <3> QED
      BY <2>2, <3>1 DEF Inbound
  <2>4. Inbox(d) \subseteq Keys
    BY DEF Inbox
  <2>5. UNCHANGED <<up, lease, taken>>
    BY <1>9 DEF ReadPage, History
  <2> QED
    BY <2>1, <2>3, <2>4, <2>5 DEF Typed
<1>10. ASSUME NEW d \in Devices, Stop(d) PROVE Typed'
  BY <1>10 DEF Stop, History, Typed
<1>11. ASSUME NEW d \in Devices, Start(d) PROVE Typed'
  <2>1. PICK j \in {journal[d], tail[d]} \ {None} :
          /\ paged' = [paged EXCEPT ![d] = {k \in @ : journal[d].inn[k] # None \/ j.inn[k] = None}]
          /\ taken' = [k \in Keys |-> taken[k] + Adopted(k \in Inbox(d) /\ j.inn[k].consumed)]
    BY <1>11, Zenon DEF Start
  <2>2. up' = [up EXCEPT ![d] = TRUE] /\ lease' = [lease EXCEPT ![d] = [id \in Ids |-> 0]]
        /\ cursor' = cursor
    BY <1>11 DEF Start
  <2>3. taken' \in [Keys -> Nat]
    BY <2>1 DEF Typed, Adopted
  <2>4. lease' \in [Devices -> [Ids -> 0..Lease]]
    BY <1>0, <2>2 DEF Typed
  <2> QED
    BY <2>1, <2>2, <2>3, <2>4 DEF Typed
<1>12. CASE Tick
  <2>1. UNCHANGED <<up, cursor, paged, taken>>
    BY <1>12 DEF Tick, History
  <2>2. lease' \in [Devices -> [Ids -> 0..Lease]]
    BY <1>0, <1>12 DEF Tick, Typed
  <2> QED
    BY <2>1, <2>2 DEF Typed
<1> QED
  BY <1>2, <1>3, <1>4, <1>5, <1>6, <1>7, <1>8, <1>9, <1>10, <1>11, <1>12 DEF Next

\* A step that leaves the inboxes alone.
LEMMA PlainKeeps ==
  ASSUME Shape, Shape', KInv, Typed', NEW d \in Devices, NEW i \in Journal, Moved(d, i),
         i.inn = journal[d].inn, i.hi = journal[d].hi,
         UNCHANGED <<live, cursor, paged, taken>>, \A p \in Devices : up'[p] => up[p], Answers,
         \A id \in Ids : i.out[id] # None /\ i.out[id].state = "settled" =>
           \/ i.out[id] = journal[d].out[id]
           \/ Stored(<<d, id>>, i.out[id].peer, i.out[id].body)
  PROVE  KInv'
<1>1. journal[d] \in Views(d) /\ Typed /\ Numbers /\ Counts /\ Receipts
  <2>1. journal[d] \in Journal
    BY DEF Shape
  <2> QED
    BY <2>1, JournalParts DEF Views, KInv
<1>2. Ranked(i) /\ Within(i)
  BY <1>1 DEF Numbers, Counts, Ranked, Within, Unconsumed
<1>3. Numbers'
  BY <1>1, <1>2, NumbersStep
<1>4. TakenMoves(d, i)
  BY <1>1 DEF TakenMoves, Typed
<1>5. Receipts'
  BY <1>1, <1>4, ReceiptsStep
<1>6. \A f \in Devices : Unconsumed(journal'[d], f) = Unconsumed(journal[d], f)
  <2>1. \A f \in Devices : Unconsumed(i, f) = Unconsumed(journal[d], f)
    BY DEF Unconsumed
  <2> QED
    BY <2>1, TrimsCounts DEF Moved
<1>7. Counts'
  <2>1. up'[d] => \A f \in Devices : live'[d][f] = Unconsumed(journal'[d], f)
    BY <1>1, <1>6 DEF Counts, LiveIsExact
  <2>2. live' \in [Devices -> [Devices -> 0..Quota]]
    BY <1>1 DEF Counts
  <2> QED
    BY <1>1, <1>2, <2>1, <2>2, CountsStep
<1> QED
  BY <1>3, <1>5, <1>7 DEF KInv

\* A step that writes nothing.
LEMMA StillKeeps ==
  ASSUME Shape, Shape', KInv, Typed', NEW d \in Devices, UNCHANGED <<journal, tail>>,
         UNCHANGED <<live, cursor, paged, taken>>, \A p \in Devices : up'[p] => up[p], Answers
  PROVE  KInv'
<1>1. PICK i \in Journal : i = journal[d]
  BY DEF Shape
<1>2. Moved(d, i)
  BY <1>1, StillMoves
<1> QED
  BY <1>1, <1>2, PlainKeeps

\* No receipt is sent.
Hushed ==
  \A t \in Slots : attempt'[t] # None /\ attempt'[t].stage = "receipt" =>
    attempt[t] # None /\ attempt[t].stage = "receipt" /\ Same(t)

\* A step that sends no receipt owes no proof of one.
LEMMA HushedAnswers == Hushed => Answers
BY DEF Hushed, Answers, IsOf, Same

\* The handler's reply reaches one attempt.
LEMMA ReplyIs ==
  ASSUME Shape, NEW t \in Slots, attempt[t] # None,
         NEW s \in {"sent", "receipt", "busy", "refused", "lost"}, Reply(t, s)
  PROVE  /\ \A x \in Slots \ {t} : attempt'[x] = attempt[x]
         /\ attempt'[t] # None => attempt'[t].stage = s /\ Same(t)
         /\ s # "receipt" => Hushed
<1> DEFINE a == [attempt[t] EXCEPT !.stage = s]
           b == IF attempt[t].waiting THEN a ELSE None
<1>1. attempt[t] \in Attempt
  BY DEF Shape
<1>2. /\ a.key = attempt[t].key /\ a.peer = attempt[t].peer /\ a.body = attempt[t].body
      /\ a.age = attempt[t].age /\ a.stage = s
  BY <1>1 DEF Attempt
<1>3. attempt' = [attempt EXCEPT ![t] = b]
  BY DEF Reply
<1> HIDE DEF a
<1>4. b \in {a, None}
  BY Zenon
<1> HIDE DEF b
<1>5. \A x \in Slots \ {t} : attempt'[x] = attempt[x]
  BY <1>3 DEF Shape
<1>6. attempt'[t] # None => attempt'[t].stage = s /\ Same(t)
  BY <1>2, <1>3, <1>4 DEF Shape, Same
<1>7. s # "receipt" => Hushed
  BY <1>5, <1>6 DEF Hushed, Same
<1> QED
  BY <1>5, <1>6, <1>7

\* send_message and retry_loop
LEMMA SendKeeps ==
  ASSUME IInv, Shape', KInv, Typed', NEW d \in Devices, NEW id \in Ids, NEW t \in Slots,
         \/ \E p \in Devices, b \in Bodies : SendNew(d, id, p, b, t)
         \/ SendAgain(d, id, t)
         \/ Retry(d, id, t)
  PROVE  KInv'
<1>0. Shape
  BY DEF IInv
<1>1. ASSUME NEW p, NEW b, Begins(t, d, id, p, b) PROVE Hushed
  <2>1. attempt' = [attempt EXCEPT ![t] = Sent(d, id, p, b)]
    BY <1>1 DEF Begins
  <2>2. Sent(d, id, p, b).stage = "sent"
    BY DEF Sent
  <2> QED
    BY <1>0, <2>1, <2>2 DEF Hushed, Same, Shape
<1>2. UNCHANGED <<up, live, cursor, paged, taken>>
  BY DEF SendNew, SendAgain, Retry, History
<1>3. CASE SendAgain(d, id, t) \/ Retry(d, id, t)
  <2>1. Hushed /\ UNCHANGED <<journal, tail>>
    BY <1>1, <1>3 DEF SendAgain, Retry
  <2> QED
    BY <1>0, <1>2, <2>1, HushedAnswers, StillKeeps
<1>4. ASSUME NEW p \in Devices, NEW b \in Bodies, SendNew(d, id, p, b, t) PROVE KInv'
  <2>1. PICK j \in Journal : j = journal[d]
    BY <1>0 DEF Shape
  <2>2. j.out[id] = None
    BY <1>4, <2>1 DEF SendNew
  <2>3. PICK i \in Journal : i = QueuedLocal(j, id, p, b)
    BY <2>2, QueuedLocalIs
  <2>4. /\ i.inn = j.inn /\ i.hi = j.hi /\ i.out[id].state = "queued"
        /\ \A x \in Ids \ {id} : i.out[x] = j.out[x]
        /\ Agrees(j, i)
    BY <2>2, <2>3, QueuedLocalIs
  <2>5. \/ AppendDurable(d, i) /\ Begins(t, d, id, p, b)
        \/ AppendFails(d, i) /\ UNCHANGED attempt
    BY <1>4, <2>1, <2>3 DEF SendNew
  <2>6. Hushed
    BY <1>1, <2>5 DEF Hushed, Same
  <2>7. Wrote(d, i)
    BY <1>0, <2>5, AppendWrites
  <2>8. Moved(d, i)
    BY <1>0, <2>1, <2>4, <2>7, WroteMoves
  <2>9. \A x \in Ids : i.out[x] # None /\ i.out[x].state = "settled" => i.out[x] = journal[d].out[x]
    BY <2>1, <2>4
  <2> QED
    BY <1>0, <1>2, <2>1, <2>4, <2>6, <2>8, <2>9, HushedAnswers, PlainKeeps
<1> QED
  BY <1>3, <1>4

\* finish_outbound: settled only with a receipt.
LEMMA RecordKeeps ==
  ASSUME IInv, Shape', KInv, Typed', NEW d \in Devices, NEW id \in Ids, NEW s \in Terminal,
         Record(d, id, s), Hushed, UNCHANGED <<up, live, cursor, paged, taken>>,
         s = "settled" /\ journal[d].out[id] # None =>
           Stored(<<d, id>>, journal[d].out[id].peer, journal[d].out[id].body)
  PROVE  KInv'
<1>0. Shape
  BY DEF IInv
<1>1. PICK j \in Journal : j = journal[d]
  BY <1>0 DEF Shape
<1>2. PICK i \in Journal : i = Finish(j, id, s)
  BY FinishIs
<1>3. /\ i.inn = j.inn /\ i.hi = j.hi /\ Agrees(j, i)
      /\ \A x \in Ids \ {id} : i.out[x] = j.out[x]
      /\ \/ i.out[id] = j.out[id]
         \/ /\ j.out[id] # None /\ i.out[id] # None
            /\ i.out[id].peer = j.out[id].peer /\ i.out[id].body = j.out[id].body
            /\ i.out[id].age = 0 /\ i.out[id].state = s
  BY <1>2, FinishIs
<1>4. (journal' = journal /\ tail' = tail) \/ AppendDurable(d, i) \/ AppendFails(d, i)
  BY <1>1, <1>2 DEF Record
<1>5. Wrote(d, i)
  BY <1>0, <1>4, AppendWrites DEF Wrote
<1>6. Moved(d, i)
  BY <1>0, <1>1, <1>3, <1>5, WroteMoves
<1>7. ASSUME NEW x \in Ids, i.out[x] # None, i.out[x].state = "settled"
      PROVE  \/ i.out[x] = journal[d].out[x]
             \/ Stored(<<d, x>>, i.out[x].peer, i.out[x].body)
  BY <1>1, <1>3, <1>7
<1> QED
  BY <1>0, <1>1, <1>3, <1>6, <1>7, HushedAnswers, PlainKeeps

\* A receipt or a final reject is recorded.
LEMMA OutcomeKeeps ==
  ASSUME IInv, Shape', KInv, Typed', NEW t \in Slots, GetReceipt(t) \/ GetRefusal(t)
  PROVE  KInv'
<1>0. Shape /\ attempt[t] # None
  BY DEF IInv, GetReceipt, GetRefusal, Waits
<1>1. PICK k \in Keys : k = attempt[t].key
  BY <1>0 DEF Shape, Attempt
<1>2. k[1] \in Devices /\ k[2] \in Ids /\ k = <<k[1], k[2]>>
  BY DEF Keys
<1>3. UNCHANGED <<up, live, cursor, paged, taken>>
  BY DEF GetReceipt, GetRefusal, History
<1>4. Hushed
  BY <1>0 DEF GetReceipt, GetRefusal, Ends, Hushed, Same, Shape
<1>5. \/ attempt[t].stage = "receipt" /\ Record(k[1], k[2], "settled")
      \/ Record(k[1], k[2], "refused")
      \/ UNCHANGED <<journal, tail>>
  BY <1>1 DEF GetReceipt, GetRefusal
<1>6. CASE attempt[t].stage = "receipt" /\ Record(k[1], k[2], "settled")
  <2>1. IsOf(t, k)
    BY <1>0, <1>1 DEF IsOf
  <2>2. Stored(k, attempt[t].peer, attempt[t].body)
    BY <1>6, <2>1 DEF KInv, Receipts
  <2>3. journal[k[1]] \in Views(k[1])
    <3>1. journal[k[1]] \in Journal
      BY <1>0, <1>2 DEF Shape
    <3> QED
      BY <3>1, JournalParts DEF Views
  <2>4. /\ journal[k[1]].out[k[2]].peer = attempt[t].peer
        /\ journal[k[1]].out[k[2]].body = attempt[t].body
    BY <2>1, <2>3 DEF IInv, Timely, Backed
  <2>5. Stored(<<k[1], k[2]>>, journal[k[1]].out[k[2]].peer, journal[k[1]].out[k[2]].body)
    BY <1>2, <2>2, <2>4
  <2>6. "settled" \in Terminal
    BY DEF Terminal
  <2> QED
    BY <1>2, <1>3, <1>4, <1>6, <2>5, <2>6, RecordKeeps
<1>7. CASE Record(k[1], k[2], "refused")
  <2>1. "refused" \in Terminal
    BY DEF Terminal
  <2> QED
    BY <1>2, <1>3, <1>4, <1>7, <2>1, RecordKeeps
<1>8. CASE UNCHANGED <<journal, tail>>
  BY <1>0, <1>2, <1>3, <1>4, <1>8, HushedAnswers, StillKeeps
<1> QED
  BY <1>5, <1>6, <1>7, <1>8

\* A retryable reject, a broken connection or a timeout.
LEMMA FailKeeps ==
  ASSUME IInv, Shape', KInv, Typed', NEW t \in Slots, AttemptFails(t) \/ Lose(t)
  PROVE  KInv'
<1>0. Shape /\ attempt[t] # None
  BY DEF IInv, AttemptFails, Lose, Waits
<1>1. UNCHANGED <<journal, tail, up, live, cursor, paged, taken>>
  BY DEF AttemptFails, Lose, History
<1>2. PICK d \in Devices : d = attempt[t].peer
  BY <1>0 DEF Shape, Attempt
<1>3. Hushed
  <2>1. CASE Ends(t)
    BY <1>0, <2>1 DEF Ends, Hushed, Same, Shape
  <2>2. CASE Reply(t, "lost")
    BY <1>0, <2>2, ReplyIs
  <2>3. CASE /\ attempt[t].stage = "sent"
             /\ attempt' = [attempt EXCEPT ![t] = [@ EXCEPT !.waiting = FALSE]]
    <3> DEFINE a == [attempt[t] EXCEPT !.waiting = FALSE]
    <3>1. a.stage = "sent"
      BY <1>0, <2>3 DEF Shape, Attempt
    <3>2. attempt' = [attempt EXCEPT ![t] = a]
      BY <2>3
    <3> HIDE DEF a
    <3> QED
      BY <1>0, <3>1, <3>2 DEF Shape, Hushed, Same
  <2> QED
    BY <2>1, <2>2, <2>3 DEF AttemptFails, Lose
<1> QED
  BY <1>0, <1>1, <1>2, <1>3, HushedAnswers, StillKeeps

\* shutdown, a kill or a power failure
LEMMA StopKeeps ==
  ASSUME IInv, Shape', KInv, Typed', NEW d \in Devices, Stop(d)
  PROVE  KInv'
<1>0. Shape /\ UNCHANGED <<journal, tail, live, cursor, paged, taken>>
  BY DEF IInv, Stop, History
<1>1. \A p \in Devices : up'[p] => up[p]
  BY DEF Stop, KInv, Typed
<1> DEFINE w(t) == [attempt[t] EXCEPT !.waiting = FALSE]
           l(t) == [attempt[t] EXCEPT !.stage = "lost"]
<1>2. attempt' = [t \in Slots |->
       IF attempt[t] = None THEN None
       ELSE IF attempt[t].key[1] = d
            THEN IF attempt[t].stage = "sent" THEN w(t) ELSE None
       ELSE IF attempt[t].peer = d
            THEN IF attempt[t].waiting THEN l(t) ELSE None
       ELSE attempt[t]]
  BY DEF Stop
<1>3. \A t \in Slots : attempt[t] # None =>
        /\ w(t).stage = attempt[t].stage /\ l(t).stage = "lost"
  BY <1>0 DEF Shape, Attempt
<1> HIDE DEF w, l
<1>4. \A t \in Slots : attempt'[t] # None =>
        /\ attempt[t] # None
        /\ \/ attempt[t].stage = "sent" /\ attempt'[t] = w(t)
           \/ attempt'[t] = l(t) \/ attempt'[t] = attempt[t]
  BY <1>2, Zenon
<1>5. Hushed
  BY <1>3, <1>4 DEF Hushed, Same
<1> QED
  BY <1>0, <1>1, <1>5, HushedAnswers, StillKeeps

\* ack
LEMMA ConsumeKeeps ==
  ASSUME IInv, Shape', KInv, Typed', NEW d \in Devices, NEW k \in Keys, Consume(d, k)
  PROVE  KInv'
<1>0. Shape /\ Typed /\ Numbers /\ Counts /\ Receipts
  BY DEF IInv, KInv
<1>1. PICK j \in Journal : j = journal[d]
  BY <1>0 DEF Shape
<1>2. up[d] /\ j.inn[k] # None /\ ~j.inn[k].consumed /\ j \in Views(d) /\ k[1] \in Devices
  BY <1>1, JournalParts DEF Consume, Views, Keys
<1>3. PICK i \in Journal : i = Consumed(j, k)
  BY <1>2, ConsumedIs
<1>4. /\ i.out = j.out /\ i.hi = j.hi
      /\ i.inn[k] # None /\ i.inn[k].consumed /\ i.inn[k].seq = j.inn[k].seq
      /\ \A x \in Keys \ {k} : i.inn[x] = j.inn[x]
      /\ Agrees(j, i)
  BY <1>2, <1>3, ConsumedIs
<1>5. UNCHANGED <<up, attempt, cursor, paged>>
  BY DEF Consume
<1>6. \/ /\ AppendDurable(d, i)
         /\ live' = [live EXCEPT ![d][k[1]] = live[d][k[1]] - 1]
         /\ taken' = [taken EXCEPT ![k] = @ + 1]
      \/ AppendFails(d, i) /\ UNCHANGED <<live, taken>>
  BY <1>1, <1>3 DEF Consume, LiveAfterConsume
<1>7. Moved(d, i)
  <2>1. Wrote(d, i)
    BY <1>0, <1>6, AppendWrites
  <2> QED
    BY <1>0, <1>1, <1>4, <2>1, WroteMoves
<1>8. /\ Unconsumed(j, k[1]) = Unconsumed(i, k[1]) + 1
      /\ \A f \in Devices \ {k[1]} : Unconsumed(j, f) = Unconsumed(i, f)
  BY <1>2, <1>4, OneMoreUnread
<1>9. \A f \in Devices : Unconsumed(i, f) \in Nat /\ Unconsumed(j, f) \in Nat
  BY UnreadCounts
<1>10. Ranked(i) /\ Within(i)
  <2>1. Ranked(j) /\ Within(j)
    BY <1>0, <1>2 DEF Numbers, Counts
  <2>2. Ranked(i)
    <3> SUFFICES ASSUME NEW x \in Keys, i.inn[x] # None PROVE i.inn[x].seq <= i.hi
      BY DEF Ranked
    <3>1. j.inn[x] # None /\ j.inn[x].seq = i.inn[x].seq
      BY <1>2, <1>4
    <3> QED
      BY <1>4, <2>1, <3>1 DEF Ranked
  <2>3. \A f \in Devices : Unconsumed(i, f) <= Unconsumed(j, f)
    BY <1>8, <1>9
  <2>4. \A f \in Devices : Unconsumed(j, f) <= Quota
    BY <2>1 DEF Within
  <2>5. \A f \in Devices : Unconsumed(i, f) <= Quota
    BY <1>9, <2>3, <2>4, PeerAssumption
  <2> QED
    BY <2>2, <2>5 DEF Within
<1>11. Numbers'
  BY <1>0, <1>5, <1>7, <1>10, NumbersStep
<1>12. TakenMoves(d, i)
  <2>1. CASE AppendFails(d, i) /\ UNCHANGED <<live, taken>>
    BY <1>0, <2>1 DEF TakenMoves, Typed, AppendFails
  <2>2. CASE taken' = [taken EXCEPT ![k] = @ + 1]
    <3>1. \A x \in Keys : taken[x] \in Nat
      BY <1>0 DEF Typed
    <3>2. taken'[k] = taken[k] + 1 /\ \A x \in Keys \ {k} : taken'[x] = taken[x]
      BY <1>0, <2>2 DEF Typed
    <3>3. \A x \in Keys \ {k} : i.inn[x] = journal[d].inn[x]
      BY <1>1, <1>4
    <3> QED
      BY <3>1, <3>2, <3>3 DEF TakenMoves
  <2> QED
    BY <1>6, <2>1, <2>2
<1>13. Hushed
  BY <1>5 DEF Hushed, Same
<1>14. Receipts'
  BY <1>0, <1>1, <1>4, <1>7, <1>12, <1>13, HushedAnswers, ReceiptsStep
<1>15. Counts'
  <2>0. \A f \in Devices : live[d][f] = Unconsumed(j, f) /\ live[d][f] \in 0..Quota
    BY <1>0, <1>1, <1>2 DEF Counts, LiveIsExact
  <2>1. CASE AppendFails(d, i) /\ UNCHANGED <<live, taken>>
    <3>1. journal'[d] = j /\ live' = live
      BY <1>1, <2>1 DEF AppendFails
    <3> QED
      BY <1>0, <1>5, <1>7, <1>10, <2>0, <3>1, CountsStep DEF Counts
  <2>2. CASE AppendDurable(d, i) /\ live' = [live EXCEPT ![d][k[1]] = live[d][k[1]] - 1]
    <3>1. \A f \in Devices : Unconsumed(journal'[d], f) = Unconsumed(i, f)
      <4>1. Trims(journal'[d], i)
        <5>1. journal'[d] \in {i, Dropped(i)}
          BY <1>0, <2>2 DEF AppendDurable, Shape
        <5> QED
          BY <5>1, DroppedTrims
      <4> QED
        BY <4>1, TrimsCounts
    <3>2. live[d][k[1]] - 1 \in 0..Quota
      BY <1>2, <1>8, <1>9, <2>0, PeerAssumption
    <3>3. live' \in [Devices -> [Devices -> 0..Quota]]
      BY <1>0, <1>2, <2>2, <3>2 DEF Counts
    <3>4. /\ \A p \in Devices \ {d} : live'[p] = live[p]
          /\ live'[d][k[1]] = live[d][k[1]] - 1
          /\ \A f \in Devices \ {k[1]} : live'[d][f] = live[d][f]
      BY <1>0, <1>2, <2>2 DEF Counts
    <3>5. \A f \in Devices : live'[d][f] = Unconsumed(journal'[d], f)
      <4>1. live'[d][k[1]] = Unconsumed(i, k[1])
        BY <1>2, <1>8, <1>9, <2>0, <3>4
      <4>2. \A f \in Devices \ {k[1]} : live'[d][f] = Unconsumed(i, f)
        BY <1>8, <2>0, <3>4
      <4> QED
        BY <3>1, <4>1, <4>2
    <3> QED
      BY <1>0, <1>5, <1>7, <1>10, <3>3, <3>4, <3>5, CountsStep
  <2> QED
    BY <1>6, <2>1, <2>2
<1> QED
  BY <1>11, <1>14, <1>15 DEF KInv

\* inbox: the cursor goes to a message of the inbox, over those it shows.
LEMMA ReadPageKeeps ==
  ASSUME IInv, Shape', KInv, Typed', NEW d \in Devices, ReadPage(d)
  PROVE  KInv'
<1>0. Shape /\ Typed /\ Numbers /\ Counts /\ Receipts
  BY DEF IInv, KInv
<1>1. UNCHANGED <<up, journal, tail, live, attempt, taken>>
  BY DEF ReadPage, History
<1>2. PICK last \in {journal[d].inn[k].seq : k \in Inbox(d)} \ 0..cursor[d] :
        /\ cursor' = [cursor EXCEPT ![d] = last]
        /\ paged' = [paged EXCEPT ![d] = @ \cup
             {k \in Inbox(d) : journal[d].inn[k].seq \in cursor[d] + 1 .. last}]
  BY DEF ReadPage
<1>3. PICK x \in Inbox(d) : last = journal[d].inn[x].seq
  OBVIOUS
<1>4. \A k \in Inbox(d) : journal[d].inn[k].seq \in Nat /\ journal[d].inn[k].seq <= journal[d].hi
  <2>1. journal[d] \in Journal /\ journal[d] \in Views(d)
    BY <1>0, JournalParts DEF Shape, Views
  <2>2. \A k \in Inbox(d) : k \in Keys /\ journal[d].inn[k] \in Inbound
    BY <2>1, JournalParts DEF Inbox
  <2> QED
    BY <1>0, <2>1, <2>2 DEF Inbound, Numbers, Ranked, Inbox
<1>5. /\ cursor'[d] = last /\ \A p \in Devices \ {d} : cursor'[p] = cursor[p] /\ paged'[p] = paged[p]
      /\ paged'[d] = paged[d] \cup
           {k \in Inbox(d) : journal[d].inn[k].seq \in cursor[d] + 1 .. last}
  BY <1>0, <1>2 DEF Typed
<1>6. \A p \in Devices : cursor'[p] <= journal'[p].hi
  BY <1>0, <1>1, <1>3, <1>4, <1>5 DEF Numbers
<1>7. ASSUME NEW k \in Inbox(d), journal[d].inn[k].seq <= last PROVE k \in paged'[d]
  <2>1. cursor[d] \in Nat /\ last \in Nat /\ journal[d].inn[k].seq \in Nat
    BY <1>0, <1>3, <1>4 DEF Typed
  <2>2. CASE journal[d].inn[k].seq <= cursor[d]
    BY <1>0, <1>5, <2>2 DEF Numbers, CursorMissesNothing
  <2>3. CASE journal[d].inn[k].seq > cursor[d]
    BY <1>5, <1>7, <2>1, <2>3
  <2> QED
    BY <2>1, <2>2, <2>3
<1>8. \A p \in Devices : Inbox(p)' = Inbox(p)
  BY <1>1 DEF Inbox
<1>9. CursorMissesNothing'
  <2> SUFFICES ASSUME NEW p \in Devices, NEW k \in Inbox(p)', journal'[p].inn[k].seq <= cursor'[p]
               PROVE  k \in paged'[p]
    BY DEF CursorMissesNothing
  <2>1. k \in Inbox(p) /\ journal[p].inn[k].seq <= cursor'[p]
    BY <1>1, <1>8
  <2>2. CASE p = d
    BY <1>5, <1>7, <2>1, <2>2
  <2>3. CASE p # d
    BY <1>0, <1>5, <2>1, <2>3 DEF CursorMissesNothing, Numbers
  <2> QED
    BY <2>2, <2>3
<1>10. Numbers'
  BY <1>0, <1>1, <1>6, <1>9 DEF Numbers, Views, Ranked
<1>11. Counts'
  <2>1. /\ live' \in [Devices -> [Devices -> 0..Quota]]
        /\ \A p \in Devices : \A v \in Views(p)' : Within(v)
    BY <1>0, <1>1 DEF Counts, Views
  <2>2. \A p \in Devices : up'[p] => \A f \in Devices : live'[p][f] = Unconsumed(journal'[p], f)
    BY <1>0, <1>1 DEF Counts, LiveIsExact
  <2>3. LiveIsExact'
    BY <2>2 DEF LiveIsExact, Unconsumed
  <2> QED
    BY <2>1, <2>3 DEF Counts, Within, Unconsumed
<1>12. Receipts'
  BY <1>0, <1>1 DEF Receipts, Views, Stored, IsOf
<1> QED
  BY <1>10, <1>11, <1>12 DEF KInv

\* accept_inbound of a message the inbox does not hold: there is room for it,
\* and the receipt says it is stored.
LEMMA AcceptKeeps ==
  ASSUME IInv, Shape', KInv, Typed', NEW t \in Slots, attempt[t] # None,
         NEW d \in Devices, d = attempt[t].peer, NEW k \in Keys, k = attempt[t].key,
         NEW b \in Bodies, b = attempt[t].body, up[d], journal[d].inn[k] = None, HasRoom(d, k[1]),
         UNCHANGED <<up, cursor, taken>>,
         \/ /\ AppendDurable(d, ReceivedPeer(journal[d], k, b))
            /\ live' = [live EXCEPT ![d][k[1]] = @ + 1]
            /\ paged' = [paged EXCEPT ![d] = @ \ {k}]
            /\ Reply(t, "receipt")
         \/ /\ AppendFails(d, ReceivedPeer(journal[d], k, b))
            /\ NotStored(t)
            /\ UNCHANGED <<live, paged>>
  PROVE  KInv'
<1>0. Shape /\ Typed /\ Numbers /\ Counts /\ Receipts
  BY DEF IInv, KInv
<1>1. PICK j \in Journal : j = journal[d]
  BY <1>0 DEF Shape
<1>2. j.inn[k] = None /\ j \in Views(d) /\ k[1] \in Devices
  BY <1>1, JournalParts DEF Views, Keys
<1>3. PICK i \in Journal : i = ReceivedPeer(j, k, b)
  BY <1>2, ReceivedPeerIs
<1>4. /\ i.out = j.out /\ i.hi = j.hi + 1 /\ i.inn[k].seq = j.hi + 1
      /\ i.inn[k] # None /\ ~i.inn[k].consumed /\ i.inn[k].body = b
      /\ \A x \in Keys \ {k} : i.inn[x] = j.inn[x]
      /\ Agrees(j, i)
  BY <1>2, <1>3, ReceivedPeerIs
<1>5. \/ /\ AppendDurable(d, i)
         /\ live' = [live EXCEPT ![d][k[1]] = live[d][k[1]] + 1]
         /\ paged' = [paged EXCEPT ![d] = @ \ {k}]
         /\ Reply(t, "receipt")
      \/ AppendFails(d, i) /\ Reply(t, "lost") /\ UNCHANGED <<live, paged>>
  BY <1>1, <1>3 DEF NotStored
<1>7. Moved(d, i)
  <2>1. Wrote(d, i)
    BY <1>0, <1>5, AppendWrites
  <2> QED
    BY <1>0, <1>1, <1>4, <2>1, WroteMoves
<1>8. /\ Unconsumed(i, k[1]) = Unconsumed(j, k[1]) + 1
      /\ \A f \in Devices \ {k[1]} : Unconsumed(i, f) = Unconsumed(j, f)
  BY <1>2, <1>4, OneMoreUnread
<1>9. \A f \in Devices : Unconsumed(i, f) \in Nat /\ Unconsumed(j, f) \in Nat
  BY UnreadCounts
<1>6. \A f \in Devices : live[d][f] = Unconsumed(j, f) /\ live[d][f] \in 0..Quota
  BY <1>0, <1>1 DEF Counts, LiveIsExact
<1>a. live[d][k[1]] < Quota
  BY DEF HasRoom
<1>10. Ranked(i) /\ Within(i)
  <2>1. Ranked(j) /\ Within(j)
    BY <1>0, <1>2 DEF Numbers, Counts
  <2>2. Ranked(i)
    <3> SUFFICES ASSUME NEW x \in Keys, i.inn[x] # None PROVE i.inn[x].seq <= i.hi
      BY DEF Ranked
    <3>0. j.hi \in Nat
      BY JournalParts
    <3>1. CASE x = k
      BY <1>4, <3>0, <3>1
    <3>2. CASE x # k
      <4>1. j.inn[x] # None /\ j.inn[x] = i.inn[x]
        BY <1>4, <3>2
      <4>2. j.inn[x].seq \in Nat /\ j.inn[x].seq <= j.hi
        <5>1. j.inn[x] \in Inbound
          BY <4>1, JournalParts
        <5> QED
          BY <2>1, <4>1, <5>1 DEF Ranked, Inbound
      <4> QED
        BY <1>4, <3>0, <4>1, <4>2
    <3> QED
      BY <3>1, <3>2
  <2>3. Unconsumed(i, k[1]) <= Quota
    BY <1>2, <1>6, <1>8, <1>9, <1>a, PeerAssumption
  <2>4. \A f \in Devices : Unconsumed(i, f) <= Quota
    BY <1>8, <2>1, <2>3 DEF Within
  <2> QED
    BY <2>2, <2>4 DEF Within
<1>11. Numbers'
  <2>1. \A p \in Devices \ {d} : paged'[p] = paged[p]
    BY <1>0, <1>5 DEF Typed
  <2>2. \A x \in paged[d] : journal[d].inn[x] # None => x \in paged'[d]
    BY <1>0, <1>1, <1>2, <1>5 DEF Typed
  <2> QED
    BY <1>0, <1>7, <1>10, <2>1, <2>2, NumbersStep
<1>12. TakenMoves(d, i)
  <2>1. \A x \in Keys : journal[d].inn[x] # None /\ ~journal[d].inn[x].consumed =>
          ~i.inn[x].consumed
    BY <1>1, <1>2, <1>4
  <2> QED
    BY <1>0, <2>1 DEF TakenMoves, Typed
<1>13. CASE AppendFails(d, i) /\ Reply(t, "lost") /\ UNCHANGED <<live, paged>>
  <2>1. Hushed
    BY <1>0, <1>13, ReplyIs
  <2>2. Receipts'
    BY <1>0, <1>1, <1>4, <1>7, <1>12, <2>1, HushedAnswers, ReceiptsStep
  <2>3. journal'[d] = j /\ live' = live
    BY <1>1, <1>13 DEF AppendFails
  <2>4. Counts'
    BY <1>0, <1>6, <1>7, <1>10, <2>3, CountsStep DEF Counts
  <2> QED
    BY <1>11, <2>2, <2>4 DEF KInv
<1>14. CASE /\ AppendDurable(d, i) /\ Reply(t, "receipt")
            /\ live' = [live EXCEPT ![d][k[1]] = live[d][k[1]] + 1]
  <2>1. Trims(journal'[d], i)
    <3>1. journal'[d] \in {i, Dropped(i)}
      BY <1>0, <1>14 DEF AppendDurable, Shape
    <3> QED
      BY <3>1, DroppedTrims
  <2>2. Answers
    <3> SUFFICES ASSUME NEW s \in Slots, NEW q \in Keys, IsOf(s, q)', attempt'[s].stage = "receipt"
                 PROVE  \/ IsOf(s, q) /\ attempt[s].stage = "receipt" /\ Same(s)
                        \/ Stored(q, attempt[s].peer, attempt[s].body)'
      BY DEF Answers
    <3>1. /\ \A x \in Slots \ {t} : attempt'[x] = attempt[x]
          /\ attempt'[t] # None => Same(t)
      BY <1>0, <1>14, ReplyIs
    <3>2. CASE s # t
      BY <3>1, <3>2 DEF IsOf, Same
    <3>3. CASE s = t
      <4>1. q = k /\ attempt'[s].peer = d /\ attempt'[s].body = b
        BY <3>1, <3>3 DEF IsOf, Same
      <4>2. Stored(k, d, b)'
        BY <1>4, <2>1 DEF Stored, Trims
      <4> QED
        BY <4>1, <4>2 DEF Stored
    <3> QED
      BY <3>2, <3>3
  <2>3. Receipts'
    BY <1>0, <1>1, <1>4, <1>7, <1>12, <2>2, ReceiptsStep
  <2>4. \A f \in Devices : Unconsumed(journal'[d], f) = Unconsumed(i, f)
    BY <2>1, TrimsCounts
  <2>5. live[d][k[1]] + 1 \in 0..Quota
    BY <1>2, <1>6, <1>a, PeerAssumption
  <2>6. live' \in [Devices -> [Devices -> 0..Quota]]
    BY <1>0, <1>2, <1>14, <2>5 DEF Counts
  <2>7. /\ \A p \in Devices \ {d} : live'[p] = live[p]
        /\ live'[d][k[1]] = live[d][k[1]] + 1
        /\ \A f \in Devices \ {k[1]} : live'[d][f] = live[d][f]
    BY <1>0, <1>2, <1>14 DEF Counts
  <2>8. \A f \in Devices : live'[d][f] = Unconsumed(journal'[d], f)
    <3>1. live'[d][k[1]] = Unconsumed(i, k[1])
      BY <1>2, <1>6, <1>8, <1>9, <2>7
    <3>2. \A f \in Devices \ {k[1]} : live'[d][f] = Unconsumed(i, f)
      BY <1>6, <1>8, <2>7
    <3> QED
      BY <2>4, <3>1, <3>2
  <2>9. Counts'
    BY <1>0, <1>7, <1>10, <2>6, <2>7, <2>8, CountsStep
  <2> QED
    BY <1>11, <2>3, <2>9 DEF KInv
<1> QED
  BY <1>5, <1>13, <1>14

\* handle_incoming: a duplicate is answered with a receipt, for its record is
\* still unconsumed or was taken.
LEMMA HandleKeeps ==
  ASSUME IInv, Shape', KInv, Typed', NEW t \in Slots, Handle(t)
  PROVE  KInv'
<1>0. Shape /\ attempt[t] # None /\ Typed /\ Receipts
  BY DEF IInv, KInv, Handle
<1>1. PICK d \in Devices, k \in Keys, b \in Bodies :
        d = attempt[t].peer /\ k = attempt[t].key /\ b = attempt[t].body
  BY <1>0 DEF Shape, Attempt
<1>2. PICK j \in Journal : j = journal[d]
  BY <1>0 DEF Shape
<1>3. up[d] /\ UNCHANGED <<up, cursor, taken>>
  BY <1>1 DEF Handle
<1>4. CASE /\ j.inn[k] = None /\ HasRoom(d, k[1])
           /\ \/ /\ AppendDurable(d, ReceivedPeer(j, k, b))
                 /\ live' = [live EXCEPT ![d][k[1]] = @ + 1]
                 /\ paged' = [paged EXCEPT ![d] = @ \ {k}]
                 /\ Reply(t, "receipt")
              \/ /\ AppendFails(d, ReceivedPeer(j, k, b))
                 /\ NotStored(t)
                 /\ UNCHANGED <<live, paged>>
  BY <1>0, <1>1, <1>2, <1>3, <1>4, AcceptKeeps
<1>5. CASE /\ UNCHANGED <<journal, tail, live, paged>>
           /\ Reply(t, "busy") \/ Reply(t, "refused")
  <2>1. Hushed
    BY <1>0, <1>5, ReplyIs
  <2> QED
    BY <1>0, <1>3, <1>5, <2>1, HushedAnswers, StillKeeps
<1>6. CASE /\ j.inn[k] # None /\ j.inn[k].body = b /\ UNCHANGED <<live, paged>>
           /\ \/ AppendDurable(d, j) /\ Reply(t, "receipt")
              \/ AppendFails(d, j) /\ NotStored(t)
  <2>1. Wrote(d, j)
    BY <1>0, <1>6, AppendWrites
  <2>2. Moved(d, j)
    BY <1>0, <1>2, <2>1, AgreesSelf, WroteMoves
  <2>3. TakenMoves(d, j)
    BY <1>0, <1>2, <1>3 DEF TakenMoves, Typed
  <2>4. Stored(k, d, b)
    BY <1>0, <1>2, <1>6 DEF Stored, Receipts
  <2>5. Stored(k, d, b)'
    BY <1>0, <2>2, <2>3, <2>4, StoredStays
  <2>6. Answers
    <3>1. CASE NotStored(t)
      BY <1>0, <3>1, ReplyIs, HushedAnswers DEF NotStored
    <3>2. CASE Reply(t, "receipt")
      <4> SUFFICES ASSUME NEW s \in Slots, NEW q \in Keys, IsOf(s, q)', attempt'[s].stage = "receipt"
                   PROVE  \/ IsOf(s, q) /\ attempt[s].stage = "receipt" /\ Same(s)
                          \/ Stored(q, attempt[s].peer, attempt[s].body)'
        BY DEF Answers
      <4>1. /\ \A x \in Slots \ {t} : attempt'[x] = attempt[x]
            /\ attempt'[t] # None => Same(t)
        BY <1>0, <3>2, ReplyIs
      <4>2. CASE s # t
        BY <4>1, <4>2 DEF IsOf, Same
      <4>3. CASE s = t
        <5>1. q = k /\ attempt'[s].peer = d /\ attempt'[s].body = b
          BY <1>1, <4>1, <4>3 DEF IsOf, Same
        <5> QED
          BY <2>5, <5>1 DEF Stored
      <4> QED
        BY <4>2, <4>3
    <3> QED
      BY <1>6, <3>1, <3>2
  <2> QED
    BY <1>0, <1>2, <1>3, <1>6, <2>2, <2>6, PlainKeeps
<1> QED
  BY <1>1, <1>2, <1>4, <1>5, <1>6 DEF Handle

\* start: whether the journal or the damaged tail is what the file holds, its
\* receipts are true, the counters are counted anew and no number is reused.
LEMMA StartKeeps ==
  ASSUME IInv, Shape', KInv, Typed', NEW d \in Devices, Start(d)
  PROVE  KInv'
<1>0. Shape /\ TailAgrees /\ Typed /\ Numbers /\ Counts /\ Receipts
  BY DEF IInv, KInv
<1>1. PICK j \in {journal[d], tail[d]} \ {None} :
        /\ journal' = [journal EXCEPT ![d] = [Dropped(j) EXCEPT !.hi = HighWater(Dropped(j))]]
        /\ live' = [live EXCEPT ![d] = [f \in Devices |-> Unconsumed(Dropped(j), f)]]
        /\ paged' = [paged EXCEPT ![d] = {k \in @ : journal[d].inn[k] # None \/ j.inn[k] = None}]
        /\ taken' = [k \in Keys |-> taken[k] + Adopted(k \in Inbox(d) /\ j.inn[k].consumed)]
  BY Zenon DEF Start
<1>2. tail' = [tail EXCEPT ![d] = None] /\ attempt' = attempt /\ cursor' = cursor
      /\ up' = [up EXCEPT ![d] = TRUE]
  BY DEF Start
<1>3. j \in Journal /\ j \in Views(d) /\ Agrees(journal[d], j)
  BY <1>0, <1>1, AgreesSelf DEF Shape, Views, TailAgrees
<1>4. PICK n \in Journal : Trims(n, j) /\ journal' = [journal EXCEPT ![d] = n]
  <2>1. Dropped(j) \in Journal /\ Trims(Dropped(j), j)
    BY <1>3, DroppedIs, DroppedTrims
  <2> DEFINE n == [Dropped(j) EXCEPT !.hi = HighWater(Dropped(j))]
  <2>2. n \in Journal /\ n.out = Dropped(j).out /\ n.inn = Dropped(j).inn /\ n.hi = Dropped(j).hi
    BY <2>1 DEF Journal, HighWater
  <2>3. journal' = [journal EXCEPT ![d] = n]
    BY <1>1
  <2> HIDE DEF n
  <2>4. Trims(n, j)
    BY <2>1, <2>2 DEF Trims
  <2> QED
    BY <2>2, <2>3, <2>4
<1>5. /\ journal'[d] = n /\ Views(d)' = {n}
      /\ \A p \in Devices \ {d} : journal'[p] = journal[p] /\ Views(p)' = Views(p)
  <2>1. n # None
    BY JournalParts
  <2> QED
    BY <1>0, <1>2, <1>4, <2>1 DEF Shape, Views
<1>6. Moved(d, j)
  BY <1>3, <1>4, <1>5 DEF Moved
<1>7. Ranked(j) /\ Within(j)
  BY <1>0, <1>3 DEF Numbers, Counts
<1>8. Numbers'
  <2>1. \A p \in Devices \ {d} : paged'[p] = paged[p]
    BY <1>0, <1>1 DEF Typed
  <2>2. \A k \in paged[d] : journal[d].inn[k] # None => k \in paged'[d]
    BY <1>0, <1>1 DEF Typed
  <2> QED
    BY <1>0, <1>2, <1>3, <1>6, <1>7, <2>1, <2>2, NumbersStep
<1>9. TakenMoves(d, j)
  <2> SUFFICES ASSUME NEW k \in Keys
               PROVE  /\ taken'[k] \in Nat /\ taken'[k] >= taken[k]
                      /\ /\ journal[d].inn[k] # None /\ ~journal[d].inn[k].consumed
                         /\ j.inn[k] # None /\ j.inn[k].consumed
                         => taken'[k] > 0
    BY DEF TakenMoves
  <2>1. taken[k] \in Nat
    BY <1>0 DEF Typed
  <2>2. taken'[k] = taken[k] + Adopted(k \in Inbox(d) /\ j.inn[k].consumed)
    BY <1>1
  <2>3. CASE k \in Inbox(d) /\ j.inn[k].consumed
    <3>1. taken'[k] = taken[k] + 1
      BY <2>2, <2>3 DEF Adopted
    <3> QED
      BY <2>1, <3>1
  <2>4. CASE ~(k \in Inbox(d) /\ j.inn[k].consumed)
    <3>1. taken'[k] = taken[k]
      BY <2>1, <2>2, <2>4 DEF Adopted
    <3> QED
      BY <2>1, <2>4, <3>1 DEF Inbox
  <2> QED
    BY <2>3, <2>4
<1>10. Hushed
  BY <1>2 DEF Hushed, Same
<1>11. \A id \in Ids : j.out[id] # None /\ j.out[id].state = "settled" =>
         Stored(<<d, id>>, j.out[id].peer, j.out[id].body)
  BY <1>0, <1>3 DEF Receipts
<1>12. Receipts'
  BY <1>0, <1>3, <1>6, <1>9, <1>10, <1>11, HushedAnswers, ReceiptsStep
<1>13. Counts'
  <2>1. \A f \in Devices : /\ Unconsumed(Dropped(j), f) = Unconsumed(j, f)
                           /\ Unconsumed(n, f) = Unconsumed(j, f)
    BY <1>3, <1>4, DroppedTrims, TrimsCounts
  <2>2. \A f \in Devices : Unconsumed(Dropped(j), f) \in 0..Quota
    <3>1. \A f \in Devices : Unconsumed(j, f) \in Nat /\ Unconsumed(j, f) <= Quota
      BY <1>7, UnreadCounts DEF Within
    <3> QED
      BY <2>1, <3>1, PeerAssumption
  <2>3. live' \in [Devices -> [Devices -> 0..Quota]]
    BY <1>0, <1>1, <2>2 DEF Counts
  <2>4. /\ \A f \in Devices : live'[d][f] = Unconsumed(Dropped(j), f)
        /\ \A p \in Devices \ {d} : live'[p] = live[p] /\ up'[p] = up[p]
    BY <1>0, <1>1, <1>2 DEF Counts, Typed
  <2> QED
    BY <1>0, <1>3, <1>5, <1>6, <1>7, <2>1, <2>3, <2>4, CountsStep
<1> QED
  BY <1>8, <1>12, <1>13 DEF KInv

\* Time changes ages only.
LEMMA AgedCounts ==
  ASSUME NEW u \in Journal
  PROVE  /\ Ranked(u) => Ranked(Aged(u))
         /\ \A f \in Devices : Unconsumed(Aged(u), f) = Unconsumed(u, f)
<1>1. Ranked(u) => Ranked(Aged(u))
  BY AgedIs DEF Ranked
<1>2. ASSUME NEW f \in Devices PROVE Unconsumed(Aged(u), f) = Unconsumed(u, f)
  <2>1. \A id \in Ids : <<f, id>> \in Keys
    BY DEF Keys
  <2>2. \A id \in Ids : id \in Unread(Aged(u), f) <=> id \in Unread(u, f)
    BY <2>1, AgedIs DEF Unread
  <2>3. Unread(Aged(u), f) = Unread(u, f)
    BY <2>2 DEF Unread
  <2> QED
    BY <2>3, UnreadCounts
<1> QED
  BY <1>1, <1>2

\* Time passes.
LEMMA TickKeeps ==
  ASSUME IInv, Shape', KInv, Typed', Tick
  PROVE  KInv'
<1>0. Shape /\ Typed /\ Numbers /\ Counts /\ Receipts
  BY DEF IInv, KInv
<1>1. UNCHANGED <<up, live, cursor, paged, taken>>
  BY DEF Tick, History
<1>2. /\ \A p \in Devices : journal[p] \in Journal /\ journal[p] \in Views(p)
      /\ \A p \in Devices : journal'[p] = Aged(journal[p])
      /\ \A p \in Devices : tail'[p] = IF tail[p] = None THEN None ELSE Aged(tail[p])
  BY <1>0, JournalParts DEF Tick, Shape, Views
<1>3. \A p \in Devices : \A v \in Views(p)' : \E u \in Views(p) : v = Aged(u) /\ u \in Journal
  <2>1. \A p \in Devices : journal[p] # None
    BY <1>2, JournalParts
  <2> QED
    BY <1>0, <1>2, <2>1 DEF Views, Shape
<1>4. \A p \in Devices, k \in Keys :
        /\ journal'[p].inn[k] = None <=> journal[p].inn[k] = None
        /\ journal[p].inn[k] # None =>
             /\ journal'[p].inn[k].consumed <=> journal[p].inn[k].consumed
             /\ journal'[p].inn[k].seq = journal[p].inn[k].seq
             /\ journal'[p].inn[k].body = journal[p].inn[k].body
  BY <1>2, AgedIs
<1>5. Numbers'
  <2>1. \A p \in Devices : \A v \in Views(p)' : Ranked(v)
    BY <1>0, <1>3, AgedCounts DEF Numbers
  <2>2. \A p \in Devices : cursor'[p] <= journal'[p].hi
    BY <1>0, <1>1, <1>2, AgedIs DEF Numbers
  <2>3. \A p \in Devices, k \in Keys :
          /\ journal'[p].inn[k] # None /\ ~journal'[p].inn[k].consumed
          /\ journal'[p].inn[k].seq <= cursor'[p]
          => k \in paged'[p]
    BY <1>0, <1>1, <1>4 DEF Numbers, CursorMissesNothing, Inbox
  <2>4. CursorMissesNothing'
    BY <2>3 DEF CursorMissesNothing, Inbox
  <2> QED
    BY <2>1, <2>2, <2>4 DEF Numbers, Ranked
<1>6. Counts'
  <2>1. \A p \in Devices : \A v \in Views(p)' : Within(v)
    BY <1>0, <1>3, AgedCounts DEF Counts, Within
  <2>2. \A p \in Devices, f \in Devices : Unconsumed(journal'[p], f) = Unconsumed(journal[p], f)
    BY <1>2, AgedCounts
  <2>3. \A p \in Devices : up'[p] => \A f \in Devices : live'[p][f] = Unconsumed(journal'[p], f)
    BY <1>0, <1>1, <2>2 DEF Counts, LiveIsExact
  <2>4. LiveIsExact'
    BY <2>3 DEF LiveIsExact, Unconsumed
  <2>5. live' \in [Devices -> [Devices -> 0..Quota]]
    BY <1>0, <1>1 DEF Counts
  <2> QED
    BY <2>1, <2>4, <2>5 DEF Counts, Within, Unconsumed
<1>7. \A k \in Keys, p \in Devices, b \in Bodies : Stored(k, p, b) => Stored(k, p, b)'
  BY <1>1, <1>4 DEF Stored
<1>8. Receipts'
  <2>1. ASSUME NEW t \in Slots, NEW k \in Keys, IsOf(t, k)', attempt'[t].stage = "receipt"
        PROVE  Stored(k, attempt[t].peer, attempt[t].body)'
    <3> DEFINE a == [attempt[t] EXCEPT !.age = attempt[t].age + 1]
    <3>1. attempt[t] # None /\ attempt'[t] = a
      BY <2>1 DEF Tick, IsOf
    <3>2. attempt[t] \in Attempt
      BY <1>0, <3>1 DEF Shape
    <3>3. /\ a.key = attempt[t].key /\ a.peer = attempt[t].peer
          /\ a.body = attempt[t].body /\ a.stage = attempt[t].stage
      BY <3>2 DEF Attempt
    <3> HIDE DEF a
    <3>4. PICK p \in Devices, b \in Bodies : p = attempt[t].peer /\ b = attempt[t].body
      BY <3>2 DEF Attempt
    <3>5. Stored(k, p, b)
      BY <1>0, <2>1, <3>1, <3>3, <3>4 DEF Receipts, IsOf
    <3>6. Stored(k, p, b)'
      BY <1>7, <3>5
    <3> QED
      BY <3>1, <3>3, <3>4, <3>6 DEF Stored
  <2>2. ASSUME NEW p \in Devices, NEW id \in Ids, NEW v \in Views(p)',
               v.out[id] # None, v.out[id].state = "settled"
        PROVE  Stored(<<p, id>>, v.out[id].peer, v.out[id].body)'
    <3>1. PICK u \in Views(p) : v = Aged(u) /\ u \in Journal
      BY <1>3
    <3>2. /\ u.out[id] # None /\ u.out[id].state = "settled"
          /\ v.out[id].peer = u.out[id].peer /\ v.out[id].body = u.out[id].body
      BY <2>2, <3>1, AgedIs
    <3>3. PICK q \in Devices, b \in Bodies, k \in Keys :
            q = u.out[id].peer /\ b = u.out[id].body /\ k = <<p, id>>
      <4>1. u.out[id] \in Outbound
        BY <3>1, <3>2, JournalParts
      <4>2. u.out[id].peer \in Devices /\ u.out[id].body \in Bodies /\ <<p, id>> \in Keys
        BY <4>1 DEF Outbound, Keys
      <4> QED
        BY <4>2
    <3>4. Stored(k, q, b)
      BY <1>0, <3>2, <3>3 DEF Receipts
    <3>5. Stored(k, q, b)'
      BY <1>7, <3>4
    <3> QED
      BY <3>2, <3>3, <3>5
  <2>3. \A p \in Devices, k \in Keys :
          journal'[p].inn[k] # None /\ journal'[p].inn[k].consumed => taken'[k] > 0
    BY <1>0, <1>1, <1>4 DEF Receipts
  <2> QED
    BY <2>1, <2>2, <2>3 DEF Receipts
<1> QED
  BY <1>5, <1>6, <1>8 DEF KInv

\* Nothing is stored, and no number is given.
LEMMA KInvInit == Init => KInv
<1> SUFFICES ASSUME Init PROVE KInv
  OBVIOUS
<1>1. NoRecords # None /\ NoRecords.hi = 0
  <2>1. NoRecords \in Journal
    BY DEF NoRecords, Journal
  <2> QED
    BY <2>1, NoneAssumption DEF NoRecords
<1>2. \A k \in Keys : NoRecords.inn[k] = None
  BY DEF NoRecords
<1>3. \A id \in Ids : NoRecords.out[id] = None
  BY DEF NoRecords
<1>4. \A d \in Devices : Views(d) = {NoRecords} /\ journal[d] = NoRecords
  BY <1>1 DEF Init, Views
<1>5. Typed
  BY PeerAssumption DEF Init, Typed, Lease
<1>6. Numbers
  <2>1. \A d \in Devices : cursor[d] <= journal[d].hi
    BY <1>1, <1>4 DEF Init
  <2> QED
    BY <1>2, <1>4, <2>1 DEF Numbers, Ranked, CursorMissesNothing, Inbox
<1>7. \A f \in Devices : Unconsumed(NoRecords, f) = 0
  <2> SUFFICES ASSUME NEW f \in Devices PROVE Unconsumed(NoRecords, f) = 0
    OBVIOUS
  <2>1. Unread(NoRecords, f) = {}
    BY <1>2 DEF Unread, Keys
  <2> QED
    BY <2>1, UnreadCounts, FS_EmptySet
<1>8. Counts
  <2>1. live \in [Devices -> [Devices -> 0..Quota]]
    BY PeerAssumption DEF Init
  <2>2. \A d \in Devices : \A v \in Views(d) : Within(v)
    BY <1>4, <1>7, PeerAssumption DEF Within
  <2>3. LiveIsExact
    BY <1>4, <1>7 DEF LiveIsExact, Init
  <2> QED
    BY <2>1, <2>2, <2>3 DEF Counts
<1>9. Receipts
  BY <1>2, <1>3, <1>4 DEF Init, Receipts, IsOf
<1> QED
  BY <1>5, <1>6, <1>8, <1>9 DEF KInv

\* Every action of the engine keeps receipts, numbers and counts.
LEMMA KInvHolds == IInv /\ IInv' /\ KInv /\ [Next]_vars => KInv'
<1> SUFFICES ASSUME IInv, IInv', KInv, [Next]_vars PROVE KInv'
  OBVIOUS
<1>0. Shape /\ Shape' /\ Typed
  BY DEF IInv, KInv
<1>1. CASE Next
  <2>0. Typed'
    BY <1>0, <1>1, TypedStep
  <2>1. ASSUME NEW d \in Devices, NEW id \in Ids, NEW t \in Slots,
               \/ \E p \in Devices, b \in Bodies : SendNew(d, id, p, b, t)
               \/ SendAgain(d, id, t)
               \/ Retry(d, id, t)
        PROVE  KInv'
    BY <1>0, <2>0, <2>1, SendKeeps
  <2>2. ASSUME NEW d \in Devices, NEW id \in Ids, Expire(d, id) PROVE KInv'
    <3>1. Record(d, id, "expired") /\ UNCHANGED <<up, live, attempt, cursor, paged, taken>>
      BY <2>2 DEF Expire, History
    <3>2. Hushed /\ "expired" \in Terminal
      BY <3>1 DEF Hushed, Same, Terminal
    <3> QED
      BY <1>0, <2>0, <3>1, <3>2, RecordKeeps
  <2>3. ASSUME NEW t \in Slots, GetReceipt(t) \/ GetRefusal(t) PROVE KInv'
    BY <1>0, <2>0, <2>3, OutcomeKeeps
  <2>4. ASSUME NEW t \in Slots, AttemptFails(t) \/ Lose(t) PROVE KInv'
    BY <1>0, <2>0, <2>4, FailKeeps
  <2>5. ASSUME NEW t \in Slots, Handle(t) PROVE KInv'
    BY <1>0, <2>0, <2>5, HandleKeeps
  <2>6. ASSUME NEW d \in Devices, NEW k \in Keys, Consume(d, k) PROVE KInv'
    BY <1>0, <2>0, <2>6, ConsumeKeeps
  <2>7. ASSUME NEW d \in Devices, ReadPage(d) PROVE KInv'
    BY <1>0, <2>0, <2>7, ReadPageKeeps
  <2>8. ASSUME NEW d \in Devices, Stop(d) PROVE KInv'
    BY <1>0, <2>0, <2>8, StopKeeps
  <2>9. ASSUME NEW d \in Devices, Start(d) PROVE KInv'
    BY <1>0, <2>0, <2>9, StartKeeps
  <2>10. CASE Tick
    BY <1>0, <2>0, <2>10, TickKeeps
  <2> QED
    BY <1>1, <2>1, <2>2, <2>3, <2>4, <2>5, <2>6, <2>7, <2>8, <2>9, <2>10 DEF Next
<1>2. CASE UNCHANGED vars
  <2>1. UNCHANGED <<up, journal, tail, live, lease, attempt, cursor, paged, taken>>
    BY <1>2 DEF vars
  <2>2. Typed' /\ Numbers'
    BY <2>1 DEF KInv, Typed, Numbers, Views, Ranked, CursorMissesNothing, Inbox
  <2>3. Receipts'
    BY <2>1 DEF KInv, Receipts, Views, Stored, IsOf
  <2>4. Counts'
    <3>1. /\ live' \in [Devices -> [Devices -> 0..Quota]]
          /\ \A p \in Devices : \A v \in Views(p)' : Within(v)
      BY <2>1 DEF KInv, Counts, Views
    <3>2. \A p \in Devices : up'[p] => \A f \in Devices : live'[p][f] = Unconsumed(journal'[p], f)
      BY <2>1 DEF KInv, Counts, LiveIsExact
    <3>3. LiveIsExact'
      BY <3>2 DEF LiveIsExact, Unconsumed
    <3> QED
      BY <3>1, <3>3 DEF Counts, Within, Unconsumed
  <2> QED
    BY <2>2, <2>3, <2>4 DEF KInv
<1> QED
  BY <1>1, <1>2

-----------------------------------------------------------------------------
(* The theorems.                                                           *)

\* What the two invariants say of a state.
LEMMA KInvGives == IInv /\ KInv => ReceiptsAreKept
<1> SUFFICES ASSUME IInv, KInv PROVE ReceiptsAreKept
  OBVIOUS
<1>0. Shape /\ Typed /\ Numbers /\ Counts /\ Receipts
  BY DEF IInv, KInv
<1>1. TypeOK
  BY <1>0 DEF TypeOK, Shape, Typed, Counts
<1>2. SettledIsKept
  <2> SUFFICES ASSUME NEW d \in Devices, NEW id \in Ids, journal[d].out[id] # None,
                      journal[d].out[id].state = "settled"
               PROVE  \/ /\ <<d, id>> \in Inbox(journal[d].out[id].peer)
                         /\ journal[journal[d].out[id].peer].inn[<<d, id>>].body = journal[d].out[id].body
                      \/ taken[<<d, id>>] > 0
    BY DEF SettledIsKept
  <2>1. journal[d] \in Views(d) /\ <<d, id>> \in Keys
    BY <1>0, JournalParts DEF Shape, Views, Keys
  <2>2. Stored(<<d, id>>, journal[d].out[id].peer, journal[d].out[id].body)
    BY <1>0, <2>1 DEF Receipts
  <2> QED
    BY <2>1, <2>2 DEF Stored, Inbox
<1>3. LiveIsExact /\ CursorMissesNothing
  BY <1>0 DEF Counts, Numbers
<1> QED
  BY <1>1, <1>2, <1>3 DEF ReceiptsAreKept

\* A message its sender has settled is in the receiver's inbox with that very
\* payload or was taken from there, the quota counts exactly what is unconsumed
\* and is never exceeded, and a consumer that pages by number misses nothing,
\* for any number of devices, messages and attempts, though appends fail, tails
\* are damaged, journals are compacted and both engines restart
\* (peer-engine/src/engine.rs, journal.rs).
THEOREM ReceiptsKept == Spec => []ReceiptsAreKept
<1>1. Spec => []KInv
  BY KInvInit, KInvHolds, EngineInvariant, PTL DEF Spec
<1> QED
  BY <1>1, KInvGives, EngineInvariant, PTL

-----------------------------------------------------------------------------
(* The identity registry.                                                  *)

Principal == Principals \cup {Registry!Nobody}
Binding == [principal : Principal, live : BOOLEAN]
Mutations == [action : {"bind", "revoke"}, subject : Profiles, principal : Principal]
AuditLines == [action : {"bind", "revoke"}, subject : Profiles, principal : Principal, prev : Nat, tag : Nat]

\* What a line of the log says of its subject.
Says(x) == [principal |-> x.principal, live |-> x.action = "bind"]

\* The binding v of profile p is what the last of the first n lines of the log
\* L about p says.
Accounted(v, p, n, L) ==
  \/ (\A i \in 1..n : L[i].subject # p) /\ v = Registry!NoBinding
  \/ \E i \in 1..n : L[i].subject = p /\ (\A j \in 1..n : L[j].subject = p => j <= i) /\ v = Says(L[i])

Exclusive(B) ==
  \A p, q \in Profiles : B[p].live /\ B[q].live /\ B[p].principal = B[q].principal => p = q

\* The log L: chained, with tags up to n that grow.
LogOK(L, n) ==
  /\ L \in Seq(AuditLines)
  /\ \A i \in 1..Len(L) : L[i].prev = (IF i = 1 THEN 0 ELSE L[i - 1].tag) /\ 0 < L[i].tag /\ L[i].tag <= n
  /\ \A i, j \in 1..Len(L) : i < j => L[i].tag < L[j].tag

RegFields(r) == r = [seq |-> r.seq, tag |-> r.tag, bind |-> r.bind]

\* A registry r that the log L accounts for.
RegOK(r, L) ==
  /\ RegFields(r)
  /\ r.seq \in Nat /\ r.seq <= Len(L) /\ r.tag = (IF r.seq = 0 THEN 0 ELSE L[r.seq].tag)
  /\ r.bind \in [Profiles -> Binding]
  /\ \A p \in Profiles : Accounted(r.bind[p], p, r.seq, L)
  /\ Exclusive(r.bind)

\* The registry in place f and the durable one d are accounted for; at most one
\* line is not committed, whole or torn (t).
DiskOK(f, d, L, t) ==
  /\ RegOK(f, L) /\ Len(L) <= f.seq + 1 /\ (Len(L) = f.seq + 1 => ~t)
  /\ d = f \/ (RegOK(d, L) /\ f.seq = d.seq + 1 /\ Len(L) = f.seq /\ ~t)

\* A registry and a line that were made from f under the lock, with tag n.
Makes(new, line, f, n) ==
  \E e \in Mutations :
    /\ Registry!MatchesAction(f, e)
    /\ line = [action |-> e.action, subject |-> e.subject, principal |-> e.principal, prev |-> f.tag, tag |-> n]
    /\ new = [seq |-> f.seq + 1, tag |-> n, bind |-> [f.bind EXCEPT ![e.subject] = Says(e)]]

CmdFields(k) ==
  k = [pc |-> k.pc, kind |-> k.kind, plan |-> k.plan, todo |-> k.todo, seq |-> k.seq,
       new |-> k.new, line |-> k.line]

CmdOK(k) ==
  /\ CmdFields(k) /\ k.todo \subseteq Mutations
  /\ (k.pc = "planned" /\ k.kind = "revoke") \/ k.pc = "approving" =>
       k.plan.subject \in Profiles /\ k.plan.before.principal \in Principal

Waiting == {"idle", "planned", "approving", "next"}

\* The command k that holds the lock.
HolderOK(k, f, d, L, t, n) ==
  /\ k.pc \in {"locked", "cut", "writing", "appended", "renamed"}
  /\ k.pc \in {"locked", "cut", "writing"} =>
       Makes(k.new, k.line, f, n) /\ n > 0 /\ \A i \in 1..Len(L) : L[i].tag < n
  /\ k.pc \in {"cut", "writing"} => d = f /\ Len(L) = f.seq /\ (k.pc = "cut" => ~t)
  /\ k.pc = "appended" => d = f /\ RegOK(k.new, L) /\ k.new.seq = f.seq + 1 /\ Len(L) = f.seq + 1 /\ ~t
  /\ k.pc = "renamed" => Len(L) = f.seq /\ ~t

\* A registry that was read, when f is in place now.
PastOK(r, f, L) ==
  RegOK(r, L) /\ r.seq <= f.seq /\ r.tag <= f.tag /\ (r.tag = f.tag => r = f)

ProvFields(v) ==
  v = [pc |-> v.pc, key |-> v.key, seen |-> v.seen, tries |-> v.tries, cached |-> v.cached,
       state |-> v.state, reg |-> v.reg, at |-> v.at, alarm |-> v.alarm]

\* The provider v keys what it caches by a stat that is not newer.
ProvOK(v, f, L) ==
  /\ ProvFields(v) /\ v.alarm = FALSE
  /\ v.pc \in {"read", "log"} => v.at \in Nat /\ v.at <= f.tag
  /\ v.pc = "log" => PastOK(v.seen, f, L) /\ v.at <= v.seen.tag
  /\ v.cached /\ v.state = "ok" => PastOK(v.reg, f, L) /\ v.key \in Nat /\ v.key <= v.reg.tag

CommandsOK ==
  /\ cmd = [w \in Owners |-> cmd[w]] /\ \A w \in Owners : CmdOK(cmd[w])
  /\ holder \in Owners \cup {Registry!Nobody}
  /\ \A w \in Owners : w # holder => cmd[w].pc \in Waiting
  /\ holder # Registry!Nobody => HolderOK(cmd[holder], file, durable, audit, torn, count.lines)

RegistryInv ==
  /\ inv \in [Profiles -> Principal] /\ torn \in BOOLEAN
  /\ count = [lines |-> count.lines, changes |-> count.changes] /\ count.lines \in Nat
  /\ LogOK(audit, count.lines) /\ DiskOK(file, durable, audit, torn)
  /\ CommandsOK /\ ProvOK(prov, file, audit)

-----------------------------------------------------------------------------
\* The registry a host begins with.
LEMMA AbsentOK == ASSUME NEW L, Len(L) \in Nat PROVE RegOK(Registry!Absent, L)
<1>1. Registry!NoBinding \in Binding /\ ~Registry!NoBinding.live
  <2>1. PICK no : no = FALSE
    OBVIOUS
  <2>2. Registry!NoBinding = [principal |-> Registry!Nobody, live |-> no]
    BY <2>1, Zenon DEF Registry!NoBinding
  <2> QED BY <2>1, <2>2 DEF Binding, Principal
<1> DEFINE B == [p \in Profiles |-> Registry!NoBinding]
           r == Registry!Absent
<1>2. r = [seq |-> 0, tag |-> 0, bind |-> B]
  BY DEF Registry!Absent
<1>3. r.seq = 0 /\ r.tag = 0 /\ r.bind = B /\ RegFields(r)
  BY <1>2 DEF RegFields
<1> HIDE DEF r
<1>4. B \in [Profiles -> Binding] /\ \A p \in Profiles : B[p] = Registry!NoBinding
  BY <1>1
<1>5. Exclusive(B)
  BY <1>1, <1>4 DEF Exclusive
<1>6. \A p \in Profiles : Accounted(B[p], p, 0, L)
  BY <1>4 DEF Accounted
<1> HIDE DEF B
<1>7. r.seq \in Nat /\ r.seq <= Len(L) /\ r.tag = (IF r.seq = 0 THEN 0 ELSE L[r.seq].tag)
  BY <1>3
<1>8. RegOK(r, L)
  BY <1>3, <1>4, <1>5, <1>6, <1>7 DEF RegOK
<1> QED BY <1>8 DEF r

\* A registry without committed lines is the absent one.
LEMMA NothingIsAbsent == ASSUME NEW r, NEW L, RegOK(r, L), r.seq = 0 PROVE r = Registry!Absent
<1>1. r.tag = 0 /\ \A p \in Profiles : r.bind[p] = Registry!NoBinding
  BY DEF RegOK, Accounted
<1>2. r.bind = [p \in Profiles |-> Registry!NoBinding]
  BY <1>1 DEF RegOK
<1> QED BY <1>1, <1>2 DEF RegOK, RegFields, Registry!Absent

\* A log that begins with the committed lines of r accounts for it.
LEMMA PrefixOK ==
  ASSUME NEW r, NEW L, NEW K, RegOK(r, L), Len(K) \in Nat, r.seq <= Len(K), \A i \in 1..r.seq : K[i] = L[i]
  PROVE  RegOK(r, K)
<1>1. r.tag = (IF r.seq = 0 THEN 0 ELSE K[r.seq].tag)
  BY DEF RegOK
<1>2. \A p \in Profiles : Accounted(r.bind[p], p, r.seq, K)
  BY DEF RegOK, Accounted
<1> QED BY <1>1, <1>2 DEF RegOK

\* Verification accepts what the log accounts for.
LEMMA VerifyOK ==
  ASSUME NEW r, NEW L, NEW n, NEW t \in BOOLEAN, LogOK(L, n), RegOK(r, L)
  PROVE  /\ Registry!Verify(r, L, t) # "broken"
         /\ Len(L) <= r.seq + 1 /\ (Len(L) = r.seq + 1 => ~t) => Registry!Sound(Registry!Verify(r, L, t))
<1>1. Registry!Chained(L)
  BY DEF LogOK, Registry!Chained
<1>2. r.seq # 0 => L[r.seq].tag = r.tag
  BY DEF RegOK
<1>3. r.seq = 0 => r = Registry!Absent
  BY NothingIsAbsent
<1>4. r = Registry!Absent => r.seq = 0
  BY DEF Registry!Absent
<1>5. r.seq \in Nat /\ Len(L) \in Nat /\ r.seq <= Len(L)
  BY DEF RegOK, LogOK
<1>6. Registry!Tail1(t) = IF t THEN 1 ELSE 0
  BY DEF Registry!Tail1
<1> QED BY <1>1, <1>2, <1>3, <1>4, <1>5, <1>6 DEF Registry!Verify, Registry!Sound

\* A line of the log.
LEMMA LineOK ==
  ASSUME NEW L, NEW n \in Nat, LogOK(L, n), NEW i \in 1..Len(L)
  PROVE  L[i] \in AuditLines /\ L[i].tag \in Nat /\ 0 < L[i].tag /\ L[i].tag <= n
<1>1. L[i] \in AuditLines
  BY DEF LogOK
<1>2. L[i].tag \in Nat
  BY <1>1 DEF AuditLines
<1> QED BY <1>1, <1>2 DEF LogOK

\* The log is cut behind the committed lines.
LEMMA CutOK ==
  ASSUME NEW L, NEW n \in Nat, LogOK(L, n), NEW m \in Nat, m <= Len(L)
  PROVE  LET K == SubSeq(L, 1, m)
         IN  LogOK(K, n) /\ Len(K) = m /\ \A i \in 1..m : K[i] = L[i]
<1> DEFINE K == SubSeq(L, 1, m)
<1>1. K \in Seq(AuditLines) /\ Len(K) = m /\ \A i \in 1..m : K[i] = L[i]
  BY DEF LogOK
<1> HIDE DEF K
<1>2. \A i \in 1..m : i \in 1..Len(L) /\ (i # 1 => i - 1 \in 1..m)
  BY DEF LogOK
<1> QED BY <1>1, <1>2 DEF LogOK, K

\* A line is appended whose tag is new.
LEMMA AppendOK ==
  ASSUME NEW L, NEW n \in Nat, LogOK(L, n), NEW x \in AuditLines,
         x.prev = (IF Len(L) = 0 THEN 0 ELSE L[Len(L)].tag), 0 < x.tag, x.tag <= n,
         \A i \in 1..Len(L) : L[i].tag < x.tag
  PROVE  LET K == Append(L, x)
         IN  LogOK(K, n) /\ Len(K) = Len(L) + 1 /\ K[Len(L) + 1] = x /\ \A i \in 1..Len(L) : K[i] = L[i]
<1> DEFINE K == Append(L, x)
           m == Len(L)
<1>1. K \in Seq(AuditLines) /\ Len(K) = m + 1 /\ K[m + 1] = x /\ m \in Nat
  BY DEF LogOK
<1>2. \A i \in 1..m : K[i] = L[i]
  BY DEF LogOK
<1>3. \A i \in 1..m : L[i].tag \in Nat /\ L[i].tag <= n /\ L[i].tag < x.tag /\ 0 < L[i].tag
  BY LineOK
<1> HIDE DEF K
<1>4. ASSUME NEW i \in 1..(m + 1)
      PROVE  K[i].prev = (IF i = 1 THEN 0 ELSE K[i - 1].tag) /\ 0 < K[i].tag /\ K[i].tag <= n
  <2>1. CASE i = m + 1
    <3>1. i # 1 => i - 1 \in 1..m /\ K[i - 1] = L[m]
      BY <2>1, <1>1, <1>2
    <3> QED BY <2>1, <3>1, <1>1
  <2>2. CASE i \in 1..m
    <3>1. i # 1 => i - 1 \in 1..m /\ K[i - 1] = L[i - 1]
      BY <2>2, <1>2
    <3> QED BY <2>2, <3>1, <1>2 DEF LogOK
  <2> QED BY <2>1, <2>2, <1>1
<1>5. ASSUME NEW i \in 1..(m + 1), NEW j \in 1..(m + 1), i < j PROVE K[i].tag < K[j].tag
  <2>1. i \in 1..m /\ (j \in 1..m \/ j = m + 1)
    BY <1>5, <1>1
  <2> QED BY <1>5, <2>1, <1>1, <1>2, <1>3 DEF LogOK
<1> QED BY <1>1, <1>2, <1>4, <1>5 DEF LogOK, K

\* What a command made under the lock is accounted for once its line is appended.
LEMMA MakesOK ==
  ASSUME NEW f, NEW L, NEW n \in Nat, NEW new, NEW line, LogOK(L, n), RegOK(f, L), Len(L) = f.seq,
         Makes(new, line, f, n), n > 0, \A i \in 1..Len(L) : L[i].tag < n
  PROVE  LET K == Append(L, line)
         IN  /\ LogOK(K, n) /\ RegOK(f, K) /\ RegOK(new, K) /\ new.seq = f.seq + 1
             /\ Len(K) = f.seq + 1 /\ \A i \in 1..f.seq : K[i] = L[i]
<1> DEFINE K == Append(L, line)
           m == f.seq
<1>1. PICK e \in Mutations :
        /\ Registry!MatchesAction(f, e)
        /\ line = [action |-> e.action, subject |-> e.subject, principal |-> e.principal, prev |-> f.tag, tag |-> n]
        /\ new = [seq |-> f.seq + 1, tag |-> n, bind |-> [f.bind EXCEPT ![e.subject] = Says(e)]]
  BY DEF Makes
<1>2. m \in Nat /\ f.bind \in [Profiles -> Binding] /\ f.tag = (IF m = 0 THEN 0 ELSE L[m].tag)
  BY DEF RegOK
<1>3. f.tag \in Nat
  BY <1>2, LineOK, m # 0 => m \in 1..Len(L)
<1>4. /\ e.subject \in Profiles /\ e.principal \in Principal /\ e.action \in {"bind", "revoke"}
      /\ line.action = e.action /\ line.subject = e.subject /\ line.principal = e.principal
      /\ line.prev = f.tag /\ line.tag = n /\ line \in AuditLines
  BY <1>1, <1>3 DEF Mutations, AuditLines
<1>5. LogOK(K, n) /\ Len(K) = m + 1 /\ K[m + 1] = line /\ \A i \in 1..m : K[i] = L[i]
  BY <1>2, <1>4, AppendOK
<1> HIDE DEF K
<1>6. RegOK(f, K)
  BY <1>2, <1>5, PrefixOK
<1> DEFINE B == [f.bind EXCEPT ![e.subject] = Says(e)]
<1>7. Says(e) \in Binding /\ Says(e) = Says(line)
  BY <1>4 DEF Says, Binding
<1>8. B \in [Profiles -> Binding] /\ B[e.subject] = Says(e) /\ \A p \in Profiles : p # e.subject => B[p] = f.bind[p]
  BY <1>2, <1>4, <1>7
<1>9. new.seq = m + 1 /\ new.tag = n /\ new.bind = B /\ RegFields(new)
  BY <1>1 DEF RegFields
<1> HIDE DEF B
<1>10. ASSUME NEW p \in Profiles PROVE Accounted(B[p], p, m + 1, K)
  <2>1. CASE p = e.subject
    <3>1. m + 1 \in 1..(m + 1) /\ \A j \in 1..(m + 1) : j <= m + 1
      BY <1>2
    <3>2. K[m + 1].subject = p /\ B[p] = Says(K[m + 1])
      BY <2>1, <1>4, <1>5, <1>7, <1>8
    <3> QED BY <3>1, <3>2 DEF Accounted
  <2>2. CASE p # e.subject
    <3>1. Accounted(B[p], p, m, K)
      BY <2>2, <1>6, <1>8 DEF RegOK
    <3>2. K[m + 1].subject # p
      BY <2>2, <1>4, <1>5
    <3>3. \A i \in 1..(m + 1) : i \in 1..m \/ i = m + 1
      BY <1>2
    <3>4. \A i \in 1..m : i \in 1..(m + 1)
      BY <1>2
    <3> QED BY <3>1, <3>2, <3>3, <3>4 DEF Accounted
  <2> QED BY <2>1, <2>2
<1>11. Exclusive(B)
  <2>1. Exclusive(f.bind)
    BY DEF RegOK
  <2>2. B[e.subject].live => \A q \in Profiles \ {e.subject} : ~(f.bind[q].live /\ f.bind[q].principal = e.principal)
    <3>1. B[e.subject].live <=> e.action = "bind"
      <4>1. PICK b \in BOOLEAN : b <=> (e.action = "bind")
        BY e.action = "bind" \/ e.action # "bind"
      <4>2. B[e.subject] = [principal |-> e.principal, live |-> b]
        BY <1>8, <4>1, Zenon DEF Says
      <4>3. B[e.subject].live = b
        BY <4>2
      <4> QED BY <4>1, <4>3
    <3> QED BY <3>1, <1>1 DEF Registry!MatchesAction
  <2>3. B[e.subject].principal = e.principal
    BY <1>8 DEF Says
  <2> QED BY <2>1, <2>2, <2>3, <1>8 DEF Exclusive
<1>12. new.tag = (IF new.seq = 0 THEN 0 ELSE K[new.seq].tag) /\ new.seq \in Nat /\ new.seq <= Len(K)
  BY <1>2, <1>4, <1>5, <1>9
<1>13. RegOK(new, K)
  BY <1>8, <1>9, <1>10, <1>11, <1>12 DEF RegOK
<1> QED BY <1>5, <1>6, <1>9, <1>13 DEF K

\* The tag of a registry that the log accounts for.
LEMMA TagOK ==
  ASSUME NEW r, NEW L, NEW n \in Nat, LogOK(L, n), RegOK(r, L)
  PROVE  r.tag \in Nat /\ r.tag <= n /\ r.seq \in Nat /\ PastOK(r, r, L)
<1>1. r.seq \in Nat /\ r.seq <= Len(L) /\ r.tag = (IF r.seq = 0 THEN 0 ELSE L[r.seq].tag)
  BY DEF RegOK
<1>2. r.seq # 0 => r.seq \in 1..Len(L)
  BY <1>1 DEF LogOK
<1>3. r.tag \in Nat /\ r.tag <= n
  BY <1>1, <1>2, LineOK
<1> QED BY <1>1, <1>3 DEF PastOK

\* A registry that was read stays one while its lines stay.
LEMMA PastGrows ==
  ASSUME NEW r, NEW f, NEW L, NEW K, PastOK(r, f, L), f.seq \in Nat, Len(K) \in Nat, f.seq <= Len(K),
         \A i \in 1..f.seq : K[i] = L[i]
  PROVE  PastOK(r, f, K)
<1>1. r.seq \in Nat /\ r.seq <= f.seq
  BY DEF PastOK, RegOK
<1>2. r.seq <= Len(K) /\ \A i \in 1..r.seq : K[i] = L[i]
  BY <1>1
<1>3. RegOK(r, K)
  BY <1>2, PrefixOK DEF PastOK
<1> QED BY <1>3 DEF PastOK

\* ... and when the next one is renamed into place.
LEMMA PastRenamed ==
  ASSUME NEW f, NEW g, NEW L, NEW n \in Nat, LogOK(L, n), RegOK(f, L), RegOK(g, L), g.seq = f.seq + 1
  PROVE  f.tag < g.tag /\ \A r : PastOK(r, f, L) => PastOK(r, g, L)
<1>1. f.tag \in Nat /\ g.tag \in Nat /\ f.seq \in Nat
  BY TagOK
<1>2. f.tag < g.tag
  <2>1. g.tag = L[g.seq].tag /\ g.seq \in 1..Len(L)
    BY <1>1 DEF RegOK, LogOK
  <2>2. CASE f.seq = 0
    BY <2>1, <2>2, <1>1 DEF RegOK, LogOK
  <2>3. CASE f.seq # 0
    <3>1. f.tag = L[f.seq].tag /\ f.seq \in 1..Len(L) /\ f.seq < g.seq
      BY <2>3, <1>1 DEF RegOK, LogOK
    <3> QED BY <2>1, <3>1 DEF LogOK
  <2> QED BY <2>2, <2>3
<1>3. ASSUME NEW r, PastOK(r, f, L) PROVE PastOK(r, g, L)
  <2>1. r.tag \in Nat /\ r.seq \in Nat /\ r.tag <= f.tag /\ r.seq <= f.seq /\ RegOK(r, L)
    BY <1>3, TagOK DEF PastOK
  <2> QED BY <2>1, <1>1, <1>2 DEF PastOK
<1> QED BY <1>2, <1>3

\* The provider, when the disk has changed.
LEMMA ProvKeeps ==
  ASSUME NEW v, NEW f, NEW L, NEW g, NEW K, ProvOK(v, f, L), f.tag \in Nat, g.tag \in Nat, f.tag <= g.tag,
         \A r : PastOK(r, f, L) => PastOK(r, g, K)
  PROVE  ProvOK(v, g, K)
<1>1. v.pc \in {"read", "log"} => v.at \in Nat /\ v.at <= g.tag
  BY DEF ProvOK
<1> QED BY <1>1 DEF ProvOK


-----------------------------------------------------------------------------
(* The steps.                                                              *)

\* No owner command is called nobody.
LEMMA OwnersAreNamed == Registry!Nobody \notin Owners
BY RegistryConstants DEF Registry!RegistryAssumption

\* Who is not waiting holds the lock.
LEMMA HolderIs ==
  ASSUME CommandsOK, NEW w \in Owners, cmd[w].pc \notin Waiting
  PROVE  holder = w /\ HolderOK(cmd[w], file, durable, audit, torn, count.lines)
BY OwnersAreNamed DEF CommandsOK

\* A step of one command.
LEMMA CommandsStep ==
  ASSUME CommandsOK, NEW w \in Owners,
         cmd' = [v \in Owners |-> cmd'[v]], \A v \in Owners : v # w => cmd'[v] = cmd[v],
         CmdOK(cmd'[w]),
         \/ /\ holder # w /\ holder' = holder /\ cmd'[w].pc \in Waiting
            /\ Registry!DiskFrame /\ count'.lines = count.lines
         \/ /\ holder \in {w, Registry!Nobody}
            /\ \/ holder' = w /\ HolderOK(cmd'[w], file', durable', audit', torn', count'.lines)
               \/ holder' = Registry!Nobody /\ cmd'[w].pc \in Waiting
  PROVE  CommandsOK'
<1>1. \A v \in Owners : CmdOK(cmd'[v])
  BY DEF CommandsOK
<1>2. CASE /\ holder # w /\ holder' = holder /\ cmd'[w].pc \in Waiting
           /\ Registry!DiskFrame /\ count'.lines = count.lines
  <2>1. file' = file /\ durable' = durable /\ audit' = audit /\ torn' = torn
    BY <1>2 DEF Registry!DiskFrame
  <2>2. \A v \in Owners : v # holder' => cmd'[v].pc \in Waiting
    BY <1>2 DEF CommandsOK
  <2>3. holder # Registry!Nobody => cmd'[holder] = cmd[holder]
    BY <1>2 DEF CommandsOK
  <2>4. holder' # Registry!Nobody => HolderOK(cmd'[holder'], file', durable', audit', torn', count'.lines)
    BY <1>2, <2>1, <2>3 DEF CommandsOK
  <2> QED BY <1>1, <1>2, <2>2, <2>4 DEF CommandsOK
<1>3. CASE /\ holder \in {w, Registry!Nobody}
           /\ \/ holder' = w /\ HolderOK(cmd'[w], file', durable', audit', torn', count'.lines)
              \/ holder' = Registry!Nobody /\ cmd'[w].pc \in Waiting
  <2>1. \A v \in Owners : v # w => cmd'[v].pc \in Waiting
    BY <1>3, OwnersAreNamed DEF CommandsOK
  <2> QED BY <1>1, <1>3, <2>1 DEF CommandsOK
<1> QED BY <1>2, <1>3

\* A command that has ended.
LEMMA NoCmdOK == CmdOK(Registry!NoCmd) /\ Registry!NoCmd.pc = "idle"
BY DEF CmdOK, CmdFields, Registry!NoCmd, Mutations

\* A step of a command that does not hold the lock.
LEMMA WaitingStep ==
  ASSUME RegistryInv, NEW w \in Owners, Registry!CmdFrame, holder # w,
         cmd' = [v \in Owners |-> cmd'[v]], \A v \in Owners : v # w => cmd'[v] = cmd[v],
         CmdOK(cmd'[w]), cmd'[w].pc \in Waiting
  PROVE  RegistryInv'
<1>1. /\ file' = file /\ durable' = durable /\ audit' = audit /\ torn' = torn
      /\ holder' = holder /\ inv' = inv /\ prov' = prov /\ count' = count
  BY DEF Registry!CmdFrame, Registry!DiskFrame
<1>2. CommandsOK'
  <2>1. Registry!DiskFrame
    BY DEF Registry!CmdFrame
  <2> QED BY <1>1, <2>1, CommandsStep DEF RegistryInv
<1> QED BY <1>1, <1>2 DEF RegistryInv

\* A command ends.
LEMMA EndsStep ==
  ASSUME CommandsOK, NEW w \in Owners, Registry!Ends(w)
  PROVE  /\ cmd' = [v \in Owners |-> cmd'[v]] /\ \A v \in Owners : v # w => cmd'[v] = cmd[v]
         /\ CmdOK(cmd'[w]) /\ cmd'[w].pc = "idle"
<1>1. cmd = [v \in Owners |-> cmd[v]] /\ cmd' = [cmd EXCEPT ![w] = Registry!NoCmd]
  BY DEF CommandsOK, Registry!Ends
<1>2. cmd' = [v \in Owners |-> cmd'[v]] /\ cmd'[w] = Registry!NoCmd /\ \A v \in Owners : v # w => cmd'[v] = cmd[v]
  BY <1>1
<1> QED BY <1>2, NoCmdOK

\* ... or goes to pc.
LEMMA GoesStep ==
  ASSUME CommandsOK, NEW w \in Owners, NEW pc, Registry!Goes(w, pc)
  PROVE  /\ cmd' = [v \in Owners |-> cmd'[v]] /\ \A v \in Owners : v # w => cmd'[v] = cmd[v]
         /\ LET k == cmd'[w]
            IN  /\ CmdFields(k) /\ k.pc = pc /\ k.kind = cmd[w].kind /\ k.plan = cmd[w].plan /\ k.todo = cmd[w].todo
                /\ k.new = cmd[w].new /\ k.line = cmd[w].line
<1>1. cmd = [v \in Owners |-> cmd[v]] /\ CmdFields(cmd[w]) /\ cmd' = [cmd EXCEPT ![w].pc = pc]
  BY DEF CommandsOK, Registry!Goes, CmdOK
<1>2. /\ cmd' = [v \in Owners |-> cmd'[v]] /\ \A v \in Owners : v # w => cmd'[v] = cmd[v]
      /\ cmd'[w] = [cmd[w] EXCEPT !.pc = pc]
  BY <1>1
<1> DEFINE c == cmd[w]
<1> HIDE DEF c
<1>3. cmd'[w] = [pc |-> pc, kind |-> c.kind, plan |-> c.plan, todo |-> c.todo, seq |-> c.seq, new |-> c.new, line |-> c.line]
  <2>1. c = [pc |-> c.pc, kind |-> c.kind, plan |-> c.plan, todo |-> c.todo, seq |-> c.seq, new |-> c.new, line |-> c.line]
    BY <1>1 DEF CmdFields, c
  <2>2. cmd'[w] = [c EXCEPT !.pc = pc]
    BY <1>2 DEF c
  <2> QED BY <2>1, <2>2
<1> DEFINE k == cmd'[w]
<1> HIDE DEF k
<1>4. CmdFields(k) /\ k.pc = pc /\ k.kind = c.kind /\ k.plan = c.plan /\ k.todo = c.todo /\ k.new = c.new /\ k.line = c.line
  BY <1>3 DEF CmdFields, k
<1> QED BY <1>2, <1>4 DEF k, c


\* Who waits does not hold the lock.
LEMMA WaitsFor ==
  ASSUME CommandsOK, NEW w \in Owners, cmd[w].pc \in Waiting
  PROVE  holder # w
BY OwnersAreNamed DEF CommandsOK, HolderOK, Waiting

\* planIdentityMapping keeps the invariant.
LEMMA PlanMappingStep ==
  ASSUME RegistryInv, NEW w \in Owners, Registry!PlanMapping(w)
  PROVE  RegistryInv'
<1> DEFINE plan == Registry!MappingPlan(file)
<1> HIDE DEF plan
<1>1. /\ cmd[w] = Registry!NoCmd /\ Registry!CmdFrame
      /\ cmd' = [cmd EXCEPT ![w] = [Registry!NoCmd EXCEPT !.pc = "planned", !.plan = plan]]
  BY DEF Registry!PlanMapping, plan
<1>2. PICK k : k = [Registry!NoCmd EXCEPT !.pc = "planned", !.plan = plan]
  OBVIOUS
<1>3. k = [pc |-> "planned", kind |-> "map", plan |-> plan, todo |-> {}, seq |-> 0, new |-> Registry!Absent, line |-> <<>>]
  BY <1>2 DEF Registry!NoCmd
<1>4. k.pc = "planned" /\ k.kind = "map" /\ k.todo = {} /\ CmdFields(k)
  BY <1>3 DEF CmdFields
<1>5. CmdOK(k) /\ k.pc \in Waiting
  BY <1>4 DEF CmdOK, Waiting
<1>6. cmd = [v \in Owners |-> cmd[v]] /\ CommandsOK
  BY DEF RegistryInv, CommandsOK
<1>7. cmd' = [v \in Owners |-> cmd'[v]] /\ cmd'[w] = k /\ \A v \in Owners : v # w => cmd'[v] = cmd[v]
  BY <1>1, <1>6, <1>2
<1>8. holder # w
  BY <1>1, <1>6, NoCmdOK, WaitsFor DEF Waiting
<1> QED BY <1>1, <1>5, <1>7, <1>8, WaitingStep

\* planIdentityRevoke keeps the invariant.
LEMMA PlanRevokeStep ==
  ASSUME RegistryInv, NEW w \in Owners, NEW p \in Profiles, Registry!PlanRevoke(w, p)
  PROVE  RegistryInv'
<1> DEFINE plan == Registry!RevokePlan(file, p)
<1>1. plan.subject \in Profiles /\ plan.before.principal \in Principal
  <2>1. file.bind[p] \in Binding
    BY DEF RegistryInv, DiskOK, RegOK
  <2>2. file.bind[p].principal \in Principal
    BY <2>1 DEF Binding
  <2> QED BY <2>2 DEF Registry!RevokePlan
<1> HIDE DEF plan
<1>2. /\ cmd[w] = Registry!NoCmd /\ Registry!CmdFrame
      /\ cmd' = [cmd EXCEPT ![w] = [Registry!NoCmd EXCEPT !.pc = "planned", !.kind = "revoke", !.plan = plan]]
  BY DEF Registry!PlanRevoke, plan
<1>3. PICK k : k = [Registry!NoCmd EXCEPT !.pc = "planned", !.kind = "revoke", !.plan = plan]
  OBVIOUS
<1>4. k = [pc |-> "planned", kind |-> "revoke", plan |-> plan, todo |-> {}, seq |-> 0, new |-> Registry!Absent, line |-> <<>>]
  BY <1>3 DEF Registry!NoCmd
<1>5. k.pc = "planned" /\ k.plan = plan /\ k.todo = {} /\ CmdFields(k)
  BY <1>4 DEF CmdFields
<1>6. CmdOK(k) /\ k.pc \in Waiting
  BY <1>1, <1>5 DEF CmdOK, Waiting
<1>7. cmd = [v \in Owners |-> cmd[v]] /\ CommandsOK
  BY DEF RegistryInv, CommandsOK
<1>8. cmd' = [v \in Owners |-> cmd'[v]] /\ cmd'[w] = k /\ \A v \in Owners : v # w => cmd'[v] = cmd[v]
  BY <1>2, <1>7, <1>3
<1>9. holder # w
  BY <1>2, <1>7, NoCmdOK, WaitsFor DEF Waiting
<1> QED BY <1>2, <1>6, <1>8, <1>9, WaitingStep

\* A command that ends without the lock.
LEMMA EndsWaiting ==
  ASSUME RegistryInv, NEW w \in Owners, cmd[w].pc \in Waiting, Registry!Ends(w), Registry!CmdFrame
  PROVE  RegistryInv'
<1>1. CommandsOK
  BY DEF RegistryInv
<1>2. holder # w
  BY <1>1, WaitsFor
<1>3. "idle" \in Waiting
  BY DEF Waiting
<1> QED BY <1>1, <1>2, <1>3, EndsStep, WaitingStep

\* A command takes what it has to do, and the sequence it was planned on.
LEMMA TakesStep ==
  ASSUME RegistryInv, NEW w \in Owners, cmd[w].pc \in Waiting, NEW n, NEW todo, todo \subseteq Mutations,
         cmd' = [cmd EXCEPT ![w].pc = "next", ![w].seq = n, ![w].todo = todo], Registry!CmdFrame
  PROVE  RegistryInv'
<1>1. cmd = [v \in Owners |-> cmd[v]] /\ CommandsOK /\ CmdFields(cmd[w])
  BY DEF RegistryInv, CommandsOK, CmdOK
<1> DEFINE c == cmd[w]
           k == cmd'[w]
<1>2. /\ cmd' = [v \in Owners |-> cmd'[v]] /\ \A v \in Owners : v # w => cmd'[v] = cmd[v]
      /\ k = [c EXCEPT !.pc = "next", !.seq = n, !.todo = todo]
  BY <1>1
<1> HIDE DEF c, k
<1>3. c = [pc |-> c.pc, kind |-> c.kind, plan |-> c.plan, todo |-> c.todo, seq |-> c.seq, new |-> c.new, line |-> c.line]
  BY <1>1 DEF c, CmdFields
<1>4. k = [pc |-> "next", kind |-> c.kind, plan |-> c.plan, todo |-> todo, seq |-> n, new |-> c.new, line |-> c.line]
  BY <1>2, <1>3
<1>5. k.pc = "next" /\ k.todo = todo /\ CmdFields(k)
  BY <1>4 DEF CmdFields
<1>6. CmdOK(k) /\ k.pc \in Waiting
  BY <1>5 DEF CmdOK, Waiting
<1>7. holder # w
  BY <1>1, WaitsFor
<1> QED BY <1>2, <1>6, <1>7, WaitingStep DEF k

\* A confirmed mapping keeps the invariant.
LEMMA ConfirmMappingStep ==
  ASSUME RegistryInv, NEW w \in Owners, Registry!ConfirmMapping(w)
  PROVE  RegistryInv'
<1>1. cmd[w].pc \in Waiting /\ Registry!CmdFrame
  BY DEF Registry!ConfirmMapping, Waiting
<1> DEFINE todo == {[action |-> "bind", subject |-> p, principal |-> inv[p]] : p \in Registry!Proposed(file)}
<1>2. todo \subseteq Mutations
  <2>1. \A p \in Registry!Proposed(file) : p \in Profiles /\ inv[p] \in Principal
    BY DEF Registry!Proposed, RegistryInv
  <2> QED BY <2>1 DEF Mutations
<1>3. Registry!Ends(w) \/ cmd' = [cmd EXCEPT ![w].pc = "next", ![w].seq = file.seq, ![w].todo = todo]
  BY DEF Registry!ConfirmMapping
<1> HIDE DEF todo
<1> QED BY <1>1, <1>2, <1>3, EndsWaiting, TakesStep

\* An approved revocation keeps the invariant.
LEMMA ApprovedStep ==
  ASSUME RegistryInv, NEW w \in Owners, Registry!Approved(w)
  PROVE  RegistryInv'
<1>1. cmd[w].pc = "approving" /\ Registry!CmdFrame
  BY DEF Registry!Approved
<1> DEFINE plan == cmd[w].plan
           todo == {[action |-> "revoke", subject |-> plan.subject, principal |-> plan.before.principal]}
<1>2. plan.subject \in Profiles /\ plan.before.principal \in Principal
  BY <1>1 DEF RegistryInv, CommandsOK, CmdOK
<1>3. todo \subseteq Mutations
  BY <1>2 DEF Mutations
<1>4. cmd' = [cmd EXCEPT ![w].pc = "next", ![w].seq = plan.seq, ![w].todo = todo]
  BY DEF Registry!Approved
<1>5. cmd[w].pc \in Waiting
  BY <1>1 DEF Waiting
<1> HIDE DEF todo, plan
<1> QED BY <1>1, <1>3, <1>4, <1>5, TakesStep

\* A confirmed revocation keeps the invariant.
LEMMA ConfirmRevokeStep ==
  ASSUME RegistryInv, NEW w \in Owners, Registry!ConfirmRevoke(w)
  PROVE  RegistryInv'
<1>1. cmd[w].pc = "planned" /\ cmd[w].kind = "revoke" /\ Registry!CmdFrame /\ cmd[w].pc \in Waiting /\ CommandsOK
  BY DEF Registry!ConfirmRevoke, Waiting, RegistryInv
<1>2. CASE Registry!Ends(w)
  BY <1>1, <1>2, EndsWaiting
<1>3. CASE Registry!Goes(w, "approving")
  <2>1. /\ cmd[w].plan.subject \in Profiles /\ cmd[w].plan.before.principal \in Principal
        /\ cmd[w].todo \subseteq Mutations
    BY <1>1 DEF CommandsOK, CmdOK
  <2>2. /\ cmd' = [v \in Owners |-> cmd'[v]] /\ \A v \in Owners : v # w => cmd'[v] = cmd[v]
        /\ CmdFields(cmd'[w]) /\ cmd'[w].pc = "approving" /\ cmd'[w].plan = cmd[w].plan /\ cmd'[w].todo = cmd[w].todo
    BY <1>1, <1>3, GoesStep
  <2>3. CmdOK(cmd'[w]) /\ cmd'[w].pc \in Waiting
    BY <2>1, <2>2 DEF CmdOK, Waiting
  <2>4. holder # w
    BY <1>1, WaitsFor
  <2> QED BY <1>1, <2>2, <2>3, <2>4, WaitingStep
<1> QED BY <1>2, <1>3 DEF Registry!ConfirmRevoke

\* A command that is given up keeps the invariant.
LEMMA GivesUpStep ==
  ASSUME RegistryInv, NEW w \in Owners, Registry!GivesUp(w)
  PROVE  RegistryInv'
BY EndsWaiting DEF Registry!GivesUp, Waiting


\* The lock is taken.
LEMMA LockStep ==
  ASSUME RegistryInv, NEW w \in Owners, NEW e \in cmd[w].todo, Registry!Lock(w, e)
  PROVE  RegistryInv'
<1>1. /\ cmd[w].pc = "next" /\ holder = Registry!Nobody /\ Registry!DiskFrame /\ inv' = inv /\ prov' = prov
      /\ cmd[w].pc \in Waiting /\ CommandsOK /\ e \in Mutations /\ CmdOK(cmd[w])
  BY DEF Registry!Lock, Waiting, RegistryInv, CommandsOK, CmdOK
<1>2. file' = file /\ durable' = durable /\ audit' = audit /\ torn' = torn
  BY <1>1 DEF Registry!DiskFrame
<1>3. CASE Registry!Ends(w) /\ UNCHANGED <<holder, count>>
  BY <1>1, <1>3, EndsWaiting DEF Registry!CmdFrame
<1>4. CASE /\ holder' = w /\ count' = [count EXCEPT !.lines = @ + 1] /\ Registry!MatchesAction(file, e)
           /\ cmd' = [cmd EXCEPT ![w].pc = "locked", ![w].todo = @ \ {e},
                        ![w].new = Registry!Mutated(file, e), ![w].line = Registry!LineOf(file, e)]
  <2> DEFINE n == count.lines + 1
             new == Registry!Mutated(file, e)
             line == Registry!LineOf(file, e)
             c == cmd[w]
             k == cmd'[w]
  <2>1. count.lines \in Nat /\ n \in Nat /\ n > 0 /\ count = [lines |-> count.lines, changes |-> count.changes]
    BY DEF RegistryInv
  <2>2. count'.lines = n /\ count' = [lines |-> count'.lines, changes |-> count'.changes]
    BY <1>4, <2>1
  <2>3. LogOK(audit, n) /\ \A i \in 1..Len(audit) : audit[i].tag < n
    <3>1. LogOK(audit, count.lines)
      BY DEF RegistryInv
    <3>2. \A i \in 1..Len(audit) : audit[i].tag \in Nat /\ audit[i].tag <= count.lines
      BY <2>1, <3>1, LineOK
    <3> QED BY <2>1, <3>1, <3>2 DEF LogOK
  <2>4. Makes(new, line, file, n)
    BY <1>1, <1>4 DEF Makes, Registry!Mutated, Registry!LineOf, Says
  <2> HIDE DEF new, line, c, k, n
  <2>5. c = [pc |-> c.pc, kind |-> c.kind, plan |-> c.plan, todo |-> c.todo, seq |-> c.seq, new |-> c.new, line |-> c.line]
    BY <1>1 DEF c, CmdOK, CmdFields
  <2>6. cmd = [v \in Owners |-> cmd[v]]
    BY <1>1 DEF CommandsOK
  <2>7. cmd' = [cmd EXCEPT ![w].pc = "locked", ![w].todo = c.todo \ {e}, ![w].new = new, ![w].line = line]
    BY <1>4, <2>6 DEF c, new, line
  <2>8. /\ cmd' = [v \in Owners |-> cmd'[v]] /\ \A v \in Owners : v # w => cmd'[v] = cmd[v]
        /\ k = [c EXCEPT !.pc = "locked", !.todo = c.todo \ {e}, !.new = new, !.line = line]
    BY <2>6, <2>7 DEF k, c
  <2>9. k = [pc |-> "locked", kind |-> c.kind, plan |-> c.plan, todo |-> c.todo \ {e}, seq |-> c.seq, new |-> new, line |-> line]
    BY <2>5, <2>8
  <2>10. k.pc = "locked" /\ k.todo = c.todo \ {e} /\ k.new = new /\ k.line = line /\ CmdFields(k)
    BY <2>9 DEF CmdFields
  <2>11. CmdOK(k)
    BY <1>1, <2>10 DEF CmdOK, c
  <2>12. HolderOK(k, file', durable', audit', torn', count'.lines)
    BY <1>2, <2>1, <2>2, <2>3, <2>4, <2>10 DEF HolderOK
  <2>13. CommandsOK'
    BY <1>1, <1>4, <2>8, <2>11, <2>12, CommandsStep DEF k
  <2> QED BY <1>1, <1>2, <2>1, <2>2, <2>3, <2>13 DEF RegistryInv
<1> QED BY <1>3, <1>4 DEF Registry!Lock, Registry!Accepts

\* The tail that is not committed is cut off.
LEMMA CutTailStep ==
  ASSUME RegistryInv, NEW w \in Owners, Registry!CutTail(w)
  PROVE  RegistryInv'
<1> DEFINE K == SubSeq(audit, 1, file.seq)
           n == count.lines
           k == cmd'[w]
<1> HIDE DEF K, n, k
<1>1. /\ cmd[w].pc = "locked" /\ Registry!Goes(w, "cut") /\ durable' = file /\ audit' = K /\ torn' = FALSE
      /\ file' = file /\ holder' = holder /\ inv' = inv /\ prov' = prov /\ count' = count
  BY DEF Registry!CutTail, K
<1>2. /\ CommandsOK /\ LogOK(audit, n) /\ DiskOK(file, durable, audit, torn) /\ ProvOK(prov, file, audit) /\ n \in Nat
      /\ CmdOK(cmd[w])
  BY DEF RegistryInv, CommandsOK, n
<1>3. holder = w /\ HolderOK(cmd[w], file, durable, audit, torn, n)
  BY <1>1, <1>2, HolderIs DEF Waiting, n
<1>4. RegOK(file, audit) /\ file.seq \in Nat /\ file.seq <= Len(audit)
  BY <1>2 DEF DiskOK, RegOK
<1>5. LogOK(K, n) /\ Len(K) = file.seq /\ \A i \in 1..file.seq : K[i] = audit[i]
  BY <1>2, <1>4, CutOK DEF K
<1>6. RegOK(file, K)
  BY <1>4, <1>5, PrefixOK
<1>7. DiskOK(file', durable', audit', torn')
  BY <1>1, <1>4, <1>5, <1>6 DEF DiskOK
<1>8. ProvOK(prov', file', audit')
  <2>1. \A r : PastOK(r, file, audit) => PastOK(r, file, K)
    BY <1>4, <1>5, PastGrows
  <2>2. file.tag \in Nat
    BY <1>2, <1>4, TagOK
  <2> QED BY <1>1, <1>2, <2>1, <2>2, ProvKeeps
<1>9. /\ cmd' = [v \in Owners |-> cmd'[v]] /\ \A v \in Owners : v # w => cmd'[v] = cmd[v]
      /\ CmdFields(k) /\ k.pc = "cut" /\ k.todo = cmd[w].todo /\ k.new = cmd[w].new /\ k.line = cmd[w].line
  BY <1>1, <1>2, GoesStep DEF k
<1>10. CmdOK(k)
  BY <1>2, <1>9 DEF CmdOK
<1>11. Makes(k.new, k.line, file, n) /\ n > 0 /\ \A i \in 1..Len(K) : K[i].tag < n
  BY <1>1, <1>3, <1>4, <1>5, <1>9 DEF HolderOK
<1>12. HolderOK(k, file', durable', audit', torn', count'.lines)
  BY <1>1, <1>5, <1>9, <1>11 DEF HolderOK, n
<1>13. CommandsOK'
  BY <1>1, <1>2, <1>3, <1>9, <1>10, <1>12, CommandsStep DEF k
<1> QED BY <1>1, <1>2, <1>5, <1>7, <1>8, <1>13 DEF RegistryInv, n

\* A line that is half written keeps the invariant.
LEMMA AppendPartStep ==
  ASSUME RegistryInv, NEW w \in Owners, Registry!AppendPart(w)
  PROVE  RegistryInv'
<1> DEFINE n == count.lines
           k == cmd'[w]
<1> HIDE DEF n, k
<1>1. /\ cmd[w].pc = "cut" /\ Registry!Goes(w, "writing") /\ torn' = TRUE /\ audit' = audit /\ durable' = durable
      /\ file' = file /\ holder' = holder /\ inv' = inv /\ prov' = prov /\ count' = count
  BY DEF Registry!AppendPart, Registry!WriteFrame
<1>2. /\ CommandsOK /\ DiskOK(file, durable, audit, torn) /\ CmdOK(cmd[w])
  BY DEF RegistryInv, CommandsOK, n
<1>3. holder = w /\ HolderOK(cmd[w], file, durable, audit, torn, n)
  BY <1>1, <1>2, HolderIs DEF Waiting, n
<1>4. durable = file /\ Len(audit) = file.seq /\ file.seq \in Nat
  BY <1>1, <1>2, <1>3 DEF HolderOK, DiskOK, RegOK
<1>5. DiskOK(file', durable', audit', torn')
  BY <1>1, <1>2, <1>4 DEF DiskOK
<1>6. /\ cmd' = [v \in Owners |-> cmd'[v]] /\ \A v \in Owners : v # w => cmd'[v] = cmd[v]
      /\ CmdFields(k) /\ k.pc = "writing" /\ k.todo = cmd[w].todo /\ k.new = cmd[w].new /\ k.line = cmd[w].line
  BY <1>1, <1>2, GoesStep DEF k
<1>7. CmdOK(k)
  BY <1>2, <1>6 DEF CmdOK
<1>8. HolderOK(k, file', durable', audit', torn', count'.lines)
  BY <1>1, <1>3, <1>4, <1>6 DEF HolderOK, n
<1>9. CommandsOK'
  BY <1>1, <1>2, <1>3, <1>6, <1>7, <1>8, CommandsStep DEF k
<1> QED BY <1>1, <1>5, <1>9 DEF RegistryInv


\* A line that is written keeps the invariant: the log accounts for both registries.
LEMMA AppendLineStep ==
  ASSUME RegistryInv, NEW w \in Owners, Registry!AppendLine(w)
  PROVE  RegistryInv'
<1> DEFINE line == cmd[w].line
           new == cmd[w].new
           K == Append(audit, line)
           n == count.lines
           k == cmd'[w]
<1> HIDE DEF K, n, k, line, new
<1>1. /\ cmd[w].pc = "writing" /\ Registry!Goes(w, "appended") /\ durable' = durable /\ audit' = K /\ torn' = FALSE
      /\ file' = file /\ holder' = holder /\ inv' = inv /\ prov' = prov /\ count' = count
  BY DEF Registry!AppendLine, Registry!WriteFrame, K, line
<1>2. /\ CommandsOK /\ LogOK(audit, n) /\ DiskOK(file, durable, audit, torn) /\ ProvOK(prov, file, audit) /\ n \in Nat
      /\ CmdOK(cmd[w])
  BY DEF RegistryInv, CommandsOK, n
<1>3. holder = w /\ HolderOK(cmd[w], file, durable, audit, torn, n)
  BY <1>1, <1>2, HolderIs DEF Waiting, n
<1>4. /\ RegOK(file, audit) /\ file.seq \in Nat /\ durable = file /\ Len(audit) = file.seq
      /\ Makes(new, line, file, n) /\ n > 0 /\ \A i \in 1..Len(audit) : audit[i].tag < n
  BY <1>1, <1>2, <1>3 DEF DiskOK, RegOK, HolderOK, new, line
<1>5. /\ LogOK(K, n) /\ RegOK(file, K) /\ RegOK(new, K) /\ new.seq = file.seq + 1
      /\ Len(K) = file.seq + 1 /\ \A i \in 1..file.seq : K[i] = audit[i]
  BY <1>2, <1>4, MakesOK DEF K
<1>6. DiskOK(file', durable', audit', torn')
  BY <1>1, <1>4, <1>5 DEF DiskOK
<1>7. ProvOK(prov', file', audit')
  <2>1. \A r : PastOK(r, file, audit) => PastOK(r, file, K)
    BY <1>4, <1>5, PastGrows
  <2>2. file.tag \in Nat
    BY <1>2, <1>4, TagOK
  <2> QED BY <1>1, <1>2, <2>1, <2>2, ProvKeeps
<1>8. /\ cmd' = [v \in Owners |-> cmd'[v]] /\ \A v \in Owners : v # w => cmd'[v] = cmd[v]
      /\ CmdFields(k) /\ k.pc = "appended" /\ k.todo = cmd[w].todo /\ k.new = new
  BY <1>1, <1>2, GoesStep DEF k, new
<1>9. CmdOK(k)
  BY <1>2, <1>8 DEF CmdOK
<1>10. HolderOK(k, file', durable', audit', torn', count'.lines)
  BY <1>1, <1>4, <1>5, <1>8 DEF HolderOK
<1>11. CommandsOK'
  BY <1>1, <1>2, <1>3, <1>8, <1>9, <1>10, CommandsStep DEF k
<1> QED BY <1>1, <1>2, <1>5, <1>6, <1>7, <1>11 DEF RegistryInv, n

\* The rename, which commits, keeps the invariant.
LEMMA RenameStep ==
  ASSUME RegistryInv, NEW w \in Owners, Registry!Rename(w)
  PROVE  RegistryInv'
<1> DEFINE new == cmd[w].new
           n == count.lines
           k == cmd'[w]
<1> HIDE DEF n, k, new
<1>1. /\ cmd[w].pc = "appended" /\ Registry!Goes(w, "renamed") /\ durable' = durable /\ audit' = audit /\ torn' = torn
      /\ file' = new /\ holder' = holder /\ inv' = inv /\ prov' = prov /\ count' = count
  BY DEF Registry!Rename, Registry!WriteFrame, new
<1>2. /\ CommandsOK /\ LogOK(audit, n) /\ DiskOK(file, durable, audit, torn) /\ ProvOK(prov, file, audit) /\ n \in Nat
      /\ CmdOK(cmd[w])
  BY DEF RegistryInv, CommandsOK, n
<1>3. holder = w /\ HolderOK(cmd[w], file, durable, audit, torn, n)
  BY <1>1, <1>2, HolderIs DEF Waiting, n
<1>4. /\ RegOK(file, audit) /\ file.seq \in Nat /\ durable = file /\ Len(audit) = file.seq + 1 /\ ~torn
      /\ RegOK(new, audit) /\ new.seq = file.seq + 1
  BY <1>1, <1>2, <1>3 DEF DiskOK, RegOK, HolderOK, new
<1>5. DiskOK(file', durable', audit', torn')
  BY <1>1, <1>4 DEF DiskOK
<1>6. ProvOK(prov', file', audit')
  <2>1. file.tag < new.tag /\ \A r : PastOK(r, file, audit) => PastOK(r, new, audit)
    BY <1>2, <1>4, PastRenamed
  <2>2. file.tag \in Nat /\ new.tag \in Nat
    BY <1>2, <1>4, TagOK
  <2>3. file.tag <= new.tag
    BY <2>1, <2>2
  <2> QED BY <1>1, <1>2, <2>1, <2>2, <2>3, ProvKeeps
<1>7. /\ cmd' = [v \in Owners |-> cmd'[v]] /\ \A v \in Owners : v # w => cmd'[v] = cmd[v]
      /\ CmdFields(k) /\ k.pc = "renamed" /\ k.todo = cmd[w].todo
  BY <1>1, <1>2, GoesStep DEF k
<1>8. CmdOK(k)
  BY <1>2, <1>7 DEF CmdOK
<1>9. HolderOK(k, file', durable', audit', torn', count'.lines)
  BY <1>1, <1>4, <1>7 DEF HolderOK
<1>10. CommandsOK'
  BY <1>1, <1>2, <1>3, <1>7, <1>8, <1>9, CommandsStep DEF k
<1> QED BY <1>1, <1>2, <1>5, <1>6, <1>10 DEF RegistryInv, n

\* The directory is synced and the lock released.
LEMMA SyncedStep ==
  ASSUME RegistryInv, NEW w \in Owners, Registry!Synced(w)
  PROVE  RegistryInv'
<1> DEFINE k == cmd'[w]
           c == cmd[w]
<1>1. /\ c.pc = "renamed" /\ durable' = file /\ holder' = Registry!Nobody /\ audit' = audit /\ torn' = torn
      /\ file' = file /\ inv' = inv /\ prov' = prov /\ count' = count
      /\ Registry!Ends(w) \/ cmd' = [cmd EXCEPT ![w].pc = "next", ![w].seq = file.seq]
  BY DEF Registry!Synced
<1>2. CommandsOK /\ DiskOK(file, durable, audit, torn) /\ CmdOK(c) /\ cmd = [v \in Owners |-> cmd[v]]
  BY DEF RegistryInv, CommandsOK
<1>3. holder = w
  BY <1>1, <1>2, HolderIs DEF Waiting
<1>4. DiskOK(file', durable', audit', torn')
  BY <1>1, <1>2 DEF DiskOK
<1>5. /\ cmd' = [v \in Owners |-> cmd'[v]] /\ \A v \in Owners : v # w => cmd'[v] = cmd[v]
      /\ CmdOK(k) /\ k.pc \in {"next", "idle"}
  <2>1. CASE Registry!Ends(w)
    BY <1>2, <2>1, EndsStep
  <2>2. CASE cmd' = [cmd EXCEPT ![w].pc = "next", ![w].seq = file.seq]
    <3>1. /\ cmd' = [v \in Owners |-> cmd'[v]] /\ \A v \in Owners : v # w => cmd'[v] = cmd[v]
          /\ k = [c EXCEPT !.pc = "next", !.seq = file.seq]
      BY <1>2, <2>2
    <3> DEFINE n == file.seq
    <3> HIDE DEF k, c, n
    <3>2. c = [pc |-> c.pc, kind |-> c.kind, plan |-> c.plan, todo |-> c.todo, seq |-> c.seq, new |-> c.new, line |-> c.line]
      BY <1>2 DEF CmdOK, CmdFields
    <3>3. k = [pc |-> "next", kind |-> c.kind, plan |-> c.plan, todo |-> c.todo, seq |-> n, new |-> c.new, line |-> c.line]
      BY <3>1, <3>2 DEF n
    <3>4. k.pc = "next" /\ k.todo = c.todo /\ CmdFields(k)
      BY <3>3 DEF CmdFields
    <3> QED BY <1>2, <3>1, <3>4 DEF CmdOK
  <2> QED BY <1>1, <2>1, <2>2
<1>6. CommandsOK'
  BY <1>1, <1>2, <1>3, <1>5, CommandsStep DEF Waiting
<1> QED BY <1>1, <1>4, <1>6 DEF RegistryInv

\* The command that holds the lock is killed.
LEMMA DiesStep ==
  ASSUME RegistryInv, NEW w \in Owners, Registry!Dies(w)
  PROVE  RegistryInv'
<1>1. /\ holder = w /\ holder' = Registry!Nobody /\ Registry!Ends(w) /\ inv' = inv /\ prov' = prov /\ count' = count
      /\ file' = file /\ durable' = durable /\ audit' = audit /\ torn' = torn
  BY DEF Registry!Dies, Registry!DiskFrame
<1>2. CommandsOK
  BY DEF RegistryInv
<1>3. CommandsOK'
  BY <1>1, <1>2, EndsStep, CommandsStep DEF Waiting
<1> QED BY <1>1, <1>3 DEF RegistryInv


\* The provider has cached and is reading nothing.
LEMMA NoProvOK ==
  ASSUME NEW f, NEW L, NEW a, a = FALSE
  PROVE  ProvOK([Registry!NoProv EXCEPT !.alarm = a], f, L)
<1>1. PICK v : v = [Registry!NoProv EXCEPT !.alarm = a]
  OBVIOUS
<1>2. PICK no : no = FALSE
  OBVIOUS
<1>3. v = [pc |-> "idle", key |-> 0, seen |-> Registry!Absent, tries |-> 0, cached |-> no,
           state |-> "absent", reg |-> Registry!Absent, at |-> 0, alarm |-> a]
  BY <1>1, <1>2 DEF Registry!NoProv
<1>4. v.pc = "idle" /\ v.state = "absent" /\ v.alarm = a /\ ProvFields(v)
  BY <1>3 DEF ProvFields
<1>5. ProvOK(v, f, L)
  BY <1>4 DEF ProvOK
<1> QED BY <1>1, <1>5

\* A power loss keeps the invariant.
LEMMA PowerLossStep ==
  ASSUME RegistryInv, Registry!PowerLoss
  PROVE  RegistryInv'
<1>1. /\ file' = durable /\ holder' = Registry!Nobody /\ cmd' = [w \in Owners |-> Registry!NoCmd]
      /\ prov' = [Registry!NoProv EXCEPT !.alarm = prov.alarm]
      /\ durable' = durable /\ audit' = audit /\ torn' = torn /\ inv' = inv /\ count' = count
  BY DEF Registry!PowerLoss
<1>2. DiskOK(file, durable, audit, torn) /\ prov.alarm = FALSE
  BY DEF RegistryInv, ProvOK
<1>3. DiskOK(file', durable', audit', torn')
  <2>1. CASE durable = file
    BY <1>1, <1>2, <2>1
  <2>2. CASE durable # file
    <3>1. RegOK(durable, audit) /\ file.seq = durable.seq + 1 /\ Len(audit) = file.seq /\ ~torn /\ durable.seq \in Nat
      BY <1>2, <2>2 DEF DiskOK, RegOK
    <3> QED BY <1>1, <3>1 DEF DiskOK
  <2> QED BY <2>1, <2>2
<1>4. ProvOK(prov', file', audit')
  BY <1>1, <1>2, NoProvOK
<1>5. \A w \in Owners : cmd'[w] = Registry!NoCmd
  BY <1>1
<1>6. CommandsOK'
  BY <1>1, <1>5, NoCmdOK DEF CommandsOK, Waiting
<1> QED BY <1>1, <1>3, <1>4, <1>6 DEF RegistryInv

\* A change of the installation keeps the invariant.
LEMMA InventoryStep ==
  ASSUME RegistryInv, NEW p \in Profiles, NEW n \in Principals \cup {Registry!Nobody},
         Registry!InventoryChanges(p, n)
  PROVE  RegistryInv'
<1>1. /\ inv' = [inv EXCEPT ![p] = n] /\ count' = [count EXCEPT !.changes = @ + 1]
      /\ file' = file /\ durable' = durable /\ audit' = audit /\ torn' = torn
      /\ holder' = holder /\ cmd' = cmd /\ prov' = prov
  BY DEF Registry!InventoryChanges, Registry!DiskFrame
<1>2. inv' \in [Profiles -> Principal]
  BY <1>1 DEF RegistryInv, Principal
<1>3. count = [lines |-> count.lines, changes |-> count.changes] /\ count.lines \in Nat
  BY DEF RegistryInv
<1>4. count' = [lines |-> count'.lines, changes |-> count'.changes] /\ count'.lines = count.lines
  BY <1>1, <1>3
<1>5. CommandsOK'
  BY <1>1, <1>4 DEF RegistryInv, CommandsOK
<1> QED BY <1>1, <1>2, <1>3, <1>4, <1>5 DEF RegistryInv

\* A step of the provider.
LEMMA ProvStep ==
  ASSUME RegistryInv, Registry!ProvFrame, ProvOK(prov', file, audit)
  PROVE  RegistryInv'
<1>1. /\ file' = file /\ durable' = durable /\ audit' = audit /\ torn' = torn
      /\ holder' = holder /\ cmd' = cmd /\ inv' = inv /\ count' = count
  BY DEF Registry!ProvFrame, Registry!DiskFrame
<1>2. CommandsOK'
  BY <1>1 DEF RegistryInv, CommandsOK
<1> QED BY <1>1, <1>2 DEF RegistryInv

\* The provider takes the key before it reads.
LEMMA StatStep ==
  ASSUME RegistryInv, Registry!Stat
  PROVE  RegistryInv'
<1> DEFINE v == prov'
           u == prov
           g == file.tag
<1>1. v = [u EXCEPT !.pc = "read", !.at = g, !.tries = 0] /\ Registry!ProvFrame
  BY DEF Registry!Stat, Registry!KeyOf
<1>2. ProvOK(u, file, audit) /\ g \in Nat
  BY TagOK DEF RegistryInv, DiskOK
<1> HIDE DEF u, v, g
<1>3. u = [pc |-> u.pc, key |-> u.key, seen |-> u.seen, tries |-> u.tries, cached |-> u.cached,
           state |-> u.state, reg |-> u.reg, at |-> u.at, alarm |-> u.alarm]
  BY <1>2 DEF ProvOK, ProvFields
<1>4. v = [pc |-> "read", key |-> u.key, seen |-> u.seen, tries |-> 0, cached |-> u.cached,
           state |-> u.state, reg |-> u.reg, at |-> g, alarm |-> u.alarm]
  BY <1>1, <1>3
<1>5. /\ v.pc = "read" /\ v.at = g /\ v.alarm = u.alarm /\ v.cached = u.cached /\ v.state = u.state
      /\ v.reg = u.reg /\ v.key = u.key /\ ProvFields(v)
  BY <1>4 DEF ProvFields
<1>6. ProvOK(v, file, audit)
  BY <1>2, <1>5 DEF ProvOK, g
<1> QED BY <1>1, <1>6, ProvStep DEF v

\* The provider reads the registry, not older than its key.
LEMMA ReadFileStep ==
  ASSUME RegistryInv, Registry!ReadFile
  PROVE  RegistryInv'
<1> DEFINE v == prov'
           u == prov
           f == file
<1>1. v = [u EXCEPT !.pc = "log", !.seen = f] /\ u.pc = "read" /\ Registry!ProvFrame
  BY DEF Registry!ReadFile
<1>2. ProvOK(u, f, audit) /\ PastOK(f, f, audit) /\ f.tag \in Nat
  BY TagOK DEF RegistryInv, DiskOK
<1> HIDE DEF u, v, f
<1>3. u = [pc |-> u.pc, key |-> u.key, seen |-> u.seen, tries |-> u.tries, cached |-> u.cached,
           state |-> u.state, reg |-> u.reg, at |-> u.at, alarm |-> u.alarm]
  BY <1>2 DEF ProvOK, ProvFields
<1>4. v = [pc |-> "log", key |-> u.key, seen |-> f, tries |-> u.tries, cached |-> u.cached,
           state |-> u.state, reg |-> u.reg, at |-> u.at, alarm |-> u.alarm]
  BY <1>1, <1>3
<1>5. /\ v.pc = "log" /\ v.at = u.at /\ v.seen = f /\ v.alarm = u.alarm /\ v.cached = u.cached
      /\ v.state = u.state /\ v.reg = u.reg /\ v.key = u.key /\ ProvFields(v)
  BY <1>4 DEF ProvFields
<1>6. ProvOK(v, f, audit)
  BY <1>1, <1>2, <1>5 DEF ProvOK
<1> QED BY <1>1, <1>6, ProvStep DEF v, f

\* What was read is verified against the log, and cached.
LEMMA ReadLogStep ==
  ASSUME RegistryInv, Registry!ReadLog
  PROVE  RegistryInv'
<1> DEFINE v == prov'
           u == prov
           f == file
           verdict == Registry!Verify(u.seen, audit, torn)
<1>1. /\ u.pc = "log" /\ Registry!ProvFrame
      /\ v = IF Registry!Sound(verdict) THEN Registry!Caches(verdict, u.seen)
             ELSE IF verdict = "retry" /\ u.tries < MaxTries
             THEN [u EXCEPT !.pc = "read", !.tries = @ + 1]
             ELSE [Registry!Caches("unreadable", Registry!Absent) EXCEPT !.alarm = @ \/ verdict = "broken"]
  BY DEF Registry!ReadLog
<1>2. ProvOK(u, f, audit)
  BY DEF RegistryInv
<1>3. PastOK(u.seen, f, audit) /\ u.at \in Nat /\ u.at <= u.seen.tag /\ u.at <= f.tag /\ u.alarm = FALSE
  BY <1>1, <1>2 DEF ProvOK
<1>4. verdict # "broken"
  BY <1>3, VerifyOK DEF PastOK, RegistryInv, DiskOK
<1>5. u = [pc |-> u.pc, key |-> u.key, seen |-> u.seen, tries |-> u.tries, cached |-> u.cached,
           state |-> u.state, reg |-> u.reg, at |-> u.at, alarm |-> u.alarm]
  BY <1>2 DEF ProvOK, ProvFields
<1>6. PICK yes : yes = TRUE
  OBVIOUS
<1>7. ASSUME NEW state, NEW reg
      PROVE  Registry!Caches(state, reg) =
               [pc |-> "idle", key |-> u.at, seen |-> Registry!Absent, tries |-> 0, cached |-> yes,
                state |-> state, reg |-> reg, at |-> 0, alarm |-> u.alarm]
  <2>1. PICK z : z = Registry!Caches(state, reg)
    OBVIOUS
  <2>2. z = [u EXCEPT !.pc = "idle", !.cached = yes, !.key = u.at, !.state = state, !.reg = reg,
                      !.seen = Registry!Absent, !.at = 0, !.tries = 0]
    BY <1>6, <2>1, Zenon DEF Registry!Caches
  <2> HIDE DEF u
  <2>3. z = [pc |-> "idle", key |-> u.at, seen |-> Registry!Absent, tries |-> 0, cached |-> yes,
             state |-> state, reg |-> reg, at |-> 0, alarm |-> u.alarm]
    BY <1>5, <2>2
  <2> QED BY <2>1, <2>3
<1> HIDE DEF u, v, f, verdict
<1>8. ASSUME NEW state, NEW reg, NEW a, a = FALSE,
             v = [pc |-> "idle", key |-> u.at, seen |-> Registry!Absent, tries |-> 0, cached |-> yes,
                  state |-> state, reg |-> reg, at |-> 0, alarm |-> a],
             state = "ok" => reg = u.seen
      PROVE  ProvOK(v, f, audit)
  <2>1. v.pc = "idle" /\ v.key = u.at /\ v.state = state /\ v.reg = reg /\ v.alarm = a /\ ProvFields(v)
    BY <1>8 DEF ProvFields
  <2> QED BY <1>3, <1>8, <2>1 DEF ProvOK
<1>9. ProvOK(v, f, audit)
  <2>1. CASE v = Registry!Caches(verdict, u.seen)
    BY <1>3, <1>7, <1>8, <2>1
  <2>2. CASE v = [u EXCEPT !.pc = "read", !.tries = @ + 1]
    <3> DEFINE n == u.tries + 1
    <3> HIDE DEF n
    <3>1. v = [pc |-> "read", key |-> u.key, seen |-> u.seen, tries |-> n, cached |-> u.cached,
               state |-> u.state, reg |-> u.reg, at |-> u.at, alarm |-> u.alarm]
      BY <1>5, <2>2 DEF n
    <3>2. /\ v.pc = "read" /\ v.at = u.at /\ v.alarm = u.alarm /\ v.cached = u.cached
          /\ v.state = u.state /\ v.reg = u.reg /\ v.key = u.key /\ ProvFields(v)
      BY <3>1 DEF ProvFields
    <3> QED BY <1>2, <1>3, <3>2 DEF ProvOK
  <2>3. CASE v = [Registry!Caches("unreadable", Registry!Absent) EXCEPT !.alarm = @ \/ verdict = "broken"]
    <3>1. PICK z : z = Registry!Caches("unreadable", Registry!Absent)
      OBVIOUS
    <3>2. z = [pc |-> "idle", key |-> u.at, seen |-> Registry!Absent, tries |-> 0, cached |-> yes,
               state |-> "unreadable", reg |-> Registry!Absent, at |-> 0, alarm |-> u.alarm]
      BY <1>7, <3>1
    <3>3. PICK a : a = (z.alarm \/ verdict = "broken")
      OBVIOUS
    <3>4. v = [z EXCEPT !.alarm = a]
      BY <2>3, <3>1, <3>3, Zenon
    <3>5. z.alarm = u.alarm
      BY <3>2
    <3>6. a = FALSE
      BY <1>3, <1>4, <3>3, <3>5, Zenon
    <3>7. v = [pc |-> "idle", key |-> u.at, seen |-> Registry!Absent, tries |-> 0, cached |-> yes,
               state |-> "unreadable", reg |-> Registry!Absent, at |-> 0, alarm |-> a]
      BY <3>2, <3>4
    <3>8. v.pc = "idle" /\ v.state = "unreadable" /\ v.alarm = a /\ ProvFields(v)
      BY <3>7 DEF ProvFields
    <3>9. v.alarm = FALSE
      BY <3>6, <3>8
    <3> QED BY <3>8, <3>9 DEF ProvOK
  <2> QED BY <1>1, <2>1, <2>2, <2>3
<1> QED BY <1>1, <1>9, ProvStep DEF v, f


-----------------------------------------------------------------------------
(* The registry is sound.                                                  *)

\* The state a host begins with.
LEMMA RegistryBegins == Registry!RegistryInit => RegistryInv
<1> SUFFICES ASSUME Registry!RegistryInit PROVE RegistryInv
  OBVIOUS
<1>1. /\ file = Registry!Absent /\ durable = Registry!Absent /\ audit = <<>> /\ torn = FALSE
      /\ holder = Registry!Nobody /\ cmd = [w \in Owners |-> Registry!NoCmd] /\ prov = Registry!NoProv
      /\ inv \in [Profiles -> Principals \cup {Registry!Nobody}] /\ count = [lines |-> 0, changes |-> 0]
  BY DEF Registry!RegistryInit
<1>2. RegOK(file, audit) /\ Len(audit) = 0 /\ LogOK(audit, 0)
  <2>1. audit \in Seq(AuditLines) /\ Len(audit) = 0
    BY <1>1
  <2> QED BY <1>1, <2>1, AbsentOK DEF LogOK
<1>3. file.seq = 0
  BY <1>1 DEF Registry!Absent
<1>4. DiskOK(file, durable, audit, torn)
  BY <1>1, <1>2, <1>3 DEF DiskOK
<1>5. \A w \in Owners : cmd[w] = Registry!NoCmd
  BY <1>1
<1>6. CommandsOK
  BY <1>1, <1>5, NoCmdOK DEF CommandsOK, Waiting
<1>7. ProvOK(prov, file, audit)
  <2>1. PICK no : no = FALSE
    OBVIOUS
  <2>2. prov = [pc |-> "idle", key |-> 0, seen |-> Registry!Absent, tries |-> 0, cached |-> no,
                state |-> "absent", reg |-> Registry!Absent, at |-> 0, alarm |-> no]
    BY <1>1, <2>1, Zenon DEF Registry!NoProv
  <2>3. prov.pc = "idle" /\ prov.state = "absent" /\ prov.alarm = no /\ ProvFields(prov)
    BY <2>2 DEF ProvFields
  <2> QED BY <2>1, <2>3 DEF ProvOK
<1>8. count.lines = 0 /\ count = [lines |-> count.lines, changes |-> count.changes]
  BY <1>1
<1>9. inv \in [Profiles -> Principal] /\ torn \in BOOLEAN
  BY <1>1 DEF Principal
<1> QED BY <1>2, <1>4, <1>6, <1>7, <1>8, <1>9 DEF RegistryInv

\* Every step of the registry keeps the invariant.
LEMMA RegistryStep == RegistryInv /\ Registry!RegistryNext => RegistryInv'
<1> SUFFICES ASSUME RegistryInv, Registry!RegistryNext PROVE RegistryInv'
  OBVIOUS
<1>1. CASE \E w \in Owners :
             \/ Registry!PlanMapping(w) \/ Registry!ConfirmMapping(w) \/ Registry!ConfirmRevoke(w)
             \/ Registry!Approved(w) \/ Registry!GivesUp(w)
  BY <1>1, PlanMappingStep, ConfirmMappingStep, ConfirmRevokeStep, ApprovedStep, GivesUpStep
<1>2. CASE \E w \in Owners :
             \/ Registry!CutTail(w) \/ Registry!AppendPart(w) \/ Registry!AppendLine(w)
             \/ Registry!Rename(w) \/ Registry!Synced(w) \/ Registry!Dies(w)
  BY <1>2, CutTailStep, AppendPartStep, AppendLineStep, RenameStep, SyncedStep, DiesStep
<1>3. CASE \E w \in Owners : \E p \in Profiles : Registry!PlanRevoke(w, p)
  BY <1>3, PlanRevokeStep
<1>4. CASE \E w \in Owners : \E e \in cmd[w].todo : Registry!Lock(w, e)
  BY <1>4, LockStep
<1>5. CASE \E p \in Profiles, n \in Principals \cup {Registry!Nobody} : Registry!InventoryChanges(p, n)
  BY <1>5, InventoryStep
<1>6. CASE Registry!PowerLoss \/ Registry!Stat \/ Registry!ReadFile \/ Registry!ReadLog
  BY <1>6, PowerLossStep, StatStep, ReadFileStep, ReadLogStep
<1> QED BY <1>1, <1>2, <1>3, <1>4, <1>5, <1>6 DEF Registry!RegistryNext

\* What the invariant says of the log, of the bindings and of the cache.
LEMMA RegistryImplies == RegistryInv => RegistryIsSound
<1> SUFFICES ASSUME RegistryInv PROVE RegistryIsSound
  OBVIOUS
<1>1. /\ LogOK(audit, count.lines) /\ DiskOK(file, durable, audit, torn) /\ ProvOK(prov, file, audit)
      /\ torn \in BOOLEAN /\ count.lines \in Nat
  BY DEF RegistryInv
<1>2. RegOK(file, audit) /\ file.seq \in Nat /\ file.seq <= Len(audit) /\ Len(audit) \in Nat
  BY <1>1 DEF DiskOK, RegOK, LogOK
<1>3. Registry!Sound(Registry!Verify(file, audit, torn))
  BY <1>1, VerifyOK DEF DiskOK
<1>4. Registry!Sound(Registry!Verify(durable, audit, torn))
  <2>1. CASE durable = file
    BY <1>3, <2>1
  <2>2. CASE durable # file
    <3>1. RegOK(durable, audit) /\ file.seq = durable.seq + 1 /\ Len(audit) = file.seq /\ ~torn /\ durable.seq \in Nat
      BY <1>1, <2>2 DEF DiskOK, RegOK
    <3>2. Len(audit) <= durable.seq + 1
      BY <3>1
    <3> QED BY <1>1, <3>1, <3>2, VerifyOK
  <2> QED BY <2>1, <2>2
<1>5. ASSUME NEW p \in Profiles
      PROVE  \/ Registry!Committed(file, p) = {} /\ file.bind[p] = Registry!NoBinding
             \/ \E i \in Registry!Committed(file, p) :
                  /\ \A j \in Registry!Committed(file, p) : j <= i
                  /\ file.bind[p] = [principal |-> audit[i].principal, live |-> audit[i].action = "bind"]
  <2>1. Accounted(file.bind[p], p, file.seq, audit)
    BY <1>2 DEF RegOK
  <2>2. CASE (\A i \in 1..file.seq : audit[i].subject # p) /\ file.bind[p] = Registry!NoBinding
    BY <2>2 DEF Registry!Committed
  <2>3. CASE \E i \in 1..file.seq :
               /\ audit[i].subject = p /\ (\A j \in 1..file.seq : audit[j].subject = p => j <= i)
               /\ file.bind[p] = Says(audit[i])
    <3>1. PICK i \in 1..file.seq :
            /\ audit[i].subject = p /\ (\A j \in 1..file.seq : audit[j].subject = p => j <= i)
            /\ file.bind[p] = Says(audit[i])
      BY <2>3
    <3>2. i \in Registry!Committed(file, p) /\ \A j \in Registry!Committed(file, p) : j <= i
      BY <3>1 DEF Registry!Committed
    <3>3. file.bind[p] = [principal |-> audit[i].principal, live |-> audit[i].action = "bind"]
      BY <3>1, Zenon DEF Says
    <3> QED BY <3>2, <3>3
  <2> QED BY <2>1, <2>2, <2>3 DEF Accounted
<1>6. Registry!RegistryIsAudited
  <2>1. ~prov.alarm
    BY <1>1 DEF ProvOK
  <2> QED BY <1>2, <1>3, <1>4, <1>5, <2>1, Zenon DEF Registry!RegistryIsAudited
<1>7. Registry!OneProfilePerPrincipal
  BY <1>2 DEF RegOK, Exclusive, Registry!OneProfilePerPrincipal
<1>8. Registry!CacheIsCurrent
  <2> SUFFICES ASSUME Registry!Fresh, NEW n \in Principals, Registry!Route(n) # Registry!Nobody
               PROVE  file.bind[Registry!Route(n)].live /\ file.bind[Registry!Route(n)].principal = n
    BY DEF Registry!CacheIsCurrent
  <2> DEFINE ps == {p \in Profiles : prov.reg.bind[p].live /\ prov.reg.bind[p].principal = n}
  <2>1. prov.state = "ok" /\ (\E p \in ps : ps = {p}) /\ Registry!Route(n) = CHOOSE p \in ps : TRUE
    BY DEF Registry!Route
  <2>2. Registry!Route(n) \in ps
    BY <2>1
  <2>3. prov.reg = file
    <3>1. prov.cached /\ prov.key = file.tag
      BY DEF Registry!Fresh, Registry!KeyOf
    <3>2. PastOK(prov.reg, file, audit) /\ prov.key \in Nat /\ prov.key <= prov.reg.tag
      BY <1>1, <2>1, <3>1 DEF ProvOK
    <3>3. file.tag \in Nat /\ prov.reg.tag \in Nat
      BY <1>1, <1>2, <3>2, TagOK DEF PastOK
    <3> QED BY <3>1, <3>2, <3>3 DEF PastOK
  <2> QED BY <2>2, <2>3
<1> QED BY <1>6, <1>7, <1>8 DEF RegistryIsSound

\* The audit log accounts for the registry through crashes, torn appends and
\* lost renames, no principal is bound to two profiles, and the cached snapshot
\* that resolveRecipient would use routes nothing to a revoked binding.
THEOREM RegistryStaysSound == PeersSpec => []RegistryIsSound
<1>1. PeersInit => RegistryInv
  BY RegistryBegins DEF PeersInit
<1>2. RegistryInv /\ [PeersNext]_<<part, vars, registryVars>> => RegistryInv'
  <2> SUFFICES ASSUME RegistryInv, [PeersNext]_<<part, vars, registryVars>> PROVE RegistryInv'
    OBVIOUS
  <2>1. CASE Registry!RegistryNext
    BY <2>1, RegistryStep
  <2>2. CASE UNCHANGED registryVars
    <3>1. /\ file' = file /\ durable' = durable /\ audit' = audit /\ torn' = torn /\ holder' = holder
          /\ inv' = inv /\ cmd' = cmd /\ prov' = prov /\ count' = count
      BY <2>2 DEF registryVars
    <3>2. CommandsOK'
      BY <3>1 DEF RegistryInv, CommandsOK
    <3> QED BY <3>1, <3>2 DEF RegistryInv
  <2> QED BY <2>1, <2>2 DEF PeersNext
<1> QED BY <1>1, <1>2, RegistryImplies, PTL DEF PeersSpec

\* The composed model runs the peer engine's own specification, whose theorems
\* hold of it.
THEOREM PeersAreEngines == PeersSpec => Spec
<1>1. PeersInit => Init
  BY DEF PeersInit
<1>2. [PeersNext]_<<part, vars, registryVars>> => [Next]_vars
  BY DEF PeersNext
<1> QED BY <1>1, <1>2, PTL DEF PeersSpec, Spec
=============================================================================
