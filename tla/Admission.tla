------------------------------ MODULE Admission ------------------------------
(***************************************************************************)
(* The limits a send_message request passes before the journal admits it:  *)
(* the per-sender rate limiter and the conversation loop tracker           *)
(* (local-messaging-rate-limiter.mjs), in the order the handler in         *)
(* local-messaging-server.mjs calls them.  The handler awaits between      *)
(* them, so requests interleave.  The limiter and the tracker's cache live *)
(* in memory; the depth of an admitted message is stored with it.          *)
(*                                                                         *)
(* The durable pair limit is part of LocalMessaging; here the journal may  *)
(* refuse a message for any reason of its own.                             *)
(***************************************************************************)
EXTENDS Integers, FiniteSets, FiniteSetsExt

CONSTANTS
  Requests,   \* send_message requests
  Senders,
  Msgs,       \* message ids
  MaxRate,    \* requests of one sender per window
  Window,     \* ticks of the rate window
  MaxDepth,   \* longest conversation loop
  None        \* no message: not a reply

\* What the constants are assumed to be.
AdmissionAssumption ==
  /\ MaxRate \in Nat \ {0} /\ Window \in Nat /\ MaxDepth \in Nat \ {0}
  /\ None \notin Msgs

VARIABLES
  pc,       \* where each request's handler is
  req,      \* what it asks
  depth,    \* the depth calculated for it, 0 before
  charge,   \* its entry in the limiter's history
  age,      \* age of that entry
  stored,   \* journal: the record of a message id
  cache,    \* depthByMessageId, 0 when not remembered
  chain     \* history: length of the reply chain that ends in a message

vars == <<pc, req, depth, charge, age, stored, cache, chain>>

\* turn is the parent and claim the depth the credential names, parent is inReplyTo.
Asks == [sender : Senders, msg : Msgs, turn : Msgs \cup {None},
         parent : Msgs \cup {None}, claim : 1..MaxDepth]
NoAsk == [sender |-> None, msg |-> None, turn |-> None, parent |-> None, claim |-> 1]
NoRecord == [sender |-> None, parent |-> None, depth |-> 0]


\* The handler returns: of its request only the sender stays, in the history.
Spent(x) == [NoAsk EXCEPT !.sender = req[x].sender]
Returns(x, point) ==
  /\ pc' = [pc EXCEPT ![x] = point]
  /\ req' = [req EXCEPT ![x] = Spent(x)]
  /\ depth' = [depth EXCEPT ![x] = 0]

-----------------------------------------------------------------------------
\* Mutant: only requests that were admitted count against the rate.
CommittedOf(s) ==
  {x \in Requests : charge[x] = "charged" /\ req[x].sender = s /\ age[x] <= Window}

\* prune, then what is left of the sender's history.
HistoryOf(s) ==
  {x \in Requests : charge[x] # "none" /\ req[x].sender = s /\ age[x] <= Window}

\* Senders draw fresh message ids and retry within the retention time: an id
\* does not come back once its record was compacted.
Plausible(ask) == chain[ask.msg] > 0 => stored[ask.msg] # NoRecord

\* rateLimiter.reserve, after the access checks: check and entry in one step.
ReserveRate(x, ask) ==
  /\ pc[x] = "new"
  /\ Plausible(ask)
  /\ Cardinality(HistoryOf(ask.sender)) < MaxRate
  /\ pc' = [pc EXCEPT ![x] = "reserved"]
  /\ req' = [req EXCEPT ![x] = ask]
  /\ charge' = [charge EXCEPT ![x] = "reserved"]
  /\ age' = [age EXCEPT ![x] = 0]
  /\ UNCHANGED <<depth, stored, cache, chain>>

\* Mutant: a parent that is not cached counts as a first message.
CachedDepth(p) ==
  IF cache[p] > 0 THEN cache[p] ELSE IF stored[p] = NoRecord THEN 0 ELSE 1

\* resolveParentDepth: the cache, else the journal; 0 when neither knows it.
ParentDepth(p) == IF cache[p] > 0 THEN cache[p] ELSE stored[p].depth

Parents(ask) == {ask.turn, ask.parent} \ {None}
Deepest(ask) == {ask.claim} \cup {ParentDepth(p) + 1 : p \in Parents(ask)}

\* The credential's depth, or one more than a parent's.
DepthOf(ask) == Max(Deepest(ask))

WithinLimit(ask) == DepthOf(ask) <= MaxDepth

Known(ask) == \A p \in Parents(ask) : ParentDepth(p) > 0

\* calculateDepth reads the parents' records into the cache, the turn's first.
Resolved(ask) == IF ask.turn # None /\ ParentDepth(ask.turn) = 0 THEN {}
                 ELSE Parents(ask)
Remember(ask) ==
  [m \in Msgs |-> IF m \in Resolved(ask) THEN ParentDepth(m) ELSE cache[m]]

\* getRecord, then calculateDepth for a message id that is new.
CheckDepth(x) ==
  /\ pc[x] = "reserved"
  /\ LET ask == req[x] IN
       \/ /\ stored[ask.msg] # NoRecord
          /\ depth' = [depth EXCEPT ![x] = stored[ask.msg].depth]
          /\ UNCHANGED cache
       \/ /\ stored[ask.msg] = NoRecord
          /\ Known(ask) /\ WithinLimit(ask)
          /\ depth' = [depth EXCEPT ![x] = DepthOf(ask)]
          /\ cache' = Remember(ask)
  /\ pc' = [pc EXCEPT ![x] = "checked"]
  /\ UNCHANGED <<req, charge, age, stored, chain>>

\* parent_not_found or loop_limit_exceeded.  Both are thrown outside the try
\* whose catch rolls the reservation back.
RefuseDepth(x) ==
  /\ pc[x] = "reserved"
  /\ stored[req[x].msg] = NoRecord
  /\ ~(Known(req[x]) /\ WithinLimit(req[x]))
  /\ Returns(x, "refused")
  /\ cache' = Remember(req[x])
  /\ UNCHANGED <<charge, age, stored, chain>>

\* recordSend of a new message, the commit of the limits and of the depth.
Admit(x) ==
  /\ pc[x] = "checked"
  /\ LET ask == req[x] IN
       /\ stored[ask.msg] = NoRecord
       /\ stored' = [stored EXCEPT ![ask.msg] =
            [sender |-> ask.sender, parent |-> ask.parent, depth |-> depth[x]]]
       /\ cache' = [cache EXCEPT ![ask.msg] = depth[x]]
       /\ chain' = [chain EXCEPT ![ask.msg] =
            Max({1} \cup {chain[p] + 1 : p \in Parents(ask)})]
  /\ Returns(x, "admitted")
  /\ charge' = [charge EXCEPT ![x] = "charged"]
  /\ UNCHANGED age

\* The same envelope again: charged, but its depth does not advance.
Duplicate(x) ==
  /\ pc[x] = "checked"
  /\ stored[req[x].msg].sender = req[x].sender
  /\ stored[req[x].msg].parent = req[x].parent
  /\ Returns(x, "duplicate")
  /\ charge' = [charge EXCEPT ![x] = "charged"]
  /\ UNCHANGED <<age, stored, cache, chain>>

\* The journal refuses it: an id conflict, the pair limit, a storage failure.
RefuseAdmission(x) ==
  /\ pc[x] = "checked"
  /\ Returns(x, "refused")
  /\ charge' = [charge EXCEPT ![x] = "none"]
  /\ UNCHANGED <<age, stored, cache, chain>>

-----------------------------------------------------------------------------
\* The cache is a bounded LRU: an entry may be displaced at any time.
Displace(m) ==
  /\ cache[m] > 0
  /\ cache' = [cache EXCEPT ![m] = 0]
  /\ UNCHANGED <<pc, req, depth, charge, age, stored, chain>>

\* Compaction deletes the record of a finished message, days after it: no
\* handler is still at work that has read it.
CompactRecord(m) ==
  /\ stored[m] # NoRecord
  /\ \A x \in Requests : pc[x] \notin {"reserved", "checked"}
  /\ stored' = [stored EXCEPT ![m] = NoRecord]
  /\ UNCHANGED <<pc, req, depth, charge, age, cache, chain>>

\* The service restarts: handlers, limiter and cache are gone.
Restart ==
  /\ pc' = [x \in Requests |-> IF pc[x] \in {"reserved", "checked"} THEN "refused"
                               ELSE pc[x]]
  /\ req' = [x \in Requests |-> Spent(x)]
  /\ depth' = [x \in Requests |-> 0]
  /\ charge' = [x \in Requests |-> "none"]
  /\ cache' = [m \in Msgs |-> 0]
  /\ UNCHANGED <<age, stored, chain>>

Tick ==
  /\ \E x \in Requests : charge[x] # "none" /\ age[x] <= Window
  /\ age' = [x \in Requests |-> IF charge[x] # "none" /\ age[x] <= Window
                                THEN age[x] + 1 ELSE age[x]]
  /\ UNCHANGED <<pc, req, depth, charge, stored, cache, chain>>

Init ==
  /\ pc = [x \in Requests |-> "new"]
  /\ req = [x \in Requests |-> NoAsk]
  /\ depth = [x \in Requests |-> 0]
  /\ charge = [x \in Requests |-> "none"]
  /\ age = [x \in Requests |-> 0]
  /\ stored = [m \in Msgs |-> NoRecord]
  /\ cache = [m \in Msgs |-> 0]
  /\ chain = [m \in Msgs |-> 0]

Next ==
  \/ \E x \in Requests :
       \/ \E ask \in Asks : ReserveRate(x, ask)
       \/ CheckDepth(x) \/ RefuseDepth(x)
       \/ Admit(x) \/ Duplicate(x) \/ RefuseAdmission(x)
  \/ \E m \in Msgs : Displace(m) \/ CompactRecord(m)
  \/ Restart
  \/ Tick

Spec == Init /\ [][Next]_vars
-----------------------------------------------------------------------------
(* Properties.                                                             *)

\* However the requests of a sender interleave, no more than MaxRate of them
\* that entered within a window are admitted while the service runs.
RateBound ==
  \A s \in Senders :
    Cardinality({x \in Requests : /\ req[x].sender = s
                                  /\ pc[x] \in {"admitted", "duplicate"}
                                  /\ charge[x] = "charged" /\ age[x] <= Window})
      <= MaxRate

\* A chain of replies ends after MaxDepth messages, across restarts and after
\* the tracker has forgotten a message or the journal has compacted it.
LoopBound == \A m \in Msgs : chain[m] <= MaxDepth

\* "Limits committed only AFTER successful admission": a refused request
\* leaves no charge.
RefusedIsFree == \A x \in Requests : pc[x] = "refused" => charge[x] = "none"
=============================================================================
