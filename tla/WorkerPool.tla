----------------------------- MODULE WorkerPool -----------------------------
(***************************************************************************)
(* The bounded pool of Codex App Server children.  Between two awaits the  *)
(* event loop runs a call alone: picking a slot and marking it busy is one *)
(* step, starting a child and closing one are awaits.                      *)
(***************************************************************************)
EXTENDS Naturals, Sequences, FiniteSets, SequencesExt

CONSTANTS
  Slots,           \* 1 .. size, in the pool's order
  Callers,         \* concurrent deliveries
  CrashThreshold,  \* crashes that open a slot's circuit
  MaxProcs         \* bound: children ever started

\* What the constants are assumed to be.
PoolAssumption ==
  /\ Slots \subseteq Nat \ {0} /\ IsFiniteSet(Slots) /\ Slots # {}
  /\ CrashThreshold \in Nat \ {0} /\ MaxProcs \in Nat

VARIABLES
  pool,    \* slots, calls in progress, the FIFO of waiters, children started
  phase    \* stopped, started or draining

poolVars == <<pool, phase>>

\* circuit: closed, open, or lapsed (its backoff is over and nobody looked since).
NewSlot == [gen |-> 0, proc |-> 0, busy |-> FALSE, crash |-> 0, circuit |-> "closed"]

\* slot, gen and proc: what the call reserved or was granted; child: the one it starts.
NoCall == [pc |-> "idle", slot |-> 0, gen |-> 0, proc |-> 0, child |-> 0]

PoolInit ==
  /\ pool = [slot |-> [s \in Slots |-> NewSlot], call |-> [c \in Callers |-> NoCall],
             queue |-> <<>>, procs |-> 0]
  /\ phase = "stopped"

At(c, p) == pool.call[c].pc = p

AllCircuitsOpen(p) == \A s \in Slots : p.slot[s].circuit = "open"

Refreshed(p) ==
  [p EXCEPT !.slot = [s \in Slots |->
     [p.slot[s] EXCEPT !.circuit = IF @ = "lapsed" THEN "closed" ELSE @]]]

First(S) == CHOOSE s \in S : \A t \in S : s <= t

\* The sticky slot if it is free and healthy, the first free healthy one, or
\* the first free one whose child is to be started; 0 if there is none.
PickSlot(p, sticky) ==
  LET free    == {s \in Slots : ~p.slot[s].busy /\ p.slot[s].circuit # "open"}
      healthy == {s \in free : p.slot[s].proc # 0}
      lazy    == {s \in free : p.slot[s].proc = 0}
  IN IF sticky \in healthy THEN sticky
     ELSE IF healthy # {} THEN First(healthy)
     ELSE IF lazy # {} THEN First(lazy) ELSE 0

Granted(p, s) ==
  [NoCall EXCEPT !.pc = "held", !.slot = s, !.gen = p.slot[s].gen, !.proc = p.slot[s].proc]

\* createProcess: c starts the next child for the slot it has.
Spawn(p, c, s, stage) ==
  [p EXCEPT !.procs = @ + 1,
            !.call[c] = [@ EXCEPT !.pc = stage, !.slot = s, !.child = p.procs + 1]]

\* Reserve a slot for c: granted at once if its child is up, else c starts one.
Reserve(p, c, s) ==
  LET q == [p EXCEPT !.slot[s].busy = TRUE] IN
  IF p.slot[s].proc # 0 THEN [q EXCEPT !.call[c] = Granted(p, s)]
  ELSE Spawn(q, c, s, "starting")

\* One waiter of the FIFO: nobody overtakes one that has to keep waiting.
ServeWaiter(p, w) ==
  LET q == Refreshed(p)  s == PickSlot(q, w.sticky) IN
  IF p.queue # <<>> THEN [p EXCEPT !.queue = Append(@, w)]
  ELSE IF s # 0 THEN Reserve(q, w.c, s)
  ELSE IF AllCircuitsOpen(q) THEN [q EXCEPT !.call[w.c] = NoCall]
  ELSE [q EXCEPT !.queue = <<w>>]

DrainWaiters(p) == FoldLeft(ServeWaiter, [p EXCEPT !.queue = <<>>], p.queue)

Done(p, c) == [p EXCEPT !.call[c] = NoCall]

StartPool ==
  /\ phase = "stopped" /\ phase' = "started"
  /\ LET cold == {s \in Slots : pool.slot[s].proc = 0}
     IN pool' = [pool EXCEPT
          !.procs = @ + Cardinality(cold),
          !.slot = [s \in Slots |->
             IF s \in cold
             THEN [pool.slot[s] EXCEPT !.gen = @ + 1,
                     !.proc = pool.procs + Cardinality({t \in cold : t <= s})]
             ELSE pool.slot[s]]]

StopPool ==
  /\ phase = "started" /\ phase' = "draining"
  /\ pool' = [pool EXCEPT
       !.slot = [s \in Slots |-> [pool.slot[s] EXCEPT !.busy = FALSE, !.proc = 0]],
       !.call = [c \in Callers |-> IF At(c, "waiting") THEN NoCall ELSE pool.call[c]],
       !.queue = <<>>]

(* A saturated pool refuses at once (waitMs 0) or queues the call.         *)
Acquire(c, sticky, waits) ==
  LET p == Refreshed(pool)  s == PickSlot(p, sticky) IN
  /\ At(c, "idle") /\ phase = "started" /\ pool.procs < MaxProcs
  /\ IF AllCircuitsOpen(p) THEN pool' = p
     ELSE IF s # 0 THEN pool' = Reserve(p, c, s)
     ELSE IF ~waits THEN pool' = p
     ELSE pool' = DrainWaiters([p EXCEPT !.call[c].pc = "waiting",
                                         !.queue = Append(@, [c |-> c, sticky |-> sticky])])
  /\ UNCHANGED phase

WaitTimesOut(c) ==
  /\ At(c, "waiting")
  /\ pool' = Done([pool EXCEPT !.queue = SelectSeq(@, LAMBDA w : w.c # c)], c)
  /\ UNCHANGED phase

Installed(p, c) ==
  [p EXCEPT !.slot[p.call[c].slot].gen = @ + 1, !.slot[p.call[c].slot].proc = p.call[c].child]

(* The child of a reserving call answers initialize: its slot changes      *)
(* generation and is granted, unless its circuit opened meanwhile.         *)
StartDone(c) ==
  LET s == pool.call[c].slot  p == Installed(pool, c) IN
  /\ At(c, "starting")
  /\ pool' = IF p.slot[s].circuit = "open"
             THEN DrainWaiters(Done([p EXCEPT !.slot[s].busy = FALSE], c))
             ELSE [p EXCEPT !.call[c] = Granted(p, s)]
  /\ UNCHANGED phase

StartFails(c) ==
  /\ At(c, "starting")
  /\ pool' = DrainWaiters(Done([pool EXCEPT !.slot[pool.call[c].slot].busy = FALSE], c))
  /\ UNCHANGED phase

\* The grant still names the slot's generation.
Current(c) == pool.slot[pool.call[c].slot].gen = pool.call[c].gen

\* Mutant: a release leaves the waiters to their timers.
Released_Quiet(c, success) ==
  LET s == pool.call[c].slot IN
  Done(IF ~Current(c) THEN pool
       ELSE [pool EXCEPT !.slot[s].busy = FALSE,
               !.slot[s].crash = IF success THEN 0 ELSE @,
               !.slot[s].circuit = IF success THEN "closed" ELSE @], c)

\* A stale grant frees nothing; both paths serve the waiters.
Released(c, success) ==
  LET s == pool.call[c].slot IN
  DrainWaiters(Done(IF ~Current(c) THEN pool
                    ELSE [pool EXCEPT !.slot[s].busy = FALSE,
                            !.slot[s].crash = IF success THEN 0 ELSE @,
                            !.slot[s].circuit = IF success THEN "closed" ELSE @], c))

Release(c) ==
  /\ At(c, "held") /\ pool' = Released(c, TRUE) /\ UNCHANGED phase

\* The rest of restartSlot once the old child is gone: a slot whose circuit is
\* open stays down, one that has a child again keeps it, else c starts one.
Replace(p, c) ==
  LET s == p.call[c].slot IN
  IF p.slot[s].circuit = "open" \/ p.slot[s].proc # 0
  THEN DrainWaiters(Done(p, c))
  ELSE Spawn(p, c, s, "replacing")

(* A turn of unknown outcome: the crash is noted and the slot's child is   *)
(* closed, the slot free from now on.                                      *)
Quarantine(c) ==
  LET s == pool.call[c].slot
      n == pool.slot[s].crash + 1
      noted == [pool EXCEPT !.slot[s].crash = n,
                  !.slot[s].circuit = IF n >= CrashThreshold THEN "open" ELSE @]
      freed == [noted EXCEPT !.slot[s].busy = FALSE, !.slot[s].proc = 0]
  IN
  /\ At(c, "held") /\ pool.procs < MaxProcs /\ UNCHANGED phase
  /\ pool' = IF phase # "started"
             THEN DrainWaiters(Done(IF Current(c) THEN [noted EXCEPT !.slot[s].busy = FALSE]
                                    ELSE noted, c))
             ELSE IF pool.slot[s].proc # 0 THEN [freed EXCEPT !.call[c].pc = "closing"]
             ELSE Replace(freed, c)

CloseDone(c) ==
  At(c, "closing") /\ pool' = Replace(pool, c) /\ UNCHANGED phase

ReplaceDone(c) ==
  /\ At(c, "replacing")
  /\ pool' = DrainWaiters(Done(Installed(pool, c), c)) /\ UNCHANGED phase

(* restartSlot failed: the caller releases, so as not to wedge the pool.   *)
ReplaceFails(c) ==
  /\ At(c, "replacing")
  /\ pool' = Released(c, FALSE) /\ UNCHANGED phase

CircuitLapses(s) ==
  /\ pool.slot[s].circuit = "open" /\ pool' = [pool EXCEPT !.slot[s].circuit = "lapsed"]
  /\ UNCHANGED phase

PoolNext ==
  \/ StartPool \/ StopPool
  \/ \E s \in Slots : CircuitLapses(s)
  \/ \E c \in Callers :
       \/ \E sticky \in Slots, waits \in BOOLEAN : Acquire(c, sticky, waits)
       \/ WaitTimesOut(c) \/ StartDone(c) \/ StartFails(c)
       \/ Release(c) \/ Quarantine(c) \/ CloseDone(c)
       \/ ReplaceDone(c) \/ ReplaceFails(c)

PoolSpec == PoolInit /\ [][PoolNext]_poolVars

-----------------------------------------------------------------------------

Quiet == \A c \in Callers : pool.call[c].pc \in {"idle", "waiting", "held"}

(* No lost wakeup: while calls wait and no restart is under way, every     *)
(* slot is busy or behind a circuit nobody has looked at since.            *)
NoLostWakeup ==
  pool.queue # <<>> /\ Quiet
    => \A s \in Slots : pool.slot[s].busy \/ pool.slot[s].circuit # "closed"
=============================================================================
