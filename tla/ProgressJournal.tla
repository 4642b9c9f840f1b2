--------------------------- MODULE ProgressJournal ---------------------------
(***************************************************************************)
(* headless-progress.json: when each profile last claimed, replied and     *)
(* acknowledged, written by every lane of every supervisor process.  A     *)
(* record is a read-modify-write under a kernel advisory lock that is      *)
(* given up after a short wait; the stamp is taken before the wait.        *)
(***************************************************************************)
EXTENDS Naturals

CONSTANTS
  Writers,    \* processes
  Fields,     \* one per profile and phase
  MaxClock,
  MaxFaults   \* reads that fail, writes that fail, writers killed

VARIABLES
  doc,       \* the stamps of the document, 0 for none
  writer,    \* what each process is doing
  lock,      \* holder of the advisory lock
  clock,
  evidence,  \* newest stamp of each field for which record() returned true
  faults

progressVars == <<doc, writer, lock, clock, evidence, faults>>

Nobody == "nobody"

\* What the constants are assumed to be.
ProgressAssumption == Nobody \notin Writers /\ MaxClock \in Nat

Stamps == 0..MaxClock
Blank == [f \in Fields |-> 0]
Idle == [at |-> "idle"]

\* The document and what was reported of it are time stamps.
ProgressTypeOK ==
  /\ doc \in [Fields -> Stamps] /\ evidence \in [Fields -> Stamps]
  /\ lock \in Writers \cup {Nobody} /\ clock \in 1..MaxClock /\ faults \in 0..MaxFaults

ProgressInit ==
  /\ doc = Blank /\ evidence = Blank /\ writer = [w \in Writers |-> Idle]
  /\ lock = Nobody /\ clock = 1 /\ faults = 0

Fault == faults < MaxFaults /\ faults' = faults + 1

Does(w, r) == writer' = [writer EXCEPT ![w] = r]

(* A delivery client reports a won claim, a stored reply or an owned ack.  *)
Record(w, f) ==
  /\ writer[w] = Idle /\ Does(w, [at |-> "waiting", field |-> f, stamp |-> clock])
  /\ UNCHANGED <<doc, lock, clock, evidence, faults>>

Acquire(w) ==
  /\ writer[w].at = "waiting" /\ lock = Nobody /\ lock' = w
  /\ Does(w, [writer[w] EXCEPT !.at = "locked"]) /\ UNCHANGED <<doc, clock, evidence, faults>>

\* Mutant: without the lock the record is written all the same.
GiveUp_Writes(w) ==
  /\ writer[w].at = "waiting" /\ lock \notin {Nobody, w}
  /\ Does(w, [writer[w] EXCEPT !.at = "locked"]) /\ UNCHANGED <<doc, lock, clock, evidence, faults>>

(* lockWaitMs is over: record() returns false.                             *)
GiveUp(w) ==
  /\ writer[w].at = "waiting" /\ lock \notin {Nobody, w}
  /\ Does(w, Idle) /\ UNCHANGED <<doc, lock, clock, evidence, faults>>

(* A document that cannot be read counts as empty, and what it held is no  *)
(* longer evidence.                                                        *)
ReadDocument(w) ==
  /\ writer[w].at = "locked" /\ UNCHANGED <<doc, lock, clock>>
  /\ \E seen \in {doc, Blank} :
       /\ IF seen = doc THEN UNCHANGED <<evidence, faults>> ELSE Fault /\ evidence' = Blank
       /\ Does(w, [at |-> "read", field |-> writer[w].field, stamp |-> writer[w].stamp, seen |-> seen])

LaterIso(existing, candidate) == IF existing > candidate THEN existing ELSE candidate

Leaves(w) == lock' = IF lock = w THEN Nobody ELSE lock

(* The temporary file is renamed over the document and the lock released.  *)
WriteDocument(w) ==
  LET r == writer[w]
      old == r.seen[r.field] IN
  /\ r.at = "read" /\ doc' = [r.seen EXCEPT ![r.field] = LaterIso(old, r.stamp)]
  /\ evidence' = [evidence EXCEPT ![r.field] = IF @ > r.stamp THEN @ ELSE r.stamp]
  /\ Leaves(w) /\ Does(w, Idle) /\ UNCHANGED <<clock, faults>>

(* The write fails, or the process is killed, before the rename: the       *)
(* document stays and the kernel drops the lock.                           *)
WriteFails(w) ==
  /\ writer[w].at \in {"locked", "read"} /\ Fault /\ Leaves(w) /\ Does(w, Idle)
  /\ UNCHANGED <<doc, clock, evidence>>

Tick ==
  /\ clock < MaxClock /\ clock' = clock + 1 /\ UNCHANGED <<doc, writer, lock, evidence, faults>>

ProgressNext ==
  \/ \E w \in Writers :
       \/ \E f \in Fields : Record(w, f)
       \/ Acquire(w) \/ GiveUp(w) \/ ReadDocument(w) \/ WriteDocument(w) \/ WriteFails(w)
  \/ Tick

ProgressSpec == ProgressInit /\ [][ProgressNext]_progressVars

-----------------------------------------------------------------------------
(* What record() reported as written is not erased by another process's    *)
(* older snapshot, and a late writer's older stamp does not replace it     *)
(* (client-supervisor.mjs:348-352).                                        *)
EvidenceStays == \A f \in Fields : doc[f] >= evidence[f]
=============================================================================
