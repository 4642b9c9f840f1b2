---------------------------- MODULE ClaimerLocks ----------------------------
(***************************************************************************)
(* The claimers of one profile's mailbox: client supervisors and dedicated *)
(* drains, of the Codex and of the Cursor ACP family.  Each inspects, then *)
(* takes both families' kernel advisory locks, Codex first, without        *)
(* waiting, and gives back what it has when the other is taken.  A process *)
(* that dies loses its locks.                                              *)
(***************************************************************************)
CONSTANTS
  Claimers,
  FamilyOf,      \* codex or cursor
  Dedicated      \* the claimers that are dedicated drains, not supervisors

Families == {"codex", "cursor"}

ASSUME ClaimerAssumption ==
  FamilyOf \in [Claimers -> Families] /\ Dedicated \subseteq Claimers

VARIABLES
  lock,     \* holder of each family's lock file
  claimer,  \* stage of each claimer
  loaded    \* families whose drain LaunchAgent is loaded (external)

claimerVars == <<lock, claimer, loaded>>

Free == "free"

ASSUME FreeAssumption == Free \notin Claimers

ClaimerInit ==
  /\ lock = [f \in Families |-> Free] /\ claimer = [c \in Claimers |-> "idle"]
  /\ loaded \in SUBSET Families

\* orderedClaimerLockPaths
First(c) == "codex"

Second(c) == IF First(c) = "codex" THEN "cursor" ELSE "codex"

HeldByOther(c, f) == lock[f] \notin {Free, c}

Peer(c) == IF FamilyOf[c] = "codex" THEN "cursor" ELSE "codex"

\* What inspect() sees in the primary lock: a supervisor, or for a supervisor also the
\* dedicated drain of its family.
PrimaryTaken(c) ==
  LET q == lock[FamilyOf[c]] IN
  /\ HeldByOther(c, FamilyOf[c])
  /\ q \notin Dedicated \/ (c \notin Dedicated /\ FamilyOf[q] = FamilyOf[c])

\* assertSupervisorMayClaim, assertDedicatedDrainMayClaim; the dedicated Cursor ACP
\* drain goes straight to the locks.
MayClaim(c) ==
  \/ c \in Dedicated /\ FamilyOf[c] = "cursor"
  \/ /\ ~PrimaryTaken(c) /\ ~HeldByOther(c, Peer(c))
     /\ loaded = {} \/ (c \in Dedicated /\ "cursor" \notin loaded)

Moves(c, s) == claimer' = [claimer EXCEPT ![c] = s]

Inspect(c) ==
  /\ claimer[c] = "idle" /\ MayClaim(c) /\ Moves(c, "inspected") /\ UNCHANGED <<lock, loaded>>

\* Mutant: a held lock is logged and the drain started all the same.
TakeFirst_Anyway(c) ==
  /\ claimer[c] = "inspected" /\ UNCHANGED loaded
  /\ IF lock[First(c)] = Free
     THEN lock' = [lock EXCEPT ![First(c)] = c] /\ Moves(c, "half")
     ELSE UNCHANGED lock /\ Moves(c, "draining")

TakeFirst(c) ==
  /\ claimer[c] = "inspected" /\ UNCHANGED loaded
  /\ IF lock[First(c)] = Free
     THEN lock' = [lock EXCEPT ![First(c)] = c] /\ Moves(c, "half")
     ELSE UNCHANGED lock /\ Moves(c, "idle")

(* Both locks, and the drain is started; or the first is given back.       *)
TakeSecond(c) ==
  /\ claimer[c] = "half" /\ UNCHANGED loaded
  /\ IF lock[Second(c)] = Free
     THEN lock' = [lock EXCEPT ![Second(c)] = c] /\ Moves(c, "draining")
     ELSE lock' = [lock EXCEPT ![First(c)] = Free] /\ Moves(c, "idle")

(* The drain has stopped, or could not be started: the second lock goes    *)
(* first.                                                                  *)
ReleaseSecond(c) ==
  /\ claimer[c] = "draining" /\ lock' = [lock EXCEPT ![Second(c)] = Free]
  /\ Moves(c, "stopped") /\ UNCHANGED loaded

ReleaseFirst(c) ==
  /\ claimer[c] = "stopped" /\ lock' = [lock EXCEPT ![First(c)] = Free]
  /\ Moves(c, "idle") /\ UNCHANGED loaded

Dies(c) ==
  /\ claimer[c] # "idle" /\ Moves(c, "idle") /\ UNCHANGED loaded
  /\ lock' = [f \in Families |-> IF lock[f] = c THEN Free ELSE lock[f]]

Launchd ==
  /\ loaded' \in SUBSET Families /\ UNCHANGED <<lock, claimer>>

ClaimerNext ==
  \/ \E c \in Claimers :
       \/ Inspect(c) \/ TakeFirst(c) \/ TakeSecond(c)
       \/ ReleaseSecond(c) \/ ReleaseFirst(c) \/ Dies(c)
  \/ Launchd

ClaimerSpec == ClaimerInit /\ [][ClaimerNext]_claimerVars

-----------------------------------------------------------------------------
(* At most one process drains the profile's mailbox, of whichever family   *)
(* and kind, although each looked before it locked.                        *)
OneDrain ==
  \A c, d \in Claimers : claimer[c] = "draining" /\ claimer[d] = "draining" => c = d

(* Contenders cannot refuse each other: whoever got the first lock gets    *)
(* the second, so that of several at least one goes on to drain.           *)
FirstWins == \A c \in Claimers : claimer[c] = "half" => ~HeldByOther(c, Second(c))

=============================================================================
