-------------------------- MODULE SessionLifecycle --------------------------
(***************************************************************************)
(* What the session directory promises about the lifecycle of one chat     *)
(* session: the generation names one run of it.  The generation grows by   *)
(* one exactly when a session that has ended starts again, whether its row *)
(* is still in the directory or only its tombstone; it is forgotten only   *)
(* together with the session, after the retention time.                    *)
(***************************************************************************)
EXTENDS Naturals

VARIABLES
  life,   \* "unlisted", "observed" or "ended"
  gen,    \* generation of the last run, 0 when nothing is remembered
  fresh   \* the session was heard of within the retention time

Appear ==
  /\ life = "unlisted" /\ gen = 0
  /\ life' \in {"observed", "ended"}
  /\ gen' = 1

Finish == life = "observed" /\ life' = "ended" /\ gen' = gen

Resume ==
  /\ life \in {"ended", "unlisted"} /\ gen > 0
  /\ life' = "observed"
  /\ gen' = gen + 1

\* The row gives way to another session; the tombstone remembers it.
Evict == life = "ended" /\ life' = "unlisted" /\ gen' = gen

Relist == life = "unlisted" /\ gen > 0 /\ life' = "ended" /\ gen' = gen

Forget == ~fresh /\ life' = "unlisted" /\ gen' = 0

\* Forgotten and heard of again in the same step.
Reappear == ~fresh /\ life' \in {"observed", "ended"} /\ gen' = 1

Move == Appear \/ Finish \/ Resume \/ Evict \/ Relist \/ Forget \/ Reappear

LifecycleInit == life = "unlisted" /\ gen = 0

LifecycleSpec == LifecycleInit /\ [][Move]_<<life, gen>>
=============================================================================
