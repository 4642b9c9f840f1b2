-------------------------- MODULE IdentityRegistry --------------------------
(***************************************************************************)
(* The host's identity registry: which profile stands for which MESH       *)
(* principal.  An update appends a line to the audit log and then renames  *)
(* the new registry file into place, its commit point, under an exclusive  *)
(* lock; readers take no lock and read the two files one after the other.  *)
(* The owner's mapping and revoke commands plan on an unlocked read,       *)
(* confirm, and update against the sequence they planned on.  The router's *)
(* snapshot provider caches a verified read under the file's stat key.     *)
(***************************************************************************)
EXTENDS Naturals, Sequences

CONSTANTS
  Profiles,
  Principals,
  Owners,        \* owner commands that may run at once
  MaxWrites,     \* bound: audit lines ever written
  MaxChanges,    \* bound: changes of the installation's profiles
  MaxTries       \* READ_MAX_RETRIES

Nobody == "nobody"

\* What the constants are assumed to be.
RegistryAssumption ==
  {MaxWrites, MaxChanges, MaxTries} \subseteq Nat /\ Nobody \notin Principals \cup Owners

VARIABLES
  file,     \* identity-registry-v1.json as a reader sees it
  durable,  \* ... as it is found after a power loss
  audit,    \* complete lines of registry-audit.jsonl
  torn,     \* the log ends in an incomplete line
  holder,   \* owner command that holds .registry.lock
  inv,      \* the installation inventory: the principal a profile is set up for
  cmd,      \* the owner commands
  prov,     \* the snapshot provider
  count     \* lines written, inventory changes

registryVars == <<file, durable, audit, torn, holder, inv, cmd, prov, count>>

NoBinding == [principal |-> Nobody, live |-> FALSE]

\* An absent registry reads as sequence 0.  tag stands for the hash of the head line.
Absent == [seq |-> 0, tag |-> 0, bind |-> [p \in Profiles |-> NoBinding]]

NoCmd == [pc |-> "idle", kind |-> "map", plan |-> <<>>, todo |-> {}, seq |-> 0,
          new |-> Absent, line |-> <<>>]

NoProv == [pc |-> "idle", key |-> 0, seen |-> Absent, tries |-> 0,
           cached |-> FALSE, state |-> "absent", reg |-> Absent, at |-> 0, alarm |-> FALSE]

RegistryInit ==
  /\ file = Absent /\ durable = Absent /\ audit = <<>> /\ torn = FALSE
  /\ holder = Nobody /\ cmd = [w \in Owners |-> NoCmd] /\ prov = NoProv
  /\ inv \in [Profiles -> Principals \cup {Nobody}]
  /\ count = [lines |-> 0, changes |-> 0]

-----------------------------------------------------------------------------
Chained(a) == \A i \in 1 .. Len(a) : a[i].prev = IF i = 1 THEN 0 ELSE a[i - 1].tag

Tail1(t) == IF t THEN 1 ELSE 0

(* readAndVerifyUnlocked on a registry r and a log that were read.  retry: *)
(* a reason in TRANSIENT_AUDIT_REASONS; one uncommitted line is tolerated. *)
Verify(r, a, t) ==
  IF ~Chained(a) THEN "broken"
  ELSE IF r = Absent THEN IF Len(a) + Tail1(t) <= 1 THEN "absent" ELSE "retry"
  ELSE IF Len(a) < r.seq \/ Len(a) - r.seq + Tail1(t) > 1 THEN "retry"
  ELSE IF a[r.seq].tag # r.tag THEN "broken" ELSE "ok"

Sound(verdict) == verdict \in {"ok", "absent"}

-----------------------------------------------------------------------------
\* planIdentityMapping: what the owner is shown, and what the plan id covers.
Proposed(r) ==
  {p \in Profiles :
     /\ inv[p] # Nobody /\ r.bind[p] = NoBinding
     /\ \A q \in Profiles \ {p} : inv[q] # inv[p] /\ ~(r.bind[q].live /\ r.bind[q].principal = inv[p])}

MappingPlan(r) ==
  [seq |-> r.seq, bind |-> [p \in Proposed(r) |-> inv[p]],
   same |-> {p \in Profiles : r.bind[p].live /\ r.bind[p].principal = inv[p]},
   blocked |-> {p \in Profiles : inv[p] # Nobody} \ Proposed(r)]

\* planIdentityRevoke: the exact binding it ends.
RevokePlan(r, p) == [seq |-> r.seq, subject |-> p, before |-> r.bind[p]]

Goes(w, pc) == cmd' = [cmd EXCEPT ![w].pc = pc]

Ends(w) == cmd' = [cmd EXCEPT ![w] = NoCmd]

DiskFrame == UNCHANGED <<file, durable, audit, torn>>

CmdFrame == DiskFrame /\ UNCHANGED <<holder, inv, prov, count>>

\* An unlocked read whose verification fails ends the command; one that passes
\* has returned the registry file as it was when it was opened.
PlanMapping(w) ==
  /\ cmd[w] = NoCmd /\ Proposed(file) # {}
  /\ cmd' = [cmd EXCEPT ![w] = [NoCmd EXCEPT !.pc = "planned", !.plan = MappingPlan(file)]]
  /\ CmdFrame

(* The owner confirms the plan id; the plan is made again and must be the  *)
(* same.  Its proposals are applied one update each.                       *)
ConfirmMapping(w) ==
  /\ cmd[w].pc = "planned" /\ cmd[w].kind = "map" /\ CmdFrame
  /\ IF MappingPlan(file) = cmd[w].plan
     THEN cmd' = [cmd EXCEPT ![w].pc = "next", ![w].seq = file.seq,
                             ![w].todo = {[action |-> "bind", subject |-> p, principal |-> inv[p]] :
                                            p \in Proposed(file)}]
     ELSE Ends(w)

PlanRevoke(w, p) ==
  /\ cmd[w] = NoCmd /\ file.bind[p].live /\ CmdFrame
  /\ cmd' = [cmd EXCEPT ![w] = [NoCmd EXCEPT !.pc = "planned", !.kind = "revoke",
                                             !.plan = RevokePlan(file, p)]]

(* ... planned again, and then the owner authenticates to the system.      *)
ConfirmRevoke(w) ==
  /\ cmd[w].pc = "planned" /\ cmd[w].kind = "revoke" /\ CmdFrame
  /\ IF RevokePlan(file, cmd[w].plan.subject) = cmd[w].plan
     THEN Goes(w, "approving") ELSE Ends(w)

Approved(w) ==
  /\ cmd[w].pc = "approving" /\ CmdFrame
  /\ LET pl == cmd[w].plan
     IN cmd' = [cmd EXCEPT ![w].pc = "next", ![w].seq = pl.seq,
          ![w].todo = {[action |-> "revoke", subject |-> pl.subject, principal |-> pl.before.principal]}]

(* Denied, cancelled or expired; the lock not obtained in time.            *)
GivesUp(w) ==
  cmd[w].pc \in {"planned", "approving", "next"} /\ holder # w /\ Ends(w) /\ CmdFrame

-----------------------------------------------------------------------------
(* updateIdentityRegistry.                                                 *)

\* assertMutationMatchesAction, on the registry read under the lock.
MatchesAction(r, e) ==
  LET bound == r.bind[e.subject] IN
  IF e.action = "bind"
  THEN /\ bound = NoBinding
       /\ ~\E q \in Profiles \ {e.subject} : r.bind[q].live /\ r.bind[q].principal = e.principal
  ELSE bound.live /\ bound.principal = e.principal

\* Mutant: the plan is trusted under the lock.
Accepts_Planned(r, j, e) == TRUE

\* The compare-and-set, and the mutation it guards.
Accepts(r, j, e) == r.seq = j.seq /\ MatchesAction(r, e)

LineOf(r, e) ==
  [action |-> e.action, subject |-> e.subject, principal |-> e.principal,
   prev |-> r.tag, tag |-> count.lines + 1]

Mutated(r, e) ==
  [seq |-> r.seq + 1, tag |-> count.lines + 1,
   bind |-> [r.bind EXCEPT ![e.subject] = [principal |-> e.principal, live |-> e.action = "bind"]]]

Lock(w, e) ==
  /\ cmd[w].pc = "next" /\ e \in cmd[w].todo /\ holder = Nobody
  /\ count.lines < MaxWrites
  /\ IF Sound(Verify(file, audit, torn)) /\ Accepts(file, cmd[w], e)
     THEN /\ holder' = w /\ count' = [count EXCEPT !.lines = @ + 1]
          /\ cmd' = [cmd EXCEPT ![w].pc = "locked", ![w].todo = @ \ {e},
                                ![w].new = Mutated(file, e), ![w].line = LineOf(file, e)]
     ELSE Ends(w) /\ UNCHANGED <<holder, count>>
  /\ DiskFrame /\ UNCHANGED <<inv, prov>>

WriteFrame == UNCHANGED <<durable, holder, inv, prov, count>>

(* A line a dead command left uncommitted is cut off first.  The file      *)
(* system keeps its changes in order: a rename some command made and did   *)
(* not live to sync is not lost once the log has changed after it.         *)
CutTail(w) ==
  /\ cmd[w].pc = "locked" /\ Goes(w, "cut") /\ durable' = file
  /\ audit' = SubSeq(audit, 1, file.seq) /\ torn' = FALSE
  /\ UNCHANGED <<file, holder, inv, prov, count>>

AppendPart(w) ==
  /\ cmd[w].pc = "cut" /\ Goes(w, "writing") /\ torn' = TRUE
  /\ UNCHANGED <<file, audit>> /\ WriteFrame

AppendLine(w) ==
  /\ cmd[w].pc = "writing" /\ Goes(w, "appended")
  /\ audit' = Append(audit, cmd[w].line) /\ torn' = FALSE
  /\ UNCHANGED file /\ WriteFrame

\* Mutant: the registry is replaced before its line is in the log.
Rename_Early(w) ==
  /\ cmd[w].pc \in {"cut", "appended"} /\ Goes(w, "renamed") /\ file' = cmd[w].new
  /\ UNCHANGED <<audit, torn>> /\ WriteFrame

Rename(w) ==
  /\ cmd[w].pc = "appended" /\ Goes(w, "renamed") /\ file' = cmd[w].new
  /\ UNCHANGED <<audit, torn>> /\ WriteFrame

(* The directory is synced, the lock released, the next proposal taken.    *)
Synced(w) ==
  /\ cmd[w].pc = "renamed" /\ durable' = file /\ holder' = Nobody
  /\ IF cmd[w].todo = {} THEN Ends(w)
     ELSE cmd' = [cmd EXCEPT ![w].pc = "next", ![w].seq = file.seq]
  /\ UNCHANGED <<file, audit, torn, inv, prov, count>>

(* The command is killed, or one of its writes fails.                      *)
Dies(w) ==
  /\ holder = w /\ holder' = Nobody /\ Ends(w)
  /\ DiskFrame /\ UNCHANGED <<inv, prov, count>>

PowerLoss ==
  /\ file' = durable /\ holder' = Nobody /\ cmd' = [w \in Owners |-> NoCmd]
  /\ prov' = [NoProv EXCEPT !.alarm = prov.alarm]
  /\ UNCHANGED <<durable, audit, torn, inv, count>>

InventoryChanges(p, n) ==
  /\ count.changes < MaxChanges /\ inv[p] # n /\ inv' = [inv EXCEPT ![p] = n]
  /\ count' = [count EXCEPT !.changes = @ + 1]
  /\ DiskFrame /\ UNCHANGED <<holder, cmd, prov>>

-----------------------------------------------------------------------------
(* createRegistrySnapshotProvider: stat, and if the key changed or the     *)
(* time to live is over, read the registry and then the log.               *)
ProvFrame == DiskFrame /\ UNCHANGED <<holder, inv, cmd, count>>

\* inode, size and mtime: each rename brings a new inode.
KeyOf(r) == r.tag

Fresh == prov.cached /\ prov.key = KeyOf(file)

Stat ==
  /\ prov.pc = "idle" /\ ProvFrame
  /\ prov' = [prov EXCEPT !.pc = "read", !.at = KeyOf(file), !.tries = 0]

ReadFile ==
  /\ prov.pc = "read" /\ ProvFrame
  /\ prov' = [prov EXCEPT !.pc = "log", !.seen = file]

\* The key is the one taken before the read.
Caches(state, reg) ==
  [prov EXCEPT !.pc = "idle", !.cached = TRUE, !.key = prov.at, !.state = state, !.reg = reg,
               !.seen = Absent, !.at = 0, !.tries = 0]

ReadLog ==
  LET verdict == Verify(prov.seen, audit, torn) IN
  /\ prov.pc = "log" /\ ProvFrame
  /\ prov' = IF Sound(verdict) THEN Caches(verdict, prov.seen)
             ELSE IF verdict = "retry" /\ prov.tries < MaxTries
             THEN [prov EXCEPT !.pc = "read", !.tries = @ + 1]
             ELSE [Caches("unreadable", Absent) EXCEPT !.alarm = @ \/ verdict = "broken"]

RegistryNext ==
  \/ \E w \in Owners :
       \/ PlanMapping(w) \/ ConfirmMapping(w) \/ ConfirmRevoke(w) \/ Approved(w) \/ GivesUp(w)
       \/ CutTail(w) \/ AppendPart(w) \/ AppendLine(w) \/ Rename(w) \/ Synced(w) \/ Dies(w)
       \/ \E p \in Profiles : PlanRevoke(w, p)
       \/ \E e \in cmd[w].todo : Lock(w, e)
  \/ \E p \in Profiles, n \in Principals \cup {Nobody} : InventoryChanges(p, n)
  \/ PowerLoss \/ Stat \/ ReadFile \/ ReadLog

RegistrySpec == RegistryInit /\ [][RegistryNext]_registryVars

-----------------------------------------------------------------------------
\* resolveRecipient on the cached snapshot: the one live binding, or nobody.
Route(to) ==
  LET ps == {p \in Profiles : prov.reg.bind[p].live /\ prov.reg.bind[p].principal = to}
  IN IF prov.state = "ok" /\ (\E p \in ps : ps = {p}) THEN CHOOSE p \in ps : TRUE ELSE Nobody

\* The committed lines about a profile.
Committed(r, p) == {i \in 1 .. r.seq : audit[i].subject = p}

(* The audit log accounts for the registry through crashes, torn appends   *)
(* and lost renames: both the file in place and the one a power loss would *)
(* bring back verify against it, each binding is what the last committed   *)
(* line about its profile says, and no reader ever reported a broken chain. *)
RegistryIsAudited ==
  /\ ~prov.alarm /\ file.seq <= Len(audit)
  /\ holder = Nobody => Sound(Verify(file, audit, torn)) /\ Sound(Verify(durable, audit, torn))
  /\ \A p \in Profiles :
       \/ Committed(file, p) = {} /\ file.bind[p] = NoBinding
       \/ \E i \in Committed(file, p) :
            /\ \A j \in Committed(file, p) : j <= i
            /\ file.bind[p] = [principal |-> audit[i].principal, live |-> audit[i].action = "bind"]

(* No principal is bound to two profiles at once, whatever the owner's     *)
(* commands planned on and the inventory became meanwhile.                 *)
OneProfilePerPrincipal ==
  \A p, q \in Profiles :
    file.bind[p].live /\ file.bind[q].live /\ file.bind[p].principal = file.bind[q].principal
      => p = q

(* A snapshot the provider would return without reading is the registry in *)
(* place: a revoked binding is not routed to any more.                     *)
CacheIsCurrent ==
  Fresh /\ prov.pc = "idle" =>
    \A n \in Principals : Route(n) # Nobody =>
      file.bind[Route(n)].live /\ file.bind[Route(n)].principal = n
=============================================================================
