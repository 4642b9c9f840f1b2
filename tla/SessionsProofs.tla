--------------------------- MODULE SessionsProofs ---------------------------
(***************************************************************************)
(* No wake is lost and none is doubled: for every number of children,      *)
(* wakes, runs, profiles, lanes and events.                                *)
(*                                                                         *)
(* SessionWake keeps at most one unacknowledged hint of a run before the   *)
(* chat.  The properties are not inductive by themselves.  A hint is put   *)
(* before the chat long after it was reserved, by a child that may have    *)
(* been replaced meanwhile, so the reservations under way have to obey the *)
(* same rule as the hints (Tracked).  A binding of an earlier run, or      *)
(* none, is replaced by an idle one: this is sound only because no hint of *)
(* the current run exists while the session is observed without a binding  *)
(* of that run (FreshRun), which in turn rests on no generation being      *)
(* ahead of the directory's (Bounded).                                     *)
(*                                                                         *)
(* EventWake: the listener may forget an event once the scheduler will     *)
(* look into that mailbox (WillLook), and a batch polled but not flushed   *)
(* leaves nothing behind its highest watermark (BatchOK).                  *)
(*                                                                         *)
(* InstallWatch: unread mail is ahead of the cursor or its drain will look *)
(* (MailAhead), and this also of the cursor a fan-out is about to write.   *)
(***************************************************************************)
EXTENDS MCSessions, FiniteSetTheorems, WellFoundedInduction, SequenceTheorems, TLAPS

Prints == [set : BOOLEAN, items : SUBSET Items]
States == {"idle", "submitting", "accepted_awaiting_ack", "uncertain"}

\* The state the argument is about is well formed.
TypeOK ==
  /\ life \in {"unlisted", "observed", "ended"} /\ gen \in Nat
  /\ up \in BOOLEAN
  /\ att \in [child : Children \cup {None}, gen : Nat, live : BOOLEAN]
  /\ bind \in [child : Children \cup {None}, gen : Nat, state : States,
               wake : Wakes \cup {None}, print : Prints, ack : Prints]
  /\ items \subseteq Items
  /\ cred \in [Children -> Nat]
  /\ job \in [Children -> [wake : Wakes \cup {None}, gen : Nat]]
  /\ \A c \in Children : job[c] = NoJob \/ job[c].wake \in Wakes
  /\ reports \subseteq [child : Children, gen : Nat, wake : Wakes,
                        result : {"accepted", "uncertain"}]
  /\ acks \subseteq [child : Children, gen : Nat, wake : Wakes]
  /\ hist \subseteq used /\ used \subseteq Wakes /\ done \subseteq used
  /\ sent \subseteq [wake : used, gen : Nat]

\* The hints that are, or may still be, put before the chat.
Coming == {job[c] : c \in {x \in Children : job[x] # NoJob}}
Hints == sent \cup Coming

\* Every reservation under way is a drawn id.
ComingIsDrawn == \A h \in Hints : h.wake \in used

\* No generation in use is ahead of the directory's.
Bounded ==
  /\ bind.gen <= gen
  /\ \A c \in Children : cred[c] <= gen
  /\ \A h \in Hints : h.gen <= gen

\* An unacknowledged hint of the binding's run is its outstanding wake.
Tracked ==
  \A h \in Hints :
    bind.child # None /\ h.gen = bind.gen /\ h.wake \notin done =>
      bind.wake = h.wake

\* While the session is observed without a binding of its run, no hint of
\* that run exists.
FreshRun ==
  life = "observed" /\ (bind.child = None \/ bind.gen # gen) =>
    \A h \in Hints : h.gen < gen

\* The holder of a credential of the attached run is bound to it.
CredentialIsBound ==
  \A c \in Children :
    cred[c] > 0 /\ att.child = c /\ att.gen = gen /\ cred[c] = gen =>
      bind.child = c /\ bind.gen = gen

IInv ==
  /\ TypeOK /\ ComingIsDrawn /\ Bounded /\ Tracked /\ FreshRun
  /\ CredentialIsBound /\ NoRevival /\ OutstandingIsThisRuns

-----------------------------------------------------------------------------
(* The state stays well formed.                                            *)

\* The initial state is well formed.
LEMMA TypeInit == Init => TypeOK
<1> SUFFICES ASSUME Init PROVE TypeOK
  OBVIOUS
<1>1. NoPrint \in Prints
  BY DEF NoPrint, Prints
<1>2. bind \in [child : Children \cup {None}, gen : Nat, state : States,
               wake : Wakes \cup {None}, print : Prints, ack : Prints]
  BY <1>1 DEF Init, NoBind, States
<1>3. att \in [child : Children \cup {None}, gen : Nat, live : BOOLEAN]
  BY DEF Init, NoAtt
<1>4. job \in [Children -> [wake : Wakes \cup {None}, gen : Nat]]
  BY DEF Init, NoJob
<1> QED
  BY <1>2, <1>3, <1>4 DEF Init, LifecycleInit, TypeOK, NoJob

\* Every step keeps the state well formed.
LEMMA TypeNext == IInv /\ [Next]_vars => TypeOK'
<1> SUFFICES ASSUME TypeOK, ComingIsDrawn, OutstandingIsThisRuns, [Next]_vars
             PROVE  TypeOK'
  BY DEF IInv
<1> USE DEF TypeOK
<1>1. NoPrint \in Prints /\ Snapshot(items) \in Prints
  BY DEF NoPrint, Snapshot, Prints
<1>2. NoJob \in [wake : Wakes \cup {None}, gen : Nat]
  BY DEF NoJob
<1>3. NoBind \in [child : Children \cup {None}, gen : Nat, state : States,
               wake : Wakes \cup {None}, print : Prints, ack : Prints]
  BY <1>1 DEF NoBind, States
<1>4. NoAtt \in [child : Children \cup {None}, gen : Nat, live : BOOLEAN]
  BY DEF NoAtt
<1>5. CASE Lifecycle
  BY <1>5 DEF Lifecycle, Appear, Finish, Relist, Resume, tables, child, flight, ghost
<1>6. CASE Prune
  BY <1>6, <1>3, <1>4 DEF Prune, Evict, child, flight, ghost
<1>7. ASSUME NEW c \in Children, Attach(c) PROVE TypeOK'
  <2>1. bind' \in [child : Children \cup {None}, gen : Nat, state : States,
                   wake : Wakes \cup {None}, print : Prints, ack : Prints]
    BY <1>1, <1>7 DEF Attach, Bound, States
  <2>2. att' \in [child : Children \cup {None}, gen : Nat, live : BOOLEAN]
    BY <1>7 DEF Attach
  <2>3. cred' \in [Children -> Nat] /\ hist' \subseteq used'
    BY <1>7 DEF Attach, HistoryKept, ghost
  <2> QED
    BY <1>7, <2>1, <2>2, <2>3 DEF Attach, flight, ghost
<1>8. ASSUME NEW c \in Children, AttachInterrupted(c) PROVE TypeOK'
  <2>1. att' \in [child : Children \cup {None}, gen : Nat, live : BOOLEAN]
    BY <1>8 DEF AttachInterrupted
  <2> QED
    BY <1>8, <2>1 DEF AttachInterrupted, Disconnect, ghost
<1>9. ASSUME NEW c \in Children, AttachFenced(c) PROVE TypeOK'
  BY <1>9 DEF AttachFenced, tables, flight, ghost
<1>10. ASSUME NEW c \in Children, NEW w \in Wakes, Reserve(c, w) PROVE TypeOK'
  <2>1. bind' \in [child : Children \cup {None}, gen : Nat, state : States,
                   wake : Wakes \cup {None}, print : Prints, ack : Prints]
    BY <1>1, <1>10 DEF Reserve, States
  <2>2. /\ job' \in [Children -> [wake : Wakes \cup {None}, gen : Nat]]
        /\ \A d \in Children : job'[d] = NoJob \/ job'[d].wake \in Wakes
    BY <1>10 DEF Reserve
  <2>3. sent' \subseteq [wake : used', gen : Nat]
    BY <1>10 DEF Reserve
  <2> QED
    BY <1>10, <2>1, <2>2, <2>3 DEF Reserve, flight
<1>11. ASSUME NEW c \in Children, Deliver(c) PROVE TypeOK'
  <2>1. /\ job' \in [Children -> [wake : Wakes \cup {None}, gen : Nat]]
        /\ \A d \in Children : job'[d] = NoJob \/ job'[d].wake \in Wakes
    BY <1>2, <1>11 DEF Deliver
  <2>2. Hint(c) \in [wake : used, gen : Nat]
    BY <1>11 DEF Deliver, Hint, ComingIsDrawn, Hints, Coming
  <2>3. \A r \in {"accepted", "uncertain"} :
          Report(c, r) \in [child : Children, gen : Nat, wake : Wakes,
                            result : {"accepted", "uncertain"}]
    BY <1>11 DEF Deliver, Report
  <2> QED
    BY <1>11, <2>1, <2>2, <2>3 DEF Deliver, tables
<1>12. ASSUME NEW m \in reports, HandleReport(m) PROVE TypeOK'
  BY <1>12 DEF HandleReport, States, child, ghost
<1>13. ASSUME NEW c \in Children, NEW w \in Wakes, SendAck(c, w) PROVE TypeOK'
  BY <1>13 DEF SendAck, tables, child, ghost
<1>14. ASSUME NEW m \in acks, HandleAck(m) PROVE TypeOK'
  <2>1. bind' \in [child : Children \cup {None}, gen : Nat, state : States,
                   wake : Wakes \cup {None}, print : Prints, ack : Prints]
    BY <1>1, <1>14 DEF HandleAck, States
  <2>2. done' \subseteq used
    BY <1>14, SessionWakeAssumption DEF HandleAck, AckApplies, OutstandingIsThisRuns
  <2> QED
    BY <1>14, <2>1, <2>2 DEF HandleAck, child
<1>15. ASSUME NEW c \in Children, Close(c) PROVE TypeOK'
  BY <1>15 DEF Close, flight, ghost
<1>16. ASSUME NEW c \in Children, Die(c) PROVE TypeOK'
  BY <1>2, <1>16 DEF Die, tables, flight, ghost
<1>17. CASE LeaseExpires
  BY <1>17 DEF LeaseExpires, child, flight, ghost
<1>18. CASE Crash
  BY <1>18 DEF Crash, Disconnect, tables, ghost
<1>19. CASE Restart
  BY <1>19 DEF Restart, Recovered, States, child, flight, ghost
<1>20. ASSUME NEW i \in Items, Arrive(i) \/ Consume(i) PROVE TypeOK'
  BY <1>20 DEF Arrive, Consume, tables, child, flight, ghost
<1>21. CASE Rest
  BY <1>21 DEF Rest, child, flight, ghost
<1>22. CASE UNCHANGED vars
  BY <1>22 DEF vars
<1> QED
  BY <1>5, <1>6, <1>7, <1>8, <1>9, <1>10, <1>11, <1>12, <1>13, <1>14, <1>15,
     <1>16, <1>17, <1>18, <1>19, <1>20, <1>21, <1>22 DEF Next, ChildStep

-----------------------------------------------------------------------------
(* The rest of the invariant.                                              *)

\* What has to be shown of a step besides the types.
Rules ==
  /\ ComingIsDrawn /\ Bounded /\ Tracked /\ FreshRun
  /\ CredentialIsBound /\ NoRevival /\ OutstandingIsThisRuns

\* Every step keeps the invariant.
LEMMA InvNext == IInv /\ [Next]_vars => IInv'
<1> SUFFICES ASSUME IInv, [Next]_vars PROVE Rules'
  BY TypeNext DEF IInv, Rules
<1> USE SessionWakeAssumption
<1>1. TypeOK /\ TypeOK'
  BY TypeNext DEF IInv
<1>2. /\ ComingIsDrawn /\ Bounded /\ Tracked /\ FreshRun
      /\ CredentialIsBound /\ NoRevival /\ OutstandingIsThisRuns
  BY DEF IInv
<1>3. \A h \in Hints : h.gen \in Nat /\ h.gen <= gen
  BY <1>1, <1>2 DEF Bounded, TypeOK, Hints, Coming
<1>4. ASSUME job' = job, sent' = sent PROVE Hints' = Hints
  BY <1>4 DEF Hints, Coming
<1>5. CASE Lifecycle
  <2>1. Hints' = Hints
    BY <1>5, <1>4 DEF Lifecycle, child, ghost
  <2>2. UNCHANGED <<att, bind, hist, cred, done, used>>
    BY <1>5 DEF Lifecycle, tables, child, ghost
  <2>3. (gen' = gen /\ life' # "observed") \/ gen' = gen + 1
    BY <1>5 DEF Lifecycle, Appear, Finish, Relist, Resume
  <2>4. Bounded' /\ CredentialIsBound'
    BY <1>1, <1>2, <1>3, <2>1, <2>2, <2>3
    DEF Bounded, CredentialIsBound, TypeOK
  <2>5. FreshRun'
    <3>1. CASE life' # "observed"
      BY <3>1 DEF FreshRun
    <3>2. CASE gen' = gen + 1
      BY <1>1, <1>3, <2>1, <3>2 DEF FreshRun, TypeOK
    <3> QED
      BY <2>3, <3>1, <3>2
  <2> QED
    BY <1>2, <2>1, <2>2, <2>4, <2>5
    DEF Rules, ComingIsDrawn, Tracked, NoRevival, OutstandingIsThisRuns
<1>6. CASE Prune
  <2>1. Hints' = Hints
    BY <1>6, <1>4 DEF Prune, child, ghost
  <2> QED
    BY <1>1, <1>2, <1>6, <2>1
    DEF Prune, Evict, NoAtt, NoBind, tables, child, flight, ghost, Rules,
        ComingIsDrawn, Bounded, Tracked, FreshRun, CredentialIsBound,
        NoRevival, OutstandingIsThisRuns, TypeOK
<1>7. ASSUME NEW c \in Children, Attach(c) PROVE Rules'
  <2>1. Hints' = Hints
    BY <1>7, <1>4 DEF Attach, child, ghost
  <2> QED
    BY <1>1, <1>2, <1>7, <2>1
    DEF Attach, MayAttach, Bound, HistoryKept, tables, child, flight, ghost,
        Rules, ComingIsDrawn, Bounded, Tracked, FreshRun, CredentialIsBound,
        NoRevival, OutstandingIsThisRuns, TypeOK
<1>8. ASSUME NEW c \in Children, AttachInterrupted(c) PROVE Rules'
  <2>1. Hints' = Hints
    BY <1>8, <1>4 DEF AttachInterrupted, child, ghost
  <2> QED
    BY <1>1, <1>2, <1>8, <2>1
    DEF AttachInterrupted, Disconnect, tables, child, flight, ghost, Rules,
        ComingIsDrawn, Bounded, Tracked, FreshRun, CredentialIsBound,
        NoRevival, OutstandingIsThisRuns, TypeOK
<1>9. ASSUME NEW c \in Children, AttachFenced(c) PROVE Rules'
  <2>1. Hints' = Hints
    BY <1>9, <1>4 DEF AttachFenced, child, ghost
  <2> QED
    BY <1>1, <1>2, <1>9, <2>1
    DEF AttachFenced, tables, child, flight, ghost, Rules, ComingIsDrawn,
        Bounded, Tracked, FreshRun, CredentialIsBound, NoRevival,
        OutstandingIsThisRuns, TypeOK
<1>10. ASSUME NEW c \in Children, NEW w \in Wakes, Reserve(c, w) PROVE Rules'
  <2>1. \A h \in Hints' : h \in Hints \/ (h.wake = w /\ h.gen = gen)
    BY <1>1, <1>10 DEF Reserve, Hints, Coming, TypeOK, NoJob
  <2>2. /\ bind'.child = bind.child /\ bind'.gen = bind.gen
        /\ bind'.wake = w /\ bind'.state = "submitting"
    BY <1>1, <1>10 DEF Reserve, TypeOK
  <2>3. bind.gen = gen /\ bind.child = c
    BY <1>10 DEF Reserve, Validates, Fenced
  <2>4. \A h \in Hints : h.gen = bind.gen => h.wake \in done
    BY <1>1, <1>2, <1>10, <2>3
    DEF Reserve, Tracked, NoRevival, ComingIsDrawn, TypeOK
  <2> QED
    BY <1>1, <1>2, <1>10, <2>1, <2>2, <2>3, <2>4
    DEF Reserve, tables, child, flight, ghost, Rules, ComingIsDrawn, Bounded,
        Tracked, FreshRun, CredentialIsBound, NoRevival,
        OutstandingIsThisRuns, TypeOK
<1>11. ASSUME NEW c \in Children, Deliver(c) PROVE Rules'
  <2>1. Hint(c) = job[c]
    BY <1>1 DEF Hint, TypeOK
  <2>2. Hints' \subseteq Hints
    BY <1>1, <1>11, <2>1 DEF Hints, Coming, TypeOK, Deliver
  <2> QED
    BY <1>1, <1>2, <1>11, <2>2
    DEF Deliver, tables, child, flight, ghost, Rules, ComingIsDrawn, Bounded,
        Tracked, FreshRun, CredentialIsBound, NoRevival,
        OutstandingIsThisRuns, TypeOK
<1>12. ASSUME NEW m \in reports, HandleReport(m) PROVE Rules'
  <2>1. Hints' = Hints
    BY <1>12, <1>4 DEF HandleReport, child, ghost
  <2>2. bind'.child = bind.child /\ bind'.gen = bind.gen /\ bind'.wake = bind.wake
    BY <1>1, <1>12 DEF HandleReport, TypeOK
  <2>3. NoRevival'
    BY <1>1, <1>2, <1>12
    DEF HandleReport, ReportApplies, NoRevival, TypeOK, ghost
  <2> QED
    BY <1>1, <1>2, <1>12, <2>1, <2>2, <2>3
    DEF HandleReport, tables, child, flight, ghost, Rules, ComingIsDrawn,
        Bounded, Tracked, FreshRun, CredentialIsBound, OutstandingIsThisRuns,
        TypeOK
<1>13. ASSUME NEW c \in Children, NEW w \in Wakes, SendAck(c, w) PROVE Rules'
  <2>1. Hints' = Hints
    BY <1>13, <1>4 DEF SendAck, child, ghost
  <2> QED
    BY <1>1, <1>2, <1>13, <2>1
    DEF SendAck, tables, child, flight, ghost, Rules, ComingIsDrawn, Bounded,
        Tracked, FreshRun, CredentialIsBound, NoRevival,
        OutstandingIsThisRuns, TypeOK
<1>14. ASSUME NEW m \in acks, HandleAck(m) PROVE Rules'
  <2>1. Hints' = Hints
    BY <1>14, <1>4 DEF HandleAck, child
  <2> QED
    BY <1>1, <1>2, <1>14, <2>1
    DEF HandleAck, AckApplies, tables, child, flight, ghost, Rules,
        ComingIsDrawn, Bounded, Tracked, FreshRun, CredentialIsBound,
        NoRevival, OutstandingIsThisRuns, TypeOK
<1>15. ASSUME NEW c \in Children, Close(c) PROVE Rules'
  <2>1. Hints' = Hints
    BY <1>15, <1>4 DEF Close, ghost
  <2> QED
    BY <1>1, <1>2, <1>15, <2>1
    DEF Close, tables, child, flight, ghost, Rules, ComingIsDrawn, Bounded,
        Tracked, FreshRun, CredentialIsBound, NoRevival,
        OutstandingIsThisRuns, TypeOK
<1>16. ASSUME NEW c \in Children, Die(c) PROVE Rules'
  <2>1. Hints' \subseteq Hints
    BY <1>1, <1>16 DEF Die, ghost, Hints, Coming, TypeOK
  <2> QED
    BY <1>1, <1>2, <1>16, <2>1
    DEF Die, tables, child, flight, ghost, Rules, ComingIsDrawn, Bounded,
        Tracked, FreshRun, CredentialIsBound, NoRevival,
        OutstandingIsThisRuns, TypeOK
<1>17. CASE \/ LeaseExpires \/ Crash \/ Rest
            \/ \E i \in Items : Arrive(i) \/ Consume(i)
            \/ UNCHANGED vars
  <2>1. Hints' = Hints
    BY <1>17, <1>4
    DEF LeaseExpires, Crash, Rest, Arrive, Consume, vars, child, ghost
  <2> QED
    BY <1>1, <1>2, <1>17, <2>1
    DEF LeaseExpires, Crash, Disconnect, Rest, Arrive, Consume, vars, tables,
        child, flight, ghost, Rules, ComingIsDrawn, Bounded, Tracked,
        FreshRun, CredentialIsBound, NoRevival, OutstandingIsThisRuns, TypeOK
<1>19. CASE Restart
  <2>1. Hints' = Hints
    BY <1>19, <1>4 DEF Restart, child, ghost
  <2>2. /\ bind'.child = bind.child /\ bind'.gen = bind.gen
        /\ bind'.wake = bind.wake
        /\ (bind'.state = "idle") <=> (bind.state = "idle")
    BY <1>1, <1>19 DEF Restart, Recovered, TypeOK
  <2> QED
    BY <1>1, <1>2, <1>19, <2>1, <2>2
    DEF Restart, tables, child, flight, ghost, Rules, ComingIsDrawn, Bounded,
        Tracked, FreshRun, CredentialIsBound, NoRevival,
        OutstandingIsThisRuns, TypeOK
<1> QED
  BY <1>5, <1>6, <1>7, <1>8, <1>9, <1>10, <1>11, <1>12, <1>13, <1>14, <1>15,
     <1>16, <1>17, <1>19 DEF Next, ChildStep

\* The initial state satisfies the invariant.
LEMMA InvInit == Init => IInv
<1> SUFFICES ASSUME Init PROVE IInv
  OBVIOUS
<1>1. Hints = {}
  BY DEF Init, Hints, Coming
<1> QED
  BY <1>1, TypeInit, SessionWakeAssumption
  DEF Init, LifecycleInit, IInv, ComingIsDrawn, Bounded, Tracked, FreshRun,
      CredentialIsBound, NoRevival, OutstandingIsThisRuns, NoAtt, NoBind

\* The inductive invariant: hints, and reservations that may still become
\* hints, are tracked by the binding of their run.
THEOREM SessionInvariant == Spec => []IInv
<1>1. Init => IInv
  BY InvInit
<1>2. IInv /\ [Next]_vars => IInv'
  BY InvNext
<1> QED
  BY <1>1, <1>2, PTL DEF Spec

\* However often the child beside a chat is replaced, whatever reports and
\* acknowledgements are late or lost and wherever the supervisor dies, at most
\* one unacknowledged hint of a run is before the chat, it is the wake its
\* binding holds outstanding, and the child whose requests the supervisor
\* accepts is the one the binding knows.
THEOREM HintsFollowTheRun == Spec => []HintFollowsRun
<1>1. IInv => HintFollowsRun
  <2> SUFFICES ASSUME IInv PROVE HintFollowsRun
    OBVIOUS
  <2>1. OneHintPerRun
    BY DEF IInv, Tracked, Hints, OneHintPerRun
  <2>2. CustodianIsBound
    BY DEF IInv, CredentialIsBound, CustodianIsBound, Validates
  <2> QED
    BY <2>1, <2>2 DEF IInv, HintFollowsRun
<1> QED
  BY <1>1, SessionInvariant, PTL

-----------------------------------------------------------------------------
\* A set of numbers has a smallest one.
LEMMA SmallestExists ==
  ASSUME NEW A, A \subseteq Nat, A # {} PROVE \E x \in A : \A y \in A : x =< y
<1>1. \E x \in A : \A y \in A : ~ (<<y, x>> \in OpToRel(<, Nat))
  BY NatLessThanWellFounded, WFMin
<1>2. PICK x \in A : \A y \in A : ~ (<<y, x>> \in OpToRel(<, Nat))
  BY <1>1
<1>3. ASSUME NEW y \in A PROVE x =< y
  <2>1. x \in Nat /\ y \in Nat
    OBVIOUS
  <2>2. ~ (y < x)
    BY <1>2, <2>1 DEF OpToRel
  <2> QED BY <2>1, <2>2
<1> QED BY <1>3

\* A bounded set of numbers has a largest one.
LEMMA LargestExists ==
  ASSUME NEW A, A \subseteq Nat, A # {}, NEW n \in Nat, \A x \in A : x =< n
  PROVE  \E x \in A : \A y \in A : y =< x
<1> DEFINE B == {n - x : x \in A}
<1>1. B \subseteq Nat /\ B # {}
  <2>1. PICK x \in A : TRUE
    OBVIOUS
  <2>2. n - x \in B
    OBVIOUS
  <2>3. \A y \in A : n - y \in Nat
    OBVIOUS
  <2> QED BY <2>2, <2>3
<1> HIDE DEF B
<1>2. PICK b \in B : \A y \in B : b =< y
  BY <1>1, SmallestExists
<1>3. PICK x \in A : b = n - x
  BY <1>2 DEF B
<1>4. ASSUME NEW y \in A PROVE y =< x
  <2>1. n - y \in B
    BY DEF B
  <2>2. n - x =< n - y /\ x \in Nat /\ y \in Nat
    BY <1>2, <1>3, <2>1
  <2> QED BY <2>2
<1> QED BY <1>4

\* What is above cursor c for profile p in the stream s.
TipOf(s) == IF s = << >> THEN 0 ELSE FirstMark + Len(s) - 1
NewsOf(p, c, s) == {k \in (c + 1)..TipOf(s) : k >= FirstMark /\ s[k + 1 - FirstMark] = p}

\* The state of a profile in the scheduler, from its parts.
Profile(at, dirty, high, last, upTo) ==
  [pc |-> at, dirty |-> dirty, high |-> high, last |-> last, seen |-> upTo]

ProfileFields(s) == s = Profile(s.pc, s.dirty, s.high, s.last, s.seen)

\* A turn that lists the mailbox is for a watermark above the last one
\* reconciled, and no watermark heard of is above the cursor c.
ProfileOK(s, c) ==
  /\ ProfileFields(s)
  /\ s.pc \in {"idle", "due", "gate", "list", "empty", "run"}
  /\ s.high \in Nat /\ s.last \in Nat /\ s.seen \in Nat
  /\ s.high =< c \/ s.high =< 1
  /\ s.last =< s.high /\ s.seen =< s.high
  /\ s.pc \in {"list", "empty", "run"} => s.seen > s.last

\* The profile will look into its mailbox again before it rests.
WillLook(s) ==
  \/ s.pc = "due" /\ s.high > s.last
  \/ s.pc = "gate" /\ (s.seen > s.last \/ (s.dirty /\ s.high > s.last))
  \/ s.pc \in {"list", "run"}
  \/ s.pc = "empty" /\ s.dirty /\ s.high > s.seen

\* The batch that waits for the timer: its marks are above the cursor, and it
\* has the last event of every profile up to its highest mark.
BatchOK(P, c, s) ==
  /\ \A p \in Profiles : P[p] > 0 => P[p] > c /\ P[p] =< TipOf(s) /\ P[p] >= FirstMark
  /\ \E p \in Profiles : P[p] > 0
  /\ \A p, q \in Profiles : \A k \in NewsOf(p, c, s) : k =< P[q] => k =< P[p]

ListenerOK ==
  /\ stream \in Seq(Profiles \cup {Foreign}) /\ cursor \in Nat /\ cursor =< TipOf(stream)
  /\ pending \in [Profiles -> Nat]
  /\ listener # "coalesce" => \A p \in Profiles : pending[p] = 0
  /\ listener = "coalesce" => BatchOK(pending, cursor, stream)
  /\ listener = "failed" => stopped

SchedulerOK ==
  ~stopped =>
    /\ sched = [p \in Profiles |-> sched[p]]
    /\ \A p \in Profiles : ProfileOK(sched[p], cursor)
    /\ listener = "start" => \A p \in Profiles : sched[p] = Event!Resting
    /\ \A p \in Profiles : mail[p] > 0 =>
         listener = "start" \/ NewsOf(p, cursor, stream) # {} \/ WillLook(sched[p])

EventInv == mail \in [Profiles -> Nat] /\ ListenerOK /\ SchedulerOK

\* The news of a profile, with its state spelled out.
LEMMA NewsIs == \A p \in Profiles : Event!News(p) = NewsOf(p, cursor, stream)
  BY DEF Event!News, NewsOf, Event!Tip, TipOf

\* The newest watermark, with its state spelled out.
LEMMA TipIs == Event!Tip = TipOf(stream)
  BY DEF Event!Tip, TipOf

\* Watermarks are numbers, and an event's is at least the first one.
LEMMA TipNat ==
  ASSUME NEW s \in Seq(Profiles \cup {Foreign})
  PROVE  TipOf(s) \in Nat /\ (s # << >> => TipOf(s) >= FirstMark) /\ FirstMark \in Nat /\ FirstMark > 1
<1>1. FirstMark \in Nat /\ FirstMark > 1 /\ Len(s) \in Nat
  BY EventConstants DEF Event!EventAssumption
<1>2. s # << >> => Len(s) > 0
  BY <1>1, EmptySeq
<1> QED BY <1>1, <1>2 DEF TipOf

\* Highest takes the largest member of a set that is not empty.
LEMMA HighestIs ==
  ASSUME NEW A, A \subseteq Nat, A # {}, NEW n \in Nat, \A x \in A : x =< n
  PROVE  Event!Highest(A) \in A /\ \A x \in A : x =< Event!Highest(A)
<1>1. \E x \in A : \A y \in A : y =< x
  BY LargestExists
<1>2. Event!Highest(A) = CHOOSE x \in A : \A y \in A : y =< x
  BY DEF Event!Highest
<1> QED BY <1>1, <1>2

-----------------------------------------------------------------------------
\* A profile's state gives back the parts it was made of.
LEMMA ProfileIs ==
  ASSUME NEW at, NEW dirty, NEW high, NEW last, NEW upTo
  PROVE  LET s == Profile(at, dirty, high, last, upTo)
         IN  ProfileFields(s) /\ s.pc = at /\ s.dirty = dirty /\ s.high = high /\ s.last = last /\ s.seen = upTo
  BY DEF Profile, ProfileFields

\* A wake, field by field.
LEMMA WokenIs ==
  ASSUME NEW s, ProfileFields(s), NEW mark
  PROVE  LET t == Event!Woken(s, mark)
         IN  /\ ProfileFields(t) /\ t.pc = (IF s.pc = "idle" THEN "due" ELSE s.pc)
             /\ t.dirty = (s.dirty \/ s.pc # "idle") /\ t.high = Event!Bigger(s.high, mark)
             /\ t.last = s.last /\ t.seen = s.seen
<1> DEFINE t == Event!Woken(s, mark)
           big == Event!Bigger(s.high, mark)
           at == IF s.pc = "idle" THEN "due" ELSE s.pc
<1>1. PICK b : b = (s.dirty \/ s.pc # "idle")
  OBVIOUS
<1> DEFINE u == [s EXCEPT !.high = big]
           v == [u EXCEPT !.dirty = b]
<1>2. t = [v EXCEPT !.pc = at]
  BY <1>1, Zenon DEF Event!Woken
<1> HIDE DEF big, at, t
<1>3. u = Profile(s.pc, s.dirty, big, s.last, s.seen)
  BY DEF ProfileFields, Profile
<1> HIDE DEF u
<1>4. v = Profile(s.pc, b, big, s.last, s.seen)
  BY <1>3 DEF Profile
<1> HIDE DEF v
<1>5. t = Profile(at, b, big, s.last, s.seen)
  BY <1>2, <1>4 DEF Profile
<1>6. /\ ProfileFields(t) /\ t.pc = at /\ t.dirty = b /\ t.high = big /\ t.last = s.last /\ t.seen = s.seen
  BY <1>5, ProfileIs
<1>7. t.dirty = (s.dirty \/ s.pc # "idle")
  BY <1>1, <1>6, Zenon
<1> QED BY <1>6, <1>7 DEF t, big, at

\* A watermark above all that was heard of makes the profile look again.
LEMMA WokenOK ==
  ASSUME NEW s, NEW c \in Nat, ProfileOK(s, c), NEW mark \in Nat, mark > c, mark > 1, NEW c2 \in Nat, mark =< c2
  PROVE  ProfileOK(Event!Woken(s, mark), c2) /\ WillLook(Event!Woken(s, mark))
<1> DEFINE t == Event!Woken(s, mark)
<1>1. /\ ProfileFields(t) /\ t.pc = (IF s.pc = "idle" THEN "due" ELSE s.pc)
      /\ t.dirty = (s.dirty \/ s.pc # "idle") /\ t.high = Event!Bigger(s.high, mark)
      /\ t.last = s.last /\ t.seen = s.seen
  BY WokenIs DEF ProfileOK
<1>2. t.high = mark /\ mark > s.high
  BY <1>1 DEF ProfileOK, Event!Bigger
<1>3. s.pc # "idle" => t.dirty
  BY <1>1
<1> HIDE DEF t
<1>4. ProfileOK(t, c2)
  BY <1>1, <1>2 DEF ProfileOK
<1>5. WillLook(t)
  BY <1>1, <1>2, <1>3 DEF ProfileOK, WillLook
<1> QED BY <1>4, <1>5 DEF t

\* What is well formed under a cursor is so under a later one.
LEMMA ProfileLater ==
  ASSUME NEW s, NEW c \in Nat, ProfileOK(s, c), NEW c2 \in Nat, c =< c2 PROVE ProfileOK(s, c2)
  BY DEF ProfileOK

\* The end of a turn: a dirty profile goes round again.
LEMMA EndedIs ==
  ASSUME NEW s, ProfileFields(s), ~stopped
  PROVE  LET t == Event!Ended(s)
         IN  /\ ProfileFields(t) /\ t.pc = (IF s.dirty THEN "due" ELSE "idle")
             /\ t.high = s.high /\ t.last = s.last /\ t.seen = s.seen
<1> DEFINE t == Event!Ended(s)
           at == IF s.dirty THEN "due" ELSE "idle"
<1>1. PICK no : no = FALSE
  OBVIOUS
<1> DEFINE u == [s EXCEPT !.dirty = no]
<1>2. t = [u EXCEPT !.pc = at]
  <2>1. (IF stopped THEN s.dirty ELSE FALSE) = no /\ (IF s.dirty /\ ~stopped THEN "due" ELSE "idle") = at
    BY <1>1, Zenon
  <2> QED BY <2>1, Zenon DEF Event!Ended
<1> HIDE DEF at, t
<1>3. u = Profile(s.pc, no, s.high, s.last, s.seen)
  BY DEF ProfileFields, Profile
<1> HIDE DEF u
<1>4. t = Profile(at, no, s.high, s.last, s.seen)
  BY <1>2, <1>3 DEF Profile
<1>5. ProfileFields(t) /\ t.pc = at /\ t.high = s.high /\ t.last = s.last /\ t.seen = s.seen
  BY <1>4, ProfileIs
<1> QED BY <1>5 DEF at, t

\* The end of a turn keeps the profile well formed, and a dirty one with a
\* newer watermark looks again.
LEMMA EndedOK ==
  ASSUME NEW s, NEW c, ~stopped, ProfileFields(s), s.high \in Nat, s.last \in Nat, s.seen \in Nat,
         s.high =< c \/ s.high =< 1, s.last =< s.high, s.seen =< s.high
  PROVE  ProfileOK(Event!Ended(s), c) /\ (s.dirty /\ s.high > s.last => WillLook(Event!Ended(s)))
<1> DEFINE t == Event!Ended(s)
<1>1. /\ ProfileFields(t) /\ t.pc = (IF s.dirty THEN "due" ELSE "idle")
      /\ t.high = s.high /\ t.last = s.last /\ t.seen = s.seen
  BY EndedIs
<1> HIDE DEF t
<1>2. ProfileOK(t, c)
  BY <1>1 DEF ProfileOK
<1>3. s.dirty /\ s.high > s.last => WillLook(t)
  BY <1>1 DEF WillLook
<1> QED BY <1>2, <1>3 DEF t

\* A step of one profile's turn.
LEMMA TurnSteps ==
  ASSUME EventInv, ~stopped, NEW p \in Profiles, NEW s, sched' = [sched EXCEPT ![p] = s], ProfileOK(s, cursor),
         listener # "start", NEW n \in Nat, mail' = [mail EXCEPT ![p] = n],
         n > 0 => NewsOf(p, cursor, stream) # {} \/ WillLook(s),
         UNCHANGED <<stream, cursor, listener, pending, stopped>>
  PROVE  EventInv'
<1>1. /\ sched' = [q \in Profiles |-> sched'[q]] /\ sched'[p] = s /\ \A q \in Profiles \ {p} : sched'[q] = sched[q]
  BY DEF EventInv, SchedulerOK
<1>2. mail' \in [Profiles -> Nat] /\ mail'[p] = n /\ \A q \in Profiles \ {p} : mail'[q] = mail[q]
  BY DEF EventInv
<1>3. ListenerOK'
  BY DEF EventInv, ListenerOK
<1>4. \A q \in Profiles : ProfileOK(sched'[q], cursor)
  BY <1>1 DEF EventInv, SchedulerOK
<1>5. \A q \in Profiles : mail'[q] > 0 => NewsOf(q, cursor, stream) # {} \/ WillLook(sched'[q])
  BY <1>1, <1>2 DEF EventInv, SchedulerOK
<1> QED BY <1>1, <1>2, <1>3, <1>4, <1>5 DEF EventInv, SchedulerOK

\* Once the scheduler's signal is aborted nothing is claimed of it.
LEMMA StoppedOK ==
  ASSUME EventInv, stopped', mail' \in [Profiles -> Nat], UNCHANGED <<stream, cursor, listener, pending>>
  PROVE  EventInv'
  BY DEF EventInv, ListenerOK, SchedulerOK

\* A profile is busy only after the listener has reconciled at its start.
LEMMA AwakeIsStarted ==
  ASSUME EventInv, ~stopped, NEW p \in Profiles, sched[p].pc # "idle"
  PROVE  ProfileOK(sched[p], cursor) /\ listener # "start" /\ cursor \in Nat /\ mail[p] \in Nat
         /\ (mail[p] > 0 => NewsOf(p, cursor, stream) # {} \/ WillLook(sched[p]))
         /\ mail = [mail EXCEPT ![p] = mail[p]]
<1>1. Event!Resting.pc = "idle"
  BY DEF Event!Resting
<1> QED BY <1>1 DEF EventInv, SchedulerOK, ListenerOK

\* A turn that begins keeps the invariant.
LEMMA BeginOK ==
  ASSUME EventInv, NEW p \in Profiles, Event!Begin(p) PROVE EventInv'
<1> DEFINE r == sched[p]
           s == [[r EXCEPT !.seen = r.high] EXCEPT !.pc = "gate"]
<1>0. r.pc = "due" /\ UNCHANGED <<mail, stream, cursor, listener, pending, stopped>>
  BY DEF Event!Begin
<1>1. CASE stopped
  BY <1>0, <1>1, StoppedOK DEF EventInv
<1>2. CASE ~stopped
  <2>1. /\ ProfileOK(r, cursor) /\ listener # "start" /\ cursor \in Nat /\ mail[p] \in Nat
        /\ (mail[p] > 0 => NewsOf(p, cursor, stream) # {} \/ WillLook(r))
        /\ mail = [mail EXCEPT ![p] = mail[p]]
    BY <1>0, <1>2, AwakeIsStarted
  <2>2. sched' = [sched EXCEPT ![p] = s]
    BY <1>2 DEF Event!Begin
  <2> HIDE DEF r
  <2>3. s = Profile("gate", r.dirty, r.high, r.last, r.high)
    <3> DEFINE u == [r EXCEPT !.seen = r.high]
    <3>1. u = Profile(r.pc, r.dirty, r.high, r.last, r.high)
      BY <2>1 DEF ProfileOK, ProfileFields, Profile
    <3>2. s = [u EXCEPT !.pc = "gate"]
      OBVIOUS
    <3> HIDE DEF u, s
    <3> QED BY <3>1, <3>2 DEF Profile
  <2> HIDE DEF s
  <2>4. ProfileFields(s) /\ s.pc = "gate" /\ s.dirty = r.dirty /\ s.high = r.high /\ s.last = r.last /\ s.seen = r.high
    BY <2>3, ProfileIs
  <2>5. ProfileOK(s, cursor)
    BY <2>1, <2>4 DEF ProfileOK
  <2>6. mail[p] > 0 => NewsOf(p, cursor, stream) # {} \/ WillLook(s)
    BY <1>0, <2>1, <2>4 DEF WillLook, r
  <2> QED BY <1>0, <1>2, <2>1, <2>2, <2>5, <2>6, TurnSteps
<1> QED BY <1>1, <1>2

\* A turn that gets its place keeps the invariant.
LEMMA EnterOK ==
  ASSUME EventInv, NEW p \in Profiles, Event!Enter(p) PROVE EventInv'
<1> DEFINE r == sched[p]
           s == [r EXCEPT !.pc = "list"]
<1>0. r.pc = "gate" /\ UNCHANGED <<mail, stream, cursor, listener, pending, stopped>>
  BY DEF Event!Enter
<1>1. CASE stopped
  BY <1>0, <1>1, StoppedOK DEF EventInv
<1>2. CASE ~stopped
  <2>1. /\ ProfileOK(r, cursor) /\ listener # "start" /\ cursor \in Nat /\ mail[p] \in Nat
        /\ (mail[p] > 0 => NewsOf(p, cursor, stream) # {} \/ WillLook(r))
        /\ mail = [mail EXCEPT ![p] = mail[p]]
    BY <1>0, <1>2, AwakeIsStarted
  <2>2. sched' = [sched EXCEPT ![p] = IF r.seen =< r.last THEN Event!Ended(r) ELSE s]
    BY <1>2 DEF Event!Enter
  <2>3. CASE r.seen =< r.last
    <3>1. ProfileOK(Event!Ended(r), cursor) /\ (r.dirty /\ r.high > r.last => WillLook(Event!Ended(r)))
      BY <1>2, <2>1, EndedOK DEF ProfileOK
    <3>2. WillLook(r) => r.dirty /\ r.high > r.last
      BY <1>0, <2>1, <2>3 DEF WillLook, ProfileOK
    <3>3. sched' = [sched EXCEPT ![p] = Event!Ended(r)]
      BY <2>2, <2>3
    <3> HIDE DEF r
    <3> QED BY <1>0, <1>2, <2>1, <3>1, <3>2, <3>3, TurnSteps
  <2>4. CASE ~(r.seen =< r.last)
    <3>1. sched' = [sched EXCEPT ![p] = s]
      BY <2>2, <2>4
    <3> HIDE DEF r
    <3>2. s = Profile("list", r.dirty, r.high, r.last, r.seen)
      BY <2>1 DEF ProfileOK, ProfileFields, Profile
    <3> HIDE DEF s
    <3>3. ProfileFields(s) /\ s.pc = "list" /\ s.high = r.high /\ s.last = r.last /\ s.seen = r.seen
      BY <3>2, ProfileIs
    <3>4. ProfileOK(s, cursor) /\ WillLook(s)
      BY <2>1, <2>4, <3>3 DEF ProfileOK, WillLook
    <3> QED BY <1>0, <1>2, <2>1, <3>1, <3>4, TurnSteps
  <2> QED BY <2>3, <2>4
<1> QED BY <1>1, <1>2

\* A look into the mailbox keeps the invariant.
LEMMA PreflightOK ==
  ASSUME EventInv, NEW p \in Profiles, Event!Preflight(p) PROVE EventInv'
<1> DEFINE r == sched[p]
           at == IF mail[p] = 0 THEN "empty" ELSE "run"
           s == [r EXCEPT !.pc = at]
<1>0. r.pc = "list" /\ ~stopped /\ UNCHANGED <<mail, stream, cursor, listener, pending, stopped>>
  BY DEF Event!Preflight
<1>1. /\ ProfileOK(r, cursor) /\ listener # "start" /\ cursor \in Nat /\ mail[p] \in Nat
      /\ mail = [mail EXCEPT ![p] = mail[p]]
  BY <1>0, AwakeIsStarted
<1>2. sched' = [sched EXCEPT ![p] = s]
  BY <1>0 DEF Event!Preflight, EventInv, SchedulerOK
<1> HIDE DEF r
<1>3. s = Profile(at, r.dirty, r.high, r.last, r.seen)
  BY <1>1 DEF ProfileOK, ProfileFields, Profile
<1> HIDE DEF s
<1>4. ProfileFields(s) /\ s.pc = at /\ s.high = r.high /\ s.last = r.last /\ s.seen = r.seen
  BY <1>3, ProfileIs
<1>5. r.seen > r.last
  BY <1>0, <1>1 DEF ProfileOK, r
<1>6. ProfileOK(s, cursor)
  BY <1>1, <1>4, <1>5 DEF ProfileOK
<1>7. mail[p] > 0 => WillLook(s)
  BY <1>1, <1>4 DEF WillLook
<1> QED BY <1>0, <1>1, <1>2, <1>6, <1>7, TurnSteps

\* Reconciled, field by field.
LEMMA ReconciledIs ==
  ASSUME NEW s, ProfileFields(s)
  PROVE  LET t == Event!Reconciled(s)
         IN  /\ ProfileFields(t) /\ t.pc = s.pc /\ t.dirty = s.dirty /\ t.high = s.high
             /\ t.last = s.seen /\ t.seen = s.seen
<1> DEFINE t == Event!Reconciled(s)
<1>1. t = Profile(s.pc, s.dirty, s.high, s.seen, s.seen)
  BY DEF Event!Reconciled, ProfileFields, Profile
<1> HIDE DEF t
<1> QED BY <1>1, ProfileIs DEF t

\* A turn that found nothing keeps the invariant: an event that came
\* meanwhile is news, or has left the profile dirty.
LEMMA NothingOK ==
  ASSUME EventInv, NEW p \in Profiles, Event!Nothing(p) PROVE EventInv'
<1> DEFINE r == sched[p]
           s == Event!Reconciled(r)
<1>0. /\ r.pc = "empty" /\ UNCHANGED <<mail, stream, cursor, listener, pending, stopped>>
      /\ sched' = [sched EXCEPT ![p] = Event!Ended(s)]
  BY DEF Event!Nothing
<1>1. CASE stopped
  BY <1>0, <1>1, StoppedOK DEF EventInv
<1>2. CASE ~stopped
  <2>1. /\ ProfileOK(r, cursor) /\ listener # "start" /\ cursor \in Nat /\ mail[p] \in Nat
        /\ (mail[p] > 0 => NewsOf(p, cursor, stream) # {} \/ WillLook(r))
        /\ mail = [mail EXCEPT ![p] = mail[p]]
    BY <1>0, <1>2, AwakeIsStarted
  <2>2. /\ ProfileFields(s) /\ s.dirty = r.dirty /\ s.high = r.high /\ s.last = r.seen /\ s.seen = r.seen
    BY <2>1, ReconciledIs DEF ProfileOK
  <2> HIDE DEF s
  <2>3. ProfileOK(Event!Ended(s), cursor) /\ (s.dirty /\ s.high > s.last => WillLook(Event!Ended(s)))
    BY <1>2, <2>1, <2>2, EndedOK DEF ProfileOK
  <2>4. WillLook(r) => s.dirty /\ s.high > s.last
    BY <1>0, <2>2 DEF WillLook
  <2> QED BY <1>0, <1>2, <2>1, <2>3, <2>4, TurnSteps
<1> QED BY <1>1, <1>2

\* A profile marked dirty.
LEMMA DirtyIs ==
  ASSUME NEW s, ProfileFields(s), NEW b
  PROVE  LET t == [s EXCEPT !.dirty = b]
         IN  ProfileFields(t) /\ t.dirty = b /\ t.high = s.high /\ t.last = s.last /\ t.seen = s.seen
<1> DEFINE t == [s EXCEPT !.dirty = b]
<1>1. t = Profile(s.pc, b, s.high, s.last, s.seen)
  BY DEF ProfileFields, Profile
<1> HIDE DEF t
<1> QED BY <1>1, ProfileIs DEF t

\* A turn that did not find the mailbox empty goes round again.
LEMMA GoesRound ==
  ASSUME EventInv, ~stopped, NEW p \in Profiles, sched[p].pc \in {"list", "run"}, NEW b, b = TRUE,
         sched' = [sched EXCEPT ![p] = Event!Ended([sched[p] EXCEPT !.dirty = b])],
         NEW n \in Nat, mail' = [mail EXCEPT ![p] = n], UNCHANGED <<stream, cursor, listener, pending, stopped>>
  PROVE  EventInv'
<1> DEFINE r == sched[p]
           s == [r EXCEPT !.dirty = b]
<1>1. ProfileOK(r, cursor) /\ listener # "start"
  BY AwakeIsStarted
<1>2. ProfileFields(s) /\ s.dirty = b /\ s.high = r.high /\ s.last = r.last /\ s.seen = r.seen
  BY <1>1, DirtyIs DEF ProfileOK
<1> HIDE DEF s
<1>3. s.dirty
  BY <1>2, Zenon
<1>4. ProfileOK(Event!Ended(s), cursor) /\ WillLook(Event!Ended(s))
  BY <1>1, <1>2, <1>3, EndedOK DEF ProfileOK
<1>5. sched' = [sched EXCEPT ![p] = Event!Ended(s)]
  BY DEF s
<1> QED BY <1>1, <1>4, <1>5, TurnSteps

\* An answered message keeps the invariant.
LEMMA DrainOK ==
  ASSUME EventInv, NEW p \in Profiles, Event!Drain(p) PROVE EventInv'
<1> DEFINE r == sched[p]
           s == Event!Reconciled(r)
<1>0. /\ r.pc = "run" /\ ~stopped /\ UNCHANGED <<stream, cursor, listener, pending, stopped>>
      /\ mail' = [mail EXCEPT ![p] = IF @ = 0 THEN 0 ELSE @ - 1] /\ mail[p] \in Nat
  BY DEF Event!Drain, EventInv
<1>1. CASE mail[p] = 0
  <2>0. sched' = [sched EXCEPT ![p] = Event!Ended(s)] /\ mail' = [mail EXCEPT ![p] = 0]
    BY <1>0, <1>1 DEF Event!Drain
  <2>1. ProfileOK(r, cursor) /\ listener # "start"
    BY <1>0, AwakeIsStarted
  <2>2. /\ ProfileFields(s) /\ s.high = r.high /\ s.last = r.seen /\ s.seen = r.seen
    BY <2>1, ReconciledIs DEF ProfileOK
  <2> HIDE DEF s
  <2>3. ProfileOK(Event!Ended(s), cursor)
    BY <1>0, <2>1, <2>2, EndedOK DEF ProfileOK
  <2> DEFINE n == 0
  <2>4. n \in Nat /\ ~(n > 0) /\ mail' = [mail EXCEPT ![p] = n]
    BY <2>0
  <2> HIDE DEF n
  <2> QED BY <1>0, <2>0, <2>1, <2>3, <2>4, TurnSteps
<1>2. CASE mail[p] # 0
  <2>1. PICK b : b = TRUE
    OBVIOUS
  <2>2. sched' = [sched EXCEPT ![p] = Event!Ended([r EXCEPT !.dirty = TRUE])]
    BY <1>2 DEF Event!Drain
  <2>3. sched' = [sched EXCEPT ![p] = Event!Ended([r EXCEPT !.dirty = b])]
    BY <2>1, <2>2, Zenon
  <2>4. mail' = [mail EXCEPT ![p] = mail[p] - 1] /\ mail[p] - 1 \in Nat
    BY <1>0, <1>2
  <2> QED BY <1>0, <2>1, <2>3, <2>4, GoesRound
<1> QED BY <1>1, <1>2

\* A turn that fails keeps the invariant.
LEMMA DrainFailsOK ==
  ASSUME EventInv, NEW p \in Profiles, Event!DrainFails(p) PROVE EventInv'
<1> DEFINE r == sched[p]
<1>0. /\ r.pc \in {"list", "run"} /\ UNCHANGED <<mail, stream, cursor, listener, pending, stopped>>
  BY DEF Event!DrainFails
<1>1. CASE stopped
  BY <1>0, <1>1, StoppedOK DEF EventInv
<1>2. CASE ~stopped
  <2>1. PICK b : b = (r.dirty \/ ~stopped)
    OBVIOUS
  <2>2. b = TRUE
    BY <1>2, <2>1, Zenon
  <2>3. sched' = [sched EXCEPT ![p] = Event!Ended([sched[p] EXCEPT !.dirty = sched[p].dirty \/ ~stopped])]
    BY DEF Event!DrainFails
  <2>4. sched' = [sched EXCEPT ![p] = Event!Ended([r EXCEPT !.dirty = b])]
    BY <2>1, <2>3, Zenon
  <2>5. mail[p] \in Nat /\ mail' = [mail EXCEPT ![p] = mail[p]]
    BY <1>0 DEF EventInv
  <2> QED BY <1>0, <1>2, <2>2, <2>4, <2>5, GoesRound
<1> QED BY <1>1, <1>2

-----------------------------------------------------------------------------
\* What a larger cursor leaves of the news.
LEMMA NewsAbove ==
  ASSUME NEW s \in Seq(Profiles \cup {Foreign}), NEW c \in Nat, NEW c2 \in Nat, c =< c2, NEW p
  PROVE  \A k : k \in NewsOf(p, c2, s) <=> k \in NewsOf(p, c, s) /\ k > c2
<1>1. TipOf(s) \in Nat
  BY TipNat
<1> QED BY <1>1 DEF NewsOf

\* News carries watermarks above the cursor and up to the newest one.
LEMMA NewsNat ==
  ASSUME NEW s \in Seq(Profiles \cup {Foreign}), NEW c \in Nat, NEW p, NEW k \in NewsOf(p, c, s)
  PROVE  k \in Nat /\ k > c /\ k =< TipOf(s) /\ k >= FirstMark
<1>1. TipOf(s) \in Nat
  BY TipNat
<1> QED BY <1>1 DEF NewsOf

\* An event is above every cursor, and changes no other news.
LEMMA NewsArrives ==
  ASSUME NEW s \in Seq(Profiles \cup {Foreign}), NEW c \in Nat, c =< TipOf(s), NEW a \in Profiles \cup {Foreign}
  PROVE  LET t == Append(s, a)
         IN  /\ t \in Seq(Profiles \cup {Foreign}) /\ TipOf(t) > TipOf(s) /\ TipOf(t) \in Nat
             /\ TipOf(t) \in NewsOf(a, c, t)
             /\ \A p : NewsOf(p, c, s) \subseteq NewsOf(p, c, t)
             /\ \A p : \A k \in NewsOf(p, c, t) : k \in NewsOf(p, c, s) \/ k = TipOf(t)
<1> DEFINE t == Append(s, a)
           n == Len(s)
<1>1. /\ t \in Seq(Profiles \cup {Foreign}) /\ Len(t) = n + 1 /\ n \in Nat /\ t # << >>
      /\ t[n + 1] = a /\ \A i \in 1..n : t[i] = s[i]
  <2>1. /\ t \in Seq(Profiles \cup {Foreign}) /\ Len(t) = n + 1 /\ n \in Nat /\ t[n + 1] = a /\ \A i \in 1..n : t[i] = s[i]
    OBVIOUS
  <2>2. t # << >>
    BY <2>1
  <2> QED BY <2>1, <2>2
<1>2. FirstMark \in Nat /\ FirstMark > 1
  BY EventConstants DEF Event!EventAssumption
<1>3. s # << >> => n > 0
  BY EmptySeq
<1> HIDE DEF t, n
<1>4. TipOf(t) = FirstMark + n
  BY <1>1, <1>2 DEF TipOf
<1>5. TipOf(s) = IF n = 0 THEN 0 ELSE FirstMark + n - 1
  <2>1. s = << >> <=> n = 0
    BY <1>1, <1>3 DEF n
  <2> QED BY <2>1 DEF TipOf, n
<1>6. TipOf(t) > TipOf(s) /\ TipOf(t) \in Nat /\ TipOf(s) \in Nat /\ TipOf(t) >= FirstMark
  BY <1>1, <1>2, <1>4, <1>5
<1>7. TipOf(t) \in NewsOf(a, c, t)
  BY <1>1, <1>2, <1>4, <1>6 DEF NewsOf
<1>8. \A k \in FirstMark..TipOf(s) : t[k + 1 - FirstMark] = s[k + 1 - FirstMark]
  BY <1>1, <1>2, <1>5
<1>9. \A p : NewsOf(p, c, s) \subseteq NewsOf(p, c, t)
  BY <1>2, <1>6, <1>8 DEF NewsOf
<1>10. ASSUME NEW p, NEW k \in NewsOf(p, c, t) PROVE k \in NewsOf(p, c, s) \/ k = TipOf(t)
  <2>1. k \in Nat /\ k > c /\ k =< TipOf(t) /\ k >= FirstMark /\ t[k + 1 - FirstMark] = p
    BY <1>6 DEF NewsOf
  <2>2. k = TipOf(t) \/ k =< TipOf(s)
    BY <1>1, <1>2, <1>4, <1>5, <2>1
  <2>3. CASE k =< TipOf(s)
    BY <1>2, <1>6, <1>8, <2>1, <2>3 DEF NewsOf
  <2> QED BY <2>2, <2>3
<1> QED BY <1>1, <1>6, <1>7, <1>9, <1>10 DEF t

\* A new event is news whatever the cursor.
LEMMA ArrivesOK ==
  ASSUME EventInv, NEW a \in Profiles \cup {Foreign}, stream' = Append(stream, a),
         mail' \in [Profiles -> Nat], \A p \in Profiles \ {a} : mail'[p] = mail[p],
         UNCHANGED <<cursor, listener, pending, sched, stopped>>
  PROVE  EventInv'
<1>1. stream \in Seq(Profiles \cup {Foreign}) /\ cursor \in Nat /\ cursor =< TipOf(stream) /\ TipOf(stream) \in Nat
  BY TipNat DEF EventInv, ListenerOK
<1>2. /\ stream' \in Seq(Profiles \cup {Foreign}) /\ TipOf(stream') > TipOf(stream) /\ TipOf(stream') \in Nat
      /\ TipOf(stream') \in NewsOf(a, cursor, stream')
      /\ \A p : NewsOf(p, cursor, stream) \subseteq NewsOf(p, cursor, stream')
      /\ \A p : \A k \in NewsOf(p, cursor, stream') : k \in NewsOf(p, cursor, stream) \/ k = TipOf(stream')
  BY <1>1, NewsArrives
<1>3. ASSUME listener = "coalesce" PROVE BatchOK(pending, cursor, stream')
  <2>1. BatchOK(pending, cursor, stream) /\ pending \in [Profiles -> Nat]
    BY <1>3 DEF EventInv, ListenerOK
  <2>2. \A p \in Profiles : pending[p] =< TipOf(stream)
    BY <1>1, <2>1 DEF BatchOK
  <2>3. ASSUME NEW p \in Profiles, NEW q \in Profiles, NEW k \in NewsOf(p, cursor, stream'), k =< pending[q]
        PROVE  k =< pending[p]
    <3>1. k # TipOf(stream')
      BY <1>1, <1>2, <2>1, <2>2, <2>3
    <3>2. k \in NewsOf(p, cursor, stream)
      BY <1>2, <3>1
    <3> QED BY <2>1, <2>3, <3>2 DEF BatchOK
  <2>4. \A p \in Profiles : pending[p] > 0 => pending[p] > cursor /\ pending[p] =< TipOf(stream') /\ pending[p] >= FirstMark
    BY <1>1, <1>2, <2>1 DEF BatchOK
  <2> QED BY <2>1, <2>3, <2>4 DEF BatchOK
<1>4. ListenerOK'
  BY <1>1, <1>2, <1>3 DEF EventInv, ListenerOK
<1>5. ASSUME ~stopped, NEW p \in Profiles, mail'[p] > 0
      PROVE  listener = "start" \/ NewsOf(p, cursor, stream') # {} \/ WillLook(sched[p])
  <2>1. CASE p = a
    BY <1>2, <2>1
  <2>2. CASE p # a
    BY <1>2, <1>5, <2>2 DEF EventInv, SchedulerOK
  <2> QED BY <2>1, <2>2
<1> QED BY <1>4, <1>5 DEF EventInv, SchedulerOK

\* The listener's steps that neither wake anyone nor move the cursor.
LEMMA ListenerRests ==
  ASSUME EventInv, UNCHANGED <<mail, stream, cursor, pending, sched, stopped>>, listener # "coalesce",
         listener' \in {"watch", "start"}, listener # "start", listener' = "start" => stopped
  PROVE  EventInv'
  BY DEF EventInv, ListenerOK, SchedulerOK

\* A profile that rests is due once the runtime reconciles at its start.
LEMMA RestartedOK ==
  ASSUME NEW c \in Nat
  PROVE  LET t == Event!Restarted(Event!Resting, c) IN ProfileOK(t, c) /\ WillLook(t)
<1> DEFINE s == Event!Resting
           mark == IF c = 0 THEN s.last + 1 ELSE c
           t == Event!Woken(s, mark)
<1>1. s.pc = "idle" /\ s.high = 0 /\ s.last = 0 /\ s.seen = 0 /\ ProfileFields(s)
  <2>1. PICK no : no = FALSE
    OBVIOUS
  <2>2. s = Profile("idle", no, 0, 0, 0)
    BY <2>1, Zenon DEF Event!Resting, Profile
  <2> HIDE DEF s
  <2> QED BY <2>2, ProfileIs
<1>2. Event!Restarted(s, c) = t
  BY DEF Event!Restarted
<1> HIDE DEF s
<1>3. mark \in Nat /\ mark > 0 /\ (mark =< c \/ mark =< 1)
  BY <1>1
<1> HIDE DEF mark
<1>4. /\ ProfileFields(t) /\ t.pc = "due" /\ t.high = Event!Bigger(0, mark) /\ t.last = 0 /\ t.seen = 0
  BY <1>1, WokenIs
<1>5. t.high = mark
  BY <1>3, <1>4 DEF Event!Bigger
<1> HIDE DEF t
<1>6. ProfileOK(t, c) /\ WillLook(t)
  BY <1>3, <1>4, <1>5 DEF ProfileOK, WillLook
<1> QED BY <1>2, <1>6 DEF s

\* A profile at rest is well formed under every cursor.
LEMMA RestingOK == ASSUME NEW c PROVE ProfileOK(Event!Resting, c)
<1> DEFINE s == Event!Resting
<1>1. PICK no : no = FALSE
  OBVIOUS
<1>2. s = Profile("idle", no, 0, 0, 0)
  BY <1>1, Zenon DEF Event!Resting, Profile
<1> HIDE DEF s
<1>3. s.pc = "idle" /\ s.high = 0 /\ s.last = 0 /\ s.seen = 0 /\ ProfileFields(s)
  BY <1>2, ProfileIs
<1>4. ProfileOK(s, c)
  BY <1>3 DEF ProfileOK
<1> QED BY <1>4 DEF s

\* The reconciliation at a start wakes everyone.
LEMMA ReconcileStartupOK ==
  ASSUME EventInv, Event!ReconcileStartup PROVE EventInv'
<1>0. /\ listener = "start" /\ listener' = "settle" /\ UNCHANGED <<mail, stream, cursor, pending, stopped>>
      /\ sched' = [p \in Profiles |-> IF stopped THEN sched[p] ELSE Event!Restarted(sched[p], cursor)]
  BY DEF Event!ReconcileStartup, Event!SubmitWakes
<1>1. ListenerOK'
  BY <1>0 DEF EventInv, ListenerOK
<1>2. ASSUME ~stopped, NEW p \in Profiles PROVE ProfileOK(sched'[p], cursor) /\ WillLook(sched'[p])
  <2>1. sched'[p] = Event!Restarted(Event!Resting, cursor)
    BY <1>0, <1>2 DEF EventInv, SchedulerOK
  <2> QED BY <2>1, RestartedOK DEF EventInv, ListenerOK
<1>3. sched' = [p \in Profiles |-> sched'[p]]
  BY <1>0
<1> QED BY <1>0, <1>1, <1>2, <1>3 DEF EventInv, SchedulerOK

\* A poll keeps the invariant: it moves the cursor past other agents' events only.
LEMMA PollOK ==
  ASSUME EventInv, Event!Poll PROVE EventInv'
<1> DEFINE N(p) == NewsOf(p, cursor, stream)
<1>0. /\ listener = "watch" /\ UNCHANGED <<mail, stream, sched, stopped>>
      /\ pending' = [p \in Profiles |-> Event!Bigger(pending[p], Event!Highest(N(p)))]
      /\ IF \E p \in Profiles : N(p) # {} THEN listener' = "coalesce" /\ UNCHANGED cursor
         ELSE TipOf(stream) > cursor /\ cursor' = TipOf(stream) /\ UNCHANGED listener
  BY NewsIs, TipIs DEF Event!Poll
<1>1. /\ stream \in Seq(Profiles \cup {Foreign}) /\ cursor \in Nat /\ cursor =< TipOf(stream) /\ TipOf(stream) \in Nat
      /\ pending \in [Profiles -> Nat] /\ FirstMark \in Nat /\ FirstMark > 1
      /\ \A p \in Profiles : pending[p] = 0
  BY <1>0, TipNat DEF EventInv, ListenerOK
<1>2. ASSUME NEW p \in Profiles
      PROVE  /\ pending'[p] \in Nat /\ (N(p) = {} => pending'[p] = 0)
             /\ N(p) # {} => pending'[p] \in N(p) /\ \A k \in N(p) : k =< pending'[p]
  <2>1. pending'[p] = Event!Bigger(0, Event!Highest(N(p)))
    BY <1>0, <1>1
  <2>2. CASE N(p) = {}
    <3>1. Event!Highest(N(p)) = 0
      BY <2>2 DEF Event!Highest
    <3> QED BY <2>1, <2>2, <3>1 DEF Event!Bigger
  <2>3. CASE N(p) # {}
    <3>1. N(p) \subseteq Nat /\ \A k \in N(p) : k =< TipOf(stream) /\ k > 0
      BY <1>1, NewsNat
    <3> HIDE DEF N
    <3>2. Event!Highest(N(p)) \in N(p) /\ \A k \in N(p) : k =< Event!Highest(N(p))
      BY <1>1, <2>3, <3>1, HighestIs
    <3>3. Event!Bigger(0, Event!Highest(N(p))) = Event!Highest(N(p))
      BY <3>1, <3>2 DEF Event!Bigger
    <3> QED BY <2>1, <2>3, <3>1, <3>2, <3>3
  <2> QED BY <2>2, <2>3
<1>3. pending' \in [Profiles -> Nat]
  BY <1>0, <1>2
<1>4. CASE \E p \in Profiles : N(p) # {}
  <2>1. listener' = "coalesce" /\ UNCHANGED cursor
    BY <1>0, <1>4
  <2>2. \A p \in Profiles : pending'[p] > 0 => pending'[p] > cursor /\ pending'[p] =< TipOf(stream) /\ pending'[p] >= FirstMark
    BY <1>1, <1>2, NewsNat
  <2>3. \E p \in Profiles : pending'[p] > 0
    BY <1>1, <1>2, <1>4, NewsNat
  <2>4. \A p, q \in Profiles : \A k \in NewsOf(p, cursor, stream) : k =< pending'[q] => k =< pending'[p]
    BY <1>2
  <2>5. BatchOK(pending', cursor, stream)
    BY <2>2, <2>3, <2>4 DEF BatchOK
  <2> QED BY <1>0, <1>1, <1>3, <2>1, <2>5 DEF EventInv, ListenerOK, SchedulerOK
<1>5. CASE ~\E p \in Profiles : N(p) # {}
  <2>1. cursor' = TipOf(stream) /\ UNCHANGED listener /\ \A p \in Profiles : N(p) = {}
    BY <1>0, <1>5
  <2>2. \A p \in Profiles : pending'[p] = 0
    BY <1>2, <2>1
  <2>3. ListenerOK'
    BY <1>0, <1>1, <1>3, <2>1, <2>2 DEF ListenerOK
  <2>4. ~stopped => \A p \in Profiles : ProfileOK(sched[p], cursor')
    BY <1>1, <2>1, ProfileLater DEF EventInv, SchedulerOK
  <2>5. ~stopped => \A p \in Profiles : mail[p] > 0 => WillLook(sched[p])
    BY <1>0, <2>1 DEF EventInv, SchedulerOK
  <2> QED BY <1>0, <2>1, <2>3, <2>4, <2>5 DEF EventInv, SchedulerOK
<1> QED BY <1>4, <1>5

\* A flushed batch keeps the invariant: whoever had news below its highest
\* watermark is woken.
LEMMA FlushOK ==
  ASSUME EventInv, Event!Flush PROVE EventInv'
<1> DEFINE S == {pending[p] : p \in Profiles}
           m == Event!Highest(S)
<1>0. /\ listener = "coalesce" /\ listener' = "watch" /\ UNCHANGED <<mail, stream, stopped>>
      /\ cursor' = m /\ pending' = [p \in Profiles |-> 0]
      /\ sched' = [p \in Profiles |-> IF stopped \/ p \notin {q \in Profiles : pending[q] > 0} THEN sched[p]
                                      ELSE Event!Woken(sched[p], pending[p])]
  BY DEF Event!Flush, Event!SubmitWakes
<1>1. /\ stream \in Seq(Profiles \cup {Foreign}) /\ cursor \in Nat /\ cursor =< TipOf(stream) /\ TipOf(stream) \in Nat
      /\ pending \in [Profiles -> Nat] /\ FirstMark \in Nat /\ FirstMark > 1 /\ BatchOK(pending, cursor, stream)
  BY <1>0, TipNat DEF EventInv, ListenerOK
<1>2. m \in S /\ \A p \in Profiles : pending[p] =< m
  <2>1. S \subseteq Nat /\ S # {} /\ \A x \in S : x =< TipOf(stream)
    BY <1>1 DEF BatchOK
  <2>2. \A p \in Profiles : pending[p] \in S
    OBVIOUS
  <2> HIDE DEF S
  <2>3. m \in S /\ \A x \in S : x =< m
    BY <1>1, <2>1, HighestIs
  <2> QED BY <2>2, <2>3
<1>3. PICK q \in Profiles : m = pending[q]
  BY <1>2
<1> HIDE DEF m, S
<1>4. m \in Nat /\ m > cursor /\ m =< TipOf(stream)
  <2>1. PICK r \in Profiles : pending[r] > 0
    BY <1>1 DEF BatchOK
  <2>2. m > 0 /\ m \in Nat
    BY <1>1, <1>2, <1>3, <2>1
  <2> QED BY <1>1, <1>3, <2>2 DEF BatchOK
<1>5. ListenerOK'
  BY <1>0, <1>1, <1>4 DEF ListenerOK
<1>6. ASSUME ~stopped, NEW p \in Profiles
      PROVE  ProfileOK(sched'[p], m) /\ (mail[p] > 0 => NewsOf(p, m, stream) # {} \/ WillLook(sched'[p]))
  <2>0. ProfileOK(sched[p], cursor) /\ (mail[p] > 0 => NewsOf(p, cursor, stream) # {} \/ WillLook(sched[p]))
    BY <1>0, <1>6 DEF EventInv, SchedulerOK
  <2>1. CASE pending[p] > 0
    <3>1. sched'[p] = Event!Woken(sched[p], pending[p])
      BY <1>0, <1>6, <2>1
    <3>2. pending[p] \in Nat /\ pending[p] > cursor /\ pending[p] > 1 /\ pending[p] =< m
      BY <1>1, <1>2, <2>1 DEF BatchOK
    <3> QED BY <1>1, <1>4, <2>0, <3>1, <3>2, WokenOK
  <2>2. CASE ~(pending[p] > 0)
    <3>1. sched'[p] = sched[p] /\ pending[p] = 0
      BY <1>0, <1>1, <2>2
    <3>2. ProfileOK(sched[p], m)
      BY <1>1, <1>4, <2>0, ProfileLater
    <3>3. ASSUME NEW k \in NewsOf(p, cursor, stream) PROVE k \in NewsOf(p, m, stream)
      <4>1. k \in Nat /\ k > cursor
        BY <1>1, NewsNat
      <4>2. k =< pending[q] => k =< pending[p]
        BY <1>1 DEF BatchOK
      <4>3. k > m
        BY <1>1, <1>3, <1>4, <3>1, <4>1, <4>2
      <4>4. cursor =< m
        BY <1>1, <1>4
      <4> QED BY <1>1, <1>4, <4>3, <4>4, NewsAbove
    <3>4. NewsOf(p, cursor, stream) # {} => NewsOf(p, m, stream) # {}
      BY <3>3
    <3> QED BY <2>0, <3>1, <3>2, <3>4
  <2> QED BY <2>1, <2>2
<1>7. sched' = [p \in Profiles |-> sched'[p]]
  BY <1>0
<1> QED BY <1>0, <1>5, <1>6, <1>7 DEF EventInv, SchedulerOK

\* A resync keeps the invariant: everyone is woken.
LEMMA ResyncOK ==
  ASSUME EventInv, Event!Resync PROVE EventInv'
<1> DEFINE m == TipOf(stream)
<1>0. /\ listener = "watch" /\ m > cursor /\ UNCHANGED <<mail, stream, listener, pending, stopped>> /\ cursor' = m
      /\ sched' = [p \in Profiles |-> IF stopped THEN sched[p] ELSE Event!Woken(sched[p], m)]
  BY TipIs DEF Event!Resync, Event!SubmitWakes
<1>1. /\ stream \in Seq(Profiles \cup {Foreign}) /\ cursor \in Nat /\ m \in Nat
  BY TipNat DEF EventInv, ListenerOK
<1>2. m > 1
  BY <1>0, <1>1, TipNat DEF TipOf
<1> HIDE DEF m
<1>3. ListenerOK'
  BY <1>0, <1>1 DEF EventInv, ListenerOK, m
<1>4. ASSUME ~stopped, NEW p \in Profiles PROVE ProfileOK(sched'[p], m) /\ WillLook(sched'[p])
  <2>1. sched'[p] = Event!Woken(sched[p], m) /\ ProfileOK(sched[p], cursor) /\ m =< m
    BY <1>0, <1>1, <1>4 DEF EventInv, SchedulerOK
  <2> QED BY <1>0, <1>1, <1>2, <2>1, WokenOK
<1>5. sched' = [p \in Profiles |-> sched'[p]]
  BY <1>0
<1> QED BY <1>0, <1>3, <1>4, <1>5 DEF EventInv, SchedulerOK

\* A failing watch keeps the invariant: its scheduler is stopped.
LEMMA WatchFailsOK ==
  ASSUME EventInv, Event!WatchFails PROVE EventInv'
<1>1. /\ listener' = "failed" /\ stopped' = TRUE /\ UNCHANGED <<mail, stream, cursor>>
      /\ (listener = "watch" /\ UNCHANGED pending) \/ pending' = [p \in Profiles |-> 0]
  BY DEF Event!WatchFails
<1>2. ListenerOK'
  BY <1>1 DEF EventInv, ListenerOK
<1> QED BY <1>1, <1>2 DEF EventInv, SchedulerOK

\* A crash keeps the invariant: the next start reconciles.
LEMMA CrashOK ==
  ASSUME EventInv, Event!Crash PROVE EventInv'
<1>1. /\ listener' = "start" /\ ~stopped' /\ UNCHANGED <<mail, stream, cursor>>
      /\ pending' = [p \in Profiles |-> 0] /\ sched' = [p \in Profiles |-> Event!Resting]
  BY DEF Event!Crash
<1>2. ListenerOK'
  BY <1>1 DEF EventInv, ListenerOK
<1>3. sched' = [p \in Profiles |-> sched'[p]] /\ \A p \in Profiles : sched'[p] = Event!Resting
  BY <1>1
<1>4. \A p \in Profiles : ProfileOK(sched'[p], cursor)
  BY <1>3, RestingOK
<1> QED BY <1>1, <1>2, <1>3, <1>4 DEF EventInv, SchedulerOK

\* Mail that another claimer handles keeps the invariant.
LEMMA HandledElsewhereOK ==
  ASSUME EventInv, NEW p \in Profiles, Event!HandledElsewhere(p) PROVE EventInv'
<1>0. /\ mail[p] > 0 /\ mail' = [mail EXCEPT ![p] = mail[p] - 1] /\ UNCHANGED <<stream, cursor, listener, pending, sched, stopped>>
  BY DEF Event!HandledElsewhere
<1>1. mail' \in [Profiles -> Nat] /\ \A q \in Profiles : mail'[q] > 0 => mail[q] > 0
  BY <1>0 DEF EventInv
<1> QED BY <1>0, <1>1 DEF EventInv, ListenerOK, SchedulerOK

\* Every step of the listener, the scheduler and MESH keeps the invariant.
LEMMA EventStep == EventInv /\ Event!WakeNext => EventInv'
<1> SUFFICES ASSUME EventInv, Event!WakeNext PROVE EventInv'
  OBVIOUS
<1>1. CASE Event!Listens
  <2>1. CASE Event!Settled
    BY <2>1, ListenerRests DEF Event!Settled
  <2>2. CASE Event!Retry
    <3>1. stopped
      BY <2>2 DEF Event!Retry, EventInv, ListenerOK
    <3> QED BY <2>2, <3>1, ListenerRests DEF Event!Retry
  <2> QED BY <1>1, <2>1, <2>2, ReconcileStartupOK, PollOK, FlushOK DEF Event!Listens
<1>2. CASE Event!ArrivesElsewhere
  <2>1. stream' = Append(stream, Foreign) /\ UNCHANGED <<mail, cursor, listener, pending, sched, stopped>>
    BY <1>2 DEF Event!ArrivesElsewhere
  <2>2. mail' \in [Profiles -> Nat]
    BY <2>1 DEF EventInv
  <2> QED BY <2>1, <2>2, ArrivesOK
<1>3. ASSUME NEW p \in Profiles, Event!Arrives(p) PROVE EventInv'
  <2>1. /\ stream' = Append(stream, p) /\ UNCHANGED <<cursor, listener, pending, sched, stopped>>
        /\ mail' = [mail EXCEPT ![p] = @ + 1]
    BY <1>3 DEF Event!Arrives
  <2>2. mail' \in [Profiles -> Nat] /\ \A q \in Profiles \ {p} : mail'[q] = mail[q]
    BY <2>1 DEF EventInv
  <2> QED BY <2>1, <2>2, ArrivesOK
<1>4. ASSUME NEW p \in Profiles, Event!Turn(p) \/ Event!DrainFails(p) \/ Event!HandledElsewhere(p) PROVE EventInv'
  BY <1>4, BeginOK, EnterOK, PreflightOK, NothingOK, DrainOK, DrainFailsOK, HandledElsewhereOK DEF Event!Turn
<1> QED BY <1>1, <1>2, <1>3, <1>4, ResyncOK, WatchFailsOK, CrashOK DEF Event!WakeNext

\* The invariant of the event-driven wakes holds at the start.
LEMMA EventInitially == Event!WakeInit => EventInv
<1> SUFFICES ASSUME Event!WakeInit PROVE EventInv
  OBVIOUS
<1>1. /\ mail \in [Profiles -> 0..1] /\ stream = << >> /\ cursor = 0 /\ listener = "start"
      /\ pending = [p \in Profiles |-> 0] /\ sched = [p \in Profiles |-> Event!Resting]
  BY DEF Event!WakeInit
<1>2. ListenerOK
  BY <1>1 DEF ListenerOK, TipOf
<1>3. sched = [p \in Profiles |-> sched[p]] /\ \A p \in Profiles : sched[p] = Event!Resting
  BY <1>1
<1>4. \A p \in Profiles : ProfileOK(sched[p], cursor)
  BY <1>3, RestingOK
<1> QED BY <1>1, <1>2, <1>3, <1>4 DEF EventInv, SchedulerOK

\* Under the invariant no mail is forgotten.
LEMMA EventSafe == EventInv => Event!NoForgottenMail
<1> SUFFICES ASSUME EventInv, NEW p \in Profiles, listener = "watch", ~stopped, Event!News(p) = {}, sched[p].pc = "idle"
             PROVE  mail[p] = 0
  BY DEF Event!NoForgottenMail
<1>1. ~WillLook(sched[p])
  BY DEF WillLook
<1>2. ~(mail[p] > 0) /\ mail[p] \in Nat
  BY <1>1, NewsIs DEF EventInv, SchedulerOK
<1> QED BY <1>2

-----------------------------------------------------------------------------
\* A drain, from its parts.
DrainOf(st, fly, kick, last, due, missed) ==
  [st |-> st, fly |-> fly, kick |-> kick, last |-> last, due |-> due, missed |-> missed]

DrainFields(d) == d = DrainOf(d.st, d.fly, d.kick, d.last, d.due, d.missed)

\* A hint that is not heard yet is asked of a drain that is up.
LaneOK(d) == DrainFields(d) /\ (d.kick => d.st = "started") /\ d.fly \in {"none", "listing", "working", "empty"}

\* The drain will look into the mailbox, does not remember it as empty, or was
\* told while it was down.
Sees(d) ==
  \/ d.missed
  \/ d.fly = "none" /\ d.last # "empty"
  \/ d.fly \in {"listing", "working"}
  \/ d.fly = "empty" /\ d.kick

\* An event of lane p is in the log behind watermark c.
Ahead(p, c, L) == \E i \in c + 1 .. Len(L) : L[i] = p

LoopOK ==
  /\ log \in Seq(Lanes \cup {Foreign}) /\ seen \in Nat /\ seen =< Len(log)
  /\ loop = [pc |-> loop.pc, todo |-> loop.todo, top |-> loop.top]
  /\ loop.todo \subseteq Lanes
  /\ loop.pc \in {"fanout", "resync"} => loop.top \in Nat /\ loop.top =< Len(log)

DrainsOK ==
  /\ unread \in [Lanes -> Int]
  /\ lane = [p \in Lanes |-> lane[p]] /\ \A p \in Lanes : LaneOK(lane[p])
  /\ host = "down" => \A p \in Lanes : lane[p].st = "stopped"

\* Unread mail is ahead of the cursor or known to its drain, and so it stays
\* when a fan-out is committed.
MailAhead ==
  \A p \in Lanes : unread[p] > 0 =>
    /\ Sees(lane[p]) \/ Ahead(p, seen, log)
    /\ loop.pc \in {"fanout", "resync"} => p \in loop.todo \/ Sees(lane[p]) \/ Ahead(p, loop.top, log)

WatchInv == LoopOK /\ DrainsOK /\ MailAhead

\* A drain gives back the parts it was made of.
LEMMA DrainOfIs ==
  ASSUME NEW st, NEW fly, NEW kick, NEW last, NEW due, NEW missed
  PROVE  LET d == DrainOf(st, fly, kick, last, due, missed)
         IN  /\ DrainFields(d) /\ d.st = st /\ d.fly = fly /\ d.kick = kick /\ d.last = last
             /\ d.due = due /\ d.missed = missed
  BY DEF DrainOf, DrainFields

\* A step of one drain that keeps what it knows of its mail.
LEMMA DrainSteps ==
  ASSUME WatchInv, NEW p \in Lanes, NEW d, lane' = [lane EXCEPT ![p] = d], LaneOK(d),
         unread' \in [Lanes -> Int], \A q \in Lanes : q = p \/ unread'[q] = unread[q],
         unread'[p] > 0 => Sees(d) \/ (unread[p] > 0 /\ ~Sees(lane[p])),
         host' = "down" => d.st = lane[p].st /\ host = "down", UNCHANGED <<log, seen, loop>>
  PROVE  WatchInv'
<1>1. /\ lane' = [q \in Lanes |-> lane'[q]] /\ lane'[p] = d /\ \A q \in Lanes \ {p} : lane'[q] = lane[q]
  BY DEF WatchInv, DrainsOK
<1>2. LoopOK'
  BY DEF WatchInv, LoopOK
<1>3. DrainsOK'
  BY <1>1 DEF WatchInv, DrainsOK
<1>4. MailAhead'
  BY <1>1 DEF WatchInv, MailAhead, DrainsOK
<1> QED BY <1>2, <1>3, <1>4 DEF WatchInv

\* Sees is all that matters of a drain's change.
LEMMA DrainGoes ==
  ASSUME WatchInv, NEW p \in Lanes, NEW d, lane' = [lane EXCEPT ![p] = d], LaneOK(d),
         unread[p] > 0 /\ Sees(lane[p]) => Sees(d), d.st = lane[p].st, UNCHANGED <<log, unread, seen, loop, host>>
  PROVE  WatchInv'
<1>1. unread' \in [Lanes -> Int] /\ \A q \in Lanes : q = p \/ unread'[q] = unread[q]
  BY DEF WatchInv, DrainsOK
<1>2. unread'[p] > 0 => Sees(d) \/ (unread[p] > 0 /\ ~Sees(lane[p]))
  OBVIOUS
<1> QED BY <1>1, <1>2, DrainSteps

\* A tick that starts an attempt keeps the invariant.
LEMMA TickOK ==
  ASSUME WatchInv, NEW p \in Lanes, Watch!Tick(p) PROVE WatchInv'
<1> DEFINE r == lane[p]
<1>1. PICK no : no = FALSE
  OBVIOUS
<1> DEFINE a == [r EXCEPT !.fly = "listing"]
           d == [a EXCEPT !.missed = no]
<1>2. /\ lane' = [lane EXCEPT ![p].fly = "listing", ![p].missed = FALSE]
      /\ LaneOK(r) /\ lane = [q \in Lanes |-> lane[q]] /\ UNCHANGED <<log, unread, seen, loop, host>>
  BY DEF Watch!Tick, Watch!LaneFrame, WatchInv, DrainsOK
<1>3. lane' = [lane EXCEPT ![p] = d]
  <2>1. lane' = [[lane EXCEPT ![p].fly = "listing"] EXCEPT ![p].missed = no]
    BY <1>1, <1>2, Zenon
  <2>2. [lane EXCEPT ![p].fly = "listing"] = [lane EXCEPT ![p] = a]
    OBVIOUS
  <2> HIDE DEF a
  <2> QED BY <1>2, <2>1, <2>2
<1> HIDE DEF r
<1>4. a = DrainOf(r.st, "listing", r.kick, r.last, r.due, r.missed)
  BY <1>2 DEF LaneOK, DrainFields, DrainOf
<1> HIDE DEF a
<1>5. d = DrainOf(r.st, "listing", r.kick, r.last, r.due, no)
  BY <1>4 DEF DrainOf
<1> HIDE DEF d
<1>6. DrainFields(d) /\ d.st = r.st /\ d.fly = "listing" /\ d.kick = r.kick
  BY <1>5, DrainOfIs
<1>7. LaneOK(d) /\ Sees(d)
  BY <1>2, <1>6 DEF LaneOK, Sees
<1> QED BY <1>2, <1>3, <1>6, <1>7, DrainGoes DEF r

\* A look into the mailbox keeps the invariant: only an empty one is found empty.
LEMMA ListOK ==
  ASSUME WatchInv, NEW p \in Lanes, Watch!List(p) PROVE WatchInv'
<1> DEFINE r == lane[p]
           at == IF unread[p] = 0 THEN "empty" ELSE "working"
           d == [r EXCEPT !.fly = at]
<1>2. /\ lane' = [lane EXCEPT ![p].fly = at] /\ r.fly = "listing"
      /\ LaneOK(r) /\ lane = [q \in Lanes |-> lane[q]] /\ UNCHANGED <<log, unread, seen, loop, host>>
      /\ unread[p] \in Int
  BY DEF Watch!List, Watch!LaneFrame, WatchInv, DrainsOK
<1>3. lane' = [lane EXCEPT ![p] = d]
  BY <1>2
<1> HIDE DEF r
<1>5. d = DrainOf(r.st, at, r.kick, r.last, r.due, r.missed)
  BY <1>2 DEF LaneOK, DrainFields, DrainOf
<1> HIDE DEF d
<1>6. DrainFields(d) /\ d.st = r.st /\ d.fly = at /\ d.kick = r.kick
  BY <1>5, DrainOfIs
<1>7. LaneOK(d) /\ (unread[p] > 0 => Sees(d))
  BY <1>2, <1>6 DEF LaneOK, Sees
<1> QED BY <1>2, <1>3, <1>6, <1>7, DrainGoes DEF r

\* The end of an attempt, field by field.
LEMMA FinishedIs ==
  ASSUME NEW d, LaneOK(d), NEW last
  PROVE  LET e == Watch!Finished(d, last)
         IN  /\ LaneOK(e) /\ e.st = d.st /\ e.last = last
             /\ e.fly = (IF d.kick THEN "listing" ELSE "none")
             /\ e.missed = (d.missed /\ last = "empty" /\ ~d.kick)
<1> DEFINE e == Watch!Finished(d, last)
<1>1. PICK no : no = FALSE
  OBVIOUS
<1>2. PICK again : again = (d.kick /\ d.st = "started")
  OBVIOUS
<1>3. PICK mi : mi = (d.missed /\ last = "empty" /\ ~again)
  OBVIOUS
<1>4. PICK at : at = IF again THEN "listing" ELSE "none"
  OBVIOUS
<1> DEFINE a == [d EXCEPT !.fly = at]
           b == [a EXCEPT !.kick = no]
           f == [b EXCEPT !.last = last]
           g == [f EXCEPT !.due = no]
<1>5. e = [g EXCEPT !.missed = mi]
  <2>1. e = [d EXCEPT !.fly = at, !.kick = FALSE, !.last = last, !.due = FALSE, !.missed = mi]
    BY <1>2, <1>3, <1>4, Zenon DEF Watch!Finished
  <2> QED BY <1>1, <2>1, Zenon
<1> HIDE DEF e
<1>6. a = DrainOf(d.st, at, d.kick, d.last, d.due, d.missed)
  BY DEF LaneOK, DrainFields, DrainOf
<1> HIDE DEF a
<1>7. b = DrainOf(d.st, at, no, d.last, d.due, d.missed)
  BY <1>6 DEF DrainOf
<1> HIDE DEF b
<1>8. f = DrainOf(d.st, at, no, last, d.due, d.missed)
  BY <1>7 DEF DrainOf
<1> HIDE DEF f
<1>9. g = DrainOf(d.st, at, no, last, no, d.missed)
  BY <1>8 DEF DrainOf
<1> HIDE DEF g
<1>10. e = DrainOf(d.st, at, no, last, no, mi)
  BY <1>5, <1>9 DEF DrainOf
<1>11. DrainFields(e) /\ e.st = d.st /\ e.fly = at /\ e.kick = no /\ e.last = last /\ e.missed = mi
  BY <1>10, DrainOfIs
<1>12. again <=> d.kick
  BY <1>2 DEF LaneOK
<1>13. at = (IF d.kick THEN "listing" ELSE "none")
  BY <1>4, <1>12
<1>14. e.missed = (d.missed /\ last = "empty" /\ ~d.kick)
  <2>1. mi <=> (d.missed /\ last = "empty" /\ ~d.kick)
    BY <1>3, <1>12, Zenon
  <2>2. mi \in BOOLEAN /\ (d.missed /\ last = "empty" /\ ~d.kick) \in BOOLEAN
    BY <1>3, Zenon
  <2> QED BY <1>11, <2>1, <2>2, <1>3, <1>12, Zenon
<1>15. ~e.kick
  BY <1>1, <1>11, Zenon
<1>16. LaneOK(e)
  BY <1>11, <1>13, <1>15 DEF LaneOK
<1> QED BY <1>11, <1>13, <1>14, <1>16 DEF e

\* An attempt that found the mailbox empty is over.
LEMMA FoundEmptyOK ==
  ASSUME WatchInv, NEW p \in Lanes, Watch!FoundEmpty(p) PROVE WatchInv'
<1> DEFINE r == lane[p]
           d == Watch!Finished(r, "empty")
<1>1. /\ lane' = [lane EXCEPT ![p] = d] /\ r.fly = "empty" /\ LaneOK(r)
      /\ UNCHANGED <<log, unread, seen, loop, host>>
  BY DEF Watch!FoundEmpty, Watch!LaneFrame, WatchInv, DrainsOK
<1> HIDE DEF r
<1>2. LaneOK(d) /\ d.st = r.st /\ d.fly = (IF r.kick THEN "listing" ELSE "none")
      /\ d.missed = (r.missed /\ "empty" = "empty" /\ ~r.kick)
  BY <1>1, FinishedIs
<1> HIDE DEF d
<1>3. Sees(r) => Sees(d)
  <2>1. CASE r.kick
    BY <1>2, <2>1 DEF Sees
  <2>2. CASE ~r.kick
    BY <1>1, <1>2, <2>2, Zenon DEF Sees
  <2> QED BY <2>1, <2>2
<1> QED BY <1>1, <1>2, <1>3, DrainGoes DEF r

\* An attempt that ends otherwise leaves a drain that looks again.
LEMMA EndedSees ==
  ASSUME NEW d, LaneOK(d)
  PROVE  LET e == Watch!Finished(d, "other") IN LaneOK(e) /\ e.st = d.st /\ Sees(e)
  BY FinishedIs DEF Sees

\* A delivery keeps the invariant: more may be unread, and the drain looks again.
LEMMA DeliveredOK ==
  ASSUME WatchInv, NEW p \in Lanes, Watch!Delivered(p) PROVE WatchInv'
<1> DEFINE r == lane[p]
           d == Watch!Finished(r, "other")
<1>1. /\ lane' = [lane EXCEPT ![p] = d] /\ LaneOK(r) /\ unread' = [unread EXCEPT ![p] = @ - 1]
      /\ unread \in [Lanes -> Int] /\ UNCHANGED <<log, seen, loop, host>>
  BY DEF Watch!Delivered, Watch!LaneFrame, WatchInv, DrainsOK
<1>2. LaneOK(d) /\ d.st = r.st /\ Sees(d)
  BY <1>1, EndedSees
<1> HIDE DEF d
<1>3. unread' \in [Lanes -> Int] /\ \A q \in Lanes : q = p \/ unread'[q] = unread[q]
  BY <1>1
<1>4. host' = "down" => d.st = lane[p].st /\ host = "down"
  BY <1>1, <1>2
<1> QED BY <1>1, <1>2, <1>3, <1>4, DrainSteps

\* A failed attempt keeps the invariant.
LEMMA AttemptFailsOK ==
  ASSUME WatchInv, NEW p \in Lanes, Watch!AttemptFails(p) PROVE WatchInv'
<1> DEFINE r == lane[p]
           d == Watch!Finished(r, "other")
<1>1. /\ lane' = [lane EXCEPT ![p] = d] /\ LaneOK(r)
      /\ UNCHANGED <<log, unread, seen, loop, host>>
  BY DEF Watch!AttemptFails, Watch!LaneFrame, WatchInv, DrainsOK
<1>2. LaneOK(d) /\ d.st = r.st /\ Sees(d)
  BY <1>1, EndedSees
<1> HIDE DEF d
<1> QED BY <1>1, <1>2, DrainGoes

\* The safety poll falling due keeps the invariant.
LEMMA SafetyDueOK ==
  ASSUME WatchInv, NEW p \in Lanes, Watch!SafetyDue(p) PROVE WatchInv'
<1> DEFINE r == lane[p]
<1>1. PICK yes : yes = TRUE
  OBVIOUS
<1> DEFINE d == [r EXCEPT !.due = yes]
<1>2. /\ lane' = [lane EXCEPT ![p].due = TRUE]
      /\ LaneOK(r) /\ lane = [q \in Lanes |-> lane[q]] /\ UNCHANGED <<log, unread, seen, loop, host>>
  BY DEF Watch!SafetyDue, Watch!LaneFrame, WatchInv, DrainsOK
<1>3. lane' = [lane EXCEPT ![p] = d]
  <2>1. lane' = [lane EXCEPT ![p].due = yes]
    BY <1>1, <1>2, Zenon
  <2> QED BY <2>1
<1> HIDE DEF r
<1>4. d = DrainOf(r.st, r.fly, r.kick, r.last, yes, r.missed)
  BY <1>2 DEF LaneOK, DrainFields, DrainOf
<1> HIDE DEF d
<1>5. DrainFields(d) /\ d.st = r.st /\ d.fly = r.fly /\ d.kick = r.kick /\ d.last = r.last /\ d.missed = r.missed
  BY <1>4, DrainOfIs
<1>6. LaneOK(d)
  BY <1>2, <1>5 DEF LaneOK
<1>7. Sees(r) => Sees(d)
  BY <1>5 DEF Sees
<1> QED BY <1>2, <1>3, <1>5, <1>6, <1>7, DrainGoes DEF r

\* A drain that is not up changes its state.
LEMMA StateSet ==
  ASSUME WatchInv, NEW p \in Lanes, NEW s, lane' = [lane EXCEPT ![p].st = s],
         lane[p].st \in {"starting", "stopping"}, UNCHANGED <<log, unread, seen, loop, host>>
  PROVE  WatchInv'
<1> DEFINE r == lane[p]
           d == [r EXCEPT !.st = s]
<1>2. LaneOK(r) /\ host # "down" /\ unread \in [Lanes -> Int]
  BY DEF WatchInv, DrainsOK
<1>3. lane' = [lane EXCEPT ![p] = d]
  OBVIOUS
<1>r. ~r.kick
  BY <1>2 DEF LaneOK
<1> HIDE DEF r
<1>4. d = DrainOf(s, r.fly, r.kick, r.last, r.due, r.missed)
  BY <1>2 DEF LaneOK, DrainFields, DrainOf
<1> HIDE DEF d
<1>5. DrainFields(d) /\ d.st = s /\ d.fly = r.fly /\ d.kick = r.kick /\ d.last = r.last /\ d.missed = r.missed
  BY <1>4, DrainOfIs
<1>6. LaneOK(d)
  BY <1>2, <1>5, <1>r DEF LaneOK
<1>7. Sees(r) => Sees(d)
  BY <1>5 DEF Sees
<1>8. unread'[p] > 0 => Sees(d) \/ (unread[p] > 0 /\ ~Sees(lane[p]))
  BY <1>7 DEF r
<1>9. unread' \in [Lanes -> Int] /\ (\A q \in Lanes : q = p \/ unread'[q] = unread[q]) /\ host' # "down"
  BY <1>2
<1> QED BY <1>3, <1>6, <1>8, <1>9, DrainSteps

\* A start that succeeds or fails, and a stop that is over, keep the invariant.
LEMMA LaneChangesOK ==
  ASSUME WatchInv, NEW p \in Lanes, Watch!LaneStarted(p) \/ Watch!LaneStartFails(p) \/ Watch!LaneStopped(p)
  PROVE  WatchInv'
<1>1. PICK s : lane' = [lane EXCEPT ![p].st = s]
  BY DEF Watch!LaneStarted, Watch!LaneStartFails, Watch!LaneStopped
<1>2. lane[p].st \in {"starting", "stopping"} /\ UNCHANGED <<log, unread, seen, loop, host>>
  BY DEF Watch!LaneStarted, Watch!LaneStartFails, Watch!LaneStopped, Watch!HostFrame
<1> QED BY <1>1, <1>2, StateSet

\* A drain told to stop keeps the invariant: a hint it has not served counts
\* as told while it was down.
LEMMA LaneStopOK ==
  ASSUME WatchInv, NEW p \in Lanes, Watch!LaneStop(p) PROVE WatchInv'
<1> DEFINE r == lane[p]
<1>1. PICK no : no = FALSE
  OBVIOUS
<1>m. PICK mi : mi = (r.missed \/ r.kick)
  OBVIOUS
<1> DEFINE a == [r EXCEPT !.st = "stopping"]
           b == [a EXCEPT !.kick = no]
           d == [b EXCEPT !.missed = mi]
<1>2. /\ lane' = [lane EXCEPT ![p].st = "stopping", ![p].kick = FALSE, ![p].missed = @ \/ lane[p].kick]
      /\ host = "stopping" /\ unread \in [Lanes -> Int]
      /\ LaneOK(r) /\ lane = [q \in Lanes |-> lane[q]] /\ UNCHANGED <<log, unread, seen, loop, host>>
  BY DEF Watch!LaneStop, Watch!HostFrame, WatchInv, DrainsOK
<1>3. lane' = [lane EXCEPT ![p] = d]
  <2>a. [[lane EXCEPT ![p].st = "stopping"] EXCEPT ![p].kick = no] = [lane EXCEPT ![p] = b]
    <3>1. [lane EXCEPT ![p].st = "stopping"] = [lane EXCEPT ![p] = a]
      OBVIOUS
    <3> HIDE DEF a
    <3> QED BY <1>2, <3>1
  <2>b. b.missed = r.missed
    <3>1. a = DrainOf("stopping", r.fly, r.kick, r.last, r.due, r.missed)
      BY <1>2 DEF LaneOK, DrainFields, DrainOf
    <3> HIDE DEF a
    <3>2. b = DrainOf("stopping", r.fly, no, r.last, r.due, r.missed)
      BY <3>1 DEF DrainOf
    <3> HIDE DEF b
    <3> QED BY <3>2, DrainOfIs
  <2>1. lane' = [[[lane EXCEPT ![p].st = "stopping"] EXCEPT ![p].kick = no] EXCEPT ![p].missed = @ \/ lane[p].kick]
    BY <1>1, <1>2, Zenon
  <2> HIDE DEF b
  <2>2. lane' = [[lane EXCEPT ![p] = b] EXCEPT ![p].missed = @ \/ lane[p].kick]
    BY <2>a, <2>1, Zenon
  <2>3. [lane EXCEPT ![p] = b][p].missed = r.missed
    BY <2>b, <1>2
  <2>4. lane' = [[lane EXCEPT ![p] = b] EXCEPT ![p].missed = mi]
    BY <2>2, <2>3, <1>m, Zenon
  <2> QED BY <1>2, <2>4
<1> HIDE DEF r
<1>4. a = DrainOf("stopping", r.fly, r.kick, r.last, r.due, r.missed)
  BY <1>2 DEF LaneOK, DrainFields, DrainOf
<1> HIDE DEF a
<1>5. b = DrainOf("stopping", r.fly, no, r.last, r.due, r.missed)
  BY <1>4 DEF DrainOf
<1> HIDE DEF b
<1>6. d = DrainOf("stopping", r.fly, no, r.last, r.due, mi)
  BY <1>5 DEF DrainOf
<1> HIDE DEF d
<1>7. DrainFields(d) /\ d.st = "stopping" /\ d.fly = r.fly /\ d.kick = no /\ d.last = r.last /\ d.missed = mi
  BY <1>6, DrainOfIs
<1>8. ~d.kick /\ (r.missed \/ r.kick => d.missed)
  BY <1>1, <1>m, <1>7, Zenon
<1>9. LaneOK(d)
  BY <1>2, <1>7, <1>8 DEF LaneOK
<1>10. Sees(r) => Sees(d)
  BY <1>7, <1>8 DEF Sees
<1>11. unread'[p] > 0 => Sees(d) \/ (unread[p] > 0 /\ ~Sees(lane[p]))
  BY <1>2, <1>10 DEF r
<1>12. unread' \in [Lanes -> Int] /\ (\A q \in Lanes : q = p \/ unread'[q] = unread[q]) /\ host' # "down"
  BY <1>2
<1> QED BY <1>2, <1>3, <1>9, <1>11, <1>12, DrainSteps

\* The end of a start and of a stop of all the drains keep the invariant.
LEMMA HostOnlyOK ==
  ASSUME WatchInv, Watch!HostUp \/ Watch!HostDown PROVE WatchInv'
<1>1. UNCHANGED <<log, unread, seen, loop, lane>> /\ (host' = "down" => \A p \in Lanes : lane[p].st = "stopped")
  <2>1. CASE Watch!HostUp
    BY <2>1 DEF Watch!HostUp, Watch!HostFrame
  <2>2. CASE Watch!HostDown
    BY <2>2 DEF Watch!HostDown, Watch!HostFrame, Watch!InState
  <2> QED BY <2>1, <2>2
<1>2. LoopOK'
  BY <1>1 DEF WatchInv, LoopOK
<1>3. DrainsOK'
  BY <1>1 DEF WatchInv, DrainsOK
<1>4. MailAhead'
  BY <1>1 DEF WatchInv, MailAhead
<1> QED BY <1>2, <1>3, <1>4 DEF WatchInv

\* All the drains change, and each sees what it saw.
LEMMA AllDrains ==
  ASSUME WatchInv, lane' = [p \in Lanes |-> lane'[p]], UNCHANGED <<log, unread, seen>>,
         \A p \in Lanes : LaneOK(lane'[p]) /\ (Sees(lane[p]) => Sees(lane'[p])),
         host' = "down" => \A p \in Lanes : lane'[p].st = "stopped",
         loop' = loop \/ loop' = Watch!Loop("retry", {}, 0)
  PROVE  WatchInv'
<1>1. LoopOK'
  BY DEF WatchInv, LoopOK, Watch!Loop
<1>2. DrainsOK'
  BY DEF WatchInv, DrainsOK
<1>3. MailAhead'
  BY DEF WatchInv, MailAhead, Watch!Loop
<1> QED BY <1>1, <1>2, <1>3 DEF WatchInv

\* A start of all the drains keeps the invariant.
LEMMA HostStartOK ==
  ASSUME WatchInv, Watch!HostStart PROVE WatchInv'
<1>1. PICK no : no = FALSE
  OBVIOUS
<1>2. /\ lane' = [p \in Lanes |-> [lane[p] EXCEPT !.st = "starting", !.kick = no]]
      /\ host' = "starting" /\ UNCHANGED <<log, unread, seen, loop>>
  <2>1. lane' = [p \in Lanes |-> [lane[p] EXCEPT !.st = "starting", !.kick = FALSE]]
    BY DEF Watch!HostStart
  <2>2. lane' = [p \in Lanes |-> [lane[p] EXCEPT !.st = "starting", !.kick = no]]
    BY <1>1, <2>1, Zenon
  <2> QED BY <2>2 DEF Watch!HostStart, Watch!HostFrame
<1>3. ASSUME NEW p \in Lanes PROVE LaneOK(lane'[p]) /\ (Sees(lane[p]) => Sees(lane'[p]))
  <2> DEFINE r == lane[p]
             a == [r EXCEPT !.st = "starting"]
             d == lane'[p]
  <2>1. d = [a EXCEPT !.kick = no] /\ LaneOK(r) /\ r.st = "stopped"
    BY <1>2 DEF WatchInv, DrainsOK, Watch!HostStart
  <2> HIDE DEF d, r
  <2>2. a = DrainOf("starting", r.fly, r.kick, r.last, r.due, r.missed)
    BY <2>1 DEF LaneOK, DrainFields, DrainOf
  <2> HIDE DEF a
  <2>3. d = DrainOf("starting", r.fly, no, r.last, r.due, r.missed)
    BY <2>1, <2>2 DEF DrainOf
  <2>4. DrainFields(d) /\ d.st = "starting" /\ d.fly = r.fly /\ d.kick = no /\ d.last = r.last /\ d.missed = r.missed
    BY <2>3, DrainOfIs
  <2>5. ~d.kick /\ ~r.kick
    BY <1>1, <2>1, <2>4 DEF LaneOK
  <2>6. LaneOK(d)
    BY <2>1, <2>4, <2>5 DEF LaneOK
  <2>7. Sees(r) => Sees(d)
    BY <2>4, <2>5 DEF Sees
  <2> QED BY <2>6, <2>7 DEF d, r
<1>4. lane' = [p \in Lanes |-> lane'[p]]
  BY <1>2
<1>5. host' # "down" /\ loop' = loop
  BY <1>2
<1> QED BY <1>2, <1>3, <1>4, <1>5, AllDrains

\* A crash keeps the invariant: a drain remembers nothing after it.
LEMMA CrashedOK ==
  ASSUME WatchInv, Watch!Crash PROVE WatchInv'
<1>1. PICK no : no = FALSE
  OBVIOUS
<1>2. /\ lane' = [p \in Lanes |-> DrainOf("stopped", "none", no, "none", no, no)]
      /\ host' = "down" /\ UNCHANGED <<log, unread, seen>> /\ loop' = Watch!Loop("retry", {}, 0)
  <2>1. lane' = [p \in Lanes |-> Watch!Drain("stopped")]
    BY DEF Watch!Crash
  <2>2. Watch!Drain("stopped") = DrainOf("stopped", "none", no, "none", no, no)
    BY <1>1, Zenon DEF Watch!Drain, DrainOf
  <2>3. lane' = [p \in Lanes |-> DrainOf("stopped", "none", no, "none", no, no)]
    BY <2>1, <2>2, Zenon
  <2> QED BY <2>3 DEF Watch!Crash, Watch!LoopFails
<1> DEFINE d == DrainOf("stopped", "none", no, "none", no, no)
<1>3. DrainFields(d) /\ d.st = "stopped" /\ d.fly = "none" /\ d.kick = no /\ d.last = "none"
  BY DrainOfIs
<1> HIDE DEF d
<1>4. ~d.kick
  BY <1>1, <1>3
<1>5. LaneOK(d) /\ Sees(d)
  BY <1>3, <1>4 DEF LaneOK, Sees
<1>6. lane' = [p \in Lanes |-> lane'[p]] /\ \A p \in Lanes : lane'[p] = d
  BY <1>2 DEF d
<1>7. \A p \in Lanes : LaneOK(lane'[p]) /\ (Sees(lane[p]) => Sees(lane'[p])) /\ lane'[p].st = "stopped"
  BY <1>3, <1>5, <1>6
<1> QED BY <1>2, <1>6, <1>7, AllDrains

\* A new event is ahead of every cursor.
LEMMA ArrivedOK ==
  ASSUME WatchInv, NEW x \in Addressed, Watch!Arrive(x) PROVE WatchInv'
<1>1. /\ log' = Append(log, x) /\ UNCHANGED <<seen, loop, lane, host>>
      /\ unread' = [p \in Lanes |-> unread[p] + IF p = x THEN 1 ELSE 0]
      /\ x \in Lanes \cup {Foreign}
  BY WatchConstants DEF Watch!Arrive, Watch!WatchAssumption
<1>2. /\ log' \in Seq(Lanes \cup {Foreign}) /\ Len(log') = Len(log) + 1 /\ log'[Len(log) + 1] = x
      /\ \A i \in 1 .. Len(log) : log'[i] = log[i]
      /\ Len(log) \in Nat
  BY <1>1 DEF WatchInv, LoopOK
<1>3. LoopOK'
  BY <1>1, <1>2 DEF WatchInv, LoopOK
<1>4. DrainsOK'
  BY <1>1 DEF WatchInv, DrainsOK
<1>5. ASSUME NEW p \in Lanes, NEW c \in Nat, c =< Len(log), p = x \/ Ahead(p, c, log) PROVE Ahead(p, c, log')
  BY <1>2, <1>5 DEF Ahead
<1>6. \A p \in Lanes : p # x => unread'[p] = unread[p]
  BY <1>1 DEF WatchInv, DrainsOK
<1>7. MailAhead'
  <2> SUFFICES ASSUME NEW p \in Lanes, unread'[p] > 0
               PROVE /\ Sees(lane[p]) \/ Ahead(p, seen, log')
                     /\ loop.pc \in {"fanout", "resync"} => p \in loop.todo \/ Sees(lane[p]) \/ Ahead(p, loop.top, log')
    BY <1>1 DEF MailAhead
  <2>1. seen \in Nat /\ seen =< Len(log) /\ (loop.pc \in {"fanout", "resync"} => loop.top \in Nat /\ loop.top =< Len(log))
    BY DEF WatchInv, LoopOK
  <2>2. CASE p = x
    BY <1>5, <2>1, <2>2
  <2>3. CASE p # x
    <3>1. unread[p] > 0
      BY <1>6, <2>3
    <3> QED BY <1>5, <2>1, <3>1 DEF WatchInv, MailAhead
  <2> QED BY <2>2, <2>3
<1> QED BY <1>3, <1>4, <1>7 DEF WatchInv

\* The loop moves on, and leaves no unread mail behind it.
LEMMA LoopGoes ==
  ASSUME WatchInv, NEW pos, NEW todo, NEW top, loop' = Watch!Loop(pos, todo, top),
         UNCHANGED <<log, unread, lane, host>>, todo \subseteq Lanes, seen' \in Nat, seen' =< Len(log),
         \A p \in Lanes : unread[p] > 0 => Sees(lane[p]) \/ Ahead(p, seen', log),
         pos \in {"fanout", "resync"} =>
           /\ top \in Nat /\ top =< Len(log)
           /\ \A p \in Lanes : unread[p] > 0 => p \in todo \/ Sees(lane[p]) \/ Ahead(p, top, log)
  PROVE  WatchInv'
<1>1. loop'.pc = pos /\ loop'.todo = todo /\ loop'.top = top /\ loop' = [pc |-> loop'.pc, todo |-> loop'.todo, top |-> loop'.top]
  BY DEF Watch!Loop
<1>2. LoopOK'
  BY <1>1 DEF WatchInv, LoopOK
<1>3. DrainsOK'
  BY DEF WatchInv, DrainsOK
<1>4. MailAhead'
  BY <1>1 DEF MailAhead
<1> QED BY <1>2, <1>3, <1>4 DEF WatchInv

\* Where the loop stands while it is not telling anyone of a poll.
LEMMA LoopRests ==
  ASSUME WatchInv, NEW pos \in {"retry", "reconcile", "poll"}, NEW todo, todo \subseteq Lanes,
         loop' = Watch!Loop(pos, todo, 0), UNCHANGED <<log, unread, lane, host, seen>>
  PROVE  WatchInv'
<1>1. seen' \in Nat /\ seen' =< Len(log) /\ \A p \in Lanes : unread[p] > 0 => Sees(lane[p]) \/ Ahead(p, seen', log)
  BY DEF WatchInv, LoopOK, MailAhead
<1> QED BY <1>1, LoopGoes

\* The loop's start, its failures and its reconciliation keep the invariant.
LEMMA LoopStepsOK ==
  ASSUME WatchInv,
         \/ Watch!LoopStart \/ Watch!TellFails \/ Watch!Reconciled
         \/ Watch!PollFails \/ Watch!CommitFails
  PROVE  WatchInv'
<1>1. CASE Watch!LoopStart
  <2>1. loop' = Watch!Loop("reconcile", Lanes, 0) /\ UNCHANGED <<log, unread, lane, host, seen>>
    BY <1>1 DEF Watch!LoopStart, Watch!WatchFrame
  <2> QED BY <2>1, LoopRests
<1>2. CASE Watch!TellFails \/ Watch!PollFails \/ Watch!CommitFails
  <2>1. loop' = Watch!Loop("retry", {}, 0) /\ UNCHANGED <<log, unread, lane, host, seen>>
    BY <1>2 DEF Watch!TellFails, Watch!PollFails, Watch!CommitFails, Watch!LoopFails, Watch!WatchFrame
  <2> QED BY <2>1, LoopRests
<1>3. CASE Watch!Reconciled
  <2>1. loop' = Watch!Loop("poll", {}, 0) /\ UNCHANGED <<log, unread, lane, host, seen>>
    BY <1>3 DEF Watch!Reconciled, Watch!WatchFrame
  <2> QED BY <2>1, LoopRests
<1> QED BY <1>1, <1>2, <1>3

\* A resync keeps the invariant: everyone is to be told.
LEMMA PollResyncOK ==
  ASSUME WatchInv, Watch!PollResync PROVE WatchInv'
<1>1. loop' = Watch!Loop("resync", Lanes, Len(log)) /\ UNCHANGED <<log, unread, lane, host, seen>>
  BY DEF Watch!PollResync, Watch!WatchFrame
<1>2. /\ seen' \in Nat /\ seen' =< Len(log) /\ Len(log) \in Nat /\ Len(log) =< Len(log)
      /\ \A p \in Lanes : unread[p] > 0 => Sees(lane[p]) \/ Ahead(p, seen', log)
  BY <1>1 DEF WatchInv, LoopOK, MailAhead
<1> QED BY <1>1, <1>2, LoopGoes

\* The cursor written after a fan-out keeps the invariant.
LEMMA CommitOK ==
  ASSUME WatchInv, Watch!Commit PROVE WatchInv'
<1>1. /\ loop' = Watch!Loop("poll", {}, 0) /\ UNCHANGED <<log, unread, lane, host>>
      /\ seen' = loop.top /\ loop.pc \in {"fanout", "resync"} /\ loop.todo = {}
  BY DEF Watch!Commit, Watch!Told, Watch!WatchFrame
<1>2. /\ seen' \in Nat /\ seen' =< Len(log)
      /\ \A p \in Lanes : unread[p] > 0 => Sees(lane[p]) \/ Ahead(p, seen', log)
  BY <1>1 DEF WatchInv, LoopOK, MailAhead
<1> QED BY <1>1, <1>2, LoopGoes

\* A poll keeps the invariant: it moves the cursor past other agents' events
\* only, or has everyone told whose events are up to the new cursor.
LEMMA PollOkOK ==
  ASSUME WatchInv, NEW k, Watch!PollOk(k) PROVE WatchInv'
<1>0. /\ k \in Nat /\ seen \in Nat /\ seen =< k /\ k =< Len(log) /\ Len(log) \in Nat /\ log \in Seq(Lanes \cup {Foreign})
      /\ UNCHANGED <<log, unread, lane, host>> /\ Foreign \notin Lanes
  BY WatchConstants DEF Watch!PollOk, WatchInv, LoopOK, Watch!WatchFrame, Watch!WatchAssumption
<1> DEFINE M == {i \in seen + 1 .. k : log[i] # Foreign}
<1>1. Watch!Matches(k) = M
  BY DEF Watch!Matches
<1>2. CASE M = {}
  <2>1. seen' = k /\ loop' = loop
    BY <1>1, <1>2 DEF Watch!PollOk
  <2>2. ASSUME NEW p \in Lanes, unread[p] > 0 PROVE Sees(lane[p]) \/ Ahead(p, seen', log)
    <3>1. CASE Ahead(p, seen, log)
      <4>1. PICK i \in seen + 1 .. Len(log) : log[i] = p
        BY <3>1 DEF Ahead
      <4>2. i \notin seen + 1 .. k
        BY <1>0, <1>2, <4>1
      <4>3. i \in k + 1 .. Len(log)
        BY <1>0, <4>1, <4>2
      <4> QED BY <2>1, <4>1, <4>3 DEF Ahead
    <3> QED BY <2>2, <3>1 DEF WatchInv, MailAhead
  <2>3. LoopOK'
    BY <1>0, <2>1 DEF WatchInv, LoopOK
  <2>4. DrainsOK'
    BY <1>0 DEF WatchInv, DrainsOK
  <2>5. MailAhead'
    BY <1>0, <2>1, <2>2 DEF WatchInv, MailAhead
  <2> QED BY <2>3, <2>4, <2>5 DEF WatchInv
<1>3. CASE M # {}
  <2> DEFINE todo == {log[i] : i \in M}
             top == CHOOSE i \in M : \A j \in M : j <= i
  <2>1. loop' = Watch!Loop("fanout", todo, top) /\ seen' = seen
    BY <1>1, <1>3 DEF Watch!PollOk
  <2>2. \E i \in M : \A j \in M : j =< i
    <3>1. M \subseteq Nat /\ \A i \in M : i =< k
      BY <1>0
    <3> HIDE DEF M
    <3> QED BY <1>0, <1>3, <3>1, LargestExists
  <2>3. top \in M /\ \A j \in M : j =< top
    BY <2>2
  <2>4. todo \subseteq Lanes
    BY <1>0
  <2>5. ASSUME NEW p \in Lanes, unread[p] > 0 PROVE p \in todo \/ Sees(lane[p]) \/ Ahead(p, top, log)
    <3>1. CASE Ahead(p, seen, log)
      <4>1. PICK i \in seen + 1 .. Len(log) : log[i] = p
        BY <3>1 DEF Ahead
      <4>2. CASE i \in M
        BY <4>1, <4>2
      <4>3. CASE i \notin M
        <5>1. i \notin seen + 1 .. k
          BY <1>0, <4>1, <4>3
        <5>2. top \in Nat /\ top =< k
          BY <1>0, <2>3
        <5> HIDE DEF top
        <5>3. i \in top + 1 .. Len(log)
          BY <1>0, <4>1, <5>1, <5>2
        <5> QED BY <4>1, <5>3 DEF Ahead
      <4> QED BY <4>2, <4>3
    <3> QED BY <2>5, <3>1 DEF WatchInv, MailAhead
  <2>6. /\ seen' \in Nat /\ seen' =< Len(log) /\ top \in Nat /\ top =< Len(log)
        /\ \A p \in Lanes : unread[p] > 0 => Sees(lane[p]) \/ Ahead(p, seen', log)
    BY <1>0, <2>1, <2>3 DEF WatchInv, MailAhead
  <2> HIDE DEF todo, top
  <2> QED BY <1>0, <2>1, <2>4, <2>5, <2>6, LoopGoes
<1> QED BY <1>2, <1>3

\* Whoever is told looks, or is known to have been told while it was down.
LEMMA KickedSees ==
  ASSUME NEW d, LaneOK(d)
  PROVE  LET e == Watch!Kicked(d) IN LaneOK(e) /\ e.st = d.st /\ Sees(e)
<1> DEFINE e == Watch!Kicked(d)
<1>1. PICK no : no = FALSE
  OBVIOUS
<1>2. PICK yes : yes = TRUE
  OBVIOUS
<1>3. PICK known : known = ("empty" \in {d.fly, d.last})
  OBVIOUS
<1>4. CASE d.st # "started"
  <2>1. e = [d EXCEPT !.missed = known]
    BY <1>3, <1>4, Zenon DEF Watch!Kicked, Watch!Remembers
  <2> HIDE DEF e
  <2>2. e = DrainOf(d.st, d.fly, d.kick, d.last, d.due, known)
    BY <2>1 DEF LaneOK, DrainFields, DrainOf
  <2>3. DrainFields(e) /\ e.st = d.st /\ e.fly = d.fly /\ e.kick = d.kick /\ e.last = d.last /\ e.missed = known
    BY <2>2, DrainOfIs
  <2>4. (d.fly = "empty" \/ d.last = "empty") => e.missed
    <3>1. (d.fly = "empty" \/ d.last = "empty") => "empty" \in {d.fly, d.last}
      OBVIOUS
    <3>2. "empty" \in {d.fly, d.last} => known
      BY <1>3
    <3> QED BY <2>3, <3>1, <3>2
  <2>5. LaneOK(e)
    BY <2>3 DEF LaneOK
  <2>6. Sees(e)
    BY <2>3, <2>4 DEF LaneOK, Sees
  <2> QED BY <2>3, <2>5, <2>6 DEF e
<1>5. CASE d.st = "started" /\ d.fly # "none"
  <2>1. e = [d EXCEPT !.kick = yes]
    BY <1>2, <1>5, Zenon DEF Watch!Kicked
  <2> HIDE DEF e
  <2>2. e = DrainOf(d.st, d.fly, yes, d.last, d.due, d.missed)
    BY <2>1 DEF LaneOK, DrainFields, DrainOf
  <2>3. DrainFields(e) /\ e.st = d.st /\ e.fly = d.fly /\ e.kick = yes
    BY <2>2, DrainOfIs
  <2>4. e.kick
    BY <1>2, <2>3
  <2>5. LaneOK(e)
    BY <1>5, <2>3 DEF LaneOK
  <2>6. Sees(e)
    BY <1>5, <2>3, <2>4 DEF LaneOK, Sees
  <2> QED BY <2>3, <2>5, <2>6 DEF e
<1>6. CASE d.st = "started" /\ d.fly = "none"
  <2> DEFINE a == [d EXCEPT !.fly = "listing"]
  <2>1. e = [a EXCEPT !.missed = no]
    BY <1>1, <1>6, Zenon DEF Watch!Kicked
  <2> HIDE DEF e
  <2>2. a = DrainOf(d.st, "listing", d.kick, d.last, d.due, d.missed)
    BY DEF LaneOK, DrainFields, DrainOf
  <2> HIDE DEF a
  <2>3. e = DrainOf(d.st, "listing", d.kick, d.last, d.due, no)
    BY <2>1, <2>2 DEF DrainOf
  <2>4. DrainFields(e) /\ e.st = d.st /\ e.fly = "listing" /\ e.kick = d.kick
    BY <2>3, DrainOfIs
  <2>5. LaneOK(e) /\ Sees(e)
    BY <2>4 DEF LaneOK, Sees
  <2> QED BY <2>4, <2>5 DEF e
<1> QED BY <1>4, <1>5, <1>6

\* A hint keeps the invariant.
LEMMA TellOK ==
  ASSUME WatchInv, NEW p \in Lanes, Watch!Tell(p) PROVE WatchInv'
<1> DEFINE d == Watch!Kicked(lane[p])
<1>1. /\ lane' = [lane EXCEPT ![p] = d] /\ LaneOK(lane[p]) /\ loop' = [loop EXCEPT !.todo = @ \ {p}]
      /\ lane = [q \in Lanes |-> lane[q]] /\ UNCHANGED <<log, unread, seen, host>>
      /\ loop = [pc |-> loop.pc, todo |-> loop.todo, top |-> loop.top]
  BY DEF Watch!Tell, Watch!WatchFrame, WatchInv, DrainsOK, LoopOK
<1>2. LaneOK(d) /\ d.st = lane[p].st /\ Sees(d)
  BY <1>1, KickedSees
<1> HIDE DEF d
<1>3. /\ lane' = [q \in Lanes |-> lane'[q]] /\ lane'[p] = d /\ \A q \in Lanes \ {p} : lane'[q] = lane[q]
  BY <1>1
<1>4. loop' = [pc |-> loop.pc, todo |-> loop.todo \ {p}, top |-> loop.top]
  BY <1>1
<1>5. /\ loop'.pc = loop.pc /\ loop'.todo = loop.todo \ {p} /\ loop'.top = loop.top
      /\ loop' = [pc |-> loop'.pc, todo |-> loop'.todo, top |-> loop'.top]
  BY <1>4
<1>6. LoopOK'
  BY <1>1, <1>5 DEF WatchInv, LoopOK
<1>7. DrainsOK'
  BY <1>1, <1>2, <1>3 DEF WatchInv, DrainsOK
<1>8. MailAhead'
  <2> SUFFICES ASSUME NEW q \in Lanes, unread[q] > 0
               PROVE /\ Sees(lane'[q]) \/ Ahead(q, seen, log)
                     /\ loop.pc \in {"fanout", "resync"} => q \in loop.todo \ {p} \/ Sees(lane'[q]) \/ Ahead(q, loop.top, log)
    BY <1>1, <1>5 DEF MailAhead
  <2>1. CASE q = p
    BY <1>2, <1>3, <2>1
  <2>2. CASE q # p
    BY <1>3, <2>2 DEF WatchInv, MailAhead
  <2> QED BY <2>1, <2>2
<1> QED BY <1>6, <1>7, <1>8 DEF WatchInv

\* What the invariant does not speak of may change.
LEMMA HealthLapsesOK ==
  ASSUME WatchInv, UNCHANGED <<log, unread, lane, host, seen, loop>> PROVE WatchInv'
<1>1. LoopOK'
  BY DEF WatchInv, LoopOK
<1>2. DrainsOK'
  BY DEF WatchInv, DrainsOK
<1>3. MailAhead'
  BY DEF WatchInv, MailAhead
<1> QED BY <1>1, <1>2, <1>3 DEF WatchInv

\* Every step of the watch keeps the mail ahead of it.
LEMMA WatchStep ==
  ASSUME WatchInv, Watch!WatchNext PROVE WatchInv'
<1>1. CASE \E a \in Addressed : Watch!Arrive(a)
  BY <1>1, ArrivedOK
<1>2. ASSUME NEW p \in Lanes, Watch!DrainNext(p) \/ Watch!AttemptFails(p) \/ Watch!LaneStartFails(p) \/ Watch!Tell(p)
      PROVE  WatchInv'
  BY <1>2, TickOK, ListOK, FoundEmptyOK, DeliveredOK, SafetyDueOK, AttemptFailsOK, LaneChangesOK, TellOK
  DEF Watch!DrainNext
<1>3. CASE Watch!HostNext
  BY <1>3, HostStartOK, HostOnlyOK, LaneChangesOK, LaneStopOK DEF Watch!HostNext
<1>4. CASE \E k \in 0 .. MaxEvents : Watch!PollOk(k)
  BY <1>4, PollOkOK
<1>5. CASE \/ Watch!LoopStart \/ Watch!TellFails \/ Watch!Reconciled \/ Watch!PollResync
           \/ Watch!PollFails \/ Watch!Commit \/ Watch!CommitFails
  BY <1>5, LoopStepsOK, PollResyncOK, CommitOK
<1>6. CASE Watch!HealthLapses
  BY <1>6, HealthLapsesOK DEF Watch!HealthLapses, Watch!WatchFrame
<1>7. CASE Watch!Crash
  BY <1>7, CrashedOK
<1> QED BY <1>1, <1>2, <1>3, <1>4, <1>5, <1>6, <1>7 DEF Watch!WatchNext

\* The invariant of the install watch holds at the start.
LEMMA WatchInitially == Watch!WatchInit => WatchInv
<1> SUFFICES ASSUME Watch!WatchInit PROVE WatchInv
  OBVIOUS
<1>1. PICK no : no = FALSE
  OBVIOUS
<1> DEFINE d == DrainOf("stopped", "none", no, "none", no, no)
<1>2. lane = [p \in Lanes |-> d] /\ host = "down"
  <2>1. Watch!Drain("stopped") = d
    BY <1>1, Zenon DEF Watch!Drain, DrainOf
  <2> HIDE DEF d
  <2>2. lane = [p \in Lanes |-> Watch!Drain("stopped")] /\ host = "down"
    BY DEF Watch!WatchInit
  <2> QED BY <2>1, <2>2, Zenon
<1>3. DrainFields(d) /\ d.st = "stopped" /\ d.fly = "none" /\ d.kick = no
  BY DrainOfIs
<1> HIDE DEF d
<1>4. LaneOK(d)
  BY <1>1, <1>3 DEF LaneOK
<1>5. lane = [p \in Lanes |-> lane[p]] /\ \A p \in Lanes : lane[p] = d
  BY <1>2
<1>6. /\ log = <<>> /\ unread = [p \in Lanes |-> 0] /\ seen = 0
      /\ loop = [pc |-> "retry", todo |-> {}, top |-> 0]
  BY DEF Watch!WatchInit, Watch!Loop
<1>7. LoopOK
  BY <1>6 DEF LoopOK
<1>8. DrainsOK
  BY <1>3, <1>4, <1>5, <1>6 DEF DrainsOK
<1>9. MailAhead
  BY <1>6 DEF MailAhead
<1> QED BY <1>7, <1>8, <1>9 DEF WatchInv

\* Under the invariant a quiet lane is covered.
LEMMA WatchSafe == WatchInv => Watch!QuietIsCovered
<1> SUFFICES ASSUME WatchInv, NEW p \in Lanes,
               lane[p].fly = "none" /\ lane[p].last = "empty" /\ unread[p] > 0 /\ ~lane[p].missed
             PROVE  Watch!HintComing(p)
  BY DEF Watch!QuietIsCovered
<1>1. Ahead(p, seen, log)
  BY DEF WatchInv, MailAhead, Sees
<1> QED BY <1>1 DEF Ahead, Watch!HintComing

-----------------------------------------------------------------------------
\* The wakes of drained profiles, while theirs is the part that moves or all rest.
LEMMA EventRests == EventInv /\ UNCHANGED eventVars => EventInv'
<1> SUFFICES ASSUME EventInv, UNCHANGED eventVars PROVE EventInv'
  OBVIOUS
<1>1. UNCHANGED <<mail, stream, cursor, listener, pending, sched, stopped, faults, crashes>>
  BY DEF eventVars
<1> QED BY <1>1, Zenon DEF EventInv, ListenerOK, SchedulerOK

\* The install watch and its drains, while another part moves.
LEMMA WatchRests == WatchInv /\ UNCHANGED watchVars => WatchInv'
  BY HealthLapsesOK DEF watchVars

\* Mail whose event the listener of wake-client.mjs has left behind
\* is with profile-scheduler.mjs: through wakes during a turn, an empty preflight that
\* raced an arrival, resyncs and a crash after the cursor was kept, and for
\* every number of profiles and events.
THEOREM MailIsNotForgotten == SessionsSpec => []NoForgottenMail
<1>1. SessionsInit => EventInv
  BY EventInitially DEF SessionsInit
<1>2. EventInv /\ [SessionsNext]_<<part, vars, eventVars, watchVars>> => EventInv'
  BY EventStep, EventRests DEF SessionsNext
<1>3. EventInv => NoForgottenMail
  BY EventSafe DEF NoForgottenMail
<1> QED BY <1>1, <1>2, <1>3, PTL DEF SessionsSpec

\* A drain lets its ticks pass over unread mail only while the hint of that
\* mail is still behind the cursor of the install watch or about to be told,
\* through restarts, failed fan-outs, resyncs and crashes, whatever the lanes
\* and the events.
THEOREM QuietLanesAreCovered == SessionsSpec => []QuietIsCovered
<1>1. SessionsInit => WatchInv
  BY WatchInitially DEF SessionsInit
<1>2. WatchInv /\ [SessionsNext]_<<part, vars, eventVars, watchVars>> => WatchInv'
  BY WatchStep, WatchRests DEF SessionsNext
<1>3. WatchInv => QuietIsCovered
  BY WatchSafe DEF QuietIsCovered
<1> QED BY <1>1, <1>2, <1>3, PTL DEF SessionsSpec
=============================================================================
