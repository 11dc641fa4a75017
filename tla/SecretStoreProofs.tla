------------------------- MODULE SecretStoreProofs -------------------------
(***************************************************************************)
(* Proofs about SecretStore: types, the inductive invariant of the version *)
(* counter, the two safety properties it implies, that a refused request   *)
(* leaves no trace, that a secret at rest is versioned, and the refinement *)
(* of CasCounter.                                                          *)
(***************************************************************************)
EXTENDS SecretStore, TLAPS

(* A request before its bump, or one that never bumps, holds no ticket. *)
NotYet(r) ==
  \/ pc[r] \in {"idle", "get", "getVersion", "find", "bump", "commit",
                "getCurrent", "del", "delVersion", "delMtime"}
  \/ pc[r] = "put" /\ op[r] = "POST"

TicketOnlyAfterBump == \A r \in Req : NotYet(r) => ticket[r] = NoStamp

(* An open transaction read a version its request accepts. *)
SnapshotAccepted ==
  \A r \in Req : pc[r] = "commit" => want[r] \in {-1, snap[r].ver}

(* A PATCH never bumps unconditionally. *)
PatchIsConditional ==
  \A r \in Req : op[r] = "PATCH" /\ pc[r] \in {"find", "bump", "commit"} => want[r] >= 0

(* The heart of it: what a transaction that can still commit has read is   *)
(* what the row holds now.                                                 *)
FreshIsCurrent == \A r \in fresh : snap[r] = Now

(* Nothing is dated later than the counter. *)
TicketsArePast ==
  \A r \in Req : Committed(r) =>
    /\ ticket[r].ver > 0 /\ ticket[r].era <= epoch
    /\ ticket[r].era = epoch => ticket[r].ver <= version

BirthsArePast ==
  \A r \in Req : /\ born[r].era <= epoch
                 /\ born[r].era = epoch => born[r].ver <= version

Local == TicketOnlyAfterBump /\ SnapshotAccepted /\ PatchIsConditional /\ FreshIsCurrent
Dated   == TicketsArePast /\ BirthsArePast
CounterOK == CommitsAreUnique /\ StalePatchNeverCommits

IInv == TypeOK /\ Local /\ Dated /\ CounterOK

-----------------------------------------------------------------------------
(* The initial state satisfies the inductive invariant. *)
THEOREM InitIInv == Init => IInv
  BY NoneAssumption, BoundsAssumption
  DEF Init, IInv, TypeOK, Local, Dated, CounterOK, TicketOnlyAfterBump, SnapshotAccepted,
      PatchIsConditional, FreshIsCurrent, TicketsArePast, BirthsArePast, CommitsAreUnique, StalePatchNeverCommits,
      Committed, NoStamp, Stamp, Now, Labels, Codes, Methods, NotYet

-----------------------------------------------------------------------------
(* Types. *)

(* Arrivals keep the types. *)
LEMMA StartTypes ==
  ASSUME TypeOK, NEW r \in Req, Start(r)
  PROVE  TypeOK'
<1> USE DEF Arrive, Goto, TypeOK, rows, env, Now, Stamp, Labels, Methods, Codes
<1>1. CASE StartGet(r)
  BY <1>1 DEF StartGet
<1>2. CASE StartPost(r)
  BY <1>2 DEF StartPost
<1>3. CASE StartDelete(r)
  BY <1>3 DEF StartDelete
<1>4. ASSUME NEW h \in Given, NEW b \in Given, StartPatch(r, h, b)
      PROVE  TypeOK'
  <2>1. Expected(h, b) \in Int
    BY BoundsAssumption DEF Expected, HeaderVersion, Given, Absent
  <2> HIDE DEF Expected
  <2>2. CASE Disagree(h, b) /\ Reply(r, 400) /\ UNCHANGED want
    BY <1>4, <2>2 DEF StartPatch, Reply
  <2>3. CASE Reply(r, 428) /\ UNCHANGED want
    BY <1>4, <2>3 DEF StartPatch, Reply
  <2>4. CASE Goto(r, "find") /\ want' = [want EXCEPT ![r] = Expected(h, b)]
    BY <1>4, <2>1, <2>4 DEF StartPatch
  <2> QED
    BY <1>4, <2>2, <2>3, <2>4 DEF StartPatch
<1> QED
  BY <1>1, <1>2, <1>3, <1>4 DEF Start

(* So do the transactions of the handlers. *)
LEMMA StepTypes ==
  ASSUME TypeOK, NEW r \in Req, Step(r)
  PROVE  TypeOK'
<1> USE BoundsAssumption
    DEF Goto, Reply, After, Fault, NoFault, Finds, Misses, TypeOK, rows, locals, history, env,
        Labels, Methods, Codes
<1>1. CASE ReadValue(r)
  BY <1>1 DEF ReadValue
<1>2. CASE ReadVersion(r)
  BY <1>2 DEF ReadVersion
<1>3. CASE Find(r)
  BY <1>3 DEF Find
<1>4. CASE Put(r)
  <2>1. CASE op[r] = "POST"
    BY <1>4, <2>1 DEF Put
  <2>2. CASE op[r] # "POST"
    BY <1>4, <2>2 DEF Put
  <2> QED
    BY <2>1, <2>2
<1>5. CASE BumpRead(r)
  <2>1. CASE /\ NoFault /\ Goto(r, "commit") /\ fresh' = fresh \cup {r}
             /\ snap' = [snap EXCEPT ![r] = Now] /\ ver' = [ver EXCEPT ![r] = version + 1]
    <3>1. snap' \in [Req -> Stamp] /\ ver' \in [Req -> Nat]
      BY <2>1 DEF Now, Stamp
    <3>2. fresh' \subseteq {q \in Req : pc'[q] = "commit"}
      BY <2>1
    <3> QED
      BY <1>5, <2>1, <3>1, <3>2 DEF BumpRead, Accepts
  <2>2. CASE NoFault /\ Goto(r, "getCurrent") /\ UNCHANGED <<snap, ver, fresh>>
    BY <1>5, <2>2 DEF BumpRead, Accepts
  <2>3. CASE Fault /\ BumpFails(r) /\ UNCHANGED <<snap, ver, fresh>>
    <3>1. CASE op[r] = "POST"
      BY <1>5, <2>3, <3>1 DEF BumpRead, BumpFails, Accepts
    <3>2. CASE op[r] # "POST"
      BY <1>5, <2>3, <3>2 DEF BumpRead, BumpFails, Accepts
    <3> QED
      BY <3>1, <3>2
  <2> QED
    BY <1>5, <2>1, <2>2, <2>3 DEF BumpRead, Accepts
<1>6. CASE BumpCommit(r)
  <2>1. CASE CommitSucceeds(r) /\ op[r] = "POST"
    BY <1>6, <2>1 DEF BumpCommit, CommitSucceeds, TouchVersion, Stamp
  <2>2. CASE CommitSucceeds(r) /\ op[r] # "POST"
    BY <1>6, <2>2 DEF BumpCommit, CommitSucceeds, TouchVersion, Stamp
  <2>3. CASE CommitFails(r) /\ op[r] = "POST"
    BY <1>6, <2>3 DEF BumpCommit, CommitFails, BumpFails
  <2>4. CASE CommitFails(r) /\ op[r] # "POST"
    BY <1>6, <2>4 DEF BumpCommit, CommitFails, BumpFails
  <2> QED
    BY <1>6, <2>1, <2>2, <2>3, <2>4 DEF BumpCommit
<1>7. CASE ReportMismatch(r)
  BY <1>7 DEF ReportMismatch
<1>8. CASE StampMtime(r)
  <2>1. CASE op[r] = "POST"
    BY <1>8, <2>1 DEF StampMtime
  <2>2. CASE op[r] # "POST"
    BY <1>8, <2>2 DEF StampMtime
  <2> QED
    BY <2>1, <2>2
<1>9. CASE DeleteSecret(r)
  BY <1>9 DEF DeleteSecret
<1>10. CASE DeleteVersion(r)
  BY <1>10 DEF DeleteVersion, TouchVersion
<1>11. CASE DeleteMtime(r)
  BY <1>11 DEF DeleteMtime
<1> QED
  BY <1>1, <1>2, <1>3, <1>4, <1>5, <1>6, <1>7, <1>8, <1>9, <1>10, <1>11 DEF Step

(* And the crash, which forgets every open transaction. *)
LEMMA TypeStep == TypeOK /\ [Next]_vars => TypeOK'
<1> SUFFICES ASSUME TypeOK, [Next]_vars PROVE TypeOK'
  OBVIOUS
<1>1. CASE Crash
  BY <1>1, BoundsAssumption DEF Crash, TypeOK, rows, locals, history, Labels
<1>2. CASE UNCHANGED vars
  BY <1>2 DEF vars, TypeOK, rows, locals, history, env
<1> QED
  BY <1>1, <1>2, StartTypes, StepTypes DEF Next

-----------------------------------------------------------------------------
(* The handlers' side of the invariant.                                    *)

(* Steps that neither open a bump transaction nor write the version row.   *)
Quiet(r) == \/ ReadValue(r) \/ ReadVersion(r) \/ Find(r) \/ Put(r) \/ ReportMismatch(r)
            \/ StampMtime(r) \/ DeleteSecret(r) \/ DeleteMtime(r)

(* What a quiet step leaves alone, and where it may leave its request: a   *)
(* request without a ticket does not get past the bump.                    *)
LEMMA QuietFrame ==
  ASSUME TypeOK, NEW r \in Req, Quiet(r)
  PROVE  /\ UNCHANGED <<version, epoch, fresh, ticket, born, op, want, snap>>
         /\ \A q \in Req \ {r} : pc'[q] = pc[q]
         /\ pc'[r] \notin {"find", "commit"}
         /\ pc'[r] = "bump" => pc[r] = "find" \/ op[r] = "POST"
         /\ NotYet(r)' => NotYet(r)
<1> USE DEF Goto, Reply, After, TypeOK, rows, locals, history, NotYet
<1>1. CASE ReadValue(r)
  BY <1>1 DEF ReadValue
<1>2. CASE ReadVersion(r)
  BY <1>2 DEF ReadVersion
<1>3. CASE Find(r)
  BY <1>3 DEF Find
<1>4. CASE Put(r)
  <2>1. CASE op[r] = "POST"
    BY <1>4, <2>1 DEF Put
  <2>2. CASE op[r] # "POST"
    BY <1>4, <2>2 DEF Put
  <2> QED
    BY <2>1, <2>2
<1>5. CASE ReportMismatch(r)
  BY <1>5 DEF ReportMismatch
<1>6. CASE StampMtime(r)
  BY <1>6 DEF StampMtime
<1>7. CASE DeleteSecret(r)
  BY <1>7 DEF DeleteSecret
<1>8. CASE DeleteMtime(r)
  BY <1>8 DEF DeleteMtime
<1> QED
  BY <1>1, <1>2, <1>3, <1>4, <1>5, <1>6, <1>7, <1>8 DEF Quiet

(* An arrival concerns one idle request. *)
LEMMA StartFrame ==
  ASSUME TypeOK, NEW r \in Req, Start(r)
  PROVE  /\ UNCHANGED <<version, epoch, fresh, ticket, snap>>
         /\ \A q \in Req \ {r} : /\ pc'[q] = pc[q] /\ op'[q] = op[q]
                                 /\ want'[q] = want[q] /\ born'[q] = born[q]
         /\ pc[r] = "idle" /\ pc'[r] \notin {"bump", "commit"}
         /\ born'[r] = Now
         /\ pc'[r] = "find" => want'[r] >= 0
<1> USE DEF Arrive, Goto, Reply, TypeOK, rows
<1>1. CASE StartGet(r)
  BY <1>1 DEF StartGet
<1>2. CASE StartPost(r)
  BY <1>2 DEF StartPost
<1>3. CASE StartDelete(r)
  BY <1>3 DEF StartDelete
<1>4. ASSUME NEW h \in Given, NEW b \in Given, StartPatch(r, h, b)
      PROVE  /\ UNCHANGED <<version, epoch, fresh, ticket, snap>>
             /\ \A q \in Req \ {r} : /\ pc'[q] = pc[q] /\ op'[q] = op[q]
                                     /\ want'[q] = want[q] /\ born'[q] = born[q]
             /\ pc[r] = "idle" /\ pc'[r] \notin {"bump", "commit"}
             /\ born'[r] = Now
             /\ pc'[r] = "find" => want'[r] >= 0
  BY <1>4 DEF StartPatch
<1> QED
  BY <1>1, <1>2, <1>3, <1>4 DEF Start

(* Opening a bump transaction writes nothing. *)
LEMMA BumpReadFrame ==
  ASSUME TypeOK, NEW r \in Req, BumpRead(r)
  PROVE  /\ UNCHANGED <<version, epoch, ticket, born, op, want>>
         /\ \A q \in Req \ {r} : pc'[q] = pc[q] /\ snap'[q] = snap[q]
         /\ pc[r] = "bump"
         /\ fresh' \subseteq fresh \cup {r}
         /\ r \in fresh' => snap'[r] = Now
         /\ pc'[r] = "commit" => want[r] \in {-1, version} /\ snap'[r] = Now
<1> USE DEF Goto, Reply, TypeOK, rows, locals, history
<1>1. CASE want[r] \in {-1, version} /\ NoFault /\ snap' = [snap EXCEPT ![r] = Now]
           /\ fresh' = fresh \cup {r} /\ Goto(r, "commit")
  BY <1>1 DEF BumpRead, Accepts
<1>2. CASE Goto(r, "getCurrent") /\ UNCHANGED <<snap, ver, fresh>>
  BY <1>2 DEF BumpRead, Accepts
<1>3. CASE BumpFails(r) /\ UNCHANGED <<snap, ver, fresh>>
  BY <1>3 DEF BumpRead, BumpFails, Accepts
<1> QED
  BY <1>1, <1>2, <1>3 DEF BumpRead, Accepts

(* A commit either takes the next version or changes no row. *)
LEMMA BumpCommitFrame ==
  ASSUME TypeOK, NEW r \in Req, BumpCommit(r)
  PROVE  /\ UNCHANGED <<epoch, born, op, want, snap>>
         /\ \A q \in Req \ {r} : pc'[q] = pc[q]
         /\ pc[r] = "commit" /\ pc'[r] \in {"stamp", "put", "done"}
         /\ \/ /\ r \in fresh /\ fresh' = {}
               /\ pc'[r] = "put" => op[r] # "POST"
               /\ version' = snap[r].ver + 1
               /\ ticket' = [ticket EXCEPT ![r] = [era |-> epoch, ver |-> snap[r].ver + 1]]
            \/ /\ fresh' \subseteq fresh /\ UNCHANGED <<version, ticket>>
               /\ pc'[r] # "put"
<1> USE DEF Goto, Reply, After, TypeOK, locals
<1>1. CASE CommitSucceeds(r)
  <2>1. CASE op[r] = "POST"
    BY <1>1, <2>1 DEF BumpCommit, CommitSucceeds, TouchVersion
  <2>2. CASE op[r] # "POST"
    BY <1>1, <2>2 DEF BumpCommit, CommitSucceeds, TouchVersion
  <2> QED
    BY <2>1, <2>2
<1>2. CASE CommitFails(r)
  BY <1>2 DEF BumpCommit, CommitFails, BumpFails
<1> QED
  BY <1>1, <1>2 DEF BumpCommit

(* Deleting the version row opens a new era, or fails. *)
LEMMA DeleteVersionFrame ==
  ASSUME TypeOK, NEW r \in Req, DeleteVersion(r)
  PROVE  /\ UNCHANGED <<ticket, born, op, want, snap>>
         /\ \A q \in Req \ {r} : pc'[q] = pc[q]
         /\ pc[r] = "delVersion" /\ pc'[r] = "delMtime"
         /\ \/ fresh' = {} /\ version' = 0 /\ epoch' = epoch + 1
            \/ UNCHANGED <<version, fresh, epoch>>
  BY DEF DeleteVersion, TouchVersion, Goto, TypeOK, locals

LEMMA CrashFrame ==
  ASSUME TypeOK, Crash
  PROVE  /\ UNCHANGED <<version, epoch, ticket, born, op, want, snap>>
         /\ \A q \in Req : pc'[q] \in {pc[q], "lost"}
         /\ fresh' = {}
  BY DEF Crash, TypeOK, rows, locals, history

(* A stale transaction apart, only five kinds of step matter. *)
LEMMA NextCases ==
  ASSUME [Next]_vars
  PROVE  \/ UNCHANGED vars
         \/ Crash
         \/ \E r \in Req : \/ Start(r) \/ Quiet(r) \/ BumpRead(r) \/ BumpCommit(r)
                           \/ DeleteVersion(r)
  BY DEF Next, Step, Quiet

(* No step breaks what the handlers rely on. *)
LEMMA LocalStep == TypeOK /\ Local /\ [Next]_vars => Local'
<1> SUFFICES ASSUME TypeOK, Local, [Next]_vars PROVE Local'
  OBVIOUS
<1> USE DEF Local, TicketOnlyAfterBump, SnapshotAccepted, PatchIsConditional, FreshIsCurrent
<1>1. CASE UNCHANGED vars
  BY <1>1 DEF vars, rows, locals, history, NotYet, Now
<1>2. CASE Crash
  <2>1. UNCHANGED <<version, epoch, ticket, op, want, snap>> /\ fresh' = {}
    BY <1>2, CrashFrame
  <2>2. \A q \in Req : pc'[q] # "lost" => pc'[q] = pc[q]
    BY <1>2, CrashFrame
  <2>3. \A q \in Req : NotYet(q)' => NotYet(q)
    BY <2>1, <2>2 DEF NotYet
  <2>4. TicketOnlyAfterBump'
    BY <2>1, <2>3
  <2>5. SnapshotAccepted' /\ PatchIsConditional'
    BY <2>1, <2>2
  <2>6. FreshIsCurrent'
    BY <2>1
  <2> QED
    BY <2>4, <2>5, <2>6
<1>3. ASSUME NEW r \in Req, Start(r) PROVE Local'
  <2>1. fresh \subseteq Req \ {r}
    BY <1>3, StartFrame DEF TypeOK
  <2>2. NotYet(r) /\ ticket[r] = NoStamp
    BY <1>3, StartFrame DEF NotYet
  <2> QED
    BY <1>3, <2>1, <2>2, StartFrame DEF NotYet, Now
<1>4. ASSUME NEW r \in Req, Quiet(r) PROVE Local'
  <2>1. TicketOnlyAfterBump'
    BY <1>4, QuietFrame DEF NotYet
  <2>2. SnapshotAccepted' /\ PatchIsConditional'
    BY <1>4, QuietFrame
  <2>3. FreshIsCurrent'
    BY <1>4, QuietFrame DEF Now
  <2> QED
    BY <2>1, <2>2, <2>3
<1>5. ASSUME NEW r \in Req, BumpRead(r) PROVE Local'
  <2>1. TicketOnlyAfterBump'
    BY <1>5, BumpReadFrame DEF NotYet
  <2>2. SnapshotAccepted' /\ PatchIsConditional'
    BY <1>5, BumpReadFrame DEF Now
  <2>3. FreshIsCurrent'
    BY <1>5, BumpReadFrame DEF Now, TypeOK
  <2> QED
    BY <2>1, <2>2, <2>3
<1>6. ASSUME NEW r \in Req, BumpCommit(r) PROVE Local'
  <2>1. TicketOnlyAfterBump'
    BY <1>6, BumpCommitFrame DEF NotYet, TypeOK
  <2>2. SnapshotAccepted' /\ PatchIsConditional'
    BY <1>6, BumpCommitFrame
  <2>3. FreshIsCurrent'
    BY <1>6, BumpCommitFrame DEF Now
  <2> QED
    BY <2>1, <2>2, <2>3
<1>7. ASSUME NEW r \in Req, DeleteVersion(r) PROVE Local'
  <2>1. TicketOnlyAfterBump' /\ SnapshotAccepted' /\ PatchIsConditional'
    BY <1>7, DeleteVersionFrame DEF NotYet
  <2>2. FreshIsCurrent'
    BY <1>7, DeleteVersionFrame DEF Now
  <2> QED
    BY <2>1, <2>2
<1> QED
  BY <1>1, <1>2, <1>3, <1>4, <1>5, <1>6, <1>7, NextCases

-----------------------------------------------------------------------------
(* The counter's side.                                                     *)

(* Steps that keep the counter and its history, and the method and the     *)
(* condition of whoever holds a ticket, keep the counter's invariant.      *)
LEMMA CounterFrame ==
  ASSUME TypeOK, Dated, CounterOK, UNCHANGED <<version, epoch, ticket>>,
         \A q \in Req : Committed(q) => op'[q] = op[q] /\ want'[q] = want[q] /\ born'[q] = born[q],
         \A q \in Req : born'[q] = born[q] \/ born'[q] = Now
  PROVE  Dated' /\ CounterOK'
<1> USE DEF Committed
<1>1. TicketsArePast'
  BY DEF Dated, TicketsArePast
<1>2. BirthsArePast'
  BY DEF Dated, BirthsArePast, Now, TypeOK
<1>3. CommitsAreUnique'
  BY DEF CounterOK, CommitsAreUnique
<1>4. StalePatchNeverCommits'
  BY DEF CounterOK, StalePatchNeverCommits
<1> QED
  BY <1>1, <1>2, <1>3, <1>4 DEF Dated, CounterOK

(* A commit takes the version after the current one, which nobody holds. *)
LEMMA CommitKeepsCounter ==
  ASSUME IInv, NEW r \in Req, BumpCommit(r)
  PROVE  Dated' /\ CounterOK'
<1>1. CASE UNCHANGED <<version, ticket>>
  BY <1>1, BumpCommitFrame, CounterFrame DEF IInv
<1>2. CASE /\ r \in fresh
           /\ version' = snap[r].ver + 1
           /\ ticket' = [ticket EXCEPT ![r] = [era |-> epoch, ver |-> snap[r].ver + 1]]
  <2>0. UNCHANGED <<epoch, born, op, want, snap>> /\ pc[r] = "commit"
    BY BumpCommitFrame DEF IInv
  <2>1. snap[r] = Now /\ snap[r].ver = version /\ ticket[r] = NoStamp
    BY <1>2, <2>0 DEF IInv, Local, FreshIsCurrent, TicketOnlyAfterBump, NotYet, Now
  <2>2. /\ version' = version + 1 /\ ticket'[r] = [era |-> epoch, ver |-> version + 1]
        /\ \A q \in Req \ {r} : ticket'[q] = ticket[q]
    BY <1>2, <2>1 DEF IInv, TypeOK
  <2>3. version \in Nat /\ epoch \in Nat /\ ticket \in [Req -> Stamp] /\ born \in [Req -> Stamp]
    BY DEF IInv, TypeOK
  <2>4. TicketsArePast'
    BY <2>0, <2>2, <2>3 DEF IInv, Dated, TicketsArePast, Committed, Stamp, NoStamp
  <2>5. BirthsArePast'
    BY <2>0, <2>2, <2>3 DEF IInv, Dated, BirthsArePast, Stamp
  <2>6. CommitsAreUnique'
    <3>1. ASSUME NEW n \in 1 .. version'
          PROVE  \E q \in Req : ticket'[q] = [era |-> epoch', ver |-> n]
      <4>1. CASE n = version + 1
        BY <4>1, <2>0, <2>2
      <4>2. CASE n \in 1 .. version
        <5>1. PICK q \in Req : ticket[q] = [era |-> epoch, ver |-> n]
          BY <4>2 DEF IInv, CounterOK, CommitsAreUnique
        <5>2. q # r
          BY <5>1, <4>2, <2>1, <2>3 DEF NoStamp
        <5> QED
          BY <5>1, <5>2, <2>0, <2>2
      <4> QED
        BY <4>1, <4>2, <2>2, <2>3
    <3>2. ASSUME NEW q \in Req, NEW s \in Req, Committed(q)', ticket'[q] = ticket'[s]
          PROVE  q = s
      <4>1. ASSUME NEW t \in Req \ {r} PROVE ticket[t] # ticket'[r]
        BY <2>2, <2>3 DEF IInv, Dated, TicketsArePast, Committed, NoStamp, Stamp
      <4>2. CASE q # r /\ s # r
        BY <3>2, <4>2, <2>2 DEF IInv, CounterOK, CommitsAreUnique, Committed
      <4> QED
        BY <3>2, <4>1, <4>2, <2>2
    <3> QED
      BY <3>1, <3>2 DEF CommitsAreUnique
  <2>7. StalePatchNeverCommits'
    <3>1. op[r] = "PATCH" /\ born[r].era = epoch => want[r] >= born[r].ver
      BY <2>0, <2>1, <2>3 DEF IInv, Local, SnapshotAccepted, PatchIsConditional, Dated, BirthsArePast, Stamp
    <3> QED
      BY <3>1, <2>0, <2>2, <2>3 DEF IInv, CounterOK, StalePatchNeverCommits, Committed
  <2> QED
    BY <2>4, <2>5, <2>6, <2>7 DEF Dated, CounterOK
<1> QED
  BY <1>1, <1>2, BumpCommitFrame DEF IInv

(* A deletion starts an era in which no version has been taken. *)
LEMMA DeleteKeepsCounter ==
  ASSUME IInv, NEW r \in Req, DeleteVersion(r)
  PROVE  Dated' /\ CounterOK'
<1>0. version \in Nat /\ epoch \in Nat /\ ticket \in [Req -> Stamp] /\ born \in [Req -> Stamp]
  BY DEF IInv, TypeOK
<1>1. CASE UNCHANGED <<version, fresh, epoch>>
  BY <1>1, DeleteVersionFrame, CounterFrame DEF IInv
<1>2. CASE version' = 0 /\ epoch' = epoch + 1
  <2>0. UNCHANGED <<ticket, born, op, want>>
    BY DeleteVersionFrame DEF IInv
  <2>1. TicketsArePast'
    BY <1>0, <1>2, <2>0 DEF IInv, Dated, TicketsArePast, Committed, Stamp
  <2>2. BirthsArePast'
    BY <1>0, <1>2, <2>0 DEF IInv, Dated, BirthsArePast, Stamp
  <2>3. CommitsAreUnique'
    BY <1>0, <1>2, <2>0 DEF IInv, CounterOK, CommitsAreUnique, Committed
  <2>4. StalePatchNeverCommits'
    BY <2>0 DEF IInv, CounterOK, StalePatchNeverCommits, Committed
  <2> QED
    BY <2>1, <2>2, <2>3, <2>4 DEF Dated, CounterOK
<1> QED
  BY <1>1, <1>2, DeleteVersionFrame DEF IInv

(* Every step preserves the inductive invariant. *)
THEOREM NextIInv == IInv /\ [Next]_vars => IInv'
<1> SUFFICES ASSUME IInv, [Next]_vars PROVE IInv'
  OBVIOUS
<1>1. TypeOK' /\ Local'
  BY TypeStep, LocalStep DEF IInv
<1>2. Dated' /\ CounterOK'
  <2>1. CASE UNCHANGED vars
    BY <2>1, CounterFrame DEF IInv, vars, rows, locals, history
  <2>2. CASE Crash
    BY <2>2, CrashFrame, CounterFrame DEF IInv
  <2>3. ASSUME NEW r \in Req, Start(r) PROVE Dated' /\ CounterOK'
    <3>1. ticket[r] = NoStamp
      BY <2>3, StartFrame DEF IInv, Local, TicketOnlyAfterBump, NotYet
    <3> QED
      BY <2>3, <3>1, StartFrame, CounterFrame DEF IInv, Committed
  <2>4. ASSUME NEW r \in Req, Quiet(r) PROVE Dated' /\ CounterOK'
    BY <2>4, QuietFrame, CounterFrame DEF IInv
  <2>5. ASSUME NEW r \in Req, BumpRead(r) PROVE Dated' /\ CounterOK'
    BY <2>5, BumpReadFrame, CounterFrame DEF IInv
  <2> QED
    BY <2>1, <2>2, <2>3, <2>4, <2>5, CommitKeepsCounter, DeleteKeepsCounter, NextCases
<1> QED
  BY <1>1, <1>2 DEF IInv

(* The inductive invariant holds in every behaviour of the handlers. *)
THEOREM InductiveInvariant == Spec => []IInv
  BY InitIInv, NextIInv, PTL DEF Spec

-----------------------------------------------------------------------------
(* The results.                                                            *)

(* Every variable keeps its type, and an open transaction is one that      *)
(* waits to commit.                                                        *)
THEOREM TypeCorrect == Spec => []TypeOK
  BY InductiveInvariant, PTL DEF IInv

(* Replay protection: a PATCH that arrives after its version is gone does  *)
(* not commit in that era.                                                 *)
THEOREM ReplayProtection == Spec => []StalePatchNeverCommits
  BY InductiveInvariant, PTL DEF IInv, CounterOK

-----------------------------------------------------------------------------
(* Refusals.                                                               *)

(* A request that is told its write did not happen.                        *)
Refused(r) == status[r] \in {400, 404, 409, 428}

(* A request that has written neither value nor time, and bumped nothing.  *)
Early(r) ==
  \/ pc[r] \in {"idle", "get", "getVersion", "find", "getCurrent", "del", "delVersion", "delMtime"}
  \/ pc[r] \in {"bump", "commit"} /\ op[r] # "POST"
  \/ pc[r] = "put" /\ op[r] = "POST"

(* Neither its version nor its value nor its time is there.                *)
Traceless(r) == ~Committed(r) /\ secret # r /\ mtime # r

(* What holds of one request on its way to a refusal. *)
Orderly(r) ==
  /\ status[r] # 0 => pc[r] = "done"
  /\ pc[r] = "idle" \/ op[r] # "PATCH" => want[r] = -1
  /\ Early(r) \/ Refused(r) => Traceless(r)

TraceInv == \A r \in Req : Orderly(r)

(* Before the first request there is no mark and nobody on the way.        *)
LEMMA InitTrace == Init => TraceInv
  BY NoneAssumption DEF Init, TraceInv, Orderly, Early, Refused, Traceless, Committed

(* A step of one request does not touch the locals of another, and can     *)
(* only put its own mark on a row, or clear it.                            *)
LEMMA OthersKeepOrder ==
  ASSUME TypeOK, NEW r \in Req, Start(r) \/ Step(r), NEW q \in Req \ {r}, Orderly(q)
  PROVE  Orderly(q)'
<1> USE DEF Start, StartGet, StartPost, StartDelete, StartPatch, Arrive, Goto, Reply, TypeOK, rows, locals, history,
            Step, ReadValue, ReadVersion, Find, Put, BumpRead, BumpCommit, BumpFails, CommitSucceeds, CommitFails,
            ReportMismatch, StampMtime, DeleteSecret, DeleteVersion, DeleteMtime
<1>1. secret' \in {secret, r, None} /\ mtime' \in {mtime, r, None}
  OBVIOUS
<1>2. pc'[q] = pc[q] /\ status'[q] = status[q]
  OBVIOUS
<1>3. op'[q] = op[q] /\ want'[q] = want[q] /\ ticket'[q] = ticket[q]
  OBVIOUS
<1> QED
  BY <1>1, <1>2, <1>3, NoneAssumption DEF Orderly, Early, Refused, Traceless, Committed

(* An arrival has written nothing yet.                                     *)
LEMMA StartKeepsOrder ==
  ASSUME TypeOK, NEW r \in Req, Start(r), Orderly(r)
  PROVE  Orderly(r)'
<1> USE DEF Arrive, Goto, Reply, TypeOK, rows, Orderly, Early, Refused, Traceless, Committed
<1>1. CASE StartGet(r)
  BY <1>1 DEF StartGet
<1>2. CASE StartPost(r)
  BY <1>2 DEF StartPost
<1>3. CASE StartDelete(r)
  BY <1>3 DEF StartDelete
<1>4. ASSUME NEW h \in Given, NEW b \in Given, StartPatch(r, h, b) PROVE Orderly(r)'
  BY <1>4 DEF StartPatch
<1> QED
  BY <1>1, <1>2, <1>3, <1>4 DEF Start

(* No step of a request refuses it after it has left its mark on a row:    *)
(* POST stores before it bumps and is never refused after that, PATCH      *)
(* bumps before it stores.                                                 *)
LEMMA StepKeepsOrder ==
  ASSUME TypeOK, NEW r \in Req, Step(r), Orderly(r)
  PROVE  Orderly(r)'
<1> USE NoneAssumption DEF Goto, Reply, After, TypeOK, rows, locals, history, Orderly, Early, Refused, Traceless, Committed
<1>1. CASE ReadValue(r)
  BY <1>1 DEF ReadValue
<1>2. CASE ReadVersion(r)
  BY <1>2 DEF ReadVersion
<1>3. CASE Find(r)
  BY <1>3 DEF Find
<1>4. CASE Put(r)
  BY <1>4 DEF Put
<1>5. CASE BumpRead(r)
  BY <1>5 DEF BumpRead, BumpFails, Accepts
<1>6. CASE BumpCommit(r)
  BY <1>6 DEF BumpCommit, BumpFails, CommitSucceeds, CommitFails
<1>7. CASE ReportMismatch(r)
  BY <1>7 DEF ReportMismatch
<1>8. CASE StampMtime(r)
  BY <1>8 DEF StampMtime
<1>9. CASE DeleteSecret(r)
  BY <1>9 DEF DeleteSecret
<1>10. CASE DeleteVersion(r)
  BY <1>10 DEF DeleteVersion
<1>11. CASE DeleteMtime(r)
  BY <1>11 DEF DeleteMtime
<1> QED
  BY <1>1, <1>2, <1>3, <1>4, <1>5, <1>6, <1>7, <1>8, <1>9, <1>10, <1>11 DEF Step

(* No step of the system lets a refused request leave a mark.              *)
LEMMA TraceStep == TypeOK /\ TraceInv /\ [Next]_vars => TraceInv'
<1> SUFFICES ASSUME TypeOK, TraceInv, [Next]_vars PROVE TraceInv'
  OBVIOUS
<1>1. CASE UNCHANGED vars
  BY <1>1 DEF vars, rows, locals, history, TraceInv, Orderly, Early, Refused, Traceless, Committed
<1>2. CASE Crash
  BY <1>2 DEF Crash, Busy, TypeOK, rows, locals, history, TraceInv, Orderly, Early, Refused, Traceless, Committed
<1>3. ASSUME NEW r \in Req, Start(r) \/ Step(r) PROVE TraceInv'
  BY <1>3, OthersKeepOrder, StartKeepsOrder, StepKeepsOrder DEF TraceInv
<1> QED
  BY <1>1, <1>2, <1>3 DEF Next

(* A request answered 400, 404, 409 or 428 has stored no value, no time    *)
(* and no version, for any number of requests, faults and crashes.         *)
THEOREM NoTraceOfRefusals == Spec => []RefusedLeavesNoTrace
<1>1. TraceInv => RefusedLeavesNoTrace
  BY DEF TraceInv, Orderly, Refused, Traceless, RefusedLeavesNoTrace
<1> QED
  BY <1>1, InitTrace, TraceStep, TypeCorrect, PTL DEF Spec

-----------------------------------------------------------------------------
(* Settled secrets.                                                        *)

(* What a place in a handler says of the method. *)
Placed(r) ==
  /\ pc[r] = "idle" => op[r] = "GET"
  /\ pc[r] \in {"get", "getVersion"} => op[r] = "GET"
  /\ pc[r] = "find" => op[r] = "PATCH"
  /\ pc[r] \in {"del", "delVersion", "delMtime"} => op[r] = "DELETE"
  /\ pc[r] \in {"put", "bump", "commit", "stamp"} => op[r] \in {"POST", "PATCH"}

AllPlaced == \A r \in Req : Placed(r)

(* POST and PATCH alone, no database failure and no crash. *)
Plain == faults = 0 /\ crashes = 0 /\ \A r \in Req : op[r] # "DELETE"

(* A POST between its value and its version; a write between its version   *)
(* and its modification time.                                              *)
OwesVersion(r) == op[r] = "POST" /\ pc[r] \in {"bump", "commit"}
OwesMtime(r)   == pc[r] = "stamp" \/ (pc[r] = "put" /\ op[r] = "PATCH")

(* A bump is lost only to another one that was committed. *)
LostToAnother(r) ==
  (pc[r] = "commit" /\ r \notin fresh) \/ OwesMtime(r) => version > 0

(* What is missing on a row is on its way. *)
VersionIsComing == secret # None /\ version = 0 => \E r \in Req : OwesVersion(r)
MtimeIsComing   == version > 0 /\ mtime = None => \E r \in Req : OwesMtime(r)

PlainInv ==
  Plain => VersionIsComing /\ MtimeIsComing /\ \A r \in Req : LostToAnother(r)

LEMMA InitSettle == Init => AllPlaced /\ PlainInv
  BY NoneAssumption
  DEF Init, AllPlaced, Placed, PlainInv, Plain, VersionIsComing, MtimeIsComing,
      LostToAnother, OwesMtime

(* Only an arrival sets the method; every step finds the place in the      *)
(* handler of the method the request has.                                  *)
LEMMA PlacedStep == TypeOK /\ AllPlaced /\ [Next]_vars => AllPlaced'
<1> SUFFICES ASSUME TypeOK, AllPlaced, [Next]_vars PROVE AllPlaced'
  OBVIOUS
<1> USE DEF TypeOK, AllPlaced, Placed, Arrive, Goto, Reply, rows, locals, history
<1>1. CASE UNCHANGED vars
  BY <1>1 DEF vars
<1>2. CASE Crash
  BY <1>2 DEF Crash
<1>3. ASSUME NEW r \in Req, Start(r) PROVE AllPlaced'
  <2>1. CASE StartGet(r)
    BY <1>3, <2>1 DEF StartGet
  <2>2. CASE StartPost(r)
    BY <1>3, <2>2 DEF StartPost
  <2>3. CASE StartDelete(r)
    BY <1>3, <2>3 DEF StartDelete
  <2>4. ASSUME NEW h \in Given, NEW b \in Given, StartPatch(r, h, b) PROVE AllPlaced'
    BY <2>4 DEF StartPatch
  <2> QED
    BY <1>3, <2>1, <2>2, <2>3, <2>4 DEF Start
<1>4. ASSUME NEW r \in Req, Step(r) PROVE AllPlaced'
  <2>1. op' = op
    BY <1>4 DEF Step, ReadValue, ReadVersion, Find, Put, BumpRead, BumpCommit, ReportMismatch, StampMtime,
                DeleteSecret, DeleteVersion, DeleteMtime
  <2>2. \A q \in Req \ {r} : pc'[q] = pc[q]
    BY <1>4 DEF Step, ReadValue, ReadVersion, Find, Put, BumpRead, BumpCommit, BumpFails, CommitSucceeds, CommitFails,
                ReportMismatch, StampMtime, DeleteSecret, DeleteVersion, DeleteMtime
  <2>3. Placed(r)'
    <3>1. CASE ReadValue(r)
      BY <2>1, <3>1 DEF ReadValue
    <3>2. CASE ReadVersion(r)
      BY <2>1, <3>2 DEF ReadVersion
    <3>3. CASE Find(r)
      BY <2>1, <3>3 DEF Find, After
    <3>4. CASE Put(r)
      BY <2>1, <3>4 DEF Put, After
    <3>5. CASE BumpRead(r)
      BY <2>1, <3>5 DEF BumpRead, BumpFails
    <3>6. CASE BumpCommit(r)
      BY <2>1, <3>6 DEF BumpCommit, BumpFails, CommitSucceeds, CommitFails, After
    <3>7. CASE ReportMismatch(r)
      BY <2>1, <3>7 DEF ReportMismatch
    <3>8. CASE StampMtime(r)
      BY <2>1, <3>8 DEF StampMtime
    <3>9. CASE DeleteSecret(r)
      BY <2>1, <3>9 DEF DeleteSecret
    <3>10. CASE DeleteVersion(r)
      BY <2>1, <3>10 DEF DeleteVersion
    <3>11. CASE DeleteMtime(r)
      BY <2>1, <3>11 DEF DeleteMtime
    <3> QED
      BY <1>4, <3>1, <3>2, <3>3, <3>4, <3>5, <3>6, <3>7, <3>8, <3>9, <3>10, <3>11 DEF Step
  <2> QED
    BY <2>1, <2>2, <2>3
<1> QED
  BY <1>1, <1>2, <1>3, <1>4 DEF Next

(* What a transaction does to the rows, and to what its request owes them, *)
(* when it is not part of a DELETE and the database does not fail.         *)
LEMMA PlainEffect ==
  ASSUME TypeOK, NEW r \in Req, Placed(r), Orderly(r), LostToAnother(r), Step(r),
         op[r] # "DELETE", faults' = 0
  PROVE  /\ op' = op /\ \A q \in Req \ {r} : pc'[q] = pc[q]
         /\ version' = version \/ version' > 0
         /\ secret' = secret \/ version > 0 \/ OwesVersion(r)'
         /\ OwesVersion(r) => OwesVersion(r)' \/ version' > 0
         /\ version' = version \/ OwesMtime(r)'
         /\ mtime' = mtime \/ mtime' = r
         /\ OwesMtime(r) => OwesMtime(r)' \/ mtime' = r
         /\ LostToAnother(r)'
         /\ \A q \in fresh \ {r} : q \in fresh' \/ version' > 0
<1> USE DEF Goto, Reply, After, Fault, TypeOK, rows, locals, history, Placed, LostToAnother, OwesVersion, OwesMtime
<1>1. ~Fault
  BY DEF Fault
<1>2. CASE ReadValue(r)
  BY <1>2 DEF ReadValue
<1>3. CASE ReadVersion(r)
  BY <1>3 DEF ReadVersion
<1>4. CASE Find(r)
  BY <1>4 DEF Find
<1>5. CASE Put(r)
  BY <1>1, <1>5 DEF Put
<1>6. CASE BumpRead(r)
  <2>1. op[r] = "POST" => Accepts(r)
    BY DEF Orderly, Accepts
  <2>2. CASE NoFault /\ fresh' = fresh \cup {r} /\ Goto(r, "commit")
    BY <1>6, <2>2 DEF BumpRead
  <2>3. CASE ~Accepts(r) /\ Goto(r, "getCurrent") /\ UNCHANGED fresh
    BY <1>6, <2>1, <2>3 DEF BumpRead
  <2> QED
    BY <1>1, <1>6, <2>2, <2>3 DEF BumpRead
<1>7. CASE BumpCommit(r)
  <2>1. CASE CommitSucceeds(r)
    <3>1. version' > 0 /\ pc'[r] \in {"stamp", "put"}
      BY <1>7, <2>1 DEF BumpCommit, CommitSucceeds, TouchVersion, Stamp
    <3>2. pc'[r] = "put" => op[r] = "PATCH"
      BY <1>7, <2>1 DEF BumpCommit, CommitSucceeds
    <3> QED
      BY <1>7, <2>1, <3>1, <3>2 DEF BumpCommit, CommitSucceeds
  <2>2. CASE CommitFails(r)
    <3>1. version > 0
      BY <1>1, <1>7, <2>2 DEF BumpCommit, CommitFails
    <3>2. pc'[r] \in {"stamp", "done"}
      BY <1>7, <2>2 DEF BumpCommit, CommitFails, BumpFails
    <3>3. op' = op /\ \A q \in Req \ {r} : pc'[q] = pc[q]
      BY <1>7, <2>2 DEF BumpCommit, CommitFails, BumpFails
    <3> QED
      BY <1>7, <2>2, <3>1, <3>2, <3>3 DEF BumpCommit, CommitFails
  <2> QED
    BY <1>7, <2>1, <2>2 DEF BumpCommit
<1>8. CASE ReportMismatch(r)
  BY <1>8 DEF ReportMismatch
<1>9. CASE StampMtime(r)
  BY <1>1, <1>9 DEF StampMtime
<1>10. ~(DeleteSecret(r) \/ DeleteVersion(r) \/ DeleteMtime(r))
  BY DEF DeleteSecret, DeleteVersion, DeleteMtime
<1> QED
  BY <1>2, <1>3, <1>4, <1>5, <1>6, <1>7, <1>8, <1>9, <1>10 DEF Step

(* Failures, crashes and methods are only ever added. *)
LEMMA PlainBefore ==
  ASSUME TypeOK, AllPlaced, [Next]_vars, Plain'
  PROVE  Plain /\ ~Crash
<1> USE DEF Plain, TypeOK, AllPlaced, Placed, rows, locals, history, env, Fault, NoFault
<1>1. CASE UNCHANGED vars
  BY <1>1 DEF vars, Crash
<1>2. ~Crash
  BY DEF Crash
<1>3. ASSUME NEW r \in Req, Start(r) PROVE Plain
  <2>1. pc[r] = "idle" /\ \A q \in Req \ {r} : op'[q] = op[q]
    BY <1>3, StartFrame
  <2>2. UNCHANGED env
    BY <1>3 DEF Start, StartGet, StartPost, StartDelete, StartPatch, Arrive
  <2> QED
    BY <2>1, <2>2
<1>4. ASSUME NEW r \in Req, Step(r) PROVE Plain
  <2>1. op' = op
    BY <1>4 DEF Step, ReadValue, ReadVersion, Find, Put, BumpRead, BumpCommit, ReportMismatch, StampMtime,
                DeleteSecret, DeleteVersion, DeleteMtime
  <2>2. NoFault \/ Fault
    BY <1>4 DEF Step, ReadValue, ReadVersion, Find, Put, BumpRead, BumpCommit, CommitSucceeds, CommitFails,
                ReportMismatch, StampMtime, DeleteSecret, DeleteVersion, DeleteMtime, Finds, Misses
  <2> QED
    BY <2>1, <2>2
<1> QED
  BY <1>1, <1>2, <1>3, <1>4 DEF Next

(* What is missing stays on its way until it is there. *)
LEMMA PlainStep ==
  ASSUME TypeOK, TraceInv, AllPlaced, PlainInv, [Next]_vars
  PROVE  PlainInv'
<1> SUFFICES ASSUME Plain' PROVE (VersionIsComing /\ MtimeIsComing /\ \A r \in Req : LostToAnother(r))'
  BY DEF PlainInv
<1>1. Plain /\ ~Crash /\ VersionIsComing /\ MtimeIsComing /\ \A r \in Req : LostToAnother(r)
  BY PlainBefore DEF PlainInv
<1>2. version \in Nat /\ pc \in [Req -> Labels] /\ op \in [Req -> Methods]
  BY DEF TypeOK
<1> USE DEF VersionIsComing, MtimeIsComing, LostToAnother, OwesVersion, OwesMtime
<1>3. CASE UNCHANGED vars
  BY <1>1, <1>3 DEF vars, rows, locals, history
<1>4. ASSUME NEW r \in Req, Start(r)
      PROVE  (VersionIsComing /\ MtimeIsComing /\ \A q \in Req : LostToAnother(q))'
  <2>1. UNCHANGED <<version, fresh, secret, mtime>>
    BY <1>4 DEF Start, StartGet, StartPost, StartDelete, StartPatch, Arrive, rows
  <2>2. /\ \A q \in Req \ {r} : pc'[q] = pc[q] /\ op'[q] = op[q]
        /\ pc[r] = "idle" /\ pc'[r] \notin {"bump", "commit"}
    BY <1>4, StartFrame
  <2>3. pc'[r] # "stamp" /\ ~(pc'[r] = "put" /\ op'[r] = "PATCH")
    BY <1>4 DEF Start, StartGet, StartPost, StartDelete, StartPatch, Arrive, Goto, Reply, TypeOK
  <2>4. VersionIsComing'
    BY <1>1, <2>1, <2>2
  <2>5. MtimeIsComing'
    BY <1>1, <2>1, <2>2
  <2>6. \A q \in Req : LostToAnother(q)'
    BY <1>1, <2>1, <2>2, <2>3
  <2> QED
    BY <2>4, <2>5, <2>6
<1>5. ASSUME NEW r \in Req, Step(r)
      PROVE  (VersionIsComing /\ MtimeIsComing /\ \A q \in Req : LostToAnother(q))'
  <2>0. Placed(r) /\ Orderly(r) /\ LostToAnother(r) /\ op'[r] # "DELETE" /\ faults' = 0 /\ op[r] # "DELETE"
    BY <1>1 DEF AllPlaced, TraceInv, Plain
  <2>1. /\ op' = op /\ \A q \in Req \ {r} : pc'[q] = pc[q]
        /\ version' = version \/ version' > 0
        /\ secret' = secret \/ version > 0 \/ OwesVersion(r)'
        /\ OwesVersion(r) => OwesVersion(r)' \/ version' > 0
        /\ version' = version \/ OwesMtime(r)'
        /\ mtime' = mtime \/ mtime' = r
        /\ OwesMtime(r) => OwesMtime(r)' \/ mtime' = r
        /\ LostToAnother(r)'
        /\ \A q \in fresh \ {r} : q \in fresh' \/ version' > 0
    BY <1>5, <2>0, PlainEffect
  <2>2. VersionIsComing'
    BY <1>1, <1>2, <2>1
  <2>3. MtimeIsComing'
    BY <1>1, <1>2, <2>1, NoneAssumption
  <2>4. \A q \in Req : LostToAnother(q)'
    BY <1>1, <1>2, <2>1
  <2> QED
    BY <2>2, <2>3, <2>4
<1> QED
  BY <1>1, <1>3, <1>4, <1>5 DEF Next

(* With POST and PATCH alone, no database failure and no crash, a secret   *)
(* at rest has a version and a modification time, for any number of        *)
(* requests: a bump is only ever lost to one that was committed.           *)
THEOREM SettledIsVersioned == Spec => []SettledSecretIsVersioned
<1>1. TypeOK /\ PlainInv => SettledSecretIsVersioned
  <2> SUFFICES ASSUME PlainInv, TypeOK, Busy = {}, Plain, secret # None
               PROVE  version > 0 /\ mtime # None
    BY DEF SettledSecretIsVersioned, Plain
  <2>1. \A r \in Req : ~OwesVersion(r) /\ ~OwesMtime(r)
    BY DEF Busy, OwesVersion, OwesMtime
  <2> QED
    BY <2>1 DEF PlainInv, VersionIsComing, MtimeIsComing, TypeOK
<1> QED
  BY <1>1, InitTrace, TraceStep, InitSettle, PlacedStep, PlainStep, TypeCorrect, PTL DEF Spec

-----------------------------------------------------------------------------
(* What writers are told.                                                  *)

(* What a request has been told of its version, and what a PATCH past its  *)
(* bump has committed.                                                     *)
Told(r) ==
  /\ status[r] # 0 => pc[r] = "done"
  /\ Committed(r) => ver[r] = ticket[r].ver
  /\ pc[r] = "commit" => ver[r] = snap[r].ver + 1
  /\ op[r] = "PATCH" /\ (pc[r] \in {"put", "stamp"} \/ status[r] \in {200, 201}) => Committed(r)

AllTold == \A r \in Req : Told(r)

LEMMA InitTold == Init => AllTold
  BY DEF Init, AllTold, Told, Committed

(* Nobody else's step tells a request anything.                            *)
LEMMA OthersTellNothing ==
  ASSUME TypeOK, NEW r \in Req, Start(r) \/ Step(r), NEW q \in Req \ {r}, Told(q)
  PROVE  Told(q)'
<1> USE DEF Start, StartGet, StartPost, StartDelete, StartPatch, Arrive, Goto, Reply, TypeOK, rows, locals, history,
            Step, ReadValue, ReadVersion, Find, Put, BumpRead, BumpCommit, BumpFails, CommitSucceeds, CommitFails,
            ReportMismatch, StampMtime, DeleteSecret, DeleteVersion, DeleteMtime
<1>1. pc'[q] = pc[q] /\ status'[q] = status[q] /\ op'[q] = op[q]
  OBVIOUS
<1>2. ver'[q] = ver[q] /\ snap'[q] = snap[q] /\ ticket'[q] = ticket[q]
  OBVIOUS
<1> QED
  BY <1>1, <1>2 DEF Told, Committed

(* A request that arrives has been told nothing yet.                       *)
LEMMA StartTells ==
  ASSUME TypeOK, NEW r \in Req, Start(r), Told(r)
  PROVE  Told(r)'
<1> USE DEF Arrive, Goto, Reply, TypeOK, rows, env, Told, Committed
<1>1. CASE StartGet(r)
  BY <1>1 DEF StartGet
<1>2. CASE StartPost(r)
  BY <1>2 DEF StartPost
<1>3. CASE StartDelete(r)
  BY <1>3 DEF StartDelete
<1>4. ASSUME NEW h \in Given, NEW b \in Given, StartPatch(r, h, b) PROVE Told(r)'
  BY <1>4 DEF StartPatch
<1> QED
  BY <1>1, <1>2, <1>3, <1>4 DEF Start

(* A version is read before the bump, or by a request that never bumps.    *)
LEMMA StepTells ==
  ASSUME TypeOK, NEW r \in Req, Step(r), Told(r), Placed(r), NotYet(r) => ticket[r] = NoStamp
  PROVE  Told(r)'
<1> USE DEF Goto, Reply, After, TypeOK, rows, locals, history, Told, Placed, Committed
<1>1. CASE ReadValue(r)
  BY <1>1 DEF ReadValue
<1>2. CASE ReadVersion(r)
  BY <1>2 DEF ReadVersion, NotYet
<1>3. CASE Find(r)
  BY <1>3 DEF Find
<1>4. CASE Put(r)
  BY <1>4 DEF Put
<1>5. CASE BumpRead(r)
  <2>1. ticket'[r] = NoStamp
    BY <1>5 DEF BumpRead, NotYet
  <2>2. CASE Goto(r, "commit") /\ snap' = [snap EXCEPT ![r] = Now] /\ ver' = [ver EXCEPT ![r] = version + 1]
    BY <1>5, <2>1, <2>2 DEF BumpRead, Now
  <2>3. CASE Goto(r, "getCurrent")
    BY <1>5, <2>1, <2>3 DEF BumpRead
  <2>4. CASE BumpFails(r)
    BY <1>5, <2>1, <2>4 DEF BumpRead, BumpFails
  <2> QED
    BY <1>5, <2>2, <2>3, <2>4 DEF BumpRead
<1>6. CASE BumpCommit(r)
  <2>1. CASE CommitSucceeds(r)
    BY <1>6, <2>1 DEF BumpCommit, CommitSucceeds, Stamp, NoStamp
  <2>2. CASE CommitFails(r)
    BY <1>6, <2>2 DEF BumpCommit, CommitFails, BumpFails, NotYet
  <2> QED
    BY <1>6, <2>1, <2>2 DEF BumpCommit
<1>7. CASE ReportMismatch(r)
  BY <1>7 DEF ReportMismatch, NotYet
<1>8. CASE StampMtime(r)
  BY <1>8 DEF StampMtime
<1>9. CASE DeleteSecret(r)
  BY <1>9 DEF DeleteSecret
<1>10. CASE DeleteVersion(r)
  BY <1>10 DEF DeleteVersion
<1>11. CASE DeleteMtime(r)
  BY <1>11 DEF DeleteMtime
<1> QED
  BY <1>1, <1>2, <1>3, <1>4, <1>5, <1>6, <1>7, <1>8, <1>9, <1>10, <1>11 DEF Step

LEMMA ToldStep == IInv /\ AllPlaced /\ AllTold /\ [Next]_vars => AllTold'
<1> SUFFICES ASSUME IInv, AllPlaced, AllTold, [Next]_vars PROVE AllTold'
  OBVIOUS
<1>1. CASE UNCHANGED vars
  BY <1>1 DEF vars, rows, locals, history, AllTold, Told, Committed
<1>2. CASE Crash
  BY <1>2 DEF Crash, Busy, IInv, TypeOK, rows, locals, history, AllTold, Told, Committed
<1>3. ASSUME NEW r \in Req, Start(r) \/ Step(r) PROVE AllTold'
  BY <1>3, OthersTellNothing, StartTells, StepTells DEF IInv, Local, TicketOnlyAfterBump, AllPlaced, AllTold
<1> QED
  BY <1>1, <1>2, <1>3 DEF Next

(* Every version of an era is committed by exactly one write, a write that *)
(* committed is told its own version, and only a POST is told one it has   *)
(* not committed, for any number of requests, failures and crashes.        *)
THEOREM VersionsUnique == Spec => []VersionsHaveOneWriter
<1>1. IInv /\ AllPlaced /\ AllTold => VersionsHaveOneWriter
  <2> SUFFICES ASSUME IInv, AllPlaced, AllTold PROVE OnlyPostsAreToldOthers
    BY DEF VersionsHaveOneWriter, IInv, CounterOK
  <2> SUFFICES ASSUME NEW r \in Req, op[r] \in {"POST", "PATCH"}, status[r] \in {200, 201}
               PROVE  /\ Committed(r) => ver[r] = ticket[r].ver
                      /\ ~Committed(r) => op[r] = "POST"
    BY DEF OnlyPostsAreToldOthers
  <2>1. Told(r)
    BY DEF AllTold
  <2> QED
    BY <2>1 DEF Told
<1> QED
  BY <1>1, InitTold, ToldStep, InitSettle, PlacedStep, TypeCorrect, InductiveInvariant, PTL DEF Spec

-----------------------------------------------------------------------------
(* Refinement.                                                             *)

(* An arriving PATCH states its version; every other arrival stutters. *)
LEMMA StartImplements ==
  ASSUME IInv, NEW r \in Req, Start(r)
  PROVE  [Counter!CounterNext]_(Counter!counterVars)
<1>1. ticket[r] = NoStamp /\ UNCHANGED <<version, epoch, ticket>>
  BY StartFrame DEF IInv, Local, TicketOnlyAfterBump, NotYet
<1>2. CASE UNCHANGED want
  BY <1>1, <1>2 DEF Counter!counterVars
<1>3. ASSUME NEW h \in Given, NEW b \in Given, Expected(h, b) >= 0,
             want' = [want EXCEPT ![r] = Expected(h, b)]
      PROVE  Counter!Expect(r)
  <2>1. Expected(h, b) \in Nat
    BY <1>3, BoundsAssumption DEF Expected, HeaderVersion, Given, Absent
  <2>2. want'[r] = Expected(h, b)
    BY <1>3 DEF IInv, TypeOK
  <2> HIDE DEF Expected
  <2> QED
    BY <1>1, <1>3, <2>1, <2>2 DEF Counter!Expect, Counter!NoStamp, NoStamp
<1> QED
  BY <1>2, <1>3 DEF Start, StartGet, StartPost, StartDelete, StartPatch, Counter!CounterNext

(* A commit that succeeds is the atomic compare-and-increment. *)
LEMMA CommitImplements ==
  ASSUME IInv, NEW r \in Req, BumpCommit(r)
  PROVE  [Counter!CounterNext]_(Counter!counterVars)
<1>1. UNCHANGED <<epoch, want, snap>> /\ pc[r] = "commit"
  BY BumpCommitFrame DEF IInv
<1>2. CASE UNCHANGED <<version, ticket>>
  BY <1>1, <1>2 DEF Counter!counterVars
<1>3. CASE /\ r \in fresh
           /\ version' = snap[r].ver + 1
           /\ ticket' = [ticket EXCEPT ![r] = [era |-> epoch, ver |-> snap[r].ver + 1]]
  <2>1. ticket[r] = NoStamp /\ want[r] \in {-1, snap[r].ver} /\ snap[r].ver = version
    BY <1>1, <1>3
    DEF IInv, Local, TicketOnlyAfterBump, SnapshotAccepted, FreshIsCurrent, NotYet, Now
  <2> QED
    BY <1>1, <1>3, <2>1 DEF Counter!CounterNext, Counter!Increment, Counter!NoStamp, NoStamp
<1> QED
  BY <1>2, <1>3, BumpCommitFrame DEF IInv

(* Whatever the handlers do, the counter of a secret is a register that is *)
(* compared and incremented in one step, and reset by DELETE.              *)
THEOREM StoreImplementsCounter == Spec => ImplementsCasCounter
<1>1. Init => Counter!CounterInit
  BY DEF Init, Counter!CounterInit, Counter!NoStamp, NoStamp
<1>2. IInv /\ [Next]_vars => [Counter!CounterNext]_(Counter!counterVars)
  <2> SUFFICES ASSUME IInv, [Next]_vars
               PROVE  [Counter!CounterNext]_(Counter!counterVars)
    OBVIOUS
  <2>1. CASE UNCHANGED vars
    BY <2>1 DEF vars, rows, locals, history, Counter!counterVars
  <2>2. CASE Crash
    BY <2>2, CrashFrame DEF IInv, Counter!counterVars
  <2>3. ASSUME NEW r \in Req, Quiet(r)
        PROVE  [Counter!CounterNext]_(Counter!counterVars)
    BY <2>3, QuietFrame DEF IInv, Counter!counterVars
  <2>4. ASSUME NEW r \in Req, BumpRead(r)
        PROVE  [Counter!CounterNext]_(Counter!counterVars)
    BY <2>4, BumpReadFrame DEF IInv, Counter!counterVars
  <2>5. ASSUME NEW r \in Req, DeleteVersion(r)
        PROVE  [Counter!CounterNext]_(Counter!counterVars)
    BY <2>5, DeleteVersionFrame
    DEF IInv, Counter!counterVars, Counter!CounterNext, Counter!Reset
  <2> QED
    BY <2>1, <2>2, <2>3, <2>4, <2>5, StartImplements, CommitImplements, NextCases
<1> QED
  BY <1>1, <1>2, InductiveInvariant, PTL DEF Spec, ImplementsCasCounter, Counter!CounterSpec
=============================================================================
