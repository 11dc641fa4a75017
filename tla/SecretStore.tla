---------------------------- MODULE SecretStore ----------------------------
(***************************************************************************)
(* The HTTP secret handlers of embed.go (GET, POST, PATCH, DELETE on one   *)
(* secret) with the version records of versioning.go and the mtime records *)
(* of secrets_list.go.                                                     *)
(*                                                                         *)
(* A secret (path, env, name) is three sibling rows of the database: the   *)
(* value, the version counter and the modification time.  Every access to  *)
(* a row is a database transaction of its own, so a handler is a SEQUENCE  *)
(* of transactions and the requests of different clients interleave        *)
(* between any two of them.  Only bumpVersion reads and writes in one      *)
(* transaction; the database is optimistic, so it has a read step and a    *)
(* commit step, and the commit is refused when the row it read was written *)
(* in between.                                                             *)
(*                                                                         *)
(* A request is used once.  The value a request writes is the request.     *)
(* The module follows the handlers from the point where the caller is      *)
(* authorised and the path parsed, which read and write no row.            *)
(***************************************************************************)
EXTENDS Integers, FiniteSets

CONSTANTS
  Req,          \* the requests, in no particular order
  None,         \* no value, no modification time
  Ops,          \* the methods the clients use
  MaxWant,      \* bound: the largest version a client conditions a PATCH on
  MaxFaults,    \* bound: how many transactions fail with an I/O error
  MaxCrashes,   \* bound: how many times the process is killed and restarted
  MaxInFlight   \* bound: how many requests are served at the same time

Methods == {"GET", "POST", "PATCH", "DELETE"}

ASSUME NoneAssumption   == None \notin Req
ASSUME OpsAssumption    == Ops \subseteq Methods
ASSUME BoundsAssumption == /\ MaxWant \in Nat /\ MaxFaults \in Nat
                           /\ MaxCrashes \in Nat /\ MaxInFlight \in Nat

VARIABLES
  \* the rows of the secret
  secret,       \* the value: the request that wrote it, or None
  version,      \* the version counter, 0 when the row is absent
  mtime,        \* the request that stamped the modification time, or None
  \* the handlers
  pc,           \* pc[r]: the next transaction of request r
  op,           \* op[r]: its method
  want,         \* want[r]: the version a PATCH expects, -1 when unconditional
  snap,         \* snap[r]: the counter as r's open bump transaction read it
  fresh,        \* the requests whose open transaction would still commit
  status,       \* status[r]: the HTTP status answered, 0 before
  ver,          \* ver[r]: the version in the answer
  \* history, read by the properties only
  epoch,        \* how many times the version row was deleted
  ticket,       \* ticket[r]: era and version that r's bump committed
  born,         \* born[r]: era and version when r arrived
  saw,          \* saw[r]: the value r returned (GET) or replaced (POST, PATCH)
  \* the environment
  faults, crashes

rows    == <<secret, version, mtime>>
locals  == <<op, want, snap, ver>>
history == <<epoch, ticket, born, saw>>
env     == <<faults, crashes>>
vars    == <<rows, pc, fresh, status, locals, history, env>>

Stamp   == [era : Nat, ver : Nat]
NoStamp == [era |-> 0, ver |-> 0]
Now     == [era |-> epoch, ver |-> version]

Labels == {"idle", "get", "getVersion", "find", "put", "bump", "commit",
           "getCurrent", "stamp", "del", "delVersion", "delMtime", "done", "lost"}
Codes  == {0, 200, 201, 400, 404, 409, 428, 500}

Init ==
  /\ secret = None /\ version = 0 /\ mtime = None
  /\ pc = [r \in Req |-> "idle"] /\ op = [r \in Req |-> "GET"]
  /\ want = [r \in Req |-> -1] /\ snap = [r \in Req |-> NoStamp]
  /\ fresh = {}
  /\ status = [r \in Req |-> 0] /\ ver = [r \in Req |-> 0]
  /\ epoch = 0 /\ ticket = [r \in Req |-> NoStamp]
  /\ born = [r \in Req |-> NoStamp] /\ saw = [r \in Req |-> None]
  /\ faults = 0 /\ crashes = 0

-----------------------------------------------------------------------------
(* Steps of a handler.                                                     *)

Busy == {r \in Req : pc[r] \notin {"idle", "done", "lost"}}

Goto(r, l) == pc' = [pc EXCEPT ![r] = l] /\ UNCHANGED status

Reply(r, s) == /\ pc' = [pc EXCEPT ![r] = "done"]
               /\ status' = [status EXCEPT ![r] = s]

(* The transaction of this step fails in the database. *)
Fault   == faults < MaxFaults /\ faults' = faults + 1 /\ UNCHANGED crashes
NoFault == UNCHANGED env

(* The store answers "not found", or fails: the handlers do not tell the   *)
(* two apart.                                                              *)
Misses == (secret = None /\ NoFault) \/ Fault
Finds  == secret # None /\ NoFault

(* What follows a transaction that went well.  POST: put, bump, stamp.     *)
(* PATCH: find, bump, put, stamp.                                          *)
PutFirst(r, l) == (* mutant: PATCH writes the value before it compares *)
  CASE l = "find" -> "put" [] l = "put" -> "bump" [] l = "commit" -> "stamp"

After(r, l) ==
  CASE l = "find"   -> "bump"
    [] l = "put"    -> IF op[r] = "POST" THEN "bump" ELSE "stamp"
    [] l = "commit" -> IF op[r] = "POST" THEN "stamp" ELSE "put"

(* A write to the version row makes every open bump transaction stale. *)
TouchUndetected(v) == version' = v /\ UNCHANGED fresh (* mutant: no conflict detection *)

TouchVersion(v) == version' = v /\ fresh' = {}

-----------------------------------------------------------------------------
(* Arrival.  PATCH takes the expected version from the If-Match header and *)
(* from body.version: Absent is a missing one, a negative number (-1) one  *)
(* that parses but is no version.                                          *)

Absent == -2
Given  == Absent .. MaxWant

HeaderVersion(h)   == IF h = Absent THEN -1 ELSE h
Disagree(h, b)     == b # Absent /\ h >= 0 /\ h # b
Expected(h, b)     == IF b = Absent THEN HeaderVersion(h) ELSE b

Arrive(r, o) ==
  /\ pc[r] = "idle" /\ o \in Ops
  /\ Cardinality(Busy) < MaxInFlight
  /\ op' = [op EXCEPT ![r] = o]
  /\ born' = [born EXCEPT ![r] = Now]
  /\ UNCHANGED <<rows, fresh, snap, ver, epoch, ticket, saw, env>>

StartGet(r)    == Arrive(r, "GET") /\ Goto(r, "get") /\ UNCHANGED want
StartPost(r)   == Arrive(r, "POST") /\ Goto(r, "put") /\ UNCHANGED want
StartDelete(r) == Arrive(r, "DELETE") /\ Goto(r, "del") /\ UNCHANGED want

StartPatch(r, h, b) ==
  /\ Arrive(r, "PATCH")
  /\ \/ /\ Disagree(h, b)
        /\ Reply(r, 400) /\ UNCHANGED want
     \/ /\ ~Disagree(h, b) /\ Expected(h, b) < 0
        /\ Reply(r, 428) /\ UNCHANGED want
     \/ /\ ~Disagree(h, b) /\ Expected(h, b) >= 0
        /\ Goto(r, "find")
        /\ want' = [want EXCEPT ![r] = Expected(h, b)]

-----------------------------------------------------------------------------
(* GET: the value, then the version, in two transactions. *)

ReadValue(r) ==
  /\ pc[r] = "get"
  /\ \/ Finds /\ saw' = [saw EXCEPT ![r] = secret] /\ Goto(r, "getVersion")
     \/ Misses /\ UNCHANGED saw /\ Reply(r, 404)
  /\ UNCHANGED <<rows, fresh, locals, epoch, ticket, born>>

(* A failure to read the version is ignored and reported as version 0. *)
ReadVersion(r) ==
  /\ pc[r] = "getVersion"
  /\ \/ NoFault /\ ver' = [ver EXCEPT ![r] = version]
     \/ Fault /\ UNCHANGED ver
  /\ Reply(r, 200)
  /\ UNCHANGED <<rows, fresh, op, want, snap, history>>

-----------------------------------------------------------------------------
(* POST and PATCH. *)

Find(r) ==
  /\ pc[r] = "find"
  /\ \/ Finds /\ Goto(r, After(r, "find"))
     \/ Misses /\ Reply(r, 404)
  /\ UNCHANGED <<rows, fresh, locals, history>>

Put(r) ==
  /\ pc[r] = "put"
  /\ \/ /\ NoFault
        /\ secret' = r /\ saw' = [saw EXCEPT ![r] = secret]
        /\ Goto(r, After(r, "put"))
     \/ Fault /\ UNCHANGED <<secret, saw>> /\ Reply(r, 500)
  /\ UNCHANGED <<version, mtime, fresh, locals, epoch, ticket, born>>

(* The bump did not commit: POST only logs it, PATCH gives up. *)
BumpFails(r) == IF op[r] = "POST" THEN Goto(r, "stamp") ELSE Reply(r, 500)

(* The compare of the compare-and-set. *)
AcceptsOlder(r) == want[r] <= version (* mutant *)

Accepts(r) == want[r] \in {-1, version}

BumpRead(r) ==
  /\ pc[r] = "bump"
  /\ \/ /\ NoFault /\ Accepts(r)
        /\ snap' = [snap EXCEPT ![r] = Now]
        /\ ver' = [ver EXCEPT ![r] = version + 1]
        /\ fresh' = fresh \cup {r}
        /\ Goto(r, "commit")
     \/ /\ NoFault /\ ~Accepts(r)
        /\ Goto(r, "getCurrent") /\ UNCHANGED <<snap, ver, fresh>>
     \/ Fault /\ BumpFails(r) /\ UNCHANGED <<snap, ver, fresh>>
  /\ UNCHANGED <<rows, op, want, history>>

CommitStale(r) == (* mutant: commits on whatever it read *)
  /\ NoFault
  /\ TouchVersion(snap[r].ver + 1)
  /\ ticket' = [ticket EXCEPT ![r] = [era |-> epoch, ver |-> snap[r].ver + 1]]
  /\ Goto(r, After(r, "commit"))

CommitWithoutIncrement(r) == (* mutant: writes back the version it read *)
  /\ r \in fresh /\ NoFault
  /\ TouchVersion(snap[r].ver)
  /\ ticket' = [ticket EXCEPT ![r] = [era |-> epoch, ver |-> snap[r].ver]]
  /\ Goto(r, After(r, "commit"))

CommitSucceeds(r) ==
  /\ r \in fresh /\ NoFault
  /\ TouchVersion(snap[r].ver + 1)
  /\ ticket' = [ticket EXCEPT ![r] = [era |-> epoch, ver |-> snap[r].ver + 1]]
  /\ Goto(r, After(r, "commit"))

CommitFails(r) ==
  /\ (r \notin fresh /\ NoFault) \/ Fault
  /\ fresh' = fresh \ {r}
  /\ BumpFails(r)
  /\ UNCHANGED <<version, ticket>>

BumpCommit(r) ==
  /\ pc[r] = "commit"
  /\ CommitSucceeds(r) \/ CommitFails(r)
  /\ UNCHANGED <<secret, mtime, locals, epoch, born, saw>>

(* 409, with the version as it is by now. *)
ReportMismatch(r) ==
  /\ pc[r] = "getCurrent"
  /\ \/ NoFault /\ ver' = [ver EXCEPT ![r] = version]
     \/ Fault /\ UNCHANGED ver
  /\ Reply(r, 409)
  /\ UNCHANGED <<rows, fresh, op, want, snap, history>>

(* A failure to write the modification time is only logged. *)
StampMtime(r) ==
  /\ pc[r] = "stamp"
  /\ \/ NoFault /\ mtime' = r
     \/ Fault /\ UNCHANGED mtime
  /\ Reply(r, IF op[r] = "POST" THEN 201 ELSE 200)
  /\ UNCHANGED <<secret, version, fresh, locals, history>>

-----------------------------------------------------------------------------
(* DELETE: the value, then the version, then the modification time; what   *)
(* becomes of the last two is ignored.                                     *)

DeleteSecret(r) ==
  /\ pc[r] = "del"
  /\ \/ Finds /\ secret' = None /\ Goto(r, "delVersion")
     \/ Misses /\ UNCHANGED secret /\ Reply(r, 404)
  /\ UNCHANGED <<version, mtime, fresh, locals, history>>

DeleteVersion(r) ==
  /\ pc[r] = "delVersion"
  /\ \/ NoFault /\ TouchVersion(0) /\ epoch' = epoch + 1
     \/ Fault /\ UNCHANGED <<version, fresh, epoch>>
  /\ Goto(r, "delMtime")
  /\ UNCHANGED <<secret, mtime, locals, ticket, born, saw>>

DeleteMtime(r) ==
  /\ pc[r] = "delMtime"
  /\ \/ NoFault /\ mtime' = None
     \/ Fault /\ UNCHANGED mtime
  /\ Reply(r, 200)
  /\ UNCHANGED <<secret, version, fresh, locals, history>>

-----------------------------------------------------------------------------
(* The process is killed and started again on the same data directory:     *)
(* committed rows stay, requests in flight are never answered.             *)
Crash ==
  /\ crashes < MaxCrashes
  /\ pc' = [r \in Req |-> IF r \in Busy THEN "lost" ELSE pc[r]]
  /\ fresh' = {}
  /\ crashes' = crashes + 1
  /\ UNCHANGED <<rows, status, locals, history, faults>>

Start(r) == \/ StartGet(r) \/ StartPost(r) \/ StartDelete(r)
            \/ \E h, b \in Given : StartPatch(r, h, b)

Step(r) == \/ ReadValue(r) \/ ReadVersion(r)
           \/ Find(r) \/ Put(r) \/ BumpRead(r) \/ BumpCommit(r)
           \/ ReportMismatch(r) \/ StampMtime(r)
           \/ DeleteSecret(r) \/ DeleteVersion(r) \/ DeleteMtime(r)

Next == Crash \/ \E r \in Req : Start(r) \/ Step(r)

Spec == Init /\ [][Next]_vars

-----------------------------------------------------------------------------
(* Properties.                                                             *)

(* The variables keep their types; an open transaction is one that waits   *)
(* to commit.                                                              *)
TypeOK ==
  /\ secret \in Req \cup {None} /\ version \in Nat /\ mtime \in Req \cup {None}
  /\ pc \in [Req -> Labels] /\ op \in [Req -> Methods]
  /\ want \in [Req -> Int] /\ snap \in [Req -> Stamp]
  /\ fresh \subseteq {r \in Req : pc[r] = "commit"}
  /\ status \in [Req -> Codes] /\ ver \in [Req -> Nat]
  /\ epoch \in Nat /\ ticket \in [Req -> Stamp]
  /\ born \in [Req -> Stamp] /\ saw \in [Req -> Req \cup {None}]
  /\ faults \in Nat /\ crashes \in Nat

Committed(r) == ticket[r] # NoStamp

(* The versions the counter went through since it was last deleted are     *)
(* those of the writes that committed, each of exactly one.                *)
CommitsAreUnique ==
  /\ \A n \in 1 .. version : \E r \in Req : ticket[r] = [era |-> epoch, ver |-> n]
  /\ \A r, s \in Req : Committed(r) /\ ticket[r] = ticket[s] => r = s

(* A write that committed is told its own version; one that did not and    *)
(* is answered all the same is a POST.                                     *)
OnlyPostsAreToldOthers ==
  \A r \in Req :
    op[r] \in {"POST", "PATCH"} /\ status[r] \in {200, 201}
      => IF Committed(r) THEN ver[r] = ticket[r].ver ELSE op[r] = "POST"

(* bumpVersion neither skips a version nor COMMITS one twice, whatever     *)
(* interleaves with its read and its commit, also when transactions fail   *)
(* or the process dies in between, and a PATCH is only ever told the       *)
(* version it has committed.  A POST is told one it has not when its bump  *)
(* is lost: bumpVersion returns newVer beside the error (versioning.go:    *)
(* 91-96) and POST answers 201 with it (embed.go:622-629), so that two     *)
(* racing POSTs may be told the same version, although "POST always bumps  *)
(* the version" (embed.go:527).                                            *)
VersionsHaveOneWriter == CommitsAreUnique /\ OnlyPostsAreToldOthers

(* A PATCH that arrives when the counter has already moved past the        *)
(* version it expects never commits in that era, however the requests      *)
(* interleave: the replay protection of versioning.go.                     *)
StalePatchNeverCommits ==
  \A r \in Req :
    op[r] = "PATCH" /\ Committed(r) /\ ticket[r].era = born[r].era
      => want[r] >= born[r].ver

(* A request refused with a 4xx left no trace: it advanced no counter and  *)
(* neither the stored value nor the modification time is its own.  In      *)
(* PATCH this needs every check to come before the first write.            *)
RefusedLeavesNoTrace ==
  \A r \in Req :
    status[r] \in {400, 404, 409, 428}
      => ~Committed(r) /\ secret # r /\ mtime # r

(* With POST and PATCH alone, no database failure and no crash, a secret   *)
(* on which nothing is in flight has a version and a modification time:    *)
(* although POST ignores a lost bump, some bump has been committed.        *)
SettledSecretIsVersioned ==
  (/\ Busy = {} /\ faults = 0 /\ crashes = 0 /\ secret # None
   /\ \A r \in Req : op[r] # "DELETE")
     => version > 0 /\ mtime # None

Counter == INSTANCE CasCounter
             WITH Req <- Req, version <- version, epoch <- epoch, want <- want, ticket <- ticket

(* The two-step optimistic bump and the blind delete implement a counter   *)
(* that is compared and incremented in one step.                           *)
ImplementsCasCounter == Counter!CounterSpec

(* What a comment of the code says of the handlers, and they do not keep.  *)

(* embed.go: "PATCH is explicitly CAS": a PATCH conditioned on a version   *)
(* replaces the value that readers were given together with that version.  *)
PatchReplacesWhatWasRead ==
  \A p, g \in Req :
    (/\ op[p] = "PATCH" /\ status[p] = 200
     /\ op[g] = "GET" /\ status[g] = 200 /\ ver[g] = want[p])
      => saw[p] = saw[g]
=============================================================================
