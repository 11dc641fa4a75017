-------------------------------- MODULE Boot --------------------------------
(***************************************************************************)
(* Embed itself (embed.go, consensus.go, mount.go, cmd/kmsd): how the      *)
(* resources of Embedded come to be, one step after the other.  Three of   *)
(* the steps can fail, and then Embed returns an error; the ones after     *)
(* them make do without, or end the process by log.Crit.  Embed leaves two *)
(* goroutines behind, one that listens and one that waits for its context, *)
(* and they run when they like: also before Embed returns, also while Stop *)
(* runs.                                                                   *)
(*                                                                         *)
(* Mounted in a host, Embed gets a context that never ends, and its handle *)
(* is kept for Shutdown, which forgets it when Stop returns.               *)
(***************************************************************************)
EXTENDS Embedded

VARIABLES
  boot,         \* the step Embed is at; "up", or "failed"
  mode,         \* who listens
  listener,     \* Embed's listening goroutine: none, spawned, listening, closed
  handle,       \* mountedHandle is not nil
  trusted       \* history: the snapshot the ZAP server trusts, and whether a file was named

bootVars == <<boot, mode, listener, handle, trusted>>
stopping == <<at, step, calls, ctxDone>>
bVars    == <<vars, bootVars>>

Steps    == <<"configure", "mkdir", "open", "replicate", "audit", "routes", "zap", "listen", "watch", "up">>
Identity == {"IAM_URL", "IAM_ISSUER", "IAM_AUDIENCE", "IAM_KEYS_URL"}
Lists    == SUBSET {"id", "typo"}         \* node ids, well-formed or not

Snapshot(source, v, o) == [source |-> source, validators |-> v, operators |-> o]
Malformed == Snapshot("malformed", {}, {})
NoOne     == [named |-> FALSE, snapshot |-> Snapshot("none", {}, {})]

BootInit ==
  /\ boot = "configure" /\ mode \in Listeners
  /\ listener = "none" /\ handle = FALSE /\ trusted = NoOne
  /\ process = "up" /\ ctxDone = FALSE /\ hostListens = FALSE
  /\ field = [f \in Fields |-> FALSE] /\ running = [f \in Fields |-> FALSE]
  /\ at = [s \in Stoppers |-> 0] /\ step = [s \in Stoppers |-> "out"] /\ calls = 0
  /\ request = [r \in Req |-> "idle"]
  /\ stops = [f \in Fields |-> 0] /\ outlasted = {} /\ overlapped = FALSE

-----------------------------------------------------------------------------
(* The steps of Embed.                                                     *)

After(l)  == Steps[1 + CHOOSE i \in DOMAIN Steps : Steps[i] = l]
At(l)     == Alive /\ boot = l
Onward    == boot' = After(boot)
MakeUnseen(f) == UNCHANGED field /\ running' = [running EXCEPT ![f] = TRUE] (* mutant *)
Make(f)   == field' = [field EXCEPT ![f] = TRUE] /\ running' = [running EXCEPT ![f] = TRUE]
Crit      == Die("exited")
Refuse    == boot' = "failed" /\ UNCHANGED <<process, field, running, hostListens, request>>
Skip      == Onward /\ UNCHANGED <<process, field, running, hostListens, request>>
Exit      == Crit /\ UNCHANGED <<boot, field>>
Obtain(f) == Onward /\ Make(f) /\ UNCHANGED <<process, hostListens, request>>

(* All four identity settings, or no server: there is no default.          *)
Configure ==
  /\ At("configure")
  /\ \E given \in SUBSET Identity : IF given = Identity THEN Skip ELSE Refuse
  /\ UNCHANGED <<stopping, history, mode, listener, handle, trusted>>

MkdirAll ==
  /\ At("mkdir")
  /\ Skip \/ Refuse
  /\ UNCHANGED <<stopping, history, mode, listener, handle, trusted>>

OpenDb ==
  /\ At("open")
  /\ Obtain("db") \/ Refuse
  /\ UNCHANGED <<stopping, history, mode, listener, handle, trusted>>

(* No endpoint, or one that cannot be used: no replication.                *)
StartReplicator ==
  /\ At("replicate")
  /\ Skip \/ Obtain("replicator")
  /\ UNCHANGED <<stopping, history, mode, listener, handle, trusted>>

NewAuditorFails == (* mutant: no audit trail, no server *)
  /\ At("audit")
  /\ Obtain("auditCancel") \/ Refuse
  /\ UNCHANGED <<stopping, history, mode, listener, handle, trusted>>

(* The cancel function is kept even if the trail could not be opened.      *)
NewAuditor ==
  /\ At("audit") /\ Onward
  /\ field' = [field EXCEPT !["auditCancel"] = TRUE]
  /\ \E opened \in BOOLEAN : running' = [running EXCEPT !["auditCancel"] = opened]
  /\ UNCHANGED <<process, hostListens, request>>
  /\ UNCHANGED <<stopping, history, mode, listener, handle, trusted>>

(* Without MPC there are no key routes; without a key store, no process.   *)
RegisterRoutes ==
  /\ At("routes")
  /\ Skip \/ Exit
  /\ UNCHANGED <<stopping, history, mode, listener, handle, trusted>>

(* The two lists as their source has them.  A file that is named is the    *)
(* source, whatever the environment says; one that is not there yet means  *)
(* empty lists.                                                            *)
File == {[state |-> s, validators |-> {}, operators |-> {}] : s \in {"unnamed", "absent", "unreadable", "garbage"}}
          \cup [state : {"present"}, validators : Lists, operators : Lists]

LoadOrFallBack(file, env) == (* mutant: a file that is not there is as good as none *)
  IF file.state = "present" THEN Snapshot("file", file.validators, file.operators)
  ELSE IF file.state \in {"unreadable", "garbage"} THEN Malformed
  ELSE Snapshot("env", env.validators, env.operators)

LoadConsensusSnapshot(file, env) ==
  CASE file.state = "unnamed"                 -> Snapshot("env", env.validators, env.operators)
    [] file.state \in {"absent", "present"}   -> Snapshot("file", file.validators, file.operators)
    [] file.state \in {"unreadable", "garbage"} -> Malformed

(* Off without a snapshot; an error if any part of one is wrong.           *)
BuildConsensusAuthorizer(s, ttlParses, testPasses) ==
  IF s = Malformed \/ "typo" \in s.validators \cup s.operators THEN "error"
  ELSE IF s.validators = {} /\ s.operators = {} THEN "off"
  ELSE IF s.validators # {} /\ s.operators # {} /\ ttlParses /\ testPasses THEN "on"
  ELSE "error"

(* No master key, no snapshot, no port: no ZAP.  A snapshot that is wrong  *)
(* takes the process with it.                                              *)
StartZAPSecretServer ==
  /\ At("zap")
  /\ \/ Skip /\ UNCHANGED trusted
     \/ \E file \in File, env \in [validators : Lists, operators : Lists], ttlParses, testPasses \in BOOLEAN :
          LET s  == LoadConsensusSnapshot(file, env)
              az == BuildConsensusAuthorizer(s, ttlParses, testPasses) IN
          \/ az = "error" /\ Exit /\ UNCHANGED trusted
          \/ az = "off" /\ Skip /\ UNCHANGED trusted
          \/ /\ az = "on"
             /\ Obtain("zapNode")
             /\ trusted' = [named |-> file.state # "unnamed", snapshot |-> s]
  /\ UNCHANGED <<stopping, history, mode, listener, handle>>

StartListener ==
  /\ At("listen") /\ Onward
  /\ IF mode = "embed"
     THEN listener' = "spawned" /\ field' = [field EXCEPT !["httpServer"] = TRUE]
     ELSE UNCHANGED <<listener, field>>
  /\ UNCHANGED <<process, running, requests, stopping, history, mode, handle, trusted>>

Watch ==
  /\ At("watch") /\ Onward
  /\ UNCHANGED <<vars, mode, listener, handle, trusted>>

BootStep ==
  \/ Configure \/ MkdirAll \/ OpenDb \/ StartReplicator \/ NewAuditor
  \/ RegisterRoutes \/ StartZAPSecretServer \/ StartListener \/ Watch

-----------------------------------------------------------------------------
(* The goroutines Embed leaves behind, and its host.                       *)

(* em.httpServer is read when the goroutine gets to it: it may be nil by   *)
(* now, or shut down.  An address in use ends the process.                 *)
Listen ==
  /\ Alive /\ listener = "spawned"
  /\ \/ ~field["httpServer"] /\ Die("panicked") /\ UNCHANGED listener
     \/ /\ field["httpServer"] /\ stops["httpServer"] > 0
        /\ listener' = "closed" /\ UNCHANGED <<process, running, requests>>
     \/ /\ field["httpServer"] /\ stops["httpServer"] = 0
        /\ listener' = "listening" /\ running' = [running EXCEPT !["httpServer"] = TRUE]
        /\ UNCHANGED <<process, requests>>
     \/ field["httpServer"] /\ stops["httpServer"] = 0 /\ Crit /\ UNCHANGED listener
  /\ UNCHANGED <<field, stopping, history, boot, mode, handle, trusted>>

Mount ==
  /\ At("up") /\ mode = "host" /\ ~handle /\ calls = 0
  /\ handle' = TRUE
  /\ UNCHANGED <<vars, boot, mode, listener, trusted>>

(* The host ends the process if Mount fails.                               *)
MountFails ==
  /\ At("failed") /\ mode = "host"
  /\ Crit
  /\ UNCHANGED <<field, stopping, history, bootVars>>

HostListens ==
  /\ Alive /\ handle /\ calls = 0 /\ ~hostListens
  /\ \/ hostListens' = TRUE /\ UNCHANGED <<process, running, request>>
     \/ Crit
  /\ UNCHANGED <<field, stopping, history, bootVars>>

(* Shutdown: Stop on the handle, if there is one, which is then forgotten. *)
CallStop ==
  /\ boot = "up" /\ (mode = "host" => handle /\ calls = 0)
  /\ HostStops
  /\ UNCHANGED bootVars

Unmount ==
  /\ Alive /\ handle /\ calls > 0 /\ step[Host] = "out"
  /\ handle' = FALSE
  /\ UNCHANGED <<vars, boot, mode, listener, trusted>>

HostCloses ==
  /\ ~handle /\ CloseListener
  /\ UNCHANGED bootVars

ContextEnds   == mode = "embed" /\ CancelContext /\ UNCHANGED bootVars
WatcherWakes  == boot = "up" /\ WatcherStops /\ UNCHANGED bootVars
Stopping(s)   == StopStep(s) /\ UNCHANGED bootVars
Serve         == (\E r \in Req : Arrive(r) \/ Answer(r)) /\ UNCHANGED bootVars

BootNext ==
  \/ BootStep \/ Listen \/ Mount \/ MountFails \/ HostListens
  \/ CallStop \/ Unmount \/ HostCloses \/ ContextEnds \/ WatcherWakes \/ Serve
  \/ \E s \in Stoppers : Stopping(s)

(* Goroutines that can run are run, and a handler answers what it has      *)
(* begun.  Whether the host stops the server, or the context ends, is      *)
(* theirs to decide.                                                       *)
Spec ==
  /\ BootInit /\ [][BootNext]_bVars
  /\ WF_bVars(BootStep) /\ WF_bVars(Listen) /\ WF_bVars(WatcherWakes)
  /\ \A s \in Stoppers : WF_bVars(Stopping(s))
  /\ \A r \in Req : WF_bVars(Answer(r) /\ UNCHANGED bootVars)

-----------------------------------------------------------------------------
(* Properties.                                                             *)

(* The variables keep their types, and a resource that runs has its field  *)
(* until it is told to stop.                                               *)
BootTypeOK ==
  /\ TypeOK
  /\ boot \in {Steps[i] : i \in DOMAIN Steps} \cup {"failed"}
  /\ mode \in Listeners /\ handle \in BOOLEAN
  /\ listener \in {"none", "spawned", "listening", "closed"}
  /\ trusted = NoOne \/ trusted \in [named : BOOLEAN, snapshot : [source : {"file", "env"}, validators : Lists, operators : Lists]]
  /\ \A f \in Fields : running[f] => field[f] /\ stops[f] = 0

(* Embed that returns an error leaves nothing behind: there is no handle   *)
(* to stop what it has opened (the three returns of embed.go:155-191).     *)
FailedBootHoldsNothing ==
  boot = "failed" => \A f \in Fields : ~field[f] /\ ~running[f]

(* "Refusing to fail open" (consensus.go): a ZAP server that runs has both *)
(* authorities, every entry of both is well-formed, and a file that is     *)
(* named is where they come from, even if the environment offers others.   *)
ZapFailsClosed ==
  running["zapNode"] =>
    /\ trusted.snapshot.validators = {"id"} /\ trusted.snapshot.operators = {"id"}
    /\ trusted.snapshot.source = (IF trusted.named THEN "file" ELSE "env")

(* Somebody has entered Stop while somebody else was in it, or Stop has    *)
(* been called and the listening goroutine has not read its field yet.     *)
Raced == overlapped \/ (listener = "spawned" /\ \E s \in Stoppers : Entered(s))

(* "Gracefully shuts down the KMS server. Idempotent." (embed.go:272).  It *)
(* is as long as no call overlaps another, whoever makes them, the host    *)
(* again and again or the host and the watcher one after the other, and    *)
(* whether the listener starts before, while or after the HTTP server is   *)
(* shut down, if it starts at all: no nil field is used, no resource is    *)
(* told to stop twice, and a Stop that has returned leaves nothing running.*)
StopIsIdempotent ==
  ~Raced =>
    /\ process # "panicked"
    /\ \A f \in Fields : stops[f] <= 1
    /\ \A s \in Stoppers : Entered(s) /\ step[s] = "out" /\ process = "up" => \A f \in Fields : ~running[f]

(* A secret that exists is answered 404 for one of two reasons only: the   *)
(* drain gave the request up after ten seconds (a response may take sixty, *)
(* embed.go:235), or the listener is the host's, which closes it after the *)
(* database, and the host has begun to shut down (kmsd/main.go:91).        *)
FalseNotFoundHasCause ==
  \A r \in Req : request[r] = "404" => r \in outlasted \/ (mode = "host" /\ calls > 0)

(* "If ctx is cancelled before Stop is called, Embed shuts the server down *)
(* automatically" (embed.go:145-146), whatever else happens meanwhile.     *)
StopsWithItsContext ==
  (boot = "up" /\ ctxDone) ~> (\A f \in Fields : ~running[f])
=============================================================================
