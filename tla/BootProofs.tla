----------------------------- MODULE BootProofs -----------------------------
(***************************************************************************)
(* Proofs about Boot: its types, and that a failed boot holds nothing, the *)
(* ZAP server fails closed, the teardown is in order, Stop can be called   *)
(* again and a 404 for a secret that exists has a cause, for any number of *)
(* requests and of calls of Stop.                                          *)
(***************************************************************************)
EXTENDS Boot, TLAPS

(* A stopper is at a field, and what it drains or clears it has stopped.   *)
AtAField ==
  \A s \in Stoppers : /\ step[s] # "out" => at[s] > 0
                      /\ step[s] \in {"drain", "clear"} => stops[Here(s)] > 0

(* What a stopper has passed is nil.                                       *)
PassedIsNil ==
  \A s \in Stoppers : \A j \in DOMAIN Order : j < at[s] => ~field[Order[j]]

(* Nothing is told to stop before the fields above it are nil.             *)
StoppedInOrder ==
  \A j, k \in DOMAIN Order : j < k /\ stops[Order[k]] > 0 => ~field[Order[j]]

(* Nobody calls Stop on a server that has not been returned.               *)
Undisturbed ==
  boot # "up" => /\ \A s \in Stoppers : at[s] = 0 /\ step[s] = "out"
                 /\ \A f \in Fields : stops[f] = 0

(* Before the database is open there is nothing, and only a boot that      *)
(* can no longer fail leaves the listening goroutine behind.               *)
Bare ==
  /\ boot \in {"configure", "mkdir", "open", "failed"} => \A f \in Fields : ~field[f] /\ ~running[f]
  /\ listener # "none" => boot \in {"watch", "up"}

StopInv == AtAField /\ PassedIsNil /\ StoppedInOrder
BootInv == Undisturbed /\ Bare
IInv    == BootTypeOK /\ StopInv /\ BootInv /\ ZapFailsClosed

-----------------------------------------------------------------------------
(* The two sequences, taken apart.                                         *)

(* Stop's order has five fields, in this order.                            *)
LEMMA OrderFacts ==
  /\ DOMAIN Order = 1 .. 5 /\ Len(Order) = 5
  /\ Order[1] = "httpServer" /\ Order[2] = "zapNode" /\ Order[3] = "replicator"
  /\ Order[4] = "auditCancel" /\ Order[5] = "db"
  BY DEF Order

(* The five fields of the handle.                                          *)
LEMMA FieldsFacts == Fields = {"httpServer", "zapNode", "replicator", "auditCancel", "db"}
<1>1. Fields = {Order[1], Order[2], Order[3], Order[4], Order[5]}
  BY OrderFacts DEF Fields
<1> QED
  BY <1>1, OrderFacts

(* No field is stopped twice in one Stop.                                  *)
LEMMA OrderInjective ==
  ASSUME NEW j \in DOMAIN Order, NEW k \in DOMAIN Order
  PROVE  Order[j] \in Fields /\ (Order[j] = Order[k] => j = k)
  BY OrderFacts DEF Fields

(* Embed has nine steps, and is up after them.                             *)
LEMMA StepsFacts ==
  /\ DOMAIN Steps = 1 .. 10
  /\ Steps[1] = "configure" /\ Steps[2] = "mkdir" /\ Steps[3] = "open" /\ Steps[4] = "replicate"
  /\ Steps[5] = "audit" /\ Steps[6] = "routes" /\ Steps[7] = "zap" /\ Steps[8] = "listen"
  /\ Steps[9] = "watch" /\ Steps[10] = "up"
  BY DEF Steps

(* Which step of Embed comes after which.                                  *)
LEMMA AfterFacts ==
  /\ After("configure") = "mkdir" /\ After("mkdir") = "open" /\ After("open") = "replicate"
  /\ After("replicate") = "audit" /\ After("audit") = "routes" /\ After("routes") = "zap"
  /\ After("zap") = "listen" /\ After("listen") = "watch" /\ After("watch") = "up"
<1>1. ASSUME NEW k \in 1 .. 9 PROVE After(Steps[k]) = Steps[1 + k]
  <2>1. \A i \in DOMAIN Steps : Steps[i] = Steps[k] => i = k
    BY StepsFacts
  <2>2. (CHOOSE i \in DOMAIN Steps : Steps[i] = Steps[k]) = k
    <3>1. k \in DOMAIN Steps
      BY StepsFacts
    <3>2. \E i \in DOMAIN Steps : Steps[i] = Steps[k]
      BY <3>1
    <3> DEFINE c == CHOOSE i \in DOMAIN Steps : Steps[i] = Steps[k]
    <3>3. c \in DOMAIN Steps /\ Steps[c] = Steps[k]
      BY <3>2, Zenon
    <3> QED
      BY <2>1, <3>3, Zenon
  <2> QED
    BY <2>2, Zenon DEF After
<1> QED
  BY <1>1, StepsFacts

(* The steps, as a set.                                                    *)
LEMMA StepsSet == {Steps[i] : i \in DOMAIN Steps} = {"configure", "mkdir", "open", "replicate", "audit", "routes", "zap", "listen", "watch", "up"}
<1>1. {Steps[i] : i \in DOMAIN Steps} = {Steps[1], Steps[2], Steps[3], Steps[4], Steps[5], Steps[6], Steps[7], Steps[8], Steps[9], Steps[10]}
  BY StepsFacts
<1> QED
  BY <1>1, StepsFacts

-----------------------------------------------------------------------------
(* Before Embed begins there is nothing, and nobody in Stop.               *)
THEOREM InitIInv == BootInit => IInv
<1> SUFFICES ASSUME BootInit PROVE IInv
  OBVIOUS
<1> USE DEF BootInit
<1>1. \A k \in DOMAIN Order : Order[k] \in Fields
  BY OrderInjective
<1>2. TypeOK
  <2>1. at \in [Stoppers -> 0 .. Len(Order)] /\ calls \in 0 .. MaxCalls
    BY OrderFacts, FlagsAssumption
  <2>2. /\ field \in [Fields -> BOOLEAN] /\ running \in [Fields -> BOOLEAN]
        /\ stops \in [Fields -> Nat] /\ step \in [Stoppers -> {"out", "look", "use", "drain", "clear"}]
        /\ request \in [Req -> {"idle", "serving", "cut", "200", "404"}]
    OBVIOUS
  <2> QED
    BY <2>1, <2>2 DEF TypeOK
<1>3. BootTypeOK
  BY <1>2, StepsSet DEF BootTypeOK
<1>4. StopInv
  BY <1>1, OrderFacts DEF StopInv, AtAField, PassedIsNil, StoppedInOrder
<1>5. BootInv /\ ZapFailsClosed
  BY FieldsFacts DEF BootInv, Undisturbed, Bare, ZapFailsClosed
<1> QED
  BY <1>3, <1>4, <1>5 DEF IInv

-----------------------------------------------------------------------------
(* Frames.                                                                 *)

(* While Embed runs nobody is in Stop, whatever becomes of the fields.     *)
LEMMA BootFrame ==
  ASSUME IInv, boot # "up", UNCHANGED <<at, step, stops>>
  PROVE  StopInv' /\ Undisturbed'
<1>1. \A s \in Stoppers : at[s] = 0 /\ step[s] = "out"
  BY DEF IInv, BootInv, Undisturbed
<1>2. \A f \in Fields : stops[f] = 0
  BY DEF IInv, BootInv, Undisturbed
<1>3. \A k \in DOMAIN Order : Order[k] \in Fields
  BY OrderInjective
<1> QED
  BY <1>1, <1>2, <1>3, OrderFacts DEF StopInv, AtAField, PassedIsNil, StoppedInOrder, Undisturbed

(* Steps that concern neither the fields nor Stop.                         *)
LEMMA QuietFrame ==
  ASSUME IInv, UNCHANGED <<field, at, step, stops, boot, listener>>,
         \A f \in Fields : running'[f] => running[f],
         UNCHANGED trusted
  PROVE  StopInv' /\ BootInv' /\ ZapFailsClosed'
<1>1. "zapNode" \in Fields
  BY FieldsFacts
<1>2. StopInv'
  BY DEF IInv, StopInv, AtAField, PassedIsNil, StoppedInOrder, Here
<1>3. BootInv'
  BY DEF IInv, BootInv, Undisturbed, Bare
<1> QED
  BY <1>1, <1>2, <1>3 DEF IInv, ZapFailsClosed

(* The process has ended.                                                  *)
LEMMA DieTypes ==
  ASSUME IInv, NEW how \in {"panicked", "exited"}, Die(how)
  PROVE  /\ process' \in {"up", "panicked", "exited"}
         /\ running' \in [Fields -> BOOLEAN] /\ \A f \in Fields : ~running'[f]
         /\ hostListens' \in BOOLEAN
         /\ request' \in [Req -> {"idle", "serving", "cut", "200", "404"}]
  BY DEF Die, IInv, BootTypeOK, TypeOK, Serving

-----------------------------------------------------------------------------
(* The steps of Embed.                                                     *)

(* Settings and directory: on to the next step, or an error with nothing   *)
(* opened.                                                                 *)
LEMMA EarlyStep ==
  ASSUME IInv, Configure \/ MkdirAll
  PROVE  IInv'
<1> USE DEF At, Onward, Skip, Refuse
<1>1. boot \in {"configure", "mkdir"} /\ boot' \in {"mkdir", "open", "failed"}
  BY AfterFacts DEF Configure, MkdirAll
<1>2. UNCHANGED <<process, field, running, requests, stopping, history, mode, listener, handle, trusted>>
  BY DEF Configure, MkdirAll, requests
<1>3. BootTypeOK'
  <2>1. TypeOK'
    BY <1>2 DEF IInv, BootTypeOK, TypeOK, requests, stopping, history
  <2> QED
    BY <1>1, <1>2, <2>1, StepsSet DEF IInv, BootTypeOK, history
<1>4. StopInv' /\ Undisturbed'
  BY <1>1, <1>2, BootFrame DEF stopping, history
<1>5. Bare' /\ ZapFailsClosed'
  BY <1>1, <1>2 DEF IInv, BootInv, Bare, ZapFailsClosed
<1> QED
  BY <1>3, <1>4, <1>5 DEF IInv, BootInv

(* A resource is made, and is not the ZAP server.                          *)
LEMMA MakeStep ==
  ASSUME IInv, NEW f \in Fields \ {"zapNode"}, boot # "up",
         boot' \in {"replicate", "audit", "routes"},
         listener = "none",
         field' = [field EXCEPT ![f] = TRUE],
         NEW b \in BOOLEAN, running' = [running EXCEPT ![f] = b],
         UNCHANGED <<process, requests, stopping, history, mode, listener, handle, trusted>>
  PROVE  IInv'
<1>1. BootTypeOK'
  BY StepsSet DEF IInv, BootInv, Undisturbed, BootTypeOK, TypeOK, requests, stopping, history
<1>2. StopInv' /\ Undisturbed'
  BY BootFrame DEF stopping, history
<1>3. Bare' /\ ZapFailsClosed'
  BY FieldsFacts DEF IInv, BootTypeOK, TypeOK, BootInv, Bare, ZapFailsClosed
<1> QED
  BY <1>1, <1>2, <1>3 DEF IInv, BootInv

(* On to the next step, with nothing made.                                 *)
LEMMA SkipStep ==
  ASSUME IInv, boot \notin {"up", "failed"},
         boot' \in {"audit", "routes", "zap", "listen", "watch", "up"}, listener # "none" => boot' \in {"watch", "up"},
         UNCHANGED <<process, field, running, requests, stopping, history, mode, listener, handle, trusted>>
  PROVE  IInv'
<1>1. BootTypeOK'
  <2>1. TypeOK'
    BY DEF IInv, BootTypeOK, TypeOK, requests, stopping, history
  <2> QED
    BY <2>1, StepsSet DEF IInv, BootTypeOK, history
<1>2. StopInv' /\ Undisturbed'
  BY BootFrame DEF stopping, history
<1>3. Bare' /\ ZapFailsClosed'
  BY DEF IInv, BootInv, Bare, ZapFailsClosed
<1> QED
  BY <1>1, <1>2, <1>3 DEF IInv, BootInv

(* The process ends in the middle of Embed.                                *)
LEMMA ExitStep ==
  ASSUME IInv, boot # "up", boot' \in {boot},
         NEW how \in {"panicked", "exited"}, Die(how),
         UNCHANGED <<field, stopping, history, mode, listener, handle, trusted>>
  PROVE  IInv'
<1>1. BootTypeOK'
  BY DieTypes DEF IInv, BootTypeOK, TypeOK, stopping, history
<1>2. StopInv' /\ Undisturbed'
  BY BootFrame DEF stopping, history
<1>3. Bare' /\ ZapFailsClosed'
  BY DieTypes, FieldsFacts DEF IInv, BootInv, Bare, ZapFailsClosed
<1> QED
  BY <1>1, <1>2, <1>3 DEF IInv, BootInv

(* A snapshot that turns the authorizer on is well-formed in both lists,   *)
(* and comes from where it was looked for.                                 *)
LEMMA SnapshotIsSound ==
  ASSUME NEW file \in File, NEW e \in [validators : Lists, operators : Lists],
         NEW t \in BOOLEAN, NEW p \in BOOLEAN,
         BuildConsensusAuthorizer(LoadConsensusSnapshot(file, e), t, p) = "on"
  PROVE  LET s == LoadConsensusSnapshot(file, e) IN
         /\ s \in [source : {"file", "env"}, validators : Lists, operators : Lists]
         /\ s.validators = {"id"} /\ s.operators = {"id"}
         /\ s.source = (IF file.state # "unnamed" THEN "file" ELSE "env")
<1> DEFINE s == LoadConsensusSnapshot(file, e)
<1>1. file.state \in {"unnamed", "absent", "unreadable", "garbage", "present"}
      /\ file.validators \in Lists /\ file.operators \in Lists
  BY DEF File, Lists
<1>2. /\ s # Malformed /\ "typo" \notin s.validators \cup s.operators
      /\ s.validators # {} /\ s.operators # {}
  BY DEF BuildConsensusAuthorizer
<1>3. /\ s \in [source : {"file", "env"}, validators : Lists, operators : Lists]
      /\ s.source = (IF file.state # "unnamed" THEN "file" ELSE "env")
  <2>1. CASE file.state = "unnamed"
    <3>1. s = Snapshot("env", e.validators, e.operators)
      BY <2>1 DEF LoadConsensusSnapshot
    <3> QED
      BY <2>1, <3>1 DEF Snapshot
  <2>2. CASE file.state \in {"absent", "present"}
    <3>1. s = Snapshot("file", file.validators, file.operators)
      BY <2>2 DEF LoadConsensusSnapshot
    <3> QED
      BY <1>1, <2>2, <3>1 DEF Snapshot
  <2>3. CASE file.state \in {"unreadable", "garbage"}
    BY <1>2, <2>3 DEF LoadConsensusSnapshot
  <2> QED
    BY <1>1, <2>1, <2>2, <2>3
<1>4. s.validators = {"id"} /\ s.operators = {"id"}
  BY <1>2, <1>3 DEF Lists
<1> QED
  BY <1>3, <1>4

(* The ZAP server: not at all, or on a sound snapshot, or the process ends. *)
LEMMA ZapStep ==
  ASSUME IInv, StartZAPSecretServer
  PROVE  IInv'
<1> USE DEF At, Onward, Alive
<1>1. boot = "zap" /\ UNCHANGED <<stopping, history, mode, listener, handle>> /\ listener = "none"
  BY DEF StartZAPSecretServer, IInv, BootInv, Bare
<1>2. CASE Skip /\ UNCHANGED trusted
  BY <1>1, <1>2, AfterFacts, SkipStep DEF Skip, requests
<1>3. CASE Exit /\ UNCHANGED trusted
  BY <1>1, <1>3, ExitStep DEF Exit, Crit
<1>4. ASSUME NEW file \in File, NEW e \in [validators : Lists, operators : Lists],
             NEW t \in BOOLEAN, NEW p \in BOOLEAN,
             BuildConsensusAuthorizer(LoadConsensusSnapshot(file, e), t, p) = "on",
             Obtain("zapNode"),
             trusted' = [named |-> file.state # "unnamed", snapshot |-> LoadConsensusSnapshot(file, e)]
      PROVE  IInv'
  <2> DEFINE s == LoadConsensusSnapshot(file, e)
  <2>1. /\ s \in [source : {"file", "env"}, validators : Lists, operators : Lists]
        /\ s.validators = {"id"} /\ s.operators = {"id"}
        /\ s.source = (IF file.state # "unnamed" THEN "file" ELSE "env")
    BY <1>4, SnapshotIsSound
  <2> HIDE DEF s
  <2>2. trusted' = [named |-> file.state # "unnamed", snapshot |-> s]
    BY <1>4 DEF s
  <2>3. ZapFailsClosed'
    BY <2>1, <2>2 DEF ZapFailsClosed
  <2>4. trusted' \in [named : BOOLEAN, snapshot : [source : {"file", "env"}, validators : Lists, operators : Lists]]
    BY <2>1, <2>2
  <2>5. BootTypeOK'
    BY <1>1, <1>4, <2>4, FieldsFacts, AfterFacts, StepsSet
    DEF IInv, BootInv, Undisturbed, BootTypeOK, TypeOK, stopping, history, Obtain, Make
  <2>6. StopInv' /\ Undisturbed'
    BY <1>1, BootFrame DEF stopping, history
  <2>7. Bare'
    BY <1>1, <1>4, AfterFacts DEF Bare, Obtain
  <2> QED
    BY <2>3, <2>5, <2>6, <2>7 DEF IInv, BootInv
<1> QED
  BY <1>2, <1>3, <1>4 DEF StartZAPSecretServer

(* The field of the HTTP server is set before its goroutine listens.       *)
LEMMA ListenerStep ==
  ASSUME IInv, StartListener
  PROVE  IInv'
<1> USE DEF At, Onward
<1>1. /\ boot = "listen" /\ boot' = "watch" /\ listener' \in {listener, "spawned"}
      /\ field' \in [Fields -> BOOLEAN] /\ \A f \in Fields : field[f] => field'[f]
      /\ UNCHANGED <<process, running, requests, stopping, history, mode, handle, trusted>>
  BY AfterFacts, FieldsFacts DEF StartListener, IInv, BootTypeOK, TypeOK
<1>2. BootTypeOK'
  BY <1>1, StepsSet DEF IInv, BootTypeOK, TypeOK, requests, stopping, history
<1>3. StopInv' /\ Undisturbed'
  BY <1>1, BootFrame DEF stopping, history
<1>4. Bare' /\ ZapFailsClosed'
  BY <1>1 DEF IInv, Bare, ZapFailsClosed
<1> QED
  BY <1>2, <1>3, <1>4 DEF IInv, BootInv

(* No step of Embed breaks the invariant.                                  *)
LEMMA BootStepKeeps ==
  ASSUME IInv, BootStep
  PROVE  IInv'
<1> USE AfterFacts DEF At, Onward
<1>0. boot \in {"open", "replicate", "audit", "routes", "zap", "listen"} => listener = "none"
  BY DEF IInv, BootInv, Bare
<1>1. CASE Configure \/ MkdirAll
  BY <1>1, EarlyStep
<1>2. CASE OpenDb
  <2>1. CASE Obtain("db")
    BY <1>0, <1>2, <2>1, MakeStep, FieldsFacts DEF OpenDb, Obtain, Make, requests
  <2>2. CASE Refuse
    <3>1. /\ boot = "open" /\ boot' = "failed"
          /\ UNCHANGED <<process, field, running, requests, stopping, history, mode, listener, handle, trusted>>
      BY <1>2, <2>2 DEF OpenDb, Refuse, requests
    <3>2. BootTypeOK'
      BY <3>1, StepsSet DEF IInv, BootTypeOK, TypeOK, requests, stopping, history
    <3>3. StopInv' /\ Undisturbed'
      BY <3>1, BootFrame DEF stopping, history
    <3>4. Bare' /\ ZapFailsClosed'
      BY <3>1 DEF IInv, BootInv, Bare, ZapFailsClosed
    <3> QED
      BY <3>2, <3>3, <3>4 DEF IInv, BootInv
  <2> QED
    BY <1>2, <2>1, <2>2 DEF OpenDb
<1>3. CASE StartReplicator
  <2>1. CASE Obtain("replicator")
    BY <1>0, <1>3, <2>1, MakeStep, FieldsFacts DEF StartReplicator, Obtain, Make, requests
  <2>2. CASE Skip
    BY <1>0, <1>3, <2>2, SkipStep DEF StartReplicator, Skip, requests
  <2> QED
    BY <1>3, <2>1, <2>2 DEF StartReplicator
<1>4. CASE NewAuditor
  BY <1>0, <1>4, MakeStep, FieldsFacts DEF NewAuditor, requests
<1>5. CASE RegisterRoutes
  <2>1. CASE Skip
    BY <1>0, <1>5, <2>1, SkipStep DEF RegisterRoutes, Skip, requests
  <2>2. CASE Exit
    BY <1>5, <2>2, ExitStep DEF RegisterRoutes, Exit, Crit
  <2> QED
    BY <1>5, <2>1, <2>2 DEF RegisterRoutes
<1>6. CASE Watch
  BY <1>6, SkipStep DEF Watch, vars, stopping, requests, history
<1> QED
  BY <1>1, <1>2, <1>3, <1>4, <1>5, <1>6, ZapStep, ListenerStep DEF BootStep

-----------------------------------------------------------------------------
(* The listening goroutine, the host and the clients.                      *)

(* The listening goroutine, whenever it runs: it serves only on a server   *)
(* that was not told to stop.                                              *)
LEMMA ListenKeeps ==
  ASSUME IInv, Listen
  PROVE  IInv'
<1>1. /\ UNCHANGED <<field, stopping, history, boot, mode, handle, trusted>>
      /\ listener = "spawned" /\ boot \in {"watch", "up"}
  BY DEF Listen, IInv, BootInv, Bare
<1>2. CASE UNCHANGED <<process, requests>> /\ UNCHANGED running /\ listener' = "closed"
  <2>1. BootTypeOK'
    BY <1>1, <1>2 DEF IInv, BootTypeOK, TypeOK, requests, stopping, history
  <2>2. StopInv' /\ ZapFailsClosed'
    BY <1>1, <1>2 DEF IInv, StopInv, AtAField, PassedIsNil, StoppedInOrder, Here, ZapFailsClosed, stopping, history
  <2>3. BootInv'
    BY <1>1, <1>2 DEF IInv, BootInv, Undisturbed, Bare, stopping, history
  <2> QED
    BY <2>1, <2>2, <2>3 DEF IInv
<1>3. CASE /\ field["httpServer"] /\ stops["httpServer"] = 0 /\ listener' = "listening"
           /\ running' = [running EXCEPT !["httpServer"] = TRUE] /\ UNCHANGED <<process, requests>>
  <2>1. BootTypeOK'
    BY <1>1, <1>3, FieldsFacts DEF IInv, BootTypeOK, TypeOK, requests, stopping, history
  <2>2. StopInv'
    BY <1>1, <1>3 DEF IInv, StopInv, AtAField, PassedIsNil, StoppedInOrder, Here, stopping, history
  <2>3. ZapFailsClosed'
    BY <1>1, <1>3, FieldsFacts DEF IInv, BootTypeOK, TypeOK, ZapFailsClosed
  <2>4. BootInv'
    BY <1>1, <1>3 DEF IInv, BootInv, Undisturbed, Bare, stopping, history
  <2> QED
    BY <2>1, <2>2, <2>3, <2>4 DEF IInv
<1>4. ASSUME NEW how \in {"panicked", "exited"}, Die(how), UNCHANGED listener PROVE IInv'
  <2>1. BootTypeOK'
    BY <1>1, <1>4, DieTypes DEF IInv, BootTypeOK, TypeOK, stopping, history
  <2>2. StopInv' /\ BootInv' /\ ZapFailsClosed'
    BY <1>1, <1>4, DieTypes, QuietFrame DEF stopping, history
  <2> QED
    BY <2>1, <2>2 DEF IInv
<1> QED
  BY <1>2, <1>3, <1>4 DEF Listen, Crit

(* Mount, the host's listener, the context and the requests concern no     *)
(* field of the handle.                                                    *)
LEMMA HostKeeps ==
  ASSUME IInv, Mount \/ MountFails \/ HostListens \/ Unmount \/ HostCloses \/ ContextEnds \/ Serve
  PROVE  IInv'
<1>1. CASE Mount \/ Unmount
  <2>1. handle' \in BOOLEAN /\ UNCHANGED <<vars, boot, mode, listener, trusted>>
    BY <1>1 DEF Mount, Unmount
  <2>2. BootTypeOK'
    BY <2>1 DEF IInv, BootTypeOK, TypeOK, vars, requests, history
  <2> QED
    BY <2>1, <2>2, QuietFrame DEF IInv, vars, history
<1>2. ASSUME Crit, UNCHANGED <<field, stopping, history, bootVars>> PROVE IInv'
  <2>1. BootTypeOK'
    BY <1>2, DieTypes DEF Crit, IInv, BootTypeOK, TypeOK, stopping, history, bootVars
  <2>2. StopInv' /\ BootInv' /\ ZapFailsClosed'
    BY <1>2, DieTypes, QuietFrame DEF Crit, stopping, history, bootVars
  <2> QED
    BY <2>1, <2>2 DEF IInv
<1>3. ASSUME hostListens' \in BOOLEAN, ctxDone' \in BOOLEAN, request' \in [Req -> {"idle", "serving", "cut", "200", "404"}],
             UNCHANGED <<process, field, running, at, step, calls, history, bootVars>>
      PROVE  IInv'
  <2>1. BootTypeOK'
    BY <1>3 DEF IInv, BootTypeOK, TypeOK, history, bootVars
  <2> QED
    BY <1>3, <2>1, QuietFrame DEF IInv, history, bootVars
<1>4. CASE MountFails
  BY <1>2, <1>4 DEF MountFails
<1>5. CASE HostListens
  BY <1>2, <1>3, <1>5 DEF HostListens, IInv, BootTypeOK, TypeOK, stopping
<1>6. CASE HostCloses
  BY <1>3, <1>6 DEF HostCloses, CloseListener, IInv, BootTypeOK, TypeOK
<1>7. CASE ContextEnds
  BY <1>3, <1>7 DEF ContextEnds, CancelContext, IInv, BootTypeOK, TypeOK, requests
<1>8. CASE Serve
  <2>1. PICK r \in Req : Arrive(r) \/ Answer(r)
    BY <1>8 DEF Serve
  <2>2. request' \in [Req -> {"idle", "serving", "cut", "200", "404"}]
    BY <2>1 DEF Arrive, Answer, IInv, BootTypeOK, TypeOK
  <2> QED
    BY <1>3, <1>8, <2>1, <2>2 DEF Serve, Arrive, Answer, IInv, BootTypeOK, TypeOK
<1> QED
  BY <1>1, <1>4, <1>5, <1>6, <1>7, <1>8

(* The two ways into Stop.                                                 *)
LEMMA EnterKeeps ==
  ASSUME IInv, CallStop \/ WatcherWakes
  PROVE  IInv'
<1> PICK s \in Stoppers : Enter(s)
  BY DEF CallStop, WatcherWakes, HostStops, WatcherStops, Stoppers
<1>1. /\ boot = "up" /\ calls' \in 0 .. MaxCalls
      /\ UNCHANGED <<process, field, running, ctxDone, requests, stops, outlasted, bootVars>>
      /\ overlapped' \in BOOLEAN
  BY FlagsAssumption DEF CallStop, WatcherWakes, HostStops, WatcherStops, Enter, IInv, BootTypeOK, TypeOK
<1>2. at' = [at EXCEPT ![s] = 1] /\ step' = [step EXCEPT ![s] = "look"]
  BY DEF Enter, Move
<1>3. BootTypeOK'
  BY <1>1, <1>2, OrderFacts DEF IInv, BootTypeOK, TypeOK, requests, bootVars
<1>4. StopInv'
  BY <1>1, <1>2, OrderFacts DEF IInv, BootTypeOK, TypeOK, StopInv, AtAField, PassedIsNil, StoppedInOrder, Here
<1>5. BootInv' /\ ZapFailsClosed'
  BY <1>1 DEF IInv, BootInv, Undisturbed, Bare, ZapFailsClosed, bootVars
<1> QED
  BY <1>3, <1>4, <1>5 DEF IInv

-----------------------------------------------------------------------------
(* Stop.                                                                   *)

(* A stopper that moves on has found its field nil, or made it so.         *)
LEMMA AdvanceTypes ==
  ASSUME BootTypeOK, NEW s \in Stoppers, at[s] > 0, Advance(s)
  PROVE  /\ at' \in [Stoppers -> 0 .. Len(Order)]
         /\ step' \in [Stoppers -> {"out", "look", "use", "drain", "clear"}]
         /\ step'[s] \in {"look", "out"} /\ at'[s] \in {at[s], at[s] + 1} /\ at'[s] > 0
         /\ \A q \in Stoppers \ {s} : at'[q] = at[q] /\ step'[q] = step[q]
  BY OrderFacts DEF Advance, Move, BootTypeOK, TypeOK

(* e.f # nil: to its use, or past it.                                      *)
LEMMA LookKeeps ==
  ASSUME IInv, NEW s \in Stoppers, Look(s), UNCHANGED bootVars
  PROVE  BootTypeOK' /\ StopInv'
<1>1. /\ UNCHANGED <<process, field, running, calls, ctxDone, requests, history, bootVars>>
      /\ at[s] > 0
  BY DEF Look, IInv, StopInv, AtAField
<1>2. CASE field[Here(s)] /\ Move(s, "use") /\ UNCHANGED at
  BY <1>1, <1>2 DEF Move, IInv, BootTypeOK, TypeOK, StopInv, AtAField, PassedIsNil, StoppedInOrder, Here,
     requests, history, bootVars
<1>3. CASE ~field[Here(s)] /\ Advance(s)
  <2>1. BootTypeOK'
    BY <1>1, <1>3, AdvanceTypes DEF IInv, BootTypeOK, TypeOK, requests, history, bootVars
  <2>2. AtAField' /\ StoppedInOrder'
    BY <1>1, <1>3, AdvanceTypes DEF IInv, StopInv, AtAField, StoppedInOrder, Here, history
  <2>3. PassedIsNil'
    BY <1>1, <1>3, AdvanceTypes, OrderFacts DEF IInv, BootTypeOK, TypeOK, StopInv, PassedIsNil, Here
  <2> QED
    BY <2>1, <2>2, <2>3 DEF StopInv
<1> QED
  BY <1>2, <1>3 DEF Look

(* What is told to stop is told by one who has passed all above it.        *)
LEMMA UseKeeps ==
  ASSUME IInv, NEW s \in Stoppers, Use(s), UNCHANGED bootVars
  PROVE  BootTypeOK' /\ StopInv'
<1>1. /\ UNCHANGED <<field, at, calls, ctxDone, outlasted, overlapped, bootVars>>
      /\ at[s] \in DOMAIN Order /\ Here(s) \in Fields
  <2>1. at[s] > 0 /\ at[s] \in 0 .. 5
    BY OrderFacts DEF Use, IInv, BootTypeOK, TypeOK, StopInv, AtAField
  <2> QED
    BY <2>1, OrderFacts, OrderInjective DEF Use, Here
<1>2. CASE /\ field[Here(s)]
           /\ running' = [running EXCEPT ![Here(s)] = FALSE]
           /\ stops' = [stops EXCEPT ![Here(s)] = @ + 1]
           /\ Move(s, IF Here(s) = "httpServer" THEN "drain" ELSE "clear")
           /\ UNCHANGED <<process, requests>>
  <2>1. /\ stops' \in [Fields -> Nat] /\ running' \in [Fields -> BOOLEAN]
        /\ stops'[Here(s)] > 0 /\ ~running'[Here(s)]
        /\ \A f \in Fields \ {Here(s)} : stops'[f] = stops[f] /\ running'[f] = running[f]
    BY <1>1, <1>2 DEF IInv, BootTypeOK, TypeOK
  <2>2. step' \in [Stoppers -> {"out", "look", "use", "drain", "clear"}]
    BY <1>2 DEF Move, IInv, BootTypeOK, TypeOK
  <2>3. BootTypeOK'
    <3>1. TypeOK'
      BY <1>1, <1>2, <2>1, <2>2 DEF IInv, BootTypeOK, TypeOK, requests
    <3> QED
      BY <1>1, <2>1, <3>1 DEF IInv, BootTypeOK, bootVars
  <2>4. AtAField'
    <3>1. ASSUME NEW q \in Stoppers
          PROVE  /\ step'[q] # "out" => at'[q] > 0
                 /\ step'[q] \in {"drain", "clear"} => stops'[Here(q)] > 0
      <4>1. CASE q = s
        BY <1>1, <2>1, <4>1, OrderFacts
      <4>2. CASE q # s
        <5>1. step'[q] = step[q]
          BY <1>2, <4>2 DEF Move, IInv, BootTypeOK, TypeOK
        <5>2. step[q] \in {"drain", "clear"} => Here(q) \in Fields
          <6>1. step[q] \in {"drain", "clear"} => at[q] > 0 /\ at[q] \in 0 .. 5
            BY OrderFacts DEF IInv, BootTypeOK, TypeOK, StopInv, AtAField
          <6> QED
            BY <6>1, OrderFacts, OrderInjective DEF Here
        <5> QED
          BY <1>1, <2>1, <5>1, <5>2 DEF IInv, StopInv, AtAField
      <4> QED
        BY <4>1, <4>2
    <3> QED
      BY <3>1, <1>1 DEF AtAField, Here
  <2>5. StoppedInOrder'
    <3>1. ASSUME NEW j \in DOMAIN Order, NEW k \in DOMAIN Order, j < k, stops'[Order[k]] > 0
          PROVE  ~field[Order[j]]
      <4>1. CASE k = at[s]
        BY <1>1, <3>1, <4>1 DEF IInv, StopInv, PassedIsNil
      <4>2. CASE k # at[s]
        <5>1. Order[k] \in Fields \ {Here(s)}
          BY <1>1, <4>2, OrderInjective DEF Here
        <5> QED
          BY <2>1, <3>1, <5>1 DEF IInv, StopInv, StoppedInOrder
      <4> QED
        BY <4>1, <4>2
    <3> QED
      BY <3>1, <1>1 DEF StoppedInOrder
  <2>6. PassedIsNil'
    BY <1>1 DEF IInv, StopInv, PassedIsNil
  <2> QED
    BY <2>3, <2>4, <2>5, <2>6 DEF StopInv
<1>3. CASE Die("panicked") /\ UNCHANGED <<stops, step>>
  <2>1. BootTypeOK'
    BY <1>1, <1>3, DieTypes DEF IInv, BootTypeOK, TypeOK, bootVars
  <2>2. StopInv'
    BY <1>1, <1>3 DEF IInv, StopInv, AtAField, PassedIsNil, StoppedInOrder, Here
  <2> QED
    BY <2>1, <2>2
<1> QED
  BY <1>2, <1>3 DEF Use

(* The drain waits for requests and stops nothing more.                    *)
LEMMA DrainKeeps ==
  ASSUME IInv, NEW s \in Stoppers, Drain(s), UNCHANGED bootVars
  PROVE  BootTypeOK' /\ StopInv'
<1>1. /\ UNCHANGED <<process, field, running, at, calls, ctxDone, requests, stops, overlapped, bootVars>>
      /\ step[s] = "drain" /\ step' = [step EXCEPT ![s] = "clear"] /\ outlasted' \subseteq Req
  BY DEF Drain, Move, Serving, IInv, BootTypeOK, TypeOK
<1>2. BootTypeOK'
  BY <1>1 DEF IInv, BootTypeOK, TypeOK, requests, bootVars
<1>3. StopInv'
  BY <1>1 DEF IInv, BootTypeOK, TypeOK, StopInv, AtAField, PassedIsNil, StoppedInOrder, Here
<1> QED
  BY <1>2, <1>3

(* Only what has been told to stop is cleared.                             *)
LEMMA ClearKeeps ==
  ASSUME IInv, NEW s \in Stoppers, Clear(s), UNCHANGED bootVars
  PROVE  BootTypeOK' /\ StopInv' /\ \A f \in Fields : field'[f] => field[f]
<1>1. /\ UNCHANGED <<process, running, calls, ctxDone, requests, history, bootVars>>
      /\ at[s] > 0 /\ stops[Here(s)] > 0 /\ step[s] = "clear" /\ Advance(s)
      /\ field' = [field EXCEPT ![Here(s)] = FALSE]
  BY DEF Clear, IInv, StopInv, AtAField
<1>2. /\ field' \in [Fields -> BOOLEAN] /\ ~field'[Here(s)]
      /\ \A f \in Fields : field'[f] => field[f]
      /\ \A f \in Fields : field[f] /\ f # Here(s) => field'[f]
      /\ Here(s) \in Fields
  <2>1. at[s] \in DOMAIN Order
    BY <1>1, OrderFacts DEF IInv, BootTypeOK, TypeOK
  <2>2. Here(s) \in Fields
    BY <2>1, OrderInjective DEF Here
  <2> QED
    BY <1>1, <2>2 DEF IInv, BootTypeOK, TypeOK
<1>3. BootTypeOK'
  BY <1>1, <1>2, AdvanceTypes DEF IInv, BootTypeOK, TypeOK, requests, history, bootVars
<1>4. StoppedInOrder'
  BY <1>1, <1>2, OrderInjective DEF IInv, StopInv, StoppedInOrder, history
<1>5. AtAField'
  BY <1>1, AdvanceTypes DEF IInv, StopInv, AtAField, Here, history
<1>6. PassedIsNil'
  <2>1. ASSUME NEW q \in Stoppers, NEW j \in DOMAIN Order, j < at'[q] PROVE ~field'[Order[j]]
    <3>1. CASE q = s /\ j = at[s]
      BY <1>2, <3>1 DEF Here
    <3>2. CASE ~(q = s /\ j = at[s])
      <4>1. j < at[q]
        BY <1>1, <2>1, <3>2, AdvanceTypes, OrderFacts DEF IInv, BootTypeOK, TypeOK
      <4> QED
        BY <1>2, <4>1, OrderInjective DEF IInv, StopInv, PassedIsNil
    <3> QED
      BY <3>1, <3>2
  <2> QED
    BY <2>1 DEF PassedIsNil
<1> QED
  BY <1>2, <1>3, <1>4, <1>5, <1>6 DEF StopInv

(* No step of Stop breaks the invariant, with two stoppers in it.          *)
LEMMA StoppingKeeps ==
  ASSUME IInv, NEW s \in Stoppers, Stopping(s)
  PROVE  IInv'
<1>1. StopStep(s) /\ UNCHANGED bootVars
  BY DEF Stopping
<1>2. boot = "up" /\ "zapNode" \in Fields
  BY <1>1, FieldsFacts DEF StopStep, Look, Use, Drain, Clear, IInv, BootInv, Undisturbed
<1>3. BootTypeOK' /\ StopInv'
  BY <1>1, LookKeeps, UseKeeps, DrainKeeps, ClearKeeps DEF StopStep
<1>4. BootInv'
  BY <1>1, <1>2 DEF IInv, BootInv, Undisturbed, Bare, bootVars
<1>5. running'["zapNode"] => running["zapNode"]
  BY <1>1, <1>2 DEF StopStep, Look, Use, Drain, Clear, Die, IInv, BootTypeOK, TypeOK
<1>6. ZapFailsClosed'
  BY <1>1, <1>5 DEF IInv, ZapFailsClosed, bootVars
<1> QED
  BY <1>3, <1>4, <1>6 DEF IInv

-----------------------------------------------------------------------------
(* The results.                                                            *)

(* Every step preserves the inductive invariant.                           *)
THEOREM NextIInv == IInv /\ [BootNext]_bVars => IInv'
<1> SUFFICES ASSUME IInv, [BootNext]_bVars PROVE IInv'
  OBVIOUS
<1>1. CASE UNCHANGED bVars
  BY <1>1 DEF bVars, vars, bootVars, requests, history, IInv, BootTypeOK, TypeOK, StopInv, AtAField,
     PassedIsNil, StoppedInOrder, Here, BootInv, Undisturbed, Bare, ZapFailsClosed
<1>2. ASSUME NEW s \in Stoppers, Stopping(s) PROVE IInv'
  BY <1>2, StoppingKeeps
<1> QED
  BY <1>1, <1>2, BootStepKeeps, ListenKeeps, HostKeeps, EnterKeeps DEF BootNext

(* The inductive invariant holds from the first step of Embed on.          *)
THEOREM InductiveInvariant == Spec => []IInv
  BY InitIInv, NextIInv, PTL DEF Spec

(* Every variable keeps its type, and a resource runs only behind a field  *)
(* that is set and not yet told to stop.                                   *)
THEOREM TypeCorrect == Spec => []BootTypeOK
  BY InductiveInvariant, PTL DEF IInv

(* Embed that returns an error (embed.go:155-191) leaves nothing open.     *)
THEOREM FailedHoldsNothing == Spec => []FailedBootHoldsNothing
<1>1. IInv => FailedBootHoldsNothing
  BY DEF IInv, BootInv, Bare, FailedBootHoldsNothing
<1> QED
  BY <1>1, InductiveInvariant, PTL

(* A ZAP server that runs trusts a snapshot with both authorities, every   *)
(* entry well-formed, from the source that was named (consensus.go).       *)
THEOREM ZapIsClosed == Spec => []ZapFailsClosed
  BY InductiveInvariant, PTL DEF IInv

(* However many goroutines are in Stop (embed.go:273-300), nothing is told *)
(* to stop while one of its users runs.                                    *)
THEOREM TeardownInOrder == Spec => []UsersGoFirst
<1>1. ASSUME IInv, NEW j \in DOMAIN Order, NEW k \in DOMAIN Order, j < k, running[Order[j]]
      PROVE  stops[Order[k]] = 0
  BY <1>1, OrderInjective DEF IInv, BootTypeOK, TypeOK, StopInv, StoppedInOrder
<1>2. IInv => UsersGoFirst
  BY <1>1, OrderFacts DEF UsersGoFirst, Uses
<1> QED
  BY <1>2, InductiveInvariant, PTL

-----------------------------------------------------------------------------
(* Races of Stop with itself, with the listening goroutine and with the    *)
(* requests.                                                               *)

(* What one stopper alone can rely on: a field it has seen is there until  *)
(* it clears it, and is stopped once.  Whoever has returned has left every *)
(* field nil; a panic takes two stoppers in Stop at once, or a listener    *)
(* that comes late.                                                        *)
SoleStopper ==
  /\ \A s \in Stoppers : Entered(s) /\ step[s] = "out" => \A f \in Fields : ~field[f]
  /\ (\A s \in Stoppers : ~Entered(s)) => \A f \in Fields : stops[f] = 0
  /\ ~overlapped =>
       /\ \A s, t \in Stoppers : step[s] # "out" /\ step[t] # "out" => s = t
       /\ \A f \in Fields : stops[f] <= 1
       /\ \A s \in Stoppers : step[s] = "use" => field[Here(s)] /\ stops[Here(s)] = 0
       /\ \A f \in Fields : field[f] /\ stops[f] > 0 =>
            \E s \in Stoppers : Entered(s) /\ Here(s) = f /\ step[s] \in {"drain", "clear"}
  /\ process = "panicked" => Raced

(* Only the server's own listener is there without a host, and its field   *)
(* is nil only because of Stop.                                            *)
OwnListener ==
  /\ listener # "none" => mode = "embed"
  /\ running["httpServer"] => listener = "listening"
  /\ mode = "embed" =>
       /\ ~hostListens /\ ~handle
       /\ boot \in {"watch", "up"} /\ (\A s \in Stoppers : ~Entered(s)) => field["httpServer"]

(* A database that was opened runs until somebody stops it.                *)
DbRuns ==
  process = "up" /\ boot \notin {"configure", "mkdir", "open", "failed"} /\ stops["db"] = 0 => running["db"]

(* Without a host, requests come only when the database runs, and once     *)
(* the HTTP server is drained those that are left are the outlasted ones.  *)
Drained ==
  mode = "embed" =>
    /\ \A r \in Serving : boot \in {"watch", "up"}
    /\ boot = "up" /\ (~field["httpServer"] \/ \E s \in Stoppers : at[s] = 1 /\ step[s] = "clear") =>
         Serving \subseteq outlasted
    /\ \A r \in Req : request[r] = "404" => r \in outlasted

(* In a host the context never ends, nobody is let in before Embed has     *)
(* returned, and only the host calls Stop.                                 *)
Hosted ==
  mode = "host" =>
    /\ ~ctxDone /\ ~Entered(Watcher) /\ (calls = 0 => ~Entered(Host))
    /\ hostListens \/ handle \/ Serving # {} => boot = "up"
    /\ \A r \in Req : request[r] = "404" => calls > 0

RaceInv == SoleStopper /\ OwnListener /\ DbRuns /\ Drained /\ Hosted

(* Nobody is in Stop and nobody asks anything before Embed begins.         *)
LEMMA InitRace == BootInit => RaceInv
<1> SUFFICES ASSUME BootInit PROVE RaceInv
  OBVIOUS
<1> USE FieldsFacts DEF BootInit
<1>1. SoleStopper
  BY StoppersAssumption DEF SoleStopper, Entered, Stoppers
<1>2. OwnListener /\ DbRuns /\ Drained /\ Hosted
  BY DEF OwnListener, DbRuns, Drained, Hosted, Serving, Entered, Stoppers
<1> QED
  BY <1>1, <1>2 DEF RaceInv

(* Embed runs alone: what its steps make was not there, and nobody asks.   *)
LEMMA BootRace ==
  ASSUME IInv, RaceInv, BootStep
  PROVE  RaceInv'
<1>1. /\ \A s \in Stoppers : at[s] = 0 /\ step[s] = "out"
      /\ \A f \in Fields : stops[f] = 0
      /\ boot \notin {"up", "failed"} /\ process = "up"
      /\ "httpServer" \in Fields /\ "db" \in Fields
      /\ running \in [Fields -> BOOLEAN] /\ field \in [Fields -> BOOLEAN]
  BY FieldsFacts DEF IInv, BootInv, Undisturbed, BootTypeOK, TypeOK, BootStep, Configure, MkdirAll, OpenDb,
     StartReplicator, NewAuditor, RegisterRoutes, StartZAPSecretServer, StartListener, Watch, At, Alive
<1>2. UNCHANGED <<at, step, stops, outlasted, overlapped, mode, handle, ctxDone, calls>>
  BY DEF BootStep, Configure, MkdirAll, OpenDb, StartReplicator, NewAuditor, RegisterRoutes, StartZAPSecretServer,
     StartListener, Watch, stopping, history, vars
<1>3. UNCHANGED <<process, hostListens, request>> \/ Die("exited")
  <2>1. CASE Configure \/ MkdirAll \/ OpenDb \/ StartReplicator \/ NewAuditor
    BY <2>1 DEF Configure, MkdirAll, OpenDb, StartReplicator, NewAuditor, Skip, Refuse, Obtain
  <2>2. CASE RegisterRoutes \/ StartZAPSecretServer
    BY <2>2 DEF RegisterRoutes, StartZAPSecretServer, Skip, Exit, Crit, Obtain
  <2>3. CASE StartListener \/ Watch
    BY <2>3 DEF StartListener, Watch, requests, vars
  <2> QED
    BY <2>1, <2>2, <2>3 DEF BootStep
<1>4. /\ process' \in {"up", "exited"} /\ (hostListens' => hostListens)
      /\ \A r \in Req : request'[r] = request[r] \/ request'[r] = "cut"
  BY <1>1, <1>3 DEF Die, IInv, BootTypeOK, TypeOK
<1>5. /\ boot' = "up" => boot = "watch" /\ UNCHANGED field
      /\ boot' = "watch" => boot = "listen"
      /\ boot' \notin {"watch", "up"} => boot # "watch"
      /\ boot = "watch" => boot' = "up" /\ UNCHANGED <<process, field, running, listener>>
  BY AfterFacts, <1>1 DEF BootStep, Configure, MkdirAll, OpenDb, StartReplicator, NewAuditor, RegisterRoutes, StartZAPSecretServer,
     StartListener, Watch, Skip, Refuse, Exit, Crit, Die, Obtain, At, Onward, vars
<1>6. /\ boot \in {"configure", "mkdir"} => boot' \in {"mkdir", "open", "failed"}
      /\ boot = "open" => boot' = "failed" \/ running'["db"]
      /\ boot \notin {"configure", "mkdir", "open"} => running'["db"] = running["db"] \/ process' = "exited"
  <2>1. CASE Configure \/ MkdirAll \/ OpenDb
    BY <1>1, <2>1, AfterFacts DEF Configure, MkdirAll, OpenDb, Skip, Refuse, Obtain, Make, At, Onward
  <2>2. CASE StartReplicator \/ NewAuditor
    BY <1>1, <2>2 DEF StartReplicator, NewAuditor, Skip, Obtain, Make, At
  <2>3. CASE RegisterRoutes \/ StartZAPSecretServer
    BY <1>1, <2>3 DEF RegisterRoutes, StartZAPSecretServer, Skip, Exit, Crit, Die, Obtain, Make, At
  <2>4. CASE StartListener \/ Watch
    BY <1>1, <2>4 DEF StartListener, Watch, At, vars
  <2> QED
    BY <2>1, <2>2, <2>3, <2>4 DEF BootStep
<1>7. /\ listener' # "none" => listener # "none" \/ mode = "embed"
      /\ boot = "listen" /\ mode = "embed" => field'["httpServer"]
  BY <1>1 DEF BootStep, Configure, MkdirAll, OpenDb, StartReplicator, NewAuditor, RegisterRoutes, StartZAPSecretServer,
     StartListener, Watch, At
<1>11. running'["httpServer"] => running["httpServer"] /\ listener' = listener
  <2>1. CASE Configure \/ MkdirAll \/ OpenDb \/ StartReplicator \/ NewAuditor
    BY <1>1, <2>1 DEF Configure, MkdirAll, OpenDb, StartReplicator, NewAuditor, Skip, Refuse, Obtain, Make
  <2>2. CASE RegisterRoutes \/ StartZAPSecretServer
    BY <1>1, <2>2 DEF RegisterRoutes, StartZAPSecretServer, Skip, Exit, Crit, Die, Obtain, Make
  <2>3. CASE StartListener
    <3>1. ~running["httpServer"] /\ UNCHANGED running
      BY <2>3 DEF StartListener, At, RaceInv, OwnListener, IInv, BootInv, Bare
    <3> QED
      BY <3>1
  <2>4. CASE Watch
    BY <2>4 DEF Watch, vars
  <2> QED
    BY <2>1, <2>2, <2>3, <2>4 DEF BootStep
<1>8. SoleStopper'
  BY <1>1, <1>2, <1>4 DEF SoleStopper, Entered
<1>9. OwnListener'
  <2>1. mode = "embed" /\ boot' \in {"watch", "up"} => field'["httpServer"]
    BY <1>1, <1>5, <1>7 DEF RaceInv, OwnListener, Entered
  <2> QED
    BY <1>1, <1>2, <1>4, <1>5, <1>7, <1>11, <2>1 DEF RaceInv, OwnListener, Entered
<1>12. DbRuns'
  BY <1>1, <1>6 DEF RaceInv, DbRuns
<1>13. Hosted'
  <2> SUFFICES ASSUME mode = "host" PROVE Hosted'
    BY <1>2 DEF Hosted
  <2>1. Serving = {} /\ ~hostListens /\ ~handle /\ ~ctxDone /\ \A r \in Req : request[r] # "404" \/ calls > 0
    BY <1>1 DEF RaceInv, Hosted
  <2> QED
    BY <1>1, <1>2, <1>4, <2>1 DEF Hosted, Serving, Entered, Stoppers
<1>10. Drained'
  <2> SUFFICES ASSUME mode = "embed" PROVE Drained'
    BY <1>2 DEF Drained
  <2>2. \A r \in Req : request'[r] = "serving" => boot' = "up"
    BY <1>1, <1>4, <1>5 DEF RaceInv, Drained, Serving
  <2>3. boot' = "up" => field'["httpServer"]
    BY <1>5, <1>1 DEF RaceInv, OwnListener, Entered
  <2>4. \A r \in Req : request'[r] = "404" => r \in outlasted'
    BY <1>2, <1>4 DEF RaceInv, Drained
  <2> QED
    BY <1>1, <1>2, <2>2, <2>3, <2>4 DEF Drained, Serving
<1> QED
  BY <1>8, <1>9, <1>10, <1>12, <1>13 DEF RaceInv

(* A step outside Stop: a panic there is the late listener's, and requests *)
(* come and go by the rules.                                               *)
LEMMA StillRace ==
  ASSUME IInv, RaceInv, UNCHANGED <<field, at, step, stops, outlasted, overlapped, calls, boot, mode>>,
         mode = "host" => ctxDone' = ctxDone /\ (hostListens' \/ handle' => boot = "up"),
         process' = "panicked" => listener' = "spawned" /\ \E s \in Stoppers : Entered(s),
         process' = "up" => process = "up" /\ running'["db"] = running["db"],
         listener' # "none" => listener # "none",
         running'["httpServer"] => listener' = "listening",
         mode = "embed" => ~hostListens' /\ ~handle',
         \A r \in Req : request'[r] = "serving" => \/ request[r] = "serving"
                                                   \/ mode = "host" /\ boot = "up"
                                                   \/ running["httpServer"],
         \A r \in Req : request'[r] = "404" => \/ request[r] = "404"
                                               \/ request[r] = "serving" /\ process = "up" /\ ~running["db"]
  PROVE  RaceInv'
<1>1. "httpServer" \in Fields /\ "db" \in Fields /\ (mode = "host" => mode # "embed")
      /\ Order[1] = "httpServer" /\ Order[5] = "db" /\ 1 \in DOMAIN Order /\ 5 \in DOMAIN Order
      /\ \A s \in Stoppers : at[s] = 1 => Here(s) = "httpServer"
  BY FieldsFacts, OrderFacts DEF Here
<1>2. running["httpServer"] =>
        /\ boot \in {"watch", "up"} /\ field["httpServer"] /\ stops["httpServer"] = 0
        /\ ~ \E s \in Stoppers : at[s] = 1 /\ step[s] = "clear"
  BY <1>1 DEF IInv, BootTypeOK, StopInv, AtAField, BootInv, Bare, RaceInv, OwnListener
<1>3. SoleStopper'
  BY DEF RaceInv, SoleStopper, Raced, Entered, Here
<1>4. OwnListener'
  BY DEF RaceInv, OwnListener, Entered
<1>5. Drained'
  <2> SUFFICES ASSUME mode = "embed" PROVE Drained'
    BY DEF Drained
  <2>1. ASSUME NEW r \in Req, request'[r] = "serving", boot = "up",
               ~field["httpServer"] \/ \E s \in Stoppers : at[s] = 1 /\ step[s] = "clear"
        PROVE  r \in outlasted
    BY <1>1, <1>2, <2>1 DEF RaceInv, Drained, Serving
  <2>2. ASSUME NEW r \in Req, request'[r] = "serving"
        PROVE  boot \in {"watch", "up"}
    BY <1>1, <1>2, <2>2 DEF RaceInv, Drained, Serving
  <2>3. ASSUME NEW r \in Req, request'[r] = "404"
        PROVE  r \in outlasted
    <3>1. CASE request[r] = "404"
      BY <3>1 DEF RaceInv, Drained
    <3>2. CASE request[r] = "serving" /\ process = "up" /\ ~running["db"]
      <4>1. boot \in {"watch", "up"} /\ (boot = "up" /\ ~field["httpServer"] => r \in outlasted)
        BY <3>2 DEF RaceInv, Drained, Serving
      <4>2. stops["db"] > 0
        BY <1>1, <3>2, <4>1 DEF RaceInv, DbRuns, IInv, BootTypeOK, TypeOK
      <4>3. ~field["httpServer"]
        BY <1>1, <4>2 DEF IInv, StopInv, StoppedInOrder
      <4>4. boot = "up"
        BY <1>1, <4>2 DEF IInv, BootInv, Undisturbed
      <4> QED
        BY <4>1, <4>3, <4>4
    <3> QED
      BY <1>1, <2>3, <3>1, <3>2
  <2> QED
    BY <2>1, <2>2, <2>3 DEF RaceInv, Drained, Serving
<1>6. DbRuns'
  BY DEF RaceInv, DbRuns
<1>7. Hosted'
  <2> SUFFICES ASSUME mode = "host" PROVE Hosted'
    BY DEF Hosted
  <2>1. ASSUME NEW r \in Req, request'[r] = "404", calls = 0 PROVE FALSE
    <3>1. request[r] = "serving" /\ process = "up" /\ ~running["db"] /\ boot = "up"
      BY <2>1 DEF RaceInv, Hosted, Serving
    <3>2. stops["db"] = 0
      BY <1>1, <2>1 DEF RaceInv, Hosted, SoleStopper, Stoppers
    <3> QED
      BY <3>1, <3>2 DEF RaceInv, DbRuns
  <2>2. ASSUME NEW r \in Req, request'[r] = "serving" PROVE boot = "up"
    <3>1. request[r] = "serving" => boot = "up"
      BY DEF RaceInv, Hosted, Serving
    <3>2. ~running["httpServer"]
      BY <1>1 DEF RaceInv, OwnListener
    <3> QED
      BY <2>2, <3>1, <3>2
  <2>3. calls > 0 \/ calls = 0
    BY FlagsAssumption DEF IInv, BootTypeOK, TypeOK
  <2> QED
    BY <2>1, <2>2, <2>3 DEF RaceInv, Hosted, Serving, Entered
<1> QED
  BY <1>3, <1>4, <1>5, <1>6, <1>7 DEF RaceInv

(* The listener, the host, the context and the clients.                    *)
LEMMA OutsideRace ==
  ASSUME IInv, RaceInv, \/ Listen \/ Mount \/ MountFails \/ HostListens \/ Unmount
                        \/ HostCloses \/ ContextEnds \/ Serve
  PROVE  RaceInv'
<1> USE DEF Alive, At
<1>1. /\ "httpServer" \in Fields /\ "db" \in Fields /\ "httpServer" # "db" /\ "embed" # "host"
      /\ running \in [Fields -> BOOLEAN] /\ request \in [Req -> {"idle", "serving", "cut", "200", "404"}]
      /\ mode = "embed" => ~hostListens /\ ~handle
      /\ mode \in {"embed", "host"} /\ (running["httpServer"] => listener = "listening")
      /\ mode = "host" /\ (hostListens \/ handle) => boot = "up"
  BY FieldsFacts, FlagsAssumption DEF IInv, BootTypeOK, TypeOK, RaceInv, OwnListener, Hosted
<1>2. ASSUME NEW how \in {"panicked", "exited"}, Die(how),
             UNCHANGED <<field, at, step, history, calls, ctxDone, boot, mode, listener>>,
             how = "panicked" => listener = "spawned" /\ \E s \in Stoppers : Entered(s),
             handle' = handle
      PROVE  RaceInv'
  <2>1. \A r \in Req : request'[r] = request[r] \/ request'[r] = "cut"
    BY <1>2 DEF Die
  <2>2. process' = how /\ ~hostListens' /\ ~running'["httpServer"]
    BY <1>1, <1>2 DEF Die
  <2> QED
    BY <1>1, <1>2, <2>1, <2>2, StillRace DEF history
<1>3. CASE Listen
  <2>1. UNCHANGED <<field, stopping, history, boot, mode, handle, trusted>> /\ listener = "spawned"
    BY <1>3 DEF Listen
  <2>2. CASE ~field["httpServer"] /\ Die("panicked") /\ UNCHANGED listener
    <3>1. \E s \in Stoppers : Entered(s)
      BY <2>1, <2>2 DEF RaceInv, OwnListener, IInv, BootInv, Bare
    <3> QED
      BY <1>2, <2>1, <2>2, <3>1 DEF stopping
  <2>3. CASE Crit /\ UNCHANGED listener
    BY <1>2, <2>1, <2>3 DEF stopping, Crit
  <2>4. CASE UNCHANGED <<process, requests>> /\ running'["db"] = running["db"]
    <3>1. running'["httpServer"] => listener' = "listening"
      BY <1>1, <1>3, <2>1, <2>4 DEF Listen, Crit, Die
    <3>2. /\ UNCHANGED <<process, field, at, step, stops, outlasted, overlapped, calls, ctxDone>>
          /\ UNCHANGED <<boot, mode, handle, hostListens, request>> /\ process = "up"
      BY <1>3, <2>1, <2>4 DEF stopping, history, requests, Listen
    <3> QED
      BY <1>1, <2>1, <2>4, <3>1, <3>2, StillRace
  <2> QED
    BY <1>1, <1>3, <2>2, <2>3, <2>4 DEF Listen
<1>4. CASE MountFails \/ (HostListens /\ Crit)
  BY <1>2, <1>4 DEF MountFails, HostListens, Crit, stopping, bootVars
<1>5. CASE HostListens /\ ~Crit
  BY <1>1, <1>5, StillRace DEF HostListens, stopping, history, bootVars
<1>6. CASE Mount \/ Unmount
  BY <1>1, <1>6, StillRace DEF Mount, Unmount, vars, history, requests
<1>7. CASE HostCloses \/ ContextEnds
  BY <1>1, <1>7, StillRace DEF HostCloses, CloseListener, ContextEnds, CancelContext, history, requests, bootVars
<1>8. ASSUME NEW r \in Req, Arrive(r), UNCHANGED bootVars PROVE RaceInv'
  <2>1. (mode = "host" /\ boot = "up") \/ running["httpServer"]
    BY <1>1, <1>8 DEF Arrive, Listening
  <2>2. \A q \in Req : request'[q] = "serving" => \/ request[q] = "serving"
                                                  \/ mode = "host" /\ boot = "up"
                                                  \/ running["httpServer"]
    BY <1>1, <1>8, <2>1 DEF Arrive
  <2>3. \A q \in Req : request'[q] = "404" => request[q] = "404"
    BY <1>1, <1>8 DEF Arrive
  <2> QED
    BY <1>1, <1>8, <2>2, <2>3, StillRace DEF Arrive, history, bootVars
<1>9. ASSUME NEW r \in Req, Answer(r), UNCHANGED bootVars PROVE RaceInv'
  <2>1. \A q \in Req : request'[q] = "serving" => request[q] = "serving"
    BY <1>1, <1>9 DEF Answer
  <2>2. \A q \in Req : request'[q] = "404" => \/ request[q] = "404"
                                              \/ request[q] = "serving" /\ process = "up" /\ ~running["db"]
    BY <1>1, <1>9 DEF Answer
  <2> QED
    BY <1>1, <1>9, <2>1, <2>2, StillRace DEF Answer, history, bootVars
<1> QED
  BY <1>3, <1>4, <1>5, <1>6, <1>7, <1>8, <1>9 DEF Serve

(* The way into Stop: whoever comes first finds nothing stopped, and who   *)
(* comes back finds every field nil.                                       *)
LEMMA EnterRace ==
  ASSUME IInv, RaceInv, CallStop \/ WatcherWakes
  PROVE  RaceInv'
<1> PICK s \in Stoppers : Enter(s) /\ step[s] = "out" /\ (CallStop => s = Host)
  BY DEF CallStop, WatcherWakes, HostStops, WatcherStops, Stoppers, RaceInv, SoleStopper, Entered, IInv,
     BootTypeOK, TypeOK, StopInv, AtAField
<1>9. CallStop => s = Host
  OBVIOUS
<1>5. Enter(s) /\ step[s] = "out"
  OBVIOUS
<1>1. /\ at' = [at EXCEPT ![s] = 1] /\ step' = [step EXCEPT ![s] = "look"]
      /\ at \in [Stoppers -> 0 .. 5] /\ step \in [Stoppers -> {"out", "look", "use", "drain", "clear"}]
  BY OrderFacts DEF Enter, Move, IInv, BootTypeOK, TypeOK
<1>2. /\ UNCHANGED <<process, field, running, requests, stops, outlasted, bootVars>>
      /\ process = "up" /\ boot = "up"
  BY DEF CallStop, WatcherWakes, HostStops, WatcherStops, Alive
<1>3. /\ at'[s] = 1 /\ step'[s] = "look"
      /\ \A q \in Stoppers \ {s} : at'[q] = at[q] /\ step'[q] = step[q]
  BY <1>1
<1>4. SoleStopper'
  <2> SUFFICES ASSUME ~overlapped'
               PROVE  /\ \A q, t \in Stoppers : step'[q] # "out" /\ step'[t] # "out" => q = t
                      /\ \A f \in Fields : stops[f] <= 1
                      /\ \A q \in Stoppers : step'[q] # "use"
                      /\ \A f \in Fields : field[f] => stops[f] = 0
    BY <1>2, <1>3, <1>5 DEF SoleStopper, Entered, RaceInv
  <2>1. ~overlapped /\ \A q \in Stoppers : step[q] = "out"
    BY <1>5 DEF Enter
  <2>2. ASSUME NEW f \in Fields PROVE stops[f] <= 1 /\ (field[f] => stops[f] = 0)
    BY <1>5, <2>1, <2>2 DEF RaceInv, SoleStopper, IInv, BootTypeOK, TypeOK
  <2> QED
    BY <1>3, <2>1, <2>2
<1>6. OwnListener'
  BY <1>2, <1>3 DEF RaceInv, OwnListener, Entered, requests, bootVars
<1>7. DbRuns' /\ Drained'
  BY <1>2, <1>3 DEF RaceInv, DbRuns, Drained, Serving, requests, bootVars
<1>8. Hosted'
  <2> SUFFICES ASSUME mode = "host" PROVE Hosted'
    BY <1>2 DEF Hosted, bootVars
  <2>1. CallStop /\ s = Host
    BY <1>9, StoppersAssumption DEF WatcherWakes, WatcherStops, RaceInv, Hosted, Stoppers
  <2>2. calls' > 0 /\ ctxDone' = ctxDone /\ at'[Watcher] = at[Watcher]
    BY <1>3, <2>1, StoppersAssumption, FlagsAssumption DEF CallStop, HostStops, Stoppers, IInv, BootTypeOK, TypeOK
  <2> QED
    BY <1>2, <2>1, <2>2 DEF RaceInv, Hosted, Serving, Entered, requests, bootVars
<1> QED
  BY <1>4, <1>6, <1>7, <1>8 DEF RaceInv

(* A stopper alone in Stop, from one field to the next.                    *)
LEMMA AdvanceRace ==
  ASSUME IInv, RaceInv, NEW s \in Stoppers, at[s] > 0, step[s] # "out", Advance(s), ~field'[Here(s)],
         field' \in [Fields -> BOOLEAN], \A f \in Fields : field'[f] => field[f],
         \A f \in Fields \ {Here(s)} : field'[f] = field[f],
         UNCHANGED <<process, stops, overlapped, listener>>, IInv', process = "up"
  PROVE  SoleStopper'
<1>1. /\ at' \in [Stoppers -> 0 .. 5] /\ \A q \in Stoppers : step'[q] = "out" \/ at'[q] > 0
      /\ \A q \in Stoppers \ {s} : at'[q] = at[q] /\ step'[q] = step[q] /\ Here(q)' = Here(q)
      /\ step'[s] \in {"look", "out"} /\ at'[s] \in {at[s], at[s] + 1} /\ at'[s] > 0
      /\ at[s] \in DOMAIN Order
  BY AdvanceTypes, OrderFacts DEF IInv, BootTypeOK, TypeOK, StopInv, AtAField, Here
<1>2. step'[s] = "out" => \A f \in Fields : ~field'[f]
  <2> SUFFICES ASSUME step'[s] = "out" PROVE \A f \in Fields : ~field'[f]
    OBVIOUS
  <2>1. at[s] = 5 /\ at'[s] = 5
    BY OrderFacts, <1>1 DEF Advance, Move, IInv, BootTypeOK, TypeOK
  <2>2. \A j \in DOMAIN Order : ~field'[Order[j]]
    BY <2>1, OrderFacts DEF IInv, StopInv, PassedIsNil, Here
  <2> QED
    BY <2>2 DEF Fields
<1>3. ASSUME NEW q \in Stoppers, Entered(q)', step'[q] = "out" PROVE \A f \in Fields : ~field'[f]
  <2>1. CASE q = s
    BY <1>2, <1>3, <2>1
  <2>2. CASE q # s
    BY <1>1, <1>3, <2>2 DEF RaceInv, SoleStopper, Entered
  <2> QED
    BY <2>1, <2>2
<1>4. \A q \in Stoppers : Entered(q)' <=> Entered(q)
  BY <1>1 DEF Entered
<1>5. ASSUME ~overlapped
      PROVE  /\ \A q, t \in Stoppers : step'[q] # "out" /\ step'[t] # "out" => q = t
             /\ \A f \in Fields : stops[f] <= 1
             /\ \A q \in Stoppers : step'[q] # "use"
             /\ \A f \in Fields : field'[f] /\ stops[f] > 0 =>
                  \E q \in Stoppers : Entered(q)' /\ Here(q)' = f /\ step'[q] \in {"drain", "clear"}
  <2>1. \A q \in Stoppers \ {s} : step[q] = "out" /\ step'[q] = "out"
    BY <1>1, <1>5 DEF RaceInv, SoleStopper
  <2>2. \A q \in Stoppers : step'[q] # "use"
    BY <1>1, <2>1
  <2>3. ASSUME NEW f \in Fields, field'[f], stops[f] > 0
        PROVE  \E q \in Stoppers : Entered(q)' /\ Here(q)' = f /\ step'[q] \in {"drain", "clear"}
    <3>1. PICK q \in Stoppers : Entered(q) /\ Here(q) = f /\ step[q] \in {"drain", "clear"}
      BY <1>5, <2>3 DEF RaceInv, SoleStopper
    <3>2. q # s
      BY <2>3, <3>1
    <3> QED
      BY <2>1, <3>1, <3>2
  <2> QED
    BY <1>5, <2>1, <2>2, <2>3 DEF RaceInv, SoleStopper
<1>6. (\A q \in Stoppers : ~Entered(q)') => FALSE
  BY <1>1 DEF Entered
<1> QED
  BY <1>3, <1>4, <1>5, <1>6 DEF SoleStopper

(* A step of Stop: the field a stopper alone has seen is still there, and  *)
(* what it clears is drained.                                              *)
LEMMA StopRace ==
  ASSUME IInv, RaceInv, IInv', NEW s \in Stoppers, Stopping(s)
  PROVE  RaceInv'
<1> USE DEF Alive
<1>1. /\ at \in [Stoppers -> 0 .. 5] /\ step \in [Stoppers -> {"out", "look", "use", "drain", "clear"}]
      /\ running \in [Fields -> BOOLEAN] /\ field \in [Fields -> BOOLEAN] /\ stops \in [Fields -> Nat]
      /\ \A q \in Stoppers : at[q] > 0 => at[q] \in DOMAIN Order /\ Here(q) \in Fields
      /\ "httpServer" \in Fields /\ "db" \in Fields
      /\ process = "up" /\ at[s] > 0
  <2>1. at \in [Stoppers -> 0 .. 5]
    BY OrderFacts DEF IInv, BootTypeOK, TypeOK
  <2>2. \A q \in Stoppers : at[q] > 0 => at[q] \in DOMAIN Order
    BY <2>1, OrderFacts
  <2>3. at[s] > 0 /\ process = "up"
    BY DEF Stopping, StopStep, Look, Use, Drain, Clear, IInv, StopInv, AtAField
  <2> QED
    BY <2>1, <2>2, <2>3, FieldsFacts, OrderInjective DEF IInv, BootTypeOK, TypeOK, Here
<1>2. /\ UNCHANGED bootVars /\ boot = "up"
      /\ (at'[s] > 0 /\ \A q \in Stoppers \ {s} : at'[q] = at[q] /\ step'[q] = step[q])
  <2>1. UNCHANGED bootVars /\ boot = "up"
    BY <1>1 DEF Stopping, IInv, BootInv, Undisturbed
  <2>2. at'[s] > 0 /\ \A q \in Stoppers \ {s} : at'[q] = at[q] /\ step'[q] = step[q]
    BY <1>1, OrderFacts DEF Stopping, StopStep, Look, Use, Drain, Clear, Advance, Move
  <2> QED
    BY <2>1, <2>2
<1>3. SoleStopper'
  <2>1. CASE Look(s)
    <3>1. CASE field[Here(s)] /\ Move(s, "use") /\ UNCHANGED at
      <4>1. UNCHANGED <<process, field, stops, listener>> /\ step'[s] = "use" /\ step[s] = "look"
        BY <1>1, <1>2, <2>1, <3>1 DEF Look, Move, history, bootVars
      <4>5. UNCHANGED overlapped
        BY <2>1 DEF Look, history
      <4>2. \A q \in Stoppers : Here(q)' = Here(q) /\ (Entered(q)' <=> Entered(q))
        BY <3>1 DEF Here, Entered
      <4>3. ~overlapped => stops[Here(s)] = 0
        <5> SUFFICES ASSUME ~overlapped, stops[Here(s)] # 0 PROVE FALSE
          OBVIOUS
        <5>1. PICK q \in Stoppers : Entered(q) /\ step[q] \in {"drain", "clear"}
          BY <1>1, <3>1 DEF RaceInv, SoleStopper
        <5>2. q # s
          BY <4>1, <5>1
        <5> QED
          BY <4>1, <5>1, <5>2 DEF RaceInv, SoleStopper
      <4>4. \A q \in Stoppers : step'[q] = "out" <=> step[q] = "out"
        BY <1>2, <4>1
      <4> QED
        BY <1>1, <1>2, <3>1, <4>1, <4>2, <4>3, <4>4, <4>5 DEF RaceInv, SoleStopper, Entered
    <3>2. CASE ~field[Here(s)] /\ Advance(s)
      BY <1>1, <1>2, <2>1, <3>2, AdvanceRace DEF Look, history, bootVars
    <3> QED
      BY <2>1, <3>1, <3>2 DEF Look
  <2>2. CASE Use(s)
    <3> USE <2>2 DEF Use
    <3>1. UNCHANGED <<field, at, overlapped, listener>> /\ step[s] = "use"
      BY <1>2 DEF bootVars
    <3>2. \A q \in Stoppers : Here(q)' = Here(q) /\ (Entered(q)' <=> Entered(q))
      BY <3>1 DEF Here, Entered
    <3>3. CASE ~overlapped
      <4>1. field[Here(s)] /\ stops[Here(s)] = 0
        BY <3>1, <3>3 DEF RaceInv, SoleStopper
      <4>2. /\ stops' = [stops EXCEPT ![Here(s)] = @ + 1] /\ UNCHANGED process
            /\ step'[s] \in {"drain", "clear"}
        BY <1>1, <4>1 DEF Move
      <4>3. stops'[Here(s)] = 1 /\ \A f \in Fields \ {Here(s)} : stops'[f] = stops[f]
        BY <1>1, <4>1, <4>2
      <4>4. \A q \in Stoppers \ {s} : step[q] = "out"
        BY <3>1, <3>3 DEF RaceInv, SoleStopper
      <4>5. \A f \in Fields : stops'[f] <= 1
        BY <3>3, <4>3 DEF RaceInv, SoleStopper
      <4>6. \A f \in Fields : field'[f] /\ stops'[f] > 0 =>
              \E q \in Stoppers : Entered(q)' /\ Here(q)' = f /\ step'[q] \in {"drain", "clear"}
        <5> SUFFICES ASSUME NEW f \in Fields, field'[f], stops'[f] > 0
                     PROVE  f = Here(s)
          BY <1>1, <1>2, <3>2, <4>2 DEF Entered
        <5> SUFFICES ASSUME f # Here(s) PROVE FALSE
          OBVIOUS
        <5>1. PICK q \in Stoppers : Entered(q) /\ Here(q) = f /\ step[q] \in {"drain", "clear"}
          BY <3>1, <3>3, <4>3 DEF RaceInv, SoleStopper
        <5> QED
          BY <3>1, <4>4, <5>1
      <4>7. \A q \in Stoppers : step'[q] = "out" <=> step[q] = "out"
        BY <1>2, <3>1, <4>2
      <4> QED
        BY <1>1, <1>2, <3>1, <3>2, <4>2, <4>4, <4>5, <4>6, <4>7 DEF RaceInv, SoleStopper, Entered
    <3>4. CASE overlapped
      <4>1. step'[s] \in {"use", "drain", "clear"}
        BY <1>1, <3>1 DEF Move
      <4> QED
        BY <1>1, <1>2, <3>1, <3>2, <3>4, <4>1 DEF RaceInv, SoleStopper, Raced, Entered
    <3> QED
      BY <3>3, <3>4
  <2>3. CASE Drain(s)
    <3>1. /\ UNCHANGED <<process, field, at, stops, overlapped, listener>>
          /\ step[s] = "drain" /\ step'[s] = "clear"
      BY <1>1, <1>2, <2>3 DEF Drain, Move, bootVars
    <3>2. \A q \in Stoppers : Here(q)' = Here(q) /\ (Entered(q)' <=> Entered(q))
      BY <3>1 DEF Here, Entered
    <3>3. \A q \in Stoppers : /\ step[q] \in {"drain", "clear"} => step'[q] \in {"drain", "clear"}
                              /\ step'[q] \in {"out", "use"} => step[q] = step'[q]
                              /\ step'[q] = "out" <=> step[q] = "out"
      BY <1>2, <3>1
    <3> QED
      BY <3>1, <3>2, <3>3 DEF RaceInv, SoleStopper, Raced
  <2>4. CASE Clear(s)
    BY <1>1, <1>2, <2>4, AdvanceRace DEF Clear, history, bootVars
  <2> QED
    BY <2>1, <2>2, <2>3, <2>4 DEF Stopping, StopStep
<1>4. /\ hostListens' => hostListens
      /\ running'["httpServer"] => running["httpServer"]
  BY <1>1 DEF Stopping, StopStep, Look, Use, Drain, Clear, Die, requests
<1>5. OwnListener'
  BY <1>1, <1>2, <1>4 DEF RaceInv, OwnListener, Entered, bootVars
<1>7. DbRuns'
  <2>1. stops["db"] = 0 => running["db"]
    BY <1>1, <1>2 DEF RaceInv, DbRuns
  <2>2. process' = "up" /\ stops'["db"] = 0 => running'["db"]
    BY <1>1, <2>1 DEF Stopping, StopStep, Look, Use, Drain, Clear, Die, requests, history
  <2> QED
    BY <1>2, <2>2 DEF DbRuns, bootVars
<1>8. Hosted'
  <2> SUFFICES ASSUME mode = "host" PROVE Hosted'
    BY <1>2 DEF Hosted, bootVars
  <2>1. /\ \A r \in Req : request'[r] = request[r] \/ request'[r] = "cut"
        /\ UNCHANGED <<calls, ctxDone>>
    BY DEF Stopping, StopStep, Look, Use, Drain, Clear, Die, requests, history
  <2>2. s = Host
    BY <1>1 DEF RaceInv, Hosted, Entered, Stoppers
  <2>3. at'[Watcher] = at[Watcher] /\ calls # 0
    BY <1>1, <1>2, <2>2, StoppersAssumption DEF RaceInv, Hosted, Entered, Stoppers
  <2> QED
    BY <1>2, <2>1, <2>2, <2>3 DEF RaceInv, Hosted, Entered, Serving, bootVars
<1>6. Drained'
  <2> SUFFICES ASSUME mode = "embed" PROVE Drained'
    BY <1>2 DEF Drained, bootVars
  <2>2. /\ \A r \in Req : request'[r] = request[r] \/ request'[r] = "cut"
        /\ outlasted \subseteq outlasted' /\ (Drain(s) => Serving \subseteq outlasted')
    BY DEF Stopping, StopStep, Look, Use, Drain, Clear, Die, requests, history
  <2>3. ASSUME NEW q \in Stoppers, at'[q] = 1, step'[q] = "clear"
        PROVE  Drain(s) \/ (at[q] = 1 /\ step[q] = "clear")
    <3>1. CASE q # s
      BY <1>2, <2>3, <3>1
    <3>2. CASE q = s
      <4>1. ~Look(s) /\ ~Clear(s)
        BY <1>1, <2>3, <3>2, OrderFacts DEF Look, Clear, Advance, Move
      <4>2. ~Use(s)
        <5> SUFFICES ASSUME Use(s) PROVE FALSE
          OBVIOUS
        <5>1. at[s] = 1 /\ Here(s) = "httpServer"
          BY <2>3, <3>2, OrderFacts DEF Use, Here
        <5> QED
          BY <1>1, <2>3, <3>2, <5>1 DEF Use, Move
      <4> QED
        BY <4>1, <4>2 DEF Stopping, StopStep
    <3> QED
      BY <3>1, <3>2
  <2>4. ~field'["httpServer"] => ~field["httpServer"] \/ (at[s] = 1 /\ step[s] = "clear")
    <3>1. CASE Clear(s)
      <4>1. Here(s) = "httpServer" => at[s] = 1
        BY <1>1, OrderFacts DEF Here
      <4> QED
        BY <1>1, <3>1, <4>1 DEF Clear
    <3>2. CASE ~Clear(s)
      BY <3>2 DEF Stopping, StopStep, Look, Use, Drain
    <3> QED
      BY <3>1, <3>2
  <2>5. ASSUME NEW r \in Req, request'[r] = "serving",
               ~field'["httpServer"] \/ \E q \in Stoppers : at'[q] = 1 /\ step'[q] = "clear"
        PROVE  r \in outlasted'
    BY <1>2, <2>2, <2>3, <2>4, <2>5 DEF RaceInv, Drained, Serving
  <2>6. \A r \in Req : request'[r] = "404" => r \in outlasted'
    BY <2>2 DEF RaceInv, Drained
  <2> QED
    BY <1>2, <2>5, <2>6 DEF Drained, Serving, bootVars
<1> QED
  BY <1>3, <1>5, <1>6, <1>7, <1>8 DEF RaceInv

(* Every step keeps what races can rely on.                                *)
THEOREM NextRace == IInv /\ IInv' /\ RaceInv /\ [BootNext]_bVars => RaceInv'
<1> SUFFICES ASSUME IInv, IInv', RaceInv, [BootNext]_bVars PROVE RaceInv'
  OBVIOUS
<1>1. CASE UNCHANGED bVars
  BY <1>1 DEF bVars, vars, bootVars, requests, history, RaceInv, SoleStopper, OwnListener, DbRuns, Drained, Hosted,
     Raced, Entered, Here, Serving
<1>2. ASSUME NEW s \in Stoppers, Stopping(s) PROVE RaceInv'
  BY <1>2, StopRace
<1> QED
  BY <1>1, <1>2, BootRace, OutsideRace, EnterRace DEF BootNext

(* It holds from the first step of Embed on.                               *)
THEOREM RaceInvariant == Spec => []RaceInv
BY InitRace, NextRace, InductiveInvariant, PTL DEF Spec

(* "Gracefully shuts down the KMS server. Idempotent." (embed.go:272), for *)
(* any number of calls, whoever makes them, of which none overlaps another *)
(* and none finds a listener that has not read its field.                  *)
THEOREM StoppedOnce == Spec => []StopIsIdempotent
<1>1. ASSUME IInv, RaceInv, ~Raced PROVE StopIsIdempotent
  <2>1. process # "panicked" /\ \A f \in Fields : stops[f] <= 1
    BY <1>1 DEF RaceInv, SoleStopper, Raced
  <2>2. ASSUME NEW s \in Stoppers, Entered(s), step[s] = "out" PROVE \A f \in Fields : ~running[f]
    BY <1>1, <2>2 DEF RaceInv, SoleStopper, IInv, BootTypeOK
  <2> QED
    BY <2>1, <2>2 DEF StopIsIdempotent
<1>2. IInv /\ RaceInv => StopIsIdempotent
  BY <1>1 DEF StopIsIdempotent
<1> QED
  BY <1>2, InductiveInvariant, RaceInvariant, PTL

(* A secret that exists is answered 404 only if the drain gave its request *)
(* up, or the listener is the host's and the host has begun to shut down.  *)
THEOREM NotFoundHasCause == Spec => []FalseNotFoundHasCause
<1>1. IInv /\ RaceInv => FalseNotFoundHasCause
  BY FlagsAssumption DEF IInv, BootTypeOK, RaceInv, Drained, Hosted, FalseNotFoundHasCause
<1> QED
  BY <1>1, InductiveInvariant, RaceInvariant, PTL
=============================================================================
