------------------------------ MODULE Embedded ------------------------------
(***************************************************************************)
(* The server Embed returns (embed.go): the resources behind its fields,   *)
(* its Stop, and the requests that come meanwhile.  The handle owns five   *)
(* resources; Stop looks at one field after the other, stops what it finds *)
(* there and sets the field to nil, without a lock.  Stop is called by the *)
(* host, and by the goroutine Embed leaves behind to wait for its context. *)
(* How the fields come to be is in Boot, which has the specification.      *)
(*                                                                         *)
(* The server either listens itself, or is mounted in a host (SkipListen): *)
(* then the host's listener feeds the handler, and the host closes it      *)
(* after Stop.  Requests are GETs of a secret that exists.                 *)
(***************************************************************************)
EXTENDS Integers, Sequences

CONSTANTS
  Req,          \* the requests
  Host,         \* the goroutine that calls Stop
  Watcher,      \* the goroutine that waits for the context
  Listeners,    \* who may listen: "embed" itself, or the "host" it is mounted in
  CtxEnds,      \* whether the context of Embed is ever cancelled
  DrainTimesOut,\* whether requests may outlast the ten seconds of the drain
  MaxCalls      \* bound: how often the host calls Stop, one after the other

ASSUME StoppersAssumption == Host # Watcher
ASSUME FlagsAssumption    == /\ Listeners \subseteq {"embed", "host"} /\ CtxEnds \in BOOLEAN
                             /\ DrainTimesOut \in BOOLEAN /\ MaxCalls \in Nat

VARIABLES
  process,      \* up, or panicked (a nil field was used), or exited (log.Crit)
  field,        \* field[f]: the field is not nil
  running,      \* running[f]: the resource behind it works
  at,           \* at[s]: the field stopper s is at, as an index in Order
  step,         \* step[s]: what it does next
  calls,        \* how often the host has called Stop
  ctxDone,      \* the context is cancelled
  hostListens,  \* the host's listener is open
  request,      \* request[r]: idle, serving, cut, or the status answered
  \* history
  stops,        \* stops[f]: how often the resource was told to stop
  outlasted,    \* the requests whose drain was given up
  overlapped    \* somebody has entered Stop while somebody else was in it

requests == <<hostListens, request>>
history  == <<stops, outlasted, overlapped>>
vars     == <<process, field, running, at, step, calls, ctxDone, requests, history>>

DbFirst == <<"db", "httpServer", "zapNode", "replicator", "auditCancel">> (* mutant *)

(* Stop's order: first who brings requests, last what they read.           *)
Order    == <<"httpServer", "zapNode", "replicator", "auditCancel", "db">>
Fields   == {Order[i] : i \in DOMAIN Order}
Stoppers == {Host, Watcher}

-----------------------------------------------------------------------------
Alive      == process = "up"
Listening  == running["httpServer"] \/ hostListens
Serving    == {r \in Req : request[r] = "serving"}
Here(s)    == Order[at[s]]
Move(s, l) == step' = [step EXCEPT ![s] = l]
Entered(s) == at[s] > 0

(* The process ends, by a panic in any goroutine or by log.Crit, and       *)
(* everything in it with it.                                               *)
Die(how) ==
  /\ process' = how
  /\ running' = [f \in Fields |-> FALSE] /\ hostListens' = FALSE
  /\ request' = [r \in Req |-> IF r \in Serving THEN "cut" ELSE request[r]]

Enter(s) ==
  /\ at' = [at EXCEPT ![s] = 1] /\ Move(s, "look")
  /\ overlapped' = (overlapped \/ \E t \in Stoppers \ {s} : step[t] # "out")

(* The host calls Stop, perhaps more than once. *)
HostStops ==
  /\ Alive /\ step[Host] = "out" /\ calls < MaxCalls
  /\ calls' = calls + 1
  /\ Enter(Host)
  /\ UNCHANGED <<process, field, running, ctxDone, requests, stops, outlasted>>

CancelContext ==
  /\ Alive /\ CtxEnds /\ ~ctxDone
  /\ ctxDone' = TRUE
  /\ UNCHANGED <<process, field, running, at, step, calls, requests, history>>

WatcherStops ==
  /\ Alive /\ ctxDone /\ ~Entered(Watcher)
  /\ Enter(Watcher)
  /\ UNCHANGED <<process, field, running, calls, ctxDone, requests, stops, outlasted>>

(* To the next field, or out of Stop. *)
Advance(s) ==
  IF at[s] < Len(Order)
  THEN at' = [at EXCEPT ![s] = @ + 1] /\ Move(s, "look")
  ELSE UNCHANGED at /\ Move(s, "out")

(* if e.f != nil *)
LookAtNothing(s) == (* mutant: no look at all *)
  /\ Alive /\ step[s] = "look"
  /\ Move(s, "use")
  /\ UNCHANGED <<process, field, running, at, calls, ctxDone, requests, history>>

LookAndLeave(s) == (* mutant: returns at the first field that is nil *)
  /\ Alive /\ step[s] = "look"
  /\ IF field[Here(s)] THEN Move(s, "use") ELSE Move(s, "out")
  /\ UNCHANGED <<process, field, running, at, calls, ctxDone, requests, history>>

Look(s) ==
  /\ Alive /\ step[s] = "look"
  /\ \/ field[Here(s)] /\ Move(s, "use") /\ UNCHANGED at
     \/ ~field[Here(s)] /\ Advance(s)
  /\ UNCHANGED <<process, field, running, calls, ctxDone, requests, history>>

(* e.f is read again to be used; by now it may be nil.  The HTTP server    *)
(* first stops listening, then waits for its requests.                     *)
Use(s) ==
  /\ Alive /\ step[s] = "use"
  /\ \/ /\ field[Here(s)]
        /\ running' = [running EXCEPT ![Here(s)] = FALSE]
        /\ stops' = [stops EXCEPT ![Here(s)] = @ + 1]
        /\ Move(s, IF Here(s) = "httpServer" THEN "drain" ELSE "clear")
        /\ UNCHANGED <<process, requests>>
     \/ ~field[Here(s)] /\ Die("panicked") /\ UNCHANGED <<stops, step>>
  /\ UNCHANGED <<field, at, calls, ctxDone, outlasted, overlapped>>

DrainNothing(s) == (* mutant: does not wait for the requests *)
  /\ Alive /\ step[s] = "drain"
  /\ Move(s, "clear")
  /\ UNCHANGED <<process, field, running, at, calls, ctxDone, requests, history>>

(* Shutdown returns when no request is left, or after ten seconds.         *)
Drain(s) ==
  /\ Alive /\ step[s] = "drain"
  /\ Serving = {} \/ DrainTimesOut
  /\ outlasted' = outlasted \cup Serving
  /\ Move(s, "clear")
  /\ UNCHANGED <<process, field, running, at, calls, ctxDone, requests, stops, overlapped>>

(* e.f = nil *)
Clear(s) ==
  /\ Alive /\ step[s] = "clear"
  /\ field' = [field EXCEPT ![Here(s)] = FALSE]
  /\ Advance(s)
  /\ UNCHANGED <<process, running, calls, ctxDone, requests, history>>

(* cmd/kmsd: once Stop has returned, the host closes its own listener.     *)
CloseListener ==
  /\ Alive /\ hostListens /\ calls > 0 /\ step[Host] = "out"
  /\ hostListens' = FALSE
  /\ UNCHANGED <<process, field, running, at, step, calls, ctxDone, request, history>>

-----------------------------------------------------------------------------
Arrive(r) ==
  /\ Alive /\ Listening /\ request[r] = "idle"
  /\ request' = [request EXCEPT ![r] = "serving"]
  /\ UNCHANGED <<process, field, running, at, step, calls, ctxDone, hostListens, history>>

(* Reading a closed database is an error, and every error of the store is  *)
(* answered 404.                                                           *)
Answer(r) ==
  /\ Alive /\ request[r] = "serving"
  /\ request' = [request EXCEPT ![r] = IF running["db"] THEN "200" ELSE "404"]
  /\ UNCHANGED <<process, field, running, at, step, calls, ctxDone, hostListens, history>>

StopStep(s) == Look(s) \/ Use(s) \/ Drain(s) \/ Clear(s)

-----------------------------------------------------------------------------
(* Properties.                                                             *)

(* The variables keep their types, and a field is stopped only once its    *)
(* resource has been made.                                                 *)
TypeOK ==
  /\ process \in {"up", "panicked", "exited"}
  /\ field \in [Fields -> BOOLEAN] /\ running \in [Fields -> BOOLEAN]
  /\ at \in [Stoppers -> 0 .. Len(Order)]
  /\ step \in [Stoppers -> {"out", "look", "use", "drain", "clear"}]
  /\ calls \in 0 .. MaxCalls /\ ctxDone \in BOOLEAN /\ hostListens \in BOOLEAN
  /\ request \in [Req -> {"idle", "serving", "cut", "200", "404"}]
  /\ stops \in [Fields -> Nat] /\ outlasted \subseteq Req /\ overlapped \in BOOLEAN

Uses == {<<"httpServer", "auditCancel">>, <<"httpServer", "db">>, <<"zapNode", "db">>,
         <<"replicator", "db">>}

(* However many goroutines are in Stop, and whenever it is called, nothing *)
(* is taken down before its users: the replicator and the servers never    *)
(* run on a database that was told to close, and no HTTP server outlives   *)
(* the audit trail.                                                        *)
UsersGoFirst ==
  \A u \in Uses : running[u[1]] => stops[u[2]] = 0
=============================================================================
