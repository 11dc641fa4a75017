----------------------------- MODULE Kmsclient -----------------------------
(***************************************************************************)
(* The Go client that services use (sdk/go/kmsclient) over HTTP, shared by *)
(* goroutines: "Safe for concurrent use; reuse one Client across           *)
(* goroutines so the HTTP token cache ... is shared".  Every call takes a  *)
(* bearer token from the cache, which one goroutine at a time fills from   *)
(* IAM while the others wait for the mutex, and then sends one request.    *)
(* Requests and answers get lost; a call that gives up does not call its   *)
(* request back, so a write can land after its caller was told it failed.  *)
(* FetchEnv is a Get per variable, in the order of a map, that is, in any, *)
(* with a look at the process environment before each variable is set.     *)
(*                                                                         *)
(* There is no clock here: a token ages and a call gives up at any moment. *)
(* How the token's lifetime is counted is in KmsFetch.                     *)
(***************************************************************************)
EXTENDS Integers, FiniteSets

CONSTANTS
  Thread,       \* the goroutines that share the client
  Secret,       \* the secrets they address
  Value,        \* what they store; the empty value is Empty
  Var,          \* the variables FetchEnv fills
  Paths,        \* Paths[t][v]: the secret t asks for to fill v, or Invalid
  Invalid,      \* a path without a name, or a name without a path
  Empty,        \* the empty string; a variable that is not set
  Explicit,     \* the variables the operator has set
  Operator,     \* what is in them
  None,         \* no secret, no value
  Nil,          \* no goroutine
  MaxCalls      \* bound: how many calls are made

ASSUME PathsAssumption == /\ Paths \in [Thread -> [Var -> Secret \cup {Invalid}]]
                          /\ Invalid \notin Secret
ASSUME ValueAssumption == /\ {Empty, Operator, None} \cap Value = {}
                          /\ Empty # Operator /\ Empty # None
ASSUME ClientAssumption == /\ Nil \notin Thread /\ MaxCalls \in Nat
                           /\ IsFiniteSet(Var) /\ Explicit \subseteq Var

VARIABLES
  stored,       \* stored[s]: the secret in the KMS, None when there is none
  net,          \* the writes on their way to it
  cached,       \* the cached token can still be used
  holder,       \* who holds c.mu
  calls,        \* how many calls were made
  pc,           \* pc[t]: what goroutine t does next
  op,           \* op[t]: the method it is in
  secret,       \* secret[t]: the secret of its request
  value,        \* value[t]: what it puts there, None to delete
  id,           \* id[t]: which call this write is
  answer,       \* answer[t]: the server's answer, on its way to t
  \* FetchEnv
  todo,         \* todo[t]: the variables it has not come to
  var,          \* var[t]: the variable it is at
  count,        \* count[t]: how many it has done
  failed,       \* failed[t]: firstErr is set
  environ,      \* the environment of the process
  \* history
  blank,        \* the variables somebody fetched an empty value for
  sure,         \* sure[s]: what an acknowledged write left there, if that is certain
  alone         \* whose write no other write to the same secret has met

server  == <<stored, net>>
token   == <<cached, holder>>
request == <<op, secret, value, id>>
loop    == <<todo, var, count, failed>>
told    == <<sure, alone>>
vars    == <<server, token, calls, pc, request, answer, loop, environ, blank, told>>

Unknown == "unknown"
Refusal == {"refused", "missing"}
Writes  == {"Put", "Delete"}
Methods == Writes \cup {"read", "byId", "FetchEnv"}

Init ==
  /\ stored \in [Secret -> Value \cup {Empty, None}] /\ net = {}
  /\ cached = FALSE /\ holder = Nil /\ calls = 0
  /\ pc = [t \in Thread |-> "idle"] /\ op = [t \in Thread |-> "none"]
  /\ secret = [t \in Thread |-> Invalid] /\ value = [t \in Thread |-> None]
  /\ id = [t \in Thread |-> 0]
  /\ answer = [t \in Thread |-> None]
  /\ todo = [t \in Thread |-> {}] /\ var = [t \in Thread |-> None]
  /\ count = [t \in Thread |-> 0] /\ failed = [t \in Thread |-> FALSE]
  /\ environ = [v \in Var |-> IF v \in Explicit THEN Operator ELSE Empty] /\ blank = {}
  /\ sure = stored /\ alone = {}

-----------------------------------------------------------------------------
Goto(t, l) == pc' = [pc EXCEPT ![t] = l]

(* The locals of a request go out of scope. *)
Forget(t) ==
  /\ secret' = [secret EXCEPT ![t] = Invalid] /\ value' = [value EXCEPT ![t] = None]
  /\ id' = [id EXCEPT ![t] = 0] /\ answer' = [answer EXCEPT ![t] = None]

Return(t) == Goto(t, "idle") /\ op' = [op EXCEPT ![t] = "none"]

(* The next round of FetchEnv: c more are counted, or firstErr is set. *)
NextRound(t, c, err) ==
  /\ Forget(t) /\ Goto(t, "next") /\ UNCHANGED op
  /\ var' = [var EXCEPT ![t] = None]
  /\ count' = [count EXCEPT ![t] = @ + c] /\ failed' = [failed EXCEPT ![t] = @ \/ err]

(* An error ends a call, and one round of FetchEnv. *)
Fail(t) ==
  IF op[t] = "FetchEnv" THEN NextRound(t, 0, TRUE)
                        ELSE Forget(t) /\ Return(t) /\ UNCHANGED <<var, count, failed>>

Call(t, o, s, x) ==
  /\ pc[t] = "idle" /\ calls < MaxCalls
  /\ calls' = calls + 1 /\ id' = [id EXCEPT ![t] = IF o \in Writes THEN calls' ELSE 0]
  /\ Goto(t, "lock")
  /\ op' = [op EXCEPT ![t] = o] /\ secret' = [secret EXCEPT ![t] = s]
  /\ value' = [value EXCEPT ![t] = x]
  /\ UNCHANGED <<server, token, answer, loop, environ, blank, told>>

(* Get and List: nothing of the client depends on which secret it is. *)
Read(t) == Call(t, "read", Invalid, None)

Put(t, s, x) == Call(t, "Put", s, x)
Delete(t, s) == Call(t, "Delete", s, None)

(* The methods of tenant.go: a token, a request, an answer.  What          *)
(* UpdateSecret, DeleteByID, RotateSecret and PutTenantConfig change in a  *)
(* server that has their routes (this one has not) is not a row a path     *)
(* leads to here; if it were, it would be written elsewhere.               *)
ById(t) == Call(t, "byId", Invalid, None)

-----------------------------------------------------------------------------
(* getToken, under c.mu. *)

BargeIn(t) == (* mutant: without c.mu.Lock *)
  /\ pc[t] = "lock"
  /\ \/ cached /\ Goto(t, "send") /\ UNCHANGED holder
     \/ ~cached /\ Goto(t, "exchange") /\ holder' = t
  /\ UNCHANGED <<server, cached, calls, request, answer, loop, environ, blank, told>>

Lock(t) ==
  /\ pc[t] = "lock" /\ holder = Nil
  /\ \/ cached /\ Goto(t, "send") /\ UNCHANGED holder
     \/ ~cached /\ Goto(t, "exchange") /\ holder' = t
  /\ UNCHANGED <<server, cached, calls, request, answer, loop, environ, blank, told>>

(* The token serves this call; one with less than the skew to live is      *)
(* asked for again by the next.                                            *)
TokenArrives(t) ==
  /\ pc[t] = "exchange"
  /\ cached' \in BOOLEAN /\ holder' = Nil /\ Goto(t, "send")
  /\ UNCHANGED <<server, calls, request, answer, loop, environ, blank, told>>

KeepMutex(t) == (* mutant: an error path without the unlock *)
  /\ pc[t] = "exchange"
  /\ Fail(t) /\ UNCHANGED holder
  /\ UNCHANGED <<server, cached, calls, todo, environ, blank, told>>

(* No answer in time, the caller's context has ended, a status other than  *)
(* 200, no token in the body.                                              *)
ExchangeFails(t) ==
  /\ pc[t] = "exchange"
  /\ Fail(t) /\ holder' = Nil
  /\ UNCHANGED <<server, cached, calls, todo, environ, blank, told>>

TokenAges ==
  /\ cached /\ cached' = FALSE
  /\ UNCHANGED <<server, holder, calls, pc, request, answer, loop, environ, blank, told>>

-----------------------------------------------------------------------------
(* The request. *)

Message(t) == [secret |-> secret[t], value |-> value[t], call |-> id[t]]

Send(t) ==
  /\ pc[t] = "send"
  /\ Goto(t, "wait")
  /\ IF op[t] \in Writes
     THEN /\ net' = net \cup {Message(t)}
          /\ sure' = [sure EXCEPT ![secret[t]] = Unknown]
          /\ alone' = {u \in alone : secret[u] # secret[t]}
                        \cup {u \in {t} : \A m \in net : m.secret # secret[t]}
     ELSE UNCHANGED <<net, told>>
  /\ UNCHANGED <<stored, token, calls, request, answer, loop, environ, blank>>

(* The server's side of a write: refused, nothing to delete, or done.  Its *)
(* caller may have given up.                                               *)
ServerWrites(m) ==
  /\ m \in net /\ net' = net \ {m}
  /\ \E a \in {"refused", "missing", "ok"} :
       /\ a = "missing" => m.value = None /\ stored[m.secret] = None
       /\ a = "ok" => m.value # None \/ stored[m.secret] # None
       /\ stored' = IF a = "ok" THEN [stored EXCEPT ![m.secret] = m.value] ELSE stored
       /\ LET waits == {t \in Thread : pc[t] = "wait" /\ id[t] = m.call}
          IN  /\ answer' = [t \in Thread |-> IF t \in waits THEN a ELSE answer[t]]
              /\ pc' = [t \in Thread |-> IF t \in waits THEN "answer" ELSE pc[t]]
  /\ UNCHANGED <<token, calls, request, loop, environ, blank, told>>

Lose(m) ==
  /\ m \in net /\ net' = net \ {m}
  /\ UNCHANGED <<stored, token, calls, pc, request, answer, loop, environ, blank, told>>

(* Other clients write, too. *)
WrittenElsewhere(s) ==
  /\ stored' \in {[stored EXCEPT ![s] = x] : x \in Value \cup {Empty, None}}
  /\ sure' = [sure EXCEPT ![s] = Unknown]
  /\ alone' = {t \in alone : secret[t] # s}
  /\ UNCHANGED <<net, token, calls, pc, request, answer, loop, environ, blank>>

(* What a read gives, if it is not refused; only FetchEnv has a use for    *)
(* the value.                                                              *)
ReadAs(t) ==
  CASE op[t] \in {"read", "byId"} -> "ok"
    [] stored[secret[t]] = None    -> "missing"
    [] OTHER                       -> stored[secret[t]]

ServerReads(t) ==
  /\ pc[t] = "wait" /\ op[t] \notin Writes
  /\ \E a \in {"refused", ReadAs(t)} : answer' = [answer EXCEPT ![t] = a]
  /\ Goto(t, "answer")
  /\ UNCHANGED <<server, token, calls, request, loop, environ, blank, told>>

AnyStatus(t) == TRUE (* mutant: the status is not looked at *)

Succeeded(t) == answer[t] \notin Refusal

(* The end of a call, or, in FetchEnv, of a Get. *)
Receive(t) ==
  /\ pc[t] = "answer"
  /\ \/ ~Succeeded(t) /\ Fail(t) /\ UNCHANGED sure
     \/ /\ Succeeded(t) /\ op[t] = "FetchEnv" /\ Goto(t, "look")
        /\ UNCHANGED <<request, answer, var, count, failed, sure>>
     \/ /\ Succeeded(t) /\ op[t] # "FetchEnv" /\ Forget(t) /\ Return(t)
        /\ sure' = IF t \in alone THEN [sure EXCEPT ![secret[t]] = value[t]] ELSE sure
        /\ UNCHANGED <<var, count, failed>>
  /\ alone' = alone \ {t}
  /\ UNCHANGED <<server, token, calls, todo, environ, blank>>

(* The timeout of the HTTP client, the end of the context, a connection    *)
(* that breaks: nothing is sent again.                                     *)
GiveUp(t) ==
  /\ pc[t] \in {"send", "wait", "answer"}
  /\ Fail(t) /\ alone' = alone \ {t}
  /\ UNCHANGED <<server, token, calls, todo, environ, blank, sure>>

-----------------------------------------------------------------------------
FetchEnv(t) ==
  /\ pc[t] = "idle" /\ calls < MaxCalls
  /\ calls' = calls + 1
  /\ Goto(t, "next") /\ op' = [op EXCEPT ![t] = "FetchEnv"]
  /\ todo' = [todo EXCEPT ![t] = Var]
  /\ UNCHANGED <<server, token, secret, value, id, answer, var, count, failed,
                 environ, blank, told>>

NextVar(t, v) ==
  /\ pc[t] = "next" /\ v \in todo[t]
  /\ todo' = [todo EXCEPT ![t] = @ \ {v}]
  /\ \/ Paths[t][v] = Invalid /\ NextRound(t, 0, TRUE)
     \/ /\ Paths[t][v] # Invalid /\ Goto(t, "lock")
        /\ secret' = [secret EXCEPT ![t] = Paths[t][v]] /\ var' = [var EXCEPT ![t] = v]
        /\ UNCHANGED <<op, value, id, answer, count, failed>>
  /\ UNCHANGED <<server, token, calls, environ, blank, told>>

NeverLook(v) == FALSE (* mutant: the fetched value wins *)

IsSet(v) == environ[v] # Empty

(* setEnvIfEmpty: the look at the variable ... *)
Look(t) ==
  /\ pc[t] = "look"
  /\ \/ IsSet(var[t]) /\ NextRound(t, 1, FALSE)
     \/ ~IsSet(var[t]) /\ Goto(t, "set") /\ UNCHANGED <<request, answer, var, count, failed>>
  /\ UNCHANGED <<server, token, calls, todo, environ, blank, told>>

(* ... and the write: whoever else fills the same variable may have been   *)
(* here in between.  A name the system does not take is an error.          *)
SetVar(t) ==
  /\ pc[t] = "set"
  /\ \/ /\ environ' = [environ EXCEPT ![var[t]] = answer[t]] /\ NextRound(t, 1, FALSE)
        /\ blank' = IF answer[t] = Empty THEN blank \cup {var[t]} ELSE blank
     \/ Fail(t) /\ UNCHANGED <<environ, blank>>
  /\ UNCHANGED <<server, token, calls, todo, told>>

(* count and firstErr. *)
FetchEnvReturns(t) ==
  /\ pc[t] = "next" /\ todo[t] = {}
  /\ Return(t)
  /\ count' = [count EXCEPT ![t] = 0] /\ failed' = [failed EXCEPT ![t] = FALSE]
  /\ UNCHANGED <<server, token, calls, secret, value, id, answer, todo, var,
                 environ, blank, told>>

-----------------------------------------------------------------------------
Begin(t) == \/ FetchEnv(t) \/ Read(t) \/ ById(t)
            \/ \E s \in Secret : Delete(t, s) \/ \E x \in Value : Put(t, s, x)

Run(t) == \/ TokenArrives(t) \/ ExchangeFails(t) \/ Send(t) \/ Receive(t) \/ GiveUp(t)
          \/ (\E v \in Var : NextVar(t, v)) \/ Look(t) \/ SetVar(t) \/ FetchEnvReturns(t)

Network == \/ \E m \in net : ServerWrites(m) \/ Lose(m)
           \/ \E t \in Thread : ServerReads(t)
           \/ \E s \in Secret : WrittenElsewhere(s)

Next == \/ \E t \in Thread : Begin(t) \/ Lock(t) \/ Run(t)
        \/ Network \/ TokenAges

(* A goroutine that can run does, and the HTTP client's timeout ends every *)
(* request.  Go's mutex hands over to whoever has waited for long.  The    *)
(* network and the server owe nothing.                                     *)
Spec == Init /\ [][Next]_vars /\ \A t \in Thread : WF_vars(Run(t)) /\ SF_vars(Lock(t))

-----------------------------------------------------------------------------
(* Properties.                                                             *)

(* Types; one goroutine at a time asks IAM, and only for want of a token.  *)
TypeOK ==
  /\ stored \in [Secret -> Value \cup {Empty, None}]
  /\ net \subseteq [secret : Secret, value : Value \cup {None}, call : 1 .. MaxCalls]
  /\ cached \in BOOLEAN /\ holder \in Thread \cup {Nil} /\ calls \in 0 .. MaxCalls
  /\ pc \in [Thread -> {"idle", "lock", "exchange", "send", "wait", "answer",
                        "next", "look", "set"}]
  /\ op \in [Thread -> Methods \cup {"none"}]
  /\ secret \in [Thread -> Secret \cup {Invalid}] /\ value \in [Thread -> Value \cup {None}]
  /\ id \in [Thread -> 0 .. MaxCalls]
  /\ answer \in [Thread -> Value \cup Refusal \cup {"ok", Empty, None}]
  /\ todo \in [Thread -> SUBSET Var] /\ var \in [Thread -> Var \cup {None}]
  /\ count \in [Thread -> Nat] /\ failed \in [Thread -> BOOLEAN]
  /\ environ \in [Var -> Value \cup {Empty, Operator}]
  /\ blank \subseteq Var /\ alone \subseteq Thread
  /\ sure \in [Secret -> Value \cup {Empty, None, Unknown}]
  /\ \A t \in Thread : pc[t] = "exchange" <=> holder = t
  /\ holder # Nil => ~cached

(* A write that was acknowledged, and met no other write to its secret on  *)
(* the way, is what the KMS holds until the next write is sent: whatever   *)
(* was lost or refused was not acknowledged.  (A write that was given up   *)
(* counts as on its way until it has arrived or is lost.)                  *)
AckedWriteStays ==
  \A s \in Secret : sure[s] # Unknown => stored[s] = sure[s]

(* What FetchEnv returns, with another FetchEnv at work: no error exactly  *)
(* if it counts every variable, and then each is set, unless its secret    *)
(* was empty; and never at the cost of what the operator has set           *)
(* ("Explicit env vars override KMS values").                              *)
FetchEnvKeepsItsWord ==
  /\ \A t \in Thread :
       op[t] = "FetchEnv" /\ pc[t] = "next" /\ todo[t] = {} =>
         /\ ~failed[t] <=> count[t] = Cardinality(Var)
         /\ ~failed[t] => \A v \in Var : environ[v] # Empty \/ v \in blank
  /\ \A v \in Explicit : environ[v] = Operator

(* Every call returns, although the callers wait for one mutex that is     *)
(* held across a request to IAM, and nothing may ever be answered.         *)
EveryCallReturns == \A t \in Thread : pc[t] # "idle" ~> pc[t] = "idle"
=============================================================================
