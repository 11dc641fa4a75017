----------------------------- MODULE JWKSCache -----------------------------
(***************************************************************************)
(* The process-wide cache of IAM signing keys (jwks.go).  Every request    *)
(* goroutine that verifies a token calls resolve(kid): a fast path under   *)
(* the read lock, then the refresh mutex, a second look, and a fetch of    *)
(* the key set over HTTP.  IAM publishes and withdraws keys on its own.    *)
(*                                                                         *)
(* Every section under c.mu is one step.  A goroutine may be preempted     *)
(* between any two steps, and time may pass there, with one exception: the *)
(* fetch, from the request to the installation of what it brought, takes   *)
(* at most GetTimeout, the timeout of the HTTP client.                     *)
(***************************************************************************)
EXTENDS Integers

CONSTANTS
  Thread,       \* the goroutines that verify tokens
  Kid,          \* key ids of the keys IAM ever publishes
  Usable,       \* those of keys the cache accepts: RSA, for signatures
  Nil,          \* no goroutine, no kid
  TTL,          \* jwksCacheTTL
  GetTimeout,   \* the timeout of the HTTP client
  MaxTime       \* bound: the clock stops here

ASSUME NilAssumption    == Nil \notin Thread /\ Nil \notin Kid
ASSUME UsableAssumption == Usable \subseteq Kid
ASSUME TimeAssumption   == TTL \in Nat /\ GetTimeout \in Nat /\ MaxTime \in Nat

VARIABLES
  now,          \* the clock
  published,    \* the keys of IAM's key set at this moment
  withdrawn,    \* withdrawn[k]: when IAM withdrew k, Never before
  keys,         \* the cached keys
  expiry,       \* until when they are trusted
  holder,       \* who holds refreshMu
  pc,           \* pc[t]: the next step of goroutine t
  kid,          \* kid[t]: the kid it resolves
  body,         \* body[t]: the key set in the answer it got from IAM
  issued,       \* issued[t]: when it sent its request to IAM
  result,       \* result[t]: the key it resolved, or why it did not
  \* history, read by the properties only
  missed        \* who asked for a key that IAM did not offer at some moment since

iam    == <<published, withdrawn>>
cache  == <<keys, expiry>>
get    == <<body, issued>>
vars   == <<now, iam, cache, holder, pc, kid, get, result, missed>>

Never   == -1
NoKey   == {"none", "error", "unknown"}
Labels  == {"idle", "fast", "lock", "recheck", "fetch", "install", "reread"}

(* resolve returns a key or an error, never something that is both.        *)
ASSUME KidAssumption == Kid \cap NoKey = {}

Init ==
  /\ now = 0
  /\ published \in SUBSET Kid
  /\ withdrawn = [k \in Kid |-> Never]
  /\ keys = {} /\ expiry = 0
  /\ holder = Nil
  /\ pc = [t \in Thread |-> "idle"] /\ kid = [t \in Thread |-> Nil]
  /\ body = [t \in Thread |-> {}] /\ issued = [t \in Thread |-> 0]
  /\ result = [t \in Thread |-> "none"]
  /\ missed = {}

-----------------------------------------------------------------------------
Goto(t, l) == pc' = [pc EXCEPT ![t] = l]

(* resolve returns: its locals go out of scope, and the deferred unlock    *)
(* releases the mutex if t holds it.                                       *)
Return(t, res) ==
  /\ Goto(t, "idle")
  /\ result' = [result EXCEPT ![t] = res]
  /\ holder' = IF holder = t THEN Nil ELSE holder
  /\ kid' = [kid EXCEPT ![t] = Nil]
  /\ missed' = missed \ {t}

(* Or it goes on. *)
Proceed(t, l) == Goto(t, l) /\ UNCHANGED <<kid, result, holder, missed>>

(* What the fetch brought goes out of scope when refresh returns. *)
EndFetch(t) == body' = [body EXCEPT ![t] = {}] /\ issued' = [issued EXCEPT ![t] = 0]

HitForever(t) == kid[t] \in keys (* mutant: the TTL is not looked at *)

Hit(t) == now < expiry /\ kid[t] \in keys

Offered == published \cap Usable

(* A token arrives.  One without a kid is refused at once. *)
Resolve(t, k) ==
  /\ pc[t] = "idle"
  /\ \/ k = Nil /\ Return(t, "error")
     \/ /\ k # Nil /\ Goto(t, "fast")
        /\ kid' = [kid EXCEPT ![t] = k]
        /\ result' = [result EXCEPT ![t] = "none"]
        /\ missed' = IF k \in Offered THEN missed ELSE missed \cup {t}
        /\ UNCHANGED holder
  /\ UNCHANGED <<now, iam, cache, get>>

(* Under the read lock: a cached key that has not expired. *)
FastPath(t) ==
  /\ pc[t] = "fast"
  /\ \/ Hit(t) /\ Return(t, kid[t])
     \/ ~Hit(t) /\ Proceed(t, "lock")
  /\ UNCHANGED <<now, iam, cache, get>>

LockNothing(t) == (* mutant: no mutual exclusion *)
  /\ pc[t] = "lock"
  /\ holder' = t
  /\ Goto(t, "recheck")
  /\ UNCHANGED <<now, iam, cache, kid, get, result, missed>>

Lock(t) ==
  /\ pc[t] = "lock" /\ holder = Nil
  /\ holder' = t
  /\ Goto(t, "recheck")
  /\ UNCHANGED <<now, iam, cache, kid, get, result, missed>>

RecheckNothing(t) == (* mutant: fetches without a second look *)
  /\ pc[t] = "recheck"
  /\ Goto(t, "fetch")
  /\ issued' = [issued EXCEPT ![t] = now]
  /\ UNCHANGED <<kid, result, holder, missed, now, iam, cache, body>>

(* Another goroutine may have refreshed in between; otherwise ask IAM. *)
Recheck(t) ==
  /\ pc[t] = "recheck"
  /\ \/ Hit(t) /\ Return(t, kid[t]) /\ UNCHANGED issued
     \/ /\ ~Hit(t) /\ Goto(t, "fetch")
        /\ issued' = [issued EXCEPT ![t] = now]
        /\ UNCHANGED <<kid, result, holder, missed>>
  /\ UNCHANGED <<now, iam, cache, body>>

(* IAM answers with the keys it publishes at that moment. *)
IamAnswers(t) ==
  /\ pc[t] = "fetch"
  /\ body' = [body EXCEPT ![t] = published]
  /\ Proceed(t, "install")
  /\ UNCHANGED <<now, iam, cache, issued>>

(* No answer in time, a status other than 200, or no JSON. *)
FetchFails(t) ==
  /\ pc[t] = "fetch"
  /\ Return(t, "error") /\ EndFetch(t)
  /\ UNCHANGED <<now, iam, cache>>

(* Keys of another type, or for another use, are skipped. *)
UsableIn(b) == b \cap Usable

(* Under the write lock: the usable keys replace the cache, unless there   *)
(* are none.                                                               *)
Install(t) ==
  /\ pc[t] = "install"
  /\ \/ /\ UsableIn(body[t]) # {}
        /\ keys' = UsableIn(body[t]) /\ expiry' = now + TTL
        /\ Proceed(t, "reread")
     \/ UsableIn(body[t]) = {} /\ Return(t, "error") /\ UNCHANGED cache
  /\ EndFetch(t)
  /\ UNCHANGED <<now, iam>>

RereadStrictly(t) == (* mutant: the last look asks whether the cache has expired *)
  /\ pc[t] = "reread"
  /\ Return(t, IF Hit(t) THEN kid[t] ELSE "unknown")
  /\ UNCHANGED <<now, iam, cache, get>>

(* The last look does not ask whether the cache has expired. *)
Reread(t) ==
  /\ pc[t] = "reread"
  /\ Return(t, IF kid[t] \in keys THEN kid[t] ELSE "unknown")
  /\ UNCHANGED <<now, iam, cache, get>>

-----------------------------------------------------------------------------
(* IAM rotates its keys; a key that was withdrawn does not come back. *)
Publish(k) ==
  /\ k \notin published /\ withdrawn[k] = Never
  /\ published' = published \cup {k}
  /\ UNCHANGED <<now, withdrawn, cache, holder, pc, kid, get, result, missed>>

Withdraw(k) ==
  /\ k \in published
  /\ published' = published \ {k}
  /\ withdrawn' = [withdrawn EXCEPT ![k] = now]
  /\ missed' = missed \cup {t \in Thread : kid[t] = k}
  /\ UNCHANGED <<now, cache, holder, pc, kid, get, result>>

Tick ==
  /\ now < MaxTime
  /\ \A t \in Thread : pc[t] \in {"fetch", "install"} => now < issued[t] + GetTimeout
  /\ now' = now + 1
  /\ UNCHANGED <<iam, cache, holder, pc, kid, get, result, missed>>

Step(t) == \/ FastPath(t) \/ Lock(t) \/ Recheck(t) \/ IamAnswers(t) \/ FetchFails(t)
           \/ Install(t) \/ Reread(t)

Next == \/ \E t \in Thread : Step(t) \/ \E k \in Kid \cup {Nil} : Resolve(t, k)
        \/ \E k \in Kid : Publish(k) \/ Withdraw(k)
        \/ Tick

Spec == Init /\ [][Next]_vars

-----------------------------------------------------------------------------
(* Properties.                                                             *)

(* Types; the cache holds usable keys only. *)
TypeOK ==
  /\ now \in Nat /\ published \subseteq Kid /\ withdrawn \in [Kid -> Nat \cup {Never}]
  /\ keys \subseteq Usable /\ expiry \in Nat
  /\ holder \in Thread \cup {Nil} /\ pc \in [Thread -> Labels]
  /\ kid \in [Thread -> Kid \cup {Nil}] /\ body \in [Thread -> SUBSET Kid]
  /\ issued \in [Thread -> Nat] /\ result \in [Thread -> Kid \cup NoKey]
  /\ missed \subseteq Thread

(* While a goroutine fetches, the cache stays as useless to it as it was   *)
(* when it decided to fetch: nobody else refreshes in between, so no fetch *)
(* is wasted ("serialized refresh", jwks.go).                              *)
NoWastedFetch == \A t \in Thread : pc[t] \in {"fetch", "install"} => ~Hit(t)
=============================================================================
