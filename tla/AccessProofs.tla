---------------------------- MODULE AccessProofs ----------------------------
(***************************************************************************)
(* Proofs about Access and the key cache below it: their types, that no    *)
(* fetch is wasted, that the withdrawal of a key takes effect, and that    *)
(* nobody is refused without a cause, for any number of goroutines and     *)
(* keys, any tokens, any TTL and any timeout of the fetch.                 *)
(***************************************************************************)
EXTENDS Access, TLAPS

Inside == {"recheck", "fetch", "install", "reread"}

(* The mutex: whoever is between Lock and return holds it, so that the     *)
(* cache stands still for it unless it installs something itself.          *)
Alone(t) == /\ pc[t] \in Inside => holder = t
            /\ pc[t] \in {"fetch", "install"} => ~Hit(t)

(* resolve works for the token of its goroutine.                           *)
Bound(t) ==
  /\ pc[t] = "idle" => kid[t] = Nil /\ t \notin missed
  /\ pc[t] # "idle" => asked[t] # Nil /\ kid[t] = asked[t].kid /\ kid[t] # Nil
  /\ asked[t] = Nil => t \notin excused
  /\ asked[t] # Nil => verdict[t] = "none"
  /\ t \in missed => t \in excused

(* A fetch takes at most GetTimeout, and brings nothing that was withdrawn *)
(* before it began.                                                        *)
Recent(t) ==
  /\ pc[t] \in {"fetch", "install"} => issued[t] <= now /\ now <= issued[t] + GetTimeout
  /\ pc[t] = "install" => \A k \in body[t] : withdrawn[k] # Never => issued[t] <= withdrawn[k]

(* A token whose key was withdrawn long before it came never finds it.     *)
Shut(t) ==
  t \in late =>
    /\ asked[t] # Nil /\ LongWithdrawn(asked[t].by)
    /\ pc[t] = "idle" => result[t] # asked[t].by
    /\ pc[t] = "reread" => asked[t].by \notin keys

(* As long as IAM offers the key, each stage has it.                       *)
Served(t) ==
  /\ pc[t] # "idle" /\ t \notin missed =>
       /\ kid[t] \in Offered
       /\ pc[t] = "install" => kid[t] \in body[t]
       /\ pc[t] = "reread" => kid[t] \in keys
  /\ pc[t] = "idle" /\ asked[t] # Nil /\ t \notin excused => result[t] = asked[t].kid \/ asked[t].kid = Nil

Of(t) == Alone(t) /\ Bound(t) /\ Recent(t) /\ Shut(t) /\ Served(t)

(* Cached keys expire in time: at most a fetch and a TTL after they were   *)
(* withdrawn.                                                              *)
Timely ==
  /\ expiry <= now + TTL
  /\ \A k \in Kid : withdrawn[k] # Never => /\ k \notin published /\ withdrawn[k] <= now
                                            /\ k \in keys => expiry <= withdrawn[k] + GetTimeout + TTL

Types == /\ TypeOK
         /\ asked \in [Thread -> Requests \cup {Nil}] /\ verdict \in [Thread -> Verdicts]
         /\ late \subseteq Thread /\ excused \subseteq Thread

IInv == Types /\ Timely /\ \A t \in Thread : Of(t)

-----------------------------------------------------------------------------
(* Before the first token the cache is empty and nobody is on the way.     *)
LEMMA InitIInv == AccessInit => IInv
<1> SUFFICES ASSUME AccessInit PROVE IInv
  OBVIOUS
<1> USE NilAssumption, UsableAssumption, TimeAssumption DEF AccessInit, Init, Nobody
<1>1. TypeOK
  BY DEF TypeOK, Labels, NoKey, Never
<1>2. Types
  BY <1>1 DEF Types, Verdicts
<1>3. Timely
  BY DEF Timely, Never
<1>4. ASSUME NEW t \in Thread PROVE Of(t)
  BY DEF Of, Alone, Inside, Bound, Recent, Shut, Served
<1> QED
  BY <1>2, <1>3, <1>4 DEF IInv

-----------------------------------------------------------------------------
(* Steps of resolve.                                                       *)

(* What a step of one goroutine leaves to the others.                      *)
Apart(t) ==
  /\ UNCHANGED <<now, iam>>
  /\ UNCHANGED holder \/ holder \in {t, Nil}
  /\ UNCHANGED cache \/ holder = t
  /\ \A q \in Thread \ {t} :
       /\ pc'[q] = pc[q] /\ kid'[q] = kid[q] /\ body'[q] = body[q] /\ issued'[q] = issued[q]
       /\ result'[q] = result[q] /\ asked'[q] = asked[q] /\ verdict'[q] = verdict[q]
       /\ q \in missed' <=> q \in missed
       /\ q \in excused' <=> q \in excused
       /\ q \in late' <=> q \in late

(* The invariant of the others survives: the cache changes only in the     *)
(* hands of who holds the mutex.                                           *)
LEMMA OthersKeep ==
  ASSUME IInv, NEW t \in Thread, Apart(t), NEW q \in Thread \ {t}
  PROVE  Of(q)'
<1> USE NilAssumption DEF Apart, iam, cache
<1>1. Of(q) /\ q # Nil
  BY DEF IInv
<1>2. pc[q] \in Inside => holder' = q /\ UNCHANGED cache
  BY <1>1 DEF Of, Alone
<1>3. Alone(q)'
  BY <1>1, <1>2 DEF Of, Alone, Hit, Inside
<1>4. Bound(q)' /\ Recent(q)'
  BY <1>1 DEF Of, Bound, Recent
<1>5. Shut(q)'
  BY <1>1, <1>2 DEF Of, Shut, LongWithdrawn, Inside
<1>6. Served(q)'
  BY <1>1, <1>2 DEF Of, Served, Offered, Inside
<1> QED
  BY <1>3, <1>4, <1>5, <1>6 DEF Of

(* Every step of resolve is one goroutine's own.                           *)
LEMMA ResolvingIsApart ==
  ASSUME IInv, NEW t \in Thread, Resolving(t)
  PROVE  Apart(t) /\ Types'
<1> USE NilAssumption DEF Resolving, Return, Proceed, Goto, EndFetch, iam, cache, get
<1>1. Types /\ Of(t) /\ \A q \in Thread : q \in missed => q \in excused
  BY DEF IInv, Of, Bound
<1>2. /\ UNCHANGED <<now, iam, asked, verdict, late>>
      /\ excused' \subseteq Thread
      /\ \A q \in Thread \ {t} : (q \in excused' <=> q \in excused) /\ (q \in missed' <=> q \in missed)
  BY <1>1 DEF Step, FastPath, Lock, Recheck, IamAnswers, FetchFails, Install, Reread, Types, TypeOK
<1>3. pc[t] \in Inside => holder = t
  BY <1>1 DEF Of, Alone
<1>4. /\ UNCHANGED holder \/ holder \in {t, Nil}
      /\ UNCHANGED cache \/ holder = t
  BY <1>3 DEF Step, FastPath, Lock, Recheck, IamAnswers, FetchFails, Install, Reread, Inside
<1>5. \A q \in Thread \ {t} :
       /\ pc'[q] = pc[q] /\ kid'[q] = kid[q] /\ body'[q] = body[q] /\ issued'[q] = issued[q]
       /\ result'[q] = result[q]
  BY <1>1 DEF Step, FastPath, Lock, Recheck, IamAnswers, FetchFails, Install, Reread, Types, TypeOK
<1>6. TypeOK'
  BY <1>1, UsableAssumption, TimeAssumption
  DEF Step, FastPath, Lock, Recheck, IamAnswers, FetchFails, Install, UsableIn, Reread, Hit, Types, TypeOK, Labels, NoKey
<1> QED
  BY <1>1, <1>2, <1>4, <1>5, <1>6 DEF Apart, Types

(* Who leaves resolve has what it came for, or a cause.                    *)
LEMMA ReturnKeeps ==
  ASSUME IInv, NEW t \in Thread, pc[t] # "idle", NEW res \in Kid \cup NoKey, Return(t, res),
         UNCHANGED <<now, iam, asked, verdict, late>>, excused' \in {excused \cup missed', excused \cup {t} \cup missed'},
         t \in late => res # asked[t].by,
         t \notin missed => res = kid[t] \/ t \in excused'
  PROVE  Of(t)'
<1> USE NilAssumption DEF Return, Goto, iam
<1>1. /\ pc'[t] = "idle" /\ kid'[t] = Nil /\ result'[t] = res /\ t \notin missed'
      /\ asked[t] # Nil /\ kid[t] = asked[t].kid /\ (t \in missed => t \in excused)
      /\ verdict'[t] = "none" /\ Shut(t)
  BY DEF IInv, Types, TypeOK, Of, Bound
<1>2. Alone(t)' /\ Recent(t)'
  BY <1>1 DEF Alone, Recent, Inside
<1>3. Bound(t)'
  BY <1>1 DEF Bound
<1>4. Shut(t)'
  BY <1>1 DEF Shut, LongWithdrawn
<1>5. Served(t)'
  BY <1>1 DEF Served
<1> QED
  BY <1>2, <1>3, <1>4, <1>5 DEF Of

(* A key that was withdrawn long ago has expired.                          *)
LEMMA LongWithdrawnMisses ==
  ASSUME IInv, NEW t \in Thread, Hit(t), t \in late
  PROVE  kid[t] # asked[t].by
BY TimeAssumption DEF IInv, Types, TypeOK, Timely, Of, Shut, LongWithdrawn, Hit

(* Each step of resolve keeps what holds of its goroutine, and installs    *)
(* only keys that expire in time.                                          *)
LEMMA ResolvingKeeps ==
  ASSUME IInv, NEW t \in Thread, Resolving(t)
  PROVE  Of(t)' /\ Timely'
<1> USE NilAssumption DEF iam, cache, get
<1>1. Types /\ Timely /\ Of(t) /\ UNCHANGED <<asked, verdict, late>> /\ UNCHANGED <<now, iam>>
  BY ResolvingIsApart DEF IInv, Resolving, Apart
<1>2. excused' \in {excused \cup missed', excused \cup {t} \cup missed'}
  BY DEF Resolving
<1>3. ASSUME UNCHANGED cache PROVE Timely'
  BY <1>1, <1>3 DEF Timely
<1>4. CASE FastPath(t) \/ Recheck(t)
  <2>1. CASE Hit(t) /\ Return(t, kid[t])
    <3>1. kid[t] \in Kid \cup NoKey /\ pc[t] # "idle"
      BY <1>1, <1>4, <2>1, UsableAssumption DEF Types, TypeOK, Hit, FastPath, Recheck, Labels, NoKey
    <3>2. t \in late => kid[t] # asked[t].by
      BY <2>1, LongWithdrawnMisses
    <3> QED
      BY <1>1, <1>2, <1>3, <1>4, <2>1, <3>1, <3>2, ReturnKeeps DEF FastPath, Recheck
  <2>2. CASE ~Hit(t)
    <3>1. /\ UNCHANGED <<now, iam, cache, body, kid, result, holder, missed>>
          /\ pc[t] # "idle" /\ pc'[t] \in {"lock", "fetch"}
          /\ pc'[t] = "fetch" => pc[t] = "recheck" /\ issued'[t] = now
      BY <1>1, <1>4, <2>2 DEF FastPath, Recheck, Proceed, Goto, Types, TypeOK
    <3>2. Alone(t)'
      BY <1>1, <2>2, <3>1 DEF Of, Alone, Inside, Hit
    <3>3. Bound(t)' /\ Shut(t)' /\ Served(t)'
      BY <1>1, <1>2, <3>1 DEF Of, Bound, Shut, Served, LongWithdrawn, Offered
    <3>4. Recent(t)'
      BY <1>1, <3>1, TimeAssumption DEF Types, TypeOK, Recent
    <3> QED
      BY <1>3, <3>1, <3>2, <3>3, <3>4 DEF Of
  <2> QED
    BY <1>4, <2>1, <2>2 DEF FastPath, Recheck
<1>5. CASE Lock(t)
  <2>1. /\ UNCHANGED <<now, iam, cache, body, issued, kid, result, missed>>
        /\ pc[t] = "lock" /\ pc'[t] = "recheck" /\ holder' = t
    BY <1>1, <1>5 DEF Lock, Goto, Types, TypeOK
  <2>2. Of(t)'
    BY <1>1, <1>2, <2>1 DEF Of, Alone, Inside, Bound, Recent, Shut, Served, LongWithdrawn, Offered
  <2> QED
    BY <1>3, <2>1, <2>2
<1>6. CASE IamAnswers(t)
  <2>1. /\ UNCHANGED <<now, iam, cache, issued, kid, result, holder, missed>>
        /\ pc[t] = "fetch" /\ pc'[t] = "install" /\ body'[t] = published
    BY <1>1, <1>6 DEF IamAnswers, Proceed, Goto, Types, TypeOK
  <2>2. Alone(t)' /\ Bound(t)' /\ Shut(t)'
    BY <1>1, <1>2, <2>1 DEF Of, Alone, Hit, Inside, Bound, Shut, LongWithdrawn
  <2>3. Recent(t)'
    BY <1>1, <2>1 DEF Types, TypeOK, Timely, Of, Recent
  <2>4. Served(t)'
    BY <1>1, <2>1 DEF Of, Served, Offered
  <2> QED
    BY <1>3, <2>1, <2>2, <2>3, <2>4 DEF Of
<1>7. CASE FetchFails(t)
  <2>1. excused' = excused \cup missed' \cup {t}
    BY <1>7 DEF Resolving
  <2>2. "error" \in NoKey /\ (t \in late => asked[t].by \in Kid)
    BY <1>1 DEF NoKey, Of, Shut, LongWithdrawn
  <2>3. Of(t)'
    BY <1>1, <1>2, <1>7, <2>1, <2>2, KidAssumption, ReturnKeeps DEF FetchFails
  <2> QED
    BY <1>3, <1>7, <2>3 DEF FetchFails
<1>8. CASE Install(t)
  <2>1. pc[t] = "install" /\ UNCHANGED <<now, iam>>
    BY <1>8 DEF Install
  <2>2. CASE /\ UsableIn(body[t]) # {} /\ keys' = UsableIn(body[t]) /\ expiry' = now + TTL /\ Proceed(t, "reread")
    <3>1. UNCHANGED <<kid, result, holder, missed>> /\ pc'[t] = "reread"
      BY <1>1, <2>2 DEF Proceed, Goto, Types, TypeOK
    <3>2. keys' \subseteq body[t]
      BY <2>2 DEF UsableIn
    <3>3. Timely'
      <4>1. ASSUME NEW k \in Kid, withdrawn[k] # Never, k \in keys' PROVE expiry' <= withdrawn[k] + GetTimeout + TTL
        BY <1>1, <2>1, <2>2, <3>2, <4>1, TimeAssumption DEF Types, TypeOK, Of, Recent
      <4> QED
        BY <1>1, <2>1, <2>2, <4>1, TimeAssumption DEF Timely, Types, TypeOK
    <3>4. Alone(t)' /\ Bound(t)' /\ Recent(t)'
      BY <1>1, <1>2, <2>1, <3>1 DEF Of, Alone, Inside, Bound, Recent
    <3>5. t \in late => asked[t].by \notin body[t]
      BY <1>1, <2>1, TimeAssumption DEF Types, TypeOK, Of, Recent, Shut, LongWithdrawn
    <3>6. Shut(t)'
      BY <1>1, <2>1, <3>1, <3>2, <3>5 DEF Of, Shut, LongWithdrawn
    <3>7. Served(t)'
      BY <1>1, <2>1, <2>2, <3>1 DEF Of, Served, Offered, UsableIn
    <3> QED
      BY <3>3, <3>4, <3>6, <3>7 DEF Of
  <2>3. CASE UsableIn(body[t]) = {} /\ Return(t, "error") /\ UNCHANGED cache
    <3>1. t \in missed
      BY <1>1, <2>1, <2>3 DEF Of, Served, Offered, UsableIn
    <3>2. "error" \in NoKey /\ (t \in late => asked[t].by \in Kid)
      BY <1>1 DEF NoKey, Of, Shut, LongWithdrawn
    <3>3. Of(t)'
      BY <1>1, <1>2, <2>1, <2>3, <3>1, <3>2, KidAssumption, ReturnKeeps
    <3> QED
      BY <1>3, <2>3, <3>3
  <2> QED
    BY <1>8, <2>2, <2>3 DEF Install
<1>9. CASE Reread(t)
  <2> DEFINE res == IF kid[t] \in keys THEN kid[t] ELSE "unknown"
  <2>1. pc[t] = "reread" /\ Return(t, res) /\ UNCHANGED cache
    BY <1>9 DEF Reread
  <2>2. res \in Kid \cup NoKey
    BY <1>1, UsableAssumption DEF Types, TypeOK, NoKey
  <2>3. t \in late => res # asked[t].by
    BY <1>1, <2>1, KidAssumption DEF Of, Shut, LongWithdrawn, NoKey
  <2>4. t \notin missed => res = kid[t]
    BY <1>1, <2>1 DEF Of, Served
  <2> HIDE DEF res
  <2>5. Of(t)'
    BY <1>1, <1>2, <2>1, <2>2, <2>3, <2>4, ReturnKeeps
  <2> QED
    BY <1>3, <2>1, <2>5
<1> QED
  BY <1>4, <1>5, <1>6, <1>7, <1>8, <1>9 DEF Resolving, Step

-----------------------------------------------------------------------------
(* The steps around resolve.                                               *)

(* A goroutine serves one request at a time, and only what came late is    *)
(* late.                                                                   *)
LEMMA VerifyKeeps ==
  ASSUME IInv, NEW t \in Thread, NEW r \in Requests, VerifyJWT(t, r)
  PROVE  IInv'
<1> USE NilAssumption, RequestsAssumption DEF VerifyJWT, Resolve, Return, Goto, iam, cache, get
<1>1. Types /\ Timely /\ Of(t) /\ asked[t] = Nil /\ pc[t] = "idle"
  BY DEF IInv
<1>2. /\ UNCHANGED <<now, iam, cache, get>>
      /\ asked' = [asked EXCEPT ![t] = r] /\ excused' = excused \cup missed'
      /\ t \in late' <=> LongWithdrawn(r.by)
      /\ verdict'[t] = "none" /\ \A q \in Thread \ {t} : verdict'[q] = verdict[q]
  BY <1>1 DEF Types, Answer, Of, Shut
<1>3. TypeOK'
  BY <1>1 DEF Types, TypeOK, Labels, NoKey
<1>4. Types'
  BY <1>1, <1>3 DEF Types, TypeOK, Answer, Verdicts
<1>5. \A q \in Thread : q \in missed => q \in excused
  BY DEF IInv, Of, Bound
<1>6. Apart(t)
  BY <1>1, <1>2, <1>5 DEF Apart, Types, TypeOK
<1>7. Timely'
  BY <1>1, <1>2 DEF Timely
<1>8. Of(t)'
  <2>1. asked'[t] = r /\ asked'[t] # Nil
    BY <1>1, <1>2 DEF Types
  <2>2. LongWithdrawn(r.by) => LongWithdrawn(r.by)' /\ r.by \in Kid
    BY <1>2 DEF LongWithdrawn
  <2>3. CASE r.kid = Nil
    <3>1. pc'[t] = "idle" /\ kid'[t] = Nil /\ t \notin missed' /\ result'[t] = "error"
      BY <1>1, <2>3 DEF Types, TypeOK
    <3>2. Alone(t)' /\ Bound(t)' /\ Recent(t)' /\ Served(t)'
      BY <1>2, <2>1, <2>3, <3>1 DEF Alone, Inside, Bound, Recent, Served
    <3>3. Shut(t)'
      BY <1>2, <2>1, <2>2, <3>1, KidAssumption DEF Shut, NoKey
    <3> QED
      BY <3>2, <3>3 DEF Of
  <2>4. CASE r.kid # Nil
    <3>1. pc'[t] = "fast" /\ kid'[t] = r.kid /\ (t \in missed' => t \in excused')
      BY <1>1, <2>4 DEF Types, TypeOK
    <3>2. t \notin missed' => r.kid \in Offered'
      BY <1>2, <2>4 DEF Offered
    <3>3. Alone(t)' /\ Bound(t)' /\ Recent(t)' /\ Served(t)'
      BY <1>2, <2>1, <2>4, <3>1, <3>2 DEF Alone, Inside, Bound, Recent, Served
    <3>4. Shut(t)'
      BY <1>2, <2>1, <2>2, <3>1 DEF Shut
    <3> QED
      BY <3>3, <3>4 DEF Of
  <2> QED
    BY <2>3, <2>4
<1> QED
  BY <1>4, <1>6, <1>7, <1>8, OthersKeep DEF IInv

(* The verdict ends it.                                                    *)
LEMMA AuthorizeKeeps ==
  ASSUME IInv, NEW t \in Thread, Authorize(t)
  PROVE  IInv'
<1> USE NilAssumption DEF Authorize, iam, cache, get
<1>1. Types /\ Timely /\ Of(t) /\ pc[t] = "idle"
  BY DEF IInv
<1>2. TypeOK'
  BY <1>1 DEF Types, TypeOK, NoKey
<1>3. /\ asked' \in [Thread -> Requests \cup {Nil}] /\ late' \subseteq Thread /\ excused' \subseteq Thread
  BY <1>1 DEF Types
<1>4. verdict' \in [Thread -> Verdicts]
  BY <1>1 DEF Types, Answer, Verdicts
<1>5. Apart(t)
  BY <1>1 DEF Apart, Types, TypeOK, Answer
<1>6. Timely'
  BY <1>1 DEF Timely
<1>7. Of(t)'
  BY <1>1 DEF Types, Of, Alone, Inside, Bound, Recent, Shut, Served
<1> QED
  BY <1>2, <1>3, <1>4, <1>5, <1>6, <1>7, OthersKeep DEF IInv, Types

(* Time and IAM: a key that is withdrawn while somebody asks for it gives  *)
(* that one an excuse, and what is cached of it still expires.             *)
LEMMA EnvironmentKeeps ==
  ASSUME IInv, Environment
  PROVE  IInv'
<1> USE NilAssumption, TimeAssumption DEF Environment, iam, cache, get
<1>1. Types /\ Timely /\ (\A t \in Thread : Of(t)) /\ UNCHANGED <<asked, verdict, late>>
  BY DEF IInv
<1>2. CASE Tick
  <2>1. /\ UNCHANGED <<published, withdrawn, keys, expiry, holder, pc, kid, body, issued, result, missed>>
        /\ now' = now + 1
        /\ \A t \in Thread : pc[t] \in {"fetch", "install"} => now < issued[t] + GetTimeout
    BY <1>2 DEF Tick
  <2>2. Types'
    BY <1>1, <2>1 DEF Types, TypeOK
  <2>3. Timely'
    BY <1>1, <2>1 DEF Types, TypeOK, Timely, Never
  <2>4. ASSUME NEW t \in Thread PROVE Of(t)'
    <3>1. Alone(t)' /\ Bound(t)' /\ Served(t)'
      BY <1>1, <2>1 DEF Types, TypeOK, Of, Alone, Hit, Bound, Served, Offered
    <3>2. Recent(t)'
      BY <1>1, <2>1 DEF Types, TypeOK, Of, Recent
    <3>3. Shut(t)'
      BY <1>1, <2>1 DEF Types, TypeOK, Of, Shut, LongWithdrawn, Never
    <3> QED
      BY <3>1, <3>2, <3>3 DEF Of
  <2> QED
    BY <2>2, <2>3, <2>4 DEF IInv
<1>3. ASSUME NEW k \in Kid, Publish(k) PROVE IInv'
  <2>1. /\ UNCHANGED <<now, withdrawn, keys, expiry, holder, pc, kid, body, issued, result, missed>>
        /\ withdrawn[k] = Never /\ published' = published \cup {k}
    BY <1>3 DEF Publish
  <2>2. Types'
    BY <1>1, <2>1 DEF Types, TypeOK
  <2>3. Timely'
    BY <1>1, <2>1 DEF Timely
  <2>4. ASSUME NEW t \in Thread PROVE Of(t)'
    BY <1>1, <2>1 DEF Of, Alone, Hit, Bound, Recent, Shut, LongWithdrawn, Served, Offered
  <2> QED
    BY <2>2, <2>3, <2>4 DEF IInv
<1>4. ASSUME NEW k \in Kid, Withdraw(k) PROVE IInv'
  <2>1. /\ UNCHANGED <<now, keys, expiry, holder, pc, kid, body, issued, result>>
        /\ k \in published /\ withdrawn[k] = Never
        /\ published' = published \ {k} /\ withdrawn' = [withdrawn EXCEPT ![k] = now]
        /\ missed' = missed \cup {t \in Thread : kid[t] = k}
    BY <1>1, <1>4 DEF Withdraw, Timely
  <2>2. Types'
    BY <1>1, <2>1 DEF Types, TypeOK
  <2>3. Timely'
    BY <1>1, <2>1 DEF Types, TypeOK, Timely
  <2>4. ASSUME NEW t \in Thread PROVE Of(t)'
    <3>1. Alone(t)' /\ Bound(t)'
      BY <1>1, <2>1 DEF Of, Alone, Hit, Bound
    <3>2. Recent(t)'
      BY <1>1, <2>1 DEF Types, TypeOK, Of, Recent
    <3>3. Shut(t)'
      BY <1>1, <2>1 DEF Types, TypeOK, Of, Shut, LongWithdrawn
    <3>4. Served(t)'
      BY <1>1, <2>1 DEF Of, Served, Offered
    <3> QED
      BY <3>1, <3>2, <3>3, <3>4 DEF Of
  <2> QED
    BY <2>2, <2>3, <2>4 DEF IInv
<1> QED
  BY <1>2, <1>3, <1>4 DEF Environment

-----------------------------------------------------------------------------
(* The results.                                                            *)

(* Every step preserves the inductive invariant.                           *)
THEOREM NextIInv == IInv /\ [AccessNext]_accessVars => IInv'
<1> SUFFICES ASSUME IInv, [AccessNext]_accessVars PROVE IInv'
  OBVIOUS
<1>1. CASE UNCHANGED accessVars
  BY <1>1 DEF accessVars, access, vars, iam, cache, get, IInv, Types, TypeOK, Timely, Of, Alone, Hit, Bound,
     Recent, Shut, LongWithdrawn, Served, Offered
<1>2. ASSUME NEW t \in Thread, RefuseAtOnce(t) PROVE IInv'
  BY <1>2 DEF RefuseAtOnce, Answer, Verdicts, vars, iam, cache, get, IInv, Types, TypeOK, Timely, Of, Alone, Hit, Bound,
     Recent, Shut, LongWithdrawn, Served, Offered
<1>3. ASSUME NEW t \in Thread, Resolving(t) PROVE IInv'
  BY <1>3, ResolvingIsApart, ResolvingKeeps, OthersKeep DEF IInv
<1> QED
  BY <1>1, <1>2, <1>3, VerifyKeeps, AuthorizeKeeps, EnvironmentKeeps DEF AccessNext

(* The inductive invariant holds in every behaviour.                       *)
THEOREM InductiveInvariant == AccessSpec => []IInv
  BY InitIInv, NextIInv, PTL DEF AccessSpec

(* Every variable keeps its type, and a goroutine without a request asks   *)
(* the cache for nothing.                                                  *)
THEOREM TypeCorrect == AccessSpec => []AccessTypeOK
<1>1. IInv => AccessTypeOK
  BY DEF IInv, Types, Of, Bound, AccessTypeOK
<1> QED
  BY <1>1, InductiveInvariant, PTL

(* "Serialized refresh" (jwks.go): while a goroutine fetches, nobody makes *)
(* the fetch unnecessary.                                                  *)
THEOREM NoFetchIsWasted == AccessSpec => []NoWastedFetch
<1>1. IInv => NoWastedFetch
  BY DEF IInv, Of, Alone, NoWastedFetch
<1> QED
  BY <1>1, InductiveInvariant, PTL

(* Only Authorize gives a verdict to who serves a request.                 *)
LEMMA VerdictsAreGiven ==
  ASSUME IInv, AccessNext, NEW t \in Thread, asked[t] # Nil, verdict'[t] # "none"
  PROVE  Authorize(t)
<1>1. verdict[t] = "none" /\ verdict \in [Thread -> Verdicts]
  BY DEF IInv, Types, Of, Bound
<1>2. ASSUME NEW q \in Thread, RefuseAtOnce(q) \/ (\E r \in Requests : VerifyJWT(q, r)) \/ Resolving(q)
      PROVE  FALSE
  BY <1>1, <1>2 DEF RefuseAtOnce, VerifyJWT, Resolving, Answer
<1>3. ~Environment
  BY <1>1 DEF Environment
<1> QED
  BY <1>1, <1>2, <1>3 DEF AccessNext, Authorize, Answer

(* A token that comes when the key it is signed with has been withdrawn    *)
(* for longer than the TTL and a fetch is not admitted.                    *)
THEOREM WithdrawalTakesEffect == AccessSpec => RevocationTakesEffect
<1>1. ASSUME IInv, AccessNext, NEW t \in Thread, asked[t] # Nil, verdict'[t] \in {"403", "admitted"}
      PROVE  t \notin late
  <2>1. Authorize(t) /\ Shut(t) /\ verdict \in [Thread -> Verdicts]
    BY <1>1, VerdictsAreGiven DEF IInv, Types, Of
  <2>2. asked[t].by = result[t]
    BY <1>1, <2>1 DEF Authorize, Answer, Authentic, SignedWith
  <2> QED
    BY <2>1, <2>2 DEF Authorize, Shut
<1>2. IInv /\ [AccessNext]_accessVars =>
        [\A t \in Thread : asked[t] # Nil /\ verdict'[t] \in {"403", "admitted"} => t \notin late]_accessVars
  BY <1>1
<1> QED
  BY <1>2, InductiveInvariant, PTL DEF AccessSpec, RevocationTakesEffect

(* Nobody is refused with a token that IAM signed with the key it names,   *)
(* in time and with acceptable claims, unless IAM did not offer the key at *)
(* some moment of the call or did not answer.                              *)
THEOREM RefusalHasCause == AccessSpec => RefusedForCause
<1>1. ASSUME IInv, AccessNext, NEW t \in Thread, asked[t] # Nil, verdict'[t] = "401"
      PROVE  LET r == asked[t] IN
             t \in excused \/ ~SignedWith(r, r.kid) \/ ~InTime(r) \/ ~Acceptable(r)
  <2>1. Authorize(t) /\ Served(t) /\ asked[t] \in Requests /\ verdict \in [Thread -> Verdicts]
    BY <1>1, VerdictsAreGiven DEF IInv, Types, Of
  <2>2. ~Authentic(asked[t], result[t])
    BY <1>1, <2>1 DEF Authorize, Answer
  <2>3. t \in excused \/ result[t] = asked[t].kid \/ asked[t].kid = Nil
    BY <1>1, <2>1 DEF Authorize, Served
  <2>4. asked[t].kid = Nil => ~SignedWith(asked[t], asked[t].kid)
    BY <2>1, RequestsAssumption DEF SignedWith
  <2> QED
    BY <2>2, <2>3, <2>4 DEF Authentic
<1>2. IInv /\ [AccessNext]_accessVars =>
        [\A t \in Thread : asked[t] # Nil /\ verdict'[t] = "401" =>
           LET r == asked[t] IN
           t \in excused \/ ~SignedWith(r, r.kid) \/ ~InTime(r) \/ ~Acceptable(r)]_accessVars
  BY <1>1
<1> QED
  BY <1>2, InductiveInvariant, PTL DEF AccessSpec, RefusedForCause
=============================================================================
