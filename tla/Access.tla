------------------------------- MODULE Access -------------------------------
(***************************************************************************)
(* How a request is let in (auth.go, the authorization helpers of          *)
(* embed.go), on top of the key cache it asks: the checks on the token     *)
(* before resolve(kid), the call itself with all its steps, and, once it   *)
(* has returned, the signature, the times and the claims, and the decision *)
(* whether the caller may use the route: act on the org in the URL, or,    *)
(* where the URL has none, have an admin's role.                           *)
(*                                                                         *)
(* A request is a record: alg, kid, by (the key that signed the token),    *)
(* nbf, exp (Never if the claim is missing), iss, aud (a set), sub (the    *)
(* claim "sub", or "id" in its place; "" if both are missing), owner,      *)
(* admin (one of its roles is an admin's) and org, the org it asks for, or *)
(* Nil on the routes for admins: the MPC keys, the fetch from the          *)
(* environment and the statistics of the audit.                            *)
(* The order of the checks in between is that of golang-jwt's parser.      *)
(***************************************************************************)
EXTENDS JWKSCache

CONSTANTS
  Requests,     \* the requests that may come with a well-formed token
  Issuers,      \* IAM_ISSUER, a list, without trailing slashes
  Audiences     \* IAM_AUDIENCE, a list

(* validateAuthConfigAtBoot *)
ASSUME ConfigAssumption == Issuers # {} /\ Audiences # {}

(* A token was signed with some key, whatever its header says.             *)
ASSUME RequestsAssumption ==
  /\ Nil \notin Requests
  /\ \A r \in Requests : r.kid \in Kid \cup {Nil} /\ r.by # Nil

VARIABLES
  asked,        \* asked[t]: the request goroutine t serves, or Nil
  verdict,      \* verdict[t]: its answer to the last one
  \* history
  late,         \* who serves a token whose key was withdrawn long before it came
  excused       \* who could not get the key: IAM did not offer it or did not answer

access     == <<asked, verdict, late, excused>>
accessVars == <<vars, access>>

Nobody     == {}
AllowedAlg == {"RS", "PS", "ES", "EdDSA"}
Verdicts   == {"none", "401", "403", "admitted"}

AccessInit ==
  /\ Init
  /\ asked = [t \in Thread |-> Nil] /\ verdict = [t \in Thread |-> "none"]
  /\ late = Nobody /\ excused = Nobody

-----------------------------------------------------------------------------
Answer(t, v) == verdict' = [verdict EXCEPT ![t] = v]

(* No bearer token, no JWT at all, or a signing method that is not allowed: *)
(* refused before any key is looked up.                                    *)
RefuseAtOnce(t) ==
  /\ asked[t] = Nil
  /\ Answer(t, "401")
  /\ UNCHANGED <<vars, asked, late, excused>>

(* The key was withdrawn so long ago that no cache may still hold it. *)
LongWithdrawn(k) ==
  /\ k \in Kid /\ withdrawn[k] # Never
  /\ withdrawn[k] + TTL + GetTimeout < now

(* verifyJWT, up to its call of resolve. *)
VerifyJWT(t, r) ==
  /\ asked[t] = Nil /\ r.alg \in AllowedAlg
  /\ Resolve(t, r.kid)
  /\ asked' = [asked EXCEPT ![t] = r]
  /\ Answer(t, "none")
  /\ late' = IF LongWithdrawn(r.by) THEN late \cup {t} ELSE late
  /\ excused' = excused \cup missed'

(* A step of resolve, which the parser calls for the key. *)
Resolving(t) ==
  /\ Step(t)
  /\ excused' = excused \cup missed' \cup (IF FetchFails(t) THEN {t} ELSE {})
  /\ UNCHANGED <<asked, verdict, late>>

(* The cached keys are RSA keys: a token of another family fails.  *)
SignedWith(r, k) == r.alg \in {"RS", "PS"} /\ r.by = k

IsAdmin(r) == r.admin

CanActOnOrg(r) == IsAdmin(r) \/ (r.owner # "" /\ r.org # "" /\ r.owner = r.org)

MayUse(r) == IF r.org = Nil THEN IsAdmin(r) ELSE CanActOnOrg(r)

InTime(r) == r.nbf <= now /\ now < r.exp

CheckIssuer(r)   == r.iss \in Issuers
CheckAudience(r) == r.aud \cap Audiences # {}
Acceptable(r)    == CheckIssuer(r) /\ CheckAudience(r) /\ r.sub # ""

Authentic(r, k) == SignedWith(r, k) /\ InTime(r) /\ Acceptable(r)

AuthorizeForgetful(t) == (* mutant: what the last request met is held against the next *)
  /\ asked[t] # Nil /\ pc[t] = "idle"
  /\ Answer(t, IF Authentic(asked[t], result[t]) THEN "admitted" ELSE "401")
  /\ asked' = [asked EXCEPT ![t] = Nil]
  /\ result' = [result EXCEPT ![t] = "none"]
  /\ UNCHANGED <<now, iam, cache, holder, pc, kid, get, missed, late, excused>>

(* verifyJWT from the return of resolve, authorize and the gate of the     *)
(* route; with no key, the token is refused.                               *)
Authorize(t) ==
  /\ asked[t] # Nil /\ pc[t] = "idle"
  /\ \/ ~Authentic(asked[t], result[t]) /\ Answer(t, "401")
     \/ Authentic(asked[t], result[t]) /\ ~MayUse(asked[t]) /\ Answer(t, "403")
     \/ Authentic(asked[t], result[t]) /\ MayUse(asked[t]) /\ Answer(t, "admitted")
  /\ asked' = [asked EXCEPT ![t] = Nil]
  /\ result' = [result EXCEPT ![t] = "none"]
  /\ late' = late \ {t} /\ excused' = excused \ {t}
  /\ UNCHANGED <<now, iam, cache, holder, pc, kid, get, missed>>

Environment ==
  /\ Tick \/ \E k \in Kid : Publish(k) \/ Withdraw(k)
  /\ excused' = excused \cup missed'
  /\ UNCHANGED <<asked, verdict, late>>

AccessNext ==
  \/ \E t \in Thread : \/ RefuseAtOnce(t)
                       \/ \E r \in Requests : VerifyJWT(t, r)
                       \/ Resolving(t) \/ Authorize(t)
  \/ Environment

AccessSpec == AccessInit /\ [][AccessNext]_accessVars

-----------------------------------------------------------------------------
(* Properties.                                                             *)

(* Types, those of the cache included; whoever serves no request is where  *)
(* the cache has nothing to do.                                            *)
AccessTypeOK ==
  /\ TypeOK
  /\ asked \in [Thread -> Requests \cup {Nil}] /\ verdict \in [Thread -> Verdicts]
  /\ late \subseteq Thread /\ excused \subseteq Thread
  /\ \A t \in Thread : asked[t] = Nil => pc[t] = "idle" /\ t \notin excused

(* Withdrawing a key takes effect: a token that comes when the key it is   *)
(* signed with has been withdrawn for longer than the TTL and a fetch is   *)
(* not admitted, whatever other goroutines put into the cache meanwhile.   *)
RevocationTakesEffect ==
  [][\A t \in Thread : asked[t] # Nil /\ verdict'[t] \in {"403", "admitted"} => t \notin late]_accessVars

(* A token that IAM signed with the key it names, that is in time when it  *)
(* is judged and has acceptable claims is refused only if IAM did not      *)
(* offer the key at some moment of the call or did not answer.             *)
RefusedForCause ==
  [][\A t \in Thread :
       asked[t] # Nil /\ verdict'[t] = "401" =>
         LET r == asked[t]
         IN  t \in excused \/ ~SignedWith(r, r.kid) \/ ~InTime(r) \/ ~Acceptable(r)]_accessVars
=============================================================================
