------------------------------ MODULE ZkQuorum ------------------------------
(***************************************************************************)
(* The client of the zero-knowledge SDK (sdk/go) against the MPC nodes.    *)
(* What it changes (secrets, members, compliance, retention) it posts or   *)
(* deletes at all nodes at once and counts the successes; what it reads it *)
(* asks all nodes for, and takes the first body once enough of them have   *)
(* answered.  Both report an error below the threshold.                    *)
(*                                                                         *)
(* The client holds the customer encryption key, unless it is locked.  The *)
(* key is derived from the passphrase of Unlock or Bootstrap (cek.go) and  *)
(* nothing compares it with the key of the org: another passphrase is      *)
(* another key.  Set seals name and value under it, with a fresh nonce, so *)
(* that no two seals are alike; the nodes keep a secret under its sealed   *)
(* name (client_test.go).                                                  *)
(*                                                                         *)
(* An operation of the SDK is one change or one read, or, for break-glass  *)
(* tokens and regulator exports, a change and then a read.  The nodes are  *)
(* external: a node is the set of the changes it has applied, and they     *)
(* exchange changes among themselves (TFHE-KMS-ARCHITECTURE.md).           *)
(***************************************************************************)
EXTENDS Integers, FiniteSets

CONSTANTS
  Node,         \* the nodes
  Threshold,    \* how many of them must answer
  Change,       \* the operations that broadcast,
  Read,         \*   and the ones that read from a quorum
  Bootstraps,   \* those of the changes that are Bootstrap
  Sealed,       \* the ones that need the key: Set, Get, Delete, List, InviteMember,
  Sets, Gets, Lists, \* among them these, all of one secret
  Key,          \* the keys that passphrases lead to
  NoKey,        \* of a client that is locked
  MaxFaults     \* bound: how many requests fail

Op == Change \cup Read

ASSUME NodesAssumption     == IsFiniteSet(Node)
ASSUME ThresholdAssumption == Threshold \in 1 .. Cardinality(Node)
ASSUME OpsAssumption       == /\ Change \cap Read = {} /\ Bootstraps \subseteq Change
                              /\ Sealed \subseteq Op /\ Sealed \cap Bootstraps = {}
                              /\ Sets \subseteq Sealed \cap Change
                              /\ Gets \cup Lists \subseteq Sealed \cap Read /\ Gets \cap Lists = {}
ASSUME KeysAssumption      == NoKey \notin Key
ASSUME BoundAssumption     == MaxFaults \in Nat

VARIABLES
  applied,      \* applied[n]: the changes node n has applied
  cek,          \* the key the client holds, or NoKey
  keyOf,        \* keyOf[o]: the copy of it that o works with
  pc,           \* pc[o]: idle, flight, or what o returned: ok, failed, locked
  out,          \* out[o][n]: the request of o to n: none, waiting, served, ok, 404 or err
  body,         \* body[r][n]: what n answers to read r
  first,        \* first[r]: the first body that arrived
  \* history
  acked         \* acked[r]: the changes that had been acknowledged when r began

keys    == <<cek, keyOf>>
vars    == <<applied, keys, pc, out, body, first, acked>>

Init ==
  /\ applied = [n \in Node |-> {}]
  /\ cek = NoKey /\ keyOf = [o \in Op |-> NoKey]
  /\ pc = [o \in Op |-> "idle"] /\ out = [o \in Op |-> [n \in Node |-> "none"]]
  /\ body = [r \in Read |-> [n \in Node |-> {}]] /\ first = [r \in Read |-> {}]
  /\ acked = [r \in Read |-> {}]

-----------------------------------------------------------------------------
Heard(o)   == {n \in Node : out[o][n] = "ok"}
Lost(o)    == {n \in Node : out[o][n] \in {"404", "err"}}
Waits(o,n) == pc[o] = "flight" /\ out[o][n] \in {"waiting", "served"}

Result(o, n, s) == out' = [out EXCEPT ![o][n] = s]

(* Unlock, with any passphrase, at any time. *)
Unlock(k) ==
  /\ cek # k /\ cek' = k
  /\ UNCHANGED <<applied, keyOf, pc, out, body, first, acked>>

Lock ==
  /\ cek # NoKey /\ cek' = NoKey
  /\ UNCHANGED <<applied, keyOf, pc, out, body, first, acked>>

(* Nothing is done for an org before its Bootstrap.  An operation that     *)
(* needs the key copies it, or fails; Bootstrap derives its own.  Then one *)
(* goroutine per node sends the request.                                   *)
Begin(o) ==
  /\ pc[o] = "idle"
  /\ o \notin Bootstraps => \A b \in Bootstraps : pc[b] \in {"ok", "failed"}
  /\ \/ /\ o \in Sealed /\ cek = NoKey
        /\ pc' = [pc EXCEPT ![o] = "locked"] /\ UNCHANGED <<keyOf, out, acked>>
     \/ /\ o \in Sealed => cek # NoKey
        /\ \E k \in IF o \in Bootstraps THEN Key ELSE {cek} : keyOf' = [keyOf EXCEPT ![o] = k]
        /\ pc' = [pc EXCEPT ![o] = "flight"]
        /\ out' = [out EXCEPT ![o] = [n \in Node |-> "waiting"]]
        /\ IF o \in Read
           THEN acked' = [acked EXCEPT ![o] = {c \in Change : pc[c] = "ok"}]
           ELSE UNCHANGED acked
  /\ UNCHANGED <<applied, cek, body, first>>

(* What an operation seals carries its own nonce. *)
Seal(o) == <<keyOf[o], o>>

-----------------------------------------------------------------------------
(* The nodes.  A request is applied when it arrives, if the node has not   *)
(* heard of it from another: also after the client has given it up.        *)
Apply(c, n) ==
  /\ out[c][n] # "none" /\ c \notin applied[n]
  /\ applied' = [applied EXCEPT ![n] = @ \cup {c}]
  /\ UNCHANGED <<keys, pc, out, body, first, acked>>

Gossip(m, n) ==
  /\ ~(applied[m] \subseteq applied[n])
  /\ applied' = [applied EXCEPT ![n] = @ \cup applied[m]]
  /\ UNCHANGED <<keys, pc, out, body, first, acked>>

(* A List, and other reads, get what the node has; a Get what it has under *)
(* the name as the Get sealed it.                                          *)
Answer(r, n) ==
  IF r \in Gets THEN {c \in applied[n] \cap Sets : Seal(c) = Seal(r)} ELSE applied[n]

Serve(r, n) ==
  /\ pc[r] = "flight" /\ out[r][n] = "waiting"
  /\ body' = [body EXCEPT ![r][n] = Answer(r, n)]
  /\ Result(r, n, "served")
  /\ UNCHANGED <<applied, keys, pc, first, acked>>

-----------------------------------------------------------------------------
(* The client's goroutines: a 2xx answer to a POST or DELETE ... *)
Confirm(c, n) ==
  /\ Waits(c, n) /\ c \in applied[n]
  /\ Result(c, n, "ok")
  /\ UNCHANGED <<applied, keys, pc, body, first, acked>>

(* ... the answer to a GET ... *)
Arrive(r, n) ==
  /\ pc[r] = "flight" /\ out[r][n] = "served"
  /\ Result(r, n, IF r \in Gets /\ body[r][n] = {} THEN "404" ELSE "ok")
  /\ first' = [first EXCEPT ![r] = IF Heard(r) = {} THEN body[r][n] ELSE @]
  /\ UNCHANGED <<applied, keys, pc, body, acked>>

(* ... or another status, no connection, no answer within 30 s. *)
Fail(o, n) ==
  /\ Waits(o, n)
  /\ Cardinality({x \in Op \X Node : out[x[1]][x[2]] = "err"}) < MaxFaults
  /\ Result(o, n, "err")
  /\ UNCHANGED <<applied, keys, pc, body, first, acked>>

EnoughMinusOne(o) == Cardinality(Heard(o)) >= Threshold - 1 (* mutant *)

Enough(o) == Cardinality(Heard(o)) >= Threshold

AnyBack(o) == Heard(o) \cup Lost(o) # {} (* mutant: one result is awaited *)

AllBack(o) == Heard(o) \cup Lost(o) = Node

(* A broadcast collects all the results, then counts. *)
ReturnChange(c) ==
  /\ pc[c] = "flight" /\ AllBack(c)
  /\ pc' = [pc EXCEPT ![c] = IF Enough(c) THEN "ok" ELSE "failed"]
  /\ cek' = IF c \in Bootstraps /\ Enough(c) THEN keyOf[c] ELSE cek
  /\ UNCHANGED <<applied, keyOf, out, body, first, acked>>

OpensShared(r) == (* mutant: the key is not copied *)
  r \in Gets \cup Lists => cek # NoKey /\ \A c \in first[r] \cap Sets : keyOf[c] = cek

(* The key that r copied, whatever the client did since, opens every blob  *)
(* of the first answer or none is returned.                                *)
Opens(r) == r \in Gets \cup Lists => \A c \in first[r] \cap Sets : keyOf[c] = keyOf[r]

(* A read returns with the answer that completes the quorum and cancels    *)
(* the requests that are still out, or fails when all are back.            *)
ReturnRead(r) ==
  /\ pc[r] = "flight"
  /\ \/ Enough(r) /\ pc' = [pc EXCEPT ![r] = IF Opens(r) THEN "ok" ELSE "failed"]
     \/ ~Enough(r) /\ AllBack(r) /\ pc' = [pc EXCEPT ![r] = "failed"]
  /\ out'  = [out EXCEPT ![r] = [n \in Node |-> IF out[r][n] \in {"waiting", "served"} THEN "none" ELSE out[r][n]]]
  /\ body' = [body EXCEPT ![r] = [n \in Node |-> IF out[r][n] = "ok" THEN body[r][n] ELSE {}]]
  /\ UNCHANGED <<applied, keys, first, acked>>

-----------------------------------------------------------------------------
Client(o, n) == \/ o \in Change /\ Confirm(o, n)
                \/ o \in Read /\ Arrive(o, n)
                \/ Fail(o, n)
Return(o)    == (o \in Change /\ ReturnChange(o)) \/ (o \in Read /\ ReturnRead(o))

Next ==
  \/ Lock \/ \E k \in Key : Unlock(k)
  \/ \E o \in Op : Begin(o) \/ Return(o) \/ \E n \in Node : Client(o, n)
  \/ \E c \in Change, n \in Node : Apply(c, n)
  \/ \E m, n \in Node : Gossip(m, n)
  \/ \E r \in Read, n \in Node : Serve(r, n)

Spec == Init /\ [][Next]_vars

-----------------------------------------------------------------------------
(* Properties.                                                             *)

(* Types; only what was begun is applied anywhere, and a change that has   *)
(* returned has no request out.                                            *)
TypeOK ==
  /\ applied \in [Node -> SUBSET Change]
  /\ cek \in Key \cup {NoKey} /\ keyOf \in [Op -> Key \cup {NoKey}]
  /\ pc \in [Op -> {"idle", "flight", "ok", "failed", "locked"}]
  /\ out \in [Op -> [Node -> {"none", "waiting", "served", "ok", "404", "err"}]]
  /\ body \in [Read -> [Node -> SUBSET Change]]
  /\ first \in [Read -> SUBSET Change]
  /\ acked \in [Read -> SUBSET Change]
  /\ \A n \in Node : \A c \in applied[n] : pc[c] # "idle"
  /\ \A c \in Change, n \in Node : pc[c] \in {"ok", "failed"} => out[c][n] \in {"ok", "err"}

Having(c) == {n \in Node : c \in applied[n]}

(* A change that was acknowledged is held by a threshold of the nodes,     *)
(* however many requests were lost, answered too late or repeated by sync; *)
(* and if the threshold is a majority, the answers of a later read that    *)
(* succeeds include one of a node that knew the change: the quorums meet.  *)
(* (The client returns the first body, which may be another one.)          *)
AckedIsOnAQuorum ==
  /\ \A c \in Change : pc[c] = "ok" => Cardinality(Having(c)) >= Threshold
  /\ 2 * Threshold > Cardinality(Node) =>
       \A r \in Read : pc[r] = "ok" =>
         \A c \in acked[r] : \E n \in Heard(r) : c \in body[r][n]

(* A read for which enough nodes have answered succeeds, also when the     *)
(* client is locked, or unlocked with another passphrase, meanwhile.  The  *)
(* exception is a read that finds a blob sealed under another key than its *)
(* own: one Set under a wrong passphrase, which no one refuses, and every  *)
(* List that sees it fails as a whole.                                     *)
ReadFailsForCause ==
  \A r \in Read : pc[r] = "failed" =>
    \/ Cardinality(Heard(r)) < Threshold
    \/ r \in Lists /\ \E c \in first[r] \cap Sets : keyOf[c] # keyOf[r]

(* "Get retrieves an encrypted blob from the MPC nodes" (secrets.go:59): a *)
(* Get that begins when the Set of its secret has been acknowledged does   *)
(* not fail if every node answers it.                                      *)
GetFindsWhatWasSet ==
  \A g \in Gets :
    acked[g] \cap Sets # {} /\ (\A n \in Node : out[g][n] \in {"ok", "404"}) => pc[g] # "failed"
=============================================================================
