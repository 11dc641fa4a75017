--------------------------- MODULE ZkQuorumProofs ---------------------------
(***************************************************************************)
(* Proofs about ZkQuorum: its types, that quorums hold what was            *)
(* acknowledged and meet, and that a read fails only for a cause, for any  *)
(* finite number of nodes, any threshold, any operations and keys.         *)
(***************************************************************************)
EXTENDS ZkQuorum, FiniteSetTheorems, TLAPS

(* Types, and the part of TypeOK that relates two variables, per object.   *)
Types ==
  /\ applied \in [Node -> SUBSET Change]
  /\ cek \in Key \cup {NoKey} /\ keyOf \in [Op -> Key \cup {NoKey}]
  /\ pc \in [Op -> {"idle", "flight", "ok", "failed", "locked"}]
  /\ out \in [Op -> [Node -> {"none", "waiting", "served", "ok", "404", "err"}]]
  /\ body \in [Read -> [Node -> SUBSET Change]]
  /\ first \in [Read -> SUBSET Change]
  /\ acked \in [Read -> SUBSET Change]

Begun == \A n \in Node : \A c \in applied[n] : pc[c] # "idle"

(* A change is confirmed by nodes that have applied it, and has returned   *)
(* with its answers.                                                       *)
ChangeInv(c) ==
  /\ \A n \in Node :
       /\ out[c][n] \in {"none", "waiting", "ok", "err"}
       /\ out[c][n] = "ok" => c \in applied[n]
       /\ pc[c] = "idle" => out[c][n] = "none"
       /\ pc[c] \in {"ok", "failed"} => out[c][n] \in {"ok", "err"}
  /\ pc[c] = "ok" => Enough(c)

(* A read has begun after the changes it must see: a node that confirmed   *)
(* one of them answers with it.  What a Get asks for is nowhere.           *)
ReadInv(r) ==
  /\ \A n \in Node : \A c \in body[r][n] : pc[c] # "idle"
  /\ \A c \in first[r] : pc[c] # "idle"
  /\ r \in Gets => \A n \in Node : out[r][n] # "ok" /\ body[r][n] = {}
  /\ \A c \in acked[r] : /\ pc[c] = "ok"
                         /\ \A n \in Heard(c) :
                              r \notin Gets /\ out[r][n] \in {"served", "ok"} => c \in body[r][n]
  /\ pc[r] = "ok" => Enough(r)
  /\ pc[r] = "failed" => \/ ~Enough(r)
                         \/ r \in Lists /\ \E c \in first[r] \cap Sets : keyOf[c] # keyOf[r]

IInv == Types /\ Begun /\ (\A c \in Change : ChangeInv(c)) /\ \A r \in Read : ReadInv(r)

-----------------------------------------------------------------------------
(* Before the first operation no node has been asked for anything.         *)
LEMMA InitIInv == Init => IInv
<1> SUFFICES ASSUME Init PROVE IInv
  OBVIOUS
<1>1. Types /\ Begun
  BY DEF Init, Types, Begun
<1>2. ASSUME NEW c \in Change PROVE ChangeInv(c)
  BY DEF Init, ChangeInv, Op
<1>3. ASSUME NEW r \in Read PROVE ReadInv(r)
  BY DEF Init, ReadInv, Op
<1> QED
  BY <1>1, <1>2, <1>3 DEF IInv

-----------------------------------------------------------------------------
(* Frames.                                                                 *)

(* Applied changes stay; what has begun keeps its key; and what has        *)
(* succeeded is over.                                                      *)
Steady ==
  /\ \A n \in Node : applied[n] \subseteq applied'[n]
  /\ \A o \in Op : /\ pc[o] # "idle" => pc'[o] # "idle" /\ keyOf'[o] = keyOf[o]
                   /\ pc[o] = "ok" => pc'[o] = "ok" /\ out'[o] = out[o]

Same(o) == pc'[o] = pc[o] /\ out'[o] = out[o]

(* The result of one request concerns one operation and one node.          *)
LEMMA ResultFacts ==
  ASSUME Types, NEW o \in Op, NEW n \in Node, NEW s \in {"none", "waiting", "served", "ok", "404", "err"},
         Result(o, n, s)
  PROVE  /\ out' \in [Op -> [Node -> {"none", "waiting", "served", "ok", "404", "err"}]]
         /\ out'[o][n] = s
         /\ \A m \in Node \ {n} : out'[o][m] = out[o][m]
         /\ \A p \in Op \ {o} : out'[p] = out[p]
  BY DEF Types, Result

(* Every step is steady.                                                   *)
LEMMA NextIsSteady ==
  ASSUME IInv, Next
  PROVE  Steady
<1> USE DEF IInv, Types, Op, keys
<1>1. CASE Lock \/ \E k \in Key : Unlock(k)
  BY <1>1 DEF Lock, Unlock, Steady
<1>2. ASSUME NEW o \in Op, Begin(o) PROVE Steady
  <2>1. \A p \in Op \ {o} : pc'[p] = pc[p] /\ out'[p] = out[p] /\ keyOf'[p] = keyOf[p]
    BY <1>2 DEF Begin
  <2> QED
    BY <1>2, <2>1 DEF Begin, Steady
<1>3. ASSUME NEW o \in Op, Return(o) PROVE Steady
  <2>1. pc[o] = "flight" /\ pc'[o] # "idle" /\ UNCHANGED <<applied, keyOf>>
    BY <1>3 DEF Return, ReturnChange, ReturnRead
  <2>2. \A p \in Op \ {o} : pc'[p] = pc[p] /\ out'[p] = out[p]
    BY <1>3 DEF Return, ReturnChange, ReturnRead
  <2> QED
    BY <2>1, <2>2 DEF Steady
<1>4. ASSUME NEW o \in Op, NEW n \in Node, Client(o, n) PROVE Steady
  <2>1. PICK s \in {"ok", "404", "err"} : pc[o] = "flight" /\ UNCHANGED <<applied, pc, keyOf>> /\ Result(o, n, s)
    BY <1>4 DEF Client, Confirm, Arrive, Fail, Waits
  <2> QED
    BY <2>1, ResultFacts DEF Steady
<1>5. ASSUME NEW c \in Change, NEW n \in Node, Apply(c, n) PROVE Steady
  BY <1>5 DEF Apply, Steady
<1>6. ASSUME NEW m \in Node, NEW n \in Node, Gossip(m, n) PROVE Steady
  BY <1>6 DEF Gossip, Steady
<1>7. ASSUME NEW r \in Read, NEW n \in Node, Serve(r, n) PROVE Steady
  <2>1. pc[r] = "flight" /\ UNCHANGED <<applied, pc, keyOf>> /\ Result(r, n, "served")
    BY <1>7 DEF Serve
  <2> QED
    BY <2>1, ResultFacts DEF Steady
<1> QED
  BY <1>1, <1>2, <1>3, <1>4, <1>5, <1>6, <1>7 DEF Next

(* A change that a step does not touch.                                    *)
LEMMA ChangeKept ==
  ASSUME Types, Steady, NEW c \in Change, ChangeInv(c), Same(c)
  PROVE  ChangeInv(c)'
<1>1. Heard(c)' = Heard(c)
  BY DEF Same, Heard
<1> QED
  BY <1>1 DEF Same, Steady, ChangeInv, Enough, Op

(* A read that a step does not touch.                                      *)
LEMMA ReadKept ==
  ASSUME IInv, Steady, NEW r \in Read, ReadInv(r), Same(r), body'[r] = body[r], first'[r] = first[r], acked'[r] = acked[r]
  PROVE  ReadInv(r)'
<1> USE DEF IInv, Types, Op
<1>1. Heard(r)' = Heard(r) /\ (Enough(r)' <=> Enough(r))
  BY DEF Same, Heard, Enough
<1>2. /\ \A n \in Node : \A c \in body'[r][n] : pc'[c] # "idle"
      /\ \A c \in first'[r] : pc'[c] # "idle" /\ keyOf'[c] = keyOf[c]
  BY DEF Steady, ReadInv
<1>3. r \in Gets => \A n \in Node : out'[r][n] # "ok" /\ body'[r][n] = {}
  BY DEF Same, ReadInv
<1>4. ASSUME NEW c \in acked'[r]
      PROVE  /\ pc'[c] = "ok"
             /\ \A n \in Heard(c)' : r \notin Gets /\ out'[r][n] \in {"served", "ok"} => c \in body'[r][n]
  <2>1. pc'[c] = "ok" /\ out'[c] = out[c] /\ pc[c] = "ok"
    BY DEF Steady, ReadInv
  <2>2. Heard(c)' = Heard(c)
    BY <2>1 DEF Heard
  <2> QED
    BY <2>1, <2>2 DEF Same, ReadInv
<1>5. pc'[r] = "ok" => Enough(r)'
  BY <1>1 DEF Same, ReadInv
<1>6. pc'[r] = "failed" => \/ ~Enough(r)'
                           \/ r \in Lists /\ \E c \in first'[r] \cap Sets : keyOf'[c] # keyOf'[r]
  <2>1. CASE pc[r] = "failed" /\ Enough(r)
    <3>1. r \in Lists
      BY <2>1 DEF ReadInv
    <3>2. PICK c \in first[r] \cap Sets : keyOf[c] # keyOf[r]
      BY <2>1 DEF ReadInv
    <3>3. keyOf'[r] = keyOf[r]
      BY <2>1 DEF Steady
    <3>4. c \in first'[r] \cap Sets /\ keyOf'[c] # keyOf'[r]
      BY <1>2, <3>2, <3>3
    <3> QED
      BY <3>1, <3>4
  <2> QED
    BY <1>1, <2>1 DEF Same
<1> QED
  BY <1>2, <1>3, <1>4, <1>5, <1>6 DEF ReadInv

-----------------------------------------------------------------------------
(* The client.                                                             *)

(* Locking and unlocking concern no operation that has begun.              *)
LEMMA KeyKeeps ==
  ASSUME IInv, Lock \/ \E k \in Key : Unlock(k)
  PROVE  IInv'
<1>1. Types' /\ UNCHANGED <<applied, keyOf, pc, out, body, first, acked>>
  BY DEF Lock, Unlock, IInv, Types
<1>2. Steady
  BY NextIsSteady DEF Next
<1>3. Begun'
  BY <1>1 DEF IInv, Begun
<1> QED
  BY <1>1, <1>2, <1>3, ChangeKept, ReadKept DEF IInv, Same

(* An operation begins.                                                    *)
LEMMA BeginKeeps ==
  ASSUME IInv, NEW o \in Op, Begin(o)
  PROVE  IInv'
<1> USE DEF IInv, Types, Op
<1>1. /\ UNCHANGED <<applied, cek, body, first>> /\ pc[o] = "idle"
      /\ pc'[o] \in {"flight", "locked"}
      /\ \A p \in Op \ {o} : Same(p)
  BY DEF Begin, Same
<1>2. Steady
  BY NextIsSteady DEF Next
<1>3. Types'
  <2>1. CASE pc' = [pc EXCEPT ![o] = "locked"] /\ UNCHANGED <<keyOf, out, acked>>
    BY <1>1, <2>1
  <2>2. CASE /\ pc' = [pc EXCEPT ![o] = "flight"] /\ out' = [out EXCEPT ![o] = [n \in Node |-> "waiting"]]
             /\ \E k \in IF o \in Bootstraps THEN Key ELSE {cek} : keyOf' = [keyOf EXCEPT ![o] = k]
             /\ acked' \in {acked, [acked EXCEPT ![o] = {c \in Change : pc[c] = "ok"}]}
    <3>1. keyOf' \in [Op -> Key \cup {NoKey}]
      BY <2>2
    <3>2. pc' \in [Op -> {"idle", "flight", "ok", "failed", "locked"}]
      BY <2>2
    <3>3. out' \in [Op -> [Node -> {"none", "waiting", "served", "ok", "404", "err"}]]
      BY <2>2
    <3>4. acked' \in [Read -> SUBSET Change]
      <4> DEFINE done == {c \in Change : pc[c] = "ok"}
      <4>1. done \in SUBSET Change
        OBVIOUS
      <4>2. acked' \in {acked, [acked EXCEPT ![o] = done]}
        BY <2>2
      <4> HIDE DEF done
      <4> QED
        BY <4>1, <4>2
    <3> QED
      BY <1>1, <3>1, <3>2, <3>3, <3>4
  <2> QED
    BY <2>1, <2>2 DEF Begin
<1>4. Begun'
  <2>1. \A n \in Node : \A c \in applied[n] : c \in Op /\ pc[c] # "idle"
    BY DEF Begun
  <2> QED
    BY <1>1, <1>2, <2>1 DEF Begun, Steady
<1>5. /\ \A r \in Read \ {o} : acked'[r] = acked[r]
      /\ o \in Read => acked'[o] = acked[o] \/ acked'[o] = {c \in Change : pc[c] = "ok"}
      /\ \A n \in Node : out'[o][n] \in {out[o][n], "waiting"}
  BY DEF Begin
<1>6. ASSUME o \in Change PROVE ChangeInv(o)'
  BY <1>1, <1>5, <1>6 DEF ChangeInv, Begin
<1>7. ASSUME o \in Read PROVE ReadInv(o)'
  <2>1. ReadInv(o) /\ \A c \in acked'[o] : pc[c] = "ok" /\ c \in Change
    BY <1>5, <1>7 DEF ReadInv
  <2>2. \A c \in acked'[o] : pc'[c] = "ok"
    BY <1>2, <2>1 DEF Steady
  <2>3. /\ \A n \in Node : \A c \in body'[o][n] : pc'[c] # "idle"
        /\ \A c \in first'[o] : pc'[c] # "idle"
    <3>1. /\ \A n \in Node : \A c \in body[o][n] : c \in Op /\ pc[c] # "idle"
          /\ \A c \in first[o] : c \in Op /\ pc[c] # "idle"
      BY <1>7, <2>1 DEF ReadInv
    <3> QED
      BY <1>1, <1>2, <3>1 DEF Steady
  <2>4. o \in Gets => \A n \in Node : out'[o][n] # "ok" /\ body'[o][n] = {}
    BY <1>1, <1>5, <2>1 DEF ReadInv
  <2>5. ASSUME NEW c \in acked'[o], NEW n \in Heard(c)', out'[o][n] \in {"served", "ok"}, o \notin Gets
        PROVE  c \in body'[o][n]
    <3>1. n \in Node /\ out'[o][n] = out[o][n] /\ out' = out /\ acked' = acked
      BY <1>5, <2>5 DEF Heard, Begin
    <3>2. n \in Heard(c)
      BY <2>5, <3>1 DEF Heard
    <3> QED
      BY <1>1, <2>1, <2>5, <3>1, <3>2 DEF ReadInv
  <2> QED
    BY <1>1, <2>2, <2>3, <2>4, <2>5 DEF ReadInv
<1>8. ASSUME NEW c \in Change PROVE ChangeInv(c)'
  BY <1>1, <1>2, <1>6, ChangeKept
<1>9. ASSUME NEW r \in Read PROVE ReadInv(r)'
  BY <1>1, <1>2, <1>5, <1>7, ReadKept
<1> QED
  BY <1>3, <1>4, <1>8, <1>9

(* An answer arrives, or does not.                                         *)
LEMMA ClientKeeps ==
  ASSUME IInv, NEW o \in Op, NEW n \in Node, Client(o, n)
  PROVE  IInv'
<1> USE DEF IInv, Types, Op
<1>1. PICK s \in {"ok", "404", "err"} : pc[o] = "flight" /\ Result(o, n, s)
  BY DEF Client, Confirm, Arrive, Fail, Waits
<1>2. Steady /\ UNCHANGED <<applied, keys, pc, body, acked>>
  BY NextIsSteady DEF Next, Client, Confirm, Arrive, Fail
<1>3. /\ out' \in [Op -> [Node -> {"none", "waiting", "served", "ok", "404", "err"}]]
      /\ out'[o][n] = s /\ (\A m \in Node \ {n} : out'[o][m] = out[o][m])
      /\ \A p \in Op \ {o} : Same(p)
  BY <1>1, <1>2, ResultFacts DEF Same
<1>4. \A r \in Read : first'[r] \in {first[r], body[r][n]} /\ (r # o => first'[r] = first[r])
  BY DEF Client, Confirm, Arrive, Fail
<1>5. Types' /\ Begun'
  <2>1. first' \in [Read -> SUBSET Change]
    BY DEF Client, Confirm, Arrive, Fail
  <2> QED
    BY <1>2, <1>3, <2>1 DEF Begun, keys
<1>6. ASSUME o \in Change PROVE ChangeInv(o)'
  <2>1. o \notin Read /\ (s = "ok" => o \in applied[n]) /\ s # "404"
    <3>1. Confirm(o, n) \/ Fail(o, n)
      BY <1>6, OpsAssumption DEF Client
    <3>2. \/ Result(o, n, "ok") /\ o \in applied[n]
          \/ Result(o, n, "err")
      BY <3>1 DEF Confirm, Fail
    <3>3. \/ out'[o][n] = "ok" /\ o \in applied[n]
          \/ out'[o][n] = "err"
      BY <3>2, ResultFacts
    <3> QED
      BY <1>3, <1>6, <3>3, OpsAssumption
  <2> QED
    BY <1>1, <1>2, <1>3, <1>6, <2>1 DEF ChangeInv
<1>7. ASSUME o \in Read PROVE ReadInv(o)'
  <2>1. ReadInv(o) /\ o \notin Change
    BY <1>7, OpsAssumption
  <2>2. (out[o][n] = "served" /\ (o \in Gets => s # "ok")) \/ s = "err"
    <3>1. Arrive(o, n) \/ Fail(o, n)
      BY <2>1 DEF Client
    <3>2. CASE Arrive(o, n)
      <4>1. Result(o, n, IF o \in Gets /\ body[o][n] = {} THEN "404" ELSE "ok") /\ out[o][n] = "served"
        BY <3>2 DEF Arrive
      <4>2. CASE o \in Gets
        <5>1. Result(o, n, "404")
          BY <2>1, <4>1, <4>2 DEF ReadInv
        <5> QED
          BY <1>3, <4>1, <5>1, ResultFacts
      <4> QED
        BY <4>1, <4>2
    <3>3. CASE Fail(o, n)
      <4>1. Result(o, n, "err")
        BY <3>3 DEF Fail
      <4> QED
        BY <1>3, <4>1, ResultFacts
    <3> QED
      BY <3>1, <3>2, <3>3
  <2>3. \A c \in acked[o] : c # o /\ Heard(c)' = Heard(c)
    <3>1. ASSUME NEW c \in acked[o] PROVE c # o /\ out'[c] = out[c]
      BY <1>2, <1>7, <2>1, <3>1 DEF ReadInv, Steady
    <3> QED
      BY <3>1 DEF Heard
  <2>4. \A c \in acked'[o] : /\ pc'[c] = "ok"
                             /\ \A m \in Heard(c)' :
                                  o \notin Gets /\ out'[o][m] \in {"served", "ok"} => c \in body'[o][m]
    <3>1. ASSUME NEW m \in Node, out'[o][m] \in {"served", "ok"} PROVE out[o][m] \in {"served", "ok"}
      BY <1>3, <2>2, <3>1
    <3>2. \A c \in acked[o] : Heard(c) \subseteq Node
      BY DEF Heard
    <3> QED
      BY <1>2, <2>1, <2>3, <3>1, <3>2 DEF ReadInv
  <2>5. /\ \A m \in Node : \A c \in body'[o][m] : pc'[c] # "idle"
        /\ \A c \in first'[o] : pc'[c] # "idle"
        /\ o \in Gets => \A m \in Node : out'[o][m] # "ok" /\ body'[o][m] = {}
    <3>1. o \in Gets => \A m \in Node : out'[o][m] # "ok"
      BY <1>3, <2>1, <2>2 DEF ReadInv
    <3> QED
      BY <1>2, <1>4, <1>7, <2>1, <3>1 DEF ReadInv
  <2> QED
    BY <1>1, <1>2, <2>4, <2>5 DEF ReadInv
<1>8. ASSUME NEW c \in Change PROVE ChangeInv(c)'
  BY <1>2, <1>3, <1>6, ChangeKept
<1>9. ASSUME NEW r \in Read PROVE ReadInv(r)'
  BY <1>2, <1>3, <1>4, <1>7, ReadKept
<1> QED
  BY <1>5, <1>8, <1>9

(* The client has what it waits for, or all it will get.                   *)
LEMMA ReturnKeeps ==
  ASSUME IInv, NEW o \in Op, Return(o)
  PROVE  IInv'
<1> USE DEF IInv, Types, Op
<1>1. Steady /\ UNCHANGED <<applied, keyOf, first, acked>> /\ pc[o] = "flight" /\ pc'[o] \in {"ok", "failed"}
  <2>1. Steady
    BY NextIsSteady DEF Next
  <2>2. UNCHANGED <<applied, keyOf, first, acked>>
    BY DEF Return, ReturnChange, ReturnRead, keys
  <2>3. pc[o] = "flight" /\ pc'[o] \in {"ok", "failed"}
    BY DEF Return, ReturnChange, ReturnRead
  <2> QED
    BY <2>1, <2>2, <2>3
<1>2. \A p \in Op \ {o} : Same(p)
  BY DEF Return, ReturnChange, ReturnRead, Same
<1>3. /\ pc' \in [Op -> {"idle", "flight", "ok", "failed", "locked"}]
      /\ cek' \in Key \cup {NoKey}
      /\ out' \in [Op -> [Node -> {"none", "waiting", "served", "ok", "404", "err"}]]
  <2>1. CASE o \in Change /\ ReturnChange(o)
    BY <2>1 DEF ReturnChange
  <2>2. CASE o \in Read /\ ReturnRead(o)
    <3>1. pc' \in [Op -> {"idle", "flight", "ok", "failed", "locked"}]
      BY <2>2 DEF ReturnRead
    <3>2. cek' = cek
      BY <2>2 DEF ReturnRead, keys
    <3>3. out' \in [Op -> [Node -> {"none", "waiting", "served", "ok", "404", "err"}]]
      BY <2>2 DEF ReturnRead
    <3> QED
      BY <3>1, <3>2, <3>3
  <2> QED
    BY <2>1, <2>2 DEF Return
<1>4. body' \in [Read -> [Node -> SUBSET Change]]
  <2>1. CASE o \in Change /\ ReturnChange(o)
    BY <2>1 DEF ReturnChange
  <2>2. CASE o \in Read /\ ReturnRead(o)
    <3> DEFINE kept == [n \in Node |-> IF out[o][n] = "ok" THEN body[o][n] ELSE {}]
    <3>1. kept \in [Node -> SUBSET Change]
      BY <2>2
    <3>2. body' = [body EXCEPT ![o] = kept]
      BY <2>2 DEF ReturnRead
    <3> HIDE DEF kept
    <3> QED
      BY <3>1, <3>2
  <2> QED
    BY <2>1, <2>2 DEF Return
<1>5. Begun'
  <2>1. \A n \in Node : \A c \in applied[n] : c \in Op /\ pc[c] # "idle"
    BY DEF Begun
  <2> QED
    BY <1>1, <2>1 DEF Begun, Steady
<1>6. ASSUME o \in Change PROVE ChangeInv(o)'
  <2>1. ReturnChange(o)
    BY <1>6, OpsAssumption DEF Return
  <2>2. out' = out /\ Heard(o)' = Heard(o) /\ (pc'[o] = "ok" => Enough(o))
    BY <2>1 DEF ReturnChange, Heard
  <2>3. \A n \in Node : out[o][n] \in {"ok", "err"}
    <3>1. \A n \in Node : out[o][n] \in {"ok", "404", "err"}
      BY <2>1 DEF ReturnChange, AllBack, Heard, Lost
    <3> QED
      BY <1>6, <3>1 DEF ChangeInv
  <2> QED
    BY <1>1, <1>6, <2>2, <2>3 DEF ChangeInv, Enough
<1>7. ASSUME o \in Read PROVE ReadInv(o)'
  <2>1. ReturnRead(o) /\ ReadInv(o) /\ o \notin Change
    BY <1>7, OpsAssumption DEF Return
  <2>2. \A n \in Node : /\ out'[o][n] = "ok" <=> out[o][n] = "ok"
                        /\ out'[o][n] # "served"
                        /\ out[o][n] = "ok" => body'[o][n] = body[o][n]
                        /\ body'[o][n] \subseteq body[o][n]
    BY <1>7, <2>1 DEF ReturnRead
  <2>3. Heard(o)' = Heard(o) /\ (Enough(o)' <=> Enough(o))
    BY <2>2 DEF Heard, Enough
  <2>4. /\ \A n \in Node : \A c \in body'[o][n] : pc'[c] # "idle"
        /\ \A c \in first'[o] : pc'[c] # "idle" /\ keyOf'[c] = keyOf[c]
    <3>1. /\ \A n \in Node : \A c \in body'[o][n] : c \in Op /\ pc[c] # "idle"
          /\ \A c \in first[o] : c \in Op /\ pc[c] # "idle"
      BY <1>7, <2>1, <2>2 DEF ReadInv
    <3> QED
      BY <1>1, <3>1 DEF Steady
  <2>5. o \in Gets => \A n \in Node : out'[o][n] # "ok" /\ body'[o][n] = {}
    BY <2>1, <2>2 DEF ReadInv
  <2>6. ASSUME NEW c \in acked'[o]
        PROVE  /\ pc'[c] = "ok"
               /\ \A n \in Heard(c)' : o \notin Gets /\ out'[o][n] \in {"served", "ok"} => c \in body'[o][n]
    <3>1. pc[c] = "ok" /\ pc'[c] = "ok" /\ out'[c] = out[c]
      BY <1>1, <1>7, <2>1, <2>6 DEF ReadInv, Steady
    <3>2. Heard(c)' = Heard(c) /\ Heard(c) \subseteq Node
      BY <3>1 DEF Heard
    <3> QED
      BY <1>1, <2>1, <2>2, <2>6, <3>1, <3>2 DEF ReadInv
  <2>7. ASSUME pc'[o] = "failed", Enough(o)
        PROVE  o \in Lists /\ \E c \in first[o] \cap Sets : keyOf[c] # keyOf[o]
    <3>1. ~Opens(o)
      BY <2>1, <2>7 DEF ReturnRead
    <3>2. o \notin Gets
      <4>1. SUFFICES ASSUME o \in Gets PROVE FALSE
        OBVIOUS
      <4>2. Heard(o) = {}
        BY <2>1, <4>1 DEF ReadInv, Heard
      <4>3. Cardinality(Heard(o)) = 0
        BY <4>2, FS_EmptySet
      <4>4. Threshold \in Nat /\ Threshold > 0
        BY NodesAssumption, ThresholdAssumption, FS_CardinalityType
      <4> QED
        BY <2>7, <4>3, <4>4 DEF Enough
    <3> QED
      BY <3>1, <3>2 DEF Opens
  <2>8. pc'[o] = "ok" => Enough(o)
    BY <2>1 DEF ReturnRead
  <2>9. pc'[o] = "failed" => \/ ~Enough(o)'
                             \/ o \in Lists /\ \E c \in first'[o] \cap Sets : keyOf'[c] # keyOf'[o]
    BY <1>1, <2>3, <2>7
  <2> QED
    BY <2>3, <2>4, <2>5, <2>6, <2>8, <2>9 DEF ReadInv
<1>8. \A r \in Read \ {o} : body'[r] = body[r]
  BY DEF Return, ReturnChange, ReturnRead
<1>9. ASSUME NEW c \in Change PROVE ChangeInv(c)'
  BY <1>1, <1>2, <1>6, ChangeKept
<1>10. ASSUME NEW r \in Read PROVE ReadInv(r)'
  BY <1>1, <1>2, <1>7, <1>8, ReadKept
<1> QED
  BY <1>1, <1>3, <1>4, <1>5, <1>9, <1>10

-----------------------------------------------------------------------------
(* The nodes.                                                              *)

(* Nodes apply what they are sent or told.                                 *)
LEMMA ApplyKeeps ==
  ASSUME IInv, (\E c \in Change, n \in Node : Apply(c, n)) \/ \E m, n \in Node : Gossip(m, n)
  PROVE  IInv'
<1>1. UNCHANGED <<keys, pc, out, body, first, acked>> /\ Steady
  <2>1. Steady
    BY NextIsSteady DEF Next
  <2>2. UNCHANGED <<keys, pc, out, body, first, acked>>
    BY DEF Apply, Gossip
  <2> QED
    BY <2>1, <2>2
<1>2. Types'
  <2>1. applied' \in [Node -> SUBSET Change]
    <3>1. ASSUME NEW c \in Change, NEW n \in Node, Apply(c, n) PROVE applied' \in [Node -> SUBSET Change]
      BY <3>1 DEF Apply, IInv, Types
    <3>2. ASSUME NEW m \in Node, NEW n \in Node, Gossip(m, n) PROVE applied' \in [Node -> SUBSET Change]
      BY <3>2 DEF Gossip, IInv, Types
    <3> QED
      BY <3>1, <3>2
  <2> QED
    BY <1>1, <2>1 DEF IInv, Types, keys
<1>3. Begun'
  <2>1. CASE \E c \in Change, n \in Node : Apply(c, n)
    <3>1. PICK c \in Change, n \in Node : Apply(c, n)
      BY <2>1
    <3>2. pc[c] # "idle"
      BY <3>1 DEF Apply, IInv, ChangeInv
    <3> QED
      BY <3>1, <3>2 DEF Apply, IInv, Types, Begun
  <2>2. CASE \E m, n \in Node : Gossip(m, n)
    BY <2>2 DEF Gossip, IInv, Types, Begun
  <2> QED
    BY <2>1, <2>2
<1> QED
  BY <1>1, <1>2, <1>3, ChangeKept, ReadKept DEF IInv, Same

(* A node answers a read with what it has; under the name a Get asks for   *)
(* it has nothing.                                                         *)
LEMMA ServeKeeps ==
  ASSUME IInv, NEW r \in Read, NEW n \in Node, Serve(r, n)
  PROVE  IInv'
<1> USE DEF IInv, Types, Op
<1>1. /\ UNCHANGED <<applied, keys, pc, first, acked>> /\ Steady /\ pc[r] = "flight"
      /\ r \notin Change
  BY NextIsSteady, OpsAssumption DEF Serve, Next
<1>2. /\ out' \in [Op -> [Node -> {"none", "waiting", "served", "ok", "404", "err"}]]
      /\ out'[r][n] = "served" /\ (\A m \in Node \ {n} : out'[r][m] = out[r][m])
      /\ \A p \in Op \ {r} : Same(p)
  BY <1>1, ResultFacts DEF Serve, Same
<1>3. Answer(r, n) \subseteq applied[n] /\ (r \notin Gets => Answer(r, n) = applied[n])
  BY DEF Answer
<1>4. r \in Gets => Answer(r, n) = {}
  <2>1. \A c \in Sets : Seal(c) # Seal(r)
    BY <1>1, OpsAssumption DEF Seal
  <2> QED
    BY <2>1 DEF Answer
<1>5. /\ body' \in [Read -> [Node -> SUBSET Change]]
      /\ body'[r][n] = Answer(r, n) /\ (\A m \in Node \ {n} : body'[r][m] = body[r][m])
      /\ \A q \in Read \ {r} : body'[q] = body[q]
  BY <1>3 DEF Serve
<1>6. Types' /\ Begun'
  BY <1>1, <1>2, <1>5 DEF Begun, keys
<1>7. ReadInv(r)'
  <2>1. ReadInv(r)
    OBVIOUS
  <2>2. \A m \in Node : \A c \in body'[r][m] : pc'[c] # "idle"
    <3>1. \A c \in Answer(r, n) : pc[c] # "idle"
      BY <1>3 DEF Begun
    <3>2. \A m \in Node : \A c \in body[r][m] : pc[c] # "idle"
      BY <2>1 DEF ReadInv
    <3> QED
      BY <1>1, <1>5, <3>1, <3>2
  <2>3. r \in Gets => \A m \in Node : out'[r][m] # "ok" /\ body'[r][m] = {}
    BY <1>2, <1>4, <1>5, <2>1 DEF ReadInv
  <2>4. ASSUME NEW c \in acked[r]
        PROVE  /\ pc'[c] = "ok"
               /\ \A m \in Heard(c)' : r \notin Gets /\ out'[r][m] \in {"served", "ok"} => c \in body'[r][m]
    <3>1. pc[c] = "ok" /\ pc'[c] = "ok" /\ out'[c] = out[c] /\ c \in Change
      <4>1. pc[c] = "ok" /\ c \in Change
        BY <2>1, <2>4 DEF ReadInv
      <4> QED
        BY <1>1, <4>1 DEF Steady
    <3>2. Heard(c)' = Heard(c) /\ Heard(c) \subseteq Node
      BY <3>1 DEF Heard
    <3>3. \A m \in Heard(c) : c \in applied[m]
      BY <3>1 DEF Heard, ChangeInv
    <3>4. ASSUME NEW m \in Heard(c), r \notin Gets, out'[r][m] \in {"served", "ok"} PROVE c \in body'[r][m]
      <4>1. CASE m = n
        BY <1>3, <1>5, <3>3, <3>4, <4>1
      <4>2. CASE m # n
        <5>1. m \in Node /\ out[r][m] \in {"served", "ok"} /\ body'[r][m] = body[r][m]
          BY <1>2, <1>5, <3>2, <3>4, <4>2
        <5> QED
          BY <2>1, <2>4, <3>4, <5>1 DEF ReadInv
      <4> QED
        BY <4>1, <4>2
    <3> QED
      BY <3>1, <3>2, <3>4
  <2> QED
    BY <1>1, <2>1, <2>2, <2>3, <2>4 DEF ReadInv
<1>8. ASSUME NEW c \in Change PROVE ChangeInv(c)'
  BY <1>1, <1>2, ChangeKept
<1>9. ASSUME NEW q \in Read PROVE ReadInv(q)'
  BY <1>1, <1>2, <1>5, <1>7, ReadKept
<1> QED
  BY <1>6, <1>8, <1>9

-----------------------------------------------------------------------------
(* The results.                                                            *)

(* Every step preserves the inductive invariant.                           *)
THEOREM NextIInv == IInv /\ [Next]_vars => IInv'
<1> SUFFICES ASSUME IInv, [Next]_vars PROVE IInv'
  OBVIOUS
<1>1. CASE UNCHANGED vars
  <2>1. UNCHANGED <<applied, cek, keyOf, pc, out, body, first, acked>>
    BY <1>1 DEF vars, keys
  <2>2. Steady /\ (\A o \in Op : Same(o)) /\ Types' /\ Begun'
    BY <2>1 DEF Steady, Same, IInv, Types, Begun
  <2> QED
    BY <2>1, <2>2, ChangeKept, ReadKept DEF IInv, Op
<1> QED
  BY <1>1, KeyKeeps, BeginKeeps, ClientKeeps, ReturnKeeps, ApplyKeeps, ServeKeeps DEF Next

(* The inductive invariant holds in every behaviour.                       *)
THEOREM InductiveInvariant == Spec => []IInv
  BY InitIInv, NextIInv, PTL DEF Spec

(* Every variable keeps its type, nothing is applied that was not begun,   *)
(* and a change that has returned has no request out.                      *)
THEOREM TypeCorrect == Spec => []TypeOK
<1>1. IInv => TypeOK
  BY DEF IInv, Types, Begun, ChangeInv, TypeOK, Op
<1> QED
  BY <1>1, InductiveInvariant, PTL

(* What was acknowledged is on a threshold of the nodes; and if that is a  *)
(* majority, one of the answers of a later read that succeeds comes from a *)
(* node that knew it.                                                      *)
THEOREM QuorumsMeet == Spec => []AckedIsOnAQuorum
<1>1. ASSUME IInv, NEW c \in Change, pc[c] = "ok" PROVE Cardinality(Having(c)) >= Threshold
  <2>1. Heard(c) \subseteq Having(c) /\ Having(c) \subseteq Node /\ Cardinality(Heard(c)) >= Threshold
    BY <1>1 DEF IInv, ChangeInv, Enough, Heard, Having
  <2>2. IsFiniteSet(Having(c)) /\ IsFiniteSet(Heard(c))
    BY <2>1, NodesAssumption, FS_Subset
  <2>3. Cardinality(Heard(c)) <= Cardinality(Having(c))
    BY <2>1, <2>2, FS_Subset
  <2> QED
    BY <2>1, <2>2, <2>3, FS_CardinalityType, NodesAssumption, ThresholdAssumption
<1>2. ASSUME IInv, 2 * Threshold > Cardinality(Node), NEW r \in Read, pc[r] = "ok", NEW c \in acked[r]
      PROVE  \E n \in Heard(r) : c \in body[r][n]
  <2>1. ReadInv(r) /\ Enough(r) /\ pc[c] = "ok" /\ c \in Change /\ Enough(c)
    BY <1>2 DEF IInv, Types, ReadInv, ChangeInv
  <2>2. Heard(c) \subseteq Node /\ Heard(r) \subseteq Node
    BY DEF Heard
  <2>3. /\ Cardinality(Node) \in Nat /\ Threshold \in Nat
        /\ Cardinality(Heard(c)) \in Nat /\ Cardinality(Heard(r)) \in Nat
    BY <2>2, NodesAssumption, ThresholdAssumption, FS_CardinalityType, FS_Subset
  <2>4. Cardinality(Heard(c)) + Cardinality(Heard(r)) > Cardinality(Node)
    BY <1>2, <2>1, <2>3 DEF Enough
  <2>5. PICK n \in Node : n \in Heard(c) /\ n \in Heard(r)
    <3>1. Heard(c) \cap Heard(r) # {}
      BY <2>2, <2>4, NodesAssumption, FS_MajoritiesIntersect
    <3> QED
      BY <2>2, <3>1
  <2>6. out[r][n] = "ok" /\ r \notin Gets
    BY <2>1, <2>5 DEF Heard, ReadInv
  <2> QED
    BY <2>1, <2>5, <2>6 DEF ReadInv
<1>3. IInv => AckedIsOnAQuorum
  BY <1>1, <1>2 DEF AckedIsOnAQuorum
<1> QED
  BY <1>3, InductiveInvariant, PTL

(* A read that fails has heard too few nodes, or lists a blob under        *)
(* another key than its own.                                               *)
THEOREM ReadsFailForCause == Spec => []ReadFailsForCause
<1>1. IInv => ReadFailsForCause
  <2>1. SUFFICES ASSUME IInv, NEW r \in Read, pc[r] = "failed", ~(Cardinality(Heard(r)) < Threshold)
        PROVE  r \in Lists /\ \E c \in first[r] \cap Sets : keyOf[c] # keyOf[r]
    BY DEF ReadFailsForCause
  <2>2. Cardinality(Heard(r)) \in Nat /\ Threshold \in Nat
    <3>1. Heard(r) \subseteq Node
      BY DEF Heard
    <3> QED
      BY <3>1, NodesAssumption, ThresholdAssumption, FS_CardinalityType, FS_Subset
  <2>3. Enough(r)
    BY <2>1, <2>2 DEF Enough
  <2> QED
    BY <2>1, <2>3 DEF IInv, ReadInv
<1> QED
  BY <1>1, InductiveInvariant, PTL
=============================================================================
