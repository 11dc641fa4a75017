---------------------------- MODULE AuditProofs ----------------------------
(***************************************************************************)
(* Proofs about Auditor and Audited, for any number of requests, any       *)
(* capacity of the channel and any number of kills: types, that no entry   *)
(* is lost unseen and the trail is in the order of the calls to record,    *)
(* that sync waits for what was accepted before it, and that the trail is  *)
(* in the order in which a client saw its answers.                         *)
(***************************************************************************)
EXTENDS Audited, SequenceTheorems, FiniteSetTheorems, TLAPS

(* What appending and taking the head do to the elements of a sequence. *)
LEMMA ToSetAppend ==
  ASSUME NEW S, NEW s \in Seq(S), NEW x \in S
  PROVE  ToSet(Append(s, x)) = ToSet(s) \cup {x}
<1>1. Append(s, x) \in Seq(S) /\ Len(Append(s, x)) = Len(s) + 1 /\ Len(s) \in Nat
  OBVIOUS
<1>2. DOMAIN s = 1 .. Len(s) /\ DOMAIN Append(s, x) = 1 .. Len(s) + 1
  BY <1>1
<1>3. \A i \in 1 .. Len(s) : Append(s, x)[i] = s[i]
  OBVIOUS
<1>4. Append(s, x)[Len(s) + 1] = x
  OBVIOUS
<1>. QED
  BY <1>1, <1>2, <1>3, <1>4 DEF ToSet

LEMMA ToSetTail ==
  ASSUME NEW S, NEW s \in Seq(S), s # <<>>
  PROVE  /\ ToSet(s) = ToSet(Tail(s)) \cup {Head(s)} /\ Head(s) \in S /\ Tail(s) \in Seq(S)
         /\ Len(Tail(s)) = Len(s) - 1 /\ Len(s) \in Nat
         /\ \A i \in 1 .. Len(s) - 1 : Tail(s)[i] = s[i + 1]
         /\ Head(s) = s[1] /\ 1 \in DOMAIN s
<1>1. /\ Tail(s) \in Seq(S) /\ Len(Tail(s)) = Len(s) - 1 /\ Len(s) \in Nat /\ Len(s) > 0
      /\ Head(s) = s[1] /\ Head(s) \in S
      /\ \A i \in 1 .. Len(s) - 1 : Tail(s)[i] = s[i + 1]
  OBVIOUS
<1>2. DOMAIN s = 1 .. Len(s) /\ DOMAIN Tail(s) = 1 .. Len(s) - 1
  BY <1>1
<1>3. ASSUME NEW i \in DOMAIN s PROVE s[i] \in ToSet(Tail(s)) \cup {Head(s)}
  <2>1. CASE i = 1
    BY <1>1, <2>1
  <2>2. CASE i # 1
    <3>1. i - 1 \in 1 .. Len(s) - 1 /\ Tail(s)[i - 1] = s[i]
      BY <1>1, <1>2, <2>2
    <3>. QED
      BY <1>2, <3>1 DEF ToSet
  <2>. QED
    BY <2>1, <2>2
<1>4. ASSUME NEW i \in DOMAIN Tail(s) PROVE Tail(s)[i] \in ToSet(s)
  BY <1>1, <1>2 DEF ToSet
<1>5. Head(s) \in ToSet(s)
  BY <1>1, <1>2 DEF ToSet
<1>6. ToSet(s) = ToSet(Tail(s)) \cup {Head(s)}
  BY <1>3, <1>4, <1>5 DEF ToSet
<1>. QED
  BY <1>1, <1>2, <1>6

-----------------------------------------------------------------------------
(* Types.                                                                  *)

(* The types of the trail, for a server that may also be killed.           *)
Typed ==
  /\ ch \in Seq(Entries) /\ Len(ch) <= Cap
  /\ writer \in {"none", "prepare", "select", "insert", "count", "exited", "disabled"}
  /\ entry \in Req \cup {Nil} /\ cancelled \in BOOLEAN
  /\ rows \in Seq(Req) /\ written \in Nat /\ dropped \in Nat
  /\ caller \in [Entries -> {"idle", "recorded", "waiting", "acked", "killed"}]
  /\ accepted \in Seq(Req) /\ failed \subseteq Req /\ ahead \in [Syncer -> SUBSET Req]
  /\ writer \in {"insert", "count"} => entry \in Req

LEMMA RecordTypes ==
  ASSUME Typed, NEW r \in Req, Record(r)
  PROVE  Typed'
<1>1. r \in Entries /\ Len(ch) \in Nat
  BY DEF Entries, Typed
<1>2. caller' \in [Entries -> {"idle", "recorded", "waiting", "acked", "killed"}]
  BY DEF Typed, Record
<1>3. CASE ~Full /\ ch' = Append(ch, r) /\ accepted' = Append(accepted, r) /\ UNCHANGED dropped
  <2>1. ch \in Seq(Entries) /\ accepted \in Seq(Req) /\ Len(ch) < Cap
    BY <1>1, <1>3, CapAssumption DEF Typed, Full
  <2>2. ch' \in Seq(Entries) /\ accepted' \in Seq(Req)
    BY <1>1, <1>3, <2>1
  <2>3. Len(ch') <= Cap
    BY <1>1, <1>3, <2>1, CapAssumption
  <2>. QED
    BY <1>2, <1>3, <2>2, <2>3 DEF Typed, Record
<1>4. CASE dropped' = dropped + 1 /\ UNCHANGED <<ch, accepted>>
  BY <1>2, <1>4 DEF Typed, Record
<1>5. CASE UNCHANGED <<ch, accepted, dropped>>
  BY <1>2, <1>5 DEF Typed, Record
<1>. QED
  BY <1>3, <1>4, <1>5 DEF Record

LEMMA WriterTypes ==
  ASSUME Typed, Writer
  PROVE  Typed'
<1>1. CASE Prepare
  BY <1>1 DEF Typed, Prepare
<1>2. CASE Leave
  BY <1>2 DEF Typed, Leave
<1>3. CASE Receive
  <2>1. /\ Tail(ch) \in Seq(Entries) /\ Len(Tail(ch)) = Len(ch) - 1 /\ Len(ch) \in Nat
        /\ Head(ch) \in Entries
    BY <1>3, ToSetTail DEF Typed, Receive
  <2>2. Len(ch') <= Cap
    BY <1>3, <2>1, CapAssumption DEF Typed, Receive
  <2>3. caller' \in [Entries -> {"idle", "recorded", "waiting", "acked", "killed"}]
    BY <1>3 DEF Typed, Receive
  <2>. QED
    BY <1>3, <2>1, <2>2, <2>3 DEF Typed, Receive
<1>4. CASE Insert
  <2>1. rows \in Seq(Req) /\ failed \subseteq Req /\ entry \in Req
    BY <1>4 DEF Typed, Insert
  <2>2. Append(rows, entry) \in Seq(Req) /\ failed \cup {entry} \subseteq Req
    BY <2>1
  <2>. QED
    BY <1>4, <2>1, <2>2 DEF Typed, Insert
<1>5. CASE Count
  BY <1>5 DEF Typed, Count
<1>. QED
  BY <1>1, <1>2, <1>3, <1>4, <1>5 DEF Writer

-----------------------------------------------------------------------------
(* The order of the trail.                                                 *)

(* What the writer still has to insert, and what it has tried to.          *)
ToInsert == IF writer = "insert" THEN {entry} ELSE {}
Settled  == ToSet(rows) \cup failed

(* Entries leave the channel in the order in which they were accepted, and *)
(* each is accepted once.                                                  *)
AcceptedOnce == \A i, j \in DOMAIN accepted : accepted[i] = accepted[j] => i = j

AcceptedIsRecorded == \A x \in ToSet(accepted) : caller[x] = "recorded"

NothingFromNowhere == Settled \cup ToInsert \cup Queued \subseteq ToSet(accepted)

SettledFirst == /\ \A x \in Settled, y \in ToInsert \cup Queued : AcceptedBefore(x, y)
                /\ \A x \in ToInsert, y \in Queued : AcceptedBefore(x, y)

QueueInOrder ==
  \A i, j \in DOMAIN ch :
    i < j /\ ch[i] \in Req /\ ch[j] \in Req => AcceptedBefore(ch[i], ch[j])

RowsInOrder == \A i, j \in DOMAIN rows : i < j => AcceptedBefore(rows[i], rows[j])

Ordered == /\ AcceptedOnce /\ AcceptedIsRecorded /\ NothingFromNowhere
           /\ SettledFirst /\ QueueInOrder /\ RowsInOrder

(* Appending to what was accepted changes nothing of its order, and what   *)
(* is appended comes last.                                                 *)
LEMMA BeforeGrows ==
  ASSUME NEW r \in Req, accepted \in Seq(Req), accepted' = Append(accepted, r)
  PROVE  /\ \A x, y \in Req : AcceptedBefore(x, y) => AcceptedBefore(x, y)'
         /\ \A x \in ToSet(accepted) : AcceptedBefore(x, r)'
         /\ ToSet(accepted') = ToSet(accepted) \cup {r}
         /\ r \notin ToSet(accepted) /\ AcceptedOnce => AcceptedOnce'
<1>1. /\ Len(accepted) \in Nat /\ DOMAIN accepted = 1 .. Len(accepted)
      /\ DOMAIN accepted' = 1 .. Len(accepted) + 1
      /\ \A i \in 1 .. Len(accepted) : accepted'[i] = accepted[i]
      /\ accepted'[Len(accepted) + 1] = r
  OBVIOUS
<1>2. ASSUME NEW x \in Req, NEW y \in Req, AcceptedBefore(x, y) PROVE AcceptedBefore(x, y)'
  <2>1. PICK i \in DOMAIN accepted, j \in DOMAIN accepted :
          i < j /\ accepted[i] = x /\ accepted[j] = y
    BY <1>2 DEF AcceptedBefore
  <2>2. /\ i \in DOMAIN accepted' /\ j \in DOMAIN accepted'
        /\ i < j /\ accepted'[i] = x /\ accepted'[j] = y
    BY <1>1, <2>1
  <2>. QED
    BY <2>2 DEF AcceptedBefore
<1>3. ASSUME NEW x \in ToSet(accepted) PROVE AcceptedBefore(x, r)'
  <2>1. PICK i \in DOMAIN accepted : accepted[i] = x
    BY DEF ToSet
  <2>2. /\ i \in DOMAIN accepted' /\ Len(accepted) + 1 \in DOMAIN accepted'
        /\ i < Len(accepted) + 1 /\ accepted'[i] = x
    BY <1>1, <2>1
  <2>. QED
    BY <1>1, <2>2 DEF AcceptedBefore
<1>4. ASSUME r \notin ToSet(accepted), AcceptedOnce PROVE AcceptedOnce'
  <2>1. \A i \in 1 .. Len(accepted) : accepted[i] # r
    BY <1>1, <1>4 DEF ToSet
  <2>. QED
    BY <1>1, <1>4, <2>1 DEF AcceptedOnce
<1>. QED
  BY <1>2, <1>3, <1>4, ToSetAppend

LEMMA RecordKeepsOrder ==
  ASSUME Typed, Ordered, NEW r \in Req, Record(r)
  PROVE  Ordered'
<1>1. /\ UNCHANGED <<writer, entry, rows, failed>>
      /\ \A x \in Entries : caller'[x] = IF x = r THEN "recorded" ELSE caller[x]
      /\ r \notin ToSet(accepted) /\ Entries = Req \cup Syncer
  <2>1. caller[r] = "idle"
    BY DEF Record
  <2>. QED
    BY <2>1 DEF Record, Ordered, AcceptedIsRecorded, Typed, Entries
<1>2. Settled' = Settled /\ ToInsert' = ToInsert
  BY <1>1 DEF Settled, ToInsert
<1>3. accepted \in Seq(Req) /\ ch \in Seq(Entries) /\ rows \in Seq(Req) /\ ToSet(accepted) \subseteq Req
  BY DEF Typed, ToSet
<1>4. CASE UNCHANGED <<ch, accepted>>
  <2>1. Queued' = Queued /\ AcceptedOnce' /\ NothingFromNowhere'
    BY <1>2, <1>4 DEF Queued, Ordered, AcceptedOnce, NothingFromNowhere
  <2>2. AcceptedIsRecorded'
    BY <1>1, <1>3, <1>4 DEF Ordered, AcceptedIsRecorded
  <2>3. SettledFirst' /\ QueueInOrder' /\ RowsInOrder'
    BY <1>1, <1>2, <1>4, <2>1 DEF Ordered, SettledFirst, QueueInOrder, RowsInOrder, AcceptedBefore
  <2>. QED
    BY <2>1, <2>2, <2>3 DEF Ordered
<1>5. CASE ch' = Append(ch, r) /\ accepted' = Append(accepted, r)
  <2>1. /\ \A x, y \in Req : AcceptedBefore(x, y) => AcceptedBefore(x, y)'
        /\ \A x \in ToSet(accepted) : AcceptedBefore(x, r)'
        /\ ToSet(accepted') = ToSet(accepted) \cup {r}
        /\ AcceptedOnce'
    BY <1>1, <1>3, <1>5, BeforeGrows DEF Ordered
  <2>2. Queued' = Queued \cup {r}
    <3>1. r \in Entries /\ ToSet(ch') = ToSet(ch) \cup {r}
      BY <1>1, <1>3, <1>5, ToSetAppend
    <3>. QED
      BY <3>1 DEF Queued
  <2>3. NothingFromNowhere'
    BY <1>2, <2>1, <2>2 DEF Ordered, NothingFromNowhere
  <2>4. AcceptedIsRecorded'
    BY <1>1, <1>3, <2>1 DEF Ordered, AcceptedIsRecorded
  <2>5. Settled \cup ToInsert \cup Queued \subseteq ToSet(accepted)
    BY DEF Ordered, NothingFromNowhere
  <2>6. SettledFirst'
    <3>1. ASSUME NEW x \in Settled, NEW y \in ToInsert \cup Queued \cup {r}
          PROVE  AcceptedBefore(x, y)'
      BY <1>3, <2>1, <2>5 DEF Ordered, SettledFirst
    <3>2. ASSUME NEW x \in ToInsert, NEW y \in Queued \cup {r}
          PROVE  AcceptedBefore(x, y)'
      BY <1>3, <2>1, <2>5 DEF Ordered, SettledFirst
    <3>. QED
      BY <1>2, <2>2, <3>1, <3>2 DEF SettledFirst
  <2>7. QueueInOrder'
    <3>1. /\ Len(ch) \in Nat /\ DOMAIN ch = 1 .. Len(ch) /\ DOMAIN ch' = 1 .. Len(ch) + 1
          /\ \A i \in 1 .. Len(ch) : ch'[i] = ch[i]
          /\ ch'[Len(ch) + 1] = r
      BY <1>1, <1>3, <1>5
    <3>2. ASSUME NEW i \in DOMAIN ch', NEW j \in DOMAIN ch', i < j, ch'[i] \in Req, ch'[j] \in Req
          PROVE  AcceptedBefore(ch[i], ch[j])'
      <4>1. PICK x \in Req, y \in Req : x = ch'[i] /\ y = ch'[j]
        BY <3>2
      <4>2. i \in 1 .. Len(ch) /\ ch[i] = x
        BY <3>1, <3>2, <4>1
      <4>3. CASE j \in 1 .. Len(ch)
        <5>1. AcceptedBefore(x, y)
          BY <3>1, <3>2, <4>1, <4>2, <4>3 DEF Ordered, QueueInOrder
        <5>2. AcceptedBefore(x, y)'
          BY <2>1, <5>1
        <5>. QED
          BY <4>1, <5>2 DEF AcceptedBefore
      <4>4. CASE j = Len(ch) + 1
        <5>1. x \in ToSet(accepted) /\ y = r
          BY <2>5, <3>1, <4>1, <4>2, <4>4 DEF Queued, ToSet
        <5>2. AcceptedBefore(x, y)'
          BY <2>1, <5>1
        <5>. QED
          BY <4>1, <5>2 DEF AcceptedBefore
      <4>. QED
        BY <3>1, <4>3, <4>4
    <3>. QED
      BY <3>2 DEF QueueInOrder
  <2>8. RowsInOrder'
    <3>1. ASSUME NEW i \in DOMAIN rows, NEW j \in DOMAIN rows, i < j
          PROVE  AcceptedBefore(rows[i], rows[j])'
      <4>1. PICK x \in Req, y \in Req : x = rows[i] /\ y = rows[j]
        BY <1>3
      <4>2. AcceptedBefore(x, y)'
        BY <2>1, <3>1, <4>1 DEF Ordered, RowsInOrder
      <4>. QED
        BY <1>1, <4>1, <4>2 DEF AcceptedBefore
    <3>. QED
      BY <1>1, <3>1 DEF RowsInOrder
  <2>. QED
    BY <2>1, <2>3, <2>4, <2>6, <2>7, <2>8 DEF Ordered
<1>. QED
  BY <1>4, <1>5 DEF Record

(* A step that moves no entry keeps the order.                             *)
LEMMA OrderStays ==
  ASSUME Ordered, UNCHANGED <<accepted, rows, failed, ch>>, ToInsert' = ToInsert,
         \A x \in ToSet(accepted) : caller'[x] = caller[x]
  PROVE  Ordered'
<1>1. Settled' = Settled /\ Queued' = Queued
  BY DEF Settled, Queued
<1>. QED
  BY <1>1 DEF Ordered, AcceptedOnce, AcceptedIsRecorded, NothingFromNowhere, SettledFirst,
              QueueInOrder, RowsInOrder, AcceptedBefore

LEMMA ReceiveKeepsOrder ==
  ASSUME Typed, Ordered, Receive
  PROVE  Ordered'
<1>1. /\ writer = "select" /\ ch # <<>> /\ ch' = Tail(ch)
      /\ UNCHANGED <<rows, accepted, failed>>
  BY DEF Receive
<1>2. /\ ToSet(ch) = ToSet(ch') \cup {Head(ch)} /\ Head(ch) \in Entries
      /\ Len(ch') = Len(ch) - 1 /\ Len(ch) \in Nat /\ ch' \in Seq(Entries)
      /\ \A i \in 1 .. Len(ch) - 1 : ch'[i] = ch[i + 1]
      /\ Head(ch) = ch[1] /\ 1 \in DOMAIN ch
  BY <1>1, ToSetTail DEF Typed
<1>3. DOMAIN ch = 1 .. Len(ch) /\ DOMAIN ch' = 1 .. Len(ch) - 1
  BY <1>2 DEF Typed
<1>4. Settled' = Settled /\ ToInsert = {} /\ Queued = Queued' \cup ({Head(ch)} \cap Req)
  BY <1>1, <1>2 DEF Settled, ToInsert, Queued
<1>5. ToInsert' = {Head(ch)} \cap Req
  BY <1>1, EntriesAssumption DEF Receive, ToInsert
<1>6. AcceptedOnce' /\ RowsInOrder' /\ NothingFromNowhere'
  BY <1>1, <1>4, <1>5 DEF Ordered, AcceptedOnce, RowsInOrder, NothingFromNowhere, AcceptedBefore
<1>7. AcceptedIsRecorded'
  <2>1. \A x \in ToSet(accepted) : x \in Req
    BY DEF Typed, ToSet
  <2>2. \A x \in Req : caller'[x] = caller[x]
    BY EntriesAssumption DEF Receive, Typed, Entries
  <2>. QED
    BY <1>1, <2>1, <2>2 DEF Ordered, AcceptedIsRecorded
<1>8. ASSUME NEW i \in DOMAIN ch', NEW j \in DOMAIN ch', i < j, ch'[i] \in Req, ch'[j] \in Req
      PROVE  AcceptedBefore(ch[i], ch[j])'
  <2>1. i + 1 \in DOMAIN ch /\ j + 1 \in DOMAIN ch /\ i + 1 < j + 1
    BY <1>2, <1>3, <1>8
  <2>2. ch[i + 1] = ch'[i] /\ ch[j + 1] = ch'[j]
    BY <1>2, <1>3
  <2>3. AcceptedBefore(ch[i + 1], ch[j + 1])
    BY <1>8, <2>1, <2>2 DEF Ordered, QueueInOrder
  <2>. QED
    BY <1>1, <2>2, <2>3 DEF AcceptedBefore
<1>9. ASSUME NEW x \in ToInsert', NEW y \in Queued' PROVE AcceptedBefore(x, y)
  <2>1. x = ch[1] /\ x \in Req /\ y \in Req
    BY <1>2, <1>5 DEF Queued
  <2>2. PICK i \in DOMAIN ch' : ch'[i] = y
    BY DEF Queued, ToSet
  <2>3. i + 1 \in DOMAIN ch /\ 1 < i + 1 /\ ch[i + 1] = y
    BY <1>2, <1>3, <2>2
  <2>. QED
    BY <1>2, <2>1, <2>3 DEF Ordered, QueueInOrder
<1>10. SettledFirst'
  <2>1. \A x \in Settled, y \in ToInsert' \cup Queued' : AcceptedBefore(x, y)
    BY <1>4, <1>5 DEF Ordered, SettledFirst
  <2>. QED
    BY <1>1, <1>4, <1>9, <2>1 DEF SettledFirst, AcceptedBefore
<1>11. QueueInOrder'
  BY <1>8 DEF QueueInOrder
<1>. QED
  BY <1>6, <1>7, <1>10, <1>11 DEF Ordered

LEMMA InsertKeepsOrder ==
  ASSUME Typed, Ordered, Insert
  PROVE  Ordered'
<1>1. /\ writer = "insert" /\ entry \in Req /\ ToInsert = {entry}
      /\ UNCHANGED <<ch, caller, accepted>> /\ rows \in Seq(Req)
      /\ \/ rows' = Append(rows, entry) /\ UNCHANGED failed
         \/ failed' = failed \cup {entry} /\ UNCHANGED rows
  BY DEF Insert, Typed, ToInsert
<1>2. ToInsert' = {} /\ Queued' = Queued
  BY <1>1 DEF Insert, ToInsert, Queued
<1>3. Settled' = Settled \cup {entry}
  <2>1. ToSet(Append(rows, entry)) = ToSet(rows) \cup {entry}
    BY <1>1, ToSetAppend
  <2>. QED
    BY <1>1, <2>1 DEF Settled
<1>4. AcceptedOnce' /\ AcceptedIsRecorded' /\ NothingFromNowhere' /\ QueueInOrder'
  BY <1>1, <1>2, <1>3 DEF Ordered, AcceptedOnce, AcceptedIsRecorded, NothingFromNowhere, QueueInOrder,
                          AcceptedBefore
<1>5. SettledFirst'
  BY <1>1, <1>2, <1>3 DEF Ordered, SettledFirst, AcceptedBefore
<1>6. RowsInOrder'
  <2>1. CASE UNCHANGED rows
    BY <1>1, <2>1 DEF Ordered, RowsInOrder, AcceptedBefore
  <2>2. CASE rows' = Append(rows, entry)
    <3>1. /\ Len(rows) \in Nat /\ DOMAIN rows = 1 .. Len(rows) /\ DOMAIN rows' = 1 .. Len(rows) + 1
          /\ \A i \in 1 .. Len(rows) : rows'[i] = rows[i]
          /\ rows'[Len(rows) + 1] = entry
      BY <1>1, <2>2
    <3>2. \A i \in DOMAIN rows : rows[i] \in Settled
      BY DEF Settled, ToSet
    <3>3. ASSUME NEW i \in DOMAIN rows', NEW j \in DOMAIN rows', i < j
          PROVE  AcceptedBefore(rows[i], rows[j])'
      <4>1. i \in DOMAIN rows /\ rows'[i] = rows[i]
        BY <3>1, <3>3
      <4>2. AcceptedBefore(rows[i], rows'[j])
        <5>1. CASE j \in DOMAIN rows
          BY <3>1, <3>3, <4>1, <5>1 DEF Ordered, RowsInOrder
        <5>2. CASE j = Len(rows) + 1
          BY <1>1, <3>1, <3>2, <4>1, <5>2 DEF Ordered, SettledFirst
        <5>. QED
          BY <3>1, <5>1, <5>2
      <4>. QED
        BY <1>1, <4>1, <4>2 DEF AcceptedBefore
    <3>. QED
      BY <3>3 DEF RowsInOrder
  <2>. QED
    BY <1>1, <2>1, <2>2
<1>. QED
  BY <1>4, <1>5, <1>6 DEF Ordered

(* The writer moves entries, and never past each other.                    *)
LEMMA WriterKeepsOrder ==
  ASSUME Typed, Ordered, Writer
  PROVE  Ordered'
<1>1. CASE Prepare \/ Leave \/ Count
  <2>1. UNCHANGED <<accepted, rows, failed, ch, caller>> /\ ToInsert' = ToInsert
    BY <1>1 DEF Prepare, Leave, Count, ToInsert
  <2>. QED
    BY <2>1, OrderStays
<1>. QED
  BY <1>1, ReceiveKeepsOrder, InsertKeepsOrder DEF Writer

-----------------------------------------------------------------------------
(* Sync.                                                                   *)

(* What a sync in the channel waits for is settled or ahead of it.         *)
SyncQueues ==
  \A i \in DOMAIN ch : ch[i] \in Syncer =>
    /\ caller[ch[i]] = "waiting"
    /\ ahead[ch[i]] \subseteq Settled \cup ToInsert \cup {ch[j] : j \in 1 .. i - 1}

SyncOnce ==
  \A i, j \in DOMAIN ch : ch[i] \in Syncer /\ ch[i] = ch[j] => i = j

SyncInv == SyncQueues /\ SyncOnce /\ SyncWaitsForAllBefore

(* A step that takes nothing back and touches neither the channel nor a    *)
(* sync keeps them waiting.                                                *)
LEMMA SyncStays ==
  ASSUME SyncInv, UNCHANGED <<ch, ahead>>, \A s \in Syncer : caller'[s] = caller[s],
         Settled \subseteq Settled', Settled \cup ToInsert \subseteq Settled' \cup ToInsert'
  PROVE  SyncInv'
<1>1. ASSUME NEW i \in DOMAIN ch, ch[i] \in Syncer
      PROVE  /\ caller'[ch[i]] = "waiting"
             /\ ahead[ch[i]] \subseteq Settled' \cup ToInsert' \cup {ch[j] : j \in 1 .. i - 1}
  BY <1>1 DEF SyncInv, SyncQueues
<1>2. SyncQueues'
  BY <1>1 DEF SyncQueues
<1>3. SyncWaitsForAllBefore' /\ SyncOnce'
  BY DEF SyncInv, SyncWaitsForAllBefore, SyncOnce, Settled
<1>. QED
  BY <1>2, <1>3 DEF SyncInv

(* What is sent to the channel queues behind everything else.              *)
LEMMA SyncAppends ==
  ASSUME Typed, SyncInv, NEW x \in Entries, ch' = Append(ch, x),
         Settled' = Settled, ToInsert' = ToInsert, UNCHANGED <<rows, failed>>,
         \A s \in Syncer \ {x} : caller'[s] = caller[s] /\ ahead'[s] = ahead[s],
         x \in Syncer => /\ caller[x] = "idle" /\ caller'[x] = "waiting"
                         /\ ahead'[x] \subseteq Settled \cup ToInsert \cup Queued
  PROVE  SyncInv'
<1>1. /\ Len(ch) \in Nat /\ DOMAIN ch = 1 .. Len(ch) /\ DOMAIN ch' = 1 .. Len(ch) + 1
      /\ \A i \in 1 .. Len(ch) : ch'[i] = ch[i]
      /\ ch'[Len(ch) + 1] = x
  BY DEF Typed
<1>2. ASSUME NEW i \in DOMAIN ch', ch'[i] \in Syncer
      PROVE  /\ caller'[ch'[i]] = "waiting"
             /\ ahead'[ch'[i]] \subseteq Settled \cup ToInsert \cup {ch'[j] : j \in 1 .. i - 1}
  <2>1. CASE i \in DOMAIN ch
    <3>1. ch'[i] = ch[i] /\ ch[i] \in Syncer /\ caller[ch[i]] = "waiting"
      BY <1>1, <1>2, <2>1 DEF SyncInv, SyncQueues
    <3>2. ch[i] # x
      BY <3>1
    <3>3. ahead[ch[i]] \subseteq Settled \cup ToInsert \cup {ch[j] : j \in 1 .. i - 1}
      BY <3>1, <2>1 DEF SyncInv, SyncQueues
    <3>4. \A j \in 1 .. i - 1 : ch'[j] = ch[j]
      BY <1>1, <2>1
    <3>5. {ch[j] : j \in 1 .. i - 1} = {ch'[j] : j \in 1 .. i - 1}
      BY <3>4
    <3>. QED
      BY <3>1, <3>2, <3>3, <3>5
  <2>2. CASE i = Len(ch) + 1
    <3>1. ch'[i] = x /\ i - 1 = Len(ch)
      BY <1>1, <2>2
    <3>2. Queued \subseteq {ch'[j] : j \in 1 .. Len(ch)}
      BY <1>1 DEF Queued, ToSet
    <3>. QED
      BY <1>2, <3>1, <3>2
  <2>. QED
    BY <1>1, <2>1, <2>2
<1>3. SyncQueues'
  BY <1>2 DEF SyncQueues
<1>4. SyncWaitsForAllBefore'
  <2>1. \A s \in Syncer : caller'[s] = "acked" => caller[s] = "acked" /\ ahead'[s] = ahead[s]
    OBVIOUS
  <2>. QED
    BY <2>1 DEF SyncInv, SyncWaitsForAllBefore
<1>5. SyncOnce'
  <2>1. x \in Syncer => \A i \in 1 .. Len(ch) : ch[i] # x
    BY <1>1 DEF SyncInv, SyncQueues
  <2>. QED
    BY <1>1, <2>1 DEF SyncInv, SyncOnce
<1>. QED
  BY <1>3, <1>4, <1>5 DEF SyncInv

(* The writer acknowledges a sync when it finds nothing ahead of it.       *)
LEMMA ReceiveKeepsSync ==
  ASSUME Typed, SyncInv, Receive
  PROVE  SyncInv'
<1>1. /\ writer = "select" /\ ch # <<>> /\ ch' = Tail(ch)
      /\ UNCHANGED <<rows, failed, ahead>>
  BY DEF Receive
<1>2. /\ Head(ch) \in Entries
      /\ Len(ch') = Len(ch) - 1 /\ Len(ch) \in Nat
      /\ \A i \in 1 .. Len(ch) - 1 : ch'[i] = ch[i + 1]
      /\ Head(ch) = ch[1] /\ 1 \in DOMAIN ch /\ ch' \in Seq(Entries)
  BY <1>1, ToSetTail DEF Typed
<1>3. DOMAIN ch = 1 .. Len(ch) /\ DOMAIN ch' = 1 .. Len(ch) - 1
  BY <1>2 DEF Typed
<1>4. Settled' = Settled /\ ToInsert = {} /\ ToInsert' = {Head(ch)} \cap Req
  BY <1>1, EntriesAssumption DEF Receive, Settled, ToInsert
<1>5. \A s \in Syncer \ {Head(ch)} : caller'[s] = caller[s]
  BY EntriesAssumption DEF Receive, Typed, Entries
<1>6. ASSUME Head(ch) \in Syncer PROVE ahead[Head(ch)] \subseteq ToSet(rows) \cup failed
  <2>1. ahead[ch[1]] \subseteq Settled \cup ToInsert \cup {ch[j] : j \in 1 .. 1 - 1}
    BY <1>2, <1>6 DEF SyncInv, SyncQueues
  <2>2. {ch[j] : j \in 1 .. 1 - 1} = {}
    OBVIOUS
  <2>. QED
    BY <1>2, <1>4, <2>1, <2>2 DEF Settled
<1>7. SyncWaitsForAllBefore'
  BY <1>1, <1>5, <1>6 DEF SyncInv, SyncWaitsForAllBefore
<1>8. \A i \in 1 .. Len(ch) - 1 : ch'[i] \in Syncer => ch'[i] # Head(ch)
  BY <1>2, <1>3 DEF SyncInv, SyncOnce
<1>9. ASSUME NEW i \in DOMAIN ch', ch'[i] \in Syncer
      PROVE  /\ caller'[ch'[i]] = "waiting"
             /\ ahead[ch'[i]] \subseteq Settled \cup ToInsert' \cup {ch'[j] : j \in 1 .. i - 1}
  <2>1. i \in 1 .. Len(ch) - 1 /\ i + 1 \in DOMAIN ch /\ ch[i + 1] = ch'[i] /\ (i + 1) - 1 = i
    BY <1>2, <1>3
  <2>2. /\ caller[ch'[i]] = "waiting"
        /\ ahead[ch'[i]] \subseteq Settled \cup ToInsert \cup {ch[j] : j \in 1 .. i}
    BY <1>9, <2>1 DEF SyncInv, SyncQueues
  <2>3. ASSUME NEW j \in 1 .. i
        PROVE  ch[j] \in {Head(ch)} \cup {ch'[k] : k \in 1 .. i - 1}
    <3>1. CASE j = 1
      BY <1>2, <3>1
    <3>2. CASE j # 1
      <4>1. j - 1 \in 1 .. i - 1 /\ ch'[j - 1] = ch[j]
        BY <1>2, <2>1, <3>2
      <4>. QED
        BY <4>1
    <3>. QED
      BY <3>1, <3>2
  <2>4. ahead[ch'[i]] \subseteq Req
    BY <1>9 DEF Typed
  <2>5. ahead[ch'[i]] \subseteq Settled \cup ToInsert' \cup {ch'[j] : j \in 1 .. i - 1}
    BY <1>4, <2>2, <2>3, <2>4
  <2>. QED
    BY <1>5, <1>8, <1>9, <2>1, <2>2, <2>5
<1>10. SyncQueues'
  BY <1>1, <1>4, <1>9 DEF SyncQueues
<1>11. SyncOnce'
  <2>1. ASSUME NEW i \in DOMAIN ch', NEW j \in DOMAIN ch', ch'[i] \in Syncer, ch'[i] = ch'[j]
        PROVE  i = j
    <3>1. i + 1 \in DOMAIN ch /\ j + 1 \in DOMAIN ch /\ ch[i + 1] = ch'[i] /\ ch[j + 1] = ch'[j]
      BY <1>2, <1>3
    <3>2. i + 1 = j + 1
      BY <2>1, <3>1 DEF SyncInv, SyncOnce
    <3>. QED
      BY <1>3, <3>2
  <2>. QED
    BY <2>1 DEF SyncOnce
<1>. QED
  BY <1>7, <1>10, <1>11 DEF SyncInv

(* The steps of the writer on an entry only settle it.                     *)
LEMMA WriterKeepsSync ==
  ASSUME Typed, SyncInv, Writer
  PROVE  SyncInv'
<1>1. CASE Prepare \/ Leave \/ Count
  <2>1. UNCHANGED <<ch, ahead, caller, rows, failed>> /\ ToInsert' = ToInsert
    BY <1>1 DEF Prepare, Leave, Count, ToInsert
  <2>2. Settled' = Settled
    BY <2>1 DEF Settled
  <2>. QED
    BY <2>1, <2>2, SyncStays
<1>2. CASE Insert
  <2>1. /\ UNCHANGED <<ch, ahead, caller>> /\ ToInsert = {entry} /\ entry \in Req /\ rows \in Seq(Req)
        /\ \/ rows' = Append(rows, entry) /\ UNCHANGED failed
           \/ failed' = failed \cup {entry} /\ UNCHANGED rows
    BY <1>2 DEF Insert, ToInsert, Typed
  <2>2. ToSet(Append(rows, entry)) = ToSet(rows) \cup {entry}
    BY <2>1, ToSetAppend
  <2>3. Settled' = Settled \cup ToInsert
    BY <2>1, <2>2 DEF Settled
  <2>. QED
    BY <2>1, <2>3, SyncStays
<1>. QED
  BY <1>1, <1>2, ReceiveKeepsSync DEF Writer

-----------------------------------------------------------------------------
(* The account.                                                            *)

(* Whatever was recorded is somewhere, and the writer has counted what it  *)
(* has inserted.                                                           *)
Complete == ToSet(accepted) = Settled \cup ToInsert \cup Queued

InsertedIsCounted ==
  /\ Len(rows) = written + (IF writer = "count" THEN 1 ELSE 0)
  /\ writer = "count" => entry \in ToSet(rows)
  /\ entry # Nil => writer \in {"insert", "count"}

Balanced ==
  /\ IsFiniteSet(Recorded) /\ IsFiniteSet(failed) /\ IsFiniteSet(Queued)
  /\ writer # "none" => Cardinality(Recorded) =
       written + dropped + Cardinality(failed) + Cardinality(InHand) + Cardinality(Queued)

Tally == Complete /\ InsertedIsCounted /\ Balanced

(* Nothing is accepted before itself.                                      *)
LEMMA NotBeforeItself ==
  ASSUME AcceptedOnce, accepted \in Seq(Req), NEW x, AcceptedBefore(x, x)
  PROVE  FALSE
<1>1. PICK i \in DOMAIN accepted, j \in DOMAIN accepted : i < j /\ accepted[i] = accepted[j]
  BY DEF AcceptedBefore
<1>. QED
  BY <1>1 DEF AcceptedOnce

(* The hand holds one entry or none. *)
LEMMA HandCounts ==
  /\ entry = Nil => InHand = {} /\ Cardinality(InHand) = 0
  /\ entry # Nil => InHand = {entry} /\ Cardinality(InHand) = 1
<1>1. Cardinality({}) = 0 /\ Cardinality({entry}) = 1
  BY FS_EmptySet, FS_Singleton
<1>. QED
  BY <1>1 DEF InHand

LEMMA RecordKeepsTally ==
  ASSUME Typed, Ordered, Tally, NEW r \in Req, Record(r)
  PROVE  Tally'
<1>1. /\ UNCHANGED <<writer, entry, rows, failed, written>> /\ caller[r] = "idle" /\ r \in Entries
      /\ \A x \in Entries : caller'[x] = IF x = r THEN "recorded" ELSE caller[x]
      /\ \/ ch' = Append(ch, r) /\ accepted' = Append(accepted, r) /\ UNCHANGED dropped
         \/ dropped' = dropped + 1 /\ UNCHANGED <<ch, accepted>>
         \/ writer = "none" /\ UNCHANGED <<ch, accepted, dropped>>
  BY DEF Record, Typed, Entries
<1>2. Settled' = Settled /\ ToInsert' = ToInsert /\ InHand' = InHand /\ InsertedIsCounted'
  BY <1>1 DEF Settled, ToInsert, InHand, Tally, InsertedIsCounted
<1>3. Recorded' = Recorded \cup {r} /\ r \notin Recorded
  BY <1>1 DEF Recorded, Entries
<1>4. IsFiniteSet(Recorded') /\ Cardinality(Recorded') = Cardinality(Recorded) + 1
  BY <1>3, FS_AddElement DEF Tally, Balanced
<1>5. /\ Cardinality(Recorded) \in Nat /\ Cardinality(failed) \in Nat /\ Cardinality(Queued) \in Nat
      /\ Cardinality(InHand) \in Nat /\ written \in Nat /\ dropped \in Nat
  BY FS_CardinalityType, HandCounts DEF Tally, Balanced, Typed
<1>6. CASE ch' = Append(ch, r) /\ accepted' = Append(accepted, r) /\ UNCHANGED dropped
  <2>1. ToSet(ch') = ToSet(ch) \cup {r} /\ ToSet(accepted') = ToSet(accepted) \cup {r}
    BY <1>1, <1>6, ToSetAppend DEF Typed
  <2>2. Queued' = Queued \cup {r}
    BY <2>1 DEF Queued
  <2>3. r \notin Queued
    BY <1>1 DEF Ordered, NothingFromNowhere, AcceptedIsRecorded
  <2>4. IsFiniteSet(Queued') /\ Cardinality(Queued') = Cardinality(Queued) + 1
    BY <2>2, <2>3, FS_AddElement DEF Tally, Balanced
  <2>5. Complete'
    BY <1>2, <2>1, <2>2 DEF Tally, Complete
  <2>6. Balanced'
    BY <1>1, <1>2, <1>4, <1>5, <1>6, <2>4 DEF Tally, Balanced
  <2>. QED
    BY <1>2, <2>5, <2>6 DEF Tally
<1>7. CASE dropped' = dropped + 1 /\ UNCHANGED <<ch, accepted>>
  <2>1. Queued' = Queued
    BY <1>7 DEF Queued
  <2>2. Complete'
    BY <1>2, <1>7, <2>1 DEF Tally, Complete
  <2>3. Balanced'
    BY <1>1, <1>2, <1>4, <1>5, <1>7, <2>1 DEF Tally, Balanced
  <2>. QED
    BY <1>2, <2>2, <2>3 DEF Tally
<1>8. CASE writer = "none" /\ UNCHANGED <<ch, accepted>>
  <2>1. Queued' = Queued
    BY <1>8 DEF Queued
  <2>2. Complete'
    BY <1>2, <1>8, <2>1 DEF Tally, Complete
  <2>3. Balanced'
    BY <1>1, <1>4, <1>8, <2>1 DEF Tally, Balanced
  <2>. QED
    BY <1>2, <2>2, <2>3 DEF Tally
<1>. QED
  BY <1>1, <1>6, <1>7, <1>8

(* A step that leaves the accounts alone. *)
LEMMA TallyStays ==
  ASSUME Tally, UNCHANGED <<rows, entry, failed, written, dropped, accepted>>,
         ToInsert' = ToInsert, Queued' = Queued, Recorded' = Recorded,
         writer' # writer => writer \notin {"none", "insert", "count"} /\ writer' \notin {"insert", "count"}
  PROVE  Tally'
<1>1. Complete' /\ InsertedIsCounted'
  BY DEF Tally, Complete, InsertedIsCounted, Settled
<1>2. Balanced'
  BY DEF Tally, Balanced, InHand
<1>. QED
  BY <1>1, <1>2 DEF Tally

LEMMA ReceiveKeepsTally ==
  ASSUME Typed, Ordered, Ordered', Typed', Tally, Receive
  PROVE  Tally'
<1>1. /\ writer = "select" /\ ch # <<>> /\ ch' = Tail(ch)
      /\ UNCHANGED <<rows, accepted, failed, written, dropped>>
      /\ ToSet(ch) = ToSet(ch') \cup {Head(ch)}
  BY ToSetTail DEF Receive, Typed
<1>2. Recorded' = Recorded /\ entry = Nil
  BY <1>1, EntriesAssumption DEF Receive, Recorded, Typed, Entries, Tally, InsertedIsCounted
<1>3. CASE Head(ch) \in Syncer
  <2>1. Queued' = Queued /\ UNCHANGED <<entry, writer>>
    BY <1>1, <1>3, EntriesAssumption DEF Receive, Queued
  <2>2. ToInsert' = ToInsert
    BY <2>1 DEF ToInsert
  <2>. QED
    BY <1>1, <1>2, <2>1, <2>2, TallyStays
<1>4. CASE Head(ch) \in Req /\ entry' = Head(ch) /\ writer' = "insert"
  <2>1. Queued = Queued' \cup {Head(ch)} /\ ToInsert = {} /\ ToInsert' = {Head(ch)} /\ Settled' = Settled
    BY <1>1, <1>4 DEF Queued, ToInsert, Settled
  <2>2. Head(ch) \notin Queued'
    <3>1. ASSUME Head(ch) \in Queued' PROVE FALSE
      <4>1. AcceptedBefore(Head(ch), Head(ch))
        BY <1>1, <2>1, <3>1 DEF Ordered, SettledFirst, AcceptedBefore
      <4>. QED
        BY <4>1, NotBeforeItself DEF Ordered, Typed
    <3>. QED
      BY <3>1
  <2>3. IsFiniteSet(Queued') /\ Cardinality(Queued) = Cardinality(Queued') + 1
    <3>1. IsFiniteSet(Queued')
      BY <2>1, FS_Subset DEF Tally, Balanced
    <3>. QED
      BY <2>1, <2>2, <3>1, FS_AddElement
  <2>4. Cardinality(InHand) = 0 /\ Cardinality(InHand)' = 1
    <3>1. Head(ch) # Nil
      BY <1>4, EntriesAssumption
    <3>2. Cardinality({entry'}) = 1 /\ InHand' = {entry'}
      BY <1>4, <3>1, FS_Singleton DEF InHand
    <3>. QED
      BY <1>2, <3>2, HandCounts
  <2>5. /\ Cardinality(Queued') \in Nat /\ Cardinality(failed) \in Nat /\ written \in Nat /\ dropped \in Nat
    BY <2>3, FS_CardinalityType DEF Tally, Balanced, Typed
  <2>6. Balanced'
    BY <1>1, <1>2, <2>3, <2>4, <2>5 DEF Tally, Balanced
  <2>7. Complete' /\ InsertedIsCounted'
    BY <1>1, <1>4, <2>1 DEF Tally, Complete, InsertedIsCounted
  <2>. QED
    BY <2>6, <2>7 DEF Tally
<1>. QED
  BY <1>3, <1>4 DEF Receive

LEMMA InsertKeepsTally ==
  ASSUME Typed, Ordered, Tally, Insert
  PROVE  Tally'
<1>1. /\ writer = "insert" /\ entry \in Req /\ ToInsert = {entry} /\ ToInsert' = {}
      /\ UNCHANGED <<ch, written, dropped, caller, accepted>>
      /\ rows \in Seq(Req) /\ Len(rows) = written /\ written \in Nat /\ dropped \in Nat
  BY DEF Insert, Typed, ToInsert, Tally, InsertedIsCounted
<1>2. Queued' = Queued /\ Recorded' = Recorded
  BY <1>1 DEF Queued, Recorded
<1>3. entry # Nil /\ Cardinality(InHand) = 1
  BY <1>1, EntriesAssumption, HandCounts
<1>4. CASE rows' = Append(rows, entry) /\ writer' = "count" /\ UNCHANGED <<entry, failed>>
  <2>1. ToSet(rows') = ToSet(rows) \cup {entry} /\ Len(rows') = Len(rows) + 1
    BY <1>1, <1>4, ToSetAppend
  <2>2. Settled' = Settled \cup {entry} /\ InHand' = InHand
    BY <1>4, <2>1 DEF Settled, InHand
  <2>3. Complete'
    BY <1>1, <1>2, <2>2 DEF Tally, Complete
  <2>4. InsertedIsCounted'
    BY <1>1, <1>4, <2>1 DEF InsertedIsCounted
  <2>5. Balanced'
    BY <1>1, <1>2, <1>4, <2>2 DEF Tally, Balanced
  <2>. QED
    BY <2>3, <2>4, <2>5 DEF Tally
<1>5. CASE failed' = failed \cup {entry} /\ entry' = Nil /\ writer' = "select" /\ UNCHANGED rows
  <2>1. Settled' = Settled \cup {entry}
    BY <1>5 DEF Settled
  <2>2. entry \notin failed
    <3>1. ASSUME entry \in failed PROVE FALSE
      <4>1. AcceptedBefore(entry, entry)
        BY <1>1, <3>1 DEF Ordered, SettledFirst, Settled
      <4>. QED
        BY <4>1, NotBeforeItself DEF Ordered, Typed
    <3>. QED
      BY <3>1
  <2>3. IsFiniteSet(failed') /\ Cardinality(failed') = Cardinality(failed) + 1
    BY <1>5, <2>2, FS_AddElement DEF Tally, Balanced
  <2>4. Cardinality(InHand)' = 0
    <3>1. InHand' = {}
      BY <1>5 DEF InHand
    <3>. QED
      BY <3>1, FS_EmptySet
  <2>5. Cardinality(failed) \in Nat /\ Cardinality(Queued) \in Nat
    BY FS_CardinalityType DEF Tally, Balanced
  <2>6. Complete' /\ InsertedIsCounted'
    BY <1>1, <1>2, <1>5, <2>1 DEF Tally, Complete, InsertedIsCounted
  <2>7. Balanced'
    BY <1>1, <1>2, <1>3, <2>3, <2>4, <2>5 DEF Tally, Balanced
  <2>. QED
    BY <2>6, <2>7 DEF Tally
<1>. QED
  BY <1>4, <1>5 DEF Insert

LEMMA CountKeepsTally ==
  ASSUME Typed, Tally, Count
  PROVE  Tally'
<1>1. /\ writer = "count" /\ written' = written + 1 /\ entry' = Nil /\ writer' = "select"
      /\ UNCHANGED <<ch, rows, dropped, caller, accepted, failed>> /\ entry \in Req
      /\ written \in Nat /\ dropped \in Nat
  BY DEF Count, Typed
<1>2. Settled' = Settled /\ ToInsert' = ToInsert /\ Queued' = Queued /\ Recorded' = Recorded /\ InHand' = {}
  BY <1>1 DEF Settled, ToInsert, Queued, Recorded, InHand
<1>3. Cardinality(InHand) = 1 /\ Cardinality(InHand)' = 0
  BY <1>1, <1>2, EntriesAssumption, HandCounts, FS_EmptySet
<1>4. Cardinality(failed) \in Nat /\ Cardinality(Queued) \in Nat
  BY FS_CardinalityType DEF Tally, Balanced
<1>5. Balanced'
  BY <1>1, <1>2, <1>3, <1>4 DEF Tally, Balanced
<1>6. Complete' /\ InsertedIsCounted'
  BY <1>1, <1>2 DEF Tally, Complete, InsertedIsCounted
<1>. QED
  BY <1>5, <1>6 DEF Tally

LEMMA WriterKeepsTally ==
  ASSUME Typed, Ordered, Ordered', Typed', Tally, Writer
  PROVE  Tally'
<1>1. CASE Prepare \/ Leave
  <2>1. /\ UNCHANGED <<ch, caller, rows, entry, failed, written, dropped, accepted>>
        /\ ToInsert' = ToInsert
        /\ writer \notin {"none", "insert", "count"} /\ writer' \notin {"insert", "count"}
    BY <1>1 DEF Prepare, Leave, ToInsert
  <2>2. Queued' = Queued /\ Recorded' = Recorded
    BY <2>1 DEF Queued, Recorded
  <2>. QED
    BY <2>1, <2>2, TallyStays
<1>. QED
  BY <1>1, ReceiveKeepsTally, InsertKeepsTally, CountKeepsTally DEF Writer

-----------------------------------------------------------------------------
(* The results about Auditor.                                              *)

NobodyKilled == \A x \in Entries : caller[x] # "killed"

(* No auditor accepts nothing.                                             *)
NoneAccepts == writer = "none" => accepted = <<>>

TrailInv == Typed /\ NobodyKilled /\ NoneAccepts /\ Ordered /\ SyncInv /\ Tally

LEMMA InitTyped == Init => Typed /\ Ordered
<1> SUFFICES ASSUME Init PROVE Typed /\ Ordered
  OBVIOUS
<1>1. /\ ch = <<>> /\ rows = <<>> /\ accepted = <<>> /\ Len(ch) = 0
      /\ ToSet(ch) = {} /\ ToSet(rows) = {} /\ ToSet(accepted) = {}
  BY DEF Init, ToSet
<1>2. Typed
  <2>1. ch \in Seq(Entries) /\ rows \in Seq(Req) /\ accepted \in Seq(Req) /\ Len(ch) <= Cap
    BY <1>1, CapAssumption
  <2>2. /\ caller \in [Entries -> {"idle", "recorded", "waiting", "acked", "killed"}]
        /\ ahead \in [Syncer -> SUBSET Req]
    BY DEF Init
  <2>3. cancelled \in BOOLEAN /\ failed \subseteq Req /\ entry \in Req \cup {Nil} /\ writer \in {"prepare", "none"}
    BY DEF Init, Opened
  <2> QED
    BY <2>1, <2>2, <2>3 DEF Init, Typed
<1>3. Settled = {} /\ ToInsert = {} /\ Queued = {}
  BY <1>1 DEF Init, Opened, Settled, ToInsert, Queued
<1> QED
  BY <1>1, <1>2, <1>3 DEF Ordered, AcceptedOnce, AcceptedIsRecorded, NothingFromNowhere,
                          SettledFirst, QueueInOrder, RowsInOrder

LEMMA InitTrail == Init => TrailInv
<1> SUFFICES ASSUME Init PROVE TrailInv
  OBVIOUS
<1>1. /\ ch = <<>> /\ rows = <<>> /\ Len(rows) = 0 /\ DOMAIN ch = {}
      /\ ToSet(ch) = {} /\ ToSet(rows) = {} /\ ToSet(accepted) = {}
  BY DEF Init, ToSet
<1>2. NobodyKilled /\ NoneAccepts /\ SyncInv
  BY <1>1 DEF Init, NobodyKilled, NoneAccepts, SyncInv, SyncQueues, SyncOnce, SyncWaitsForAllBefore, Entries
<1>3. Settled = {} /\ ToInsert = {} /\ Queued = {} /\ Recorded = {} /\ failed = {} /\ InHand = {}
  BY <1>1 DEF Init, Opened, Settled, ToInsert, Queued, Recorded, InHand, Entries
<1>4. Complete /\ InsertedIsCounted
  BY <1>1, <1>3 DEF Init, Opened, Complete, InsertedIsCounted
<1>5. Balanced
  BY <1>3, FS_EmptySet DEF Init, Balanced
<1>. QED
  BY <1>2, <1>4, <1>5, InitTyped DEF TrailInv, Tally

(* An entry that is recorded, or dropped for want of room. *)
LEMMA RecordKeepsTrail ==
  ASSUME TrailInv, NEW r \in Req, Record(r)
  PROVE  TrailInv'
<1>1. Typed' /\ Ordered' /\ Tally'
  BY RecordTypes, RecordKeepsOrder, RecordKeepsTally DEF TrailInv
<1>2. NobodyKilled' /\ NoneAccepts'
  BY DEF TrailInv, NobodyKilled, NoneAccepts, Record, Typed
<1>3. SyncInv'
  <2>1. /\ UNCHANGED <<writer, entry, rows, failed, ahead>> /\ r \in Entries /\ r \notin Syncer
        /\ \A s \in Syncer : caller'[s] = caller[s]
    BY EntriesAssumption DEF TrailInv, Typed, Record, Entries
  <2>2. Settled' = Settled /\ ToInsert' = ToInsert
    BY <2>1 DEF Settled, ToInsert
  <2>3. CASE ch' = Append(ch, r)
    BY <2>1, <2>2, <2>3, SyncAppends DEF TrailInv
  <2>4. CASE UNCHANGED ch
    BY <2>1, <2>2, <2>4, SyncStays DEF TrailInv
  <2>. QED
    BY <2>3, <2>4 DEF Record
<1>. QED
  BY <1>1, <1>2, <1>3 DEF TrailInv

(* A sentinel queues behind all that was accepted.                         *)
LEMMA SyncSendKeepsTrail ==
  ASSUME TrailInv, NEW s \in Syncer, SyncSend(s)
  PROVE  TrailInv'
<1>1. /\ UNCHANGED <<writer, entry, cancelled, rows, written, dropped, accepted, failed>>
      /\ s \in Entries /\ s \notin Req /\ caller[s] = "idle" /\ ~Full
      /\ ch' = Append(ch, s) /\ ch \in Seq(Entries)
      /\ caller' = [caller EXCEPT ![s] = "waiting"]
      /\ ahead' = [ahead EXCEPT ![s] = ToSet(accepted)]
  BY EntriesAssumption DEF SyncSend, Entries, TrailInv, Typed
<1>2. \A x \in Entries : caller'[x] = IF x = s THEN "waiting" ELSE caller[x]
  BY <1>1 DEF TrailInv, Typed
<1>3. ToSet(ch') = ToSet(ch) \cup {s}
  BY <1>1, ToSetAppend
<1>4. /\ Settled' = Settled /\ ToInsert' = ToInsert /\ Queued' = Queued /\ Recorded' = Recorded
  BY <1>1, <1>2, <1>3 DEF Settled, ToInsert, Queued, Recorded, Entries
<1>5. Typed'
  <2>1. Len(ch') = Len(ch) + 1 /\ ch' \in Seq(Entries) /\ Len(ch) \in Nat
    BY <1>1
  <2>2. Len(ch') <= Cap
    BY <1>1, <2>1, CapAssumption DEF Full
  <2>3. ahead' \in [Syncer -> SUBSET Req]
    <3>1. ToSet(accepted) \subseteq Req
      BY DEF TrailInv, Typed, ToSet
    <3>. QED
      BY <1>1, <3>1 DEF TrailInv, Typed
  <2>4. caller' \in [Entries -> {"idle", "recorded", "waiting", "acked", "killed"}]
    BY <1>1 DEF TrailInv, Typed
  <2>. QED
    BY <1>1, <2>1, <2>2, <2>3, <2>4 DEF TrailInv, Typed
<1>6. NobodyKilled' /\ NoneAccepts' /\ Tally'
  BY <1>1, <1>2, <1>4, TallyStays DEF TrailInv, NobodyKilled, NoneAccepts
<1>7. QueueInOrder'
  <2>1. /\ Len(ch) \in Nat /\ DOMAIN ch = 1 .. Len(ch) /\ DOMAIN ch' = 1 .. Len(ch) + 1
        /\ \A i \in 1 .. Len(ch) : ch'[i] = ch[i]
        /\ ch'[Len(ch) + 1] = s
    BY <1>1
  <2>2. \A i \in DOMAIN ch' : ch'[i] \in Req => i \in DOMAIN ch
    BY <1>1, <2>1
  <2>. QED
    BY <1>1, <2>1, <2>2 DEF TrailInv, Ordered, QueueInOrder, AcceptedBefore
<1>8. Ordered'
  <2>1. AcceptedIsRecorded'
    <3>1. ToSet(accepted) \subseteq Req
      BY DEF TrailInv, Typed, ToSet
    <3>. QED
      BY <1>1, <1>2, <3>1 DEF TrailInv, Ordered, AcceptedIsRecorded, Entries
  <2>. QED
    BY <1>1, <1>4, <1>7, <2>1 DEF TrailInv, Ordered, AcceptedOnce, NothingFromNowhere, SettledFirst,
                                  RowsInOrder, AcceptedBefore
<1>9. SyncInv'
  <2>1. /\ \A x \in Syncer \ {s} : caller'[x] = caller[x] /\ ahead'[x] = ahead[x]
        /\ caller'[s] = "waiting" /\ ahead'[s] = ToSet(accepted)
    BY <1>1, <1>2 DEF TrailInv, Typed, Entries
  <2>2. ahead'[s] \subseteq Settled \cup ToInsert \cup Queued
    BY <2>1 DEF TrailInv, Tally, Complete
  <2>. QED
    BY <1>1, <1>4, <2>1, <2>2, SyncAppends DEF TrailInv
<1>. QED
  BY <1>5, <1>6, <1>8, <1>9 DEF TrailInv

(* A sync of no auditor waits for nothing.                                 *)
LEMMA SyncNothingKeepsTrail ==
  ASSUME TrailInv, NEW s \in Syncer, SyncNothing(s)
  PROVE  TrailInv'
<1>1. /\ UNCHANGED <<ch, writer, entry, cancelled, rows, written, dropped, accepted, failed>>
      /\ s \in Entries /\ s \notin Req /\ caller[s] = "idle" /\ writer = "none" /\ accepted = <<>>
      /\ caller' = [caller EXCEPT ![s] = "acked"] /\ ahead' = [ahead EXCEPT ![s] = ToSet(accepted)]
  BY EntriesAssumption DEF SyncNothing, Entries, TrailInv, NoneAccepts
<1>2. /\ \A x \in Entries \ {s} : caller'[x] = caller[x]
      /\ \A x \in Syncer \ {s} : ahead'[x] = ahead[x]
      /\ ahead'[s] = {} /\ caller'[s] = "acked" /\ Req \subseteq Entries \ {s} /\ Syncer \subseteq Entries
  BY <1>1, EntriesAssumption DEF TrailInv, Typed, Entries, ToSet
<1>3. Settled' = Settled /\ ToInsert' = ToInsert /\ Queued' = Queued /\ Recorded' = Recorded
  BY <1>1, <1>2 DEF Settled, ToInsert, Queued, Recorded
<1>4. Typed'
  <2>1. ahead' \in [Syncer -> SUBSET Req]
    BY <1>1 DEF TrailInv, Typed, ToSet
  <2>2. caller' \in [Entries -> {"idle", "recorded", "waiting", "acked", "killed"}]
    BY <1>1 DEF TrailInv, Typed
  <2>. QED
    BY <1>1, <2>1, <2>2 DEF TrailInv, Typed
<1>5. NobodyKilled' /\ NoneAccepts' /\ Tally'
  BY <1>1, <1>2, <1>3, TallyStays DEF TrailInv, NobodyKilled, NoneAccepts
<1>6. Ordered'
  <2>1. \A x \in ToSet(accepted) : caller'[x] = caller[x]
    BY <1>1, <1>2 DEF TrailInv, Typed, ToSet
  <2>. QED
    BY <1>1, <1>3, <2>1, OrderStays DEF TrailInv
<1>7. SyncQueues'
  <2>1. \A i \in DOMAIN ch : ch[i] \in Syncer => ch[i] # s
    BY <1>1 DEF TrailInv, SyncInv, SyncQueues
  <2>2. ASSUME NEW i \in DOMAIN ch, ch[i] \in Syncer
        PROVE  /\ caller'[ch[i]] = "waiting"
               /\ ahead'[ch[i]] \subseteq Settled \cup ToInsert \cup {ch[j] : j \in 1 .. i - 1}
    BY <1>2, <2>1, <2>2 DEF TrailInv, SyncInv, SyncQueues
  <2>. QED
    BY <1>1, <1>3, <2>2 DEF SyncQueues
<1>8. SyncOnce' /\ SyncWaitsForAllBefore'
  BY <1>1, <1>2 DEF TrailInv, SyncInv, SyncOnce, SyncWaitsForAllBefore
<1>. QED
  BY <1>4, <1>5, <1>6, <1>7, <1>8 DEF TrailInv, SyncInv

(* No step of the audit trail breaks it.                                   *)
LEMMA NextTrail == TrailInv /\ [Next]_vars => TrailInv'
<1> SUFFICES ASSUME TrailInv, [Next]_vars PROVE TrailInv'
  OBVIOUS
<1>1. CASE Writer
  <2>1. Typed' /\ Ordered'
    BY <1>1, WriterTypes, WriterKeepsOrder DEF TrailInv
  <2>2. Tally' /\ SyncInv'
    BY <1>1, <2>1, WriterKeepsTally, WriterKeepsSync DEF TrailInv
  <2>3. NobodyKilled' /\ NoneAccepts'
    BY <1>1 DEF TrailInv, NobodyKilled, NoneAccepts, Typed, Writer, Prepare, Leave, Receive, Insert, Count
  <2>. QED
    BY <2>1, <2>2, <2>3 DEF TrailInv
<1>2. CASE Cancel \/ UNCHANGED vars
  <2>1. /\ UNCHANGED <<ch, writer, entry, rows, written, dropped, caller, accepted, failed, ahead>>
        /\ cancelled' \in BOOLEAN
    BY <1>2 DEF Cancel, vars, TrailInv, Typed
  <2>2. Settled' = Settled /\ ToInsert' = ToInsert /\ Queued' = Queued /\ Recorded' = Recorded
    BY <2>1 DEF Settled, ToInsert, Queued, Recorded
  <2>3. Typed' /\ NobodyKilled' /\ NoneAccepts'
    BY <2>1 DEF TrailInv, Typed, NobodyKilled, NoneAccepts
  <2>4. Ordered'
    BY <2>1, <2>2, OrderStays DEF TrailInv
  <2>5. SyncInv'
    BY <2>1, <2>2, SyncStays DEF TrailInv
  <2>6. Tally'
    BY <2>1, <2>2, TallyStays DEF TrailInv
  <2>. QED
    BY <2>3, <2>4, <2>5, <2>6 DEF TrailInv
<1>. QED
  BY <1>1, <1>2, RecordKeepsTrail, SyncSendKeepsTrail, SyncNothingKeepsTrail DEF Next

(* The inductive invariant of the audit trail.                             *)
THEOREM TrailInvariant == Spec => []TrailInv
  BY InitTrail, NextTrail, PTL DEF Spec

(* Every variable of the trail keeps its type, and the channel its bound.  *)
THEOREM TrailTypes == Spec => []TypeOK
<1>1. TrailInv => TypeOK
  BY DEF TrailInv, Typed, NobodyKilled, TypeOK
<1>. QED
  BY <1>1, TrailInvariant, PTL

(* If there is an auditor, what was recorded is a row, a counted drop, a   *)
(* failed insert, or still on its way, and the rows are in the order of    *)
(* the calls to record, for any number of requests and any capacity.       *)
THEOREM NothingIsLostUnseen == Spec => []EveryEntryIsAccounted
<1>1. TrailInv => EveryEntryIsAccounted
  <2> SUFFICES ASSUME TrailInv PROVE EveryEntryIsAccounted
    OBVIOUS
  <2>1. ToInsert \subseteq InHand /\ InHand \subseteq ToInsert \cup ToSet(rows)
    BY EntriesAssumption DEF TrailInv, Typed, Tally, InsertedIsCounted, ToInsert, InHand
  <2>2. ToSet(accepted) = ToSet(rows) \cup failed \cup InHand \cup Queued
    BY <2>1 DEF TrailInv, Tally, Complete, Settled
  <2>3. writer # "count" => Len(rows) = written
    BY DEF TrailInv, Typed, Tally, InsertedIsCounted
  <2>. QED
    BY <2>2, <2>3 DEF TrailInv, Ordered, RowsInOrder, Tally, Balanced, EveryEntryIsAccounted
<1>. QED
  BY <1>1, TrailInvariant, PTL

(* A sync that has returned has seen everything accepted before it         *)
(* inserted or failed.                                                     *)
THEOREM SyncIsABarrier == Spec => []SyncWaitsForAllBefore
<1>1. TrailInv => SyncWaitsForAllBefore
  BY DEF TrailInv, SyncInv
<1>. QED
  BY <1>1, TrailInvariant, PTL

-----------------------------------------------------------------------------
(* The client's side.                                                      *)

(* The types the order of the answers needs.                               *)
StoreTyped ==
  /\ pc \in [Req -> Store!Labels] /\ op \in [Req -> Store!Methods]
  /\ told \subseteq Req /\ before \in [Req -> SUBSET Req]

(* An entry is recorded by a handler that is done, and an answer to        *)
(* anything but a GET leaves after that.                                   *)
RecordedAtTheEnd ==
  /\ \A r \in Req : caller[r] = "recorded" => pc[r] = "done"
  /\ \A r \in told : pc[r] = "done" /\ (op[r] # "GET" => caller[r] = "recorded")

(* Whose answers a request comes after, have left.                         *)
BeforeIsTold == \A r \in Req : before[r] \subseteq told

(* What was recorded before an answer, that answer being awaited, was      *)
(* accepted before what the client did next.                               *)
ClientOrder ==
  \A x, y \in ToSet(accepted) : x \in before[y] /\ op[x] # "GET" => AcceptedBefore(x, y)

ClientInv == Typed /\ Ordered /\ StoreTyped /\ RecordedAtTheEnd /\ BeforeIsTold /\ ClientOrder

(* An arrival concerns an idle request, a transaction one on its way, and  *)
(* the method is set by the arrival.                                       *)
LEMMA StoreFrame ==
  ASSUME StoreTyped, NEW r \in Req, Store!Start(r) \/ Store!Step(r)
  PROVE  /\ pc' \in [Req -> Store!Labels] /\ op' \in [Req -> Store!Methods]
         /\ pc[r] # "done"
         /\ \A q \in Req \ {r} : pc'[q] = pc[q] /\ op'[q] = op[q]
<1> USE DEF StoreTyped, Store!Goto, Store!Reply, Store!Arrive, Store!Labels, Store!Methods
<1>1. CASE Store!Start(r)
  <2>1. CASE Store!StartGet(r)
    BY <2>1 DEF Store!StartGet
  <2>2. CASE Store!StartPost(r)
    BY <2>2 DEF Store!StartPost
  <2>3. CASE Store!StartDelete(r)
    BY <2>3 DEF Store!StartDelete
  <2>4. ASSUME NEW h \in Store!Given, NEW b \in Store!Given, Store!StartPatch(r, h, b)
        PROVE  /\ pc' \in [Req -> Store!Labels] /\ op' \in [Req -> Store!Methods]
               /\ pc[r] # "done"
               /\ \A q \in Req \ {r} : pc'[q] = pc[q] /\ op'[q] = op[q]
    BY <2>4 DEF Store!StartPatch
  <2>. QED
    BY <1>1, <2>1, <2>2, <2>3, <2>4 DEF Store!Start
<1>2. CASE Store!Step(r)
  <2>1. op' = op
    BY <1>2 DEF Store!Step, Store!ReadValue, Store!ReadVersion, Store!Find, Store!Put, Store!BumpRead, Store!BumpCommit,
                Store!ReportMismatch, Store!StampMtime, Store!DeleteSecret, Store!DeleteVersion, Store!DeleteMtime, Store!locals
  <2>2. pc[r] # "done"
    BY <1>2 DEF Store!Step, Store!ReadValue, Store!ReadVersion, Store!Find, Store!Put, Store!BumpRead, Store!BumpCommit,
                Store!ReportMismatch, Store!StampMtime, Store!DeleteSecret, Store!DeleteVersion, Store!DeleteMtime
  <2>3. \E l \in Store!Labels : pc' = [pc EXCEPT ![r] = l]
    <3>1. CASE Store!ReadValue(r)
      BY <3>1 DEF Store!ReadValue
    <3>2. CASE Store!ReadVersion(r)
      BY <3>2 DEF Store!ReadVersion
    <3>3. CASE Store!Find(r)
      BY <3>3 DEF Store!Find, Store!After
    <3>4. CASE Store!Put(r)
      BY <3>4 DEF Store!Put, Store!After
    <3>5. CASE Store!BumpRead(r)
      BY <3>5 DEF Store!BumpRead, Store!BumpFails
    <3>6. CASE Store!BumpCommit(r)
      BY <3>6 DEF Store!BumpCommit, Store!CommitSucceeds, Store!CommitFails, Store!BumpFails, Store!After
    <3>7. CASE Store!ReportMismatch(r)
      BY <3>7 DEF Store!ReportMismatch
    <3>8. CASE Store!StampMtime(r)
      BY <3>8 DEF Store!StampMtime
    <3>9. CASE Store!DeleteSecret(r)
      BY <3>9 DEF Store!DeleteSecret
    <3>10. CASE Store!DeleteVersion(r)
      BY <3>10 DEF Store!DeleteVersion
    <3>11. CASE Store!DeleteMtime(r)
      BY <3>11 DEF Store!DeleteMtime
    <3>. QED
      BY <1>2, <3>1, <3>2, <3>3, <3>4, <3>5, <3>6, <3>7, <3>8, <3>9, <3>10, <3>11 DEF Store!Step
  <2>. QED
    BY <2>1, <2>2, <2>3
<1>. QED
  BY <1>1, <1>2

(* The writer, and whatever leaves trail and answers alone.                *)
LEMMA ClientStays ==
  ASSUME ClientInv, Typed', Ordered', UNCHANGED <<pc, op, told, before, accepted>>,
         \A r \in Req : caller'[r] = "recorded" <=> caller[r] = "recorded"
  PROVE  ClientInv'
<1>1. StoreTyped' /\ RecordedAtTheEnd' /\ BeforeIsTold'
  BY DEF ClientInv, StoreTyped, RecordedAtTheEnd, BeforeIsTold
<1>2. ClientOrder'
  BY DEF ClientInv, ClientOrder, AcceptedBefore
<1>. QED
  BY <1>1, <1>2 DEF ClientInv

(* A handler moves, and the trail does not.                                *)
LEMMA HandlerKeepsClient ==
  ASSUME ClientInv, NEW r \in Req, Request(r) \/ Handle(r)
  PROVE  ClientInv'
<1>1. /\ UNCHANGED <<vars, told>>
      /\ \/ Store!Start(r) /\ before' = [before EXCEPT ![r] = told]
         \/ Store!Step(r) /\ before' = before
  BY DEF Request, Handle, trail
<1>2. /\ UNCHANGED <<ch, writer, entry, cancelled, rows, written, dropped, caller, accepted, failed, ahead>>
  BY <1>1 DEF vars
<1>3. /\ pc' \in [Req -> Store!Labels] /\ op' \in [Req -> Store!Methods]
      /\ pc[r] # "done"
      /\ \A q \in Req \ {r} : pc'[q] = pc[q] /\ op'[q] = op[q]
  BY <1>1, StoreFrame DEF ClientInv
<1>4. Typed' /\ Ordered'
  <2>1. ToInsert' = ToInsert
    BY <1>2 DEF ToInsert
  <2>. QED
    BY <1>2, <2>1, OrderStays DEF ClientInv, Typed
<1>5. StoreTyped' /\ BeforeIsTold'
  BY <1>1, <1>3 DEF ClientInv, StoreTyped, BeforeIsTold
<1>6. RecordedAtTheEnd' /\ r \notin told /\ caller[r] # "recorded"
  BY <1>1, <1>2, <1>3 DEF ClientInv, RecordedAtTheEnd, StoreTyped
<1>7. r \notin ToSet(accepted)
  BY <1>6 DEF ClientInv, Ordered, AcceptedIsRecorded
<1>8. ClientOrder'
  <2>1. ASSUME NEW x \in ToSet(accepted), NEW y \in ToSet(accepted), x \in before'[y], op'[x] # "GET"
        PROVE  AcceptedBefore(x, y)
    <3>1. x \in Req /\ y \in Req /\ x # r /\ y # r
      BY <1>7 DEF ClientInv, Typed, ToSet
    <3>2. before'[y] = before[y] /\ op'[x] = op[x]
      BY <1>1, <1>3, <3>1 DEF ClientInv, StoreTyped
    <3>. QED
      BY <2>1, <3>2 DEF ClientInv, ClientOrder
  <2>. QED
    BY <1>2, <2>1 DEF ClientOrder, AcceptedBefore
<1>. QED
  BY <1>4, <1>5, <1>6, <1>8 DEF ClientInv

(* A handler records its entry: what its client had seen answered is       *)
(* already there, and nobody has seen its own answer.                      *)
LEMMA EntryKeepsClient ==
  ASSUME ClientInv, NEW r \in Req, Entry(r)
  PROVE  ClientInv'
<1>1. pc[r] = "done" /\ Record(r) /\ UNCHANGED <<pc, op, told, before>> /\ caller[r] = "idle"
  BY DEF Entry, storage, Record
<1>2. Typed' /\ Ordered'
  BY <1>1, RecordTypes, RecordKeepsOrder DEF ClientInv
<1>3. StoreTyped' /\ BeforeIsTold'
  BY <1>1 DEF ClientInv, StoreTyped, BeforeIsTold
<1>4. \A x \in Req : caller'[x] = IF x = r THEN "recorded" ELSE caller[x]
  BY <1>1 DEF Record, ClientInv, Typed, Entries
<1>5. RecordedAtTheEnd'
  BY <1>1, <1>3, <1>4 DEF ClientInv, RecordedAtTheEnd, StoreTyped
<1>6. ClientOrder'
  <2>1. CASE UNCHANGED accepted
    BY <1>1, <2>1 DEF ClientInv, ClientOrder, AcceptedBefore
  <2>2. CASE accepted' = Append(accepted, r)
    <3>1. /\ \A x, y \in Req : AcceptedBefore(x, y) => AcceptedBefore(x, y)'
          /\ \A x \in ToSet(accepted) : AcceptedBefore(x, r)'
          /\ ToSet(accepted') = ToSet(accepted) \cup {r}
      BY <2>2, BeforeGrows DEF ClientInv, Typed
    <3>2. ToSet(accepted) \subseteq Req
      BY DEF ClientInv, Typed, ToSet
    <3>3. ASSUME NEW x \in ToSet(accepted'), NEW y \in ToSet(accepted'), x \in before[y], op[x] # "GET"
          PROVE  AcceptedBefore(x, y)'
      <4>1. y \in Req /\ x \in told /\ caller[x] = "recorded"
        BY <3>1, <3>2, <3>3 DEF ClientInv, RecordedAtTheEnd, BeforeIsTold
      <4>2. x \in ToSet(accepted) /\ x \in Req
        BY <1>1, <3>1, <3>2, <4>1
      <4>3. CASE y = r
        BY <3>1, <4>2, <4>3
      <4>4. CASE y \in ToSet(accepted)
        <5>1. AcceptedBefore(x, y)
          BY <3>3, <4>2, <4>4 DEF ClientInv, ClientOrder
        <5>. QED
          BY <3>1, <4>1, <4>2, <5>1
      <4>. QED
        BY <3>1, <4>3, <4>4
    <3>. QED
      BY <1>1, <3>3 DEF ClientOrder
  <2>. QED
    BY <1>1, <2>1, <2>2 DEF Record
<1>. QED
  BY <1>2, <1>3, <1>5, <1>6 DEF ClientInv

(* An answer leaves. *)
LEMMA AnswerKeepsClient ==
  ASSUME ClientInv, NEW r \in Req, SendLarge(r) \/ Return(r)
  PROVE  ClientInv'
<1>1. /\ UNCHANGED <<vars, pc, op, before>> /\ told' = told \cup {r} /\ pc[r] = "done"
      /\ op[r] # "GET" => caller[r] = "recorded"
  BY DEF SendLarge, Return, trail, storage
<1>2. UNCHANGED <<ch, writer, entry, cancelled, rows, written, dropped, caller, accepted, failed, ahead>>
  BY <1>1 DEF vars
<1>3. Typed' /\ Ordered'
  <2>1. ToInsert' = ToInsert
    BY <1>2 DEF ToInsert
  <2>. QED
    BY <1>2, <2>1, OrderStays DEF ClientInv, Typed
<1>4. StoreTyped' /\ BeforeIsTold' /\ RecordedAtTheEnd'
  BY <1>1, <1>2 DEF ClientInv, StoreTyped, BeforeIsTold, RecordedAtTheEnd
<1>5. ClientOrder'
  BY <1>1, <1>2 DEF ClientInv, ClientOrder, AcceptedBefore
<1>. QED
  BY <1>3, <1>4, <1>5 DEF ClientInv

(* A kill empties the channel and moves nothing in the trail.              *)
LEMMA KillKeepsClient ==
  ASSUME ClientInv, Kill
  PROVE  ClientInv'
<1>1. /\ ch' = <<>> /\ entry' = Nil /\ writer' \in {"prepare", "none"} /\ cancelled' = FALSE
      /\ written' = 0 /\ dropped' = 0
      /\ UNCHANGED <<rows, accepted, failed, ahead, told, before, op>>
      /\ caller' = [x \in Entries |-> IF x \in Unrecorded THEN "killed" ELSE caller[x]]
  BY DEF Kill, Opened, Store!Crash, Store!locals
<1>2. /\ pc' \in [Req -> Store!Labels]
      /\ \A r \in Req : pc[r] = "done" => pc'[r] = "done"
  BY DEF Kill, Store!Crash, Store!Busy, Store!Labels, ClientInv, StoreTyped
<1>3. \A x \in Entries : caller'[x] = "recorded" <=> caller[x] = "recorded"
  BY <1>1 DEF Unrecorded
<1>4. Typed'
  <2>1. ch' \in Seq(Entries) /\ Len(ch') <= Cap
    BY <1>1, CapAssumption
  <2>2. caller' \in [Entries -> {"idle", "recorded", "waiting", "acked", "killed"}]
    BY <1>1 DEF ClientInv, Typed
  <2>. QED
    BY <1>1, <2>1, <2>2 DEF ClientInv, Typed
<1>5. Ordered'
  <2>1. ToInsert' = {} /\ Queued' = {} /\ Settled' = Settled /\ DOMAIN ch' = {}
    BY <1>1 DEF ToInsert, Queued, Settled, ToSet
  <2>2. AcceptedIsRecorded'
    <3>1. ToSet(accepted) \subseteq Entries
      BY DEF ClientInv, Typed, ToSet, Entries
    <3>. QED
      BY <1>1, <1>3, <3>1 DEF ClientInv, Ordered, AcceptedIsRecorded
  <2>. QED
    BY <1>1, <2>1, <2>2 DEF ClientInv, Ordered, AcceptedOnce, NothingFromNowhere, SettledFirst,
                            QueueInOrder, RowsInOrder, AcceptedBefore
<1>6. StoreTyped' /\ BeforeIsTold' /\ RecordedAtTheEnd'
  <2>1. Req \subseteq Entries
    BY DEF Entries
  <2>2. StoreTyped' /\ BeforeIsTold'
    BY <1>1, <1>2 DEF ClientInv, StoreTyped, BeforeIsTold
  <2>3. RecordedAtTheEnd'
    BY <1>1, <1>2, <1>3, <2>1 DEF ClientInv, StoreTyped, RecordedAtTheEnd
  <2>. QED
    BY <2>2, <2>3
<1>7. ClientOrder'
  BY <1>1 DEF ClientInv, ClientOrder, AcceptedBefore
<1>. QED
  BY <1>4, <1>5, <1>6, <1>7 DEF ClientInv

LEMMA NextClient == ClientInv /\ [AuditedNext]_aVars => ClientInv'
<1> SUFFICES ASSUME ClientInv, [AuditedNext]_aVars PROVE ClientInv'
  OBVIOUS
<1>1. CASE Write
  <2>1. Writer /\ UNCHANGED <<pc, op, told, before>>
    BY <1>1 DEF Write, storage
  <2>2. Typed' /\ Ordered'
    BY <2>1, WriterTypes, WriterKeepsOrder DEF ClientInv
  <2>3. accepted' = accepted /\ \A r \in Req : caller'[r] = caller[r]
    BY <2>1, EntriesAssumption DEF Writer, Prepare, Leave, Receive, Insert, Count, ClientInv, Typed, Entries
  <2>. QED
    BY <2>1, <2>2, <2>3, ClientStays
<1>2. CASE UNCHANGED aVars
  <2>1. UNCHANGED <<vars, pc, op, told, before>>
    BY <1>2 DEF aVars, trail, storage
  <2>2. UNCHANGED <<ch, writer, entry, cancelled, rows, written, dropped, caller, accepted, failed, ahead>>
    BY <2>1 DEF vars
  <2>3. Typed' /\ Ordered'
    <3>1. ToInsert' = ToInsert
      BY <2>2 DEF ToInsert
    <3>. QED
      BY <2>2, <3>1, OrderStays DEF ClientInv, Typed
  <2>. QED
    BY <2>1, <2>2, <2>3, ClientStays
<1>3. CASE Stop
  <2>1. /\ UNCHANGED <<ch, writer, entry, rows, written, dropped, caller, accepted, failed, ahead, pc, op, told, before>>
        /\ cancelled' \in BOOLEAN
    BY <1>3 DEF Stop, Cancel, storage
  <2>2. Typed' /\ Ordered'
    <3>1. ToInsert' = ToInsert
      BY <2>1 DEF ToInsert
    <3>. QED
      BY <2>1, <3>1, OrderStays DEF ClientInv, Typed
  <2>. QED
    BY <2>1, <2>2, ClientStays
<1>. QED
  BY <1>1, <1>2, <1>3, HandlerKeepsClient, EntryKeepsClient, AnswerKeepsClient, KillKeepsClient
  DEF AuditedNext

(* The rows of two requests of which the later was sent after the answer   *)
(* to the earlier, a GET apart, are in this order, for any number of       *)
(* requests and of kills.                                                  *)
THEOREM TrailFollowsClient == AuditedSpec => []TrailInClientOrder
<1>1. AuditedInit => ClientInv
  <2> SUFFICES ASSUME AuditedInit PROVE ClientInv
    OBVIOUS
  <2>1. Init /\ told = {} /\ before = [r \in Req |-> {}]
        /\ pc = [r \in Req |-> "idle"] /\ op = [r \in Req |-> "GET"]
    BY DEF AuditedInit, Store!Init
  <2>2. Typed /\ Ordered
    BY <2>1, InitTyped
  <2>3. StoreTyped /\ BeforeIsTold
    BY <2>1 DEF StoreTyped, BeforeIsTold, Store!Labels, Store!Methods
  <2>4. RecordedAtTheEnd
    BY <2>1 DEF Init, RecordedAtTheEnd, Entries
  <2>5. ClientOrder
    <3>1. ToSet(accepted) \subseteq Req
      BY <2>2 DEF Typed, ToSet
    <3>. QED
      BY <2>1, <3>1 DEF ClientOrder
  <2>. QED
    BY <2>2, <2>3, <2>4, <2>5 DEF ClientInv
<1>2. ClientInv => TrailInClientOrder
  <2> SUFFICES ASSUME ClientInv, NEW i \in DOMAIN rows, NEW j \in DOMAIN rows,
                      rows[i] \in before[rows[j]], op[rows[i]] # "GET"
               PROVE  i < j
    BY DEF TrailInClientOrder
  <2>1. rows \in Seq(Req) /\ accepted \in Seq(Req) /\ AcceptedOnce
    BY DEF ClientInv, Typed, Ordered
  <2>2. rows[i] \in ToSet(accepted) /\ rows[j] \in ToSet(accepted)
    BY DEF ClientInv, Ordered, NothingFromNowhere, Settled, ToSet
  <2>3. AcceptedBefore(rows[i], rows[j])
    BY <2>2 DEF ClientInv, ClientOrder
  <2>4. CASE i = j
    BY <2>1, <2>3, <2>4, NotBeforeItself
  <2>5. CASE j < i
    <3>1. AcceptedBefore(rows[j], rows[i])
      BY <2>5 DEF ClientInv, Ordered, RowsInOrder
    <3>2. PICK a \in DOMAIN accepted, b \in DOMAIN accepted :
            a < b /\ accepted[a] = rows[i] /\ accepted[b] = rows[j]
      BY <2>3 DEF AcceptedBefore
    <3>3. PICK c \in DOMAIN accepted, d \in DOMAIN accepted :
            c < d /\ accepted[c] = rows[j] /\ accepted[d] = rows[i]
      BY <3>1 DEF AcceptedBefore
    <3>4. a = d /\ b = c
      BY <2>1, <3>2, <3>3 DEF AcceptedOnce
    <3>. QED
      BY <2>1, <3>2, <3>3, <3>4
  <2>6. i \in Nat /\ j \in Nat
    BY <2>1
  <2>. QED
    BY <2>4, <2>5, <2>6
<1>. QED
  BY <1>1, <1>2, NextClient, PTL DEF AuditedSpec

=============================================================================
