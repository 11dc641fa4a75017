------------------------------ MODULE Auditor ------------------------------
(***************************************************************************)
(* The audit trail (audit.go): request goroutines hand their entries to a  *)
(* bounded channel without blocking, one writer goroutine inserts them     *)
(* into the audit database, and Embedded.Stop cancels the writer.  sync()  *)
(* sends a sentinel through the same channel and waits for the writer to   *)
(* reach it.                                                               *)
(*                                                                         *)
(* An entry is the request that records it; a sentinel is the goroutine    *)
(* that calls sync.                                                        *)
(***************************************************************************)
EXTENDS Integers, Sequences, FiniteSets, SequencesExt

CONSTANTS
  Req,          \* the requests; each records one entry
  Syncer,       \* the goroutines that call sync, once each
  Nil,          \* no entry
  Cap,          \* the capacity of the channel
  MaxFaults,    \* bound: how many inserts fail
  MayCancel,    \* whether the server is stopped
  MayNotOpen    \* whether opening the database, or preparing the INSERT, may fail

ASSUME EntriesAssumption == Req \cap Syncer = {} /\ Nil \notin Req \cup Syncer
ASSUME CapAssumption     == Cap \in Nat \ {0}
ASSUME FlagsAssumption   == MaxFaults \in Nat /\ MayCancel \in BOOLEAN /\ MayNotOpen \in BOOLEAN

VARIABLES
  ch,           \* the channel
  writer,       \* where the writer goroutine is
  entry,        \* the entry the writer has received, or Nil
  cancelled,    \* the writer's context is done
  rows,         \* the rows of audit_log, in order of insertion
  written,      \* the counters that /v1/kms/audit/stats reports
  dropped,
  caller,       \* caller[x]: what request or syncer x is doing
  \* history
  accepted,     \* the entries that got into the channel, in order
  failed,       \* the entries whose insert failed
  ahead         \* ahead[s]: the entries accepted before the sentinel of s

vars == <<ch, writer, entry, cancelled, rows, written, dropped, caller, accepted, failed, ahead>>

Entries  == Req \cup Syncer

(* newAuditor starts the writer; without the database it returns nil, and  *)
(* there is no auditor.                                                    *)
Opened == IF MayNotOpen THEN {"prepare", "none"} ELSE {"prepare"}

Init ==
  /\ ch = <<>> /\ writer \in Opened /\ entry = Nil /\ cancelled = FALSE
  /\ rows = <<>> /\ written = 0 /\ dropped = 0
  /\ caller = [x \in Entries |-> "idle"]
  /\ accepted = <<>> /\ failed = {} /\ ahead = [s \in Syncer |-> {}]

-----------------------------------------------------------------------------
FullTooLate == Len(ch) > Cap (* mutant *)

Full == Len(ch) >= Cap

RecordSilently(r) == (* mutant: a drop is not counted *)
  /\ caller[r] = "idle"
  /\ caller' = [caller EXCEPT ![r] = "recorded"]
  /\ \/ ~Full /\ ch' = Append(ch, r) /\ accepted' = Append(accepted, r)
     \/ Full /\ UNCHANGED <<ch, accepted>>
  /\ UNCHANGED <<writer, entry, cancelled, rows, written, dropped, failed, ahead>>

(* record: enqueue, or count a drop when the channel is full; nothing of a *)
(* nil auditor.                                                            *)
Record(r) ==
  /\ caller[r] = "idle"
  /\ caller' = [caller EXCEPT ![r] = "recorded"]
  /\ \/ /\ writer # "none" /\ ~Full
        /\ ch' = Append(ch, r) /\ accepted' = Append(accepted, r)
        /\ UNCHANGED dropped
     \/ writer # "none" /\ Full /\ dropped' = dropped + 1 /\ UNCHANGED <<ch, accepted>>
     \/ writer = "none" /\ UNCHANGED <<ch, accepted, dropped>>
  /\ UNCHANGED <<writer, entry, cancelled, rows, written, failed, ahead>>

SyncOvertakes(s) == (* mutant: the sentinel does not queue *)
  /\ caller[s] = "idle" /\ ~Full
  /\ caller' = [caller EXCEPT ![s] = "waiting"]
  /\ ch' = <<s>> \o ch
  /\ ahead' = [ahead EXCEPT ![s] = ToSet(accepted)]
  /\ UNCHANGED <<writer, entry, cancelled, rows, written, dropped, accepted, failed>>

(* sync: a blocking send, then wait for the acknowledgement. *)
SyncSend(s) ==
  /\ writer # "none" /\ caller[s] = "idle" /\ ~Full
  /\ caller' = [caller EXCEPT ![s] = "waiting"]
  /\ ch' = Append(ch, s)
  /\ ahead' = [ahead EXCEPT ![s] = ToSet(accepted)]
  /\ UNCHANGED <<writer, entry, cancelled, rows, written, dropped, accepted, failed>>

(* sync of a nil auditor returns at once. *)
SyncNothing(s) ==
  /\ writer = "none" /\ caller[s] = "idle"
  /\ caller' = [caller EXCEPT ![s] = "acked"]
  /\ ahead' = [ahead EXCEPT ![s] = ToSet(accepted)]
  /\ UNCHANGED <<ch, writer, entry, cancelled, rows, written, dropped, accepted, failed>>

(* Without the INSERT statement the writer returns: auditing is disabled,  *)
(* entries are still accepted until the channel is full.                   *)
Prepare ==
  /\ writer = "prepare"
  /\ \/ writer' = "select"
     \/ MayNotOpen /\ writer' = "disabled"
  /\ UNCHANGED <<ch, entry, cancelled, rows, written, dropped, caller, accepted, failed, ahead>>

(* select on the context and the channel: when both are ready, Go picks    *)
(* either.                                                                 *)
Leave ==
  /\ writer = "select" /\ cancelled
  /\ writer' = "exited"
  /\ UNCHANGED <<ch, entry, cancelled, rows, written, dropped, caller, accepted, failed, ahead>>

Receive ==
  /\ writer = "select" /\ ch # <<>>
  /\ ch' = Tail(ch)
  /\ \/ /\ Head(ch) \in Req
        /\ entry' = Head(ch) /\ writer' = "insert" /\ UNCHANGED caller
     \/ /\ Head(ch) \in Syncer
        /\ caller' = [caller EXCEPT ![Head(ch)] = "acked"]
        /\ UNCHANGED <<entry, writer>>
  /\ UNCHANGED <<cancelled, rows, written, dropped, accepted, failed, ahead>>

InsertOrExit == (* mutant: the writer returns when an insert fails *)
  /\ writer = "insert"
  /\ \/ rows' = Append(rows, entry) /\ writer' = "count" /\ UNCHANGED <<entry, failed>>
     \/ /\ Cardinality(failed) < MaxFaults
        /\ failed' = failed \cup {entry}
        /\ entry' = Nil /\ writer' = "exited" /\ UNCHANGED rows
  /\ UNCHANGED <<ch, cancelled, written, dropped, caller, accepted, ahead>>

(* The insert; a failed one is logged and counted nowhere. *)
Insert ==
  /\ writer = "insert"
  /\ \/ rows' = Append(rows, entry) /\ writer' = "count" /\ UNCHANGED <<entry, failed>>
     \/ /\ Cardinality(failed) < MaxFaults
        /\ failed' = failed \cup {entry}
        /\ entry' = Nil /\ writer' = "select" /\ UNCHANGED rows
  /\ UNCHANGED <<ch, cancelled, written, dropped, caller, accepted, ahead>>

Count ==
  /\ writer = "count"
  /\ written' = written + 1
  /\ entry' = Nil /\ writer' = "select"
  /\ UNCHANGED <<ch, cancelled, rows, dropped, caller, accepted, failed, ahead>>

(* Embedded.Stop. *)
Cancel ==
  /\ MayCancel /\ ~cancelled
  /\ cancelled' = TRUE
  /\ UNCHANGED <<ch, writer, entry, rows, written, dropped, caller, accepted, failed, ahead>>

Writer == Prepare \/ Leave \/ Receive \/ Insert \/ Count

Next == \/ \E r \in Req : Record(r)
        \/ \E s \in Syncer : SyncSend(s) \/ SyncNothing(s)
        \/ Writer
        \/ Cancel

(* The writer is a goroutine that only waits for its select; a blocked     *)
(* send is served when the channel has room.                               *)
Spec == Init /\ [][Next]_vars /\ WF_vars(Writer) /\ \A s \in Syncer : SF_vars(SyncSend(s))

-----------------------------------------------------------------------------
(* Properties.                                                             *)

(* Types; the channel is bounded. *)
TypeOK ==
  /\ ch \in Seq(Entries) /\ Len(ch) <= Cap
  /\ writer \in {"none", "prepare", "select", "insert", "count", "exited", "disabled"}
  /\ entry \in Req \cup {Nil} /\ cancelled \in BOOLEAN
  /\ rows \in Seq(Req) /\ written \in Nat /\ dropped \in Nat
  /\ caller \in [Entries -> {"idle", "recorded", "waiting", "acked"}]
  /\ accepted \in Seq(Req) /\ failed \subseteq Req /\ ahead \in [Syncer -> SUBSET Req]

Recorded == {r \in Req : caller[r] = "recorded"}
InHand   == {entry} \ {Nil}
Queued   == ToSet(ch) \cap Req

AcceptedBefore(x, y) ==
  \E i, j \in DOMAIN accepted : i < j /\ accepted[i] = x /\ accepted[j] = y

(* Nothing is lost while the writer runs, and nothing is counted twice: if *)
(* there is an auditor, every recorded entry is a written row, a counted drop, a failed insert, *)
(* in the writer's hand or in the channel; what was accepted is in the     *)
(* trail unless it failed or is still on its way, and the trail is in the  *)
(* order of the calls to record.                                           *)
EveryEntryIsAccounted ==
  /\ writer # "none" => Cardinality(Recorded) =
       written + dropped + Cardinality(failed) + Cardinality(InHand) + Cardinality(Queued)
  /\ writer # "count" => Len(rows) = written
  /\ ToSet(accepted) = ToSet(rows) \cup failed \cup InHand \cup Queued
  /\ \A i, j \in DOMAIN rows : i < j => AcceptedBefore(rows[i], rows[j])

(* When sync returns, every entry accepted before its sentinel has been    *)
(* inserted and counted, or its insert has failed.                         *)
SyncWaitsForAllBefore ==
  \A s \in Syncer :
    caller[s] = "acked" => ahead[s] \subseteq ToSet(rows) \cup failed

(* Unless the server is stopped or auditing was disabled at the start,     *)
(* whatever was accepted is inserted or fails, and sync returns: a failed  *)
(* insert or a full channel never stalls the writer.                       *)
EverythingIsFlushed ==
  LET gone == cancelled \/ writer \in {"none", "disabled"}
  IN  /\ \A r \in Req : r \in ToSet(accepted) ~> (r \in ToSet(rows) \cup failed \/ gone)
      /\ \A s \in Syncer : <>(caller[s] = "acked" \/ gone)
=============================================================================
