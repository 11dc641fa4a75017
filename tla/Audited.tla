------------------------------ MODULE Audited ------------------------------
(***************************************************************************)
(* The secret handlers and the audit trail together: every handler of      *)
(* SecretStore ends by handing one entry to the Auditor (recordAudit, the  *)
(* last call before each return of embed.go:539-883), after it has written *)
(* its answer.  A short answer waits in the server's buffer until the      *)
(* handler returns; a long one, a GET of a large secret, leaves as it is   *)
(* written.                                                                *)
(*                                                                         *)
(* The process may be killed at any moment.  The secrets and the rows of   *)
(* the trail stay; handlers, channel, counters and buffered answers do     *)
(* not, and the restarted server begins with an empty channel.             *)
(***************************************************************************)
EXTENDS Auditor

CONSTANTS None, Ops, MaxWant, MaxCrashes, MaxInFlight  \* as in SecretStore

VARIABLES
  secret, version, mtime, pc, op, want, snap, fresh, status, ver,
  epoch, ticket, born, saw, faults, crashes,    \* as in SecretStore
  told,         \* the requests whose answer has left the server
  \* history
  before,       \* before[r]: whose answers had left when r arrived
  lost          \* the requests that a kill kept from the trail

(* The database does not fail here: a 500 is audited like any answer. *)
Store == INSTANCE SecretStore WITH MaxFaults <- 0

trail   == vars
storage == <<secret, version, mtime, pc, op, want, snap, fresh, status, ver,
             epoch, ticket, born, saw, faults, crashes>>
aVars   == <<trail, storage, told, before, lost>>

AuditedInit ==
  /\ Init /\ Store!Init
  /\ told = {} /\ before = [r \in Req |-> {}] /\ lost = {}

-----------------------------------------------------------------------------
Request(r) ==
  /\ Store!Start(r)
  /\ before' = [before EXCEPT ![r] = told]
  /\ UNCHANGED <<trail, told, lost>>

Handle(r) ==
  /\ Store!Step(r)
  /\ UNCHANGED <<trail, told, before, lost>>

(* writeJSON sends what does not fit in the buffer. *)
SendLarge(r) ==
  /\ pc[r] = "done" /\ op[r] = "GET" /\ status[r] = 200
  /\ told' = told \cup {r}
  /\ UNCHANGED <<trail, storage, before, lost>>

EntryOfSuccess(r) == (* mutant: a refused request returns without an entry *)
  /\ pc[r] = "done" /\ status[r] < 300 /\ Record(r)
  /\ UNCHANGED <<storage, told, before, lost>>

(* recordAudit *)
Entry(r) ==
  /\ pc[r] = "done" /\ Record(r)
  /\ UNCHANGED <<storage, told, before, lost>>

ReturnEarly(r) == (* mutant: the answer is sent before the entry is recorded *)
  /\ pc[r] = "done"
  /\ told' = told \cup {r}
  /\ UNCHANGED <<trail, storage, before, lost>>

(* The handler returns, and the server sends what is in the buffer. *)
Return(r) ==
  /\ pc[r] = "done" /\ caller[r] = "recorded"
  /\ told' = told \cup {r}
  /\ UNCHANGED <<trail, storage, before, lost>>

Write == Writer /\ UNCHANGED <<storage, told, before, lost>>

(* A handler that is killed never comes to its entry; entries not yet      *)
(* inserted are gone with the channel.                                     *)
Unrecorded == {r \in Req : pc[r] # "idle" /\ caller[r] = "idle"}
InMemory   == (InHand \cup Queued) \ ToSet(rows)

Kill ==
  /\ Store!Crash
  /\ ch' = <<>> /\ entry' = Nil /\ writer' \in Opened /\ cancelled' = FALSE
  /\ written' = 0 /\ dropped' = 0
  /\ caller' = [x \in Entries |-> IF x \in Unrecorded THEN "killed" ELSE caller[x]]
  /\ lost' = lost \cup Unrecorded \cup InMemory
  /\ UNCHANGED <<rows, accepted, failed, ahead, told, before>>

(* Embedded.Stop cancels the writer once its own server has shut down;     *)
(* handlers that outlast the drain, or that a host still serves, go on.    *)
Stop == Cancel /\ UNCHANGED <<storage, told, before, lost>>

AuditedNext ==
  \/ \E r \in Req : Request(r) \/ Handle(r) \/ SendLarge(r) \/ Entry(r) \/ Return(r)
  \/ Write \/ Stop \/ Kill

(* A handler that has begun runs to its end, and so does the writer. *)
AuditedSpec ==
  /\ AuditedInit /\ [][AuditedNext]_aVars
  /\ WF_aVars(Write)
  /\ \A r \in Req : WF_aVars(Handle(r)) /\ WF_aVars(Entry(r))

-----------------------------------------------------------------------------
(* Properties.                                                             *)

(* A client that waits for its answer before it sends the next request     *)
(* finds the two in this order in the trail: the handler records first and *)
(* answers when it returns.  (Not for a GET of a large secret, which is    *)
(* answered first.)  This also holds across a kill, which may take the     *)
(* earlier one away but never moves it.                                    *)
TrailInClientOrder ==
  \A i, j \in DOMAIN rows :
    rows[i] \in before[rows[j]] /\ op[rows[i]] # "GET" => i < j

(* "Every request emits one audit row" (embed.go:531): whatever a handler  *)
(* did and answered, its row is written in the end, or its insert has      *)
(* failed, or record did not take it (the channel was full, or there is no *)
(* auditor), or the process was killed before the row was there, or it is  *)
(* stranded in the channel of a writer that has returned, because Stop     *)
(* cancelled it (audit.go:144) or it had no INSERT (audit.go:139).         *)
EveryRequestIsAudited ==
  \A r \in Req :
    pc[r] # "idle" ~>
      \/ r \in ToSet(rows) \cup failed \cup lost
      \/ caller[r] = "recorded" /\ r \notin ToSet(accepted)
      \/ writer \in {"exited", "disabled"} /\ r \in Queued
=============================================================================
