----------------------------- MODULE CasCounter -----------------------------
(***************************************************************************)
(* What the version counter of one secret promises its writers: a register *)
(* that is compared and incremented in ONE step.  A writer holds at most   *)
(* one ticket, the version its increment produced; a reset opens a new era *)
(* in which versions start from 0 again.  SecretStore implements it with   *)
(* optimistic transactions of the database (versioning.go, bumpVersion and *)
(* deleteVersion).                                                         *)
(***************************************************************************)
EXTENDS Integers

CONSTANT Req        \* the writers

VARIABLES
  version,          \* the counter; 0 when there is no record
  epoch,            \* how many times the record was deleted
  want,             \* want[r]: the version writer r expects, -1 for "any"
  ticket            \* ticket[r]: the era and version of r's increment

counterVars == <<version, epoch, want, ticket>>

Stamp  == [era : Nat, ver : Nat]
NoStamp == [era |-> 0, ver |-> 0]

CounterInit ==
  /\ version = 0
  /\ epoch = 0
  /\ want = [r \in Req |-> -1]
  /\ ticket = [r \in Req |-> NoStamp]

(* A writer without a ticket states the version it expects. *)
Expect(r) ==
  /\ ticket[r] = NoStamp
  /\ want'[r] \in Nat
  /\ want' = [want EXCEPT ![r] = want'[r]]
  /\ UNCHANGED <<version, epoch, ticket>>

(* Compare and increment, in one step. *)
Increment(r) ==
  /\ ticket[r] = NoStamp
  /\ want[r] \in {-1, version}
  /\ version' = version + 1
  /\ ticket' = [ticket EXCEPT ![r] = [era |-> epoch, ver |-> version + 1]]
  /\ UNCHANGED <<epoch, want>>

(* The record is removed with the secret. *)
Reset ==
  /\ version' = 0
  /\ epoch' = epoch + 1
  /\ UNCHANGED <<want, ticket>>

CounterNext == Reset \/ \E r \in Req : Expect(r) \/ Increment(r)

CounterSpec == CounterInit /\ [][CounterNext]_counterVars
=============================================================================
