------------------------------ MODULE KmsFetch ------------------------------
(***************************************************************************)
(* The init container kms-fetch (cmd/kms-fetch/main.go) with the client it *)
(* uses (sdk/go/kmsclient): it fetches every secret of KMS_SECRETS, one    *)
(* after the other, and only then writes one file per name and the         *)
(* aggregate `env` into a volume that outlives it.  The kubelet starts it  *)
(* again until it exits 0.  Over HTTP each fetch takes a bearer token from *)
(* the client's cache, which IAM fills; over ZAP there is no token.        *)
(* Meanwhile others create and rotate the secrets.                         *)
(*                                                                         *)
(* The names to write and the secrets to read are given by Specs, a        *)
(* sequence of records [name, secret]; a name may occur twice.             *)
(***************************************************************************)
EXTENDS Integers, Sequences

CONSTANTS
  Secret,       \* the secrets in the KMS
  Specs,        \* KMS_SECRETS
  Transports,   \* the transports tried: "http", "zap"
  Lifetime,     \* how long a token lives; IAM says so in its answer
  Skew,         \* how long before the expiry the client drops a token
  GetTimeout,   \* the deadline of one Get
  None,         \* no file
  MaxTime,      \* bound: the clock stops here
  MaxRuns,      \* bound: how often the container is started
  MaxVersion    \* bound: how often a secret is rotated

Names  == {Specs[i].name : i \in DOMAIN Specs}

ASSUME SpecsAssumption == Specs # <<>> /\ Specs \in Seq([name : Names, secret : Secret])
ASSUME TransportAssumption == Transports \subseteq {"http", "zap"}
ASSUME BoundsAssumption == MaxTime \in Nat /\ MaxRuns \in Nat /\ MaxVersion \in Nat
ASSUME NoneAssumption == None \notin [Names -> [ver : Nat, run : Nat]]

(* 60 s against 10 s, and tokens that live for longer than one Get takes.  *)
ASSUME SkewAssumption == /\ GetTimeout \in Nat /\ Skew \in Nat /\ Lifetime \in Nat
                         /\ Skew >= 2 * GetTimeout /\ Lifetime > GetTimeout

VARIABLES
  now,          \* the clock
  current,      \* current[s]: the version of secret s, 0 when there is none
  transport,    \* how the container reaches the KMS
  pc,           \* what the process does next
  run,          \* which start of the container this is
  entry,        \* the entry of Specs it fetches
  values,       \* values[n]: what it fetched for name n
  answer,       \* the version in the answer on its way to it
  deadline,     \* when the current Get gives up
  expiry,       \* the client's cache: when its token expires, 0 without one
  exp,          \* the `exp` claim of the token, as the server checks it
  todo,         \* the names it has still to write
  \* the volume
  files,        \* files[n]: the content of OUT_DIR/n
  env,          \* the content of OUT_DIR/env
  \* history
  found,        \* files and env when the container started
  atStart,      \* current when the container started
  refused       \* the server has answered 401

volume  == <<files, env>>
cached  == <<expiry, exp>>
past    == <<found, atStart>>
vars    == <<now, current, transport, pc, run, entry, values, answer, deadline, cached,
             todo, volume, past, refused>>

Absent  == [ver |-> 0, run |-> 0]
Waiting == {"iam", "iamReply", "request", "reply"}
Ended   == {"off", "exit0", "exit1", "exit3", "exit4", "killed"}

Init ==
  /\ now = 0 /\ current \in [Secret -> {0, 1}]
  /\ transport \in Transports
  /\ pc = "off" /\ run = 0 /\ entry = 1
  /\ values = [n \in Names |-> Absent] /\ answer = 0 /\ deadline = 0
  /\ expiry = 0 /\ exp = 0 /\ todo = {}
  /\ files = [n \in Names |-> Absent] /\ env = None
  /\ found = <<files, env>> /\ atStart = current
  /\ refused = FALSE

-----------------------------------------------------------------------------
(* A new process starts with an empty token cache on the old volume. *)
Start ==
  /\ pc \in Ended \ {"exit0"} /\ run < MaxRuns
  /\ run' = run + 1 /\ pc' = "dial"
  /\ entry' = 1 /\ values' = [n \in Names |-> Absent]
  /\ expiry' = 0 /\ exp' = 0 /\ todo' = {}
  /\ found' = volume /\ atStart' = current
  /\ UNCHANGED <<now, current, transport, answer, deadline, volume, refused>>

(* The client of the KMS; only ZAP dials here. *)
Dial ==
  /\ pc = "dial"
  /\ \/ pc' = "get"
     \/ transport = "zap" /\ pc' = "exit3"
  /\ UNCHANGED <<now, current, transport, run, entry, values, answer, deadline, cached,
                 todo, volume, past, refused>>

UsableLate == now < expiry (* mutant: a token is used to its last second *)

Usable == now < expiry - Skew

(* Get, up to its first message: over HTTP it needs a token. *)
Get ==
  /\ pc = "get"
  /\ deadline' = now + GetTimeout
  /\ pc' = IF transport = "http" /\ ~Usable THEN "iam" ELSE "request"
  /\ UNCHANGED <<now, current, transport, run, entry, values, answer, cached,
                 todo, volume, past, refused>>

IamIssues ==
  /\ pc = "iam"
  /\ exp' = now + Lifetime
  /\ pc' = "iamReply"
  /\ UNCHANGED <<now, current, transport, run, entry, values, answer, deadline, expiry,
                 todo, volume, past, refused>>

(* The client counts the lifetime from when the answer arrives. *)
TokenArrives ==
  /\ pc = "iamReply"
  /\ expiry' = now + Lifetime
  /\ pc' = "request"
  /\ UNCHANGED <<now, current, transport, run, entry, values, answer, deadline, exp,
                 todo, volume, past, refused>>

Wanted == Specs[entry].secret

(* The server verifies the token and reads the secret. *)
ServerAnswers ==
  /\ pc = "request"
  /\ \/ /\ transport = "http" /\ exp <= now
        /\ refused' = TRUE /\ pc' = "exit4" /\ UNCHANGED answer
     \/ /\ transport = "http" => now < exp
        /\ \/ current[Wanted] = 0 /\ pc' = "exit4" /\ UNCHANGED answer
           \/ current[Wanted] > 0 /\ pc' = "reply" /\ answer' = current[Wanted]
        /\ UNCHANGED refused
  /\ UNCHANGED <<now, current, transport, run, entry, values, deadline, cached,
                 todo, volume, past>>

MoreTooOften == entry <= Len(Specs) (* mutant *)

More == entry < Len(Specs)

WriteAsYouGo == (* mutant: writes each file as soon as its value is there *)
  /\ pc = "reply"
  /\ values' = [values EXCEPT ![Specs[entry].name] = [ver |-> answer, run |-> run]]
  /\ files' = [files EXCEPT ![Specs[entry].name] = [ver |-> answer, run |-> run]]
  /\ IF More THEN entry' = entry + 1 /\ pc' = "get"
                           ELSE entry' = entry /\ pc' = "mkdir"
  /\ UNCHANGED <<now, current, transport, run, answer, deadline, cached,
                 todo, env, past, refused>>

(* The next Get, or the directory when all is fetched. *)
ValueArrives ==
  /\ pc = "reply"
  /\ values' = [values EXCEPT ![Specs[entry].name] = [ver |-> answer, run |-> run]]
  /\ IF More THEN entry' = entry + 1 /\ pc' = "get"
                           ELSE entry' = entry /\ pc' = "mkdir"
  /\ UNCHANGED <<now, current, transport, run, answer, deadline, cached,
                 todo, volume, past, refused>>

(* IAM or the KMS is unreachable, answers another status, or the deadline  *)
(* passes.  No Get is tried twice.                                         *)
GetIsRetried == (* mutant *)
  /\ pc \in Waiting
  /\ pc' = "get"
  /\ UNCHANGED <<now, current, transport, run, entry, values, answer, deadline, cached,
                 todo, volume, past, refused>>

GetFails ==
  /\ pc \in Waiting
  /\ pc' = "exit4"
  /\ UNCHANGED <<now, current, transport, run, entry, values, answer, deadline, cached,
                 todo, volume, past, refused>>

-----------------------------------------------------------------------------
Mkdir ==
  /\ pc = "mkdir"
  /\ \/ pc' = "write" /\ todo' = Names
     \/ pc' = "exit1" /\ UNCHANGED todo
  /\ UNCHANGED <<now, current, transport, run, entry, values, answer, deadline, cached,
                 volume, past, refused>>

(* Files appear by rename, in the order of a map, that is, in any.  With   *)
(* all of them written, the aggregate is next.                             *)
SkipFile(n) == (* mutant: a file that is there already is not replaced *)
  IF files[n] = Absent THEN files' = [files EXCEPT ![n] = values[n]] ELSE UNCHANGED files

Replace(n) == files' = [files EXCEPT ![n] = values[n]]

WriteFile(n) ==
  /\ pc = "write" /\ n \in todo
  /\ \/ /\ Replace(n) /\ todo' = todo \ {n}
        /\ UNCHANGED pc
     \/ pc' = "exit1" /\ UNCHANGED <<files, todo>>
  /\ UNCHANGED <<now, current, transport, run, entry, values, answer, deadline, cached,
                 env, past, refused>>

(* WRITE_ENV_FILE is true by default. *)
WriteEnvAnyTime == (* mutant: does not wait for the files *)
  /\ pc = "write"
  /\ env' = values /\ UNCHANGED <<now, current, transport, run, entry, values, answer,
                 deadline, cached, todo, files, past, refused>>
  /\ pc' = IF todo = {} THEN "exit0" ELSE "write"

WriteEnv ==
  /\ pc = "write" /\ todo = {}
  /\ \/ env' = values /\ pc' = "exit0"
     \/ pc' = "exit1" /\ UNCHANGED env
  /\ UNCHANGED <<now, current, transport, run, entry, values, answer, deadline, cached,
                 todo, files, past, refused>>

Kill ==
  /\ pc \notin Ended
  /\ pc' = "killed"
  /\ UNCHANGED <<now, current, transport, run, entry, values, answer, deadline, cached,
                 todo, volume, past, refused>>

-----------------------------------------------------------------------------
(* Others write secrets; what a deletion does to a Get is GetFails. *)
Rotate(s) ==
  /\ current[s] < MaxVersion
  /\ current' = [current EXCEPT ![s] = @ + 1]
  /\ UNCHANGED <<now, transport, pc, run, entry, values, answer, deadline, cached,
                 todo, volume, past, refused>>

Tick ==
  /\ now < MaxTime
  /\ pc \in Waiting => now < deadline
  /\ now' = now + 1
  /\ UNCHANGED <<current, transport, pc, run, entry, values, answer, deadline, cached,
                 todo, volume, past, refused>>

Step == \/ Dial \/ Get \/ IamIssues \/ TokenArrives \/ ServerAnswers \/ ValueArrives
        \/ GetFails \/ Mkdir \/ (\E n \in Names : WriteFile(n)) \/ WriteEnv

Next == Start \/ Step \/ Kill \/ Tick \/ \E s \in Secret : Rotate(s)

(* The process runs, and its messages are answered or time out. *)
Spec == Init /\ [][Next]_vars /\ WF_vars(Step)

-----------------------------------------------------------------------------
(* Properties.                                                             *)

Fetched == [ver : Nat, run : Nat]

(* Types; a process that waits does so within its deadline. *)
TypeOK ==
  /\ now \in Nat /\ current \in [Secret -> Nat] /\ transport \in Transports
  /\ pc \in Ended \cup Waiting \cup {"dial", "get", "mkdir", "write"}
  /\ run \in Nat /\ entry \in DOMAIN Specs
  /\ values \in [Names -> Fetched] /\ answer \in Nat /\ deadline \in Nat
  /\ expiry \in Nat /\ exp \in Nat /\ todo \subseteq Names
  /\ files \in [Names -> Fetched] /\ env \in [Names -> Fetched] \cup {None}
  /\ found \in [Names -> Fetched] \X ([Names -> Fetched] \cup {None}) /\ atStart \in [Secret -> Nat]
  /\ refused \in BOOLEAN
  /\ pc \in Waiting => now <= deadline

(* "no partial writes - atomic or abort": a start that fails to fetch one  *)
(* of its secrets leaves the volume as it found it, whatever earlier       *)
(* starts have left there.                                                 *)
AbortsWithoutTrace == pc \in {"exit3", "exit4"} => volume = found

(* The secret that a name stands for: the last entry wins. *)
SecretOf(n) ==
  LET last == CHOOSE i \in DOMAIN Specs :
                /\ Specs[i].name = n
                /\ \A j \in DOMAIN Specs : Specs[j].name = n => j <= i
  IN  Specs[last].secret

(* Exit code 0 says that every file and the aggregate hold what this start *)
(* fetched, and nothing older than the secrets were when it began, however *)
(* many starts have failed before it.                                      *)
SuccessIsComplete ==
  pc = "exit0" =>
    /\ env = files
    /\ \A n \in Names : files[n].run = run /\ files[n].ver >= atStart[SecretOf(n)]

(* Kills and failed starts leave files of different starts side by side,   *)
(* but never an aggregate that is newer than one of the files: a wrapper   *)
(* that sources `env` does not run ahead of a reader of the files.         *)
EnvIsLast ==
  env # None => \A n \in Names : files[n].run >= env[n].run

(* No fetch is refused for a token that expired on its way: the skew       *)
(* covers both the answer of IAM and the request.                          *)
TokenOutlivesItsUse == ~refused

(* Every start comes to an end, whatever IAM and the KMS do. *)
EveryStartEnds == pc = "dial" ~> pc \in Ended
=============================================================================
