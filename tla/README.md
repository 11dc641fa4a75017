# Hanzo KMS in TLA+

This directory holds a formal model of the key management service in this
repository: TLA+ modules that follow the Go source, TLC configurations that check them
on small instances, and proofs, checked by TLAPS, of the properties that carry most
weight. `PROJECT.json` is the index: which definition stands for which lines of which
file, which run checks which property, which hazard of the code each property is about.

Everything here is about the commit the sources are at. A comment such as
`embed.go:707` means that line of that file.

## The system

One process, `kmsd` (or the fused cloud binary, through `mount.go`), serves secrets over
HTTP and over ZAP from an embedded database (zapdb, a badger fork). Callers present a JWT that
Hanzo IAM has issued. Every access is recorded in a SQLite audit trail. An init
container, `kms-fetch`, copies secrets into a pod's volume before the pod starts. A second,
separate client, the zero-knowledge SDK, talks to a set of MPC nodes that never see
plaintext.

### Inventory

| Component | Source | State it keeps | Operations |
|---|---|---|---|
| Secret handlers | `embed.go:514-924`, `versioning.go` | three sibling rows per secret: value, version counter, modification time | GET, POST (upsert), PATCH (compare and set), DELETE |
| Addressing and listing | `embed.go:1143-1180`, `secrets_list.go` | the keys `kms/secrets/{path}/{env}/{name}` | build and parse a key; list an org's metadata |
| Authentication | `auth.go`, `embed.go:1087-1138` | issuer, audiences, the key cache | `verifyJWT`, `authorize`, `canActOnOrg`, `isAdmin` |
| JWKS cache | `jwks.go` | the RSA keys of IAM, their expiry, two locks | `resolve`, `refresh` |
| Audit trail | `audit.go` | a bounded channel, one writer goroutine, counters, the SQLite table | `record`, `sync`, the writer, its cancellation |
| Lifecycle | `embed.go:138-392`, `mount.go`, `cmd/kmsd` | HTTP server, ZAP node, replicator, audit writer, database, each behind a field of `Embedded` | `Embed` step by step, `Stop`, the listening goroutine, the context watcher, `Mount`, `Shutdown` |
| kms-fetch | `cmd/kms-fetch`, `sdk/go/kmsclient` | fetched values, the volume, a cached token | fetch all, write the files, write the aggregate |
| kmsclient | `sdk/go/kmsclient` | the cached IAM token | Get, Put, List, Delete, FetchEnv over HTTP or ZAP |
| ZK SDK | `sdk/go` | the customer encryption key (CEK) | Bootstrap, Unlock, Lock; secrets, members, compliance; Sync, Watch |
| Consensus authorizer | `consensus.go` | none after boot | read two authority sets, build the authorizer |
| MPC key routes | `embed.go:926-1079` | none of their own | generate, list, get, sign, rotate |
| kms CLI | `cmd/kms` | none | put, get, list, rotate, status: one exchange each, through kmsclient |
| The rest | `cmd/smoke-zap`, `frontend/`, header and method filters, the login proxy | none | |

External code (`luxfi/kms` store and ZAP server, `luxfi/zapdb`, the MPC daemon, IAM,
golang-jwt, SQLite) is modelled by what `src/` relies on.

### How the parts interact

* An HTTP request goes through `authorize` (which may call `jwksCache.resolve`, and
  through it IAM), `canActOnOrg`, the parsing of path, name and environment, then a sequence of
  **separate** database transactions, then the answer, then `recordAudit`, which
  puts an entry into the channel and never waits.
* The audit writer drains the channel into SQLite in a goroutine of its own.
* `Stop` tears the resources down in the order HTTP server, ZAP node, replicator, audit
  writer, database. It is called by the host and by a goroutine that waits for the
  context; the two share the fields without a lock.
* `Embed` makes the resources one after the other; three of its steps can fail, others end the
  process. It leaves two goroutines behind, one that listens and one that waits for the context, and
  both read the fields that `Stop` clears.
* The CLI and every Go service reach the server through kmsclient, which turns one argument
  `path/name` into a body (put) or a URL (get, delete), and a listing into lines.
* `kms-fetch` is one sequential process, but what it leaves on the volume outlives it: the
  kubelet starts it again after a failure or a kill.
* The SDK sends a change to all nodes at once and counts successes; it reads from
  whichever nodes answer first. The nodes gossip.

### What is hard about it

* **Atomicity.** No handler has a transaction that spans its rows: value and version are
  written, and read, apart. Two requests, or a request and a kill, come between any two.
* **Optimistic commits.** The version bump is read, then committed; the database
  refuses a commit whose read is stale, and the code never retries.
* **Stale keys.** Keys are cached, IAM rotates them, a fetch may be slow, and many
  goroutines queue for one refresh.
* **A full channel, a dead writer.** Entries are dropped, and must at least be counted.
* **Boot, shutdown order and double shutdown.** What a boot that fails leaves open; goroutines that start
  late; a Stop beside another.
* **Two sides of a wire.** Client and server are tested apart, each against its own idea of the other.
* **Partial failure.** Some secrets fetched, some files written, some nodes answered.
* **Time.** Tokens expire on their way; a fetch outlives a cache entry.

### What makes each part correct

| Component | Correct means |
|---|---|
| Secret handlers | versions are unique; a stale PATCH never commits; a refusal leaves no trace; a settled secret has a version; the bump is as good as an atomic compare-and-increment |
| Addressing and listing, with CLI and kmsclient | what was put is got; rows lead back to their secrets; a listing is complete or says it is not, and never leaves its org |
| Authentication, JWKS cache | a withdrawn key stops working after a bounded time; a good token is refused only if IAM is to blame; nobody fetches a key that somebody else's fetch has just brought |
| Audit trail | every entry is written, counted as dropped, failed, or still queued; the trail is in order, also in the order a client sees; every request has its row; `sync` waits for what came before it |
| Lifecycle | a failed boot holds nothing; ZAP fails closed; nothing is taken down before its users; a second Stop does nothing; a context's end stops the server; a request is answered from a closed database only for one of two named causes |
| kms-fetch | a failed start leaves no trace; exit 0 means complete; the aggregate is never ahead of the files; no token expires on its way; each start ends |
| kmsclient | an acknowledged write is what is stored; FetchEnv's count and error are exact and it spares what the operator set; every call returns |
| ZK SDK | an acknowledged change is on a quorum; quorums meet; a read fails only for want of nodes or for a blob under another key |

## The modules

| Module | Models | Checked by | Proved in |
|---|---|---|---|
| `CasCounter` | abstract: a register that is compared and incremented in one step | as a property of `SecretStore` | `SecretStoreProofs` |
| `SecretStore` | the four handlers on one secret | `store`, `store_torn_read` | `SecretStoreProofs` |
| `SecretKeys` | keys, the org gate, the listing; the CLI and kmsclient in front of them | `keys`, `keys_list` | `SecretKeysProofs` |
| `JWKSCache` | the key cache and IAM's rotation | `access`, under `Access` | `AccessProofs` |
| `Access` | `verifyJWT`, `authorize`, the org and admin gates, composed with `JWKSCache` | `access` | `AccessProofs` |
| `Auditor` | the audit channel and its writer | `audit` | `AuditProofs` |
| `Audited` | `SecretStore` (by INSTANCE) composed with `Auditor`, across a kill | `audited` | `AuditProofs` |
| `Embedded` | the resources of the server, `Stop`, the requests in flight | `embedded`, under `Boot` | `BootProofs` |
| `Boot` | `Embed` step by step, the consensus snapshot, `Mount`, kmsd | `embedded` | `BootProofs` |
| `KmsFetch` | the init container, its client and its volume | `fetch` | `KmsFetchProofs` |
| `Kmsclient` | the service client and the goroutines that share it | `kmsclient` | `KmsclientProofs` |
| `ZkQuorum` | the SDK client, its key, and the MPC nodes | `zk`, `zk_get` | `ZkQuorumProofs` |
| `MC*` | the constants of the small instances, and symmetry sets | | |

### SecretStore

`secret`, `version`, `mtime` are the three rows. `pc[r]` names the next transaction of
request `r`; each action is one transaction of one handler together with the answer
or the jump that follows it. So GET is `ReadValue`, `ReadVersion` (`embed.go:563`, `569`);
POST is `Put`, `BumpRead`, `BumpCommit`, `StampMtime`; PATCH is `Find`, `BumpRead`,
`BumpCommit`, `Put`, `StampMtime`, with `ReportMismatch` when its condition fails; DELETE
removes the three rows one by one. `bumpVersion` reads and writes in one optimistic
transaction: `BumpRead` remembers the counter, `fresh` holds the requests whose read is
still current, and `BumpCommit` fails for the others. `Fault` is an error of the database; the
handlers take every error of a lookup for "not found". `Crash` kills the process: rows
stay, requests in flight are lost.

A PATCH gets its expected version from `If-Match` and from the body; `StartPatch` has the
four outcomes (both and different, none, negative, usable). The other checks before the first
transaction read and write no row: they belong to `Access` and `SecretKeys`.

`epoch`, `ticket`, `born` and `saw` are history and read by properties only: how often the
counter was deleted, which version a request committed, what the counter was when
it arrived, and which value it returned or replaced. `ver` is what a request was told: a POST whose bump lost its
commit is told the version it tried for, which another write has, as the code does (`VersionsHaveOneWriter` says
that nobody else is told a version that is not his).

`CasCounter` says what the counter promises. `Counter == INSTANCE CasCounter` maps its
variables to those of the same name (INSTANCE ... WITH); `ImplementsCasCounter` says that every step of the
handlers is an increment, a reset or a stutter of it.

### SecretKeys

A string is the sequence of its segments between slashes, so joining with "/" is
concatenation. `Key`, `Lookup`, `Parse`, `SafePath`, `Covers` and `Contained` are the
functions of the source on that representation. A listing takes three steps: the request is
validated, one read transaction scans a snapshot of the keys up to `maxListRows`, and the
answer goes out; POSTs and DELETEs come in between. The scan of the model collects any
`MaxRows` of the matching keys, the code the first in key order.

The other side of the wire is `SplitPath`, `IsPathName` (`cmd/kms/main.go`), `PutBody`, `SecretPath`,
`Items`, `Lines` (`kmsclient/client.go`). `CliPut` is a POST whose body is made from one argument, and
`Gets(arg, k)` says that `kms get arg` makes the server look up key `k`. `author[k]` is the secret
(path, environment, name) last written to key `k`, and `put` is history: the arguments that were put and not
deleted since.

The exceptions in the two properties are the ones the proofs need. `PutIsGot` does not say what was
put if a POST took the same key with an environment *or a name* that has a slash in it: `safePath` lets a
name be `default/K`, and at path `brand` in environment `acme` its key is that of `brand/acme/K`. `RowsLeadBack` is
about keys of safe segments: POST does not look at the characters of `env`, and a row made from `a//b`
or `..` leads nowhere. Without the one TLC finds a counterexample as soon as `Names` has a name of two
segments, without the other as soon as `Envs` has an environment with an empty one.

### JWKSCache and Access

`JWKSCache` has one label per section under `c.mu` and per wait: the fast path under the read
lock, the wait for `refreshMu`, the second look, the fetch, the installation under the write
lock, the last look. `published` is IAM's key set, which it changes at any moment; a
withdrawn key stays withdrawn. Time passes between any two steps, except that from the
request of a fetch to its installation at most `GetTimeout` elapses. That exception is the one
idealisation: in the code the timeout covers the exchange, not the few instructions between
its end and the lock.

`Access` EXTENDS it: `RefuseAtOnce` is what `verifyJWT` refuses before it looks for a key,
`VerifyJWT` the call of `resolve` (through `Resolve`), `Resolving` each step of `resolve` by
that goroutine, `Authorize` the rest: signature, `exp` and `nbf` at the moment of the check,
issuer, audience, subject, then the org. The order (method, key, signature, times, and then the
claims the code checks itself) is that of golang-jwt's `Parse`. The cache
holds RSA keys only, so an ES or EdDSA token passes the allowlist, costs a lookup, and fails.

### Auditor

`ch` is the channel, `writer` the writer's place in its loop: `Prepare`, `Receive`, `Insert`,
`Count`, `Leave`; it is "none" when `newAuditor` could not open the database (`MayNotOpen`) and there is no auditor, so
that `Record` and `SyncNothing` do nothing. `accepted`, `ahead` and `failed` are history: the entries in the order in which the
channel took them, those a sync has to wait for, those whose insert failed. `EveryEntryIsAccounted` says where
each recorded entry is, that they add up, and that the rows are in the order of acceptance. `Record` appends or counts a drop. `Cancel` is Stop's; the writer's select may
then choose either ready case, as Go's does. `sync`'s sentinel goes through the same channel.

### Audited

EXTENDS `Auditor` and has `SecretStore` as `Store == INSTANCE SecretStore WITH MaxFaults <- 0`: an entry of
the trail is a request of the store. `Handle` is a step of a handler, `Entry` the `recordAudit` before its
return, `Return` the moment the answer leaves the server's buffer; `SendLarge` is a GET whose answer does not fit
in the buffer and leaves earlier. `Kill` composes the crash of the store with that of the trail: rows of both stay, the
channel, the counters and the handlers go, and the database may not open again. `Stop` cancels the writer, while handlers
that outlast the drain go on: what the writer leaves in the channel is lost (`EveryRequestIsAudited` names this
and the other causes). `before` and `lost` are history: which answers had left when a
request arrived, and what a kill took.

### Embedded

`field[f]` says that a field of `Embedded` is not nil, `running[f]` that the resource works.
A stopper is at one field after the other, looks (`Look`), calls the resource's stop
(`Use`), for the HTTP server waits for the requests (`Drain`), and sets the field to nil
(`Clear`), as the code does, without a lock. Two stoppers, the host and the watcher, may
both have looked before one clears: using a nil field is `panicked`. `overlapped` is history: somebody has entered Stop while
somebody else was in it. `StopIsIdempotent` (`Boot`) is about the other behaviours, in which the host and the watcher may
both call Stop, one after the other, and the host again, unless one of them came before the listening goroutine had
read its field. `Drain` may give up
(`DrainTimesOut`): Shutdown waits ten seconds, a response may take sixty. In a mounted server the
host's listener feeds the handler and is closed after `Stop`, as in `cmd/kmsd/main.go:91-92`; `FalseNotFoundHasCause` says
that no request is told a wrong 404 through it before the host has called Stop.

### Boot

EXTENDS `Embedded` with how its fields come to be; `boot` is the step `Embed` is at. `Configure`, `MkdirAll`
and `OpenDb` may refuse (an error is returned), `RegisterRoutes`, `StartZAPSecretServer`, `Listen` and
`MountFails` may end the process (`log.Crit`), the others make do without what failed. `StartZAPSecretServer`
evaluates `LoadConsensusSnapshot` and `BuildConsensusAuthorizer` on every file (not named, not there, not
readable, no JSON, or two lists) and every environment, over lists of well-formed and malformed ids. The
goroutine that listens reads its field when it gets to it (`Listen`): it may find nil, or a server already shut
down. `mode` chooses between the server with its own listener and the one mounted in a host, whose
handle `Mount` keeps and `Unmount` forgets.

### KmsFetch

One process with a `pc`, the client's token cache, a clock, the volume. `Start`, `Dial`, `Get`,
the token exchange, the request and its answer, the writes, `Kill` at any moment, `Rotate` by
others. Files carry the version they hold and the start that wrote them. Writing a file is
atomic because the code writes a temporary file and renames it; the temporary file a kill leaves behind, which
nothing reads or removes, is left out. The order of the files is the
order of a Go map: any.

### Kmsclient

`pc[t]` takes a goroutine through one call: the wait for `c.mu` (`Lock`), the exchange with IAM
while it holds it, `Send`, the wait, `Receive`. `Fail` is every error return: it ends the call, or
in FetchEnv the round. A write is a message in `net` that the server handles when it arrives, also
after its caller has given up (`GiveUp`: the HTTP client's timeout, the end of the context, a
broken connection); a caller that waits for the mutex cannot give up, as in the code. There is no
clock: the token ages at any moment (`TokenAges`), and one that comes with less than the skew to
live serves one call (`TokenArrives`). Get and List are one action, `Read`, because the client
does not look at what they return; the methods of `tenant.go` are `ById`, also the four that write (`UpdateSecret`,
`DeleteByID`, `RotateSecret`, `PutTenantConfig`): this server has no routes for them, and what another would do is left
to `WrittenElsewhere`. In FetchEnv the value
matters: `Look` and `SetVar` are the two halves of `setEnvIfEmpty`. `WrittenElsewhere` is
everybody else's client. `sure` and `alone` are history: what an acknowledged write left behind,
and whether another write to the secret was under way.

### ZkQuorum

`out[o][n]` is the request of operation `o` to node `n`, `applied[n]` what the node holds, `body` what it
answered. Requests are applied late or not at all, answers get lost, nodes gossip. A change
returns when all requests are back; a read when `Threshold` have answered, or all are
back. The SDK's operations are one change, one read or (break-glass, regulator export) a
change and then a read, so each is covered by a `Change` or a `Read`.

`cek` is the key the client holds: `Unlock` takes any passphrase and derives a key from it, which nothing
compares with the key of the org; `Bootstrap` installs its own when it succeeds. An operation copies the key when it begins
(`keyOf`). `Seal` is the key and a nonce: two seals of one name differ, so a node answers a Get with 404
unless the name was sealed by that very call. A List opens every blob of the first answer, or fails.

## The runs

Bounds are CONSTANTS and stand in the cfg.

| Run | Instance | What it shows |
|---|---|---|
| `store` | three requests, any method, versions up to 2 in conditions, one failing transaction, one kill, all in flight at once | the safety of the handlers and the refinement of `CasCounter` |
| `access` | two goroutines, two keys, three ticks, six requests of which one is to an admin route | no fetch is wasted; no token of a key that was withdrawn more than TTL + timeout before it came is admitted; no good one is refused without cause |
| `audit` | four requests and a sync on a channel of two, one failing insert, the database may not open, Prepare may fail, cancellation | accounting, order, `sync`, flushing |
| `audited` | two requests of any method, a channel of one, one failing insert, the database may not open, Prepare may fail, a Stop, one kill | the trail is in the order a client sees, and every request has its row or a named reason not to |
| `embedded` | own listener or mounted, every failure of a step, every snapshot, two calls of Stop by the host and one by the watcher, beside or after one another, the context ends, two requests that may outlast the drain | a failed boot holds nothing, ZAP fails closed, order, idempotence, the causes of a false 404, and that the server stops |
| `fetch` | three entries for two names, two transports, two starts, rotation, four ticks | atomic or abort, completeness, the aggregate, tokens, termination |
| `keys` | orgs `acme` and `acmefoo`, three paths, an environment with a slash, arguments of the CLI with and without one, `MaxRows` 2 | the listing, and that put, get, list and delete agree on keys |
| `kmsclient` | two goroutines, two calls of any kind, one secret, two variables of which one is the operator's | writes, FetchEnv, and that every call returns |
| `zk` | three nodes, threshold two, a Bootstrap, a Set and a List, two passphrases, lost requests | the quorum, and why a read fails |
| `store_torn_read` | GET, POST, PATCH, four requests | **violated**: a PATCH can replace a value that was never read |
| `keys_list` | as `keys` | **violated**: kmsclient finds no row in any listing |
| `zk_get` | three nodes, a Set and a Get under the one key | **violated**: a Get after an acknowledged Set is answered 404 by all nodes |

Why the bounds are enough. A race on the counter needs two bumps and a witness, hence
three requests; conflicts need no more than one commit between a read and a
commit. `StalePatchNeverCommits` needs a version that has moved past an expected one: 2 and 1.
A revoked key survives at worst for TTL + fetch: with both 1, three ticks reach one past it.
A channel of two with four entries fills, overflows and drains. Two names with one that
occurs twice meet the overwrite; two starts meet a volume that a killed start left behind.
Two calls are two FetchEnvs that race for a variable, two writes to one secret, or a write that was given
up and one that is acknowledged; what more callers would write, `WrittenElsewhere` writes.
Three nodes with threshold two are the smallest system in which two different quorums
exist; a wrong passphrase needs a second key. `MaxRows` 2 is exceeded by one with the three paths. In `audited` two requests
suffice for one answered before the other arrives, and a channel of one is full with the first. `Boot` has one of each
resource, as the code; a second call of Stop and the watcher are the callers there are.

Each property has a mutant in its module, marked `(* mutant ... *)`, a plausible
slip in the code (a lost recheck, a swapped order, a missing conflict check); with the mutant in
place of the definition, TLC finds that property violated. The mutants are used nowhere else.

Deadlock checking is off where a system may stop: after all requests of `SecretStore` are done, after the
audit writer, a server or a container has ended, after all operations of the SDK have returned.

### Fairness

* `Kmsclient`: weak fairness on the steps of a goroutine, justified by the scheduler and, while it waits,
  by the timeout of the HTTP client (15 s by default; a caller who brings a client without one is on his
  own); strong fairness on taking `c.mu`, because Go's mutex turns to first-in-first-out once
  somebody has waited for a millisecond. Neither the network nor the server nor IAM owes an answer.
* `Auditor`: weak fairness on the writer, a goroutine that only waits for its select; strong
  fairness on a blocked send, as channel senders queue.
* `Boot`: weak fairness on the steps of `Embed`, on the two goroutines it leaves behind, on the stoppers and
  on handlers; none on who calls Stop or ends a context, nor on the host.
* `Audited`: weak fairness on the writer and on a handler that has begun; none on clients, nor on the kill.
* `KmsFetch`: weak fairness on the process; every wait in it has a deadline.
* `SecretStore`, `SecretKeys`, `JWKSCache`, `Access`, `ZkQuorum`: none, and no liveness is claimed. (`resolve`
  holds `refreshMu` across its fetch just as `getToken` does `c.mu`, with the same timeout.)

## What is proved

For every value of the constants that satisfies the assumptions named in the modules, TLAPS
has checked:

**`SecretStoreProofs`**

* `TypeCorrect`: `Spec => []TypeOK`.
* `VersionsUnique`: `Spec => []VersionsHaveOneWriter`, for any number of requests, faults and
  crashes: every version of the present era was committed by exactly one write, no two
  writes share one (`CommitsAreUnique`, part of `IInv`). `Told` adds what writers are told: who has committed and not yet
  answered holds his own version, and a PATCH comes to its answer only through a commit, so that only a POST can
  be told a version it did not commit (`OnlyPostsAreToldOthers`).
* `ReplayProtection`: `Spec => []StalePatchNeverCommits`.
* `StoreImplementsCounter`: `Spec => ImplementsCasCounter`, the refinement.
* `NoTraceOfRefusals`: `Spec => []RefusedLeavesNoTrace`, by `TraceInv`: who can still be refused has
  written nothing (`Early`), and a step of one request puts only its own mark on a row.
* `SettledIsVersioned`: `Spec => []SettledSecretIsVersioned`, by `PlainInv`: without DELETE, fault and crash, a value
  that has no version yet has a POST that owes it one (`OwesVersion`), a version that has no time has a write that
  owes it one (`OwesMtime`), and a bump is lost only to one that was committed (`LostToAnother`), which is why POST may
  ignore its failure.

The first four rest on one inductive invariant, `IInv == TypeOK /\ Local /\ Dated /\ CounterOK`.
`CommitsAreUnique` alone is not inductive: a commit hands out `snap[r] + 1`, so one must
know that the snapshot of a request in `fresh` equals the counter *now* (`FreshIsCurrent`), that
a request holds no ticket before it has committed (`TicketOnlyAfterBump`), that a snapshot
was accepted by the condition (`SnapshotAccepted`), and that no ticket and no birth lies in the
future (`TicketsArePast`, `BirthsArePast`). `Local` collects the first three, `Dated` the last two. The
proof groups actions: most are `Quiet`, they leave counter and tickets alone, and one frame lemma
each says what the others change.

**`KmsFetchProofs`**

* `TypeCorrect`: `Spec => []TypeOK`, which includes that nobody waits beyond a deadline.
* `TokenIsGood`: `Spec => []TokenOutlivesItsUse`, from `SkewAssumption`: the skew (60 s in the
  code) is at least twice the deadline of a Get (10 s) and a token lives longer than one Get.
  `TokenInv` bounds the cached expiry by the token's own `exp` plus one Get, which is why twice
  the deadline is needed: once for the age of IAM's answer, once for the request.
* `NoTrace`: `Spec => []AbortsWithoutTrace`, by `VolumeInv`: as long as the process fetches, and
  when it has failed at it, the volume is as it found it.
* `SuccessMeansComplete`: `Spec => []SuccessIsComplete`, for `KMS_SECRETS` of any length. Of several entries with
  one name the last one that is done counts (`FreshInv`); that a name has a last entry at all is the
  well-foundedness of the naturals (`LastEntry`), and `RunsInv` carries the values from the memory to the files.
* `EnvComesLast`: `Spec => []EnvIsLast`, by `RunsInv`: no file is from the future, fetched values
  are of this start, and files no longer in `todo` hold them.

**`AccessProofs`**, for any number of goroutines and keys, any tokens, any TTL and any timeout of the fetch

* `TypeCorrect`: `AccessSpec => []AccessTypeOK`.
* `NoFetchIsWasted`: `AccessSpec => []NoWastedFetch`, by `Alone`: who is between `Lock` and its return holds the
  mutex, so the cache stands still for it.
* `WithdrawalTakesEffect`: `AccessSpec => RevocationTakesEffect`. A fetch brings nothing that was withdrawn before it
  began and takes at most `GetTimeout` (`Recent`); so a key expires at most a fetch and a TTL after it was withdrawn (`Timely`);
  so a token that came later finds it neither fresh in the cache nor, on the last look, which does not ask
  for the TTL, in what its own goroutine has just installed (`Shut`).
* `RefusalHasCause`: `AccessSpec => RefusedForCause`, by `Served`: as long as IAM offers the key, each stage of
  `resolve` has it. The assumptions are that a kid is not an error (`KidAssumption`), and that a
  token was signed with some key (`RequestsAssumption`).

**`BootProofs`**, for any number of requests and of calls of `Stop`

* `TypeCorrect`: `Spec => []BootTypeOK`, which includes that a resource runs only behind a field that is set and was not
  told to stop.
* `TeardownInOrder`: `Spec => []UsersGoFirst`. What a stopper has passed is nil (`PassedIsNil`), so nothing is told to stop
  before the fields above it are nil (`StoppedInOrder`); it does not matter that two goroutines may be in `Stop`, nor
  that one of them may panic. `Undisturbed` adds that nobody is in `Stop` while `Embed` still makes fields.
* `FailedHoldsNothing`: `Spec => []FailedBootHoldsNothing`; `ZapIsClosed`: `Spec => []ZapFailsClosed`, by a
  lemma on the two pure functions (`SnapshotIsSound`).
* `StoppedOnce`: `Spec => []StopIsIdempotent`; `NotFoundHasCause`: `Spec => []FalseNotFoundHasCause`. Both by `RaceInv`:
  as long as no calls of `Stop` have overlapped, whoever makes them, at most one goroutine is in `Stop`, and it finds set
  what it has seen set (`SoleStopper`); the listener that `Embed` makes is there until somebody stops it (`OwnListener`); and once the HTTP server is drained, the
  requests still being served are those the drain gave up, while before that the database runs (`Drained`). In a host only
  the host calls Stop (`Hosted`), and until it does the database runs (`DbRuns`).

**`ZkQuorumProofs`**, for any finite number of nodes and any threshold

* `TypeCorrect`: `Spec => []TypeOK`.
* `QuorumsMeet`: `Spec => []AckedIsOnAQuorum`. The nodes that confirmed a change (`Heard`) have applied it and do not
  change once it has returned (`ChangeInv`); a later read is answered with it by each of them (`ReadInv`); and
  two sets of more than half of the nodes meet.
* `ReadsFailForCause`: `Spec => []ReadFailsForCause`: what was begun keeps the key it copied (`Steady`).

**`KmsclientProofs`**, for any number of goroutines and calls, any secrets and paths, and finitely many variables

* `TypeCorrect`: `Spec => []TypeOK`, which includes that the exchange with IAM is under the mutex.
* `AcknowledgedWriteStays`: `Spec => []AckedWriteStays`. A number belongs to one call (`Numbered`) and a write on its way
  bears the number of the call that sent it, also when the caller has given up (`Signed`). So a write that has met no
  other is the only one on its way to its secret (`Solo`), and when it is acknowledged nothing is left that could
  overwrite it (`Settled`).
* `FetchEnvTruthful`: `Spec => []FetchEnvKeepsItsWord`. `Tally` is the account of FetchEnv in the middle of its work: what
  it has counted and what it has not settled add up to all variables exactly as long as nothing has failed, and
  what it has settled is filled, by itself or by a FetchEnv next to it; `Kept` is about the operator's variables.

**`AuditProofs`**, for any number of requests and syncs and any capacity of the channel

* `TrailTypes`: `Spec => []TypeOK`, of `Auditor`.
* `NothingIsLostUnseen`: `Spec => []EveryEntryIsAccounted`. `Ordered` says that what was accepted is, in this order, in the
  rows or failed, in the writer's hand, in the channel, and each in one place only; `Tally` counts it.
* `SyncIsABarrier`: `Spec => []SyncWaitsForAllBefore`, by `SyncInv`: what a waiting sentinel has to wait for is done, in
  the writer's hand, or before it in the channel.
* `TrailFollowsClient`: `AuditedSpec => []TrailInClientOrder`. A handler records before its answer leaves
  (`RecordedAtTheEnd`), so what a client was told was accepted before its next request (`ClientOrder`), and `Ordered`, which
  a kill only shortens, takes this order to the rows. Here the store moves too; its typing is the
  little that the trail needs of it (`StoreTyped`).

**`SecretKeysProofs`**, for any sets of orgs, paths, environments, names, prefixes and arguments, of any number of segments

* `KeysTyped`: `Spec => []TypeOK`, with the bound on a listing.
* `ListingIsWhole`: `Spec => []ListIsComplete`. `Scanned`: the rows match, and unless the scan was cut off they include every
  key that has been there since the request. `Listed` keeps the check of the prefix, and `ContainedIsWithin` is the
  lemma on strings that makes it enough: what lies under a contained prefix begins with `brand/<org>`.
* `WhatIsPutIsGot`: `Spec => []PutIsGot`. `GetsWhatItNames`: for an argument of safe segments, what the client trims,
  joins and sends and the server splits again is the key of what was put; `OneReading`: with one
  segment each for environment and name, a key has one reading; `Stored` and `Got` say that keys hold what belongs there.
* `RowsAddressTheirKeys`: `Spec => []RowsLeadBack`, by `RowAddressesItsKey`.

The assumptions are that the fields are non-empty sequences of strings (`StringsAssumption`; an empty field is `<<"">>`)
and that the path and the name in an argument are among those POST is asked with (`ArgsAssumption`).

With this every invariant that a passing run checks, and the refinement of `CasCounter`, is a theorem. Checked by TLC only: liveness (`EveryCallReturns`,
`EverythingIsFlushed`, `EveryRequestIsAudited`, `StopsWithItsContext`, `EveryStartEnds`), which the prover cannot do.

## Where the code and its own words disagree

Found by a run (the counterexample is TLC's):

1. `embed.go:672`, "PATCH is explicitly CAS". A GET reads value (563) and version (569) apart,
   and writers write them apart; a PATCH conditioned on what a GET returned may replace another
   value. Run `store_torn_read`.
2. `client.go:374-375`, "List returns path/name strings for all secrets visible to the caller". kmsclient
   decodes the rows of a listing from a member `items` (`client.go:430`); the server sends `secrets`
   (`embed.go:830`). List over HTTP, and `kms list`, return nothing, whatever is stored. The client's
   own test answers `items` (`client_test.go:300`). Run `keys_list`.
3. `secrets.go:59-60`, "Get retrieves an encrypted blob from the MPC nodes". Get seals the name with a fresh nonce
   (`secrets.go:71`), so the name asked for is never the one stored. Run `zk_get`.

Seen while modelling, without a run of their own:

* `embed.go:699-701`, "PATCH is update-only by contract": a DELETE between the check (702) and the write (729)
  lets a PATCH create the secret. (The same window as in finding 1.)
* `cmd/kmsd/main.go:71-72`, "drain ... gracefully": the database is closed before the listener, and late requests are
  told 404 for secrets that exist. `FalseNotFoundHasCause` has this as one of its two causes, from the moment the host calls Stop.
* `embed.go:504-505`, an environment "can never be aliased": `env` may hold slashes, so
  `brand/acme` with env `eu/default` is `brand/acme/eu` with env `default`. `PutIsGot` excepts such a POST.
* `consensus.go:94-96`, "KMS_CONSENSUS_FILE first then falling back to the two env vars": a file that is named but not there
  is not a reason to fall back (104-106); ZAP stays off. `ZapFailsClosed` relies on it.
* `consensus.go:51-52`, on bad input "the caller refuses to start the ZAP server": it ends the process (`embed.go:1225`),
  as the comment of `startZAPSecretServer` says.
* `audit.go:3` speaks of every mutating request; the key routes write no audit row.
* `kms list` with a prefix that ends in a slash asks the server for the prefix without it and then compares
  with the slash, losing the rows at the prefix itself; it ignores `truncated`, and unlike ZAP asks for no environment.
* The methods of kmsclient take path and name apart: a name with a slash in it can be put nowhere, but a Get of
  it reads the secret whose path is longer.

* A POST whose bump loses a commit conflict answers 201 with the version it tried for, which is that of the write it
  lost to: `bumpVersion` returns `newVer` beside the error (`versioning.go:91-96`) and POST logs the error and answers
  (`embed.go:622-629`). Two racing POSTs are told the same version and the counter moves once, against "POST always bumps
  the version" (`embed.go:527`) and the monotonic counter of `versioning.go:14-16`. (It answers version 0 only if the
  read of the counter itself fails.) `OnlyPostsAreToldOthers` says that nobody but a POST is told so.
* A POST between the steps of a DELETE leaves a value without a version, or a version without
  a value (`embed.go:766-773`).
* After DELETE and POST the version is 1 again, so an old PATCH that expects 1 is accepted
  (`versioning.go:99-101` intends it; `embed.go:528-530` promises replay protection without that exception).
* Entries queued when the server stops are lost (`audit.go:144`); `mount.go:70-72` says that
  Stop drains the ledger. `EveryRequestIsAudited` has this among its causes. A failed insert is counted nowhere (`audit.go:163-166`).
* `audit.go`, `embed.go:570-574`: a kill between answer and record leaves an unaudited answer.
* Two goroutines in `Stop` may both pass the nil check of a field; the second then calls a
  method on nil (`embed.go:277-298`, "Idempotent" in 272). Calls one after the other, by whichever goroutines, are safe, and
  `StopIsIdempotent` says so.
* Waiters of the refresh mutex look for *their* kid; if the refreshed set lacks it each of them
  fetches again (`jwks.go:60-73`), against "only one goroutine fetches".
* `auth.go:9` lists RS256, ES256 and EdDSA; 136-148 allows ten methods, of which only the RSA ones can
  succeed. `auth.go:18-19` lists failure classes that are never logged: a missing key and a bad
  method both end as `sig_invalid` (`wrapAuthErr`).
* `kmsclient` `ReadSecret` and `GetByID` ask `GET /v1/kms/secrets/{id}`, which this server uses for an environment
  variable of its own (`embed.go:857`) and answers in another shape: the value read is empty, without an
  error. The other routes of `tenant.go` do not exist here.
* `getToken` waits for its mutex without looking at the caller's context (`client.go:599`): a call may be late by
  the exchanges of those before it. A token the server refuses stays in the cache until it expires.
* `setEnvIfEmpty` counts a variable as fetched when it left it alone, and takes one that is set to the empty
  string for unset (`client.go:587-594`).
* `kms-fetch` exits 4, not 3, when IAM refuses over HTTP (`main.go:34`), and leaves `env`
  out of HTTP requests (214-216).
* SDK `Delete` seals the name as `Get` does (`secrets.go:109`): it deletes nothing, and reports success if the nodes
  treat an unknown name as deleted.
* `Unlock` with a wrong passphrase succeeds (`client.go:145`); a Set under it stores a blob that makes every other
  client's List fail (`secrets.go:173-179`). `RevokeMember` does not rotate the CEK (`members.go:56`).
* `Stop` before the listening goroutine has run: it finds nil and panics, or listens on nothing (`embed.go:240`).
* `embed.go:931-932` promises 503 on key routes without MPC; the code gives 500.

## Not modelled, and why

* Cryptography (`cek.go`, JWT signatures, the database's encryption): pure functions; `ZkQuorum` has what the client
  relies on (a key opens what it sealed, two seals differ).
* The web console, telemetry, examples, the smoke test, `kms status` and the flags of the CLI: views of, or
  straight-line calls to, what is modelled.
* The ZAP server, the replicator, the MPC manager, zapdb: external. The handlers of the key routes validate a body and
  call the manager; they keep no state of their own.
* The server behind most of `tenant.go`: those routes do not exist in this repository.
* `Watch` of the SDK (`sync.go`): one stream from one node, whose events are the nodes' to define.
* Header hygiene, the method allowlist, the login proxy, static files: stateless filters.
* `applyAuthConfig` at run time: it is called at boot and by tests.

## Plan

Built in this order, the most important first: the secret store with its proofs; the key
cache; the audit trail; the lifecycle; the init container with its proofs; addressing; the
quorum client; access; the service client; the boot with the consensus snapshot; the store and the trail together; the
CLI's side of addressing; passphrases and sealed names.

What is left of the model: `Watch` of the SDK, if its protocol is ever written down; the versions in the rows of a
listing, which are read apart from the scan.

Next, the proofs: an abstract specification of the trail, a lossy queue that counts what it loses, and
`Auditor` shown to implement it.

## Running it

    tlc -workers 2 -config store.cfg MCSecretStore.tla
    tlapm SecretStoreProofs.tla

Each passing run takes between a few seconds and two minutes; the proofs a minute or
two each.
