----------------------------- MODULE SecretKeys -----------------------------
(***************************************************************************)
(* How secrets are addressed: the database key kms/secrets/{path}/{env}/   *)
(* {name} that POST, GET and DELETE build (embed.go), the parser that      *)
(* takes it apart again and the metadata listing of an org                 *)
(* (secrets_list.go), which scans one snapshot of the keys while other     *)
(* requests write and delete.  On the other side of the wire, how the CLI  *)
(* (cmd/kms) and kmsclient make these requests from one argument           *)
(* "path/name" and what they make of a listing.                            *)
(*                                                                         *)
(* A string is the sequence of its segments between slashes, so that       *)
(* joining strings with "/" concatenates the sequences; the empty string   *)
(* is <<"">>.  A segment is opaque, except for the ones named here.  The   *)
(* handlers are atomic; SecretStore models the steps they are made of.     *)
(***************************************************************************)
EXTENDS Integers, FiniteSets, SequencesExt

CONSTANTS
  Orgs,         \* the orgs of the requests
  Callers,      \* the verified claims of the callers, [owner, admin]
  Paths,        \* the values of the field "path" in a POST,
  Envs,         \*   of the fields "env" and of the query parameter env,
  Names,        \*   of the field "name",
  Rests,        \*   of the path in the URL of a GET or DELETE,
  Queries,      \*   and of the query parameter prefix of a listing
  Args,         \* the arguments "path/name" of the CLI and of kmsclient
  Unsafe,       \* segments with a character that safePath rejects
  Longer,       \* pairs of segments, the second extends the first ("ab", "abc")
  None,         \* no secret
  MaxRows       \* maxListRows

Empty  == <<"">>
Secret == [path : Paths, env : Envs, name : Names]

Default == <<"default">>

ASSUME FieldsAssumption == {Empty, Default} \subseteq Envs /\ Empty \in Queries
ASSUME StringsAssumption ==
  /\ Orgs \subseteq STRING
  /\ UNION {Paths, Envs, Names, Queries, Args} \subseteq Seq(STRING) \ {<<>>}
ASSUME NoneAssumption   == None \notin Secret
ASSUME MaxAssumption    == MaxRows \in Nat

-----------------------------------------------------------------------------
(* Strings.                                                                *)

SafePath(f) ==
  f = Empty \/ \A i \in DOMAIN f : f[i] \notin {"", ".", ".."} \cup Unsafe

Key(path, env, name) == path \o env \o name

KeyOf(s) == Key(s.path, s.env, s.name)

(* splitSecretPath: the name is the last segment of a safe path. *)
Splits(rest)   == SafePath(rest) /\ Len(rest) > 1
Lookup(rest, env) == Key(Front(rest), IF env = Empty THEN Default ELSE env, <<Last(rest)>>)

(* HasPrefix(s, p + "/"): the boundary slash keeps "ab" from covering      *)
(* "abc".                                                                  *)
Covers(p, s) == Len(p) < Len(s) /\ p = SubSeq(s, 1, Len(p))

(* parseSecretRelKey: the last segment is the name, the one before it the  *)
(* environment.                                                            *)
ParseFromTheLeft(k) == (* mutant: Index instead of LastIndex *)
  [path |-> <<k[1]>>, env |-> <<k[2]>>, name |-> SubSeq(k, 3, Len(k))]

Parse(k) ==
  [path |-> SubSeq(k, 1, Len(k) - 2), env |-> <<k[Len(k) - 1]>>, name |-> <<k[Len(k)]>>]

Parses(k) == Len(k) > 2 /\ Empty \notin {Parse(k).path, Parse(k).env, Parse(k).name}

-----------------------------------------------------------------------------
(* The client: put, get and rotate of the CLI, FetchEnv and kms-fetch take *)
(* one argument apart, kmsclient puts it together again.                   *)

(* The path and the name in an argument are among those that are POSTed. *)
ASSUME ArgsAssumption ==
  \A arg \in Args :
    Len(arg) > 1 /\ Empty \notin {Front(arg), <<Last(arg)>>} /\ SafePath(Front(arg)) =>
      Front(arg) \in Paths /\ <<Last(arg)>> \in Names

(* splitPath and splitPathName: the name is what follows the last slash.   *)
(* Both parts must be there.                                               *)
SplitAtFirst(arg) == (* mutant: Index instead of LastIndex *)
  [path |-> <<Head(arg)>>, name |-> Tail(arg)]

SplitPath(arg) == [path |-> Front(arg), name |-> <<Last(arg)>>]

IsPathName(arg) == Len(arg) > 1 /\ Empty \notin {SplitPath(arg).path, SplitPath(arg).name}

(* httpPut sends the parts as they are, with the environment of the client *)
(* ("default" unless it is configured, and never configured by the CLI).   *)
PutBody(arg) ==
  [path |-> SplitPath(arg).path, env |-> Default, name |-> SplitPath(arg).name]

(* secretPath: slashes around the parts are trimmed, the rest is escaped   *)
(* segment by segment and reaches the server as it was.                    *)
TrimSlashes(f) ==
  LET solid == {i \in DOMAIN f : f[i] # ""}
  IN  IF solid = {} THEN Empty
      ELSE SubSeq(f, CHOOSE i \in solid : \A j \in solid : i <= j,
                     CHOOSE i \in solid : \A j \in solid : j <= i)

SecretPath(arg) ==
  LET p == TrimSlashes(SplitPath(arg).path)
      n == TrimSlashes(SplitPath(arg).name)
  IN  IF p = Empty THEN n ELSE p \o n

(* The key that the server looks up for `kms get arg`, if it looks one up. *)
Gets(arg, k) == Splits(SecretPath(arg)) /\ Lookup(SecretPath(arg), Default) = k

-----------------------------------------------------------------------------
VARIABLES
  author,       \* author[k]: the secret that was last POSTed to key k, or None
  listing,      \* the listing under way: none, started, scanned or answered
  org,          \* its org
  caller,       \* its caller
  prefix,       \* the prefix it asks for
  filter,       \* the environment it asks for, Empty for all
  refs,         \* the keys the scan has collected
  truncated,    \* whether the scan stopped at MaxRows
  \* history
  steady,       \* the keys that hold a secret since the listing started
  put           \* the arguments that were put and not deleted since

vars == <<author, listing, org, caller, prefix, filter, refs, truncated, steady, put>>
request == <<org, caller, prefix, filter>>

Keys == {KeyOf(s) : s \in Secret}
Held == {k \in Keys : author[k] # None}

Init ==
  /\ author = [k \in Keys |-> None]
  /\ listing = "none" /\ org \in Orgs /\ caller \in Callers
  /\ prefix = Empty /\ filter = Empty
  /\ refs = {} /\ truncated = FALSE /\ steady = {} /\ put = {}

CanActOnOrg(c, o) == c.admin \/ (c.owner # "" /\ o # "" /\ c.owner = o)

(* POST, for an org the caller may act on; PATCH replaces the value of a   *)
(* key that holds one, and changes nothing here.                           *)
Post(c, o, s) ==
  /\ CanActOnOrg(c, o)
  /\ s.name # Empty /\ SafePath(s.path) /\ SafePath(s.name)
  /\ s.env # Empty
  /\ author' = [author EXCEPT ![KeyOf(s)] = s]
  /\ UNCHANGED <<listing, request, refs, truncated, steady>>

(* kms put, kms rotate *)
CliPut(c, o, arg) ==
  /\ IsPathName(arg)
  /\ Post(c, o, PutBody(arg))
  /\ put' = put \cup {arg}

Delete(c, o, rest, env) ==
  /\ CanActOnOrg(c, o) /\ Splits(rest)
  /\ Lookup(rest, env) \in Held
  /\ author' = [author EXCEPT ![Lookup(rest, env)] = None]
  /\ steady' = steady \ {Lookup(rest, env)}
  /\ put' = {a \in put : KeyOf(PutBody(a)) # Lookup(rest, env)}
  /\ UNCHANGED <<listing, request, refs, truncated>>

(* GET .../secrets?prefix=&env=, as far as its first look at the database. *)
Root(o) == <<"brand", o>>
Trim(q) == IF Len(q) > 1 /\ Last(q) = "" THEN Front(q) ELSE q

(* The prefix is the root of the org or strictly within it. *)
Contained(q, o) == q = Root(o) \/ Covers(Root(o), q)

Under == IF prefix = Empty THEN Root(org) ELSE Trim(prefix)

List(c, o, q, e) ==
  /\ listing \in {"none", "answered"}
  /\ CanActOnOrg(c, o) /\ SafePath(<<o>>)
  /\ \/ q = Empty
     \/ Trim(q) # Empty /\ SafePath(Trim(q)) /\ Contained(Trim(q), o)
  /\ e = Empty \/ (SafePath(e) /\ Len(e) = 1)
  /\ prefix' = q /\ filter' = e /\ org' = o /\ caller' = c
  /\ listing' = "started"
  /\ steady' = Held
  /\ refs' = {} /\ truncated' = FALSE
  /\ UNCHANGED <<author, put>>

Matches(k) ==
  Covers(Under, k) /\ Parses(k) /\ (filter = Empty \/ Parse(k).env = filter)

TooManyLate(found) == Cardinality(found) > MaxRows + 1 (* mutant *)

TooMany(found) == Cardinality(found) > MaxRows

ScanSilently == (* mutant: truncation is not reported *)
  /\ listing = "started" /\ listing' = "scanned"
  /\ LET found == {k \in Held : Matches(k)}
     IN  /\ truncated' = FALSE
         /\ refs' \in IF TooMany(found) THEN kSubset(MaxRows, found) ELSE {found}
  /\ UNCHANGED <<author, request, steady, put>>

(* One read transaction over the keys, in their order, up to MaxRows; here *)
(* in any order.                                                           *)
Scan ==
  /\ listing = "started" /\ listing' = "scanned"
  /\ LET found == {k \in Held : Matches(k)}
     IN  /\ truncated' = TooMany(found)
         /\ refs' \in IF TooMany(found) THEN kSubset(MaxRows, found) ELSE {found}
  /\ UNCHANGED <<author, request, steady, put>>

(* Each row gets its version and time from transactions of its own. *)
Answer ==
  /\ listing = "scanned" /\ listing' = "answered"
  /\ UNCHANGED <<author, request, refs, truncated, steady, put>>

(* The answer as the client finds it, a record of JSON members. *)
Answered == [secrets |-> refs, count |-> Cardinality(refs)]

(* httpList: it asks for no environment, looks for the rows in the member  *)
(* "items" and prints path and name of those whose path begins with the    *)
(* prefix as it was given.                                                 *)
Items(answer) == IF "items" \in DOMAIN answer THEN answer["items"] ELSE {}

BeginsWith(f, q) ==
  /\ Len(q) <= Len(f) /\ Front(q) = SubSeq(f, 1, Len(q) - 1)
  /\ Last(q) \in {"", f[Len(q)]} \/ <<Last(q), f[Len(q)]>> \in Longer

Lines == {k \in Items(Answered) : prefix = Empty \/ BeginsWith(Parse(k).path, prefix)}

PathName(row) == row.path \o row.name

Next ==
  \/ \E c \in Callers, o \in Orgs :
       \/ \E s \in Secret : Post(c, o, s) /\ UNCHANGED put
       \/ \E a \in Args : CliPut(c, o, a)
       \/ \E r \in Rests, e \in Envs : Delete(c, o, r, e)
       \/ \E a \in Args : Delete(c, o, SecretPath(a), Default)
       \/ \E q \in Queries, e \in Envs : List(c, o, q, e)
  \/ Scan \/ Answer

Spec == Init /\ [][Next]_vars

-----------------------------------------------------------------------------
(* Properties.                                                             *)

(* Types; a listing is bounded. *)
TypeOK ==
  /\ author \in [Keys -> Secret \cup {None}]
  /\ listing \in {"none", "started", "scanned", "answered"}
  /\ org \in Orgs /\ caller \in Callers /\ filter \in Envs
  /\ refs \subseteq Keys /\ Cardinality(refs) <= MaxRows
  /\ truncated \in BOOLEAN /\ steady \subseteq Held

(* An answer that does not say "truncated" shows every secret under the    *)
(* prefix, in the environment asked for, that was there from the request   *)
(* to the answer, whatever was written and deleted in between; and "the    *)
(* scan is rooted at the org's canonical brand/<org> namespace and cannot  *)
(* escape it", also when one org's name begins with another's.             *)
ListIsComplete ==
  listing = "answered" =>
    /\ ~truncated => {k \in steady : Matches(k)} \subseteq refs
    /\ \A k \in refs : SubSeq(k, 1, 2) = <<"brand", org>>
    /\ caller.admin \/ caller.owner = org

(* What `kms put x` has stored, `kms get x` finds until it is deleted,     *)
(* though one sends path, environment and name apart and the other an URL  *)
(* that the server takes apart again; and what it finds was stored under   *)
(* that path, environment and name, unless a POST took the key with an     *)
(* environment or a name that has a slash in it.                           *)
PutIsGot ==
  \A a \in put :
    \E k \in Held :
      /\ Gets(a, k)
      /\ Len(author[k].env) = 1 /\ Len(author[k].name) = 1 => author[k] = PutBody(a)

(* A row of a listing addresses the secret it was made from: path and name *)
(* in the URL of a GET, and env in its query, lead back to the same key;   *)
(* and so does "path/name" as the argument of `kms get` if the secret is   *)
(* of the environment of the client.  A key with an empty segment, or one  *)
(* that safePath rejects, has come by its environment, which POST does not *)
(* look at, and a row made from it leads nowhere.                          *)
RowsLeadBack ==
  listing = "answered" =>
    \A k \in refs :
      SafePath(k) =>
        LET row == Parse(k) IN
          /\ Splits(PathName(row)) /\ Lookup(PathName(row), row.env) = k
          /\ row.env = Default => Gets(PathName(row), k)

(* client.go: "List returns path/name strings for all secrets visible to   *)
(* the caller under the given prefix": at least when the listing is whole. *)
ListReturnsAll ==
  listing = "answered" /\ filter = Empty /\ prefix = Trim(prefix) /\ ~truncated =>
    {k \in steady : Matches(k)} \subseteq Lines
=============================================================================
