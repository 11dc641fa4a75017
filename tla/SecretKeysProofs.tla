-------------------------- MODULE SecretKeysProofs --------------------------
(***************************************************************************)
(* Theorems about SecretKeys, for all sets of orgs, paths, environments,   *)
(* names, prefixes and arguments, of any number of segments: a listing     *)
(* stays within the org and leaves nothing out, what put has stored get    *)
(* finds, and a row of a listing leads back to the key it was made from.   *)
(***************************************************************************)
EXTENDS SecretKeys, SequenceTheorems, FiniteSetTheorems, TLAPS

(* Segments are strings; the provers do not know that a literal is one.    *)
Segment == STRING \cup {"", "default", "brand"}
String  == Seq(Segment)

(* Names for the literals that the proofs reason about. *)
Blank    == ""
Rejected == {"", ".", ".."} \cup Unsafe

-----------------------------------------------------------------------------
(* Strings, as the sequences of their segments.                            *)

(* splitSecretPath and splitPath lose nothing. *)
LEMMA SplitAtLast ==
  ASSUME NEW f \in String, Len(f) > 1
  PROVE  /\ Front(f) \in String /\ Len(Front(f)) = Len(f) - 1
         /\ \A i \in 1 .. Len(f) - 1 : Front(f)[i] = f[i]
         /\ Last(f) \in Segment
         /\ Front(f) \o <<Last(f)>> = f
<1>1. Len(f) \in Nat /\ \A i \in 1 .. Len(f) : f[i] \in Segment
  BY LenProperties, ElementOfSeq DEF String
<1>2. /\ Front(f) \in String /\ Len(Front(f)) = Len(f) - 1
      /\ \A i \in 1 .. Len(f) - 1 : Front(f)[i] = f[i]
  <2>1. \A i \in 1 .. Len(f) - 1 : f[i] \in Segment
    BY <1>1
  <2>2. /\ SubSeq(f, 1, Len(f) - 1) \in Seq(Segment)
        /\ Len(SubSeq(f, 1, Len(f) - 1)) = IF 1 <= Len(f) - 1 THEN (Len(f) - 1) - 1 + 1 ELSE 0
        /\ \A i \in 1 .. (Len(f) - 1) - 1 + 1 : SubSeq(f, 1, Len(f) - 1)[i] = f[1 + i - 1]
    BY <1>1, <2>1, SubSeqProperties, 1 \in Int, Len(f) - 1 \in Int
  <2> QED BY <1>1, <2>2 DEF Front, String
<1>3. Last(f) \in Segment
  BY <1>1 DEF Last
<1>4. Front(f) \o <<Last(f)>> = f
  <2>1. <<Last(f)>> \in Seq(Segment) /\ Len(<<Last(f)>>) = 1 /\ <<Last(f)>>[1] = f[Len(f)]
    BY <1>3 DEF Last
  <2>2. /\ Front(f) \o <<Last(f)>> \in Seq(Segment)
        /\ Len(Front(f) \o <<Last(f)>>) = Len(f)
        /\ \A i \in 1 .. Len(f) : (Front(f) \o <<Last(f)>>)[i] =
             IF i <= Len(f) - 1 THEN Front(f)[i] ELSE <<Last(f)>>[i - (Len(f) - 1)]
    <3>1. Front(f) \in Seq(Segment)
      BY <1>2 DEF String
    <3> QED BY <1>1, <1>2, <2>1, <3>1, ConcatProperties
  <2>3. \A i \in 1 .. Len(f) : (Front(f) \o <<Last(f)>>)[i] = f[i]
    <3> TAKE i \in 1 .. Len(f)
    <3>1. CASE i <= Len(f) - 1
      BY <1>1, <1>2, <2>2, <3>1
    <3>2. CASE i = Len(f)
      <4>1. ~(i <= Len(f) - 1) /\ i - (Len(f) - 1) = 1
        BY <1>1, <3>2
      <4> QED BY <2>1, <2>2, <3>2, <4>1
    <3>3. i <= Len(f) - 1 \/ i = Len(f)
      BY <1>1
    <3> QED BY <3>1, <3>2, <3>3
  <2> QED BY <2>2, <2>3, SeqEqual DEF String
<1> QED BY <1>2, <1>3, <1>4

(* A string with an end of a given length has one such end, and one        *)
(* beginning before it.                                                    *)
LEMMA SameBeginnings ==
  ASSUME NEW p \in String, NEW q \in String, NEW u \in String, NEW v \in String,
         p \o u = q \o v, Len(u) = Len(v)
  PROVE  p = q
<1>1. /\ Len(p) \in Nat /\ Len(q) \in Nat /\ Len(u) \in Nat
  BY LenProperties DEF String
<1>2. /\ Len(p \o u) = Len(p) + Len(u)
      /\ \A i \in 1 .. Len(p) + Len(u) : (p \o u)[i] =
            IF i <= Len(p) THEN p[i] ELSE u[i - Len(p)]
  BY ConcatProperties DEF String
<1>3. /\ Len(q \o v) = Len(q) + Len(v)
      /\ \A i \in 1 .. Len(q) + Len(v) : (q \o v)[i] =
            IF i <= Len(q) THEN q[i] ELSE v[i - Len(q)]
  BY ConcatProperties DEF String
<1>4. Len(p) = Len(q)
  BY <1>1, <1>2, <1>3
<1>5. \A i \in 1 .. Len(p) : p[i] = q[i]
  BY <1>1, <1>2, <1>3, <1>4
<1> QED BY <1>4, <1>5, SeqEqual DEF String

LEMMA SameEnds ==
  ASSUME NEW p \in String, NEW q \in String, NEW u \in String, NEW v \in String,
         p \o u = q \o v, Len(u) = Len(v)
  PROVE  u = v
<1>1. /\ p = q /\ Len(p) \in Nat /\ Len(u) \in Nat
  BY SameBeginnings, LenProperties DEF String
<1>2. \A i \in 1 .. Len(p) + Len(u) : (p \o u)[i] =
            IF i <= Len(p) THEN p[i] ELSE u[i - Len(p)]
  BY ConcatProperties DEF String
<1>3. \A i \in 1 .. Len(p) + Len(u) : (p \o u)[i] =
            IF i <= Len(p) THEN p[i] ELSE v[i - Len(p)]
  BY <1>1, ConcatProperties DEF String
<1>4. \A i \in 1 .. Len(u) : u[i] = v[i]
  <2> TAKE i \in 1 .. Len(u)
  <2>1. Len(p) + i \in 1 .. Len(p) + Len(u) /\ ~(Len(p) + i <= Len(p)) /\ (Len(p) + i) - Len(p) = i
    BY <1>1
  <2> QED BY <1>2, <1>3, <2>1
<1> QED BY <1>4, SeqEqual DEF String

LEMMA EndsOfInterval ==
  ASSUME NEW n \in Nat, n > 0
  PROVE  /\ 1 .. n # {}
         /\ (CHOOSE i \in 1 .. n : \A j \in 1 .. n : i <= j) = 1
         /\ (CHOOSE i \in 1 .. n : \A j \in 1 .. n : j <= i) = n
<1> DEFINE First(i) == i \in 1 .. n /\ \A j \in 1 .. n : i <= j
           Final(i) == i \in 1 .. n /\ \A j \in 1 .. n : j <= i
<1>1. 1 \in 1 .. n /\ n \in 1 .. n
  OBVIOUS
<1>2. \A i \in 1 .. n : (\A j \in 1 .. n : i <= j) => i = 1
  BY <1>1
<1>3. \A i \in 1 .. n : (\A j \in 1 .. n : j <= i) => i = n
  BY <1>1
<1>4. (\A j \in 1 .. n : 1 <= j) /\ (\A j \in 1 .. n : j <= n)
  OBVIOUS
<1>5. /\ First(1) /\ \A i : First(i) => i = 1
      /\ Final(n) /\ \A i : Final(i) => i = n
  BY <1>1, <1>2, <1>3, <1>4, Zenon
<1> HIDE DEF First, Final
<1>6. (CHOOSE i : First(i)) = 1 /\ (CHOOSE i : Final(i)) = n
  BY <1>5, Zenon
<1> USE DEF First, Final
<1> QED BY <1>1, <1>6, Zenon

(* A string with no empty segment is the one that slashes trim to. *)
LEMMA NothingToTrim ==
  ASSUME NEW f \in String, Len(f) > 0, \A i \in 1 .. Len(f) : f[i] # Blank
  PROVE  TrimSlashes(f) = f
<1> DEFINE solid == {i \in DOMAIN f : f[i] # Blank}
<1>1. Len(f) \in Nat /\ DOMAIN f = 1 .. Len(f)
  BY LenProperties DEF String
<1>2. solid = 1 .. Len(f)
  BY <1>1, Zenon
<1>3. SubSeq(f, 1, Len(f)) = f
  BY SubSeqFull DEF String
<1>4. /\ solid # {}
      /\ (CHOOSE i \in solid : \A j \in solid : i <= j) = 1
      /\ (CHOOSE i \in solid : \A j \in solid : j <= i) = Len(f)
  <2> HIDE DEF solid
  <2>1. /\ 1 .. Len(f) # {}
        /\ (CHOOSE i \in 1 .. Len(f) : \A j \in 1 .. Len(f) : i <= j) = 1
        /\ (CHOOSE i \in 1 .. Len(f) : \A j \in 1 .. Len(f) : j <= i) = Len(f)
    BY <1>1, EndsOfInterval
  <2> QED BY <1>2, <2>1, Zenon
<1> QED BY <1>3, <1>4, Zenon DEF TrimSlashes, Blank

LEMMA EmptyString ==
  /\ Empty \in String /\ Len(Empty) = 1 /\ Empty[1] = Blank
  /\ Default \in String /\ Len(Default) = 1 /\ Default # Empty
  /\ Blank \in Rejected
<1>1. \A x \in Segment : <<x>> \in String /\ Len(<<x>>) = 1 /\ <<x>>[1] = x
  BY DEF String
<1>2. Empty = <<Blank>> /\ Blank \in Segment /\ Blank \in Rejected
  BY Zenon DEF Empty, Blank, Segment, Rejected
<1>3. Default = <<"default">> /\ "default" \in Segment /\ "default" # Blank
  BY Zenon DEF Default, Blank, Segment
<1>4. Default[1] = "default"
  BY <1>1, <1>3, Zenon
<1> QED BY <1>1, <1>2, <1>3, <1>4, Zenon

LEMMA LongIsNotEmpty ==
  ASSUME NEW f, Len(f) > 1
  PROVE  f # Empty
<1> SUFFICES ASSUME f = Empty
             PROVE  FALSE
  OBVIOUS
<1>1. Len(f) = 1
  BY EmptyString, Zenon
<1> QED BY <1>1

LEMMA SafeSegments ==
  ASSUME NEW f \in String, f # Empty
  PROVE  SafePath(f) <=> \A i \in 1 .. Len(f) : f[i] \notin Rejected
<1>1. DOMAIN f = 1 .. Len(f)
  BY LenProperties DEF String
<1> QED BY <1>1, Zenon DEF SafePath, Rejected

(* What secretPath sends for an argument of safe segments is the argument. *)
LEMMA SentAsItIs ==
  ASSUME NEW a \in String, Len(a) > 1, \A i \in 1 .. Len(a) : a[i] # Blank
  PROVE  SecretPath(a) = a
<1> DEFINE p == Front(a)
           n == <<Last(a)>>
<1>1. Len(a) \in Nat
  BY LenProperties DEF String
<1>2. p \in String /\ Len(p) > 0 /\ \A i \in 1 .. Len(p) : p[i] # Blank
  <2>1. Len(p) = Len(a) - 1 /\ \A i \in 1 .. Len(a) - 1 : p[i] = a[i]
    BY SplitAtLast
  <2>2. \A i \in 1 .. Len(a) - 1 : i \in 1 .. Len(a)
    BY <1>1
  <2> HIDE DEF p
  <2>3. \A i \in 1 .. Len(p) : p[i] # Blank
    BY <2>1, <2>2
  <2>4. Len(p) > 0
    BY <1>1, <2>1
  <2>5. p \in String
    BY SplitAtLast DEF p
  <2> QED BY <2>3, <2>4, <2>5
<1>3. n \in String /\ Len(n) > 0 /\ \A i \in 1 .. Len(n) : n[i] # Blank
  <2>1. Last(a) \in Segment /\ Last(a) # Blank
    <3>1. Len(a) \in 1 .. Len(a)
      BY <1>1
    <3> QED BY <3>1, SplitAtLast DEF Last
  <2> QED BY <2>1 DEF String
<1>4. TrimSlashes(p) = p /\ TrimSlashes(n) = n
  <2> HIDE DEF p, n
  <2> QED BY <1>2, <1>3, NothingToTrim
<1>5. p # Empty
  <2>1. 1 \in 1 .. Len(p)
    <3>1. Len(p) \in Nat
      BY <1>2, LenProperties DEF String
    <3> HIDE DEF p
    <3> QED BY <1>2, <3>1
  <2> HIDE DEF p
  <2>2. p[1] # Blank
    BY <1>2, <2>1
  <2> QED BY <2>2, EmptyString
<1>6. p \o n = a
  BY SplitAtLast
<1> QED BY <1>4, <1>5, <1>6, Zenon DEF SecretPath, SplitPath

(* A safe argument is looked up under the key of what it was put as. *)
LEMMA GetsWhatItNames ==
  ASSUME NEW a \in String, Len(a) > 1, SafePath(a)
  PROVE  Gets(a, Key(Front(a), Default, <<Last(a)>>))
<1>2. a # Empty /\ Default # Empty
  BY LongIsNotEmpty, EmptyString, Zenon
<1>3. \A i \in 1 .. Len(a) : a[i] # Blank
  BY <1>2, SafeSegments, EmptyString, Zenon
<1>4. SecretPath(a) = a
  BY <1>3, SentAsItIs
<1> QED BY <1>2, <1>4, Zenon DEF Gets, Splits, Lookup

(* safePath of the two parts is safePath of the whole. *)
LEMMA SafeParts ==
  ASSUME NEW a \in String, IsPathName(a),
         SafePath(SplitPath(a).path), SafePath(SplitPath(a).name)
  PROVE  SafePath(a) /\ Len(a) > 1
<1>1. /\ Len(a) \in Nat /\ Len(a) > 1
      /\ SplitPath(a).path = Front(a) /\ SplitPath(a).name = <<Last(a)>>
  BY LenProperties DEF String, IsPathName, SplitPath
<1>2. Front(a) # Empty /\ <<Last(a)>> # Empty
  BY <1>1, Zenon DEF IsPathName
<1>3. /\ Front(a) \in String /\ Len(Front(a)) = Len(a) - 1
      /\ \A i \in 1 .. Len(a) - 1 : Front(a)[i] = a[i]
      /\ <<Last(a)>> \in String /\ Len(<<Last(a)>>) = 1 /\ <<Last(a)>>[1] = Last(a)
  <2>1. Last(a) \in Segment
    BY <1>1, SplitAtLast
  <2>2. <<Last(a)>> \in String /\ Len(<<Last(a)>>) = 1 /\ <<Last(a)>>[1] = Last(a)
    BY <2>1 DEF String
  <2> QED BY <1>1, <2>2, SplitAtLast
<1>4. \A i \in 1 .. Len(Front(a)) : Front(a)[i] \notin Rejected
  BY <1>1, <1>2, <1>3, SafeSegments
<1>5. \A i \in 1 .. Len(<<Last(a)>>) : <<Last(a)>>[i] \notin Rejected
  BY <1>1, <1>2, <1>3, SafeSegments
<1>6. Last(a) \notin Rejected
  <2>1. 1 \in 1 .. Len(<<Last(a)>>)
    BY <1>3
  <2> QED BY <1>3, <1>5, <2>1
<1>7. \A i \in 1 .. Len(a) : a[i] \notin Rejected
  <2> TAKE i \in 1 .. Len(a)
  <2>1. i \in 1 .. Len(a) - 1 \/ i = Len(a)
    BY <1>1
  <2> QED BY <1>3, <1>4, <1>6, <2>1, Zenon DEF Last
<1>8. a # Empty
  BY <1>1, LongIsNotEmpty
<1> QED BY <1>1, <1>7, <1>8, SafeSegments

(* The fields and arguments are strings. *)
LEMMA StringTypes ==
  /\ \A s \in Secret : s.path \in String /\ s.env \in String /\ s.name \in String
  /\ \A s \in Secret : KeyOf(s) \in String
  /\ \A q \in Queries : q \in String /\ Len(q) > 0
  /\ \A a \in Args : a \in String
  /\ \A o \in Orgs : o \in Segment
  /\ Keys \subseteq String
<1>1. \A f \in Seq(STRING) : f \in String
  <2>1. STRING \subseteq Segment
    BY DEF Segment
  <2> QED BY <2>1, SeqMonotonic DEF String
<1>2. \A f \in UNION {Paths, Envs, Names, Queries, Args} : f \in String /\ f # <<>>
  BY <1>1, StringsAssumption
<1>3. \A s \in Secret : s.path \in String /\ s.env \in String /\ s.name \in String
  BY <1>2 DEF Secret
<1>4. \A s \in Secret : KeyOf(s) \in String
  <2> TAKE s \in Secret
  <2>1. (s.path \o s.env) \in String
    BY <1>3, ConcatProperties DEF String
  <2>2. ((s.path \o s.env) \o s.name) \in String
    BY <1>3, <2>1, ConcatProperties DEF String
  <2> QED BY <2>2 DEF KeyOf, Key
<1>5. \A q \in Queries : q \in String /\ Len(q) > 0
  <2> TAKE q \in Queries
  <2>1. q \in Seq(Segment) /\ q # <<>>
    BY <1>2 DEF String
  <2>2. Len(q) \in Nat \ {0}
    BY <2>1, EmptySeq
  <2> QED BY <2>1, <2>2 DEF String
<1>6. \A a \in Args : a \in String
  BY <1>2
<1>7. \A o \in Orgs : o \in Segment
  BY StringsAssumption DEF Segment
<1>8. Keys \subseteq String
  BY <1>4 DEF Keys
<1> QED BY <1>3, <1>4, <1>5, <1>6, <1>7, <1>8

(* One segment each for environment and name: the key says which secret it *)
(* is.                                                                     *)
LEMMA OneReading ==
  ASSUME NEW s \in Secret, NEW t \in Secret, KeyOf(s) = KeyOf(t),
         Len(s.env) = Len(t.env), Len(s.name) = Len(t.name)
  PROVE  s = t
<1>1. /\ s.path \in String /\ s.env \in String /\ s.name \in String
      /\ t.path \in String /\ t.env \in String /\ t.name \in String
  BY StringTypes
<1> DEFINE sp == s.path \o s.env
           tp == t.path \o t.env
<1>2. sp \in String /\ tp \in String
  BY <1>1, ConcatProperties DEF String
<1>3. sp \o s.name = tp \o t.name
  BY DEF KeyOf, Key
<1>4. sp = tp /\ s.name = t.name
  <2> HIDE DEF sp, tp
  <2> QED BY <1>1, <1>2, <1>3, SameBeginnings, SameEnds
<1>5. s.path = t.path /\ s.env = t.env
  BY <1>1, <1>4, SameBeginnings, SameEnds
<1> QED BY <1>4, <1>5 DEF Secret

(* A listing row of a key with safe segments addresses that key. *)
LEMMA RowAddressesItsKey ==
  ASSUME NEW k \in String, Parses(k), SafePath(k)
  PROVE  LET row == Parse(k) IN
           /\ Splits(PathName(row)) /\ Lookup(PathName(row), row.env) = k
           /\ row.env = Default => Gets(PathName(row), k)
<1> DEFINE n == Len(k)
           p == SubSeq(k, 1, n - 2)
           e == k[n - 1]
           l == k[n]
           f == p \o <<l>>
<1>1. n \in Nat /\ n > 2 /\ \A i \in 1 .. n : k[i] \in Segment
  BY LenProperties, ElementOfSeq DEF String, Parses
<1>2. /\ Parse(k).path = p /\ Parse(k).env = <<e>> /\ Parse(k).name = <<l>>
      /\ PathName(Parse(k)) = f
  BY Zenon DEF Parse, PathName
<1>3. \A i \in 1 .. n : k[i] \notin Rejected
  <2>1. k # Empty
    BY <1>1, LongIsNotEmpty
  <2> QED BY <2>1, SafeSegments
<1>4. p \in String /\ Len(p) = n - 2 /\ \A i \in 1 .. n - 2 : p[i] = k[i]
  <2>1. \A i \in 1 .. n - 2 : k[i] \in Segment
    BY <1>1
  <2>2. /\ SubSeq(k, 1, n - 2) \in Seq(Segment)
        /\ Len(SubSeq(k, 1, n - 2)) = IF 1 <= n - 2 THEN (n - 2) - 1 + 1 ELSE 0
        /\ \A i \in 1 .. (n - 2) - 1 + 1 : SubSeq(k, 1, n - 2)[i] = k[1 + i - 1]
    <3>1. n - 2 \in Int /\ 1 \in Int
      BY <1>1
    <3> HIDE DEF n
    <3> QED BY <2>1, <3>1, SubSeqProperties
  <2> QED BY <1>1, <2>2 DEF String
<1>5. /\ <<l>> \in String /\ Len(<<l>>) = 1 /\ <<l>>[1] = l
      /\ <<e>> \in String /\ Len(<<e>>) = 1 /\ <<e>>[1] = e
  <2>1. l \in Segment /\ e \in Segment
    BY <1>1
  <2> HIDE DEF l, e
  <2> QED BY <2>1 DEF String
<1>6. /\ f \in String /\ Len(f) = n - 1
      /\ \A i \in 1 .. n - 2 : f[i] = k[i]
      /\ f[n - 1] = l
  <2> HIDE DEF p, l
  <2>1. /\ p \o <<l>> \in Seq(Segment) /\ Len(p \o <<l>>) = Len(p) + Len(<<l>>)
        /\ \A i \in 1 .. Len(p) + Len(<<l>>) : (p \o <<l>>)[i] =
              IF i <= Len(p) THEN p[i] ELSE <<l>>[i - Len(p)]
    BY <1>4, <1>5, ConcatProperties DEF String
  <2>2. (n - 1) - (n - 2) = 1 /\ ~(n - 1 <= n - 2) /\ n - 1 \in 1 .. (n - 2) + 1
    BY <1>1
  <2> QED BY <1>1, <1>4, <1>5, <2>1, <2>2 DEF String
<1>7. Front(f) = p /\ Last(f) = l
  <2> HIDE DEF f, p, l
  <2>1. Last(f) = l
    BY <1>6 DEF Last
  <2>2. Front(f) \o <<Last(f)>> = f /\ Front(f) \in String
    <3>1. Len(f) > 1
      BY <1>1, <1>6
    <3> QED BY <1>6, <3>1, SplitAtLast
  <2>3. Front(f) \o <<l>> = p \o <<l>>
    BY <2>1, <2>2 DEF f
  <2>4. Front(f) = p
    <3> DEFINE q == Front(f)
               u == <<l>>
    <3>1. q \in String /\ u \in String /\ q \o u = p \o u
      BY <1>5, <2>2, <2>3
    <3> HIDE DEF q, u
    <3>2. q = p
      BY <1>4, <3>1, SameBeginnings
    <3> QED BY <3>2 DEF q
  <2> QED BY <2>1, <2>4
<1>8. (p \o <<e>>) \o <<l>> = k
  <2>1. p \o <<e>> = Front(k)
    <3>1. Front(k) \in String /\ Len(Front(k)) = n - 1 /\ \A i \in 1 .. n - 1 : Front(k)[i] = k[i]
      <4>1. Len(k) > 1
        BY <1>1
      <4> QED BY <4>1, SplitAtLast
    <3>2. Len(Front(k)) > 1
      BY <1>1, <3>1
    <3>3. Front(Front(k)) \o <<Last(Front(k))>> = Front(k)
      BY <3>1, <3>2, SplitAtLast
    <3>4. Last(Front(k)) = e
      <4>1. n - 1 \in 1 .. n - 1
        BY <1>1
      <4> QED BY <3>1, <4>1 DEF Last
    <3>5. Front(Front(k)) = p
      <4>1. /\ Front(Front(k)) \in String /\ Len(Front(Front(k))) = (n - 1) - 1
            /\ \A i \in 1 .. (n - 1) - 1 : Front(Front(k))[i] = Front(k)[i]
        BY <3>1, <3>2, SplitAtLast
      <4>2. Len(Front(Front(k))) = Len(p)
        BY <1>1, <1>4, <4>1
      <4>3. \A i \in 1 .. Len(p) : Front(Front(k))[i] = p[i]
        <5> HIDE DEF p
        <5> QED BY <1>1, <1>4, <3>1, <4>1
      <4> HIDE DEF p
      <4> QED BY <1>4, <4>1, <4>2, <4>3, SeqEqual DEF String
    <3> QED BY <3>3, <3>4, <3>5, Zenon
  <2>2. Front(k) \o <<Last(k)>> = k
    <3>1. Len(k) > 1
      BY <1>1
    <3> QED BY <3>1, SplitAtLast
  <2> QED BY <2>1, <2>2, Zenon DEF Last
<1>9. f # Empty /\ \A i \in 1 .. Len(f) : f[i] \notin Rejected
  <2> HIDE DEF f
  <2>1. Len(f) > 1
    BY <1>1, <1>6
  <2>2. f # Empty
    BY <2>1, LongIsNotEmpty
  <2>3. \A i \in 1 .. n - 2 : f[i] \notin Rejected
    BY <1>1, <1>3, <1>6
  <2>4. f[n - 1] \notin Rejected
    BY <1>1, <1>3, <1>6
  <2>5. \A i \in 1 .. n - 1 : i \in 1 .. n - 2 \/ i = n - 1
    BY <1>1
  <2> QED BY <1>6, <2>2, <2>3, <2>4, <2>5, Zenon
<1>10. SafePath(f) /\ Len(f) > 1
  <2>1. SafePath(f)
    BY <1>6, <1>9, SafeSegments
  <2> HIDE DEF f
  <2> QED BY <1>1, <1>6, <2>1
<1>11. <<e>> # Empty
  <2>1. e \notin Rejected
    BY <1>1, <1>3
  <2> HIDE DEF e
  <2> QED BY <1>5, <2>1, EmptyString, Zenon
<1>12. Splits(f) /\ Lookup(f, <<e>>) = k
  BY <1>7, <1>8, <1>10, <1>11, Zenon DEF Splits, Lookup, Key
<1>13. <<e>> = Default => Gets(f, k)
  <2> SUFFICES ASSUME <<e>> = Default
               PROVE  Gets(f, k)
    OBVIOUS
  <2>1. Gets(f, Key(Front(f), Default, <<Last(f)>>))
    BY <1>6, <1>10, GetsWhatItNames
  <2>2. Key(Front(f), Default, <<Last(f)>>) = k
    BY <1>7, <1>8, Zenon DEF Key
  <2> QED BY <2>1, <2>2, Zenon
<1> QED BY <1>2, <1>12, <1>13, Zenon

(* What lies under a prefix that is contained in an org begins with the    *)
(* org's root.                                                             *)
LEMMA ContainedIsWithin ==
  ASSUME NEW q \in String, NEW k \in String, NEW o \in Segment,
         Contained(q, o), Covers(q, k)
  PROVE  SubSeq(k, 1, 2) = <<"brand", o>>
<1> DEFINE r == Root(o)
<1>1. r \in String /\ Len(r) = 2
  <2>1. "brand" \in Segment
    BY Zenon DEF Segment
  <2> QED BY <2>1 DEF Root, String
<1>2. Len(q) \in Nat /\ Len(k) \in Nat /\ Len(q) < Len(k) /\ q = SubSeq(k, 1, Len(q))
  BY LenProperties DEF String, Covers
<1>3. CASE q = r
  BY <1>1, <1>2, <1>3 DEF Root
<1>4. CASE Covers(r, q)
  <2>1. 2 < Len(q) /\ r = SubSeq(q, 1, 2)
    BY <1>1, <1>4, Zenon DEF Covers
  <2>2. SubSeq(SubSeq(k, 1, Len(q)), 1, 2) = SubSeq(k, 1, 2)
    <3>1. \A i \in 1 .. 2 : q[i] = k[i]
      <4>1. /\ \A i \in 1 .. Len(k) : k[i] \in Segment
        BY ElementOfSeq DEF String
      <4>2. \A i \in 1 .. Len(q) : k[i] \in Segment
        BY <1>2, <4>1
      <4>3. \A i \in 1 .. Len(q) - 1 + 1 : SubSeq(k, 1, Len(q))[i] = k[1 + i - 1]
        BY <1>2, <4>2, SubSeqProperties
      <4>4. \A i \in 1 .. Len(q) : q[i] = k[1 + i - 1]
        BY <1>2, <4>3
      <4> QED BY <1>2, <2>1, <4>4
    <3>2. \A i \in 1 .. 2 : q[i] \in Segment /\ k[i] \in Segment
      <4>1. \A i \in 1 .. Len(q) : q[i] \in Segment
        BY ElementOfSeq DEF String
      <4> QED BY <1>2, <2>1, <3>1, <4>1
    <3>3. /\ SubSeq(q, 1, 2) \in Seq(Segment)
          /\ Len(SubSeq(q, 1, 2)) = IF 1 <= 2 THEN 2 - 1 + 1 ELSE 0
          /\ \A i \in 1 .. 2 - 1 + 1 : SubSeq(q, 1, 2)[i] = q[1 + i - 1]
      <4>1. \A i \in 1 .. 2 : q[i] \in Segment
        BY <3>2
      <4>2. 1 \in Int /\ 2 \in Int
        OBVIOUS
      <4> QED BY <4>1, <4>2, SubSeqProperties
    <3>4. /\ SubSeq(k, 1, 2) \in Seq(Segment)
          /\ Len(SubSeq(k, 1, 2)) = IF 1 <= 2 THEN 2 - 1 + 1 ELSE 0
          /\ \A i \in 1 .. 2 - 1 + 1 : SubSeq(k, 1, 2)[i] = k[1 + i - 1]
      <4>1. \A i \in 1 .. 2 : k[i] \in Segment
        BY <3>2
      <4>2. 1 \in Int /\ 2 \in Int
        OBVIOUS
      <4> QED BY <4>1, <4>2, SubSeqProperties
    <3>5. Len(SubSeq(q, 1, 2)) = Len(SubSeq(k, 1, 2))
      BY <3>3, <3>4
    <3>6. \A i \in 1 .. Len(SubSeq(q, 1, 2)) : SubSeq(q, 1, 2)[i] = SubSeq(k, 1, 2)[i]
      BY <3>1, <3>3, <3>4
    <3>7. SubSeq(q, 1, 2) = SubSeq(k, 1, 2)
      BY <3>3, <3>4, <3>5, <3>6, SeqEqual
    <3> QED BY <1>2, <3>7
  <2> QED BY <1>2, <2>1, <2>2 DEF Root
<1> QED BY <1>3, <1>4 DEF Contained

-----------------------------------------------------------------------------
(* The inductive invariant.                                                *)

Typed ==
  /\ TypeOK
  /\ prefix \in Queries /\ put \subseteq Args
  /\ IsFiniteSet(Held)

(* A key holds a secret that belongs there. *)
Stored == \A k \in Held : KeyOf(author[k]) = k

(* A listing is one that its caller may have, of a part of its org. *)
Listed ==
  listing # "none" =>
    /\ CanActOnOrg(caller, org)
    /\ prefix = Empty \/ Contained(Trim(prefix), org)

(* What the scan has collected stays a listing of what has been there all  *)
(* along.                                                                  *)
Scanned ==
  listing \in {"scanned", "answered"} =>
    /\ \A k \in refs : Matches(k)
    /\ ~truncated => {k \in steady : Matches(k)} \subseteq refs

(* What was put and not deleted since is there. *)
Got ==
  \A a \in put :
    /\ IsPathName(a) /\ SafePath(SplitPath(a).path) /\ SafePath(SplitPath(a).name)
    /\ KeyOf(PutBody(a)) \in Held

KeysInv == Typed /\ Stored /\ Listed /\ Scanned /\ Got

LEMMA PostEffect ==
  ASSUME Typed, NEW c, NEW o, NEW s \in Secret, Post(c, o, s)
  PROVE  /\ author' \in [Keys -> Secret \cup {None}]
         /\ author'[KeyOf(s)] = s
         /\ \A k \in Keys : k # KeyOf(s) => author'[k] = author[k]
         /\ Held' = Held \cup {KeyOf(s)}
         /\ KeyOf(s) \in Keys
<1>1. KeyOf(s) \in Keys
  BY DEF Keys
<1>2. author \in [Keys -> Secret \cup {None}]
  BY DEF Typed, TypeOK
<1>3. author' = [author EXCEPT ![KeyOf(s)] = s]
  BY DEF Post
<1>4. /\ author' \in [Keys -> Secret \cup {None}]
      /\ author'[KeyOf(s)] = s
      /\ \A k \in Keys : k # KeyOf(s) => author'[k] = author[k]
  BY <1>1, <1>2, <1>3
<1>5. s # None
  BY NoneAssumption
<1>6. Held' = Held \cup {KeyOf(s)}
  BY <1>1, <1>4, <1>5 DEF Held
<1> QED BY <1>1, <1>4, <1>6

LEMMA DeleteEffect ==
  ASSUME Typed, NEW c, NEW o, NEW rest, NEW env, Delete(c, o, rest, env)
  PROVE  /\ author' \in [Keys -> Secret \cup {None}]
         /\ \A k \in Keys : k # Lookup(rest, env) => author'[k] = author[k]
         /\ Held' = Held \ {Lookup(rest, env)}
<1> DEFINE l == Lookup(rest, env)
<1>1. l \in Keys
  BY DEF Delete, Held
<1>2. author \in [Keys -> Secret \cup {None}]
  BY DEF Typed, TypeOK
<1>3. author' = [author EXCEPT ![l] = None]
  BY DEF Delete
<1> HIDE DEF l
<1>4. /\ author' \in [Keys -> Secret \cup {None}]
      /\ author'[l] = None
      /\ \A k \in Keys : k # l => author'[k] = author[k]
  BY <1>1, <1>2, <1>3
<1>5. Held' = Held \ {l}
  BY <1>1, <1>4 DEF Held
<1> QED BY <1>4, <1>5 DEF l

(* A write leaves the listing as it is, and the parts of the invariant     *)
(* that are about it. *)
LEMMA WriteFrame ==
  ASSUME Listed, Scanned, UNCHANGED <<listing, request, refs, truncated>>,
         steady' \subseteq steady
  PROVE  Listed' /\ Scanned'
<1>1. /\ listing' = listing /\ org' = org /\ caller' = caller
      /\ prefix' = prefix /\ filter' = filter
      /\ refs' = refs /\ truncated' = truncated
  BY DEF request
<1>2. Listed'
  BY <1>1 DEF Listed
<1>3. \A k : Matches(k)' <=> Matches(k)
  BY <1>1, Zenon DEF Matches, Under
<1>4. Scanned'
  BY <1>1, <1>3 DEF Scanned
<1> QED BY <1>2, <1>4

LEMMA InitKeys == Init => KeysInv
<1> SUFFICES ASSUME Init
             PROVE  KeysInv
  OBVIOUS
<1>1. Held = {}
  BY DEF Init, Held
<1>2. author \in [Keys -> Secret \cup {None}]
  BY DEF Init
<1>3. filter \in Envs /\ prefix \in Queries
  BY FieldsAssumption DEF Init
<1>4. Cardinality(refs) <= MaxRows /\ IsFiniteSet(Held)
  BY <1>1, FS_EmptySet, MaxAssumption DEF Init
<1>5. Typed
  BY <1>1, <1>2, <1>3, <1>4 DEF Typed, TypeOK, Init
<1>6. Stored /\ Got
  BY <1>1 DEF Stored, Got, Init
<1>7. Listed /\ Scanned
  BY DEF Listed, Scanned, Init
<1> QED BY <1>5, <1>6, <1>7 DEF KeysInv

(* Another's POST, of a secret that nobody has put with the client. *)
LEMMA PostStep ==
  ASSUME KeysInv, NEW c \in Callers, NEW o \in Orgs, NEW s \in Secret, Post(c, o, s)
  PROVE  /\ TypeOK' /\ prefix' \in Queries /\ IsFiniteSet(Held)'
         /\ Stored' /\ Listed' /\ Scanned'
         /\ Held \cup {KeyOf(s)} = Held'
<1>1. Typed /\ Stored /\ Listed /\ Scanned
  BY DEF KeysInv
<1>2. /\ UNCHANGED <<listing, request, refs, truncated>> /\ steady' = steady
      /\ org' = org /\ caller' = caller /\ prefix' = prefix /\ filter' = filter
      /\ listing' = listing /\ refs' = refs /\ truncated' = truncated
  BY DEF Post, request
<1>3. /\ author' \in [Keys -> Secret \cup {None}]
      /\ author'[KeyOf(s)] = s /\ KeyOf(s) \in Keys
      /\ \A k \in Keys : k # KeyOf(s) => author'[k] = author[k]
      /\ Held' = Held \cup {KeyOf(s)}
  BY <1>1, PostEffect
<1>4. TypeOK'
  BY <1>1, <1>2, <1>3 DEF TypeOK, Typed
<1>5. IsFiniteSet(Held)'
  BY <1>1, <1>3, FS_AddElement DEF Typed
<1>6. Stored'
  <2> SUFFICES ASSUME NEW k \in Held'
               PROVE  KeyOf(author'[k]) = k
    BY DEF Stored
  <2>1. CASE k = KeyOf(s)
    BY <1>3, <2>1
  <2>2. CASE k # KeyOf(s)
    BY <1>1, <1>3, <2>2 DEF Stored, Held
  <2> QED BY <2>1, <2>2
<1>7. Listed' /\ Scanned'
  BY <1>1, <1>2, WriteFrame
<1> QED BY <1>1, <1>2, <1>3, <1>4, <1>5, <1>6, <1>7 DEF Typed

LEMMA PutIsASecret ==
  ASSUME NEW a \in Args, IsPathName(a), SafePath(SplitPath(a).path)
  PROVE  PutBody(a) \in Secret
<1>1. Front(a) \in Paths /\ <<Last(a)>> \in Names
  BY ArgsAssumption, Zenon DEF IsPathName, SplitPath
<1>2. Default \in Envs
  BY FieldsAssumption, Zenon
<1>3. PutBody(a) = [path |-> Front(a), env |-> Default, name |-> <<Last(a)>>]
  BY Zenon DEF PutBody, SplitPath
<1> QED BY <1>1, <1>2, <1>3 DEF Secret

LEMMA CliPutStep ==
  ASSUME KeysInv, NEW c \in Callers, NEW o \in Orgs, NEW a \in Args, CliPut(c, o, a)
  PROVE  KeysInv'
<1>1. Typed /\ Got
  BY DEF KeysInv
<1>2. /\ IsPathName(a) /\ Post(c, o, PutBody(a)) /\ put' = put \cup {a}
      /\ SafePath(SplitPath(a).path) /\ SafePath(SplitPath(a).name)
  BY DEF CliPut, Post, PutBody
<1>3. PutBody(a) \in Secret
  BY <1>2, PutIsASecret
<1>4. /\ TypeOK' /\ prefix' \in Queries /\ IsFiniteSet(Held)'
      /\ Stored' /\ Listed' /\ Scanned'
      /\ Held \cup {KeyOf(PutBody(a))} = Held'
  BY <1>2, <1>3, PostStep
<1>5. Typed'
  BY <1>1, <1>2, <1>4 DEF Typed
<1>6. Got'
  BY <1>1, <1>2, <1>4 DEF Got
<1> QED BY <1>4, <1>5, <1>6 DEF KeysInv

LEMMA DeleteStep ==
  ASSUME KeysInv, NEW c \in Callers, NEW o \in Orgs, NEW rest, NEW env, Delete(c, o, rest, env)
  PROVE  KeysInv'
<1> DEFINE l == Lookup(rest, env)
<1>1. Typed /\ Stored /\ Listed /\ Scanned /\ Got
  BY DEF KeysInv
<1>2. /\ UNCHANGED <<listing, request, refs, truncated>>
      /\ steady' = steady \ {l}
      /\ put' = {a \in put : KeyOf(PutBody(a)) # l}
      /\ org' = org /\ caller' = caller /\ prefix' = prefix /\ filter' = filter
      /\ listing' = listing /\ refs' = refs /\ truncated' = truncated
  BY DEF Delete, request
<1>3. /\ author' \in [Keys -> Secret \cup {None}]
      /\ \A k \in Keys : k # l => author'[k] = author[k]
      /\ Held' = Held \ {l}
  BY <1>1, DeleteEffect
<1> HIDE DEF l
<1>4. Typed'
  <2>1. IsFiniteSet(Held)'
    BY <1>1, <1>3, FS_RemoveElement DEF Typed
  <2>2. TypeOK'
    BY <1>1, <1>2, <1>3 DEF TypeOK, Typed
  <2> QED BY <1>1, <1>2, <2>1, <2>2 DEF Typed
<1>5. Stored'
  BY <1>1, <1>3 DEF Stored, Held
<1>6. Listed' /\ Scanned'
  BY <1>1, <1>2, WriteFrame
<1>7. Got'
  BY <1>1, <1>2, <1>3 DEF Got
<1> QED BY <1>4, <1>5, <1>6, <1>7 DEF KeysInv

LEMMA ListStep ==
  ASSUME KeysInv, NEW c \in Callers, NEW o \in Orgs, NEW q \in Queries, NEW e \in Envs,
         List(c, o, q, e)
  PROVE  KeysInv'
<1>1. Typed /\ Stored /\ Got
  BY DEF KeysInv
<1>2. /\ listing' = "started" /\ org' = o /\ caller' = c /\ prefix' = q /\ filter' = e
      /\ steady' = Held /\ refs' = {} /\ truncated' = FALSE
      /\ author' = author /\ put' = put
      /\ CanActOnOrg(c, o)
      /\ q = Empty \/ Contained(Trim(q), o)
  BY DEF List
<1>3. Held' = Held
  BY <1>2 DEF Held
<1>4. Typed'
  <2>1. Cardinality(refs') <= MaxRows
    BY <1>2, FS_EmptySet, MaxAssumption
  <2> QED BY <1>1, <1>2, <1>3, <2>1 DEF Typed, TypeOK
<1>5. Stored' /\ Got'
  BY <1>1, <1>2, <1>3 DEF Stored, Got
<1>6. Listed'
  BY <1>2, Zenon DEF Listed
<1>7. Scanned'
  BY <1>2 DEF Scanned
<1> QED BY <1>4, <1>5, <1>6, <1>7 DEF KeysInv

LEMMA ScanStep == KeysInv /\ Scan => KeysInv'
<1> SUFFICES ASSUME KeysInv, Scan
             PROVE  KeysInv'
  OBVIOUS
<1> DEFINE found == {k \in Held : Matches(k)}
<1>1. Typed /\ Stored /\ Listed /\ Got
  BY DEF KeysInv
<1>2. /\ listing = "started" /\ listing' = "scanned"
      /\ truncated' = TooMany(found)
      /\ refs' \in IF TooMany(found) THEN kSubset(MaxRows, found) ELSE {found}
      /\ author' = author /\ org' = org /\ caller' = caller /\ prefix' = prefix
      /\ filter' = filter /\ steady' = steady /\ put' = put
  BY DEF Scan, request
<1>3. Held' = Held
  BY <1>2 DEF Held
<1>4. found \subseteq Held /\ Cardinality(found) \in Nat /\ \A k \in found : Matches(k)
  BY <1>1, FS_Subset, FS_CardinalityType DEF Typed
<1>5. {k \in steady : Matches(k)} \subseteq found
  BY <1>1 DEF Typed, TypeOK
<1> HIDE DEF found
<1>6. /\ refs' \subseteq found /\ Cardinality(refs') <= MaxRows
      /\ ~truncated' => refs' = found
  <2>1. CASE TooMany(found)
    BY <1>2, <2>1, MaxAssumption DEF kSubset
  <2>2. CASE ~TooMany(found)
    BY <1>2, <1>4, <2>2, MaxAssumption DEF TooMany
  <2> QED BY <2>1, <2>2
<1>7. Typed'
  <2>1. truncated' \in BOOLEAN
    BY <1>2 DEF TooMany
  <2>2. refs' \subseteq Keys
    BY <1>4, <1>6 DEF Held
  <2> QED BY <1>1, <1>2, <1>3, <1>6, <2>1, <2>2 DEF Typed, TypeOK
<1>8. Stored' /\ Got'
  BY <1>1, <1>2, <1>3 DEF Stored, Got
<1>9. Listed'
  BY <1>1, <1>2 DEF Listed
<1>10. Scanned'
  <2>1. \A k : Matches(k)' <=> Matches(k)
    BY <1>2, Zenon DEF Matches, Under
  <2> QED BY <1>2, <1>4, <1>5, <1>6, <2>1 DEF Scanned
<1> QED BY <1>7, <1>8, <1>9, <1>10 DEF KeysInv

LEMMA AnswerStep == KeysInv /\ Answer => KeysInv'
<1> SUFFICES ASSUME KeysInv, Answer
             PROVE  KeysInv'
  OBVIOUS
<1>1. Typed /\ Stored /\ Listed /\ Scanned /\ Got
  BY DEF KeysInv
<1>2. /\ listing = "scanned" /\ listing' = "answered"
      /\ author' = author /\ org' = org /\ caller' = caller /\ prefix' = prefix
      /\ filter' = filter /\ refs' = refs /\ truncated' = truncated
      /\ steady' = steady /\ put' = put
  BY DEF Answer, request
<1>3. Held' = Held /\ \A k : Matches(k)' <=> Matches(k)
  BY <1>2, Zenon DEF Held, Matches, Under
<1>4. Typed'
  BY <1>1, <1>2, <1>3 DEF Typed, TypeOK
<1>5. Stored' /\ Got' /\ Listed'
  BY <1>1, <1>2, <1>3 DEF Stored, Got, Listed
<1>6. Scanned'
  BY <1>1, <1>2, <1>3 DEF Scanned
<1> QED BY <1>4, <1>5, <1>6 DEF KeysInv

LEMMA NextKeys == KeysInv /\ [Next]_vars => KeysInv'
<1> SUFFICES ASSUME KeysInv, [Next]_vars
             PROVE  KeysInv'
  OBVIOUS
<1>1. ASSUME NEW c \in Callers, NEW o \in Orgs, NEW s \in Secret,
             Post(c, o, s), UNCHANGED put
      PROVE  KeysInv'
  <2>1. /\ TypeOK' /\ prefix' \in Queries /\ IsFiniteSet(Held)'
        /\ Stored' /\ Listed' /\ Scanned'
        /\ Held \cup {KeyOf(s)} = Held'
    BY <1>1, PostStep
  <2>2. Typed'
    BY <1>1, <2>1 DEF KeysInv, Typed
  <2>3. Got'
    BY <1>1, <2>1 DEF KeysInv, Got
  <2> QED BY <2>1, <2>2, <2>3 DEF KeysInv
<1>2. CASE Scan
  BY <1>2, ScanStep
<1>3. CASE Answer
  BY <1>3, AnswerStep
<1>4. CASE UNCHANGED vars
  <2>1. /\ author' = author /\ org' = org /\ caller' = caller /\ prefix' = prefix
        /\ filter' = filter /\ refs' = refs /\ truncated' = truncated
        /\ steady' = steady /\ put' = put /\ listing' = listing
    BY <1>4 DEF vars
  <2>2. Held' = Held /\ \A k : Matches(k)' <=> Matches(k)
    BY <2>1, Zenon DEF Held, Matches, Under
  <2>3. Typed' /\ Stored' /\ Listed' /\ Scanned' /\ Got'
    BY <2>1, <2>2 DEF KeysInv, Typed, TypeOK, Stored, Listed, Scanned, Got
  <2> QED BY <2>3 DEF KeysInv
<1> QED BY <1>1, <1>2, <1>3, <1>4, CliPutStep, DeleteStep, ListStep DEF Next

(* What holds of every state. *)
THEOREM KeysInvariant == Spec => []KeysInv
<1> QED BY InitKeys, NextKeys, PTL DEF Spec

-----------------------------------------------------------------------------
(* TypeOK: a key holds nothing or a secret, and a listing is bounded by    *)
(* MaxRows.                                                                *)
THEOREM KeysTyped == Spec => []TypeOK
<1>1. KeysInv => TypeOK
  BY DEF KeysInv, Typed
<1> QED BY <1>1, KeysInvariant, PTL

(* ListIsComplete: a listing that is not cut off shows every matching key  *)
(* that was there all along, only keys of its org, and only to a caller    *)
(* who may act on that org.                                                *)
THEOREM ListingIsWhole == Spec => []ListIsComplete
<1>1. KeysInv => ListIsComplete
  <2> SUFFICES ASSUME KeysInv, listing = "answered"
               PROVE  ListIsComplete
    BY DEF ListIsComplete
  <2>1. Typed /\ Listed /\ Scanned
    BY DEF KeysInv
  <2>2. \A k \in refs : Matches(k)
    BY <2>1 DEF Scanned
  <2>3. ~truncated => {k \in steady : Matches(k)} \subseteq refs
    BY <2>1 DEF Scanned
  <2>4. CanActOnOrg(caller, org) /\ (prefix = Empty \/ Contained(Trim(prefix), org))
    BY <2>1 DEF Listed
  <2>5. caller.admin \/ caller.owner = org
    BY <2>4, Zenon DEF CanActOnOrg
  <2>6. Under \in String /\ Contained(Under, org) /\ org \in Segment
    <3>1. org \in Segment /\ prefix \in Queries
      BY <2>1, StringTypes DEF Typed, TypeOK
    <3>2. Contained(Under, org)
      BY <2>4, Zenon DEF Under, Contained
    <3>3. Root(org) \in String
      <4>1. "brand" \in Segment
        BY Zenon DEF Segment
      <4> QED BY <3>1, <4>1 DEF Root, String
    <3>4. Trim(prefix) \in String
      <4>1. prefix \in String
        BY <3>1, StringTypes
      <4>2. Len(prefix) > 1 => Front(prefix) \in String
        BY <4>1, SplitAtLast
      <4> QED BY <4>1, <4>2, Zenon DEF Trim
    <3> QED BY <3>1, <3>2, <3>3, <3>4 DEF Under
  <2>7. \A k \in refs : SubSeq(k, 1, 2) = <<"brand", org>>
    <3> TAKE k \in refs
    <3>1. k \in String
      BY <2>1, StringTypes DEF Typed, TypeOK
    <3>2. Covers(Under, k)
      BY <2>2 DEF Matches
    <3> QED BY <2>6, <3>1, <3>2, ContainedIsWithin
  <2> QED BY <2>3, <2>5, <2>7 DEF ListIsComplete
<1> QED BY <1>1, KeysInvariant, PTL

(* PutIsGot: the key that `kms get` looks up is the one that `kms put`     *)
(* has written, and what is there was put with the same path, environment  *)
(* and name.                                                               *)
THEOREM WhatIsPutIsGot == Spec => []PutIsGot
<1>1. KeysInv => PutIsGot
  <2> SUFFICES ASSUME KeysInv, NEW a \in put
               PROVE  \E k \in Held :
                        /\ Gets(a, k)
                        /\ Len(author[k].env) = 1 /\ Len(author[k].name) = 1
                             => author[k] = PutBody(a)
    BY Zenon DEF PutIsGot
  <2> DEFINE k == KeyOf(PutBody(a))
             s == author[k]
  <2>1. Typed /\ Stored /\ Got
    BY DEF KeysInv
  <2>2. /\ IsPathName(a) /\ SafePath(SplitPath(a).path) /\ SafePath(SplitPath(a).name)
        /\ k \in Held
    BY <2>1 DEF Got
  <2>3. a \in String /\ PutBody(a) \in Secret
    BY <2>1, <2>2, StringTypes, PutIsASecret DEF Typed
  <2>4. /\ PutBody(a).env = Default /\ PutBody(a).name = <<Last(a)>>
        /\ k = Key(Front(a), Default, <<Last(a)>>)
    BY Zenon DEF PutBody, SplitPath, KeyOf
  <2>5. Gets(a, k)
    <3>1. SafePath(a) /\ Len(a) > 1
      BY <2>2, <2>3, SafeParts
    <3> QED BY <2>3, <2>4, <3>1, GetsWhatItNames, Zenon
  <2>6. s \in Secret /\ KeyOf(s) = KeyOf(PutBody(a))
    <3>1. k \in Keys /\ author[k] # None
      BY <2>2 DEF Held
    <3>2. author \in [Keys -> Secret \cup {None}]
      BY <2>1 DEF Typed, TypeOK
    <3>3. KeyOf(author[k]) = k
      BY <2>1, <2>2 DEF Stored
    <3> HIDE DEF k
    <3>4. author[k] \in Secret
      BY <3>1, <3>2
    <3> QED BY <3>3, <3>4 DEF k
  <2>7. Len(s.env) = 1 /\ Len(s.name) = 1 => s = PutBody(a)
    <3>1. Len(PutBody(a).env) = 1 /\ Len(PutBody(a).name) = 1
      <4>1. Len(<<Last(a)>>) = 1
        OBVIOUS
      <4> QED BY <2>4, <4>1, EmptyString, Zenon
    <3> HIDE DEF s
    <3> QED BY <2>3, <2>6, <3>1, OneReading
  <2> HIDE DEF k
  <2> QED BY <2>2, <2>5, <2>7, Zenon
<1> QED BY <1>1, KeysInvariant, PTL

(* RowsLeadBack: what a listing says of a secret is how to get it.         *)
THEOREM RowsAddressTheirKeys == Spec => []RowsLeadBack
<1>1. KeysInv => RowsLeadBack
  <2> SUFFICES ASSUME KeysInv, listing = "answered", NEW k \in refs, SafePath(k)
               PROVE  LET row == Parse(k) IN
                        /\ Splits(PathName(row)) /\ Lookup(PathName(row), row.env) = k
                        /\ row.env = Default => Gets(PathName(row), k)
    BY Zenon DEF RowsLeadBack
  <2>1. Typed /\ Scanned
    BY DEF KeysInv
  <2>2. k \in String
    BY <2>1, StringTypes DEF Typed, TypeOK
  <2>3. Parses(k)
    BY <2>1 DEF Scanned, Matches
  <2> QED BY <2>2, <2>3, RowAddressesItsKey
<1> QED BY <1>1, KeysInvariant, PTL
=============================================================================
