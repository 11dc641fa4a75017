--------------------------- MODULE KmsFetchProofs ---------------------------
(***************************************************************************)
(* Proofs about KmsFetch, for any list of secrets, any number of starts    *)
(* and any lifetimes and timeouts that SkewAssumption admits: its types,   *)
(* that no token expires on its way, that a start that aborts leaves no    *)
(* trace, that the aggregate is never ahead of the files, and that a start *)
(* that exits with 0 has written what it has fetched, none of it stale.    *)
(***************************************************************************)
EXTENDS KmsFetch, SequenceTheorems, WellFoundedInduction, TLAPS

(* A sequence of specs has a first entry, and the next one while there is  *)
(* one.                                                                    *)
LEMMA Entries ==
  /\ DOMAIN Specs = 1 .. Len(Specs) /\ Len(Specs) \in Nat /\ 1 \in DOMAIN Specs
  /\ \A i \in DOMAIN Specs : Specs[i].name \in Names /\ Specs[i].secret \in Secret
  /\ \A i \in DOMAIN Specs : i < Len(Specs) => i + 1 \in DOMAIN Specs
<1>1. Specs \in Seq([name : Names, secret : Secret]) /\ Specs # <<>>
  BY SpecsAssumption
<1>2. DOMAIN Specs = 1 .. Len(Specs) /\ Len(Specs) \in Nat /\ Len(Specs) # 0
  BY <1>1
<1>3. ASSUME NEW i \in DOMAIN Specs
      PROVE  Specs[i].name \in Names /\ Specs[i].secret \in Secret
  <2>1. Specs[i] \in [name : Names, secret : Secret]
    BY <1>1, <1>2, ElementOfSeq
  <2>. QED
    BY <2>1
<1>. QED
  BY <1>2, <1>3

(* Every variable has its type. *)
THEOREM TypeCorrect == Spec => []TypeOK
<1>1. Init => TypeOK
  <2>. SUFFICES ASSUME Init PROVE TypeOK
    OBVIOUS
  <2>1. files \in [Names -> Fetched] /\ values \in [Names -> Fetched] /\ env = None
    BY DEF Init, Fetched, Absent
  <2>2. found \in [Names -> Fetched] \X ([Names -> Fetched] \cup {None})
    BY <2>1 DEF Init
  <2>3. current \in [Secret -> Nat] /\ atStart \in [Secret -> Nat]
    BY DEF Init
  <2>. QED
    BY <2>1, <2>2, <2>3, Entries DEF Init, TypeOK, Ended, Waiting
<1>2. TypeOK /\ [Next]_vars => TypeOK'
  <2>. SUFFICES ASSUME TypeOK, [Next]_vars PROVE TypeOK'
    OBVIOUS
  <2>. USE Entries, SkewAssumption DEF TypeOK, Fetched
  <2>1. CASE Start
    BY <2>1 DEF Start, Absent, volume, past, Ended, Waiting
  <2>2. CASE Dial
    BY <2>2 DEF Dial, volume, past, cached, Ended, Waiting
  <2>3. CASE Get
    BY <2>3 DEF Get, volume, past, cached, Waiting
  <2>4. CASE IamIssues
    BY <2>4 DEF IamIssues, volume, past, Waiting
  <2>5. CASE TokenArrives
    BY <2>5 DEF TokenArrives, volume, past, Waiting
  <2>6. CASE ServerAnswers
    <3>1. current[Wanted] \in Nat
      BY DEF Wanted
    <3>. QED
      BY <2>6, <3>1 DEF ServerAnswers, volume, past, cached, Ended, Waiting
  <2>7. CASE ValueArrives
    <3>1. [ver |-> answer, run |-> run] \in [ver : Nat, run : Nat]
      OBVIOUS
    <3>2. entry' \in DOMAIN Specs
      BY <2>7 DEF ValueArrives, More
    <3>3. values' \in [Names -> [ver : Nat, run : Nat]]
      BY <2>7, <3>1 DEF ValueArrives
    <3>. QED
      BY <2>7, <3>2, <3>3 DEF ValueArrives, volume, past, cached, Waiting
  <2>8. CASE GetFails
    BY <2>8 DEF GetFails, volume, past, cached, Ended, Waiting
  <2>9. CASE Mkdir
    BY <2>9 DEF Mkdir, volume, past, cached, Ended, Waiting
  <2>10. ASSUME NEW n \in Names, WriteFile(n) PROVE TypeOK'
    BY <2>10 DEF WriteFile, Replace, past, cached, Ended, Waiting
  <2>11. CASE WriteEnv
    BY <2>11 DEF WriteEnv, past, cached, Ended, Waiting
  <2>12. CASE Kill
    BY <2>12 DEF Kill, volume, past, cached, Ended, Waiting
  <2>13. CASE Tick
    BY <2>13 DEF Tick, volume, past, cached, Waiting
  <2>14. ASSUME NEW s \in Secret, Rotate(s) PROVE TypeOK'
    BY <2>14 DEF Rotate, volume, past, cached
  <2>15. CASE UNCHANGED vars
    BY <2>15 DEF vars, volume, past, cached
  <2>. QED
    BY <2>1, <2>2, <2>3, <2>4, <2>5, <2>6, <2>7, <2>8, <2>9, <2>10, <2>11, <2>12,
       <2>13, <2>14, <2>15 DEF Next, Step
<1>. QED
  BY <1>1, <1>2, PTL DEF Spec

-----------------------------------------------------------------------------
(* The client does not keep a token for longer than GetTimeout after what  *)
(* its claim says, and what it sends with a request lasts to the deadline. *)
TokenInv ==
  /\ ~refused
  /\ expiry <= now + Lifetime /\ expiry <= exp + GetTimeout
  /\ pc \in Waiting => deadline <= now + GetTimeout
  /\ pc = "iamReply" => exp >= deadline - GetTimeout + Lifetime
  /\ pc = "request" /\ transport = "http" => exp > deadline

(* No fetch is refused for a token that expired on its way: the skew of 60 *)
(* seconds covers twice the 10 seconds of a Get, once for the answer of    *)
(* IAM and once for the request itself.                                    *)
THEOREM TokenIsGood == Spec => []TokenOutlivesItsUse
<1>1. Init => TokenInv
  BY SkewAssumption DEF Init, TokenInv, Waiting
<1>2. TypeOK /\ TokenInv /\ [Next]_vars => TokenInv'
  <2>. SUFFICES ASSUME TypeOK, TokenInv, [Next]_vars PROVE TokenInv'
    OBVIOUS
  <2>1. /\ now \in Nat /\ expiry \in Nat /\ exp \in Nat /\ deadline \in Nat
        /\ pc \in Waiting => now <= deadline
    BY DEF TypeOK
  <2>. USE <2>1, SkewAssumption DEF TokenInv
  <2>2. CASE Start
    BY <2>2 DEF Start, Waiting
  <2>3. CASE Dial
    BY <2>3 DEF Dial, cached, Waiting
  <2>4. CASE Get
    BY <2>4 DEF Get, Usable, cached, Waiting
  <2>5. CASE IamIssues
    BY <2>5 DEF IamIssues, Waiting
  <2>6. CASE TokenArrives
    BY <2>6 DEF TokenArrives, Waiting
  <2>7. CASE ServerAnswers
    BY <2>7 DEF ServerAnswers, cached, Waiting
  <2>8. CASE ValueArrives
    BY <2>8 DEF ValueArrives, cached, Waiting
  <2>9. CASE GetFails
    BY <2>9 DEF GetFails, cached, Waiting
  <2>10. CASE Mkdir
    BY <2>10 DEF Mkdir, cached, Waiting
  <2>11. ASSUME NEW n \in Names, WriteFile(n) PROVE TokenInv'
    BY <2>11 DEF WriteFile, cached, Waiting
  <2>12. CASE WriteEnv
    BY <2>12 DEF WriteEnv, cached, Waiting
  <2>13. CASE Kill
    BY <2>13 DEF Kill, cached, Ended, Waiting
  <2>14. CASE Tick
    BY <2>14 DEF Tick, cached
  <2>15. ASSUME NEW s \in Secret, Rotate(s) PROVE TokenInv'
    BY <2>15 DEF Rotate, cached
  <2>16. CASE UNCHANGED vars
    BY <2>16 DEF vars, cached
  <2>. QED
    BY <2>2, <2>3, <2>4, <2>5, <2>6, <2>7, <2>8, <2>9, <2>10, <2>11, <2>12, <2>13,
       <2>14, <2>15, <2>16 DEF Next, Step
<1>3. TokenInv => TokenOutlivesItsUse
  BY DEF TokenInv, TokenOutlivesItsUse
<1>. QED
  BY <1>1, <1>2, <1>3, TypeCorrect, PTL DEF Spec

-----------------------------------------------------------------------------
(* While it fetches, and when it has given up, the volume is as found. *)
Fetching == Waiting \cup {"dial", "get", "mkdir"}

VolumeInv == pc \in Fetching \cup {"exit3", "exit4"} => volume = found

(* "atomic or abort": a start that fails to fetch leaves no trace. *)
THEOREM NoTrace == Spec => []AbortsWithoutTrace
<1>1. Init => VolumeInv
  BY DEF Init, VolumeInv, Fetching, Waiting
<1>2. VolumeInv /\ [Next]_vars => VolumeInv'
  <2>. SUFFICES ASSUME VolumeInv, [Next]_vars PROVE VolumeInv'
    OBVIOUS
  <2>. USE DEF VolumeInv, volume, past, Fetching, Waiting
  <2>1. CASE Start
    BY <2>1 DEF Start
  <2>2. CASE Step
    BY <2>2 DEF Step, Dial, Get, IamIssues, TokenArrives, ServerAnswers, ValueArrives,
                GetFails, Mkdir, WriteFile, WriteEnv
  <2>3. CASE Kill
    BY <2>3 DEF Kill
  <2>4. CASE Tick \/ \E s \in Secret : Rotate(s)
    BY <2>4 DEF Tick, Rotate
  <2>5. CASE UNCHANGED vars
    BY <2>5 DEF vars
  <2>. QED
    BY <2>1, <2>2, <2>3, <2>4, <2>5 DEF Next
<1>3. VolumeInv => AbortsWithoutTrace
  BY DEF VolumeInv, AbortsWithoutTrace
<1>. QED
  BY <1>1, <1>2, <1>3, PTL DEF Spec

-----------------------------------------------------------------------------
(* The entries whose value this start has. *)
Done == IF pc \in {"mkdir", "write"} THEN DOMAIN Specs
                                    ELSE {i \in DOMAIN Specs : i < entry}

(* Nothing in the volume or in memory is of a later start than this one,   *)
(* and what is written is of this start.                                   *)
RunsInv ==
  /\ EnvIsLast
  /\ \A n \in Names : files[n].run <= run /\ values[n].run <= run
  /\ \A i \in Done : values[Specs[i].name].run = run
  /\ pc = "write" => \A n \in Names \ todo : files[n] = values[n]

(* A step that leaves the values and the volume alone. *)
LEMMA RunsStay ==
  ASSUME RunsInv, run' = run, values' = values, files' = files, env' = env, Done' \subseteq Done,
         pc' = "write" => todo' = Names \/ (pc = "write" /\ todo' = todo)
  PROVE  RunsInv'
BY DEF RunsInv, EnvIsLast

LEMMA RunsInvariant == Spec => []RunsInv
<1>1. Init => RunsInv
  BY Entries DEF Init, RunsInv, EnvIsLast, Done, Absent
<1>2. TypeOK /\ RunsInv /\ [Next]_vars => RunsInv'
  <2>. SUFFICES ASSUME TypeOK, RunsInv, [Next]_vars PROVE RunsInv'
    OBVIOUS
  <2>1. /\ run \in Nat /\ entry \in DOMAIN Specs /\ entry \in 1 .. Len(Specs)
        /\ values \in [Names -> [ver : Nat, run : Nat]]
        /\ files \in [Names -> [ver : Nat, run : Nat]]
        /\ env \in [Names -> [ver : Nat, run : Nat]] \cup {None}
    BY Entries DEF TypeOK, Fetched
  <2>2. CASE Start
    <3>1. /\ run' = run + 1 /\ files' = files /\ env' = env /\ Done' = {}
          /\ \A n \in Names : values'[n].run = 0
          /\ pc' # "write"
      BY <2>2, Entries DEF Start, Done, Absent, volume
    <3>. QED
      BY <2>1, <3>1 DEF RunsInv, EnvIsLast
  <2>3. CASE Dial \/ Get \/ IamIssues \/ TokenArrives \/ ServerAnswers \/ GetFails \/ Kill
    <3>1. Done' \subseteq Done
      BY <2>3, <2>1, Entries DEF Done, Dial, Get, IamIssues, TokenArrives, ServerAnswers, GetFails,
                                 Kill, Waiting
    <3>. QED
      BY <2>3, <3>1, RunsStay DEF Dial, Get, IamIssues, TokenArrives, ServerAnswers, GetFails,
                                  Kill, volume
  <2>4. CASE ValueArrives
    <3>1. /\ run' = run /\ files' = files /\ env' = env /\ pc = "reply" /\ pc' # "write"
          /\ \A n \in Names : values'[n].run = IF n = Specs[entry].name THEN run ELSE values[n].run
      BY <2>4, <2>1 DEF ValueArrives, volume
    <3>2. Done' \subseteq Done \cup {entry}
      BY <2>4, <2>1, Entries DEF ValueArrives, More, Done
    <3>3. \A i \in Done' : i \in DOMAIN Specs /\ Specs[i].name \in Names
      BY Entries DEF Done
    <3>4. \A i \in Done' : values'[Specs[i].name].run = run
      BY <3>1, <3>2, <3>3 DEF RunsInv
    <3>5. ASSUME NEW n \in Names PROVE values'[n].run <= run
      <4>1. values[n].run <= run /\ run <= run
        BY <2>1 DEF RunsInv
      <4>2. values'[n].run = run \/ values'[n].run = values[n].run
        BY <3>1
      <4>. QED
        BY <4>1, <4>2
    <3>. QED
      BY <3>1, <3>4, <3>5 DEF RunsInv, EnvIsLast
  <2>5. CASE Mkdir
    <3>1. Done' \subseteq Done
      BY <2>5, <2>1, Entries DEF Mkdir, Done
    <3>. QED
      BY <2>5, <3>1, RunsStay DEF Mkdir, volume
  <2>6. ASSUME pc = "write", NEW n \in Names PROVE values[n].run = run
    <3>1. PICK i \in DOMAIN Specs : Specs[i].name = n
      BY <2>6 DEF Names
    <3>. QED
      BY <2>6, <3>1 DEF RunsInv, Done
  <2>7. ASSUME NEW n \in Names, WriteFile(n) PROVE RunsInv'
    <3>1. /\ run' = run /\ values' = values /\ env' = env /\ pc = "write" /\ pc' \in {"write", "exit1"}
          /\ Done' \subseteq Done
      BY <2>7, <2>1, Entries DEF WriteFile, Done
    <3>2. CASE Replace(n) /\ todo' = todo \ {n}
      <4>1. \A m \in Names : files'[m] = IF m = n THEN values[m] ELSE files[m]
        BY <3>2, <2>1 DEF Replace
      <4>2. env # None => \A m \in Names : env[m].run <= run /\ env[m].run \in Nat
        BY <2>1 DEF RunsInv, EnvIsLast
      <4>3. \A m \in Names : env' # None => files'[m].run >= env'[m].run
        BY <2>6, <3>1, <4>1, <4>2 DEF RunsInv, EnvIsLast
      <4>4. \A m \in Names \ todo' : files'[m] = values'[m]
        BY <3>1, <3>2, <4>1 DEF RunsInv
      <4>. QED
        BY <3>1, <4>1, <4>3, <4>4 DEF RunsInv, EnvIsLast
    <3>3. CASE pc' = "exit1" /\ UNCHANGED <<files, todo>>
      BY <3>1, <3>3, RunsStay
    <3>. QED
      BY <2>7, <3>2, <3>3 DEF WriteFile
  <2>8. CASE WriteEnv
    <3>1. /\ run' = run /\ values' = values /\ files' = files /\ pc = "write" /\ pc' # "write"
          /\ Done' \subseteq Done
      BY <2>8, <2>1, Entries DEF WriteEnv, Done
    <3>2. CASE env' = values /\ todo = {}
      <4>1. \A n \in Names : files[n] = values[n] /\ values[n].run \in Nat
        BY <3>1, <3>2, <2>1 DEF RunsInv
      <4>. QED
        BY <3>1, <3>2, <4>1 DEF RunsInv, EnvIsLast
    <3>3. CASE env' = env
      BY <3>1, <3>3, RunsStay
    <3>. QED
      BY <2>8, <3>2, <3>3 DEF WriteEnv
  <2>9. CASE Tick \/ \E s \in Secret : Rotate(s)
    <3>1. Done' \subseteq Done
      BY <2>9 DEF Done, Tick, Rotate
    <3>. QED
      BY <2>9, <3>1, RunsStay DEF Tick, Rotate, volume
  <2>10. CASE UNCHANGED vars
    <3>1. Done' \subseteq Done
      BY <2>10 DEF Done, vars
    <3>. QED
      BY <2>10, <3>1, RunsStay DEF vars, volume
  <2>. QED
    BY <2>2, <2>3, <2>4, <2>5, <2>7, <2>8, <2>9, <2>10 DEF Next, Step
<1>. QED
  BY <1>1, <1>2, TypeCorrect, PTL DEF Spec

(* The aggregate is never of a later start than one of the files. *)
THEOREM EnvComesLast == Spec => []EnvIsLast
<1>1. RunsInv => EnvIsLast
  BY DEF RunsInv
<1>. QED
  BY <1>1, RunsInvariant, PTL

-----------------------------------------------------------------------------
(* A name may be listed twice, and SecretOf says which entry counts: there *)
(* is a last one.                                                          *)
LEMMA LastEntry ==
  ASSUME NEW n \in Names
  PROVE  \E i \in DOMAIN Specs :
           /\ Specs[i].name = n
           /\ \A j \in DOMAIN Specs : Specs[j].name = n => j <= i
           /\ SecretOf(n) = Specs[i].secret
<1> DEFINE Of   == {i \in DOMAIN Specs : Specs[i].name = n}
           Back == {Len(Specs) - i : i \in Of}
           IsLast(i) == /\ Specs[i].name = n
                        /\ \A j \in DOMAIN Specs : Specs[j].name = n => j <= i
<1>1. PICK i \in DOMAIN Specs : Specs[i].name = n
  BY DEF Names
<1>2. Back \subseteq Nat /\ Back # {}
  BY <1>1, Entries
<1>3. PICK b \in Back : \A c \in Back : ~(c < b)
  <2>1. \E b \in Back : \A c \in Back : ~(<<c, b>> \in OpToRel(<, Nat))
    BY <1>2, WFMin, NatLessThanWellFounded, Zenon
  <2>. QED
    BY <1>2, <2>1, Zenon DEF OpToRel
<1>4. PICK l \in Of : b = Len(Specs) - l
  OBVIOUS
<1>5. l \in DOMAIN Specs /\ IsLast(l)
  <2>1. ASSUME NEW j \in Of PROVE j <= l
    <3>1. Len(Specs) - j \in Back
      OBVIOUS
    <3>2. ~(Len(Specs) - j < Len(Specs) - l)
      BY <1>3, <1>4, <3>1
    <3>3. j \in Nat /\ l \in Nat /\ Len(Specs) \in Nat
      BY Entries
    <3>. QED
      BY <3>2, <3>3
  <2>. QED
    BY <2>1
<1>6. \A j \in DOMAIN Specs : IsLast(j) => j = l
  BY <1>5, Entries
<1>7. (CHOOSE j \in DOMAIN Specs : IsLast(j)) = l
  BY <1>5, <1>6
<1>. QED
  BY <1>5, <1>7 DEF SecretOf

(* The entry counts until a later one of the same name is fetched. *)
Counts(i) == \A j \in Done : Specs[j].name = Specs[i].name => j <= i

(* What a start holds is no older than the start. *)
FreshInv ==
  /\ \A s \in Secret : atStart[s] <= current[s]
  /\ pc = "reply" => answer >= atStart[Wanted]
  /\ pc \notin Ended => \A i \in Done :
       Counts(i) => values[Specs[i].name].ver >= atStart[Specs[i].secret]
  /\ SuccessIsComplete

(* A step that fetches nothing and writes nothing keeps what is held. *)
LEMMA FreshStays ==
  ASSUME FreshInv, pc' # "exit0" \/ pc' = pc,
         values' = values, atStart' = atStart, run' = run, files' = files, env' = env,
         \A s \in Secret : current[s] <= current'[s],
         pc' = "reply" => pc = "reply" /\ answer' = answer /\ entry' = entry,
         pc' \notin Ended => pc \notin Ended /\ Done' = Done,
         TypeOK, TypeOK'
  PROVE  FreshInv'
<1>1. \A s \in Secret : atStart'[s] <= current'[s]
  BY DEF FreshInv, TypeOK
<1>2. pc' = "reply" => answer' >= atStart'[Wanted']
  BY DEF FreshInv, Wanted
<1>3. pc' \notin Ended => \A i \in Done' :
        Counts(i)' => values'[Specs[i].name].ver >= atStart'[Specs[i].secret]
  BY DEF FreshInv, Counts
<1>4. SuccessIsComplete'
  BY DEF FreshInv, SuccessIsComplete
<1>. QED
  BY <1>1, <1>2, <1>3, <1>4 DEF FreshInv

(* The value that arrives is the one that counts for its name from now on. *)
LEMMA ArrivalIsFresh ==
  ASSUME TypeOK, FreshInv, ValueArrives
  PROVE  FreshInv'
<1>1. /\ UNCHANGED <<current, atStart, run, files, env>> /\ pc = "reply" /\ pc' \in {"get", "mkdir"}
      /\ values' = [values EXCEPT ![Specs[entry].name] = [ver |-> answer, run |-> run]]
  BY DEF ValueArrives, volume, past
<1>2. entry \in 1 .. Len(Specs) /\ Len(Specs) \in Nat /\ DOMAIN Specs = 1 .. Len(Specs)
  BY Entries DEF TypeOK
<1>3. Done = {i \in DOMAIN Specs : i < entry}
  BY <1>1 DEF Done
<1>4. Done' = Done \cup {entry}
  BY <1>1, <1>2, <1>3 DEF ValueArrives, More, Done
<1>5. ASSUME NEW i \in Done', Counts(i)'
      PROVE  values'[Specs[i].name].ver >= atStart'[Specs[i].secret]
  <2>1. Specs[i].name \in Names /\ values \in [Names -> Fetched]
    BY <1>3, <1>4, <1>2, Entries DEF TypeOK
  <2>2. CASE i = entry
    BY <1>1, <2>1, <2>2 DEF FreshInv, Wanted
  <2>3. CASE i # entry
    <3>1. i \in Done /\ i < entry
      BY <1>3, <1>4, <2>3
    <3>4. Counts(i)
      BY <1>4, <1>5 DEF Counts
    <3>2. Specs[i].name # Specs[entry].name
      BY <1>2, <1>3, <1>4, <1>5, <3>1 DEF Counts
    <3>3. values[Specs[i].name].ver >= atStart[Specs[i].secret]
      BY <1>1, <3>1, <3>4 DEF FreshInv, Ended
    <3>. QED
      BY <1>1, <2>1, <3>2, <3>3
  <2>. QED
    BY <2>2, <2>3
<1>. QED
  BY <1>1, <1>5 DEF FreshInv, SuccessIsComplete

(* With every file written, what goes into the aggregate is what the files *)
(* hold, and each comes from the last entry of its name.                   *)
LEMMA SuccessIsFresh ==
  ASSUME TypeOK, RunsInv, FreshInv, pc = "write", todo = {}, env' = values,
         UNCHANGED <<files, values, run, atStart>>
  PROVE  SuccessIsComplete'
<1>1. \A n \in Names : files[n] = values[n]
  BY DEF RunsInv
<1>2. files = values
  BY <1>1 DEF TypeOK
<1>3. ASSUME NEW n \in Names
      PROVE  values[n].run = run /\ values[n].ver >= atStart[SecretOf(n)]
  <2>1. PICK i \in DOMAIN Specs : /\ Specs[i].name = n
                                  /\ \A j \in DOMAIN Specs : Specs[j].name = n => j <= i
                                  /\ SecretOf(n) = Specs[i].secret
    BY <1>3, LastEntry
  <2>2. Done = DOMAIN Specs
    BY DEF Done
  <2>3. Counts(i)
    BY <2>1, <2>2 DEF Counts
  <2>4. pc \notin Ended
    BY DEF Ended
  <2>. QED
    BY <2>1, <2>2, <2>3, <2>4 DEF RunsInv, FreshInv
<1>4. \A n \in Names : SecretOf(n)' = SecretOf(n)
  BY DEF SecretOf
<1>. QED
  BY <1>2, <1>3, <1>4 DEF SuccessIsComplete

(* Exit code 0 says that every file and the aggregate hold what this start *)
(* fetched, none of it older than when it began.                           *)
THEOREM SuccessMeansComplete == Spec => []SuccessIsComplete
<1>1. Init => FreshInv
  BY Entries DEF Init, FreshInv, SuccessIsComplete, Ended
<1>2. TypeOK /\ TypeOK' /\ RunsInv /\ FreshInv /\ [Next]_vars => FreshInv'
  <2>. SUFFICES ASSUME TypeOK, TypeOK', RunsInv, FreshInv, [Next]_vars PROVE FreshInv'
    OBVIOUS
  <2>1. /\ current \in [Secret -> Nat] /\ atStart \in [Secret -> Nat] /\ entry \in 1 .. Len(Specs)
        /\ Wanted \in Secret
    BY Entries DEF TypeOK, Wanted
  <2>2. \A s \in Secret : current[s] <= current[s]
    BY <2>1
  <2>3. CASE Start
    <3>1. /\ atStart' = current /\ current' = current /\ pc' = "dial"
          /\ Done' = {}
      BY <2>3, Entries DEF Start, Done
    <3>. QED
      BY <2>1, <2>2, <3>1 DEF FreshInv, SuccessIsComplete
  <2>4. CASE Dial \/ Get \/ IamIssues \/ TokenArrives \/ GetFails \/ Kill
    <3>1. /\ UNCHANGED <<values, atStart, run, files, env, current, entry>>
          /\ pc' # "exit0" /\ pc' # "reply" /\ pc \notin Ended
      BY <2>4 DEF Dial, Get, IamIssues, TokenArrives, GetFails, Kill, volume, past, Waiting, Ended
    <3>2. pc' \notin Ended => Done' = Done
      BY <2>4, <3>1 DEF Dial, Get, IamIssues, TokenArrives, GetFails, Kill, Done, Ended
    <3>. QED
      BY <2>2, <3>1, <3>2, FreshStays
  <2>5. CASE ServerAnswers
    <3>1. /\ UNCHANGED <<values, atStart, run, files, env, current, entry>> /\ pc = "request"
          /\ pc' = "exit4" \/ (pc' = "reply" /\ answer' = current[Wanted])
      BY <2>5 DEF ServerAnswers, volume, past
    <3>2. CASE pc' = "exit4"
      <4>1. pc' \in Ended /\ pc' # "exit0" /\ pc' # "reply"
        BY <3>2 DEF Ended
      <4>. QED
        BY <2>2, <3>1, <4>1, FreshStays
    <3>3. CASE pc' = "reply" /\ answer' = current[Wanted]
      <4>1. Done' = Done /\ Wanted' = Wanted /\ pc \notin Ended
        BY <3>1, <3>3 DEF Done, Wanted, Ended
      <4>2. answer' >= atStart'[Wanted']
        BY <2>1, <3>1, <3>3, <4>1 DEF FreshInv
      <4>3. \A i \in Done' : Counts(i)' => values'[Specs[i].name].ver >= atStart'[Specs[i].secret]
        BY <3>1, <4>1 DEF FreshInv, Counts
      <4>. QED
        BY <3>1, <3>3, <4>2, <4>3 DEF FreshInv, SuccessIsComplete
    <3>. QED
      BY <3>1, <3>2, <3>3
  <2>6. CASE Mkdir \/ \E n \in Names : WriteFile(n)
    <3>1. /\ UNCHANGED <<values, atStart, run, env, current, entry>>
          /\ pc \in {"mkdir", "write"} /\ pc' \in {"write", "exit1"}
      BY <2>6 DEF Mkdir, WriteFile, volume, past
    <3>2. pc' \notin Ended => Done' = Done /\ pc \notin Ended
      BY <3>1 DEF Done, Ended
    <3>3. \A i \in Done' : pc' \notin Ended /\ Counts(i)'
                             => values'[Specs[i].name].ver >= atStart'[Specs[i].secret]
      BY <3>1, <3>2 DEF FreshInv, Counts
    <3>. QED
      BY <3>1, <3>3 DEF FreshInv, SuccessIsComplete
  <2>7. CASE WriteEnv
    <3>1. /\ UNCHANGED <<values, atStart, run, files, current, entry>>
          /\ pc = "write" /\ todo = {} /\ pc' \in Ended /\ pc' # "reply"
          /\ (env' = values /\ pc' = "exit0") \/ (env' = env /\ pc' = "exit1")
      BY <2>7 DEF WriteEnv, past, Ended
    <3>2. SuccessIsComplete'
      <4>1. CASE env' = values
        BY <3>1, <4>1, SuccessIsFresh
      <4>2. CASE pc' = "exit1"
        BY <4>2 DEF SuccessIsComplete
      <4>. QED
        BY <3>1, <4>1, <4>2
    <3>. QED
      BY <3>1, <3>2 DEF FreshInv
  <2>8. CASE Tick \/ \E s \in Secret : Rotate(s)
    <3>1. UNCHANGED <<values, atStart, run, files, env, entry, pc, answer>> /\ Done' = Done
      BY <2>8 DEF Tick, Rotate, volume, past, Done
    <3>2. \A s \in Secret : current[s] <= current'[s]
      BY <2>8, <2>1 DEF Tick, Rotate
    <3>. QED
      BY <3>1, <3>2, FreshStays
  <2>9. CASE UNCHANGED vars
    <3>1. UNCHANGED <<values, atStart, run, files, env, entry, pc, answer, current>> /\ Done' = Done
      BY <2>9 DEF vars, volume, past, Done
    <3>. QED
      BY <2>2, <3>1, FreshStays
  <2>. QED
    BY <2>3, <2>4, <2>5, <2>6, <2>7, <2>8, <2>9, ArrivalIsFresh DEF Next, Step
<1>3. FreshInv => SuccessIsComplete
  BY DEF FreshInv
<1>. QED
  BY <1>1, <1>2, <1>3, TypeCorrect, RunsInvariant, PTL DEF Spec
=============================================================================
