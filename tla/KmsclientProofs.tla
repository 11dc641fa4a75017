-------------------------- MODULE KmsclientProofs --------------------------
(***************************************************************************)
(* Proofs about Kmsclient: its types and the mutex of the token cache,     *)
(* that an acknowledged write stays, and that FetchEnv keeps its word, for *)
(* any number of goroutines, secrets, values and variables, any paths, and *)
(* any number of calls.                                                    *)
(***************************************************************************)
EXTENDS Kmsclient, FiniteSetTheorems, TLAPS

(* What a goroutine has in hand at each place: a call number and a secret  *)
(* if it writes, a secret and a variable within a round of FetchEnv, a     *)
(* value once it looks at the environment.                                 *)
Shape(t) ==
  /\ pc[t] = "idle" <=> op[t] = "none"
  /\ op[t] \in Writes => id[t] > 0 /\ secret[t] \in Secret
  /\ op[t] \notin Writes => id[t] = 0
  /\ pc[t] \in {"next", "look", "set"} => op[t] = "FetchEnv"
  /\ op[t] = "FetchEnv" /\ pc[t] # "next" => secret[t] \in Secret /\ var[t] \in Var \ todo[t]
  /\ op[t] = "FetchEnv" /\ pc[t] \in {"answer", "look", "set"} =>
       answer[t] \in Refusal \cup Value \cup {Empty}
  /\ pc[t] \in {"look", "set"} => Succeeded(t)
  /\ pc[t] = "set" => var[t] \notin Explicit

Filled(v) == environ[v] # Empty \/ v \in blank

(* The variables FetchEnv has not settled: the one it is at, and those to  *)
(* come.                                                                   *)
Open(t) == IF pc[t] = "next" THEN todo[t] ELSE todo[t] \cup {var[t]}

(* The account of FetchEnv: it has counted all it has settled, or failed   *)
(* at one; what it has settled without an error is filled.                 *)
Tally(t) ==
  /\ op[t] # "FetchEnv" => count[t] = 0 /\ ~failed[t]
  /\ op[t] = "FetchEnv" /\ ~failed[t] =>
       /\ count[t] + Cardinality(Open(t)) = Cardinality(Var)
       /\ \A v \in Var \ Open(t) : Filled(v)
  /\ op[t] = "FetchEnv" /\ failed[t] => count[t] + Cardinality(Open(t)) < Cardinality(Var)

(* A write that has met no other is the only one on its way to its secret, *)
(* and, once it is done, is what the secret holds.                         *)
Solo(t) ==
  t \in alone =>
    /\ op[t] \in Writes /\ pc[t] \in {"wait", "answer"}
    /\ \A m \in net : m.secret = secret[t] => pc[t] = "wait" /\ m.call = id[t]
    /\ pc[t] = "answer" /\ Succeeded(t) => stored[secret[t]] = value[t]

Of(t) == Shape(t) /\ Tally(t) /\ Solo(t)

(* No two calls have one number, and a write on its way bears the number   *)
(* of the call that has sent it, even if that call was given up.           *)
Numbered == /\ \A t \in Thread : id[t] <= calls
            /\ \A t, u \in Thread : t # u /\ id[t] = id[u] => id[t] = 0
Signed == \A m \in net : /\ m.call <= calls
                         /\ \A t \in Thread : id[t] = m.call => m = Message(t)

(* What is certain about a secret is what it holds, and nothing on its way *)
(* can change it.                                                          *)
Settled == \A s \in Secret : sure[s] # Unknown => /\ stored[s] = sure[s]
                                                  /\ \A m \in net : m.secret # s

Kept == \A v \in Explicit : environ[v] = Operator

IInv == TypeOK /\ Numbered /\ Signed /\ Settled /\ Kept /\ \A t \in Thread : Of(t)

-----------------------------------------------------------------------------
(* What FetchEnv counts is finite.                                         *)
LEMMA OpenIsFinite ==
  ASSUME TypeOK, NEW t \in Thread, Shape(t), op[t] = "FetchEnv"
  PROVE  /\ Open(t) \subseteq Var /\ IsFiniteSet(Open(t))
         /\ Cardinality(Open(t)) \in Nat /\ Cardinality(Var) \in Nat
<1>1. Open(t) \subseteq Var
  BY DEF Open, Shape, TypeOK
<1> QED
  BY <1>1, ClientAssumption, FS_Subset, FS_CardinalityType

(* Before the first call nothing is on its way, and everything is certain. *)
LEMMA InitIInv == Init => IInv
<1> SUFFICES ASSUME Init PROVE IInv
  OBVIOUS
<1> USE ClientAssumption DEF Init
<1>1. TypeOK
  <2>1. stored \in [Secret -> Value \cup {Empty, None}] /\ sure \in [Secret -> Value \cup {Empty, None, Unknown}]
    OBVIOUS
  <2>2. environ \in [Var -> Value \cup {Empty, Operator}]
    OBVIOUS
  <2>3. \A t \in Thread : pc[t] = "exchange" <=> holder = t
    OBVIOUS
  <2>4. failed \in [Thread -> BOOLEAN] /\ cached \in BOOLEAN
    OBVIOUS
  <2>5. /\ pc \in [Thread -> {"idle", "lock", "exchange", "send", "wait", "answer", "next", "look", "set"}]
        /\ op \in [Thread -> Methods \cup {"none"}]
    BY DEF Methods, Writes
  <2>6. /\ secret \in [Thread -> Secret \cup {Invalid}] /\ value \in [Thread -> Value \cup {None}]
        /\ id \in [Thread -> 0 .. MaxCalls]
        /\ answer \in [Thread -> Value \cup Refusal \cup {"ok", Empty, None}]
        /\ todo \in [Thread -> SUBSET Var] /\ var \in [Thread -> Var \cup {None}]
        /\ count \in [Thread -> Nat]
    OBVIOUS
  <2>7. holder \in Thread \cup {Nil} /\ calls \in 0 .. MaxCalls /\ (holder # Nil => ~cached)
    OBVIOUS
  <2> QED
    BY <2>1, <2>2, <2>3, <2>4, <2>5, <2>6, <2>7 DEF TypeOK
<1>2. Numbered /\ Signed /\ Settled
  BY DEF Numbered, Signed, Settled
<1>3. Kept
  BY DEF Kept
<1>4. ASSUME NEW t \in Thread PROVE Of(t)
  BY DEF Of, Shape, Tally, Solo, Writes
<1> QED
  BY <1>1, <1>2, <1>3, <1>4 DEF IInv

-----------------------------------------------------------------------------
(* The steps of one goroutine.                                             *)

(* What such a step leaves to the others: their own variables, whatever    *)
(* is filled, and, to a write that has met no other, its secret.           *)
Apart(t) ==
  /\ \A q \in Thread \ {t} :
       /\ pc'[q] = pc[q] /\ op'[q] = op[q] /\ secret'[q] = secret[q] /\ value'[q] = value[q]
       /\ id'[q] = id[q] /\ answer'[q] = answer[q] /\ todo'[q] = todo[q] /\ var'[q] = var[q]
       /\ count'[q] = count[q] /\ failed'[q] = failed[q]
       /\ q \in alone' => /\ q \in alone
                          /\ \A m \in net' : m.secret = secret[q] => m \in net
  /\ stored' = stored
  /\ \A v \in Var : Filled(v) => Filled(v)'

LEMMA OthersKeep ==
  ASSUME IInv, NEW t \in Thread, Apart(t), NEW q \in Thread \ {t}
  PROVE  Of(q)'
<1>1. Of(q)
  BY DEF IInv
<1>2. Shape(q)'
  BY <1>1 DEF Apart, Of, Shape, Succeeded
<1>3. Open(q)' = Open(q)
  BY DEF Apart, Open
<1>4. Tally(q)'
  BY <1>1, <1>3 DEF Apart, Of, Tally
<1>5. Solo(q)'
  BY <1>1 DEF Apart, Of, Solo, Succeeded
<1> QED
  BY <1>2, <1>4, <1>5 DEF Of

(* The calls keep their numbers, and the writes their senders, as long as  *)
(* nothing is sent and a request only goes out of scope.                   *)
Subsides ==
  /\ calls' = calls /\ net' \subseteq net
  /\ \A q \in Thread : \/ id'[q] = 0
                       \/ id'[q] = id[q] /\ secret'[q] = secret[q] /\ value'[q] = value[q]

LEMMA NumbersStay ==
  ASSUME IInv, Subsides
  PROVE  Numbered' /\ Signed'
<1>1. /\ \A m \in net : m.call > 0 /\ m.call \in Nat
      /\ \A q \in Thread : id[q] \in Nat
      /\ calls \in Nat
  BY DEF IInv, TypeOK
<1>2. Numbered'
  BY <1>1 DEF IInv, Numbered, Subsides
<1>3. Signed'
  BY <1>1 DEF IInv, Signed, Subsides, Message
<1> QED
  BY <1>2, <1>3

(* A call begins with a number of its own.                                 *)
LEMMA CallKeeps ==
  ASSUME IInv, NEW t \in Thread, NEW o \in Methods \ {"FetchEnv"}, NEW s \in Secret \cup {Invalid},
         o \in Writes => s \in Secret, NEW x \in Value \cup {None}, Call(t, o, s, x)
  PROVE  IInv'
<1> USE DEF Call, server, token, loop, told
<1>1. TypeOK /\ Of(t) /\ calls' = calls + 1 /\ calls \in Nat
  BY DEF IInv, TypeOK
<1>2. TypeOK'
  <2>1. pc' \in [Thread -> {"idle", "lock", "exchange", "send", "wait", "answer", "next", "look", "set"}]
    BY <1>1 DEF TypeOK, Goto
  <2>2. \A q \in Thread : pc'[q] = "exchange" <=> holder' = q
    BY <1>1 DEF TypeOK, Goto
  <2>3. id' \in [Thread -> 0 .. MaxCalls] /\ calls' \in 0 .. MaxCalls
    BY <1>1, ClientAssumption DEF TypeOK
  <2>4. /\ op' \in [Thread -> Methods \cup {"none"}]
        /\ secret' \in [Thread -> Secret \cup {Invalid}]
        /\ value' \in [Thread -> Value \cup {None}]
    BY <1>1 DEF TypeOK
  <2> QED
    BY <1>1, <2>1, <2>2, <2>3, <2>4 DEF TypeOK
<1>3. Apart(t)
  BY <1>1 DEF Apart, Filled, TypeOK, Goto
<1>4. Numbered'
  <2>1. \A q \in Thread \ {t} : id'[q] = id[q] /\ id[q] \in Nat /\ id[q] <= calls
    BY <1>1 DEF IInv, Numbered, TypeOK
  <2>2. id'[t] \in {0, calls + 1}
    BY <1>1 DEF TypeOK
  <2> QED
    BY <1>1, <2>1, <2>2 DEF IInv, Numbered
<1>5. Signed'
  <2> SUFFICES ASSUME NEW m \in net, NEW q \in Thread
               PROVE  m.call <= calls + 1 /\ (id'[q] = m.call => m = Message(q)')
    BY <1>1 DEF Signed
  <2>1. m.call \in Nat /\ m.call > 0 /\ m.call <= calls /\ (id[q] = m.call => m = Message(q))
    BY DEF IInv, Signed, TypeOK
  <2>2. q = t => id'[q] \in {0, calls + 1}
    BY <1>1 DEF TypeOK
  <2>3. q # t => Message(q)' = Message(q) /\ id'[q] = id[q]
    BY <1>1 DEF TypeOK, Message
  <2> QED
    BY <1>1, <2>1, <2>2, <2>3
<1>6. Settled' /\ Kept'
  BY DEF IInv, Settled, Kept
<1>7. Shape(t)' /\ Tally(t)' /\ Solo(t)'
  BY <1>1 DEF TypeOK, Of, Shape, Tally, Solo, Goto, Methods, Writes
<1> QED
  BY <1>2, <1>3, <1>4, <1>5, <1>6, <1>7, OthersKeep DEF IInv, Of

(* The hold on the mutex begins and ends in pairs, and only the label of   *)
(* the goroutine changes.                                                  *)
LEMMA TokenKeeps ==
  ASSUME IInv, NEW t \in Thread, Lock(t) \/ TokenArrives(t)
  PROVE  IInv'
<1> USE DEF Lock, TokenArrives, server, request, loop, told
<1>1. TypeOK /\ Of(t)
  BY DEF IInv
<1>2. TypeOK'
  <2>1. /\ pc' \in [Thread -> {"idle", "lock", "exchange", "send", "wait", "answer", "next", "look", "set"}]
        /\ cached' \in BOOLEAN /\ holder' \in Thread \cup {Nil}
    BY <1>1 DEF TypeOK, Goto
  <2>2. \A q \in Thread : pc'[q] = "exchange" <=> holder' = q
    BY <1>1, ClientAssumption DEF TypeOK, Goto
  <2>3. holder' # Nil => ~cached'
    BY <1>1, ClientAssumption DEF TypeOK
  <2> QED
    BY <1>1, <2>1, <2>2, <2>3 DEF TypeOK
<1>3. Apart(t) /\ Subsides
  BY <1>1 DEF Apart, Subsides, Filled, TypeOK, Goto
<1>4. Settled' /\ Kept'
  BY DEF IInv, Settled, Kept
<1>5. Shape(t)'
  BY <1>1 DEF TypeOK, Of, Shape, Goto
<1>6. Tally(t)' /\ Solo(t)'
  BY <1>1 DEF TypeOK, Of, Tally, Open, Solo, Filled, Goto
<1> QED
  BY <1>2, <1>3, <1>4, <1>5, <1>6, OthersKeep, NumbersStay DEF IInv, Of

(* One variable less is open.                                              *)
LEMMA OneSettled ==
  ASSUME TypeOK, NEW t \in Thread, Shape(t), op[t] = "FetchEnv", NEW v \in Open(t)
  PROVE  Cardinality(Open(t) \ {v}) = Cardinality(Open(t)) - 1
BY OpenIsFinite, FS_RemoveElement

(* A round ends: its variable is counted and filled, or firstErr is set.   *)
LEMMA RoundKeeps ==
  ASSUME IInv, NEW t \in Thread, op[t] = "FetchEnv", NEW v \in Open(t),
         NextRound(t, 0, TRUE) \/ (NextRound(t, 1, FALSE) /\ Filled(v)'),
         todo' = [todo EXCEPT ![t] = Open(t) \ {v}],
         UNCHANGED <<server, calls, sure>>, alone' \subseteq alone,
         environ' \in [Var -> Value \cup {Empty, Operator}], blank' \subseteq Var,
         \A w \in Var : Filled(w) => Filled(w)', Kept',
         UNCHANGED token \/ (pc[t] = "exchange" /\ holder' = Nil /\ cached' = cached),
         pc[t] = "exchange" => holder' = Nil
  PROVE  IInv'
<1> USE DEF NextRound, Forget, Goto, server, token
<1>1. TypeOK /\ Of(t) /\ t \notin alone
  BY DEF IInv, Of, Solo, Writes
<1>2. /\ Open(t) \subseteq Var /\ Cardinality(Open(t)) \in Nat /\ Cardinality(Var) \in Nat
      /\ Cardinality(Open(t) \ {v}) = Cardinality(Open(t)) - 1
  BY <1>1, OpenIsFinite, OneSettled DEF Of
<1>3. /\ pc'[t] = "next" /\ op'[t] = "FetchEnv" /\ id'[t] = 0 /\ todo'[t] = Open(t) \ {v}
      /\ \/ count'[t] = count[t] + 0 /\ failed'[t]
         \/ count'[t] = count[t] + 1 /\ failed'[t] = failed[t] /\ Filled(v)'
  <2>1. /\ pc'[t] = "next" /\ op'[t] = "FetchEnv" /\ id'[t] = 0 /\ todo'[t] = Open(t) \ {v}
    BY <1>1 DEF TypeOK
  <2>2. CASE NextRound(t, 0, TRUE)
    <3>1. count'[t] = count[t] + 0
      BY <1>1, <2>2 DEF TypeOK
    <3>2. failed'[t]
      BY <1>1, <2>2 DEF TypeOK
    <3> QED
      BY <2>1, <3>1, <3>2
  <2>3. CASE NextRound(t, 1, FALSE) /\ Filled(v)'
    <3>1. count'[t] = count[t] + 1
      BY <1>1, <2>3 DEF TypeOK
    <3>2. failed'[t] = failed[t]
      BY <1>1, <2>3 DEF TypeOK
    <3> QED
      BY <2>1, <2>3, <3>1, <3>2
  <2> QED
    BY <2>2, <2>3
<1>4. TypeOK'
  <2>1. /\ pc' \in [Thread -> {"idle", "lock", "exchange", "send", "wait", "answer", "next", "look", "set"}]
        /\ secret' \in [Thread -> Secret \cup {Invalid}] /\ value' \in [Thread -> Value \cup {None}]
        /\ id' \in [Thread -> 0 .. MaxCalls]
        /\ answer' \in [Thread -> Value \cup Refusal \cup {"ok", Empty, None}]
    BY <1>1, ClientAssumption DEF TypeOK
  <2>2. todo' \in [Thread -> SUBSET Var] /\ var' \in [Thread -> Var \cup {None}]
    BY <1>1, <1>2 DEF TypeOK
  <2>3. count' \in [Thread -> Nat]
    BY <1>1 DEF TypeOK
  <2>4. failed' \in [Thread -> BOOLEAN]
    BY <1>1 DEF TypeOK
  <2>5. /\ \A q \in Thread : pc'[q] = "exchange" <=> holder' = q
        /\ holder' \in Thread \cup {Nil} /\ (holder' # Nil => ~cached')
    BY <1>1, ClientAssumption DEF TypeOK
  <2> QED
    BY <1>1, <2>1, <2>2, <2>3, <2>4, <2>5 DEF TypeOK
<1>5. Apart(t)
  BY <1>1 DEF Apart, TypeOK
<1>6. Subsides
  BY <1>1 DEF Subsides, TypeOK
<1>7. Settled'
  BY DEF IInv, Settled
<1>8. Shape(t)' /\ Solo(t)'
  BY <1>1, <1>3 DEF Shape, Solo, Writes
<1>9. Tally(t)'
  <2>1. Open(t)' = Open(t) \ {v}
    BY <1>3 DEF Open
  <2>2. failed'[t] => count'[t] + Cardinality(Open(t)') < Cardinality(Var)
    BY <1>1, <1>2, <1>3, <2>1 DEF TypeOK, Of, Tally
  <2>3. ~failed'[t] => /\ Filled(v)' /\ ~failed[t]
                       /\ count'[t] + Cardinality(Open(t)') = Cardinality(Var)
    BY <1>1, <1>2, <1>3, <2>1 DEF TypeOK, Of, Tally
  <2>4. ~failed'[t] => \A w \in Var \ (Open(t)') : Filled(w)'
    BY <1>1, <2>1, <2>3 DEF Of, Tally
  <2> QED
    BY <1>3, <2>2, <2>3, <2>4 DEF Tally
<1> QED
  BY <1>4, <1>5, <1>6, <1>7, <1>8, <1>9, OthersKeep, NumbersStay DEF IInv, Of

(* An error ends a round of FetchEnv, and any other call: its write may    *)
(* still be on its way.                                                    *)
LEMMA FailKeeps ==
  ASSUME IInv, NEW t \in Thread, pc[t] \notin {"idle", "next"}, Fail(t),
         UNCHANGED <<server, calls, todo, environ, blank, sure>>, alone' \subseteq alone, t \notin alone',
         UNCHANGED token \/ (pc[t] = "exchange" /\ holder' = Nil /\ cached' = cached),
         pc[t] = "exchange" => holder' = Nil
  PROVE  IInv'
<1>1. TypeOK /\ Of(t)
  BY DEF IInv
<1>2. CASE op[t] = "FetchEnv"
  <2>1. /\ NextRound(t, 0, TRUE) /\ var[t] \in Open(t)
        /\ todo' = [todo EXCEPT ![t] = Open(t) \ {var[t]}]
    BY <1>1, <1>2 DEF Fail, Open, TypeOK, Of, Shape, NextRound
  <2>2. /\ environ' \in [Var -> Value \cup {Empty, Operator}] /\ blank' \subseteq Var
        /\ \A w \in Var : Filled(w) => Filled(w)'
        /\ Kept'
    BY <1>1 DEF TypeOK, Filled, Kept, IInv
  <2> QED
    BY <1>2, <2>1, <2>2, RoundKeeps
<1>3. CASE op[t] # "FetchEnv"
  <2> USE <1>3 DEF Fail, Forget, Return, Goto, server, token
  <2>1. TypeOK'
    <3>1. /\ pc' \in [Thread -> {"idle", "lock", "exchange", "send", "wait", "answer", "next", "look", "set"}]
          /\ op' \in [Thread -> Methods \cup {"none"}]
          /\ secret' \in [Thread -> Secret \cup {Invalid}] /\ value' \in [Thread -> Value \cup {None}]
          /\ id' \in [Thread -> 0 .. MaxCalls]
          /\ answer' \in [Thread -> Value \cup Refusal \cup {"ok", Empty, None}]
      BY <1>1, ClientAssumption DEF TypeOK
    <3>2. /\ \A q \in Thread : pc'[q] = "exchange" <=> holder' = q
          /\ holder' \in Thread \cup {Nil} /\ (holder' # Nil => ~cached')
      BY <1>1, ClientAssumption DEF TypeOK
    <3> QED
      BY <1>1, <3>1, <3>2 DEF TypeOK
  <2>2. Apart(t) /\ Subsides
    BY <1>1 DEF Apart, Subsides, Filled, TypeOK
  <2>3. Settled' /\ Kept'
    BY DEF IInv, Settled, Kept
  <2>4. Shape(t)' /\ Tally(t)' /\ Solo(t)'
    BY <1>1 DEF TypeOK, Of, Shape, Tally, Solo, Writes
  <2> QED
    BY <2>1, <2>2, <2>3, <2>4, OthersKeep, NumbersStay DEF IInv, Of
<1> QED
  BY <1>2, <1>3

(* FetchEnv begins with everything open, and returns with nothing open.    *)
LEMMA LoopKeeps ==
  ASSUME IInv, NEW t \in Thread, FetchEnv(t) \/ FetchEnvReturns(t)
  PROVE  IInv'
<1> USE DEF FetchEnv, FetchEnvReturns, Return, Goto, server, token, told
<1>1. TypeOK /\ Of(t) /\ (calls' = calls \/ calls' = calls + 1) /\ calls \in Nat
  BY DEF IInv, TypeOK
<1>2. TypeOK'
  <2>1. /\ pc' \in [Thread -> {"idle", "lock", "exchange", "send", "wait", "answer", "next", "look", "set"}]
        /\ op' \in [Thread -> Methods \cup {"none"}]
        /\ \A q \in Thread : pc'[q] = "exchange" <=> holder' = q
    BY <1>1 DEF TypeOK, Methods
  <2>2. count' \in [Thread -> Nat] /\ todo' \in [Thread -> SUBSET Var]
    BY <1>1 DEF TypeOK
  <2>3. failed' \in [Thread -> BOOLEAN]
    BY <1>1 DEF TypeOK
  <2>4. calls' \in 0 .. MaxCalls
    BY <1>1, ClientAssumption DEF TypeOK
  <2> QED
    BY <1>1, <2>1, <2>2, <2>3, <2>4 DEF TypeOK
<1>3. Apart(t)
  <2>1. \A q \in Thread \ {t} : failed'[q] = failed[q]
    BY <1>1 DEF TypeOK
  <2> QED
    BY <1>1, <2>1 DEF Apart, Filled, TypeOK
<1>4. Numbered' /\ Signed'
  <2>1. /\ \A m \in net : m.call \in Nat /\ m.call <= calls
        /\ \A q \in Thread : id[q] \in Nat /\ id[q] <= calls
    BY <1>1 DEF IInv, Numbered, Signed, TypeOK
  <2> QED
    BY <1>1, <2>1 DEF IInv, Numbered, Signed, Message
<1>5. Settled' /\ Kept'
  BY DEF IInv, Settled, Kept
<1>6. Shape(t)' /\ Solo(t)'
  BY <1>1 DEF TypeOK, Of, Shape, Solo, Writes
<1>7. Tally(t)'
  <2>1. CASE FetchEnv(t)
    <3>1. /\ op'[t] = "FetchEnv" /\ pc'[t] = "next" /\ todo'[t] = Var
          /\ count'[t] = 0 /\ ~failed'[t]
      BY <1>1, <2>1 DEF TypeOK, Of, Shape, Tally
    <3>2. Open(t)' = Var /\ Cardinality(Var) \in Nat
      BY <3>1, ClientAssumption, FS_CardinalityType DEF Open
    <3> QED
      BY <3>1, <3>2 DEF Tally
  <2>2. CASE FetchEnvReturns(t)
    <3>1. op'[t] = "none" /\ count'[t] = 0
      BY <1>1, <2>2 DEF TypeOK
    <3>2. ~failed'[t]
      BY <1>1, <2>2 DEF TypeOK
    <3> QED
      BY <3>1, <3>2 DEF Tally
  <2> QED
    BY <2>1, <2>2
<1> QED
  BY <1>2, <1>3, <1>4, <1>5, <1>6, <1>7, OthersKeep DEF IInv, Of

(* The next variable is asked for, or has no valid path.                   *)
LEMMA NextVarKeeps ==
  ASSUME IInv, NEW t \in Thread, NEW v \in Var, NextVar(t, v)
  PROVE  IInv'
<1> USE DEF NextVar
<1>1. TypeOK /\ Of(t) /\ op[t] = "FetchEnv" /\ Open(t) = todo[t] /\ id[t] = 0
  BY DEF IInv, Of, Shape, Open, Writes
<1>2. /\ UNCHANGED <<server, calls, sure>> /\ alone' \subseteq alone
      /\ UNCHANGED token \/ (pc[t] = "exchange" /\ holder' = Nil /\ cached' = cached)
      /\ pc[t] = "exchange" => holder' = Nil
  BY DEF told, server, token
<1>3. CASE Paths[t][v] = Invalid
  <2>1. NextRound(t, 0, TRUE) /\ v \in Open(t) /\ todo' = [todo EXCEPT ![t] = Open(t) \ {v}]
    BY <1>1, <1>3, PathsAssumption
  <2>2. /\ environ' \in [Var -> Value \cup {Empty, Operator}] /\ blank' \subseteq Var
        /\ \A w \in Var : Filled(w) => Filled(w)'
        /\ Kept'
    BY <1>1 DEF TypeOK, Filled, Kept, IInv
  <2> QED
    BY <1>1, <1>2, <2>1, <2>2, RoundKeeps
<1>4. CASE Paths[t][v] # Invalid
  <2> USE DEF Goto, server, token, told
  <2>1. /\ Paths[t][v] \in Secret
        /\ pc' = [pc EXCEPT ![t] = "lock"] /\ secret' = [secret EXCEPT ![t] = Paths[t][v]]
        /\ var' = [var EXCEPT ![t] = v] /\ UNCHANGED <<op, value, id, answer, count, failed>>
    BY <1>4, PathsAssumption DEF NextRound
  <2>2. TypeOK'
    <3>1. /\ pc' \in [Thread -> {"idle", "lock", "exchange", "send", "wait", "answer", "next", "look", "set"}]
          /\ \A q \in Thread : pc'[q] = "exchange" <=> holder' = q
      BY <1>1, <2>1 DEF TypeOK
    <3>2. /\ secret' \in [Thread -> Secret \cup {Invalid}] /\ var' \in [Thread -> Var \cup {None}]
          /\ todo' \in [Thread -> SUBSET Var]
      BY <1>1, <2>1 DEF TypeOK
    <3> QED
      BY <1>1, <2>1, <3>1, <3>2 DEF TypeOK
  <2>3. Apart(t) /\ Subsides
    BY <1>1, <2>1 DEF Apart, Subsides, Filled, TypeOK
  <2>4. Settled' /\ Kept'
    BY DEF IInv, Settled, Kept
  <2>5. Shape(t)' /\ Solo(t)'
    BY <1>1, <2>1 DEF TypeOK, Of, Shape, Solo, Writes
  <2>6. Tally(t)'
    <3>1. Open(t)' = Open(t)
      BY <1>1, <2>1 DEF Open, TypeOK
    <3> QED
      BY <1>1, <2>1, <3>1 DEF Of, Tally, Filled
  <2> QED
    BY <2>2, <2>3, <2>4, <2>5, <2>6, OthersKeep, NumbersStay DEF IInv, Of
<1> QED
  BY <1>3, <1>4

(* The look at the environment, which never lets the operator's value go.  *)
LEMMA LookKeeps ==
  ASSUME IInv, NEW t \in Thread, Look(t)
  PROVE  IInv'
<1> USE DEF Look, IsSet
<1>1. /\ TypeOK /\ Of(t) /\ op[t] = "FetchEnv" /\ Open(t) = todo[t] \cup {var[t]}
      /\ var[t] \in Var \ todo[t]
  BY DEF IInv, Of, Shape, Open
<1>2. /\ UNCHANGED <<server, calls, sure>> /\ alone' \subseteq alone
      /\ UNCHANGED token \/ (pc[t] = "exchange" /\ holder' = Nil /\ cached' = cached)
      /\ pc[t] = "exchange" => holder' = Nil
  BY DEF told, server, token
<1>3. CASE IsSet(var[t]) /\ NextRound(t, 1, FALSE)
  <2> PICK v \in Open(t) : v = var[t]
    BY <1>1
  <2>1. Filled(v)' /\ todo' = [todo EXCEPT ![t] = Open(t) \ {v}]
    BY <1>1, <1>3 DEF Filled, TypeOK
  <2>2. /\ environ' \in [Var -> Value \cup {Empty, Operator}] /\ blank' \subseteq Var
        /\ \A w \in Var : Filled(w) => Filled(w)'
        /\ Kept'
    BY <1>1 DEF TypeOK, Filled, Kept, IInv
  <2> QED
    BY <1>1, <1>2, <1>3, <2>1, <2>2, RoundKeeps
<1>4. CASE ~IsSet(var[t]) /\ Goto(t, "set") /\ UNCHANGED <<request, answer, var, count, failed>>
  <2> USE <1>4 DEF request, Goto, server, token, told
  <2>1. TypeOK'
    BY <1>1 DEF TypeOK
  <2>2. Apart(t) /\ Subsides
    BY <1>1 DEF Apart, Subsides, Filled, TypeOK
  <2>3. Settled' /\ Kept'
    BY DEF IInv, Settled, Kept
  <2>4. var[t] \notin Explicit
    BY ValueAssumption DEF IInv, Kept
  <2>5. Shape(t)' /\ Solo(t)'
    BY <1>1, <2>4 DEF TypeOK, Of, Shape, Solo, Writes, Succeeded
  <2>6. Tally(t)'
    BY <1>1 DEF Of, Tally, Open, Filled, TypeOK
  <2> QED
    BY <2>1, <2>2, <2>3, <2>5, <2>6, OthersKeep, NumbersStay DEF IInv, Of
<1> QED
  BY <1>3, <1>4

(* The write to the environment: if another has filled the variable since  *)
(* the look, it is filled again.                                           *)
LEMMA SetVarKeeps ==
  ASSUME IInv, NEW t \in Thread, SetVar(t)
  PROVE  IInv'
<1> USE DEF SetVar
<1>1. /\ TypeOK /\ Of(t) /\ op[t] = "FetchEnv" /\ Open(t) = todo[t] \cup {var[t]}
      /\ var[t] \in Var \ todo[t] /\ var[t] \notin Explicit
      /\ answer[t] \in Value \cup {Empty}
  BY DEF IInv, Of, Shape, Open, Succeeded
<1>2. /\ UNCHANGED <<server, calls, sure>> /\ alone' \subseteq alone /\ t \notin alone'
      /\ UNCHANGED token \/ (pc[t] = "exchange" /\ holder' = Nil /\ cached' = cached)
      /\ pc[t] = "exchange" => holder' = Nil
      /\ pc[t] \notin {"idle", "next"}
  BY <1>1 DEF told, server, token, Of, Solo, Writes
<1>3. CASE /\ environ' = [environ EXCEPT ![var[t]] = answer[t]] /\ NextRound(t, 1, FALSE)
           /\ blank' = IF answer[t] = Empty THEN blank \cup {var[t]} ELSE blank
  <2> PICK v \in Open(t) : v = var[t]
    BY <1>1
  <2>1. /\ environ' \in [Var -> Value \cup {Empty, Operator}] /\ blank' \subseteq Var
        /\ \A w \in Var : Filled(w) => Filled(w)'
        /\ Filled(v)'
    BY <1>1, <1>3 DEF TypeOK, Filled
  <2>2. Kept'
    BY <1>1, <1>3, ClientAssumption DEF TypeOK, Kept, IInv
  <2>3. todo' = [todo EXCEPT ![t] = Open(t) \ {v}]
    BY <1>1 DEF TypeOK
  <2> QED
    BY <1>1, <1>2, <1>3, <2>1, <2>2, <2>3, RoundKeeps
<1>4. CASE Fail(t) /\ UNCHANGED <<environ, blank>>
  <2>1. UNCHANGED <<server, calls, todo, environ, blank, sure>>
    BY <1>4 DEF told
  <2> QED
    BY <1>2, <1>4, <2>1, FailKeeps
<1> QED
  BY <1>3, <1>4

(* A call that gives up, at IAM or on the way to the KMS.                  *)
LEMMA GiveUpKeeps ==
  ASSUME IInv, NEW t \in Thread, ExchangeFails(t) \/ GiveUp(t)
  PROVE  IInv'
<1> USE DEF ExchangeFails, GiveUp
<1>1. TypeOK /\ Of(t) /\ (pc[t] = "exchange" => t \notin alone)
  BY DEF IInv, Of, Solo
<1>2. UNCHANGED <<server, calls, todo, environ, blank, sure>>
  BY DEF told
<1>3. alone' \subseteq alone /\ t \notin alone'
  BY <1>1 DEF told
<1>4. /\ UNCHANGED token \/ (pc[t] = "exchange" /\ holder' = Nil /\ cached' = cached)
      /\ pc[t] = "exchange" => holder' = Nil
      /\ pc[t] \notin {"idle", "next"}
  BY DEF token
<1> QED
  BY <1>2, <1>3, <1>4, FailKeeps

(* The answer of a call, or of a round of FetchEnv.  A write that is told  *)
(* it succeeded, and met no other, makes its secret certain.               *)
LEMMA ReceiveKeeps ==
  ASSUME IInv, NEW t \in Thread, Receive(t)
  PROVE  IInv'
<1>1. TypeOK /\ Of(t) /\ pc[t] = "answer"
  BY DEF IInv, Receive
<1>2. /\ UNCHANGED <<server, token, calls, todo, environ, blank>>
      /\ alone' = alone \ {t}
  BY DEF Receive
<1>3. CASE ~Succeeded(t) /\ Fail(t) /\ UNCHANGED sure
  <2>1. UNCHANGED <<server, calls, todo, environ, blank, sure>> /\ alone' \subseteq alone /\ t \notin alone'
    BY <1>2, <1>3
  <2>2. /\ UNCHANGED token \/ (pc[t] = "exchange" /\ holder' = Nil /\ cached' = cached)
        /\ pc[t] = "exchange" => holder' = Nil
        /\ pc[t] \notin {"idle", "next"}
    BY <1>1, <1>2
  <2> QED
    BY <1>3, <2>1, <2>2, FailKeeps
<1>4. CASE /\ Succeeded(t) /\ op[t] = "FetchEnv" /\ Goto(t, "look")
           /\ UNCHANGED <<request, answer, var, count, failed, sure>>
  <2> USE <1>2, <1>4 DEF Goto, server, token, request
  <2>1. TypeOK'
    BY <1>1 DEF TypeOK
  <2>2. Apart(t) /\ Subsides
    BY <1>1 DEF Apart, Subsides, Filled, TypeOK
  <2>3. Settled' /\ Kept'
    BY DEF IInv, Settled, Kept
  <2>4. Shape(t)' /\ Solo(t)'
    BY <1>1 DEF TypeOK, Of, Shape, Solo, Writes, Succeeded
  <2>5. Tally(t)'
    BY <1>1 DEF Of, Tally, Open, Filled, TypeOK
  <2> QED
    BY <2>1, <2>2, <2>3, <2>4, <2>5, OthersKeep, NumbersStay DEF IInv, Of
<1>5. CASE /\ Succeeded(t) /\ op[t] # "FetchEnv" /\ Forget(t) /\ Return(t)
           /\ sure' = IF t \in alone THEN [sure EXCEPT ![secret[t]] = value[t]] ELSE sure
           /\ UNCHANGED <<var, count, failed>>
  <2> USE <1>2, <1>5 DEF Forget, Return, Goto, server, token
  <2>1. t \in alone => /\ secret[t] \in Secret /\ stored[secret[t]] = value[t]
                       /\ \A m \in net : m.secret # secret[t]
    BY <1>1 DEF Of, Shape, Solo
  <2>2. TypeOK'
    <3>1. /\ pc' \in [Thread -> {"idle", "lock", "exchange", "send", "wait", "answer", "next", "look", "set"}]
          /\ op' \in [Thread -> Methods \cup {"none"}]
          /\ secret' \in [Thread -> Secret \cup {Invalid}] /\ value' \in [Thread -> Value \cup {None}]
          /\ id' \in [Thread -> 0 .. MaxCalls]
          /\ answer' \in [Thread -> Value \cup Refusal \cup {"ok", Empty, None}]
      BY <1>1, ClientAssumption DEF TypeOK
    <3>2. sure' \in [Secret -> Value \cup {Empty, None, Unknown}]
      BY <1>1 DEF TypeOK
    <3>3. \A q \in Thread : pc'[q] = "exchange" <=> holder' = q
      BY <1>1 DEF TypeOK
    <3> QED
      BY <1>1, <3>1, <3>2, <3>3 DEF TypeOK
  <2>3. Apart(t) /\ Subsides
    BY <1>1 DEF Apart, Subsides, Filled, TypeOK
  <2>4. Settled'
    BY <1>1, <2>1 DEF IInv, Settled, TypeOK
  <2>5. Kept'
    BY DEF IInv, Kept
  <2>6. Shape(t)' /\ Tally(t)' /\ Solo(t)'
    BY <1>1 DEF TypeOK, Of, Shape, Tally, Solo, Writes
  <2> QED
    BY <2>2, <2>3, <2>4, <2>5, <2>6, OthersKeep, NumbersStay DEF IInv, Of
<1> QED
  BY <1>3, <1>4, <1>5 DEF Receive

(* A request is sent.  Nothing is certain about the secret of a write now, *)
(* and whoever writes it at the same time is not alone any more.           *)
LEMMA SendKeeps ==
  ASSUME IInv, NEW t \in Thread, Send(t)
  PROVE  IInv'
<1>1. TypeOK /\ Of(t) /\ pc[t] = "send" /\ t \notin alone
  BY DEF IInv, Send, Of, Solo
<1>2. /\ Goto(t, "wait")
      /\ UNCHANGED <<stored, token, calls, request, answer, loop, environ, blank>>
  BY DEF Send
<1> USE <1>2 DEF Goto, token, request, loop
<1>3. Shape(t)' /\ Tally(t)'
  BY <1>1 DEF TypeOK, Of, Shape, Tally, Open, Filled
<1>4. pc' \in [Thread -> {"idle", "lock", "exchange", "send", "wait", "answer", "next", "look", "set"}]
  BY <1>1 DEF TypeOK
<1>5. \A q \in Thread : pc'[q] = "exchange" <=> holder' = q
  BY <1>1 DEF TypeOK
<1>6. Kept' /\ Numbered'
  BY DEF IInv, Kept, Numbered
<1>7. CASE op[t] \notin Writes
  <2>1. UNCHANGED <<net, told>>
    BY <1>7 DEF Send
  <2>2. TypeOK'
    BY <1>1, <1>4, <1>5, <2>1 DEF TypeOK, told
  <2>3. Apart(t) /\ Signed' /\ Settled' /\ Solo(t)'
    BY <1>1, <2>1 DEF told, Apart, Filled, TypeOK, IInv, Signed, Message, Settled, Solo
  <2> QED
    BY <1>3, <1>6, <2>2, <2>3, OthersKeep DEF IInv, Of
<1>8. CASE op[t] \in Writes
  <2>1. /\ net' = net \cup {Message(t)} /\ sure' = [sure EXCEPT ![secret[t]] = Unknown]
        /\ \A q \in Thread : q \in alone' =>
             \/ q \in alone /\ secret[q] # secret[t]
             \/ q = t /\ \A m \in net : m.secret # secret[t]
        /\ alone' \subseteq alone \cup {t}
    BY <1>8 DEF Send
  <2>2. /\ secret[t] \in Secret /\ id[t] > 0
        /\ Message(t) \in [secret : Secret, value : Value \cup {None}, call : 1 .. MaxCalls]
        /\ Message(t).secret = secret[t] /\ Message(t).call = id[t] /\ Message(t).value = value[t]
    BY <1>1, <1>8, ClientAssumption DEF TypeOK, Of, Shape, Message
  <2>3. TypeOK'
    <3>1. net' \subseteq [secret : Secret, value : Value \cup {None}, call : 1 .. MaxCalls]
      BY <1>1, <2>1, <2>2 DEF TypeOK
    <3>2. sure' \in [Secret -> Value \cup {Empty, None, Unknown}] /\ alone' \subseteq Thread
      BY <1>1, <2>1 DEF TypeOK
    <3> QED
      BY <1>1, <1>4, <1>5, <3>1, <3>2 DEF TypeOK
  <2>4. Apart(t)
    <3>1. \A q \in Thread \ {t} : q \in alone' => /\ q \in alone
                                                  /\ \A m \in net' : m.secret = secret[q] => m \in net
      BY <2>1, <2>2
    <3>2. \A q \in Thread \ {t} : pc'[q] = pc[q]
      BY <1>1 DEF TypeOK
    <3> QED
      BY <3>1, <3>2 DEF Apart, Filled
  <2>5. Signed'
    <3>1. id[t] <= calls /\ \A q \in Thread : id[q] = id[t] => q = t
      BY <1>1, <2>2 DEF IInv, Numbered, TypeOK
    <3>2. \A q \in Thread : Message(q)' = Message(q)
      BY DEF Message
    <3> QED
      BY <2>1, <2>2, <3>1, <3>2 DEF IInv, Signed
  <2>6. Settled'
    BY <1>1, <2>1, <2>2 DEF IInv, Settled, TypeOK
  <2>7. Solo(t)'
    <3>1. pc'[t] = "wait" /\ op'[t] \in Writes
      BY <1>1, <1>8 DEF TypeOK
    <3> QED
      BY <2>1, <2>2, <3>1 DEF Solo
  <2> QED
    BY <1>3, <1>6, <2>3, <2>4, <2>5, <2>6, <2>7, OthersKeep DEF IInv, Of
<1> QED
  BY <1>7, <1>8

-----------------------------------------------------------------------------
(* The steps of the network and the server.                                *)

(* A write arrives.  Whoever waits for it is told; if that write was       *)
(* alone, it was the only one on its way to its secret.                    *)
LEMMA ServerWritesKeeps ==
  ASSUME IInv, NEW m \in net, ServerWrites(m)
  PROVE  IInv'
<1>1. TypeOK /\ \A t \in Thread : Of(t)
  BY DEF IInv
<1>2. /\ net' = net \ {m} /\ m \in net
      /\ UNCHANGED <<token, calls, request, loop, environ, blank, told>>
  BY DEF ServerWrites
<1> DEFINE waits == {t \in Thread : pc[t] = "wait" /\ id[t] = m.call}
<1>3. PICK a \in {"refused", "missing", "ok"} :
        /\ stored' = IF a = "ok" THEN [stored EXCEPT ![m.secret] = m.value] ELSE stored
        /\ answer' = [t \in Thread |-> IF t \in waits THEN a ELSE answer[t]]
        /\ pc' = [t \in Thread |-> IF t \in waits THEN "answer" ELSE pc[t]]
  BY DEF ServerWrites
<1> USE <1>2, <1>3 DEF token, request, loop, told
<1>4. m.secret \in Secret /\ m.value \in Value \cup {None} /\ m.call > 0
  BY <1>1 DEF TypeOK
<1>5. ASSUME NEW t \in waits
      PROVE  /\ op[t] \in Writes /\ m = Message(t) /\ pc[t] = "wait"
             /\ pc'[t] = "answer" /\ answer'[t] = a
  BY <1>1, <1>4 DEF Of, Shape, IInv, Signed
<1>6. ASSUME NEW t \in Thread \ waits
      PROVE  pc'[t] = pc[t] /\ answer'[t] = answer[t]
  OBVIOUS
<1>7. ASSUME NEW t \in waits
      PROVE  t \in Thread /\ m.secret = secret[t] /\ m.value = value[t] /\ m.call = id[t]
  BY <1>5 DEF Message
<1> HIDE DEF waits
<1>8. TypeOK'
  <2>1. pc' \in [Thread -> {"idle", "lock", "exchange", "send", "wait", "answer", "next", "look", "set"}]
    BY <1>1 DEF TypeOK
  <2>2. answer' \in [Thread -> Value \cup Refusal \cup {"ok", Empty, None}]
    BY <1>1 DEF TypeOK, Refusal
  <2>3. stored' \in [Secret -> Value \cup {Empty, None}]
    BY <1>1, <1>4 DEF TypeOK
  <2>4. \A t \in Thread : pc'[t] = "exchange" <=> holder' = t
    BY <1>1, <1>5, <1>6 DEF TypeOK
  <2> QED
    BY <1>1, <2>1, <2>2, <2>3, <2>4 DEF TypeOK
<1>9. Numbered' /\ Signed' /\ Kept'
  BY DEF IInv, Numbered, Signed, Message, Kept
<1>10. Settled'
  <2> SUFFICES ASSUME NEW s \in Secret, sure[s] # Unknown
               PROVE  stored'[s] = sure[s] /\ \A n \in net' : n.secret # s
    BY DEF Settled
  <2>1. stored[s] = sure[s] /\ \A n \in net : n.secret # s
    BY DEF IInv, Settled
  <2>2. m.secret # s
    BY <2>1
  <2> QED
    BY <1>1, <2>1, <2>2 DEF TypeOK
<1>11. ASSUME NEW t \in Thread PROVE Of(t)'
  <2>1. Shape(t)'
    <3>1. CASE t \in waits
      BY <1>1, <1>5, <3>1 DEF Of, Shape, Writes
    <3>2. CASE t \notin waits
      BY <1>1, <1>6, <3>2 DEF Of, Shape, Succeeded
    <3> QED
      BY <3>1, <3>2
  <2>2. Tally(t)'
    <3>1. Open(t)' = Open(t)
      BY <1>5, <1>6 DEF Open
    <3> QED
      BY <1>1, <3>1 DEF Of, Tally, Filled
  <2>3. Solo(t)'
    <3> SUFFICES ASSUME t \in alone PROVE Solo(t)'
      BY DEF Solo
    <3>1. /\ op[t] \in Writes /\ pc[t] \in {"wait", "answer"}
          /\ \A n \in net : n.secret = secret[t] => pc[t] = "wait" /\ n.call = id[t]
          /\ pc[t] = "answer" /\ Succeeded(t) => stored[secret[t]] = value[t]
      BY <1>1 DEF Of, Solo
    <3>2. CASE t \in waits
      <4>1. ASSUME NEW n \in net, n.secret = secret[t]
            PROVE  n = m
        <5>1. n.call = id[t]
          BY <3>1, <4>1
        <5>2. n = Message(t)
          BY <5>1 DEF IInv, Signed
        <5> QED
          BY <1>5, <3>2, <5>2
      <4>2. Succeeded(t)' => stored'[secret[t]] = value[t]
        BY <1>1, <1>4, <1>5, <1>7, <3>2 DEF Succeeded, Refusal, TypeOK
      <4> QED
        BY <1>5, <3>1, <3>2, <4>1, <4>2 DEF Solo
    <3>3. CASE t \notin waits
      <4>1. m.secret # secret[t]
        BY <3>1, <3>3 DEF waits
      <4>2. secret[t] \in Secret => stored'[secret[t]] = stored[secret[t]]
        BY <1>1, <1>4, <4>1 DEF TypeOK
      <4>3. secret[t] \in Secret
        BY <1>1, <3>1 DEF Of, Shape
      <4> QED
        BY <1>6, <3>1, <3>3, <4>2, <4>3 DEF Solo, Succeeded
    <3> QED
      BY <3>2, <3>3
  <2> QED
    BY <2>1, <2>2, <2>3 DEF Of
<1> QED
  BY <1>8, <1>9, <1>10, <1>11 DEF IInv

(* A read is answered.                                                     *)
LEMMA ServerReadsKeeps ==
  ASSUME IInv, NEW t \in Thread, ServerReads(t)
  PROVE  IInv'
<1> USE DEF ServerReads, Goto, server, token, request, loop, told
<1>1. TypeOK /\ Of(t) /\ pc[t] = "wait" /\ op[t] \notin Writes
  BY DEF IInv
<1>2. PICK a \in {"refused", ReadAs(t)} : answer' = [answer EXCEPT ![t] = a]
  OBVIOUS
<1>3. /\ a \in Value \cup Refusal \cup {"ok", Empty, None}
      /\ op[t] = "FetchEnv" => a \in Refusal \cup Value \cup {Empty}
  <2>1. CASE a = "refused"
    BY <2>1 DEF Refusal
  <2>2. CASE op[t] \in {"read", "byId"} /\ a = ReadAs(t)
    BY <2>2 DEF ReadAs, Refusal
  <2>3. CASE op[t] \notin {"read", "byId"} /\ a = ReadAs(t)
    <3>1. op[t] = "FetchEnv" /\ secret[t] \in Secret
      BY <1>1, <2>3 DEF TypeOK, Of, Shape, Methods
    <3>2. a = "missing" \/ (stored[secret[t]] # None /\ a = stored[secret[t]])
      BY <2>3, <3>1 DEF ReadAs
    <3> QED
      BY <1>1, <3>1, <3>2 DEF TypeOK, Refusal
  <2> QED
    BY <2>1, <2>2, <2>3
<1>4. TypeOK'
  <2>1. /\ pc' \in [Thread -> {"idle", "lock", "exchange", "send", "wait", "answer", "next", "look", "set"}]
        /\ answer' \in [Thread -> Value \cup Refusal \cup {"ok", Empty, None}]
        /\ \A q \in Thread : pc'[q] = "exchange" <=> holder' = q
    BY <1>1, <1>2, <1>3 DEF TypeOK
  <2> QED
    BY <1>1, <2>1 DEF TypeOK
<1>5. Apart(t) /\ Subsides
  BY <1>1, <1>2 DEF Apart, Subsides, Filled, TypeOK
<1>6. Settled' /\ Kept'
  BY DEF IInv, Settled, Kept
<1>7. Shape(t)' /\ Solo(t)'
  BY <1>1, <1>2, <1>3 DEF TypeOK, Of, Shape, Solo
<1>8. Tally(t)'
  BY <1>1 DEF Of, Tally, Open, Filled, TypeOK
<1> QED
  BY <1>4, <1>5, <1>6, <1>7, <1>8, OthersKeep, NumbersStay DEF IInv, Of

(* A write is lost, another client writes, or the token ages: what becomes *)
(* uncertain is forgotten, the rest is not concerned.                      *)
LEMMA OutsideKeeps ==
  ASSUME IInv, \/ \E m \in net : Lose(m)
               \/ \E s \in Secret : WrittenElsewhere(s)
               \/ TokenAges
  PROVE  IInv'
<1> USE DEF Lose, TokenAges, server, token, request, loop, told
<1>1. TypeOK /\ \A t \in Thread : Of(t)
  BY DEF IInv
<1>2. /\ net' \subseteq net
      /\ UNCHANGED <<holder, calls, pc, op, secret, value, id, answer, todo, var, count, failed, environ, blank>>
      /\ cached' = cached \/ cached' = FALSE
  BY DEF WrittenElsewhere
<1>3. \/ stored' = stored /\ sure' = sure /\ alone' = alone
      \/ \E s \in Secret, x \in Value \cup {Empty, None} :
            /\ stored' = [stored EXCEPT ![s] = x] /\ sure' = [sure EXCEPT ![s] = Unknown]
            /\ alone' = {t \in alone : secret[t] # s}
  BY DEF WrittenElsewhere
<1>4. stored' \in [Secret -> Value \cup {Empty, None}] /\ alone' \subseteq alone
      /\ sure' \in [Secret -> Value \cup {Empty, None, Unknown}]
  BY <1>1, <1>3 DEF TypeOK
<1>5. TypeOK'
  <2>1. cached' \in BOOLEAN
    BY <1>1, <1>2 DEF TypeOK
  <2>2. holder' # Nil => ~cached'
    <3>1. CASE cached' = cached
      BY <1>1, <1>2, <3>1 DEF TypeOK
    <3>2. CASE cached' = FALSE
      BY <3>2
    <3> QED
      BY <1>2, <3>1, <3>2
  <2> QED
    BY <1>1, <1>2, <1>4, <2>1, <2>2 DEF TypeOK
<1>6. Numbered' /\ Signed' /\ Kept'
  BY <1>2 DEF IInv, Numbered, Signed, Message, Kept
<1>7. Settled'
  BY <1>1, <1>2, <1>3 DEF IInv, Settled, TypeOK
<1>8. ASSUME NEW t \in Thread PROVE Of(t)'
  <2>1. Shape(t)' /\ Tally(t)'
    BY <1>1, <1>2 DEF Of, Shape, Tally, Open, Filled, Succeeded
  <2>2. t \in alone' => stored'[secret[t]] = stored[secret[t]]
    BY <1>1, <1>3 DEF TypeOK, Of, Shape, Solo
  <2>3. Solo(t)'
    BY <1>1, <1>2, <1>4, <2>2 DEF Of, Solo, Succeeded
  <2> QED
    BY <2>1, <2>3 DEF Of
<1> QED
  BY <1>5, <1>6, <1>7, <1>8 DEF IInv

-----------------------------------------------------------------------------
(* Every step keeps the invariant.                                         *)
LEMMA StepIInv == IInv /\ [Next]_vars => IInv'
<1> SUFFICES ASSUME IInv, [Next]_vars PROVE IInv'
  OBVIOUS
<1>1. ASSUME NEW t \in Thread, Begin(t) PROVE IInv'
  <2>1. CASE FetchEnv(t)
    BY <2>1, LoopKeeps
  <2>2. CASE Read(t)
    BY <2>2, CallKeeps DEF Read, Methods, Writes
  <2>3. CASE ById(t)
    BY <2>3, CallKeeps DEF ById, Methods, Writes
  <2>4. ASSUME NEW s \in Secret, Delete(t, s) PROVE IInv'
    BY <2>4, CallKeeps DEF Delete, Methods, Writes
  <2>5. ASSUME NEW s \in Secret, NEW x \in Value, Put(t, s, x) PROVE IInv'
    BY <2>5, CallKeeps DEF Put, Methods, Writes
  <2> QED
    BY <1>1, <2>1, <2>2, <2>3, <2>4, <2>5 DEF Begin
<1>2. ASSUME NEW t \in Thread, Lock(t) PROVE IInv'
  BY <1>2, TokenKeeps
<1>3. ASSUME NEW t \in Thread, Run(t) PROVE IInv'
  <2>1. CASE TokenArrives(t)
    BY <2>1, TokenKeeps
  <2>2. CASE ExchangeFails(t) \/ GiveUp(t)
    BY <2>2, GiveUpKeeps
  <2>3. CASE Send(t)
    BY <2>3, SendKeeps
  <2>4. CASE Receive(t)
    BY <2>4, ReceiveKeeps
  <2>5. ASSUME NEW v \in Var, NextVar(t, v) PROVE IInv'
    BY <2>5, NextVarKeeps
  <2>6. CASE Look(t)
    BY <2>6, LookKeeps
  <2>7. CASE SetVar(t)
    BY <2>7, SetVarKeeps
  <2>8. CASE FetchEnvReturns(t)
    BY <2>8, LoopKeeps
  <2> QED
    BY <1>3, <2>1, <2>2, <2>3, <2>4, <2>5, <2>6, <2>7, <2>8 DEF Run
<1>4. CASE Network
  BY <1>4, ServerWritesKeeps, ServerReadsKeeps, OutsideKeeps DEF Network
<1>5. CASE TokenAges
  BY <1>5, OutsideKeeps
<1>6. CASE UNCHANGED vars
  <2> USE <1>6 DEF vars, server, token, request, loop, told
  <2>1. TypeOK'
    BY DEF IInv, TypeOK
  <2>2. Numbered' /\ Signed' /\ Settled' /\ Kept'
    BY DEF IInv, Numbered, Signed, Message, Settled, Kept
  <2>3. ASSUME NEW t \in Thread PROVE Of(t)'
    BY DEF IInv, Of, Shape, Succeeded, Tally, Open, Filled, Solo
  <2> QED
    BY <2>1, <2>2, <2>3 DEF IInv
<1> QED
  BY <1>1, <1>2, <1>3, <1>4, <1>5, <1>6 DEF Next

(* The invariant holds throughout.                                         *)
THEOREM Inductive == Spec => []IInv
BY InitIInv, StepIInv, PTL DEF Spec

(* Every variable has its type; c.mu is held exactly across the request to *)
(* IAM, by one goroutine, and only for want of a token (client.go).        *)
THEOREM TypeCorrect == Spec => []TypeOK
<1>1. IInv => TypeOK
  BY DEF IInv
<1> QED
  BY <1>1, Inductive, PTL

(* A write that was acknowledged, and met no other write to its secret, is *)
(* what the KMS holds until the next write is sent, whatever was lost,     *)
(* refused or given up meanwhile.                                          *)
THEOREM AcknowledgedWriteStays == Spec => []AckedWriteStays
<1>1. IInv => AckedWriteStays
  BY DEF IInv, Settled, AckedWriteStays
<1> QED
  BY <1>1, Inductive, PTL

(* FetchEnv returns no error exactly if it counts every variable, each is  *)
(* filled then, and the operator's values are never touched, with any      *)
(* number of goroutines that fill the same variables.                      *)
THEOREM FetchEnvTruthful == Spec => []FetchEnvKeepsItsWord
<1>1. ASSUME IInv, NEW t \in Thread, op[t] = "FetchEnv", pc[t] = "next", todo[t] = {}
      PROVE  /\ ~failed[t] <=> count[t] = Cardinality(Var)
             /\ ~failed[t] => \A v \in Var : environ[v] # Empty \/ v \in blank
  <2>1. Open(t) = {} /\ Cardinality(Open(t)) = 0
    BY <1>1, FS_EmptySet DEF Open
  <2>2. Tally(t) /\ count[t] \in Nat /\ Cardinality(Var) \in Nat
    BY <1>1, ClientAssumption, FS_CardinalityType DEF IInv, Of, TypeOK
  <2>3. ~failed[t] => count[t] = Cardinality(Var)
    BY <1>1, <2>1, <2>2 DEF Tally
  <2>4. failed[t] => count[t] < Cardinality(Var)
    BY <1>1, <2>1, <2>2 DEF Tally
  <2>5. ~failed[t] => \A v \in Var : environ[v] # Empty \/ v \in blank
    BY <1>1, <2>1, <2>2 DEF Tally, Filled
  <2> QED
    BY <2>2, <2>3, <2>4, <2>5
<1>2. IInv => FetchEnvKeepsItsWord
  BY <1>1 DEF FetchEnvKeepsItsWord, IInv, Kept
<1> QED
  BY <1>2, Inductive, PTL
=============================================================================
