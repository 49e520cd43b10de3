---------------------------- MODULE SecretProofs ----------------------------
(***************************************************************************)
(* Theorems about the two modules of MCSecretVersions: SecretVersions, for *)
(* every set of handlers, secrets and payloads, and Authorize, for every   *)
(* tree of folders and every set of policies.                              *)
(*                                                                         *)
(* TypeOK is not inductive: a handler that inserts or sets a version uses  *)
(* the number, the payload and the state it took earlier (Carries).  That  *)
(* a destroyed version is unreadable is not inductive either: a handler    *)
(* that found it before may enable it, so the invariant is the stronger    *)
(* one that its ciphertext is gone (Cleared).  When clients take turns,    *)
(* what the one request at work read still holds when it writes (InTurn).  *)
(*                                                                         *)
(* An evaluation of a permission knows nothing but what it has read, at    *)
(* different times.  WalkInv relates that to what held at some time since  *)
(* it began, Steady to what held all the time.                             *)
(***************************************************************************)
EXTENDS MCSecretVersions, FiniteSetTheorems, WellFoundedInduction, TLAPS

Reg == [pc : {"idle", "latest", "add", "number", "insert", "set"},
        secret : Secret \cup {None}, id : Id \cup {None},
        payload : Payload \cup {None}, state : State \cup {None}]

\* What the registers hold that the next statement uses.
Carries(r) ==
  /\ r.pc \in {"latest", "add", "number"} => r.secret \in Secret
  /\ r.pc \in {"add", "number", "insert"} => r.payload \in Payload
  /\ r.pc \in {"insert", "set"} => r.id \in Id
  /\ r.pc = "set" => r.state \in State

RegInv == reg \in [Handler -> Reg] /\ \A h \in Handler : Carries(reg[h])

TableInv ==
  /\ secrets \subseteq Secret
  /\ versions \in [Id -> Row \cup {None}]
  /\ destroyed \subseteq Id
  /\ turns \in BOOLEAN

\* A destroyed version that is still stored has no ciphertext.
Cleared == \A i \in destroyed : versions[i] # None /\ versions[i].payload = Empty

Inv == RegInv /\ TableInv /\ Cleared

-----------------------------------------------------------------------------
(***************************************************************************)
(* The largest number of a secret is one of its numbers.                   *)
(***************************************************************************)
LEMMA BoundedMax ==
  ASSUME NEW N \in Nat, NEW S, S \subseteq 1..N, S # {}
  PROVE  \E x \in S : \A y \in S : x >= y
<1> DEFINE T == {N - x : x \in S}
<1> DEFINE R == OpToRel(<, Nat)
<1>1. T \subseteq Nat /\ T # {}
  <2>1. \A x \in S : N - x \in Nat
    OBVIOUS
  <2> QED
    BY <2>1
<1>2. IsWellFoundedOn(R, Nat)
  BY NatLessThanWellFounded
<1>3. PICK t \in T : \A u \in T : ~(<<u, t>> \in R)
  <2> HIDE DEF R, T
  <2> QED BY <1>1, <1>2, WFMin
<1>4. \A u \in T : ~(u < t)
  BY <1>1, <1>3 DEF OpToRel
<1>5. PICK x \in S : t = N - x
  OBVIOUS
<1>6. \A y \in S : N - y \in T
  OBVIOUS
<1>7. \A y \in S : x >= y
  <2> HIDE DEF T
  <2> QED BY <1>4, <1>5, <1>6
<1> QED
  BY <1>7

\* What a secret's numbering returns.
LEMMA LargestNumber ==
  ASSUME NEW s
  PROVE  /\ Largest(s) \in 0..MaxVersion
         /\ Largest(s) # 0 => Largest(s) \in Numbers(s)
         /\ \A n \in Numbers(s) : n <= Largest(s)
<1>1. CASE Numbers(s) = {}
  BY <1>1, ConstantsAssumption DEF Largest
<1>2. CASE Numbers(s) # {}
  <2>1. Numbers(s) \subseteq 1..MaxVersion
    BY DEF Numbers
  <2>2. \E x \in Numbers(s) : \A y \in Numbers(s) : x >= y
    BY <1>2, <2>1, BoundedMax, ConstantsAssumption
  <2>3. Largest(s) \in Numbers(s) /\ \A n \in Numbers(s) : n <= Largest(s)
    BY <1>2, <2>1, <2>2 DEF Largest, Max
  <2> QED
    BY <2>1, <2>3, ConstantsAssumption
<1> QED
  BY <1>1, <1>2

-----------------------------------------------------------------------------
(***************************************************************************)
(* The invariant.                                                          *)
(***************************************************************************)

\* A step that leaves the tables alone and moves one handler.
LEMMA LocalStep ==
  ASSUME Inv, NEW h \in Handler, NEW r \in Reg, Carries(r), Goto(h, r),
         UNCHANGED <<secrets, versions, destroyed, turns>>
  PROVE  Inv'
<1>1. RegInv'
  BY DEF Inv, RegInv, Goto, Carries
<1>2. TableInv' /\ Cleared'
  BY DEF Inv, TableInv, Cleared
<1> QED
  BY <1>1, <1>2 DEF Inv

LEMMA IdleOK == Idle \in Reg /\ Carries(Idle)
  BY DEF Idle, Reg, Carries

\* A handler that returns keeps the registers well formed.
LEMMA ReturnKeeps ==
  ASSUME RegInv, NEW h \in Handler, Return(h)
  PROVE  RegInv'
  BY IdleOK DEF RegInv, Return, Goto, Carries

LEMMA InitInv == Init => Inv
<1> SUFFICES ASSUME Init PROVE Inv
  OBVIOUS
<1>1. RegInv
  BY IdleOK DEF Init, RegInv
<1>2. TableInv /\ Cleared
  BY DEF Init, TableInv, Cleared
<1> QED
  BY <1>1, <1>2 DEF Inv

\* Requests that read and go on: what they put in their registers.
LEMMA RequestStep ==
  ASSUME Inv, NEW h \in Handler, Request(h)
  PROVE  Inv'
<1> PICK s \in Secret :
      \/ \E p \in Payload : AddSecretVersion(h, s, p)
      \/ \E p \in Payload \cup {None} : RotateSecret(h, s, p)
      \/ \E n \in (1..MaxVersion) \cup {None}, state \in State : SetSecretVersionState(h, s, n, state)
  BY DEF Request
<1>1. ASSUME NEW p \in Payload, AddSecretVersion(h, s, p) PROVE Inv'
  <2> DEFINE r == [Idle EXCEPT !.pc = "number", !.secret = s, !.payload = p]
  <2>1. r \in Reg /\ Carries(r)
    BY DEF Idle, Reg, Carries
  <2>2. Goto(h, r) /\ UNCHANGED <<secrets, versions, destroyed, turns>>
    BY <1>1 DEF AddSecretVersion
  <2> HIDE DEF r
  <2> QED
    BY <2>1, <2>2, LocalStep
<1>2. ASSUME NEW p \in Payload \cup {None}, RotateSecret(h, s, p) PROVE Inv'
  <2> DEFINE r == [Idle EXCEPT !.pc = IF p = None THEN "latest" ELSE "add", !.secret = s, !.payload = p]
  <2>1. r \in Reg /\ Carries(r)
    BY DEF Idle, Reg, Carries
  <2>2. Goto(h, r) /\ UNCHANGED <<secrets, versions, destroyed, turns>>
    BY <1>2 DEF RotateSecret
  <2> HIDE DEF r
  <2> QED
    BY <2>1, <2>2, LocalStep
<1>3. ASSUME NEW n \in (1..MaxVersion) \cup {None}, NEW state \in State,
             SetSecretVersionState(h, s, n, state)
      PROVE  Inv'
  <2> DEFINE r == [Idle EXCEPT !.pc = "set", !.id = Named(s, n), !.state = state]
  <2>1. Named(s, n) \in Id
    BY <1>3 DEF SetSecretVersionState, Found
  <2>2. r \in Reg /\ Carries(r)
    BY <2>1 DEF Idle, Reg, Carries
  <2>3. Goto(h, r) /\ UNCHANGED <<secrets, versions, destroyed, turns>>
    BY <1>3 DEF SetSecretVersionState
  <2> HIDE DEF r
  <2> QED
    BY <2>2, <2>3, LocalStep
<1> QED
  BY <1>1, <1>2, <1>3

LEMMA RotateReadsKeeps ==
  ASSUME Inv, NEW h \in Handler, NEW rotated \in Payload, RotateReads(h, rotated)
  PROVE  Inv'
<1> DEFINE s == reg[h].secret
<1> DEFINE last == versions[<<s, Largest(s)>>]
<1>1. reg[h] \in Reg /\ Carries(reg[h]) /\ s \in Secret
  BY DEF Inv, RegInv, RotateReads, At, Carries
<1>2. ASSUME NEW p \in Payload, Goto(h, [reg[h] EXCEPT !.pc = "add", !.payload = p]) PROVE Inv'
  <2> DEFINE r == [reg[h] EXCEPT !.pc = "add", !.payload = p]
  <2>1. r \in Reg /\ Carries(r)
    BY <1>1 DEF Reg, Carries
  <2>2. Goto(h, r) /\ UNCHANGED <<secrets, versions, destroyed, turns>>
    BY <1>2 DEF RotateReads
  <2> HIDE DEF r
  <2> QED
    BY <2>1, <2>2, LocalStep
<1>3. ASSUME Largest(s) # 0, last.payload # Empty PROVE last.payload \in Payload
  <2>1. Largest(s) \in Numbers(s)
    BY <1>3, LargestNumber
  <2>2. <<s, Largest(s)>> \in Id /\ last # None
    BY <1>1, <2>1 DEF Numbers, Id
  <2>3. last \in Row
    BY <2>2 DEF Inv, TableInv
  <2> QED
    BY <1>3, <2>3 DEF Row
<1>4. ASSUME Return(h) PROVE Inv'
  BY <1>4, IdleOK, LocalStep DEF Return, RotateReads
<1> QED
  BY <1>2, <1>3, <1>4 DEF RotateReads

LEMMA NumberingKeeps ==
  ASSUME Inv, NEW h \in Handler, RotateAdds(h) \/ NextNumber(h)
  PROVE  Inv'
<1>1. reg[h] \in Reg /\ Carries(reg[h])
  BY DEF Inv, RegInv
<1>2. CASE RotateAdds(h)
  <2> DEFINE r == [reg[h] EXCEPT !.pc = "number"]
  <2>1. r \in Reg /\ Carries(r)
    BY <1>1, <1>2 DEF Reg, Carries, RotateAdds, At
  <2>2. /\ Goto(h, r) \/ Goto(h, Idle)
        /\ UNCHANGED <<secrets, versions, destroyed, turns>>
    BY <1>2 DEF RotateAdds, Return
  <2> HIDE DEF r
  <2> QED
    BY <2>1, <2>2, IdleOK, LocalStep
<1>3. CASE NextNumber(h)
  <2> DEFINE i == <<reg[h].secret, Largest(reg[h].secret) + 1>>
  <2> DEFINE r == [reg[h] EXCEPT !.pc = "insert", !.id = i]
  <2>1. reg[h].secret \in Secret
    BY <1>1, <1>3 DEF Carries, NextNumber, At
  <2>2. i \in Id
    BY <1>3, <2>1, LargestNumber, ConstantsAssumption DEF NextNumber, Id
  <2>3. r \in Reg /\ Carries(r)
    <3> HIDE DEF i
    <3> QED BY <1>1, <1>3, <2>2 DEF Reg, Carries, NextNumber, At
  <2>4. Goto(h, r) /\ UNCHANGED <<secrets, versions, destroyed, turns>>
    BY <1>3 DEF NextNumber
  <2> HIDE DEF r
  <2> QED
    BY <2>3, <2>4, LocalStep
<1> QED
  BY <1>2, <1>3

\* A number that is taken is not inserted, so no destroyed version is replaced.
LEMMA InsertKeeps ==
  ASSUME Inv, NEW h \in Handler, InsertVersion(h)
  PROVE  Inv'
<1> DEFINE i == reg[h].id
<1> DEFINE new == [state |-> "ENABLED", payload |-> reg[h].payload]
<1>1. i \in Id /\ new \in Row /\ new # None
  <2>1. Carries(reg[h]) /\ reg[h].pc = "insert"
    BY DEF Inv, RegInv, InsertVersion, At
  <2> QED
    BY <2>1, ConstantsAssumption DEF Carries, Row, State
<1>2. RegInv'
  BY ReturnKeeps DEF Inv, InsertVersion
<1>3. CASE versions[i] # None
  BY <1>2, <1>3 DEF Inv, TableInv, Cleared, InsertVersion
<1>4. CASE versions[i] = None
  <2>1. versions' = [versions EXCEPT ![i] = new]
    BY <1>4 DEF InsertVersion
  <2>2. i \notin destroyed
    BY <1>4 DEF Inv, Cleared
  <2>3. TableInv'
    <3> HIDE DEF i, new
    <3> QED BY <1>1, <2>1 DEF Inv, TableInv, InsertVersion
  <2>4. \A j \in destroyed : versions'[j] = versions[j]
    <3> HIDE DEF i, new
    <3> QED BY <1>1, <2>1, <2>2 DEF Inv, TableInv
  <2>5. Cleared'
    BY <2>4 DEF Inv, Cleared, InsertVersion
  <2> QED
    BY <1>2, <2>3, <2>5 DEF Inv
<1> QED
  BY <1>3, <1>4

\* What the UPDATE leaves of a row.
LEMMA StateSetRow ==
  ASSUME NEW row \in Row, NEW state \in State
  PROVE  /\ StateSet(row, state) \in Row
         /\ StateSet(row, state) # None
         /\ StateSet(row, state).payload \in {row.payload, Empty}
         /\ state = "DESTROYED" => StateSet(row, state).payload = Empty
  BY ConstantsAssumption DEF StateSet, Row

LEMMA UpdateKeeps ==
  ASSUME Inv, NEW h \in Handler, UpdateState(h)
  PROVE  Inv'
<1> DEFINE i == reg[h].id
<1> DEFINE st == reg[h].state
<1> DEFINE new == StateSet(versions[i], st)
<1>1. i \in Id /\ st \in State
  BY DEF Inv, RegInv, Carries, UpdateState, At
<1>2. RegInv'
  BY ReturnKeeps DEF Inv, UpdateState
<1>3. CASE versions[i] = None
  BY <1>2, <1>3 DEF Inv, TableInv, Cleared, UpdateState
<1>4. CASE versions[i] # None
  <2>1. versions[i] \in Row
    BY <1>1, <1>4 DEF Inv, TableInv
  <2>2. /\ new \in Row /\ new # None
        /\ new.payload \in {versions[i].payload, Empty}
        /\ st = "DESTROYED" => new.payload = Empty
    BY <1>1, <2>1, StateSetRow
  <2>3. /\ versions' = [versions EXCEPT ![i] = new]
        /\ destroyed' = IF st = "DESTROYED" THEN destroyed \cup {i} ELSE destroyed
        /\ UNCHANGED <<secrets, turns>>
    BY <1>4 DEF UpdateState
  <2> HIDE DEF new, st, i
  <2>4. TableInv'
    BY <1>1, <2>2, <2>3 DEF Inv, TableInv
  <2>5. versions'[i] = new /\ \A j \in Id : j # i => versions'[j] = versions[j]
    BY <1>1, <2>3 DEF Inv, TableInv
  <2>6. ASSUME NEW j \in destroyed' PROVE versions'[j] # None /\ versions'[j].payload = Empty
    <3>1. CASE j = i
      <4>1. st = "DESTROYED" \/ i \in destroyed
        BY <2>3, <2>6, <3>1
      <4>2. new.payload = Empty
        BY <2>2, <4>1 DEF Inv, Cleared
      <4> QED
        BY <2>2, <2>5, <3>1, <4>2
    <3>2. CASE j # i
      <4>1. j \in destroyed /\ j \in Id
        BY <2>3, <2>6, <3>2 DEF Inv, TableInv
      <4> QED
        BY <2>5, <3>2, <4>1 DEF Inv, Cleared
    <3> QED
      BY <3>1, <3>2
  <2> QED
    BY <1>2, <2>4, <2>6 DEF Inv, Cleared
<1> QED
  BY <1>3, <1>4

\* Creating and deleting a secret, and a restart.
LEMMA OtherKeeps ==
  ASSUME Inv, (\E s \in Secret : CreateSecret(s) \/ DeleteSecret(s)) \/ Restart
  PROVE  Inv'
<1>1. ASSUME NEW s \in Secret, CreateSecret(s) PROVE Inv'
  BY <1>1 DEF Inv, RegInv, TableInv, Cleared, CreateSecret
<1>2. ASSUME NEW s \in Secret, DeleteSecret(s) PROVE Inv'
  <2>1. RegInv' /\ TableInv'
    BY <1>2 DEF Inv, RegInv, TableInv, DeleteSecret
  <2>2. \A i \in destroyed' : i \in destroyed /\ versions'[i] = versions[i]
    BY <1>2 DEF Inv, TableInv, DeleteSecret
  <2> QED
    BY <2>1, <2>2 DEF Inv, Cleared
<1>3. CASE Restart
  <2>1. RegInv'
    BY <1>3, IdleOK DEF Restart, RegInv
  <2> QED
    BY <1>3, <2>1 DEF Inv, TableInv, Cleared, Restart
<1> QED
  BY <1>1, <1>2, <1>3

LEMMA NextInv == Inv /\ [Next]_vars => Inv'
<1> SUFFICES ASSUME Inv, [Next]_vars PROVE Inv'
  OBVIOUS
<1>1. ASSUME NEW h \in Handler, Step(h) PROVE Inv'
  BY <1>1, RotateReadsKeeps, NumberingKeeps, InsertKeeps, UpdateKeeps DEF Step
<1>2. CASE UNCHANGED vars
  BY <1>2 DEF vars, Inv, RegInv, TableInv, Cleared
<1> QED
  BY <1>1, <1>2, RequestStep, OtherKeeps DEF Next

-----------------------------------------------------------------------------
(***************************************************************************)
(* Theorems.                                                               *)
(***************************************************************************)

\* Registers and tables are well formed and destroyed versions stay cleared,
\* whatever handlers, deletions and restarts interleave.
THEOREM Invariance == Spec => []Inv
  BY InitInv, NextInv, PTL DEF Spec

\* Rows are well formed, and a handler inserts and sets only versions that have
\* a number (AddSecretVersion, SetSecretVersionState).
THEOREM TypeCorrect == Spec => []TypeOK
<1>1. Inv => TypeOK
  BY DEF Inv, RegInv, TableInv, Reg, Carries, TypeOK
<1> QED
  BY <1>1, Invariance, PTL

\* A destroyed version cannot be read again, although its state can come back.
THEOREM DestroyedGone == Spec => []DestroyedUnreadable
<1>1. Inv => DestroyedUnreadable
  BY DEF Inv, Cleared, DestroyedUnreadable, Accessible
<1> QED
  BY <1>1, Invariance, PTL

\* No step replaces the payload of a stored version by another one.
LEMMA PayloadKept ==
  ASSUME Inv, [Next]_vars, NEW i \in Id, versions[i] # None, versions'[i] # None
  PROVE  versions'[i].payload \in {versions[i].payload, Empty}
<1>1. ASSUME NEW h \in Handler, InsertVersion(h) PROVE versions'[i] = versions[i]
  BY <1>1 DEF InsertVersion, Inv, TableInv
<1>2. ASSUME NEW h \in Handler, UpdateState(h)
      PROVE  versions'[i].payload \in {versions[i].payload, Empty}
  <2>1. reg[h].state \in State /\ versions[i] \in Row
    BY <1>2 DEF Inv, RegInv, TableInv, Carries, UpdateState, At
  <2>2. versions'[i] \in {versions[i], StateSet(versions[i], reg[h].state)}
    BY <1>2 DEF UpdateState, Inv, TableInv
  <2> QED
    BY <2>1, <2>2, StateSetRow
<1>3. ASSUME NEW s \in Secret, DeleteSecret(s) PROVE versions'[i] = versions[i]
  BY <1>3 DEF DeleteSecret
<1>4. ASSUME NEW h \in Handler, Step(h) PROVE versions'[i].payload \in {versions[i].payload, Empty}
  BY <1>1, <1>2, <1>4 DEF Step, RotateReads, RotateAdds, NextNumber
<1>5. ASSUME NEW h \in Handler, Request(h) PROVE versions' = versions
  BY <1>5 DEF Request, AddSecretVersion, RotateSecret, SetSecretVersionState
<1> QED
  BY <1>3, <1>4, <1>5 DEF Next, vars, CreateSecret, Restart

\* What a client stored under a version is never replaced by what another one
\* adds, although both may have taken the same number (AddSecretVersion).
THEOREM PayloadsImmutable == Spec => PayloadImmutable
<1>1. Inv /\ [Next]_vars =>
        [\A i \in Id : versions[i] # None /\ versions'[i] # None =>
           versions'[i].payload \in {versions[i].payload, Empty}]_vars
  BY PayloadKept
<1> QED
  BY <1>1, Invariance, PTL DEF Spec, PayloadImmutable

-----------------------------------------------------------------------------
(***************************************************************************)
(* Clients that take turns.  Nothing but the handler of the one request    *)
(* runs, so what it read still holds when it writes: that is Ready.        *)
(***************************************************************************)

\* The secret a handler found exists, the numbers below the one it inserts are
\* taken, and the version it sets is stored and not destroyed.
Ready(r) ==
  /\ r.pc \in {"latest", "add", "number"} => r.secret \in secrets
  /\ r.pc = "insert" => /\ r.id[1] \in secrets
                        /\ \A m \in 1..(r.id[2] - 1) : versions[<<r.id[1], m>>] # None
  /\ r.pc = "set" => versions[r.id] # None /\ versions[r.id].state # "DESTROYED"

\* A stored number has every smaller one below it, in a secret that exists.
Gapless ==
  \A s \in Secret, n \in 1..MaxVersion : versions[<<s, n>>] # None =>
    s \in secrets /\ \A m \in 1..n : versions[<<s, m>>] # None

OneAtATime == \A h, k \in Handler : At(h, "idle") \/ At(k, "idle") \/ h = k

Orderly == OneAtATime /\ Gapless /\ \A h \in Handler : Ready(reg[h])

InTurn == turns => Orderly

LEMMA IdleReady ==
  ASSUME \A h \in Handler : At(h, "idle")
  PROVE  OneAtATime /\ \A h \in Handler : Ready(reg[h])
  BY DEF At, OneAtATime, Ready

\* A step that leaves the tables alone and moves the one busy handler.
LEMMA TurnStep ==
  ASSUME RegInv, InTurn, NEW h \in Handler, NEW r \in Reg, Goto(h, r),
         turns => \A k \in Handler : k # h => At(k, "idle"),
         turns => Ready(r),
         UNCHANGED <<secrets, versions, destroyed, turns>>
  PROVE  InTurn'
<1> SUFFICES ASSUME turns PROVE Orderly'
  BY DEF InTurn
<1>1. Gapless'
  BY DEF InTurn, Orderly, Gapless
<1>2. reg'[h] = r /\ \A k \in Handler : k # h => reg'[k] = reg[k]
  BY DEF Goto, RegInv
<1>3. OneAtATime'
  BY <1>2 DEF OneAtATime, At
<1>4. \A k \in Handler : Ready(reg[k])'
  BY <1>2 DEF InTurn, Orderly, Ready
<1> QED
  BY <1>1, <1>3, <1>4 DEF Orderly

LEMMA InitInTurn == Init => InTurn
<1> SUFFICES ASSUME Init PROVE Orderly
  BY DEF InTurn
<1>1. \A h \in Handler : At(h, "idle")
  BY DEF Init, At, Idle
<1>2. Gapless
  BY DEF Init, Gapless, Id
<1> QED
  BY <1>1, <1>2, IdleReady DEF Orderly

\* What a request finds is what the next statement needs.
LEMMA RequestInTurn ==
  ASSUME Inv, InTurn, NEW h \in Handler, Request(h)
  PROVE  InTurn'
<1> PICK s \in Secret :
      \/ \E p \in Payload : AddSecretVersion(h, s, p)
      \/ \E p \in Payload \cup {None} : RotateSecret(h, s, p)
      \/ \E n \in (1..MaxVersion) \cup {None}, state \in State : SetSecretVersionState(h, s, n, state)
  BY DEF Request
<1> RegInv
  BY DEF Inv
<1>1. Free(h) => (turns => \A k \in Handler : k # h => At(k, "idle"))
  BY DEF Free
<1>2. ASSUME NEW p \in Payload, AddSecretVersion(h, s, p) PROVE InTurn'
  <2> DEFINE r == [Idle EXCEPT !.pc = "number", !.secret = s, !.payload = p]
  <2>1. r \in Reg /\ (turns => Ready(r))
    BY <1>2 DEF Idle, Reg, Ready, AddSecretVersion
  <2>2. Free(h) /\ Goto(h, r) /\ UNCHANGED <<secrets, versions, destroyed, turns>>
    BY <1>2 DEF AddSecretVersion
  <2> HIDE DEF r
  <2> QED
    BY <1>1, <2>1, <2>2, TurnStep
<1>3. ASSUME NEW p \in Payload \cup {None}, RotateSecret(h, s, p) PROVE InTurn'
  <2> DEFINE r == [Idle EXCEPT !.pc = IF p = None THEN "latest" ELSE "add", !.secret = s, !.payload = p]
  <2>1. r \in Reg /\ (turns => Ready(r))
    BY <1>3 DEF Idle, Reg, Ready, RotateSecret
  <2>2. Free(h) /\ Goto(h, r) /\ UNCHANGED <<secrets, versions, destroyed, turns>>
    BY <1>3 DEF RotateSecret
  <2> HIDE DEF r
  <2> QED
    BY <1>1, <2>1, <2>2, TurnStep
<1>4. ASSUME NEW n \in (1..MaxVersion) \cup {None}, NEW state \in State,
             SetSecretVersionState(h, s, n, state)
      PROVE  InTurn'
  <2> DEFINE r == [Idle EXCEPT !.pc = "set", !.id = Named(s, n), !.state = state]
  <2>1. Named(s, n) \in Id /\ versions[Named(s, n)] # None /\ versions[Named(s, n)].state # "DESTROYED"
    BY <1>4 DEF SetSecretVersionState, Found
  <2>2. r \in Reg /\ (turns => Ready(r))
    BY <2>1 DEF Idle, Reg, Ready
  <2>3. Free(h) /\ Goto(h, r) /\ UNCHANGED <<secrets, versions, destroyed, turns>>
    BY <1>4 DEF SetSecretVersionState
  <2> HIDE DEF r
  <2> QED
    BY <1>1, <2>2, <2>3, TurnStep
<1> QED
  BY <1>2, <1>3, <1>4

\* The statements that write nothing: the number found is the first one free.
LEMMA ReadInTurn ==
  ASSUME Inv, InTurn, NEW h \in Handler,
         (\E rotated \in Payload : RotateReads(h, rotated)) \/ RotateAdds(h) \/ NextNumber(h)
  PROVE  InTurn'
<1> RegInv
  BY DEF Inv
<1>1. reg[h] \in Reg /\ Carries(reg[h]) /\ (turns => Ready(reg[h]))
  BY DEF RegInv, InTurn, Orderly
<1>2. turns => \A k \in Handler : k # h => At(k, "idle")
  BY DEF InTurn, Orderly, OneAtATime, RotateReads, RotateAdds, NextNumber, At
<1>3. Idle \in Reg /\ Ready(Idle)
  BY IdleOK DEF Ready, Idle
<1>4. ASSUME NEW rotated \in Payload, RotateReads(h, rotated) PROVE InTurn'
  <2>1. \/ Return(h)
        \/ \E p \in Payload : Goto(h, [reg[h] EXCEPT !.pc = "add", !.payload = p])
    <3> DEFINE last == versions[<<reg[h].secret, Largest(reg[h].secret)>>]
    <3>1. ASSUME Largest(reg[h].secret) # 0, last.payload # Empty PROVE last.payload \in Payload
      <4>1. Largest(reg[h].secret) \in Numbers(reg[h].secret) /\ reg[h].secret \in Secret
        BY <1>1, <1>4, <3>1, LargestNumber DEF Carries, RotateReads, At
      <4>2. last \in Row
        BY <4>1 DEF Numbers, Id, Inv, TableInv
      <4> QED
        BY <3>1, <4>2 DEF Row
    <3> QED
      BY <1>4, <3>1 DEF RotateReads
  <2>2. ASSUME NEW p \in Payload, Goto(h, [reg[h] EXCEPT !.pc = "add", !.payload = p]) PROVE InTurn'
    <3> DEFINE r == [reg[h] EXCEPT !.pc = "add", !.payload = p]
    <3>1. r \in Reg /\ (turns => Ready(r))
      BY <1>1, <1>4 DEF Reg, Ready, RotateReads, At
    <3>2. Goto(h, r) /\ UNCHANGED <<secrets, versions, destroyed, turns>>
      BY <1>4, <2>2 DEF RotateReads
    <3> HIDE DEF r
    <3> QED
      BY <1>2, <3>1, <3>2, TurnStep
  <2>3. ASSUME Return(h) PROVE InTurn'
    <3>1. Goto(h, Idle) /\ UNCHANGED <<secrets, versions, destroyed, turns>>
      BY <1>4, <2>3 DEF RotateReads, Return
    <3> QED
      BY <1>2, <1>3, <3>1, TurnStep
  <2> QED
    BY <2>1, <2>2, <2>3
<1>5. CASE RotateAdds(h)
  <2> DEFINE r == [reg[h] EXCEPT !.pc = "number"]
  <2>1. r \in Reg /\ (turns => Ready(r))
    BY <1>1, <1>5 DEF Reg, Ready, RotateAdds, At
  <2>2. /\ Goto(h, r) \/ Goto(h, Idle)
        /\ UNCHANGED <<secrets, versions, destroyed, turns>>
    BY <1>5 DEF RotateAdds, Return
  <2> HIDE DEF r
  <2> QED
    BY <1>2, <1>3, <2>1, <2>2, TurnStep
<1>6. CASE NextNumber(h)
  <2> DEFINE s == reg[h].secret
  <2> DEFINE i == <<s, Largest(s) + 1>>
  <2> DEFINE r == [reg[h] EXCEPT !.pc = "insert", !.id = i]
  <2>1. s \in Secret /\ (turns => s \in secrets)
    BY <1>1, <1>6 DEF Carries, NextNumber, At, Ready
  <2>2. i \in Id /\ Largest(s) \in Nat
    BY <1>6, <2>1, LargestNumber, ConstantsAssumption DEF NextNumber, Id
  <2>3. turns => \A m \in 1..Largest(s) : versions[<<s, m>>] # None
    <3> HIDE DEF s
    <3> SUFFICES ASSUME turns, Largest(s) # 0 PROVE \A m \in 1..Largest(s) : versions[<<s, m>>] # None
      OBVIOUS
    <3>1. Largest(s) \in 1..MaxVersion /\ versions[<<s, Largest(s)>>] # None
      BY LargestNumber DEF Numbers
    <3> QED
      BY <2>1, <3>1 DEF InTurn, Orderly, Gapless
  <2>4. r \in Reg
    <3> HIDE DEF i
    <3> QED BY <1>1, <2>2 DEF Reg
  <2>5. turns => Ready(r)
    <3>1. r.pc = "insert" /\ r.id[1] = s /\ r.id[2] - 1 = Largest(s)
      BY <1>1, <2>2 DEF Reg
    <3> HIDE DEF r, s
    <3> QED BY <2>1, <2>3, <3>1 DEF Ready
  <2>6. Goto(h, r) /\ UNCHANGED <<secrets, versions, destroyed, turns>>
    BY <1>6 DEF NextNumber
  <2> HIDE DEF r
  <2> QED
    BY <1>2, <2>4, <2>5, <2>6, TurnStep
<1> QED
  BY <1>4, <1>5, <1>6

\* The statements that write: the handler is the only one, and returns.
LEMMA WriteInTurn ==
  ASSUME Inv, InTurn, NEW h \in Handler, InsertVersion(h) \/ UpdateState(h)
  PROVE  InTurn'
<1> SUFFICES ASSUME turns PROVE Orderly'
  BY DEF InTurn, InsertVersion, UpdateState
<1> DEFINE i == reg[h].id
<1>0. UNCHANGED <<secrets, turns>> /\ Return(h)
  BY DEF InsertVersion, UpdateState
<1>1. Orderly /\ i \in Id /\ Ready(reg[h])
  BY DEF InTurn, Orderly, Inv, RegInv, Carries, InsertVersion, UpdateState, At
<1>2. (\A k \in Handler : At(k, "idle"))'
  <2>1. \A k \in Handler : k # h => At(k, "idle")
    BY <1>1 DEF Orderly, OneAtATime, InsertVersion, UpdateState, At
  <2> QED
    BY <1>0, <2>1 DEF Return, Goto, At, Inv, RegInv, Idle
<1>3. (OneAtATime /\ \A k \in Handler : Ready(reg[k]))'
  BY <1>2 DEF At, OneAtATime, Ready
<1>4. Gapless'
  <2>1. \A j \in Id : versions[j] # None => versions'[j] # None
    <3>1. CASE InsertVersion(h)
      BY <3>1 DEF InsertVersion, Inv, TableInv
    <3>2. CASE UpdateState(h)
      <4> SUFFICES ASSUME versions[i] # None
                   PROVE  \A j \in Id : versions[j] # None => versions'[j] # None
        BY <3>2 DEF UpdateState
      <4>1. StateSet(versions[i], reg[h].state) # None
        BY <1>1, <3>2, StateSetRow DEF Inv, TableInv, RegInv, Carries, UpdateState, At
      <4> QED
        BY <3>2, <4>1 DEF UpdateState, Inv, TableInv
    <3> QED
      BY <3>1, <3>2
  <2>2. \A j \in Id : versions'[j] # None => versions[j] # None \/ (j = i /\ InsertVersion(h))
    <3>1. CASE InsertVersion(h)
      BY <3>1 DEF InsertVersion, Inv, TableInv
    <3>2. CASE UpdateState(h)
      BY <3>2 DEF UpdateState, Inv, TableInv
    <3> QED
      BY <3>1, <3>2
  <2>3. ASSUME NEW s \in Secret, NEW n \in 1..MaxVersion, versions'[<<s, n>>] # None
        PROVE  s \in secrets' /\ \A m \in 1..n : versions'[<<s, m>>] # None
    <3>1. <<s, n>> \in Id /\ \A m \in 1..n : <<s, m>> \in Id
      BY ConstantsAssumption DEF Id
    <3>2. CASE versions[<<s, n>>] # None
      <4>1. s \in secrets /\ \A m \in 1..n : versions[<<s, m>>] # None
        BY <1>1, <3>2 DEF Orderly, Gapless
      <4> QED
        BY <1>0, <2>1, <3>1, <4>1
    <3>3. CASE i = <<s, n>> /\ InsertVersion(h)
      <4>1. i[1] = s /\ i[2] = n
        BY <3>3
      <4>2. s \in secrets /\ \A m \in 1..(n - 1) : versions[<<s, m>>] # None
        BY <1>1, <3>3, <4>1 DEF Ready, InsertVersion, At
      <4>3. \A m \in 1..n : m = n \/ m \in 1..(n - 1)
        OBVIOUS
      <4> QED
        BY <1>0, <2>1, <2>3, <3>1, <4>2, <4>3
    <3> QED
      BY <2>2, <2>3, <3>1, <3>2, <3>3
  <2> QED
    BY <2>3 DEF Gapless
<1> QED
  BY <1>3, <1>4 DEF Orderly

\* Secrets are created and deleted, and the process restarts, between requests.
LEMMA OtherInTurn ==
  ASSUME Inv, InTurn, (\E s \in Secret : CreateSecret(s) \/ DeleteSecret(s)) \/ Restart
  PROVE  InTurn'
<1> SUFFICES ASSUME turns PROVE Orderly'
  BY DEF InTurn, CreateSecret, DeleteSecret, Restart
<1>1. Orderly
  BY DEF InTurn
<1>2. (\A h \in Handler : At(h, "idle"))'
  <2>1. CASE Restart
    BY <2>1 DEF Restart, At, Idle
  <2>2. ASSUME NEW s \in Secret, CreateSecret(s) \/ DeleteSecret(s)
        PROVE  reg' = reg /\ \A h \in Handler : At(h, "idle")
    BY <2>2 DEF CreateSecret, DeleteSecret
  <2> QED
    BY <2>1, <2>2 DEF At
<1>3. (OneAtATime /\ \A k \in Handler : Ready(reg[k]))'
  BY <1>2 DEF At, OneAtATime, Ready
<1>4. Gapless'
  <2>1. ASSUME NEW s \in Secret, CreateSecret(s) PROVE Gapless'
    BY <1>1, <2>1 DEF Orderly, Gapless, CreateSecret
  <2>2. ASSUME NEW s \in Secret, DeleteSecret(s) PROVE Gapless'
    <3>1. \A t \in Secret, n \in 1..MaxVersion :
            versions'[<<t, n>>] = IF t = s THEN None ELSE versions[<<t, n>>]
      BY <2>2 DEF DeleteSecret, Id
    <3>2. \A n \in 1..MaxVersion : 1..n \subseteq 1..MaxVersion
      BY ConstantsAssumption
    <3> QED
      BY <1>1, <2>2, <3>1, <3>2 DEF Orderly, Gapless, DeleteSecret
  <2>3. CASE Restart
    BY <1>1, <2>3 DEF Orderly, Gapless, Restart
  <2> QED
    BY <2>1, <2>2, <2>3
<1> QED
  BY <1>3, <1>4 DEF Orderly

LEMMA NextInTurn == Inv /\ InTurn /\ [Next]_vars => InTurn'
<1> SUFFICES ASSUME Inv, InTurn, [Next]_vars PROVE InTurn'
  OBVIOUS
<1>1. ASSUME NEW h \in Handler, Step(h) PROVE InTurn'
  BY <1>1, ReadInTurn, WriteInTurn DEF Step
<1>2. CASE UNCHANGED vars
  BY <1>2 DEF vars, InTurn, Orderly, OneAtATime, Gapless, Ready, At
<1> QED
  BY <1>1, <1>2, RequestInTurn, OtherInTurn DEF Next

\* While clients take turns, a handler that is about to write (AddSecretVersion,
\* SetSecretVersionState) knows the number and the state that are stored.
THEOREM TurnInvariance == Spec => [](Inv /\ InTurn)
  BY InitInv, NextInv, InitInTurn, NextInTurn, PTL DEF Spec

\* Clients that take turns number the versions of a secret from one without
\* gaps, and leave none behind when the secret is deleted (AddSecretVersion).
THEOREM NumberedWithoutGaps == Spec => []WellNumbered
<1>1. Inv /\ InTurn => WellNumbered
  <2> SUFFICES ASSUME Inv, InTurn, turns, NEW s \in Secret
               PROVE  /\ Numbers(s) = 1..Largest(s)
                      /\ Numbers(s) # {} => s \in secrets
    BY DEF WellNumbered
  <2>1. Gapless
    BY DEF InTurn, Orderly
  <2>2. /\ Largest(s) \in 0..MaxVersion
        /\ Largest(s) # 0 => Largest(s) \in Numbers(s)
        /\ \A n \in Numbers(s) : n <= Largest(s)
    BY LargestNumber
  <2>3. \A n \in 1..Largest(s) : n \in Numbers(s)
    <3> SUFFICES ASSUME NEW n \in 1..Largest(s) PROVE n \in Numbers(s)
      OBVIOUS
    <3>1. Largest(s) \in 1..MaxVersion /\ versions[<<s, Largest(s)>>] # None /\ n \in 1..MaxVersion
      BY <2>2, ConstantsAssumption DEF Numbers
    <3> QED
      BY <2>1, <3>1 DEF Gapless, Numbers
  <2>4. \A n \in Numbers(s) : n \in 1..Largest(s) /\ s \in secrets
    BY <2>1, <2>2 DEF Gapless, Numbers
  <2> QED
    BY <2>3, <2>4
<1> QED
  BY <1>1, TurnInvariance, PTL

\* While clients take turns, no request brings a destroyed version back: the
\* state SetSecretVersionState checked is the one its UPDATE replaces.
THEOREM DestroyedStays == Spec => DestroyedFinal
<1>1. Inv /\ InTurn /\ [Next]_vars =>
        [\A i \in Id : turns /\ versions[i] # None /\ versions'[i] # None =>
           (versions[i].state = "DESTROYED" => versions'[i].state = "DESTROYED")]_vars
  <2> SUFFICES ASSUME Inv, InTurn, [Next]_vars, NEW i \in Id, turns,
                      versions[i] # None, versions'[i] # None, versions[i].state = "DESTROYED"
               PROVE  versions'[i] = versions[i]
    OBVIOUS
  <2>1. ASSUME NEW h \in Handler, InsertVersion(h) PROVE versions'[i] = versions[i]
    BY <2>1 DEF InsertVersion, Inv, TableInv
  <2>2. ASSUME NEW h \in Handler, UpdateState(h) PROVE versions'[i] = versions[i]
    <3>1. reg[h].id # i
      BY <2>2 DEF InTurn, Orderly, Ready, UpdateState, At
    <3> QED
      BY <2>2, <3>1 DEF UpdateState, Inv, TableInv
  <2>3. ASSUME NEW s \in Secret, DeleteSecret(s) PROVE versions'[i] = versions[i]
    BY <2>3 DEF DeleteSecret
  <2>4. ASSUME NEW h \in Handler, Step(h) PROVE versions'[i] = versions[i]
    BY <2>1, <2>2, <2>4 DEF Step, RotateReads, RotateAdds, NextNumber
  <2>5. ASSUME NEW h \in Handler, Request(h) PROVE versions' = versions
    BY <2>5 DEF Request, AddSecretVersion, RotateSecret, SetSecretVersionState
  <2> QED
    BY <2>3, <2>4, <2>5 DEF Next, vars, CreateSecret, Restart
<1> QED
  BY <1>1, TurnInvariance, PTL DEF Spec, DestroyedFinal

-----------------------------------------------------------------------------
(***************************************************************************)
(* Evaluations of a permission: types, and the views of Authorize.         *)
(***************************************************************************)
Place == Folder \cup {Org, Project, Item}
View  == [links : SUBSET (Place \X Place), bound : SUBSET (Place \X Binding),
          roles : SUBSET {"basic", Custom}, open : SUBSET (1..MaxTime + 1)]
Ask   == [pc : {"parents", "policy", "binding", "role", "allowed", "denied"},
          principal : {"account", "user", "allUsers"}, resource : Place,
          chain : Seq(Place), reads : Nat, next : Nat \ {0}, left : Seq(Binding)]

\* One view shows no more than another.
Within(v, w) ==
  /\ v.links \subseteq w.links /\ v.bound \subseteq w.bound
  /\ v.roles \subseteq w.roles /\ v.open \subseteq w.open

Tree ==
  /\ parent \in [Folder -> Folder \cup {Org, None}]
  /\ policies \in [Place -> Policies]
  /\ granting \in BOOLEAN /\ clock \in 0..MaxTime

Seen ==
  /\ ever \in View /\ always \in View
  /\ Within(always, Walk!World) /\ Within(Walk!World, ever)

AtHand(r) == r.pc \in {"binding", "role"}
Positions(r) == 1..Len(r.chain)

\* Where the walk stands.
Walks(r) ==
  /\ Len(r.chain) >= 1 /\ r.chain[1] = r.resource
  /\ r.chain[Len(r.chain)] # Item
  /\ r.pc = "parents" => r.next = 1
  /\ AtHand(r) => r.next - 1 \in Positions(r)
  /\ r.pc = "role" => r.left # <<>> /\ r.left[1].role = Custom

\* What the walk met was there.
Honest(r, v) ==
  /\ \A i \in Positions(r) : r.chain[i] \in Walk!Above(v.links, r.resource)
  /\ AtHand(r) => \A i \in 1..Len(r.left) : <<r.chain[r.next - 1], r.left[i]>> \in v.bound
  /\ r.pc = "role" => r.left[1].member \in Walk!Stands(r.principal) /\ r.left[1].until \in v.open

WalkInv ==
  /\ Tree /\ Seen /\ req \in Ask /\ Walks(req) /\ Honest(req, ever)
  /\ Walk!RevokedStaysOut

-----------------------------------------------------------------------------
(***************************************************************************)
(* What a view links to a resource, and what the evaluation reads.         *)
(***************************************************************************)
LEMMA Places == Walk!Resource = Place
BY DEF Walk!Resource, Place

LEMMA AboveStart ==
  ASSUME NEW v, NEW r \in Place
  PROVE  r \in Walk!Above(v, r)
BY Places DEF Walk!Above

LEMMA AboveGrows ==
  ASSUME NEW v, NEW w, v \subseteq w, NEW r
  PROVE  Walk!Above(v, r) \subseteq Walk!Above(w, r)
BY Places DEF Walk!Above

LEMMA AboveStep ==
  ASSUME NEW v, NEW r, NEW x \in Walk!Above(v, r), NEW y \in Place, <<x, y>> \in v
  PROVE  y \in Walk!Above(v, r)
<1>1. ASSUME NEW S \in SUBSET Place, r \in S, \A l \in v : l[1] \in S => l[2] \in S
      PROVE  y \in S
  <2>1. x \in S
    BY <1>1, Places DEF Walk!Above
  <2> QED
    BY <1>1, <2>1
<1> QED
  BY <1>1, Places DEF Walk!Above

LEMMA AboveLeast ==
  ASSUME NEW v, NEW r, NEW S \in SUBSET Place, r \in S,
         \A l \in v : l[1] \in S => l[2] \in S
  PROVE  Walk!Above(v, r) \subseteq S
BY Places DEF Walk!Above

\* What a resource leads to.
Lead(r) == IF r = Item THEN Project ELSE Walk!CRMParent(r)

WorldFacts ==
  /\ Walk!World \in View
  /\ \A x \in Place : \A y : <<x, y>> \in Walk!World.links <=> Lead(x) # None /\ y = Lead(x)
  /\ \A x \in Place : \A b : <<x, b>> \in Walk!World.bound
                               <=> \E i \in 1..Len(policies[x]) : b = policies[x][i]
  /\ "basic" \in Walk!World.roles /\ (Custom \in Walk!World.roles <=> granting)
  /\ \A u \in 1..MaxTime + 1 : u \in Walk!World.open <=> clock < u

LEMMA WorldSeen == Tree => WorldFacts
<1> SUFFICES ASSUME Tree PROVE WorldFacts
  OBVIOUS
<1> USE WalkAssumption
<1>1. \A x \in Place : policies[x] \in Seq(Binding)
  BY DEF Tree
<1>2. \A x \in Place : Walk!Range(policies[x]) = {policies[x][i] : i \in 1..Len(policies[x])}
  BY <1>1 DEF Walk!Range
<1> DEFINE L == {<<f, parent[f]>> : f \in {f \in Folder : parent[f] # None}}
                  \cup {<<Project, Org>>, <<Item, Project>>}
           B == UNION {{<<r, b>> : b \in Walk!Range(policies[r])} : r \in Place}
<1>3. /\ Walk!World.links = L /\ Walk!World.bound = B
      /\ Walk!World.roles = {"basic"} \cup (IF granting THEN {Custom} ELSE {})
      /\ Walk!World.open = {u \in 1..MaxTime + 1 : clock < u}
      /\ Walk!World = [links |-> Walk!World.links, bound |-> Walk!World.bound,
                       roles |-> Walk!World.roles, open |-> Walk!World.open]
  BY Places DEF Walk!World
<1>4. L \in SUBSET (Place \X Place)
  BY DEF Tree, Place
<1>5. B \in SUBSET (Place \X Binding)
  <2>1. \A x \in Place : \A b \in Walk!Range(policies[x]) : b \in Binding
    BY <1>1, <1>2
  <2> QED
    BY <2>1
<1>6. \A x \in Place : \A y : <<x, y>> \in L <=> Lead(x) # None /\ y = Lead(x)
  <2> SUFFICES ASSUME NEW x \in Place, NEW y
               PROVE  <<x, y>> \in L <=> Lead(x) # None /\ y = Lead(x)
    OBVIOUS
  <2>1. CASE x \in Folder
    <3>1. Lead(x) = parent[x]
      BY <2>1 DEF Lead, Walk!CRMParent
    <3>2. <<x, y>> \in L <=> \E f \in Folder : parent[f] # None /\ <<x, y>> = <<f, parent[f]>>
      BY <2>1
    <3>3. <<x, y>> \in L <=> parent[x] # None /\ y = parent[x]
      BY <2>1, <3>2
    <3> QED
      BY <3>1, <3>3
  <2>2. CASE x \in {Org, Project, Item}
    <3>1. <<x, y>> \in L <=> <<x, y>> \in {<<Project, Org>>, <<Item, Project>>}
      BY <2>2
    <3> QED
      BY <2>2, <3>1 DEF Lead, Walk!CRMParent
  <2> QED
    BY <2>1, <2>2 DEF Place
<1>7. \A x \in Place : \A b : <<x, b>> \in B <=> \E i \in 1..Len(policies[x]) : b = policies[x][i]
  <2> SUFFICES ASSUME NEW x \in Place, NEW b
               PROVE  <<x, b>> \in B <=> \E i \in 1..Len(policies[x]) : b = policies[x][i]
    OBVIOUS
  <2>1. <<x, b>> \in B <=> \E r \in Place : \E c \in Walk!Range(policies[r]) : <<x, b>> = <<r, c>>
    OBVIOUS
  <2>2. <<x, b>> \in B <=> b \in Walk!Range(policies[x])
    BY <2>1
  <2>3. b \in Walk!Range(policies[x]) <=> \E i \in 1..Len(policies[x]) : b = policies[x][i]
    BY <1>2
  <2> HIDE DEF B
  <2> QED
    BY <2>2, <2>3
<1>8. Walk!World \in View
  <2> HIDE DEF L, B
  <2> QED BY <1>3, <1>4, <1>5 DEF View, Tree
<1> HIDE DEF L, B
<1> QED
  BY <1>3, <1>6, <1>7, <1>8 DEF Tree, WorldFacts
-----------------------------------------------------------------------------
(***************************************************************************)
(* The writes of other requests.                                           *)
(***************************************************************************)
LEMMA TreeChanged ==
  ASSUME WalkInv, Walk!MoveFolder \/ Walk!CreateFolder \/ Walk!PutIAMPolicyJSON
                    \/ Walk!ChangeCustomRole \/ Walk!SetClock
  PROVE  Tree'
<1> USE DEF WalkInv, Tree
<1>1. CASE Walk!MoveFolder
  BY <1>1 DEF Walk!MoveFolder
<1>2. CASE Walk!CreateFolder
  BY <1>2 DEF Walk!CreateFolder
<1>3. CASE Walk!PutIAMPolicyJSON
  BY <1>3, Places DEF Walk!PutIAMPolicyJSON
<1>4. CASE Walk!ChangeCustomRole
  BY <1>4 DEF Walk!ChangeCustomRole
<1>5. CASE Walk!SetClock
  BY <1>5, WalkAssumption DEF Walk!SetClock
<1> QED
  BY <1>1, <1>2, <1>3, <1>4, <1>5

\* A change widens what was seen at some time and narrows what was seen all the time.
LEMMA ViewsChanged ==
  ASSUME WalkInv, Tree', Walk!Changed
  PROVE  Seen' /\ Within(ever, ever') /\ Within(always', always)
<1>1. (Tree => WorldFacts)'
  BY WorldSeen, PTL
<1>2. PICK w : w = Walk!World'
  OBVIOUS
<1>3. w \in View
  BY <1>1, <1>2 DEF WorldFacts
<1>4. ever \in View /\ always \in View
  BY DEF WalkInv, Seen
<1>5. /\ ever' = [k \in DOMAIN ever |-> ever[k] \cup w[k]]
      /\ always' = [k \in DOMAIN always |-> always[k] \cap w[k]]
  BY <1>2 DEF Walk!Changed
<1>6. ever' = [links |-> ever.links \cup w.links, bound |-> ever.bound \cup w.bound,
               roles |-> ever.roles \cup w.roles, open |-> ever.open \cup w.open]
  BY <1>4, <1>5 DEF View
<1>7. always' = [links |-> always.links \cap w.links, bound |-> always.bound \cap w.bound,
                 roles |-> always.roles \cap w.roles, open |-> always.open \cap w.open]
  BY <1>4, <1>5 DEF View
<1>8. ever' \in View /\ always' \in View
  BY <1>3, <1>4, <1>6, <1>7 DEF View
<1>9. Within(always', w) /\ Within(w, ever') /\ Within(ever, ever') /\ Within(always', always)
  BY <1>6, <1>7 DEF Within
<1> QED
  BY <1>2, <1>8, <1>9 DEF Seen

LEMMA HonestGrows ==
  ASSUME NEW r \in Ask, NEW v, NEW w, Within(v, w), Honest(r, v)
  PROVE  Honest(r, w)
BY AboveGrows DEF Honest, Within

LEMMA ChangeKeepsWalk ==
  ASSUME WalkInv, Walk!MoveFolder \/ Walk!CreateFolder \/ Walk!PutIAMPolicyJSON
                    \/ Walk!ChangeCustomRole \/ Walk!SetClock
  PROVE  WalkInv' /\ req' = req /\ Within(always', always)
<1>1. Walk!Changed
  BY DEF Walk!MoveFolder, Walk!CreateFolder, Walk!PutIAMPolicyJSON, Walk!ChangeCustomRole, Walk!SetClock
<1>2. Tree' /\ Seen' /\ Within(ever, ever') /\ Within(always', always)
  BY <1>1, TreeChanged, ViewsChanged
<1>3. req' = req /\ req.pc # "allowed"
  BY <1>1 DEF Walk!Changed, Walk!Running
<1>4. req \in Ask /\ Walks(req) /\ Honest(req, ever)
  BY DEF WalkInv
<1>5. Honest(req, ever')
  BY <1>2, <1>4, HonestGrows
<1>6. req' \in Ask /\ Walks(req') /\ Honest(req', ever')
  BY <1>3, <1>4, <1>5
<1>7. Walk!RevokedStaysOut'
  BY <1>3 DEF Walk!RevokedStaysOut
<1> QED
  BY <1>2, <1>3, <1>6, <1>7 DEF WalkInv

-----------------------------------------------------------------------------
(***************************************************************************)
(* The steps of the evaluation keep WalkInv.                               *)
(***************************************************************************)
LEMMA AskedWalks ==
  ASSUME NEW p \in {"account", "user", "allUsers"}, NEW x \in Place, NEW v,
         x = Item => <<Item, Project>> \in v.links
  PROVE  LET q == Walk!Asked(p, x) IN q \in Ask /\ Walks(q) /\ Honest(q, v)
<1> DEFINE q == Walk!Asked(p, x)
<1>1. PICK c : c = Walk!resourcePolicyChain(x)
  OBVIOUS
<1>2. /\ c \in Seq(Place) /\ Len(c) >= 1 /\ c[1] = x /\ c[Len(c)] # Item
      /\ Len(c) = 1 \/ (Len(c) = 2 /\ x = Item /\ c[2] = Project)
  <2>1. CASE x = Item
    BY <1>1, <2>1, WalkAssumption DEF Walk!resourcePolicyChain, Place
  <2>2. CASE x # Item
    BY <1>1, <2>2, WalkAssumption DEF Walk!resourcePolicyChain, Place
  <2> QED
    BY <2>1, <2>2
<1>3. \A i \in 1..Len(c) : c[i] \in Walk!Above(v.links, x)
  <2>1. x \in Walk!Above(v.links, x)
    BY AboveStart
  <2>2. x = Item => Project \in Walk!Above(v.links, x)
    BY <2>1, AboveStep DEF Place
  <2> QED
    BY <1>2, <2>1, <2>2
<1>4. q = [pc |-> "parents", principal |-> p, resource |-> x, chain |-> c,
           reads |-> 0, next |-> 1, left |-> <<>>]
  BY <1>1 DEF Walk!Asked
<1>5. q \in Ask
  BY <1>2, <1>4 DEF Ask
<1>6. Walks(q) /\ Honest(q, v)
  BY <1>2, <1>3, <1>4 DEF Walks, Honest, AtHand, Positions
<1> QED
  BY <1>5, <1>6

LEMMA EvaluateKeepsWalk ==
  ASSUME WalkInv, Walk!Evaluate
  PROVE  WalkInv' /\ always' = Walk!World
<1>1. PICK p \in Walk!Principal, x \in Asks : req' = Walk!Asked(p, x)
  BY DEF Walk!Evaluate
<1>2. ever' = Walk!World /\ always' = Walk!World /\ UNCHANGED <<parent, policies, granting, clock>>
  BY DEF Walk!Evaluate
<1>3. Walk!World' = Walk!World
  BY <1>2 DEF Walk!World, Walk!Resource
<1>4. Tree /\ Tree'
  BY <1>2 DEF WalkInv, Tree
<1>5. WorldFacts
  BY <1>4, WorldSeen
<1>6. Seen'
  BY <1>2, <1>3, <1>5 DEF Seen, WorldFacts, Within
<1>7. p \in {"account", "user", "allUsers"} /\ x \in Place
  BY WalkAssumption DEF Walk!Principal, Place
<1>8. <<Item, Project>> \in Walk!World.links
  BY <1>5, WalkAssumption DEF WorldFacts, Lead, Place
<1>9. req' \in Ask /\ Walks(req') /\ Honest(req', ever')
  BY <1>1, <1>2, <1>7, <1>8, AskedWalks
<1>10. req'.pc = "parents"
  BY <1>1 DEF Walk!Asked
<1>11. Walk!RevokedStaysOut'
  BY <1>10 DEF Walk!RevokedStaysOut
<1> QED
  BY <1>2, <1>4, <1>6, <1>9, <1>11 DEF WalkInv

\* A read of an evaluation leaves what it reads.
LEMMA GoesKeepsViews ==
  ASSUME WalkInv, NEW q, Walk!Goes(q)
  PROVE  Tree' /\ Seen' /\ req' = q /\ ever' = ever /\ always' = always
<1>1. /\ req' = q
      /\ UNCHANGED <<parent, policies, granting, clock, ever, always>>
  BY DEF Walk!Goes
<1>2. Walk!World' = Walk!World
  BY <1>1 DEF Walk!World, Walk!Resource
<1>3. Tree' /\ Seen'
  BY <1>1, <1>2 DEF WalkInv, Tree, Seen, Within, View
<1> QED
  BY <1>1, <1>3

LEMMA GoesKeepsWalk ==
  ASSUME WalkInv, NEW q, Walk!Goes(q), q \in Ask, Walks(q), Honest(q, ever), q.pc # "allowed"
  PROVE  WalkInv'
<1>1. Tree' /\ Seen' /\ req' = q /\ ever' = ever
  BY GoesKeepsViews
<1>2. req' \in Ask /\ Walks(req') /\ Honest(req', ever')
  BY <1>1
<1>3. Walk!RevokedStaysOut'
  BY <1>1 DEF Walk!RevokedStaysOut
<1> QED
  BY <1>1, <1>2, <1>3 DEF WalkInv

\* The level above the last one that the walk met.
Up(r) == Walk!CRMParent(r.chain[Len(r.chain)])

\* What ReadParent makes of the evaluation.
Climbs(r, q) ==
  \/ /\ q = [r EXCEPT !.pc = IF Up(r) # Org THEN "parents" ELSE "policy",
                      !.chain = Append(@, Up(r)), !.reads = @ + 1]
     /\ Up(r) # None /\ r.reads < MaxDepth
     /\ \A i \in Positions(r) : Up(r) # r.chain[i]
  \/ /\ q = [r EXCEPT !.pc = "policy", !.reads = @ + 1]
     /\ Up(r) = None \/ ~(r.reads < MaxDepth) \/ \E i \in Positions(r) : Up(r) = r.chain[i]

LEMMA ParentRead ==
  ASSUME WalkInv, Walk!ReadParent
  PROVE  req.pc = "parents" /\ \E q : Walk!Goes(q) /\ Climbs(req, q)
<1>1. req.chain \in Seq(Place) /\ Len(req.chain) >= 1
  BY DEF WalkInv, Ask, Walks
<1>2. Walk!Last(req.chain) = req.chain[Len(req.chain)]
  BY DEF Walk!Last
<1>3. Walk!Range(req.chain) = {req.chain[i] : i \in Positions(req)}
  BY <1>1 DEF Walk!Range, Positions
<1> DEFINE more == req.reads < MaxDepth /\ Up(req) # None /\ Up(req) \notin Walk!Range(req.chain)
           q == [req EXCEPT !.pc = IF more /\ Up(req) # Org THEN "parents" ELSE "policy",
                            !.chain = IF more THEN Append(@, Up(req)) ELSE @,
                            !.reads = @ + 1]
<1>4. req.pc = "parents" /\ Walk!Goes(q)
  BY <1>2 DEF Walk!ReadParent, Up
<1>5. CASE more
  <2>1. q = [req EXCEPT !.pc = IF Up(req) # Org THEN "parents" ELSE "policy",
                        !.chain = Append(@, Up(req)), !.reads = @ + 1]
    BY <1>5
  <2> QED
    BY <1>3, <1>4, <1>5, <2>1 DEF Climbs
<1>6. CASE ~more
  <2>1. q = [req EXCEPT !.pc = "policy", !.reads = @ + 1]
    BY <1>6 DEF WalkInv, Ask
  <2> QED
    BY <1>3, <1>4, <1>6, <2>1 DEF Climbs
<1> QED
  BY <1>5, <1>6

LEMMA ReadParentKeepsWalk ==
  ASSUME WalkInv, Walk!ReadParent
  PROVE  WalkInv'
<1>1. PICK q : Walk!Goes(q) /\ Climbs(req, q)
  BY ParentRead
<1>2. PICK r : r = req
  OBVIOUS
<1>3. r \in Ask /\ Walks(r) /\ Honest(r, ever) /\ r.pc = "parents" /\ Climbs(r, q)
  BY <1>1, <1>2, ParentRead DEF WalkInv
<1>4. r.chain \in Seq(Place) /\ Len(r.chain) \in Nat /\ Len(r.chain) >= 1 /\ r.next = 1
  BY <1>3 DEF Ask, Walks
<1>5. CASE q = [r EXCEPT !.pc = "policy", !.reads = @ + 1]
  <2>1. /\ q.pc = "policy" /\ q.chain = r.chain /\ q.next = r.next /\ q.left = r.left
        /\ q.resource = r.resource /\ q.principal = r.principal /\ q \in Ask
    <3>1. r.reads + 1 \in Nat
      BY <1>3 DEF Ask
    <3> QED
      BY <1>3, <1>5, <3>1 DEF Ask
  <2>2. Walks(q) /\ Honest(q, ever)
    BY <1>3, <2>1 DEF Walks, Honest, AtHand, Positions
  <2> QED
    BY <1>1, <2>1, <2>2, GoesKeepsWalk
<1>6. CASE /\ q = [r EXCEPT !.pc = IF Up(r) # Org THEN "parents" ELSE "policy",
                            !.chain = Append(@, Up(r)), !.reads = @ + 1]
           /\ Up(r) # None
  <2>1. PICK last : last = r.chain[Len(r.chain)]
    OBVIOUS
  <2>2. last \in Place /\ last # Item /\ Up(r) = Walk!CRMParent(last) /\ Lead(last) = Up(r)
    BY <1>3, <1>4, <2>1 DEF Walks, Up, Lead
  <2>3. Up(r) \in Folder \cup {Org}
    BY <1>6, <2>2, WalkAssumption DEF WalkInv, Tree, Walk!CRMParent, Place
  <2>4. <<last, Up(r)>> \in ever.links
    BY <1>6, <2>2, WorldSeen DEF WalkInv, WorldFacts, Seen, Within
  <2>5. last \in Walk!Above(ever.links, r.resource)
    BY <1>3, <1>4, <2>1 DEF Honest, Positions
  <2>6. Up(r) \in Walk!Above(ever.links, r.resource)
    BY <2>3, <2>4, <2>5, AboveStep DEF Place
  <2>7. PICK c : c = Append(r.chain, Up(r))
    OBVIOUS
  <2>8. /\ c \in Seq(Place) /\ Len(c) = Len(r.chain) + 1 /\ c[Len(c)] = Up(r)
        /\ \A i \in 1..Len(r.chain) : c[i] = r.chain[i]
    BY <1>4, <2>3, <2>7 DEF Place
  <2>9. /\ q.pc \in {"parents", "policy"} /\ q.chain = c /\ q.next = 1 /\ q.left = r.left
        /\ q.resource = r.resource /\ q.principal = r.principal /\ q.reads = r.reads + 1
        /\ q \in Ask
    <3>1. r.reads + 1 \in Nat /\ r.reads \in Nat
      BY <1>3 DEF Ask
    <3> QED
      BY <1>3, <1>4, <1>6, <2>7, <2>8, <3>1 DEF Ask
  <2>10. Walks(q)
    BY <1>3, <1>4, <2>3, <2>8, <2>9, WalkAssumption DEF Walks, AtHand
  <2>11. Honest(q, ever)
    BY <1>3, <1>4, <2>6, <2>8, <2>9 DEF Honest, AtHand, Positions
  <2> QED
    BY <1>1, <2>9, <2>10, <2>11, GoesKeepsWalk
<1> QED
  BY <1>3, <1>5, <1>6 DEF Climbs

\* What the later reads make of the evaluation.
Opens(r, q) ==
  /\ r.pc = "policy"
  /\ \/ r.next > Len(r.chain) /\ q = [r EXCEPT !.pc = "denied"]
     \/ /\ r.next \in Positions(r)
        /\ q = [r EXCEPT !.pc = "binding", !.left = policies[r.chain[r.next]], !.next = @ + 1]

Passes(r, q) == q = [r EXCEPT !.pc = "binding", !.left = Tail(@)]
Admits(r, q) == q = [r EXCEPT !.pc = "allowed", !.left = <<>>]

\* The binding at hand serves the principal now.
Serves(r, b) == Walk!memberIn(b, r.principal) /\ Walk!conditionAllows(b)

Tries(r, q) ==
  /\ r.pc = "binding"
  /\ \/ r.left = <<>> /\ q = [r EXCEPT !.pc = "policy"]
     \/ /\ r.left # <<>> /\ Passes(r, q)
        /\ ~Serves(r, r.left[1]) \/ r.left[1].role \notin {Custom, "basic"}
     \/ /\ r.left # <<>> /\ q = [r EXCEPT !.pc = "role"]
        /\ Serves(r, r.left[1]) /\ r.left[1].role = Custom
     \/ /\ r.left # <<>> /\ Admits(r, q)
        /\ Serves(r, r.left[1]) /\ r.left[1].role = "basic"

AsksRole(r, q) ==
  /\ r.pc = "role"
  /\ (granting /\ Admits(r, q)) \/ (~granting /\ Passes(r, q))

LEMMA LaterReads ==
  ASSUME WalkInv
  PROVE  /\ Walk!ReadPolicy => \E q : Walk!Goes(q) /\ Opens(req, q)
         /\ Walk!TryBinding => \E q : Walk!Goes(q) /\ Tries(req, q)
         /\ Walk!ReadRole => \E q : Walk!Goes(q) /\ AsksRole(req, q)
<1>1. ASSUME Walk!ReadPolicy
      PROVE  \E q : Walk!Goes(q) /\ Opens(req, q)
  <2>1. req.next \in Nat \ {0} /\ Len(req.chain) \in Nat
    BY DEF WalkInv, Ask
  <2>2. CASE req.next > Len(req.chain)
    BY <1>1, <2>2 DEF Walk!ReadPolicy, Opens
  <2>3. CASE ~(req.next > Len(req.chain))
    <3>1. req.next \in Positions(req)
      BY <2>1, <2>3 DEF Positions
    <3> QED
      BY <1>1, <2>3, <3>1 DEF Walk!ReadPolicy, Opens
  <2> QED
    BY <2>2, <2>3
<1>2. ASSUME Walk!TryBinding
      PROVE  \E q : Walk!Goes(q) /\ Tries(req, q)
  <2>1. req.pc = "binding"
    BY <1>2 DEF Walk!TryBinding
  <2>2. CASE req.left = <<>>
    BY <1>2, <2>2, <2>1 DEF Walk!TryBinding, Tries
  <2>3. CASE req.left # <<>>
    <3>1. Head(req.left) = req.left[1]
      BY <2>3 DEF WalkInv, Ask
    <3>2. CASE ~Serves(req, req.left[1])
      BY <1>2, <2>1, <2>3, <3>1, <3>2 DEF Walk!TryBinding, Walk!Refuse, Tries, Passes, Serves
    <3>3. CASE Serves(req, req.left[1])
      BY <1>2, <2>1, <2>3, <3>1, <3>3
         DEF Walk!TryBinding, Walk!Refuse, Walk!Allow, Tries, Passes, Admits, Serves
    <3> QED
      BY <3>2, <3>3
  <2> QED
    BY <2>2, <2>3
<1>3. ASSUME Walk!ReadRole
      PROVE  \E q : Walk!Goes(q) /\ AsksRole(req, q)
  <2>1. CASE granting
    BY <1>3, <2>1 DEF Walk!ReadRole, Walk!Allow, AsksRole, Admits
  <2>2. CASE ~granting
    BY <1>3, <2>2 DEF Walk!ReadRole, Walk!Refuse, AsksRole, Passes
  <2> QED
    BY <2>1, <2>2
<1> QED
  BY <1>1, <1>2, <1>3

LEMMA PassesKeepsWalk ==
  ASSUME WalkInv, NEW q, Walk!Goes(q), Passes(req, q), AtHand(req), req.left # <<>>
  PROVE  WalkInv' /\ q \in Ask /\ Len(q.left) = Len(req.left) - 1
         /\ \A i \in 1..Len(q.left) : q.left[i] = req.left[i + 1]
<1>1. PICK r : r = req
  OBVIOUS
<1>2. r \in Ask /\ Walks(r) /\ Honest(r, ever) /\ Passes(r, q) /\ AtHand(r) /\ r.left # <<>>
  BY <1>1 DEF WalkInv
<1>3. PICK t : t = Tail(r.left)
  OBVIOUS
<1>4. r.left \in Seq(Binding) /\ r.left # <<>>
  BY <1>2 DEF Ask
<1>5. t \in Seq(Binding) /\ Len(t) = Len(r.left) - 1 /\ \A i \in 1..Len(t) : t[i] = r.left[i + 1]
  BY <1>3, <1>4
<1>6. /\ q.pc = "binding" /\ q.left = t /\ q.chain = r.chain /\ q.next = r.next
      /\ q.resource = r.resource /\ q.principal = r.principal /\ q \in Ask
  BY <1>2, <1>3, <1>5 DEF Passes, Ask
<1>7. Walks(q)
  BY <1>2, <1>6 DEF Walks, AtHand, Positions
<1>8. Honest(q, ever)
  <2>1. \A i \in 1..Len(t) : i + 1 \in 1..Len(r.left)
    BY <1>4, <1>5
  <2> QED
    BY <1>2, <1>5, <1>6, <2>1 DEF Honest, AtHand, Positions
<1> QED
  BY <1>1, <1>5, <1>6, <1>7, <1>8, GoesKeepsWalk

\* A binding of a policy that was met, for the principal, under a condition that held,
\* for a role that granted the permission.
LEMMA AdmitsKeepsWalk ==
  ASSUME WalkInv, NEW q, Walk!Goes(q), Admits(req, q), AtHand(req), req.left # <<>>,
         req.left[1].member \in Walk!Stands(req.principal),
         req.left[1].role \in ever.roles, req.left[1].until \in ever.open
  PROVE  WalkInv'
<1>1. PICK r : r = req
  OBVIOUS
<1>2. r \in Ask /\ Walks(r) /\ Honest(r, ever) /\ Admits(r, q) /\ AtHand(r) /\ r.left # <<>>
  BY <1>1 DEF WalkInv
<1>3. /\ q.pc = "allowed" /\ q.left = <<>> /\ q.chain = r.chain /\ q.next = r.next
      /\ q.resource = r.resource /\ q.principal = r.principal /\ q \in Ask
  <2>1. <<>> \in Seq(Binding)
    OBVIOUS
  <2>2. q = [r EXCEPT !.pc = "allowed", !.left = <<>>] /\ r \in Ask
    BY <1>2 DEF Admits
  <2> QED
    BY <2>1, <2>2 DEF Ask
<1>4. Walks(q) /\ Honest(q, ever)
  BY <1>2, <1>3 DEF Walks, Honest, AtHand, Positions
<1>5. Tree' /\ Seen' /\ req' = q /\ ever' = ever
  BY GoesKeepsViews
<1>6. r.left \in Seq(Binding) /\ 1 \in 1..Len(r.left)
  BY <1>2 DEF Ask
<1>7. PICK x : x = <<r.chain[r.next - 1], r.left[1]>>
  OBVIOUS
<1>8. x \in ever.bound /\ x[1] \in Walk!Above(ever.links, r.resource) /\ x[2] = r.left[1]
  BY <1>2, <1>6, <1>7 DEF Honest, Walks
<1>9. Walk!RevokedStaysOut'
  BY <1>1, <1>3, <1>5, <1>8 DEF Walk!RevokedStaysOut, Walk!Grants
<1> QED
  BY <1>3, <1>4, <1>5, <1>9 DEF WalkInv

LEMMA ReadPolicyKeepsWalk ==
  ASSUME WalkInv, Walk!ReadPolicy
  PROVE  WalkInv'
<1>1. PICK q : Walk!Goes(q) /\ Opens(req, q)
  BY LaterReads
<1>2. PICK r : r = req
  OBVIOUS
<1>3. r \in Ask /\ Walks(r) /\ Honest(r, ever) /\ Opens(r, q) /\ r.pc = "policy"
  BY <1>1, <1>2 DEF WalkInv, Opens
<1>4. CASE q = [r EXCEPT !.pc = "denied"]
  <2>1. /\ q.pc = "denied" /\ q.chain = r.chain /\ q.next = r.next /\ q.left = r.left
        /\ q.resource = r.resource /\ q.principal = r.principal /\ q \in Ask
    BY <1>3, <1>4 DEF Ask
  <2>2. Walks(q) /\ Honest(q, ever)
    BY <1>3, <2>1 DEF Walks, Honest, AtHand, Positions
  <2> QED
    BY <1>1, <2>1, <2>2, GoesKeepsWalk
<1>5. CASE /\ r.next \in Positions(r)
           /\ q = [r EXCEPT !.pc = "binding", !.left = policies[r.chain[r.next]], !.next = @ + 1]
  <2>1. PICK x : x = r.chain[r.next]
    OBVIOUS
  <2>2. x \in Place
    BY <1>3, <1>5, <2>1 DEF Ask, Positions
  <2>3. policies[x] \in Seq(Binding)
    BY <2>2, WalkAssumption DEF WalkInv, Tree
  <2>4. \A i \in 1..Len(policies[x]) : <<x, policies[x][i]>> \in ever.bound
    BY <2>2, WorldSeen DEF WalkInv, WorldFacts, Seen, Within
  <2>5. r.next \in Nat \ {0} /\ r.next + 1 \in Nat \ {0} /\ (r.next + 1) - 1 = r.next
    BY <1>3 DEF Ask
  <2>6. /\ q.pc = "binding" /\ q.chain = r.chain /\ q.next = r.next + 1 /\ q.left = policies[x]
        /\ q.resource = r.resource /\ q.principal = r.principal /\ q \in Ask
    BY <1>3, <1>5, <2>1, <2>3, <2>5 DEF Ask
  <2>7. Walks(q)
    BY <1>3, <1>5, <2>5, <2>6 DEF Walks, AtHand, Positions
  <2>8. Honest(q, ever)
    BY <1>3, <2>1, <2>4, <2>5, <2>6 DEF Honest, AtHand, Positions
  <2> QED
    BY <1>1, <2>6, <2>7, <2>8, GoesKeepsWalk
<1> QED
  BY <1>3, <1>4, <1>5 DEF Opens

LEMMA ServesNow ==
  ASSUME WalkInv, NEW b \in Binding
  PROVE  Serves(req, b) <=> b.member \in Walk!Stands(req.principal) /\ b.until \in Walk!World.open
<1>1. b.until \in 1..MaxTime + 1
  BY DEF Binding
<1>2. Walk!conditionAllows(b) <=> b.until \in Walk!World.open
  BY <1>1, WorldSeen DEF WalkInv, WorldFacts, Walk!conditionAllows
<1>3. req.principal \in {"account", "user", "allUsers"}
  BY DEF WalkInv, Ask
<1>4. Walk!memberIn(b, req.principal) <=> b.member \in Walk!Stands(req.principal)
  BY <1>3 DEF Walk!memberIn, Walk!Stands
<1> QED
  BY <1>2, <1>4 DEF Serves

LEMMA TryBindingKeepsWalk ==
  ASSUME WalkInv, Walk!TryBinding
  PROVE  WalkInv'
<1>1. PICK q : Walk!Goes(q) /\ Tries(req, q)
  BY LaterReads
<1>2. PICK r : r = req
  OBVIOUS
<1>3. r \in Ask /\ Walks(r) /\ Honest(r, ever) /\ Tries(r, q) /\ r.pc = "binding"
  BY <1>1, <1>2 DEF WalkInv, Tries
<1>4. CASE q = [r EXCEPT !.pc = "policy"]
  <2>1. /\ q.pc = "policy" /\ q.chain = r.chain /\ q.next = r.next /\ q.left = r.left
        /\ q.resource = r.resource /\ q.principal = r.principal /\ q \in Ask
    BY <1>3, <1>4 DEF Ask
  <2>2. Walks(q) /\ Honest(q, ever)
    BY <1>3, <2>1 DEF Walks, Honest, AtHand, Positions
  <2> QED
    BY <1>1, <2>1, <2>2, GoesKeepsWalk
<1>5. CASE r.left # <<>> /\ Passes(r, q)
  BY <1>1, <1>2, <1>3, <1>5, PassesKeepsWalk DEF AtHand
<1>6. ASSUME r.left # <<>>, Serves(r, r.left[1])
      PROVE  r.left[1].member \in Walk!Stands(r.principal) /\ r.left[1].until \in ever.open
  <2>1. r.left[1] \in Binding
    BY <1>3, <1>6 DEF Ask
  <2> QED
    BY <1>2, <1>6, <2>1, ServesNow DEF WalkInv, Seen, Within
<1>7. CASE /\ q = [r EXCEPT !.pc = "role"]
           /\ r.left # <<>> /\ Serves(r, r.left[1]) /\ r.left[1].role = Custom
  <2>1. /\ q.pc = "role" /\ q.chain = r.chain /\ q.next = r.next /\ q.left = r.left
        /\ q.resource = r.resource /\ q.principal = r.principal /\ q \in Ask
    BY <1>3, <1>7 DEF Ask
  <2>2. Walks(q)
    BY <1>3, <1>7, <2>1 DEF Walks, AtHand, Positions
  <2>3. Honest(q, ever)
    BY <1>3, <1>6, <1>7, <2>1 DEF Honest, AtHand, Positions
  <2> QED
    BY <1>1, <2>1, <2>2, <2>3, GoesKeepsWalk
<1>8. CASE r.left # <<>> /\ Admits(r, q) /\ Serves(r, r.left[1]) /\ r.left[1].role = "basic"
  <2>1. "basic" \in ever.roles
    BY WorldSeen DEF WalkInv, WorldFacts, Seen, Within
  <2> QED
    BY <1>1, <1>2, <1>3, <1>6, <1>8, <2>1, AdmitsKeepsWalk DEF AtHand
<1> QED
  BY <1>3, <1>4, <1>5, <1>7, <1>8 DEF Tries

LEMMA ReadRoleKeepsWalk ==
  ASSUME WalkInv, Walk!ReadRole
  PROVE  WalkInv'
<1>1. PICK q : Walk!Goes(q) /\ AsksRole(req, q)
  BY LaterReads
<1>2. /\ AtHand(req) /\ req.left # <<>> /\ req.left[1].role = Custom
      /\ req.left[1].member \in Walk!Stands(req.principal) /\ req.left[1].until \in ever.open
  BY <1>1 DEF WalkInv, AsksRole, AtHand, Walks, Honest
<1>3. CASE granting /\ Admits(req, q)
  <2>1. Custom \in ever.roles
    BY <1>3, WorldSeen DEF WalkInv, WorldFacts, Seen, Within
  <2> QED
    BY <1>1, <1>2, <1>3, <2>1, AdmitsKeepsWalk
<1>4. CASE Passes(req, q)
  BY <1>1, <1>2, <1>4, PassesKeepsWalk
<1> QED
  BY <1>1, <1>3, <1>4 DEF AsksRole

LEMMA WalkInit == Evaluating => WalkInv
<1> SUFFICES ASSUME Evaluating PROVE WalkInv
  OBVIOUS
<1>1. Walk!Init
  BY DEF Evaluating
<1>2. Tree /\ ever = Walk!World /\ always = Walk!World
  BY <1>1, Places, WalkAssumption DEF Walk!Init, Tree
<1>3. WorldFacts
  BY <1>2, WorldSeen
<1>4. Seen
  BY <1>2, <1>3 DEF Seen, WorldFacts, Within
<1>5. PICK p \in Walk!Principal, x \in Asks : req = Walk!Asked(p, x)
  BY <1>1 DEF Walk!Init
<1>6. p \in {"account", "user", "allUsers"} /\ x \in Place
  BY WalkAssumption DEF Walk!Principal, Place
<1>7. <<Item, Project>> \in ever.links
  BY <1>2, <1>3, WalkAssumption DEF WorldFacts, Lead, Place
<1>8. req \in Ask /\ Walks(req) /\ Honest(req, ever)
  BY <1>5, <1>6, <1>7, AskedWalks
<1>9. Walk!RevokedStaysOut
  BY <1>5 DEF Walk!RevokedStaysOut, Walk!Asked
<1> QED
  BY <1>2, <1>4, <1>8, <1>9 DEF WalkInv

LEMMA WalkStep ==
  ASSUME WalkInv, Walk!Next
  PROVE  WalkInv'
BY EvaluateKeepsWalk, ReadParentKeepsWalk, ReadPolicyKeepsWalk, TryBindingKeepsWalk,
   ReadRoleKeepsWalk, ChangeKeepsWalk DEF Walk!Next

-----------------------------------------------------------------------------
(***************************************************************************)
(* What holds all the time is not missed.                                  *)
(***************************************************************************)
\* There are no more folders than a walk may read: a chain met while folders move
\* may be made of any of them.
Shallow == IsFiniteSet(Folder) /\ Cardinality(Folder) <= MaxDepth /\ MaxDepth >= 1

Met(r) == {r.chain[i] : i \in Positions(r)}

\* A walk that goes on stands where it began, or has met a folder with every read.
Climbing(r) ==
  \/ r.chain[Len(r.chain)] \in {Org, Project} /\ r.reads = 0
  \/ Met(r) \subseteq Folder /\ Cardinality(Met(r)) = r.reads + 1

\* What a view links to a resource that was met was met next, or the walk was in a cycle.
Connected(r, v) ==
  /\ \A i \in Positions(r) : i < Len(r.chain) =>
       \A y \in Place : <<r.chain[i], y>> \in v.links => y = r.chain[i + 1]
  /\ r.pc # "parents" => \A y \in Place : <<r.chain[Len(r.chain)], y>> \in v.links => y \in Met(r)

Due(r, v, b) == b.member \in Walk!Stands(r.principal) /\ b.role \in v.roles /\ b.until \in v.open

\* A binding that would serve is not passed: it is still to be read or at hand.
Unpassed(r, v) ==
  \A j \in Positions(r) : \A b \in Binding :
    j < r.next /\ <<r.chain[j], b>> \in v.bound /\ Due(r, v, b)
      => AtHand(r) /\ j = r.next - 1 /\ \E i \in 1..Len(r.left) : b = r.left[i]

Steady(r, v) ==
  /\ r.pc = "parents" => Climbing(r)
  /\ Connected(r, v)
  /\ r.pc # "allowed" => Unpassed(r, v)
  /\ r.pc = "denied" => r.next > Len(r.chain)

LEMMA SteadyShrinks ==
  ASSUME NEW r, NEW v, NEW w, Within(w, v), Steady(r, v)
  PROVE  Steady(r, w)
<1>1. Connected(r, w)
  BY DEF Steady, Connected, Within
<1>2. \A b : Due(r, w, b) => Due(r, v, b)
  BY DEF Due, Within
<1>3. Unpassed(r, v) => Unpassed(r, w)
  BY <1>2 DEF Unpassed, Within
<1> QED
  BY <1>1, <1>3 DEF Steady

LEMMA AskedSteady ==
  ASSUME Tree, NEW p, NEW x \in Place
  PROVE  Steady(Walk!Asked(p, x), Walk!World)
<1> DEFINE q == Walk!Asked(p, x)
<1>1. PICK c : c = Walk!resourcePolicyChain(x)
  OBVIOUS
<1>2. /\ q.chain = c /\ q.pc = "parents" /\ q.next = 1 /\ q.reads = 0
  BY <1>1 DEF Walk!Asked
<1>3. CASE x = Item
  <2>1. c = <<Item, Project>>
    BY <1>1, <1>3 DEF Walk!resourcePolicyChain
  <2>2. \A y : <<Item, y>> \in Walk!World.links => y = Project
    BY WorldSeen DEF WorldFacts, Place, Lead
  <2> QED
    BY <1>2, <2>1, <2>2 DEF Steady, Climbing, Connected, Unpassed, Positions
<1>4. CASE x # Item
  <2>1. c = <<x>>
    BY <1>1, <1>4 DEF Walk!resourcePolicyChain
  <2>2. Met(q) = {x} /\ Cardinality({x}) = 1
    BY <1>2, <2>1, FS_Singleton DEF Met, Positions
  <2>3. Climbing(q)
    <3>1. CASE x \in Folder
      BY <1>2, <2>2, <3>1 DEF Climbing
    <3>2. CASE x \in {Org, Project}
      BY <1>2, <2>1, <3>2 DEF Climbing
    <3> QED
      BY <1>4, <3>1, <3>2 DEF Place
  <2> QED
    BY <1>2, <2>1, <2>3 DEF Steady, Connected, Unpassed, Positions
<1> QED
  BY <1>3, <1>4

LEMMA ReadParentSteady ==
  ASSUME Shallow, WalkInv, Steady(req, always), Walk!ReadParent
  PROVE  Steady(req', always')
<1>1. PICK q : Walk!Goes(q) /\ Climbs(req, q)
  BY ParentRead
<1>2. PICK r : r = req
  OBVIOUS
<1>3. PICK v : v = always
  OBVIOUS
<1>4. /\ r \in Ask /\ Walks(r) /\ Steady(r, v) /\ r.pc = "parents" /\ Climbs(r, q)
      /\ req' = q /\ always' = v
  BY <1>1, <1>2, <1>3, ParentRead, GoesKeepsViews DEF WalkInv
<1>5. /\ r.chain \in Seq(Place) /\ Len(r.chain) \in Nat /\ Len(r.chain) >= 1
      /\ r.next = 1 /\ r.reads \in Nat
  BY <1>4 DEF Ask, Walks
<1>6. PICK last : last = r.chain[Len(r.chain)]
  OBVIOUS
<1>7. last \in Place /\ last # Item /\ Up(r) = Walk!CRMParent(last) /\ Lead(last) = Up(r)
  BY <1>4, <1>5, <1>6 DEF Walks, Up, Lead
<1>8. \A y : <<last, y>> \in v.links => y = Up(r) /\ Up(r) # None
  BY <1>3, <1>7, WorldSeen DEF WalkInv, WorldFacts, Seen, Within
<1>9. last \in Met(r)
  BY <1>5, <1>6 DEF Met, Positions
<1>10. CASE /\ q = [r EXCEPT !.pc = "policy", !.reads = @ + 1]
            /\ Up(r) = None \/ ~(r.reads < MaxDepth) \/ \E i \in Positions(r) : Up(r) = r.chain[i]
  <2>1. q.pc = "policy" /\ q.chain = r.chain /\ q.next = 1
    BY <1>4, <1>5, <1>10 DEF Ask
  <2>2. r.reads < MaxDepth
    <3>1. CASE last \in {Org, Project} /\ r.reads = 0
      BY <3>1, WalkAssumption DEF Shallow
    <3>2. CASE Met(r) \subseteq Folder /\ Cardinality(Met(r)) = r.reads + 1
      <4>1. Cardinality(Met(r)) <= Cardinality(Folder) /\ Cardinality(Folder) \in Nat
        BY <3>2, FS_Subset, FS_CardinalityType DEF Shallow
      <4> QED
        BY <1>5, <3>2, <4>1, WalkAssumption DEF Shallow
    <3> QED
      BY <1>4, <1>6, <3>1, <3>2 DEF Steady, Climbing
  <2>3. \A y : <<last, y>> \in v.links => y \in Met(r)
    BY <1>8, <1>10, <2>2 DEF Met
  <2>4. Connected(q, v)
    BY <1>4, <1>6, <2>1, <2>3 DEF Steady, Connected, Met, Positions
  <2>5. Unpassed(q, v)
    BY <1>5, <2>1 DEF Unpassed, Positions
  <2> QED
    BY <1>4, <2>1, <2>4, <2>5 DEF Steady
<1>11. CASE /\ q = [r EXCEPT !.pc = IF Up(r) # Org THEN "parents" ELSE "policy",
                             !.chain = Append(@, Up(r)), !.reads = @ + 1]
            /\ Up(r) # None /\ \A i \in Positions(r) : Up(r) # r.chain[i]
  <2>1. Up(r) \in Folder \cup {Org}
    BY <1>7, <1>11, WalkAssumption DEF WalkInv, Tree, Walk!CRMParent, Place
  <2>2. PICK c : c = Append(r.chain, Up(r))
    OBVIOUS
  <2>3. /\ c \in Seq(Place) /\ Len(c) = Len(r.chain) + 1 /\ c[Len(c)] = Up(r)
        /\ \A i \in 1..Len(r.chain) : c[i] = r.chain[i]
    BY <1>5, <2>1, <2>2 DEF Place
  <2>4. /\ q.pc = (IF Up(r) # Org THEN "parents" ELSE "policy") /\ q.chain = c /\ q.next = 1
        /\ q.reads = r.reads + 1
    BY <1>4, <1>5, <1>11, <2>2 DEF Ask
  <2>5. Met(q) = Met(r) \cup {Up(r)} /\ Up(r) \notin Met(r)
    BY <1>5, <1>11, <2>3, <2>4 DEF Met, Positions
  <2>6. q.pc = "parents" => Climbing(q)
    <3>1. SUFFICES ASSUME q.pc = "parents" PROVE Climbing(q)
      OBVIOUS
    <3>2. Up(r) \in Folder
      BY <2>1, <2>4, <3>1
    <3>3. last \notin {Org, Project}
      BY <1>7, <1>11, <3>2, WalkAssumption DEF Walk!CRMParent
    <3>4. Met(r) \subseteq Folder /\ Cardinality(Met(r)) = r.reads + 1
      BY <1>4, <1>6, <3>3 DEF Steady, Climbing
    <3>5. Cardinality(Met(q)) = r.reads + 1 + 1
      <4>1. IsFiniteSet(Met(r))
        BY <3>4, FS_Subset DEF Shallow
      <4> QED
        BY <2>5, <3>4, <4>1, FS_AddElement
    <3> QED
      BY <1>5, <2>4, <2>5, <3>2, <3>4, <3>5 DEF Climbing
  <2>7. Connected(q, v)
    <3>1. \A i \in Positions(q) : i < Len(q.chain) =>
            \A y \in Place : <<q.chain[i], y>> \in v.links => y = q.chain[i + 1]
      <4> SUFFICES ASSUME NEW i \in Positions(q), i < Len(q.chain), NEW y \in Place,
                          <<q.chain[i], y>> \in v.links
                   PROVE  y = q.chain[i + 1]
        OBVIOUS
      <4>1. i \in 1..Len(r.chain) /\ <<r.chain[i], y>> \in v.links /\ q.chain = c
        <5>1. q.chain = c /\ i \in 1..Len(c) /\ i < Len(c)
          BY <2>4 DEF Positions
        <5>2. i \in 1..Len(r.chain)
          BY <1>5, <2>3, <5>1
        <5> QED
          BY <2>3, <5>1, <5>2
      <4>2. CASE i < Len(r.chain)
        <5>1. y = r.chain[i + 1]
          BY <1>4, <4>1, <4>2 DEF Steady, Connected, Positions
        <5>2. i + 1 \in 1..Len(r.chain)
          BY <1>5, <4>1, <4>2
        <5> QED
          BY <2>3, <4>1, <5>1, <5>2
      <4>3. CASE i = Len(r.chain)
        BY <1>5, <1>6, <1>8, <2>3, <4>1, <4>3
      <4> QED
        BY <1>5, <4>1, <4>2, <4>3
    <3>2. q.pc # "parents" => \A y \in Place : <<Org, y>> \notin v.links
      <4>1. Lead(Org) = None
        BY WalkAssumption DEF Lead, Walk!CRMParent
      <4> QED
        BY <1>3, <4>1, WorldSeen DEF WalkInv, WorldFacts, Seen, Within, Place
    <3> QED
      BY <2>3, <2>4, <3>1, <3>2 DEF Connected
  <2>8. Unpassed(q, v)
    BY <2>3, <2>4 DEF Unpassed, Positions
  <2> QED
    BY <1>4, <2>4, <2>6, <2>7, <2>8 DEF Steady
<1> QED
  BY <1>4, <1>10, <1>11 DEF Climbs

\* A read that leaves the chain as it is.
LEMMA SteadyGoesOn ==
  ASSUME NEW r, NEW q, NEW v, Steady(r, v), q.chain = r.chain, r.pc # "parents", q.pc # "parents",
         q.pc = "denied" => q.next > Len(q.chain), q.pc # "allowed" => Unpassed(q, v)
  PROVE  Steady(q, v)
<1>1. Met(q) = Met(r) /\ Positions(q) = Positions(r)
  BY DEF Met, Positions
<1>2. Connected(q, v)
  BY <1>1 DEF Steady, Connected
<1> QED
  BY <1>2 DEF Steady

LEMMA ReadPolicySteady ==
  ASSUME WalkInv, Steady(req, always), Walk!ReadPolicy
  PROVE  Steady(req', always')
<1>1. PICK q : Walk!Goes(q) /\ Opens(req, q)
  BY LaterReads
<1>2. PICK r : r = req
  OBVIOUS
<1>3. PICK v : v = always
  OBVIOUS
<1>4. /\ r \in Ask /\ Walks(r) /\ Steady(r, v) /\ r.pc = "policy" /\ Opens(r, q)
      /\ req' = q /\ always' = v
  BY <1>1, <1>2, <1>3, GoesKeepsViews DEF WalkInv, Opens
<1>5. Unpassed(r, v) /\ ~AtHand(r)
  BY <1>4 DEF Steady, AtHand
<1>6. CASE r.next > Len(r.chain) /\ q = [r EXCEPT !.pc = "denied"]
  <2>1. q.pc = "denied" /\ q.chain = r.chain /\ q.next = r.next /\ q.principal = r.principal
    BY <1>4, <1>6 DEF Ask
  <2>2. Unpassed(q, v)
    BY <1>5, <2>1 DEF Unpassed, Positions, Due
  <2> QED
    BY <1>4, <1>6, <2>1, <2>2, SteadyGoesOn
<1>7. CASE /\ r.next \in Positions(r)
           /\ q = [r EXCEPT !.pc = "binding", !.left = policies[r.chain[r.next]], !.next = @ + 1]
  <2>1. PICK x : x = r.chain[r.next]
    OBVIOUS
  <2>2. r.next \in Nat /\ (r.next + 1) - 1 = r.next /\ x \in Place
    BY <1>4, <1>7, <2>1 DEF Ask, Positions
  <2>3. /\ q.pc = "binding" /\ q.chain = r.chain /\ q.next = r.next + 1 /\ q.left = policies[x]
        /\ q.principal = r.principal
    BY <1>4, <1>7, <2>1 DEF Ask
  <2>4. \A b : <<x, b>> \in v.bound => \E i \in 1..Len(q.left) : b = q.left[i]
    BY <1>3, <2>2, <2>3, WorldSeen DEF WalkInv, WorldFacts, Seen, Within
  <2>5. ASSUME NEW j \in Positions(r), NEW b \in Binding,
               j < q.next, <<r.chain[j], b>> \in v.bound, Due(r, v, b)
        PROVE  j = q.next - 1 /\ \E i \in 1..Len(q.left) : b = q.left[i]
    <3>1. j \in Nat
      BY DEF Positions
    <3>2. ~(j < r.next)
      BY <1>5, <2>5 DEF Unpassed
    <3>3. j = r.next
      BY <2>2, <2>3, <2>5, <3>1, <3>2
    <3> QED
      BY <2>1, <2>2, <2>3, <2>4, <2>5, <3>3
  <2>6. Unpassed(q, v)
    BY <2>3, <2>5 DEF Unpassed, Positions, Due, AtHand
  <2> QED
    BY <1>4, <2>3, <2>6, SteadyGoesOn
<1> QED
  BY <1>4, <1>6, <1>7 DEF Opens

LEMMA PassesSteady ==
  ASSUME WalkInv, NEW q, Walk!Goes(q), Passes(req, q), AtHand(req), req.left # <<>>,
         Steady(req, always), ~Due(req, always, req.left[1])
  PROVE  Steady(q, always)
<1>1. PICK r : r = req
  OBVIOUS
<1>2. PICK v : v = always
  OBVIOUS
<1>3. /\ r \in Ask /\ Steady(r, v) /\ Passes(r, q) /\ AtHand(r) /\ Unpassed(r, v)
      /\ r.pc # "parents" /\ ~Due(r, v, r.left[1])
  BY <1>1, <1>2 DEF WalkInv, Steady, AtHand
<1>4. Len(q.left) = Len(r.left) - 1 /\ \A i \in 1..Len(q.left) : q.left[i] = r.left[i + 1]
  BY <1>1, PassesKeepsWalk
<1>5. q.pc = "binding" /\ q.chain = r.chain /\ q.next = r.next /\ q.principal = r.principal
  BY <1>3 DEF Passes, Ask
<1>6. ASSUME NEW j \in Positions(r), NEW b \in Binding,
             j < r.next, <<r.chain[j], b>> \in v.bound, Due(r, v, b)
      PROVE  j = r.next - 1 /\ \E i \in 1..Len(q.left) : b = q.left[i]
  <2>1. PICK i \in 1..Len(r.left) : b = r.left[i]
    BY <1>3, <1>6 DEF Unpassed
  <2>2. i # 1
    BY <1>3, <1>6, <2>1
  <2>3. Len(r.left) \in Nat
    BY <1>3 DEF Ask
  <2>4. i - 1 \in 1..Len(q.left) /\ (i - 1) + 1 = i
    BY <1>4, <2>1, <2>2, <2>3
  <2>5. q.left[i - 1] = b
    BY <1>4, <2>1, <2>4
  <2> QED
    BY <1>3, <1>6, <2>4, <2>5 DEF Unpassed
<1>7. Unpassed(q, v)
  BY <1>5, <1>6 DEF Unpassed, Positions, Due, AtHand
<1> QED
  BY <1>2, <1>3, <1>5, <1>7, SteadyGoesOn

LEMMA TryBindingSteady ==
  ASSUME WalkInv, Steady(req, always), Walk!TryBinding
  PROVE  Steady(req', always')
<1>1. PICK q : Walk!Goes(q) /\ Tries(req, q)
  BY LaterReads
<1>2. PICK r : r = req
  OBVIOUS
<1>3. PICK v : v = always
  OBVIOUS
<1>4. /\ r \in Ask /\ Walks(r) /\ Steady(r, v) /\ r.pc = "binding" /\ Tries(r, q)
      /\ req' = q /\ always' = v
  BY <1>1, <1>2, <1>3, GoesKeepsViews DEF WalkInv, Tries
<1>5. Unpassed(r, v) /\ AtHand(r)
  BY <1>4 DEF Steady, AtHand
<1>6. CASE r.left = <<>> /\ q = [r EXCEPT !.pc = "policy"]
  <2>1. q.pc = "policy" /\ q.chain = r.chain /\ q.next = r.next /\ q.principal = r.principal
    BY <1>4, <1>6 DEF Ask
  <2>2. Len(r.left) = 0
    BY <1>6
  <2>3. Unpassed(q, v)
    BY <1>5, <2>1, <2>2 DEF Unpassed, Positions, Due
  <2> QED
    BY <1>4, <2>1, <2>3, SteadyGoesOn
<1>7. CASE /\ r.left # <<>> /\ Passes(r, q)
           /\ ~Serves(r, r.left[1]) \/ r.left[1].role \notin {Custom, "basic"}
  <2>1. r.left[1] \in Binding
    BY <1>4, <1>7 DEF Ask
  <2>2. v.open \subseteq Walk!World.open /\ v.roles \subseteq {"basic", Custom}
    BY <1>3 DEF WalkInv, Seen, Within, View
  <2>3. ~Due(r, v, r.left[1])
    BY <1>2, <1>7, <2>1, <2>2, ServesNow DEF Due
  <2> QED
    BY <1>1, <1>2, <1>3, <1>4, <1>5, <1>7, <2>3, PassesSteady
<1>8. CASE q = [r EXCEPT !.pc = "role"]
  <2>1. /\ q.pc = "role" /\ q.chain = r.chain /\ q.next = r.next /\ q.left = r.left
        /\ q.principal = r.principal
    BY <1>4, <1>8 DEF Ask
  <2>2. Unpassed(q, v)
    BY <1>5, <2>1 DEF Unpassed, Positions, Due, AtHand
  <2> QED
    BY <1>4, <2>1, <2>2, SteadyGoesOn
<1>9. CASE Admits(r, q)
  <2>1. q.pc = "allowed" /\ q.chain = r.chain
    BY <1>4, <1>9 DEF Admits, Ask
  <2> QED
    BY <1>4, <2>1, SteadyGoesOn
<1> QED
  BY <1>4, <1>6, <1>7, <1>8, <1>9 DEF Tries

LEMMA ReadRoleSteady ==
  ASSUME WalkInv, Steady(req, always), Walk!ReadRole
  PROVE  Steady(req', always')
<1>1. PICK q : Walk!Goes(q) /\ AsksRole(req, q)
  BY LaterReads
<1>2. req \in Ask /\ AtHand(req) /\ req.left # <<>> /\ req.left[1].role = Custom /\ req.pc = "role"
  BY <1>1 DEF WalkInv, AsksRole, AtHand, Walks
<1>3. req' = q /\ always' = always
  BY <1>1, GoesKeepsViews
<1>4. CASE Admits(req, q)
  <2>1. q.pc = "allowed" /\ q.chain = req.chain
    BY <1>2, <1>4 DEF Admits, Ask
  <2> QED
    BY <1>2, <1>3, <2>1, SteadyGoesOn
<1>5. CASE ~granting /\ Passes(req, q)
  <2>1. Custom \notin always.roles
    BY <1>5, WorldSeen DEF WalkInv, WorldFacts, Seen, Within
  <2>2. ~Due(req, always, req.left[1])
    BY <1>2, <2>1 DEF Due
  <2> QED
    BY <1>1, <1>2, <1>3, <1>5, <2>2, PassesSteady
<1> QED
  BY <1>1, <1>4, <1>5 DEF AsksRole

SteadyInv == WalkInv /\ Steady(req, always)

LEMMA SteadyInit == Evaluating => SteadyInv
<1> SUFFICES ASSUME Evaluating PROVE SteadyInv
  OBVIOUS
<1>1. PICK p \in Walk!Principal, x \in Asks : req = Walk!Asked(p, x) /\ always = Walk!World
  BY DEF Evaluating, Walk!Init
<1>2. x \in Place
  BY WalkAssumption DEF Place
<1>3. Steady(req, always)
  BY <1>1, <1>2, WalkInit, AskedSteady DEF WalkInv
<1> QED
  BY <1>3, WalkInit DEF SteadyInv

LEMMA SteadyStep ==
  ASSUME Shallow, SteadyInv, Walk!Next
  PROVE  SteadyInv'
<1> USE DEF SteadyInv
<1>1. WalkInv'
  BY WalkStep
<1>2. CASE Walk!Evaluate
  <2>1. PICK p \in Walk!Principal, x \in Asks : req' = Walk!Asked(p, x)
    BY <1>2 DEF Walk!Evaluate
  <2>2. always' = Walk!World /\ x \in Place
    BY <1>2, WalkAssumption DEF Walk!Evaluate, Place
  <2> QED
    BY <1>1, <2>1, <2>2, AskedSteady DEF WalkInv
<1>3. CASE Walk!MoveFolder \/ Walk!CreateFolder \/ Walk!PutIAMPolicyJSON
             \/ Walk!ChangeCustomRole \/ Walk!SetClock
  BY <1>1, <1>3, ChangeKeepsWalk, SteadyShrinks
<1> QED
  BY <1>1, <1>2, <1>3, ReadParentSteady, ReadPolicySteady, TryBindingSteady, ReadRoleSteady
     DEF Walk!Next

LEMMA UnchangedWalk ==
  ASSUME UNCHANGED walkVars
  PROVE  WalkInv' <=> WalkInv
<1>1. UNCHANGED <<parent, policies, granting, clock, req, ever, always>>
  BY DEF walkVars
<1>2. Walk!World' = Walk!World
  BY <1>1 DEF Walk!World, Walk!Resource
<1>3. Tree' <=> Tree
  BY <1>1 DEF Tree
<1>4. Seen' <=> Seen
  BY <1>1, <1>2 DEF Seen
<1>5. Walk!RevokedStaysOut' <=> Walk!RevokedStaysOut
  BY <1>1 DEF Walk!RevokedStaysOut, Walk!Grants
<1> QED
  BY <1>1, <1>3, <1>4, <1>5 DEF WalkInv

LEMMA SteadyFollows ==
  ASSUME SteadyInv
  PROVE  Walk!SteadyGrantFound
<1>1. SUFFICES ASSUME req.pc = "denied", Walk!Grants(always) PROVE FALSE
  BY DEF Walk!SteadyGrantFound
<1>2. PICK r : r = req
  OBVIOUS
<1>3. PICK v : v = always
  OBVIOUS
<1>4. r \in Ask /\ Walks(r) /\ Steady(r, v) /\ v \in View /\ r.pc = "denied"
  BY <1>1, <1>2, <1>3 DEF SteadyInv, WalkInv, Seen
<1>5. PICK x \in v.bound : x[1] \in Walk!Above(v.links, r.resource) /\ Due(r, v, x[2])
  BY <1>1, <1>2, <1>3 DEF Walk!Grants, Due
<1>6. /\ r.chain \in Seq(Place) /\ Len(r.chain) \in Nat
      /\ Met(r) \in SUBSET Place /\ r.resource \in Met(r)
  BY <1>4 DEF Ask, Walks, Met, Positions
<1>7. ASSUME NEW l \in v.links, l[1] \in Met(r)
      PROVE  l[2] \in Met(r)
  <2>1. l = <<l[1], l[2]>> /\ l[2] \in Place
    BY <1>4 DEF View
  <2>2. PICK i \in Positions(r) : l[1] = r.chain[i]
    BY <1>7 DEF Met
  <2>3. CASE i < Len(r.chain)
    <3>1. l[2] = r.chain[i + 1]
      BY <1>4, <2>1, <2>2, <2>3 DEF Steady, Connected
    <3>2. i + 1 \in Positions(r)
      BY <1>6, <2>3 DEF Positions
    <3> QED
      BY <3>1, <3>2 DEF Met
  <2>4. CASE i = Len(r.chain)
    BY <1>4, <2>1, <2>2, <2>4 DEF Steady, Connected
  <2> QED
    BY <1>6, <2>3, <2>4 DEF Positions
<1>8. x[1] \in Met(r)
  BY <1>5, <1>6, <1>7, AboveLeast
<1>9. x = <<x[1], x[2]>> /\ x[2] \in Binding
  BY <1>4, <1>5 DEF View
<1>10. PICK j \in Positions(r) : x[1] = r.chain[j]
  BY <1>8 DEF Met
<1>11. j < r.next
  BY <1>4, <1>6, <1>10 DEF Steady, Positions, Ask
<1> QED
  BY <1>4, <1>5, <1>9, <1>10, <1>11 DEF Steady, Unpassed, AtHand

-----------------------------------------------------------------------------
(***************************************************************************)
(* Theorems about the evaluation.                                          *)
(***************************************************************************)

\* What holds of every behaviour of the versions holds of them beside evaluations too.
THEOREM VersionsBesideWalks == MCSpec => Spec
<1>1. MCInit => Init
  BY DEF MCInit
<1>2. [MCNext]_<<vars, walkVars>> => [Next]_vars
  BY DEF MCNext
<1> QED
  BY <1>1, <1>2, PTL DEF MCSpec, Spec

\* Evaluate allows nobody without a binding, a role and a condition that each granted
\* the permission at some time since it began, on a resource that could be reached: what
\* was revoked before is not honoured, whatever moves and changes while it reads.
THEOREM RevokedIsOut == MCSpec => []RevokedStaysOut
<1> DEFINE I == IsEvaluating => WalkInv
<1>1. MCInit => I
  BY WalkInit DEF MCInit, Unevaluated, IsEvaluating
<1>2. I /\ [MCNext]_<<vars, walkVars>> => I'
  <2> SUFFICES ASSUME I, [MCNext]_<<vars, walkVars>> PROVE I'
    OBVIOUS
  <2>1. CASE IsEvaluating /\ Walk!Next
    BY <2>1, WalkStep
  <2>2. CASE UNCHANGED walkVars
    BY <2>2, UnchangedWalk DEF IsEvaluating, walkVars
  <2> QED
    BY <2>1, <2>2 DEF MCNext
<1>3. I => RevokedStaysOut
  BY DEF WalkInv, RevokedStaysOut
<1> QED
  BY <1>1, <1>2, <1>3, PTL DEF MCSpec

\* Where there are no more folders than policyChain reads levels, a grant that stays where
\* it is, on a resource that stays above the one asked for, is found, though folders may
\* be moved, even into a cycle, while the walk reads their parents.
THEOREM SteadyIsFound == Shallow => (MCSpec => []SteadyGrantFound)
<1> SUFFICES ASSUME Shallow PROVE MCSpec => []SteadyGrantFound
  OBVIOUS
<1> DEFINE I == IsEvaluating => SteadyInv
<1>1. MCInit => I
  BY SteadyInit DEF MCInit, Unevaluated, IsEvaluating
<1>2. I /\ [MCNext]_<<vars, walkVars>> => I'
  <2> SUFFICES ASSUME I, [MCNext]_<<vars, walkVars>> PROVE I'
    OBVIOUS
  <2>1. CASE IsEvaluating /\ Walk!Next
    BY <2>1, SteadyStep
  <2>2. CASE UNCHANGED walkVars
    BY <2>2, UnchangedWalk DEF IsEvaluating, SteadyInv, walkVars
  <2> QED
    BY <2>1, <2>2 DEF MCNext
<1>3. I => SteadyGrantFound
  BY SteadyFollows DEF SteadyGrantFound
<1> QED
  BY <1>1, <1>2, <1>3, PTL DEF MCSpec

=============================================================================
