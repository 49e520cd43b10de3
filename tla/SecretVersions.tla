--------------------------- MODULE SecretVersions ---------------------------
(***************************************************************************)
(* Secret Manager: the rows of secrets and secret_versions                 *)
(* (internal/store/secrets.go, internal/services/secretmanager).           *)
(*                                                                         *)
(* A version is named by its secret and a number, one more than the        *)
(* largest number stored when it was added.  Adding a version and changing *)
(* the state of one read first and write in a later statement; in between  *)
(* any handler may run, the whole secret may be deleted and created again, *)
(* and the process may stop.                                               *)
(***************************************************************************)
EXTENDS Integers, FiniteSetsExt

CONSTANTS
  Handler,      \* request goroutines
  Secret,       \* secret names
  Payload,      \* what clients store
  None,         \* no row, no version
  MaxVersion    \* bound: version numbers

VARIABLES
  secrets,      \* table secrets
  versions,     \* table secret_versions
  reg,          \* what each handler knows
  destroyed,    \* history: the stored versions that were destroyed
  turns         \* clients wait for a reply before any of them sends again

vars == <<secrets, versions, reg, destroyed, turns>>

Id      == Secret \X (1..MaxVersion)
Empty   == "empty"                        \* X'', the ciphertext of a destroyed version
State   == {"ENABLED", "DISABLED", "DESTROYED"}
Row     == [state : State, payload : Payload \cup {Empty}]

ASSUME ConstantsAssumption == MaxVersion \in Nat \ {0} /\ None \notin Row

Idle    == [pc |-> "idle", secret |-> None, id |-> None, payload |-> None, state |-> None]

At(h, pc)  == reg[h].pc = pc
Goto(h, r) == reg' = [reg EXCEPT ![h] = r]
Return(h)  == Goto(h, Idle)
Free(h)    == At(h, "idle") /\ (turns => \A i \in Handler : At(i, "idle"))

Numbers(s) == {n \in 1..MaxVersion : versions[<<s, n>>] # None}
Largest(s) == IF Numbers(s) = {} THEN 0 ELSE Max(Numbers(s))

Init ==
  /\ secrets   = {}
  /\ versions  = [i \in Id |-> None]
  /\ reg       = [h \in Handler |-> Idle]
  /\ destroyed = {}
  /\ turns \in BOOLEAN

\* INSERT OR IGNORE: creating a secret that exists leaves it alone.
CreateSecret(s) ==
  /\ turns => \A h \in Handler : At(h, "idle")
  /\ secrets' = secrets \cup {s}
  /\ UNCHANGED <<versions, reg, destroyed, turns>>

\* Mutant: the versions stay.
DeleteSecretOnly(s) ==
  /\ turns => \A h \in Handler : At(h, "idle")
  /\ s \in secrets
  /\ secrets' = secrets \ {s}
  /\ UNCHANGED <<versions, reg, destroyed, turns>>

\* One transaction removes the versions and the secret.
DeleteSecret(s) ==
  /\ turns => \A h \in Handler : At(h, "idle")
  /\ s \in secrets
  /\ secrets' = secrets \ {s}
  /\ versions' = [i \in Id |-> IF i[1] = s THEN None ELSE versions[i]]
  /\ destroyed' = {i \in destroyed : i[1] # s}
  /\ UNCHANGED <<reg, turns>>

(***************************************************************************)
(* AddSecretVersion: GetSecret, SELECT MAX, INSERT.                        *)
(***************************************************************************)
AddSecretVersion(h, s, p) ==
  /\ Free(h)
  /\ s \in secrets
  /\ Goto(h, [Idle EXCEPT !.pc = "number", !.secret = s, !.payload = p])
  /\ UNCHANGED <<secrets, versions, destroyed, turns>>

\* RotateSecretTheatre: GetSecret, then, for a request without a payload,
\* GetSecretVersion of "latest".  An enabled latest version is repeated;
\* unsealing an empty ciphertext fails.
RotateSecret(h, s, p) ==
  /\ Free(h)
  /\ s \in secrets
  /\ Goto(h, [Idle EXCEPT !.pc = IF p = None THEN "latest" ELSE "add", !.secret = s, !.payload = p])
  /\ UNCHANGED <<secrets, versions, destroyed, turns>>

RotateReads(h, rotated) ==
  /\ At(h, "latest")
  /\ LET s    == reg[h].secret
         n    == Largest(s)
         last == versions[<<s, n>>]
     IN  IF n = 0 THEN Goto(h, [reg[h] EXCEPT !.pc = "add", !.payload = rotated])
         ELSE IF last.state # "ENABLED" THEN Goto(h, [reg[h] EXCEPT !.pc = "add", !.payload = rotated])
         ELSE IF last.payload = Empty THEN Return(h)
         ELSE Goto(h, [reg[h] EXCEPT !.pc = "add", !.payload = last.payload])
  /\ UNCHANGED <<secrets, versions, destroyed, turns>>

\* Its call of AddSecretVersion reads the secret again.
RotateAdds(h) ==
  /\ At(h, "add")
  /\ IF reg[h].secret \in secrets THEN Goto(h, [reg[h] EXCEPT !.pc = "number"]) ELSE Return(h)
  /\ UNCHANGED <<secrets, versions, destroyed, turns>>

\* Mutant: the number of the latest version.
NextNumberLargest(h) ==
  /\ At(h, "number")
  /\ Goto(h, [reg[h] EXCEPT !.pc = "insert", !.id = <<reg[h].secret, Largest(reg[h].secret)>>])
  /\ UNCHANGED <<secrets, versions, destroyed, turns>>

NextNumber(h) ==
  /\ At(h, "number")
  /\ Largest(reg[h].secret) < MaxVersion
  /\ Goto(h, [reg[h] EXCEPT !.pc = "insert", !.id = <<reg[h].secret, Largest(reg[h].secret) + 1>>])
  /\ UNCHANGED <<secrets, versions, destroyed, turns>>

\* Mutant: INSERT OR REPLACE.
InsertVersionReplaces(h) ==
  /\ At(h, "insert")
  /\ versions' = [versions EXCEPT ![reg[h].id] = [state |-> "ENABLED", payload |-> reg[h].payload]]
  /\ Return(h)
  /\ UNCHANGED <<secrets, destroyed, turns>>

\* The name is the primary key: the INSERT fails if the number is taken.
InsertVersion(h) ==
  /\ At(h, "insert")
  /\ versions' = IF versions[reg[h].id] # None THEN versions
                 ELSE [versions EXCEPT ![reg[h].id] = [state |-> "ENABLED", payload |-> reg[h].payload]]
  /\ Return(h)
  /\ UNCHANGED <<secrets, destroyed, turns>>

(***************************************************************************)
(* SetSecretVersionState: GetSecretVersion, the check, UPDATE by name.     *)
(* Version None is "latest".                                               *)
(***************************************************************************)
Named(s, n) == IF n = None THEN <<s, Largest(s)>> ELSE <<s, n>>
Found(i)    == i \in Id /\ versions[i] # None

\* Mutant: a destroyed version passes.
SetSecretVersionStateAnyway(h, s, n, state) ==
  /\ Free(h)
  /\ Found(Named(s, n))
  /\ Goto(h, [Idle EXCEPT !.pc = "set", !.id = Named(s, n), !.state = state])
  /\ UNCHANGED <<secrets, versions, destroyed, turns>>

SetSecretVersionState(h, s, n, state) ==
  /\ Free(h)
  /\ Found(Named(s, n))
  /\ versions[Named(s, n)].state # "DESTROYED"
  /\ Goto(h, [Idle EXCEPT !.pc = "set", !.id = Named(s, n), !.state = state])
  /\ UNCHANGED <<secrets, versions, destroyed, turns>>

\* Mutant: the ciphertext stays.
StateSetOnly(row, state) == [row EXCEPT !.state = state]

\* Destroying also clears the ciphertext.
StateSet(row, state) ==
  [state |-> state, payload |-> IF state = "DESTROYED" THEN Empty ELSE row.payload]

UpdateState(h) ==
  /\ At(h, "set")
  /\ LET i == reg[h].id
     IN  /\ versions' = IF versions[i] = None THEN versions
                        ELSE [versions EXCEPT ![i] = StateSet(@, reg[h].state)]
         /\ destroyed' = IF versions[i] # None /\ reg[h].state = "DESTROYED"
                         THEN destroyed \cup {i} ELSE destroyed
  /\ Return(h)
  /\ UNCHANGED <<secrets, turns>>

\* The process is killed and started again: the tables stay.
Restart ==
  /\ \E h \in Handler : ~At(h, "idle")
  /\ reg' = [h \in Handler |-> Idle]
  /\ UNCHANGED <<secrets, versions, destroyed, turns>>

Request(h) ==
  \E s \in Secret :
    \/ \E p \in Payload : AddSecretVersion(h, s, p)
    \/ \E p \in Payload \cup {None} : RotateSecret(h, s, p)
    \/ \E n \in (1..MaxVersion) \cup {None}, state \in State : SetSecretVersionState(h, s, n, state)

Step(h) ==
  \/ \E rotated \in Payload : RotateReads(h, rotated)
  \/ RotateAdds(h) \/ NextNumber(h) \/ InsertVersion(h) \/ UpdateState(h)

Next ==
  \/ \E h \in Handler : Request(h) \/ Step(h)
  \/ \E s \in Secret : CreateSecret(s) \/ DeleteSecret(s)
  \/ Restart

Spec == Init /\ [][Next]_vars

-----------------------------------------------------------------------------
(***************************************************************************)
(* Properties.                                                             *)
(***************************************************************************)

\* Rows are well formed, and a handler writes only versions that have a number.
TypeOK ==
  /\ secrets \subseteq Secret
  /\ versions \in [Id -> Row \cup {None}]
  /\ \A h \in Handler :
       /\ reg[h].pc \in {"idle", "latest", "add", "number", "insert", "set"}
       /\ reg[h].pc \in {"insert", "set"} => reg[h].id \in Id
       /\ reg[h].pc = "insert" => reg[h].payload \in Payload
  /\ destroyed \subseteq Id /\ turns \in BOOLEAN

\* AccessSecretVersion returns the payload of an enabled version that unseals.
Accessible(i) == versions[i] # None /\ versions[i].state = "ENABLED" /\ versions[i].payload # Empty

\* docs/services/secret-manager.md: "Destroy clears ciphertext and refuses
\* Access": no later access of a destroyed version succeeds, although a handler
\* that found the version before it was destroyed may enable it afterwards.
DestroyedUnreadable == \A i \in destroyed : ~Accessible(i)

\* Whatever adds and rotations race for the next number, what a version holds
\* is not replaced by another payload as long as the secret exists.
PayloadImmutable ==
  [][\A i \in Id : versions[i] # None /\ versions'[i] # None =>
       versions'[i].payload \in {versions[i].payload, Empty}]_vars

\* While clients take turns: the versions of a secret are numbered from one
\* without gaps, and a secret that does not exist has none.
WellNumbered ==
  turns => \A s \in Secret : /\ Numbers(s) = 1..Largest(s)
                             /\ Numbers(s) # {} => s \in secrets

\* While clients take turns, no request brings a destroyed version back to
\* another state.
DestroyedFinal ==
  [][\A i \in Id : turns /\ versions[i] # None /\ versions'[i] # None =>
       (versions[i].state = "DESTROYED" => versions'[i].state = "DESTROYED")]_vars
=============================================================================
