------------------------------ MODULE Firestore ------------------------------
(***************************************************************************)
(* Firestore documents: the rows of firestore_docs and the transaction     *)
(* tokens of firestore_transactions (internal/services/firestore/          *)
(* service.go, internal/store/firestore.go).                               *)
(*                                                                         *)
(* Commit reads a row for each of its writes, stages the new rows in       *)
(* memory, and applies them in one SQLite transaction.  BatchWrite,        *)
(* CreateDocument and UpdateDocument read a row and put it back in a       *)
(* second statement.  Between two statements any handler may run.          *)
(*                                                                         *)
(* A write is a record: op is "update", "transform" or "delete"; an update *)
(* carries fields, the mask of the fields it sets (None: it replaces the   *)
(* document) and the fields it increments afterwards; a transform only     *)
(* increments; pre is the current_document precondition.                   *)
(***************************************************************************)
EXTENDS Integers, Sequences, FiniteSetsExt

CONSTANTS
  Handler,    \* request goroutines
  Doc,        \* document names
  Field,      \* top-level fields, all of them integers
  Token,      \* transaction tokens uuid.NewString can return
  Commits,    \* sequences of writes that clients commit
  Batches,    \* sequences of writes that clients send to BatchWrite
  Contents,   \* field values that CreateDocument and UpdateDocument carry
  None,       \* no document, field, mask or token
  MaxCount,   \* bound: the largest field value
  MaxClock    \* bound: clock ticks

VARIABLES
  docs,       \* table firestore_docs
  tokens,     \* table firestore_transactions
  reg,        \* what each handler has read and staged so far
  clock,      \* timestamppb.Now
  turns,      \* clients wait for a reply before any of them sends again
  spent       \* history: the commits that consumed each token

vars == <<docs, tokens, reg, clock, turns, spent>>

Value  == [Field -> (0..MaxCount) \cup {None}]
Row    == [fields : Value, created : 0..MaxClock]

\* Requests carry writes of documents, and a batch at least one.
ASSUME ConstantsAssumption ==
  /\ MaxCount \in Nat /\ MaxClock \in Nat
  /\ None \notin Token /\ None \notin Row
  /\ Contents \subseteq Value /\ <<>> \notin Batches
  /\ \A ws \in Commits \cup Batches :
       ws \in Seq({ws[i] : i \in DOMAIN ws}) /\ \A i \in DOMAIN ws : ws[i].doc \in Doc

Blank  == [f \in Field |-> None]
Idle   == [pc |-> "idle", ws |-> <<>>, todo |-> <<>>, puts |-> <<>>, deletes |-> {}, now |-> 0]

At(h, pc)  == reg[h].pc = pc
Goto(h, r) == reg' = [reg EXCEPT ![h] = r]
Return(h)  == Goto(h, Idle)
Free(h)    == At(h, "idle") /\ (turns => \A i \in Handler : At(i, "idle"))

Init ==
  /\ docs   = [d \in Doc |-> None]
  /\ tokens = [t \in Token |-> "fresh"]
  /\ reg    = [h \in Handler |-> Idle]
  /\ clock  = 0
  /\ turns \in BOOLEAN
  /\ spent  = [t \in Token |-> 0]

(***************************************************************************)
(* The fields a write leaves, from the fields it finds.                    *)
(***************************************************************************)

\* applyFieldMaskJSON: with a mask, its fields are set or removed and the
\* others kept; an empty mask keeps every field.
applyFieldMask(old, fields, mask) ==
  IF mask = None THEN fields
  ELSE [f \in Field |-> IF f \in mask THEN fields[f] ELSE old[f]]

\* applyFieldTransforms: a missing field counts from zero.
applyFieldTransforms(old, incs) ==
  [f \in Field |-> IF f \notin incs THEN old[f] ELSE IF old[f] = None THEN 1 ELSE old[f] + 1]

FieldsAfter(row, w) ==
  LET old == IF row = None THEN Blank ELSE row.fields
  IN  applyFieldTransforms(IF w.op = "transform" THEN old ELSE applyFieldMask(old, w.fields, w.mask), w.incs)

Bounded(fields) == fields \in Value

\* A staged row: the creation time of the row that was read, or now.
Put(row, w, now) ==
  [doc |-> w.doc, fields |-> FieldsAfter(row, w), created |-> IF row = None THEN now ELSE row.created]

\* checkCurrentDocument; a delete also needs the document, whatever it states.
Allowed(row, w) ==
  /\ w.pre = "exists" => row # None
  /\ w.pre = "missing" => row = None
  /\ w.op = "delete" => row # None

\* Mutant: INSERT OR REPLACE.
UpsertReplaces(row, p) == [fields |-> p.fields, created |-> p.created]

\* INSERT ... ON CONFLICT(path) DO UPDATE keeps create_time.
Upsert(row, p) == [fields |-> p.fields, created |-> IF row = None THEN p.created ELSE row.created]

(***************************************************************************)
(* Transactions: a token is consumed once, by a DELETE that found it.      *)
(***************************************************************************)
BeginTransaction(t) ==
  /\ tokens[t] = "fresh"
  /\ tokens' = [tokens EXCEPT ![t] = "open"]
  /\ UNCHANGED <<docs, reg, clock, turns, spent>>

Rollback(t) ==
  /\ tokens[t] = "open"
  /\ tokens' = [tokens EXCEPT ![t] = "gone"]
  /\ UNCHANGED <<docs, reg, clock, turns, spent>>

\* Mutant: the token is looked up, not deleted.
CommitKeepsToken(h, ws, t) ==
  /\ Free(h)
  /\ t # None => tokens[t] = "open"
  /\ spent' = [x \in Token |-> IF x = t THEN spent[x] + 1 ELSE spent[x]]
  /\ Goto(h, [Idle EXCEPT !.pc = "stage", !.ws = ws, !.todo = ws, !.now = clock])
  /\ UNCHANGED <<docs, tokens, clock, turns>>

Commit(h, ws, t) ==
  /\ Free(h)
  /\ t # None => tokens[t] = "open"
  /\ tokens' = [x \in Token |-> IF x = t THEN "gone" ELSE tokens[x]]
  /\ spent' = [x \in Token |-> IF x = t THEN spent[x] + 1 ELSE spent[x]]
  /\ Goto(h, [Idle EXCEPT !.pc = "stage", !.ws = ws, !.todo = ws, !.now = clock])
  /\ UNCHANGED <<docs, clock, turns>>

\* Mutant: a refused write is skipped, the others are applied.
StageWriteSkips(h) ==
  /\ At(h, "stage") /\ reg[h].todo # <<>>
  /\ LET w   == Head(reg[h].todo)
         row == docs[w.doc]
     IN  IF ~Allowed(row, w) THEN Goto(h, [reg[h] EXCEPT !.todo = Tail(@)])
         ELSE IF w.op = "delete"
         THEN Goto(h, [reg[h] EXCEPT !.todo = Tail(@), !.deletes = @ \cup {w.doc}])
         ELSE /\ Bounded(FieldsAfter(row, w))
              /\ Goto(h, [reg[h] EXCEPT !.todo = Tail(@), !.puts = Append(@, Put(row, w, reg[h].now))])
  /\ UNCHANGED <<docs, tokens, clock, turns, spent>>

\* stageWrite: GetFirestoreDoc, the precondition, and the new row in memory.
StageWrite(h) ==
  /\ At(h, "stage") /\ reg[h].todo # <<>>
  /\ LET w   == Head(reg[h].todo)
         row == docs[w.doc]
     IN  IF ~Allowed(row, w) THEN Return(h)
         ELSE IF w.op = "delete"
         THEN Goto(h, [reg[h] EXCEPT !.todo = Tail(@), !.deletes = @ \cup {w.doc}])
         ELSE /\ Bounded(FieldsAfter(row, w))
              /\ Goto(h, [reg[h] EXCEPT !.todo = Tail(@), !.puts = Append(@, Put(row, w, reg[h].now))])
  /\ UNCHANGED <<docs, tokens, clock, turns, spent>>

\* One transaction: the deletes first, then the puts in order.
Applied(row, d, puts, deletes) ==
  LET base == IF d \in deletes THEN None ELSE row
      mine == {i \in DOMAIN puts : puts[i].doc = d}
  IN  IF mine = {} THEN base
      ELSE [fields |-> puts[Max(mine)].fields, created |-> Upsert(base, puts[Min(mine)]).created]

ApplyFirestoreWritesAtomic(h) ==
  /\ At(h, "stage") /\ reg[h].todo = <<>>
  /\ docs' = [d \in Doc |-> Applied(docs[d], d, reg[h].puts, reg[h].deletes)]
  /\ Return(h)
  /\ UNCHANGED <<tokens, clock, turns, spent>>

(***************************************************************************)
(* Requests without a transaction.                                         *)
(***************************************************************************)
BatchWrite(h, ws) ==
  /\ Free(h)
  /\ Goto(h, [Idle EXCEPT !.pc = "read", !.todo = ws, !.now = clock])
  /\ UNCHANGED <<docs, tokens, clock, turns, spent>>

\* applyWrite: a delete is one statement; the others read, then put.  The
\* precondition is not looked at, and a failing write does not stop the rest.
ApplyWrite(h) ==
  /\ At(h, "read")
  /\ LET w    == Head(reg[h].todo)
         rest == Tail(reg[h].todo)
     IN  IF w.op = "delete"
         THEN /\ docs' = [docs EXCEPT ![w.doc] = None]
              /\ IF rest = <<>> THEN Return(h) ELSE Goto(h, [reg[h] EXCEPT !.todo = rest])
         ELSE /\ Bounded(FieldsAfter(docs[w.doc], w))
              /\ Goto(h, [reg[h] EXCEPT !.pc = "put", !.todo = rest, !.puts = <<Put(docs[w.doc], w, clock)>>])
              /\ UNCHANGED docs
  /\ UNCHANGED <<tokens, clock, turns, spent>>

\* CreateDocument refuses a document that is there; UpdateDocument one that is not.
CreateDocument(h, d, fields) ==
  /\ Free(h)
  /\ docs[d] = None
  /\ Goto(h, [Idle EXCEPT !.pc = "put", !.puts = <<[doc |-> d, fields |-> fields, created |-> clock]>>])
  /\ UNCHANGED <<docs, tokens, clock, turns, spent>>

UpdateDocument(h, d, fields, mask) ==
  /\ Free(h)
  /\ docs[d] # None
  /\ Goto(h, [Idle EXCEPT !.pc = "put",
                          !.puts = <<[doc |-> d, fields |-> applyFieldMask(docs[d].fields, fields, mask),
                                      created |-> docs[d].created]>>])
  /\ UNCHANGED <<docs, tokens, clock, turns, spent>>

PutFirestoreDoc(h) ==
  /\ At(h, "put")
  /\ LET p == Head(reg[h].puts)
     IN  docs' = [docs EXCEPT ![p.doc] = Upsert(@, p)]
  /\ IF reg[h].todo = <<>> THEN Return(h) ELSE Goto(h, [reg[h] EXCEPT !.pc = "read", !.puts = <<>>])
  /\ UNCHANGED <<tokens, clock, turns, spent>>

DeleteDocument(d) ==
  /\ turns => \A h \in Handler : At(h, "idle")
  /\ docs[d] # None
  /\ docs' = [docs EXCEPT ![d] = None]
  /\ UNCHANGED <<tokens, reg, clock, turns, spent>>

Tick ==
  /\ clock < MaxClock
  /\ clock' = clock + 1
  /\ UNCHANGED <<docs, tokens, reg, turns, spent>>

\* The process is killed and started again: the tables stay.
Restart ==
  /\ \E h \in Handler : ~At(h, "idle")
  /\ reg' = [h \in Handler |-> Idle]
  /\ UNCHANGED <<docs, tokens, clock, turns, spent>>

Accept(h) ==
  \/ \E ws \in Commits, t \in Token \cup {None} : Commit(h, ws, t)
  \/ \E ws \in Batches : BatchWrite(h, ws)
  \/ \E d \in Doc, fields \in Contents :
       \/ CreateDocument(h, d, fields)
       \/ \E mask \in (SUBSET Field) \cup {None} : UpdateDocument(h, d, fields, mask)

Advance(h) ==
  StageWrite(h) \/ ApplyFirestoreWritesAtomic(h) \/ ApplyWrite(h) \/ PutFirestoreDoc(h)

Next ==
  \/ \E h \in Handler : Accept(h) \/ Advance(h)
  \/ \E t \in Token : BeginTransaction(t) \/ Rollback(t)
  \/ \E d \in Doc : DeleteDocument(d)
  \/ Tick \/ Restart

Spec == Init /\ [][Next]_vars

-----------------------------------------------------------------------------
(***************************************************************************)
(* Properties.                                                             *)
(***************************************************************************)

\* Tables, history and registers hold what the code can put in them.
TypeOK ==
  /\ docs \in [Doc -> Row \cup {None}]
  /\ tokens \in [Token -> {"fresh", "open", "gone"}]
  /\ \A h \in Handler : /\ reg[h].pc \in {"idle", "stage", "read", "put"}
                        /\ reg[h].deletes \subseteq Doc
                        /\ \A i \in DOMAIN reg[h].puts : reg[h].puts[i].fields \in Value
  /\ clock \in 0..MaxClock /\ turns \in BOOLEAN /\ spent \in [Token -> Nat]

\* However often and from wherever a transaction is committed, rolled back or
\* retried, at most one commit goes ahead with its token.
TokenOnce == \A t \in Token : spent[t] <= 1

\* A document keeps its creation time as long as it exists, whatever stale rows
\* other handlers put back over it.
CreateTimeStable ==
  [][\A d \in Doc : docs[d] # None /\ docs'[d] # None => docs'[d].created = docs[d].created]_vars

\* What the writes of a commit mean, one after the other.
After(row, w)   == IF w.op = "delete" THEN None ELSE Upsert(row, Put(row, w, 0))
InOrder(ws, d)  ==
  LET f[i \in 0..Len(ws)] ==
        IF i = 0 THEN docs[d]
        ELSE IF ws[i].doc = d THEN After(f[i - 1], ws[i]) ELSE f[i - 1]
  IN  f[Len(ws)]
FieldsOf(row)   == IF row = None THEN None ELSE row.fields
Satisfied(ws)   == \A i \in DOMAIN ws : Allowed(docs[ws[i].doc], ws[i])
Distinct(ws)    == \A i, j \in DOMAIN ws : ws[i].doc = ws[j].doc => i = j

\* While clients take turns, a commit of writes to different documents leaves
\* exactly what its writes leave one after the other, and only if every one of
\* them is allowed by the documents as they are at that moment.
CommitIsSequential ==
  [][\A h \in Handler : turns /\ ApplyFirestoreWritesAtomic(h) /\ Distinct(reg[h].ws) =>
       /\ Satisfied(reg[h].ws)
       /\ \A d \in Doc : FieldsOf(docs'[d]) = FieldsOf(InOrder(reg[h].ws, d))]_vars

\* A commit takes effect only when the preconditions of its writes hold.
PreconditionsEnforced ==
  [][\A h \in Handler : ApplyFirestoreWritesAtomic(h) /\ docs' # docs => Satisfied(reg[h].ws)]_vars
=============================================================================
