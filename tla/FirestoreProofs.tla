-------------------------- MODULE FirestoreProofs --------------------------
(***************************************************************************)
(* Theorems about Firestore, for every set of handlers, documents, fields  *)
(* and tokens, and every request clients may send.                         *)
(*                                                                         *)
(* TokenOnce is not inductive: that a second commit finds no token needs   *)
(* every token that was ever consumed to be gone (Consumed).               *)
(*                                                                         *)
(* What a commit has staged was read earlier, and the rows it puts back    *)
(* carry times that may be stale.  It leaves a document its creation time  *)
(* because the INSERT does, unless the commit deletes it as well           *)
(* (OneFate): StagedApart says that the two sets stay apart.               *)
(*                                                                         *)
(* CommitIsSequential compares what a commit leaves with a recursive       *)
(* function of its writes.  What it has staged stays what its writes make  *)
(* of the documents (Staged); where no two of them name one document, the  *)
(* function has a closed form (OneWrite), which a least counterexample     *)
(* shows (InOrderIs).                                                      *)
(***************************************************************************)
EXTENDS Firestore, SequenceTheorems, WellFoundedInduction, TLAPS

\* A token that was consumed is gone, and was consumed once.
Consumed ==
  /\ tokens \in [Token -> {"fresh", "open", "gone"}]
  /\ spent \in [Token -> {0, 1}]
  /\ \A t \in Token : spent[t] = 1 => tokens[t] = "gone"

LEMMA InitConsumed == Init => Consumed
  BY DEF Init, Consumed

LEMMA NextConsumed == Consumed /\ [Next]_vars => Consumed'
<1> SUFFICES ASSUME Consumed, [Next]_vars PROVE Consumed'
  OBVIOUS
<1>1. ASSUME NEW h \in Handler, NEW ws \in Commits, NEW t \in Token \cup {None}, Commit(h, ws, t)
      PROVE  Consumed'
  <2>1. \A x \in Token : x = t => tokens[x] = "open" /\ spent[x] = 0
    BY <1>1, ConstantsAssumption DEF Commit, Consumed
  <2> QED
    BY <1>1, <2>1 DEF Commit, Consumed
<1>2. ASSUME NEW t \in Token, BeginTransaction(t) \/ Rollback(t) PROVE Consumed'
  BY <1>2 DEF BeginTransaction, Rollback, Consumed
<1>3. CASE UNCHANGED <<tokens, spent>>
  BY <1>3 DEF Consumed
<1>4. ASSUME NEW h \in Handler, Accept(h) PROVE Consumed'
  <2>1. CASE \E ws \in Commits, t \in Token \cup {None} : Commit(h, ws, t)
    BY <1>1, <2>1
  <2>2. CASE ~ \E ws \in Commits, t \in Token \cup {None} : Commit(h, ws, t)
    BY <1>3, <1>4, <2>2 DEF Accept, BatchWrite, CreateDocument, UpdateDocument
  <2> QED
    BY <2>1, <2>2
<1>5. ASSUME NEW h \in Handler, Advance(h) PROVE Consumed'
  BY <1>3, <1>5 DEF Advance, StageWrite, ApplyFirestoreWritesAtomic, ApplyWrite, PutFirestoreDoc
<1>6. CASE (\E d \in Doc : DeleteDocument(d)) \/ Tick \/ Restart \/ UNCHANGED vars
  BY <1>3, <1>6 DEF DeleteDocument, Tick, Restart, vars
<1> QED
  BY <1>2, <1>4, <1>5, <1>6 DEF Next

\* However often a transaction is committed, rolled back or retried, at most one
\* Commit goes ahead with its token.
THEOREM TokenOnceHolds == Spec => []TokenOnce
<1>1. Consumed => TokenOnce
  BY DEF Consumed, TokenOnce
<1> QED
  BY <1>1, InitConsumed, NextConsumed, PTL DEF Spec

-----------------------------------------------------------------------------
Writes(ws)  == {ws[i] : i \in DOMAIN ws}
Deleted(ws) == {w.doc : w \in {v \in Writes(ws) : v.op = "delete"}}
Kept(ws)    == {w.doc : w \in {v \in Writes(ws) : v.op # "delete"}}

\* Commits are sequences, none of which both deletes a document and puts it.
OneFate == \A ws \in Commits : ws \in Seq(Writes(ws)) /\ Deleted(ws) \cap Kept(ws) = {}

\* What a commit stages are rows of documents it puts and names of those it deletes.
StagedOK(r) ==
  r.pc = "stage" =>
    /\ r.ws \in Commits /\ r.todo \in Seq(Writes(r.ws))
    /\ r.deletes \subseteq Deleted(r.ws)
    /\ \E P : r.puts \in Seq(P) /\ \A p \in P : p.doc \in Kept(r.ws)

StagedApart ==
  /\ docs = [d \in Doc |-> docs[d]]
  /\ reg = [h \in Handler |-> reg[h]]
  /\ \A h \in Handler : StagedOK(reg[h])

LEMMA InitApart == Init => StagedApart
  BY DEF Init, StagedApart, StagedOK, Idle

\* A request that starts or ends leaves the other registers alone.
LEMMA GotoKeeps ==
  ASSUME StagedApart, NEW h \in Handler, NEW r, Goto(h, r), StagedOK(r)
  PROVE  reg' = [i \in Handler |-> reg'[i]] /\ \A i \in Handler : StagedOK(reg'[i])
<1>1. reg' = [reg EXCEPT ![h] = r]
  BY DEF Goto
<1>2. \A i \in Handler : reg'[i] = IF i = h THEN r ELSE reg[i]
  BY <1>1 DEF StagedApart
<1> QED
  BY <1>1, <1>2 DEF StagedApart

LEMMA StageApart ==
  ASSUME StagedApart, NEW h \in Handler, StageWrite(h)
  PROVE  StagedApart'
<1>1. PICK q, w, row, p :
        q = reg[h] /\ w = Head(q.todo) /\ row = docs[w.doc] /\ p = Put(row, w, q.now)
  OBVIOUS
<1>2. q.pc = "stage" /\ q.todo # <<>>
  BY <1>1 DEF StageWrite, At
<1>3. StagedOK(q)
  BY <1>1 DEF StagedApart
<1>4. /\ q.ws \in Commits /\ q.todo \in Seq(Writes(q.ws)) /\ q.deletes \subseteq Deleted(q.ws)
  BY <1>2, <1>3 DEF StagedOK
<1>5. PICK P : q.puts \in Seq(P) /\ \A x \in P : x.doc \in Kept(q.ws)
  BY <1>2, <1>3 DEF StagedOK
<1>6. w \in Writes(q.ws) /\ Tail(q.todo) \in Seq(Writes(q.ws))
  BY <1>1, <1>2, <1>4, HeadTailProperties
<1>7. docs' = docs
  BY DEF StageWrite
<1>8. PICK drop, keep :
        /\ drop = [q EXCEPT !.todo = Tail(@), !.deletes = @ \cup {w.doc}]
        /\ keep = [q EXCEPT !.todo = Tail(@), !.puts = Append(@, p)]
  OBVIOUS
<1>9. \/ Goto(h, Idle)
      \/ w.op = "delete" /\ Goto(h, drop)
      \/ w.op # "delete" /\ Goto(h, keep)
  BY <1>1, <1>8 DEF StageWrite, Return
<1>10. CASE Goto(h, Idle)
  <2>1. StagedOK(Idle)
    BY DEF StagedOK, Idle
  <2> QED
    BY <1>7, <1>10, <2>1, GotoKeeps DEF StagedApart
<1>11. CASE w.op = "delete" /\ Goto(h, drop)
  <2>1. StagedOK(drop)
    <3> SUFFICES ASSUME drop.pc = "stage"
                 PROVE  /\ drop.ws \in Commits /\ drop.todo \in Seq(Writes(drop.ws))
                        /\ drop.deletes \subseteq Deleted(drop.ws)
                        /\ \E Q : drop.puts \in Seq(Q) /\ \A x \in Q : x.doc \in Kept(drop.ws)
      BY DEF StagedOK
    <3>1. w.doc \in Deleted(q.ws)
      BY <1>6, <1>11 DEF Deleted
    <3>2. /\ drop.ws = q.ws /\ drop.puts = q.puts /\ drop.todo = Tail(q.todo)
          /\ drop.deletes = q.deletes \cup {w.doc}
      BY <1>3, <1>8
    <3> QED
      BY <1>4, <1>5, <1>6, <3>1, <3>2
  <2> QED
    BY <1>7, <1>11, <2>1, GotoKeeps DEF StagedApart
<1>12. CASE w.op # "delete" /\ Goto(h, keep)
  <2>1. StagedOK(keep)
    <3>1. p.doc = w.doc /\ w.doc \in Kept(q.ws)
      BY <1>1, <1>6, <1>12 DEF Put, Kept
    <3>2. Append(q.puts, p) \in Seq(P \cup {p})
      BY <1>5, SeqMonotonic, AppendProperties
    <3>3. \A x \in P \cup {p} : x.doc \in Kept(q.ws)
      BY <1>5, <3>1
    <3>4. /\ keep.ws = q.ws /\ keep.puts = Append(q.puts, p) /\ keep.todo = Tail(q.todo)
          /\ keep.deletes = q.deletes
      BY <1>3, <1>8
    <3> QED
      BY <1>4, <1>6, <3>2, <3>3, <3>4 DEF StagedOK
  <2> QED
    BY <1>7, <1>12, <2>1, GotoKeeps DEF StagedApart
<1> QED
  BY <1>9, <1>10, <1>11, <1>12

LEMMA NextApart ==
  ASSUME OneFate, StagedApart, [Next]_vars
  PROVE  StagedApart'
<1>1. \A r : r.pc # "stage" => StagedOK(r)
  BY DEF StagedOK
<1>2. Idle.pc # "stage"
  BY DEF Idle
<1>3. ASSUME docs' = [d \in Doc |-> docs'[d]],
             \/ reg' = reg
             \/ reg' = [h \in Handler |-> Idle]
             \/ \E h \in Handler : \E r : Goto(h, r) /\ StagedOK(r)
      PROVE  StagedApart'
  <2>1. CASE reg' = reg
    BY <1>3, <2>1 DEF StagedApart
  <2>2. CASE reg' = [h \in Handler |-> Idle]
    BY <1>1, <1>2, <1>3, <2>2 DEF StagedApart
  <2>3. CASE \E h \in Handler : \E r : Goto(h, r) /\ StagedOK(r)
    BY <1>3, <2>3, GotoKeeps DEF StagedApart
  <2> QED
    BY <1>3, <2>1, <2>2, <2>3
<1>4. docs = [d \in Doc |-> docs[d]]
  BY DEF StagedApart
<1>5. ASSUME NEW h \in Handler, NEW ws \in Commits, NEW t \in Token \cup {None}, Commit(h, ws, t)
      PROVE  StagedApart'
  <2>1. PICK r : r = [Idle EXCEPT !.pc = "stage", !.ws = ws, !.todo = ws, !.now = clock]
    OBVIOUS
  <2>2. r.ws = ws /\ r.todo = ws /\ r.puts = <<>> /\ r.deletes = {}
    BY <2>1 DEF Idle
  <2>3. ws \in Seq(Writes(ws)) /\ r.puts \in Seq({}) /\ \A p \in {} : p.doc \in Kept(ws)
    BY <2>2 DEF OneFate
  <2>4. StagedOK(r)
    BY <2>2, <2>3 DEF StagedOK
  <2> QED
    BY <1>3, <1>4, <1>5, <2>1, <2>4 DEF Commit
<1>6. ASSUME NEW h \in Handler, NEW r, Goto(h, r), r.pc # "stage", docs' = [d \in Doc |-> docs'[d]]
      PROVE  StagedApart'
  BY <1>1, <1>3, <1>6
<1>7. ASSUME NEW h \in Handler, NEW ws, BatchWrite(h, ws) PROVE StagedApart'
  <2>1. PICK r : r = [Idle EXCEPT !.pc = "read", !.todo = ws, !.now = clock]
    OBVIOUS
  <2>2. r.pc # "stage" /\ Goto(h, r) /\ docs' = docs
    BY <1>7, <2>1 DEF BatchWrite, Idle
  <2> QED
    BY <1>4, <1>6, <2>2
<1>8. ASSUME NEW h \in Handler, NEW d, NEW fields, NEW mask,
             CreateDocument(h, d, fields) \/ UpdateDocument(h, d, fields, mask)
      PROVE  StagedApart'
  <2>1. PICK p : Goto(h, [Idle EXCEPT !.pc = "put", !.puts = <<p>>])
    BY <1>8 DEF CreateDocument, UpdateDocument
  <2>2. PICK r : r = [Idle EXCEPT !.pc = "put", !.puts = <<p>>]
    OBVIOUS
  <2>3. r.pc # "stage" /\ Goto(h, r) /\ docs' = docs
    BY <1>8, <2>1, <2>2 DEF CreateDocument, UpdateDocument, Idle
  <2> QED
    BY <1>4, <1>6, <2>3
<1>9. ASSUME NEW h \in Handler, ApplyFirestoreWritesAtomic(h) PROVE StagedApart'
  BY <1>2, <1>6, <1>9 DEF ApplyFirestoreWritesAtomic, Return
<1>10. ASSUME NEW h \in Handler, ApplyWrite(h) PROVE StagedApart'
  <2>1. PICK q, rest, p :
          /\ q = reg[h] /\ rest = Tail(q.todo)
          /\ p = Put(docs[Head(q.todo).doc], Head(q.todo), clock)
    OBVIOUS
  <2>2. PICK more, put :
          /\ more = [q EXCEPT !.todo = rest]
          /\ put = [q EXCEPT !.pc = "put", !.todo = rest, !.puts = <<p>>]
    OBVIOUS
  <2>3. q.pc = "read" /\ (Goto(h, Idle) \/ Goto(h, more) \/ Goto(h, put))
    BY <1>10, <2>1, <2>2 DEF ApplyWrite, At, Return
  <2>4. more.pc # "stage"
    BY <2>2, <2>3
  <2>5. StagedOK(put)
    <3>1. CASE put.pc = "stage"
      BY <2>2, <2>3, <3>1
    <3> QED
      BY <1>1, <3>1
  <2>6. docs' = [d \in Doc |-> docs'[d]]
    BY <1>4, <1>10 DEF ApplyWrite
  <2> QED
    BY <1>1, <1>2, <1>3, <2>3, <2>4, <2>5, <2>6
<1>11. ASSUME NEW h \in Handler, PutFirestoreDoc(h) PROVE StagedApart'
  <2>1. PICK q, r : q = reg[h] /\ r = [q EXCEPT !.pc = "read", !.puts = <<>>]
    OBVIOUS
  <2>2. q.pc = "put" /\ (Goto(h, Idle) \/ Goto(h, r))
    BY <1>11, <2>1 DEF PutFirestoreDoc, At, Return
  <2>3. StagedOK(r)
    <3>1. CASE r.pc = "stage"
      BY <2>1, <2>2, <3>1
    <3> QED
      BY <1>1, <3>1
  <2>4. docs' = [d \in Doc |-> docs'[d]]
    BY <1>4, <1>11 DEF PutFirestoreDoc
  <2> QED
    BY <1>1, <1>2, <1>3, <2>2, <2>3, <2>4
<1>12. ASSUME NEW d \in Doc, DeleteDocument(d) PROVE StagedApart'
  BY <1>3, <1>4, <1>12 DEF DeleteDocument
<1>13. CASE (\E t \in Token : BeginTransaction(t) \/ Rollback(t)) \/ Tick \/ Restart \/ UNCHANGED vars
  BY <1>3, <1>4, <1>13 DEF BeginTransaction, Rollback, Tick, Restart, vars
<1>14. ASSUME NEW h \in Handler, Accept(h) PROVE StagedApart'
  BY <1>5, <1>7, <1>8, <1>14 DEF Accept
<1>15. ASSUME NEW h \in Handler, Advance(h) PROVE StagedApart'
  BY <1>9, <1>10, <1>11, <1>15, StageApart DEF Advance
<1> QED
  BY <1>12, <1>13, <1>14, <1>15 DEF Next

\* Only a write over a document keeps it, and none of them takes its time from what
\* the handler has read.
LEMMA CreatedKept ==
  ASSUME OneFate, StagedApart, [Next]_vars, NEW d \in Doc, docs[d] # None, docs'[d] # None
  PROVE  docs'[d].created = docs[d].created
<1>1. docs = [x \in Doc |-> docs[x]]
  BY DEF StagedApart
<1>2. CASE docs' = docs
  BY <1>2
<1>3. ASSUME NEW h \in Handler, ApplyFirestoreWritesAtomic(h)
      PROVE  docs'[d].created = docs[d].created
  <2>1. PICK q : q = reg[h]
    OBVIOUS
  <2>2. StagedOK(q) /\ q.pc = "stage" /\ docs'[d] = Applied(docs[d], d, q.puts, q.deletes)
    BY <1>3, <2>1 DEF ApplyFirestoreWritesAtomic, StagedApart, At
  <2>3. q.ws \in Commits /\ q.deletes \subseteq Deleted(q.ws)
    BY <2>2 DEF StagedOK
  <2>4. PICK P : q.puts \in Seq(P) /\ \A p \in P : p.doc \in Kept(q.ws)
    BY <2>2 DEF StagedOK
  <2>5. \A i \in DOMAIN q.puts : q.puts[i].doc \in Kept(q.ws)
    BY <2>4
  <2>6. CASE d \in q.deletes
    <3>1. \A i \in DOMAIN q.puts : q.puts[i].doc # d
      BY <2>3, <2>5, <2>6 DEF OneFate
    <3>2. docs'[d] = None
      BY <2>2, <2>6, <3>1 DEF Applied
    <3> QED
      BY <3>2
  <2>7. CASE d \notin q.deletes
    BY <2>2, <2>7 DEF Applied, Upsert
  <2> QED
    BY <2>6, <2>7
<1>4. ASSUME NEW h \in Handler, ApplyWrite(h)
      PROVE  docs'[d].created = docs[d].created
  BY <1>1, <1>4 DEF ApplyWrite
<1>5. ASSUME NEW h \in Handler, PutFirestoreDoc(h)
      PROVE  docs'[d].created = docs[d].created
  <2>1. PICK p : docs' = [docs EXCEPT ![p.doc] = Upsert(docs[p.doc], p)]
    BY <1>5 DEF PutFirestoreDoc
  <2> QED
    BY <1>1, <2>1 DEF Upsert
<1>6. ASSUME NEW e \in Doc, DeleteDocument(e)
      PROVE  docs'[d].created = docs[d].created
  BY <1>1, <1>6 DEF DeleteDocument
<1>7. ASSUME NEW h \in Handler, Accept(h) \/ StageWrite(h) PROVE docs' = docs
  BY <1>7 DEF Accept, Commit, BatchWrite, CreateDocument, UpdateDocument, StageWrite
<1>8. CASE (\E t \in Token : BeginTransaction(t) \/ Rollback(t)) \/ Tick \/ Restart \/ UNCHANGED vars
  BY <1>2, <1>8 DEF BeginTransaction, Rollback, Tick, Restart, vars
<1> QED
  BY <1>2, <1>3, <1>4, <1>5, <1>6, <1>7, <1>8 DEF Next, Advance

\* A document keeps its creation time as long as it exists, whatever stale rows other
\* handlers put back over it, if no commit both deletes a document and puts it.
THEOREM CreateTimeStableHolds ==
  ASSUME OneFate
  PROVE  Spec => CreateTimeStable
<1>1. Init => StagedApart
  BY InitApart
<1>2. StagedApart /\ [Next]_vars => StagedApart'
  BY NextApart
<1>3. StagedApart /\ [Next]_vars =>
        [\A d \in Doc : docs[d] # None /\ docs'[d] # None => docs'[d].created = docs[d].created]_vars
  BY CreatedKept
<1> QED
  BY <1>1, <1>2, <1>3, PTL DEF Spec, CreateTimeStable

-----------------------------------------------------------------------------
(***************************************************************************)
(* A commit while clients take turns.  Its rows were staged one by one,    *)
(* and nothing has changed a document since the first of them (Staged).    *)
(***************************************************************************)
PutRow == [doc : Doc, fields : Value, created : 0..MaxClock]

RegTyped(r) ==
  /\ r.puts \in Seq(PutRow) /\ (r.pc = "put" => r.puts # <<>>)
  /\ r.now \in 0..MaxClock
  /\ \E W : r.todo \in Seq(W) /\ \A w \in W : w.doc \in Doc
  /\ r.pc = "read" => r.todo # <<>>

Typed ==
  /\ docs \in [Doc -> Row \cup {None}] /\ clock \in 0..MaxClock /\ turns \in BOOLEAN
  /\ reg = [h \in Handler |-> reg[h]] /\ \A h \in Handler : RegTyped(reg[h])

\* The number of writes a commit has staged.
Count(r) == Len(r.ws) - Len(r.todo)

\* The row that a write leaves of what it finds in D.
RowIn(D, r, i) == Put(D[r.ws[i].doc], r.ws[i], r.now)
RowOf(r, i)    == RowIn(docs, r, i)

StagedIn(D, r) ==
  /\ r.ws \in Commits /\ Len(r.todo) <= Len(r.ws)
  /\ \A i \in 1..Len(r.todo) : r.todo[i] = r.ws[Count(r) + i]
  /\ \A i \in 1..Count(r) :
       /\ Allowed(D[r.ws[i].doc], r.ws[i])
       /\ IF r.ws[i].op = "delete" THEN r.ws[i].doc \in r.deletes
          ELSE \E j \in 1..Len(r.puts) : r.puts[j] = RowIn(D, r, i)
  /\ \A d \in r.deletes : \E i \in 1..Count(r) : r.ws[i].op = "delete" /\ r.ws[i].doc = d
  /\ \A j \in 1..Len(r.puts) : \E i \in 1..Count(r) : r.ws[i].op # "delete" /\ r.puts[j] = RowIn(D, r, i)

Staged(r) == StagedIn(docs, r)

\* One request at a time, and what it has staged.
InTurn ==
  turns => /\ \A h, i \in Handler : h = i \/ At(h, "idle") \/ At(i, "idle")
           /\ \A h \in Handler : At(h, "stage") => Staged(reg[h])

SeqInv == Typed /\ InTurn

LEMMA CommitTyped ==
  ASSUME NEW ws \in Commits \cup Batches
  PROVE  /\ ws \in Seq(Writes(ws)) /\ Len(ws) \in Nat /\ DOMAIN ws = 1..Len(ws)
         /\ \A w \in Writes(ws) : w.doc \in Doc
<1>1. ws \in Seq(Writes(ws)) /\ \A i \in DOMAIN ws : ws[i].doc \in Doc
  BY ConstantsAssumption DEF Writes
<1> QED
  BY <1>1 DEF Writes

LEMMA IdleTyped == RegTyped(Idle) /\ Idle.pc = "idle"
<1>1. <<>> \in Seq(PutRow) /\ <<>> \in Seq({})
  OBVIOUS
<1>2. 0 \in 0..MaxClock
  BY ConstantsAssumption
<1>3. /\ Idle.puts = <<>> /\ Idle.todo = <<>> /\ Idle.now = 0
      /\ Idle.pc # "put" /\ Idle.pc # "read" /\ Idle.pc = "idle"
  BY DEF Idle
<1>4. \E W : Idle.todo \in Seq(W) /\ \A w \in W : w.doc \in Doc
  <2>1. PICK W : W = {}
    OBVIOUS
  <2>2. <<>> \in Seq(W)
    BY <1>1, <2>1
  <2>3. \A w \in W : w.doc \in Doc
    BY <2>1
  <2>4. Idle.todo \in Seq(W)
    BY <1>3, <2>2
  <2> QED
    BY <2>3, <2>4, Zenon
<1> QED
  BY <1>1, <1>2, <1>3, <1>4 DEF RegTyped

LEMMA InitSeq == Init => SeqInv
<1> SUFFICES ASSUME Init PROVE SeqInv
  OBVIOUS
<1>1. \A h \in Handler : reg[h] = Idle
  BY DEF Init
<1>2. Typed
  BY <1>1, IdleTyped, ConstantsAssumption DEF Init, Typed
<1>3. InTurn
  BY <1>1, IdleTyped DEF InTurn, At
<1> QED
  BY <1>2, <1>3 DEF SeqInv

\* A step of a handler whose new register is r, by which no document changes.
LEMMA GotoSeq ==
  ASSUME SeqInv, NEW h \in Handler, NEW r, Goto(h, r), RegTyped(r),
         docs' \in [Doc -> Row \cup {None}], UNCHANGED <<clock, turns>>,
         turns => Free(h) \/ ~At(h, "idle"),
         turns /\ r.pc = "stage" => docs' = docs /\ Staged(r)
  PROVE  SeqInv'
<1>1. \A i \in Handler : reg'[i] = IF i = h THEN r ELSE reg[i]
  BY DEF Goto, SeqInv, Typed
<1>2. reg' = [i \in Handler |-> reg'[i]]
  BY DEF Goto, SeqInv, Typed
<1>3. \A i \in Handler : RegTyped(reg'[i])
  BY <1>1 DEF SeqInv, Typed
<1>4. Typed'
  BY <1>2, <1>3 DEF SeqInv, Typed, RegTyped
<1>5. ASSUME turns, NEW i \in Handler, i # h PROVE reg'[i].pc = "idle"
  <2>1. At(i, "idle")
    BY <1>5 DEF SeqInv, InTurn, Free
  <2> QED
    BY <1>1, <1>5, <2>1 DEF At
<1>6. ASSUME turns PROVE \A i, j \in Handler : i = j \/ reg'[i].pc = "idle" \/ reg'[j].pc = "idle"
  BY <1>5, <1>6
<1>7. ASSUME turns, NEW i \in Handler, reg'[i].pc = "stage" PROVE Staged(reg[i])'
  <2>1. i = h /\ reg'[i] = r
    BY <1>1, <1>5, <1>7
  <2>2. docs' = docs /\ Staged(r)
    BY <1>7, <2>1
  <2>3. PICK D : D = docs
    OBVIOUS
  <2>4. docs' = D
    BY <2>2, <2>3
  <2>5. StagedIn(D, r)
    BY <2>2, <2>3 DEF Staged
  <2> QED
    BY <2>1, <2>4, <2>5 DEF Staged
<1>8. InTurn'
  BY <1>6, <1>7 DEF InTurn, At
<1> QED
  BY <1>4, <1>8 DEF SeqInv

\* One write more is staged: its row, or the name of what it deletes.
LEMMA StagedMore ==
  ASSUME NEW q, NEW r, Staged(q), RegTyped(q), q.todo # <<>>,
         r.ws = q.ws, r.now = q.now, r.todo = Tail(q.todo),
         Allowed(docs[Head(q.todo).doc], Head(q.todo)),
         \/ /\ Head(q.todo).op = "delete"
            /\ r.puts = q.puts /\ r.deletes = q.deletes \cup {Head(q.todo).doc}
         \/ /\ Head(q.todo).op # "delete" /\ r.deletes = q.deletes
            /\ r.puts = Append(q.puts, Put(docs[Head(q.todo).doc], Head(q.todo), q.now))
  PROVE  Staged(r)
<1>1. PICK n : n = Count(q)
  OBVIOUS
<1>2. PICK m : m = Len(q.todo)
  OBVIOUS
<1>3. /\ q.ws \in Commits /\ Len(q.ws) \in Nat /\ m \in Nat /\ m >= 1 /\ m <= Len(q.ws)
      /\ n = Len(q.ws) - m /\ n \in Nat
      /\ Head(q.todo) = q.todo[1] /\ Len(r.todo) = m - 1
      /\ \A i \in 1..m - 1 : r.todo[i] = q.todo[i + 1]
  <2>1. PICK W : q.todo \in Seq(W)
    BY DEF RegTyped
  <2>2. Len(q.ws) \in Nat
    BY CommitTyped DEF Staged, StagedIn
  <2> QED
    BY <1>1, <1>2, <2>1, <2>2 DEF Staged, StagedIn, Count
<1>4. Count(r) = n + 1
  <2>1. PICK t : t = Len(q.ws)
    OBVIOUS
  <2>2. t \in Nat /\ m \in Nat /\ n = t - m
    BY <1>3, <2>1
  <2>3. t - (m - 1) = n + 1
    BY <2>2
  <2>4. Count(r) = t - (m - 1)
    BY <1>3, <2>1 DEF Count
  <2> QED
    BY <2>3, <2>4
<1>5. Head(q.todo) = q.ws[n + 1]
  <2>1. 1 \in 1..m
    BY <1>3
  <2>2. q.todo[1] = q.ws[n + 1]
    BY <1>1, <1>2, <2>1 DEF Staged, StagedIn
  <2> QED
    BY <1>3, <2>2
<1>6. r.ws \in Commits /\ Len(r.todo) <= Len(r.ws)
  BY <1>3
<1>7. \A i \in 1..Len(r.todo) : r.todo[i] = r.ws[Count(r) + i]
  <2> SUFFICES ASSUME NEW i \in 1..m - 1 PROVE r.todo[i] = r.ws[(n + 1) + i]
    BY <1>3, <1>4
  <2>0. m \in Nat /\ n \in Nat
    BY <1>3
  <2>1. i + 1 \in 1..m /\ n + (i + 1) = (n + 1) + i
    BY <2>0
  <2>2. q.todo[i + 1] = q.ws[n + (i + 1)]
    BY <1>1, <1>2, <2>1 DEF Staged, StagedIn
  <2> QED
    BY <1>3, <2>1, <2>2
<1>8. \A i \in 1..Count(r) : i \in 1..n \/ i = n + 1
  BY <1>3, <1>4
<1>9. \A i \in 1..n : i \in 1..Count(r)
  BY <1>3, <1>4
<1>10. n + 1 \in 1..Count(r)
  BY <1>3, <1>4
<1>11. \A i : RowOf(r, i) = RowOf(q, i)
  BY DEF RowOf, RowIn
<1>12. q.puts \in Seq(PutRow) /\ Len(q.puts) \in Nat
  BY DEF RegTyped
<1>13. \A i \in 1..n : Allowed(docs[q.ws[i].doc], q.ws[i])
  BY <1>1 DEF Staged, StagedIn
<1>14. \A i \in 1..Count(r) : Allowed(docs[r.ws[i].doc], r.ws[i])
  BY <1>5, <1>8, <1>13
<1>15. CASE /\ Head(q.todo).op = "delete"
            /\ r.puts = q.puts /\ r.deletes = q.deletes \cup {Head(q.todo).doc}
  <2>1. \A i \in 1..Count(r) : IF r.ws[i].op = "delete" THEN r.ws[i].doc \in r.deletes
                               ELSE \E j \in 1..Len(r.puts) : r.puts[j] = RowOf(r, i)
    <3> SUFFICES ASSUME NEW i \in 1..Count(r)
                 PROVE  IF q.ws[i].op = "delete" THEN q.ws[i].doc \in r.deletes
                        ELSE \E j \in 1..Len(q.puts) : q.puts[j] = RowOf(q, i)
      BY <1>11, <1>15
    <3>1. CASE i \in 1..n
      BY <1>1, <1>15, <3>1 DEF Staged, StagedIn, RowOf
    <3>2. CASE i = n + 1
      BY <1>5, <1>15, <3>2
    <3> QED
      BY <1>8, <3>1, <3>2
  <2>2. \A d \in r.deletes : \E i \in 1..Count(r) : r.ws[i].op = "delete" /\ r.ws[i].doc = d
    <3> SUFFICES ASSUME NEW d \in r.deletes
                 PROVE  \E i \in 1..Count(r) : q.ws[i].op = "delete" /\ q.ws[i].doc = d
      OBVIOUS
    <3>1. CASE d \in q.deletes
      <4>1. PICK i \in 1..n : q.ws[i].op = "delete" /\ q.ws[i].doc = d
        BY <1>1, <3>1 DEF Staged, StagedIn
      <4> QED
        BY <1>9, <4>1
    <3>2. CASE d = Head(q.todo).doc
      BY <1>5, <1>10, <1>15, <3>2
    <3> QED
      BY <1>15, <3>1, <3>2
  <2>3. \A j \in 1..Len(r.puts) : \E i \in 1..Count(r) : r.ws[i].op # "delete" /\ r.puts[j] = RowOf(r, i)
    <3> SUFFICES ASSUME NEW j \in 1..Len(q.puts)
                 PROVE  \E i \in 1..Count(r) : q.ws[i].op # "delete" /\ q.puts[j] = RowOf(q, i)
      BY <1>11, <1>15
    <3>1. PICK i \in 1..n : q.ws[i].op # "delete" /\ q.puts[j] = RowOf(q, i)
      BY <1>1 DEF Staged, StagedIn, RowOf
    <3> QED
      BY <1>9, <3>1
  <2> QED
    BY <1>6, <1>7, <1>14, <2>1, <2>2, <2>3 DEF Staged, StagedIn, RowOf
<1>16. CASE /\ Head(q.todo).op # "delete" /\ r.deletes = q.deletes
            /\ r.puts = Append(q.puts, Put(docs[Head(q.todo).doc], Head(q.todo), q.now))
  <2>1. /\ Len(r.puts) = Len(q.puts) + 1
        /\ \A j \in 1..Len(q.puts) : r.puts[j] = q.puts[j]
        /\ r.puts[Len(q.puts) + 1] = RowOf(q, n + 1)
    BY <1>5, <1>12, <1>16 DEF RowOf, RowIn
  <2>2. /\ \A j \in 1..Len(r.puts) : j \in 1..Len(q.puts) \/ j = Len(q.puts) + 1
        /\ \A j \in 1..Len(q.puts) : j \in 1..Len(r.puts)
        /\ Len(q.puts) + 1 \in 1..Len(r.puts)
    BY <1>12, <2>1
  <2>3. \A i \in 1..Count(r) : IF r.ws[i].op = "delete" THEN r.ws[i].doc \in r.deletes
                               ELSE \E j \in 1..Len(r.puts) : r.puts[j] = RowOf(r, i)
    <3> SUFFICES ASSUME NEW i \in 1..Count(r)
                 PROVE  IF q.ws[i].op = "delete" THEN q.ws[i].doc \in q.deletes
                        ELSE \E j \in 1..Len(r.puts) : r.puts[j] = RowOf(q, i)
      BY <1>11, <1>16
    <3>1. CASE i \in 1..n
      <4>1. CASE q.ws[i].op = "delete"
        BY <1>1, <3>1, <4>1 DEF Staged, StagedIn
      <4>2. CASE q.ws[i].op # "delete"
        <5>1. PICK j \in 1..Len(q.puts) : q.puts[j] = RowOf(q, i)
          BY <1>1, <3>1, <4>2 DEF Staged, StagedIn, RowOf
        <5> QED
          BY <2>1, <2>2, <4>2, <5>1
      <4> QED
        BY <4>1, <4>2
    <3>2. CASE i = n + 1
      BY <1>5, <1>16, <2>1, <2>2, <3>2
    <3> QED
      BY <1>8, <3>1, <3>2
  <2>4. \A d \in r.deletes : \E i \in 1..Count(r) : r.ws[i].op = "delete" /\ r.ws[i].doc = d
    <3> SUFFICES ASSUME NEW d \in q.deletes
                 PROVE  \E i \in 1..Count(r) : q.ws[i].op = "delete" /\ q.ws[i].doc = d
      BY <1>16
    <3>1. PICK i \in 1..n : q.ws[i].op = "delete" /\ q.ws[i].doc = d
      BY <1>1 DEF Staged, StagedIn
    <3> QED
      BY <1>9, <3>1
  <2>5. \A j \in 1..Len(r.puts) : \E i \in 1..Count(r) : r.ws[i].op # "delete" /\ r.puts[j] = RowOf(r, i)
    <3> SUFFICES ASSUME NEW j \in 1..Len(r.puts)
                 PROVE  \E i \in 1..Count(r) : q.ws[i].op # "delete" /\ r.puts[j] = RowOf(q, i)
      BY <1>11
    <3>1. CASE j \in 1..Len(q.puts)
      <4>1. PICK i \in 1..n : q.ws[i].op # "delete" /\ q.puts[j] = RowOf(q, i)
        BY <1>1, <3>1 DEF Staged, StagedIn, RowOf
      <4> QED
        BY <1>9, <2>1, <3>1, <4>1
    <3>2. CASE j = Len(q.puts) + 1
      BY <1>5, <1>10, <1>16, <2>1, <3>2
    <3> QED
      BY <2>2, <3>1, <3>2
  <2> QED
    BY <1>6, <1>7, <1>14, <2>3, <2>4, <2>5 DEF Staged, StagedIn, RowOf
<1> QED
  BY <1>15, <1>16

-----------------------------------------------------------------------------
\* A set of numbers has a least one.
LEMMA LeastNumber ==
  ASSUME NEW S, S \subseteq Nat, S # {}
  PROVE  \E x \in S : \A y \in S : x <= y
<1> DEFINE R == OpToRel(<, Nat)
<1>1. IsWellFoundedOn(R, Nat)
  BY NatLessThanWellFounded
<1>2. PICK x \in S : \A y \in S : ~(<<y, x>> \in R)
  <2> HIDE DEF R
  <2> QED BY <1>1, WFMin
<1>3. \A y \in S : ~(y < x)
  BY <1>2 DEF OpToRel
<1> QED
  BY <1>3

LEMMA Extremes ==
  ASSUME NEW N \in Nat, NEW S, S \subseteq 1..N, S # {}
  PROVE  Max(S) \in S /\ Min(S) \in S
<1>1. \E x \in S : \A y \in S : x <= y
  <2>1. S \subseteq Nat
    OBVIOUS
  <2> QED
    BY <2>1, LeastNumber
<1>2. Min(S) \in S
  BY <1>1 DEF Min
<1> DEFINE T == {N - x : x \in S}
<1>3. T \subseteq Nat /\ T # {}
  <2>1. \A x \in S : N - x \in Nat
    OBVIOUS
  <2> QED
    BY <2>1
<1>4. PICK t \in T : \A u \in T : t <= u
  <2> HIDE DEF T
  <2> QED BY <1>3, LeastNumber
<1>5. PICK x \in S : t = N - x
  OBVIOUS
<1>6. \A y \in S : N - x <= N - y
  BY <1>4, <1>5
<1>7. \A y \in S : x >= y
  BY <1>6
<1>8. Max(S) \in S
  <2> HIDE DEF T
  <2> QED BY <1>7 DEF Max
<1> QED
  BY <1>2, <1>8

LEMMA AppliedTyped ==
  ASSUME NEW row \in Row \cup {None}, NEW d, NEW puts \in Seq(PutRow), NEW deletes
  PROVE  /\ Applied(row, d, puts, deletes) \in Row \cup {None}
         /\ {i \in DOMAIN puts : puts[i].doc = d} # {} => Applied(row, d, puts, deletes) \in Row
<1>1. PICK base : base = IF d \in deletes THEN None ELSE row
  OBVIOUS
<1>2. PICK mine : mine = {i \in DOMAIN puts : puts[i].doc = d}
  OBVIOUS
<1>3. base \in Row \cup {None}
  BY <1>1
<1>4. CASE mine = {}
  BY <1>1, <1>2, <1>3, <1>4 DEF Applied
<1>5. CASE mine # {}
  <2>1. Max(mine) \in 1..Len(puts) /\ Min(mine) \in 1..Len(puts)
    <3>1. Len(puts) \in Nat /\ mine \subseteq 1..Len(puts)
      BY <1>2
    <3> QED
      BY <1>5, <3>1, Extremes
  <2>2. PICK p \in PutRow, f \in PutRow : p = puts[Max(mine)] /\ f = puts[Min(mine)]
    BY <2>1
  <2>3. Applied(row, d, puts, deletes) = [fields |-> p.fields, created |-> Upsert(base, f).created]
    BY <1>1, <1>2, <1>5, <2>2 DEF Applied
  <2>4. Upsert(base, f).created \in 0..MaxClock
    BY <1>3, <2>2 DEF Upsert, Row, PutRow
  <2>5. Applied(row, d, puts, deletes) \in Row
    BY <2>2, <2>3, <2>4 DEF Row, PutRow
  <2> QED
    BY <2>5
<1> QED
  BY <1>2, <1>4, <1>5

LEMMA PutTyped ==
  ASSUME Typed, NEW w, w.doc \in Doc, NEW now \in 0..MaxClock, Bounded(FieldsAfter(docs[w.doc], w))
  PROVE  Put(docs[w.doc], w, now) \in PutRow
<1>1. docs[w.doc] \in Row \cup {None}
  BY DEF Typed
<1>2. PICK row : row = docs[w.doc]
  OBVIOUS
<1>3. (IF row = None THEN now ELSE row.created) \in 0..MaxClock
  BY <1>1, <1>2 DEF Row
<1> QED
  BY <1>2, <1>3 DEF Put, PutRow, Bounded

LEMMA UpsertTyped ==
  ASSUME NEW row \in Row \cup {None}, NEW p \in PutRow
  PROVE  Upsert(row, p) \in Row
BY DEF Upsert, Row, PutRow

-----------------------------------------------------------------------------
LEMMA StageSeq ==
  ASSUME SeqInv, NEW h \in Handler, StageWrite(h)
  PROVE  SeqInv'
<1>1. PICK q, w, p : q = reg[h] /\ w = Head(q.todo) /\ p = Put(docs[w.doc], w, q.now)
  OBVIOUS
<1>2. q.pc = "stage" /\ q.todo # <<>> /\ RegTyped(q) /\ (turns => Staged(q))
  BY <1>1 DEF StageWrite, At, SeqInv, Typed, InTurn
<1>3. /\ docs' = docs /\ docs \in [Doc -> Row \cup {None}]
      /\ UNCHANGED <<clock, turns>> /\ ~At(h, "idle")
  BY <1>1, <1>2 DEF StageWrite, SeqInv, Typed, At
<1>4. w.doc \in Doc /\ \E W : Tail(q.todo) \in Seq(W) /\ \A v \in W : v.doc \in Doc
  <2>1. PICK W : q.todo \in Seq(W) /\ \A v \in W : v.doc \in Doc
    BY <1>2 DEF RegTyped
  <2>2. w \in W /\ Tail(q.todo) \in Seq(W)
    BY <1>1, <1>2, <2>1, HeadTailProperties
  <2> QED
    BY <2>1, <2>2
<1>5. PICK drop, keep :
        /\ drop = [q EXCEPT !.todo = Tail(@), !.deletes = @ \cup {w.doc}]
        /\ keep = [q EXCEPT !.todo = Tail(@), !.puts = Append(@, p)]
  OBVIOUS
<1>6. \/ Goto(h, Idle)
      \/ Allowed(docs[w.doc], w) /\ w.op = "delete" /\ Goto(h, drop)
      \/ /\ Allowed(docs[w.doc], w) /\ w.op # "delete" /\ Goto(h, keep)
         /\ Bounded(FieldsAfter(docs[w.doc], w))
  BY <1>1, <1>5 DEF StageWrite, Return
<1>7. CASE Goto(h, Idle)
  BY <1>3, <1>7, IdleTyped, GotoSeq
<1>8. CASE Allowed(docs[w.doc], w) /\ w.op = "delete" /\ Goto(h, drop)
  <2>1. /\ drop.pc = "stage" /\ drop.ws = q.ws /\ drop.now = q.now /\ drop.todo = Tail(q.todo)
        /\ drop.puts = q.puts /\ drop.deletes = q.deletes \cup {w.doc}
    BY <1>2, <1>5
  <2>2. RegTyped(drop)
    BY <1>2, <1>4, <2>1 DEF RegTyped
  <2>3. turns => Staged(drop)
    BY <1>1, <1>2, <1>8, <2>1, StagedMore
  <2> QED
    BY <1>3, <1>8, <2>2, <2>3, GotoSeq
<1>9. CASE /\ Allowed(docs[w.doc], w) /\ w.op # "delete" /\ Goto(h, keep)
           /\ Bounded(FieldsAfter(docs[w.doc], w))
  <2>1. /\ keep.pc = "stage" /\ keep.ws = q.ws /\ keep.now = q.now /\ keep.todo = Tail(q.todo)
        /\ keep.puts = Append(q.puts, p) /\ keep.deletes = q.deletes
    BY <1>2, <1>5
  <2>2. p \in PutRow
    BY <1>1, <1>2, <1>4, <1>9, PutTyped DEF RegTyped, SeqInv
  <2>3. RegTyped(keep)
    BY <1>2, <1>4, <2>1, <2>2, AppendProperties DEF RegTyped
  <2>4. turns => Staged(keep)
    BY <1>1, <1>2, <1>9, <2>1, StagedMore
  <2> QED
    BY <1>3, <1>9, <2>3, <2>4, GotoSeq
<1> QED
  BY <1>6, <1>7, <1>8, <1>9

LEMMA AcceptSeq ==
  ASSUME SeqInv, NEW h \in Handler, Accept(h)
  PROVE  SeqInv'
<1>1. /\ docs \in [Doc -> Row \cup {None}] /\ clock \in 0..MaxClock
      /\ <<>> \in Seq(PutRow) /\ <<>> \in Seq({})
  BY DEF SeqInv, Typed
<1>2. ASSUME NEW ws \in Commits, NEW t \in Token \cup {None}, Commit(h, ws, t) PROVE SeqInv'
  <2>1. PICK r : r = [Idle EXCEPT !.pc = "stage", !.ws = ws, !.todo = ws, !.now = clock]
    OBVIOUS
  <2>2. r.pc = "stage" /\ r.ws = ws /\ r.todo = ws /\ r.puts = <<>> /\ r.deletes = {} /\ r.now = clock
    BY <2>1 DEF Idle
  <2>3. ws \in Seq(Writes(ws)) /\ (\A w \in Writes(ws) : w.doc \in Doc) /\ Len(ws) \in Nat
    BY CommitTyped
  <2>4. RegTyped(r)
    BY <1>1, <2>2, <2>3 DEF RegTyped
  <2>5. Count(r) = 0 /\ \A i \in 1..Len(ws) : 0 + i = i
    BY <2>2, <2>3 DEF Count
  <2>6. Staged(r)
    BY <2>2, <2>3, <2>5 DEF Staged, StagedIn
  <2>7. Goto(h, r) /\ Free(h) /\ docs' = docs /\ UNCHANGED <<clock, turns>>
    BY <1>2, <2>1 DEF Commit
  <2> QED
    BY <1>1, <2>4, <2>6, <2>7, GotoSeq
<1>3. ASSUME NEW ws \in Batches, BatchWrite(h, ws) PROVE SeqInv'
  <2>1. PICK r : r = [Idle EXCEPT !.pc = "read", !.todo = ws, !.now = clock]
    OBVIOUS
  <2>2. r.pc = "read" /\ r.todo = ws /\ r.puts = <<>> /\ r.now = clock
    BY <2>1 DEF Idle
  <2>3. ws \in Seq(Writes(ws)) /\ (\A w \in Writes(ws) : w.doc \in Doc) /\ ws # <<>>
    BY CommitTyped, ConstantsAssumption
  <2>4. RegTyped(r)
    BY <1>1, <2>2, <2>3 DEF RegTyped
  <2>5. Goto(h, r) /\ Free(h) /\ docs' = docs /\ UNCHANGED <<clock, turns>>
    BY <1>3, <2>1 DEF BatchWrite
  <2> QED
    BY <1>1, <2>2, <2>4, <2>5, GotoSeq
<1>4. ASSUME NEW p \in PutRow, Goto(h, [Idle EXCEPT !.pc = "put", !.puts = <<p>>]),
             Free(h), docs' = docs, UNCHANGED <<clock, turns>>
      PROVE  SeqInv'
  <2>1. PICK r : r = [Idle EXCEPT !.pc = "put", !.puts = <<p>>]
    OBVIOUS
  <2>2. r.pc = "put" /\ r.todo = <<>> /\ r.puts = <<p>> /\ r.now = 0
    BY <2>1 DEF Idle
  <2>3. <<p>> \in Seq(PutRow) /\ <<p>> # <<>>
    BY <1>4
  <2>4. RegTyped(r)
    BY <1>1, <2>2, <2>3, ConstantsAssumption DEF RegTyped
  <2> QED
    BY <1>1, <1>4, <2>1, <2>2, <2>4, GotoSeq
<1>5. ASSUME NEW d \in Doc, NEW fields \in Contents, CreateDocument(h, d, fields) PROVE SeqInv'
  <2>1. [doc |-> d, fields |-> fields, created |-> clock] \in PutRow
    BY <1>1, ConstantsAssumption DEF PutRow
  <2> QED
    BY <1>4, <1>5, <2>1 DEF CreateDocument
<1>6. ASSUME NEW d \in Doc, NEW fields \in Contents, NEW mask \in (SUBSET Field) \cup {None},
             UpdateDocument(h, d, fields, mask)
      PROVE  SeqInv'
  <2>1. docs[d] \in Row
    BY <1>1, <1>6 DEF UpdateDocument
  <2>2. applyFieldMask(docs[d].fields, fields, mask) \in Value
    BY <2>1, ConstantsAssumption DEF applyFieldMask, Row, Value
  <2>3. [doc |-> d, fields |-> applyFieldMask(docs[d].fields, fields, mask), created |-> docs[d].created]
          \in PutRow
    BY <2>1, <2>2 DEF PutRow, Row
  <2> QED
    BY <1>4, <1>6, <2>3 DEF UpdateDocument
<1> QED
  BY <1>2, <1>3, <1>5, <1>6 DEF Accept

LEMMA AdvanceSeq ==
  ASSUME SeqInv, NEW h \in Handler, Advance(h)
  PROVE  SeqInv'
<1>1. PICK q : q = reg[h]
  OBVIOUS
<1>2. /\ docs \in [Doc -> Row \cup {None}] /\ clock \in 0..MaxClock /\ RegTyped(q)
      /\ <<>> \in Seq(PutRow) /\ <<>> \in Seq({})
  BY <1>1 DEF SeqInv, Typed
<1>3. ASSUME ApplyFirestoreWritesAtomic(h) PROVE SeqInv'
  <2>1. docs' = [d \in Doc |-> Applied(docs[d], d, q.puts, q.deletes)]
    BY <1>1, <1>3 DEF ApplyFirestoreWritesAtomic
  <2>2. \A d \in Doc : Applied(docs[d], d, q.puts, q.deletes) \in Row \cup {None}
    BY <1>2, AppliedTyped DEF RegTyped
  <2>3. Goto(h, Idle) /\ ~At(h, "idle") /\ UNCHANGED <<clock, turns>>
    BY <1>3 DEF ApplyFirestoreWritesAtomic, Return, At
  <2> QED
    BY <2>1, <2>2, <2>3, IdleTyped, GotoSeq
<1>4. ASSUME ApplyWrite(h) PROVE SeqInv'
  <2>1. PICK w, rest, p : w = Head(q.todo) /\ rest = Tail(q.todo) /\ p = Put(docs[w.doc], w, clock)
    OBVIOUS
  <2>2. q.pc = "read" /\ q.todo # <<>> /\ ~At(h, "idle") /\ UNCHANGED <<clock, turns>>
    BY <1>1, <1>2, <1>4 DEF ApplyWrite, At, RegTyped
  <2>3. w.doc \in Doc /\ \E W : rest \in Seq(W) /\ \A v \in W : v.doc \in Doc
    <3>1. PICK W : q.todo \in Seq(W) /\ \A v \in W : v.doc \in Doc
      BY <1>2 DEF RegTyped
    <3>2. w \in W /\ rest \in Seq(W)
      BY <2>1, <2>2, <3>1, HeadTailProperties
    <3> QED
      BY <3>1, <3>2
  <2>4. PICK more, put :
          /\ more = [q EXCEPT !.todo = rest]
          /\ put = [q EXCEPT !.pc = "put", !.todo = rest, !.puts = <<p>>]
    OBVIOUS
  <2>5. \/ /\ docs' = [docs EXCEPT ![w.doc] = None]
           /\ Goto(h, Idle) \/ (rest # <<>> /\ Goto(h, more))
        \/ docs' = docs /\ Bounded(FieldsAfter(docs[w.doc], w)) /\ Goto(h, put)
    BY <1>1, <1>4, <2>1, <2>4 DEF ApplyWrite, Return
  <2>6. CASE /\ docs' = [docs EXCEPT ![w.doc] = None]
             /\ Goto(h, Idle) \/ (rest # <<>> /\ Goto(h, more))
    <3>1. docs' \in [Doc -> Row \cup {None}]
      BY <1>2, <2>6
    <3>2. rest = <<>> \/ (RegTyped(more) /\ more.pc = "read")
      BY <1>2, <2>2, <2>3, <2>4 DEF RegTyped
    <3>3. CASE Goto(h, Idle)
      BY <2>2, <3>1, <3>3, IdleTyped, GotoSeq
    <3>4. CASE rest # <<>> /\ Goto(h, more)
      BY <2>2, <3>1, <3>2, <3>4, GotoSeq
    <3> QED
      BY <2>6, <3>3, <3>4
  <2>7. CASE docs' = docs /\ Bounded(FieldsAfter(docs[w.doc], w)) /\ Goto(h, put)
    <3>1. p \in PutRow
      BY <1>2, <2>1, <2>3, <2>7, PutTyped DEF SeqInv
    <3>2. <<p>> \in Seq(PutRow) /\ <<p>> # <<>>
      BY <3>1
    <3>3. put.pc = "put" /\ put.todo = rest /\ put.puts = <<p>> /\ put.now = q.now
      BY <2>4
    <3>4. RegTyped(put)
      BY <1>2, <2>3, <3>2, <3>3 DEF RegTyped
    <3> QED
      BY <1>2, <2>2, <2>7, <3>3, <3>4, GotoSeq
  <2> QED
    BY <2>5, <2>6, <2>7
<1>5. ASSUME PutFirestoreDoc(h) PROVE SeqInv'
  <2>1. PICK p, more : p = Head(q.puts) /\ more = [q EXCEPT !.pc = "read", !.puts = <<>>]
    OBVIOUS
  <2>2. q.pc = "put" /\ q.puts # <<>> /\ ~At(h, "idle") /\ UNCHANGED <<clock, turns>>
    BY <1>1, <1>2, <1>5 DEF PutFirestoreDoc, At, RegTyped
  <2>3. p \in PutRow
    BY <1>2, <2>1, <2>2 DEF RegTyped
  <2>4. docs' = [docs EXCEPT ![p.doc] = Upsert(docs[p.doc], p)]
    BY <1>1, <1>5, <2>1 DEF PutFirestoreDoc
  <2>5. p.doc \in Doc /\ Upsert(docs[p.doc], p) \in Row
    BY <1>2, <2>3, UpsertTyped DEF PutRow
  <2>6. docs' \in [Doc -> Row \cup {None}]
    BY <1>2, <2>4, <2>5
  <2>7. Goto(h, Idle) \/ (q.todo # <<>> /\ Goto(h, more))
    BY <1>1, <1>5, <2>1 DEF PutFirestoreDoc, Return
  <2>8. CASE Goto(h, Idle)
    BY <2>2, <2>6, <2>8, IdleTyped, GotoSeq
  <2>9. CASE q.todo # <<>> /\ Goto(h, more)
    <3>1. more.pc = "read" /\ more.todo = q.todo /\ more.puts = <<>> /\ more.now = q.now
      BY <2>1
    <3>2. RegTyped(more)
      BY <1>2, <2>9, <3>1 DEF RegTyped
    <3> QED
      BY <2>2, <2>6, <2>9, <3>1, <3>2, GotoSeq
  <2> QED
    BY <2>7, <2>8, <2>9
<1> QED
  BY <1>3, <1>4, <1>5, StageSeq DEF Advance

LEMMA NextSeq == SeqInv /\ [Next]_vars => SeqInv'
<1> SUFFICES ASSUME SeqInv, [Next]_vars PROVE SeqInv'
  OBVIOUS
<1>1. ASSUME UNCHANGED <<docs, reg, turns>>, clock' \in 0..MaxClock PROVE SeqInv'
  <2>1. Typed'
    BY <1>1 DEF SeqInv, Typed
  <2>2. InTurn'
    <3>1. ASSUME NEW h \in Handler, Staged(reg[h]) PROVE Staged(reg[h])'
      BY <1>1, <3>1 DEF Staged
    <3> QED
      BY <1>1, <3>1 DEF SeqInv, InTurn, At
  <2> QED
    BY <2>1, <2>2 DEF SeqInv
<1>2. clock \in 0..MaxClock
  BY DEF SeqInv, Typed
<1>3. CASE (\E t \in Token : BeginTransaction(t) \/ Rollback(t)) \/ UNCHANGED vars
  BY <1>1, <1>2, <1>3 DEF BeginTransaction, Rollback, vars
<1>4. CASE Tick
  <2>1. clock' \in 0..MaxClock
    BY <1>2, <1>4, ConstantsAssumption DEF Tick
  <2> QED
    BY <1>1, <1>4, <2>1 DEF Tick
<1>5. CASE Restart
  <2>1. \A h \in Handler : reg'[h] = Idle
    BY <1>5 DEF Restart
  <2>2. Typed'
    BY <1>5, <2>1, IdleTyped DEF Restart, SeqInv, Typed
  <2>3. InTurn'
    BY <2>1, IdleTyped DEF InTurn, At
  <2> QED
    BY <2>2, <2>3 DEF SeqInv
<1>6. ASSUME NEW d \in Doc, DeleteDocument(d) PROVE SeqInv'
  <2>1. Typed'
    BY <1>6 DEF DeleteDocument, SeqInv, Typed
  <2>2. InTurn'
    <3>1. SUFFICES ASSUME turns' PROVE \A h \in Handler : reg'[h].pc = "idle"
      BY DEF InTurn, At
    <3> QED
      BY <1>6, <3>1 DEF DeleteDocument, At
  <2> QED
    BY <2>1, <2>2 DEF SeqInv
<1> QED
  BY <1>3, <1>4, <1>5, <1>6, AcceptSeq, AdvanceSeq DEF Next

-----------------------------------------------------------------------------
(***************************************************************************)
(* What the writes of a commit leave one after the other.                  *)
(***************************************************************************)

\* The states of a document that its writes lead through are those that meet the
\* definition of InOrder: two functions that meet it differ nowhere first.
LEMMA InOrderIs ==
  ASSUME NEW ws, Len(ws) \in Nat, NEW d, NEW g,
         g = [i \in 0..Len(ws) |->
                IF i = 0 THEN docs[d]
                ELSE IF ws[i].doc = d THEN After(g[i - 1], ws[i]) ELSE g[i - 1]]
  PROVE  InOrder(ws, d) = g[Len(ws)]
<1>1. PICK N : N = Len(ws)
  OBVIOUS
<1> DEFINE F == CHOOSE f : f = [i \in 0..N |->
                  IF i = 0 THEN docs[d]
                  ELSE IF ws[i].doc = d THEN After(f[i - 1], ws[i]) ELSE f[i - 1]]
<1>2. InOrder(ws, d) = F[N]
  BY <1>1 DEF InOrder
<1>3. F = [i \in 0..N |->
             IF i = 0 THEN docs[d]
             ELSE IF ws[i].doc = d THEN After(F[i - 1], ws[i]) ELSE F[i - 1]]
  BY <1>1
<1> HIDE DEF F
<1> DEFINE D == {i \in 0..N : F[i] # g[i]}
<1>4. ASSUME D # {} PROVE FALSE
  <2>1. PICK i \in D : \A j \in D : i <= j
    <3>1. D \subseteq Nat
      BY <1>1
    <3> HIDE DEF D
    <3> QED
      BY <1>4, <3>1, LeastNumber
  <2>2. i \in 0..N /\ F[i] # g[i] /\ N \in Nat
    BY <1>1
  <2>3. i # 0
    BY <1>1, <1>3, <2>2
  <2>4. i - 1 \in 0..N /\ ~(i <= i - 1)
    BY <2>2, <2>3
  <2>5. F[i - 1] = g[i - 1]
    BY <2>1, <2>4
  <2>6. F[i] = IF ws[i].doc = d THEN After(F[i - 1], ws[i]) ELSE F[i - 1]
    <3> HIDE DEF D
    <3> QED BY <1>3, <2>2, <2>3
  <2>7. g[i] = IF ws[i].doc = d THEN After(g[i - 1], ws[i]) ELSE g[i - 1]
    <3> HIDE DEF D
    <3> QED BY <1>1, <2>2, <2>3
  <2> QED
    BY <2>2, <2>5, <2>6, <2>7
<1>5. N \in 0..N
  BY <1>1
<1>6. F[N] = g[N]
  BY <1>4, <1>5
<1> QED
  BY <1>1, <1>2, <1>6

\* A document that one write of a commit names, or none.
LEMMA OneWrite ==
  ASSUME NEW ws, Len(ws) \in Nat, NEW d, NEW j \in 0..Len(ws),
         \A i \in 1..Len(ws) : ws[i].doc = d <=> i = j
  PROVE  InOrder(ws, d) = IF j = 0 THEN docs[d] ELSE After(docs[d], ws[j])
<1>1. PICK N : N = Len(ws) /\ N \in Nat
  OBVIOUS
<1> DEFINE out == After(docs[d], ws[j])
<1>2. PICK g : g = [i \in 0..N |-> IF j = 0 \/ i < j THEN docs[d] ELSE out]
  OBVIOUS
<1>3. ASSUME NEW i \in 0..N
      PROVE  g[i] = IF i = 0 THEN docs[d]
                    ELSE IF ws[i].doc = d THEN After(g[i - 1], ws[i]) ELSE g[i - 1]
  <2>1. CASE i = 0
    BY <1>1, <1>2, <2>1
  <2>2. CASE i # 0
    <3>1. i \in 1..N /\ i - 1 \in 0..N /\ j \in 0..N /\ N \in Nat
      BY <1>1, <2>2
    <3>2. g[i] = (IF j = 0 \/ i < j THEN docs[d] ELSE out)
      BY <1>2
    <3>3. g[i - 1] = (IF j = 0 \/ i - 1 < j THEN docs[d] ELSE out)
      BY <1>2, <3>1
    <3>4. CASE i = j
      <4>1. j # 0 /\ ~(i < j) /\ i - 1 < j
        BY <2>2, <3>1, <3>4
      <4>2. ws[i].doc = d
        BY <1>1, <3>1, <3>4
      <4> QED
        BY <2>2, <3>2, <3>3, <3>4, <4>1, <4>2
    <3>5. CASE i # j
      <4>1. i < j <=> i - 1 < j
        BY <3>1, <3>5
      <4>2. ws[i].doc # d
        BY <1>1, <3>1, <3>5
      <4> QED
        BY <2>2, <3>2, <3>3, <4>1, <4>2
    <3> QED
      BY <3>4, <3>5
  <2> QED
    BY <2>1, <2>2
<1>4. g = [i \in 0..N |-> IF i = 0 THEN docs[d]
                          ELSE IF ws[i].doc = d THEN After(g[i - 1], ws[i]) ELSE g[i - 1]]
  BY <1>2, <1>3
<1>5. InOrder(ws, d) = g[N]
  BY <1>1, <1>4, InOrderIs
<1>6. N \in 0..N /\ (j = 0 \/ N < j <=> j = 0)
  BY <1>1
<1> QED
  BY <1>2, <1>5, <1>6

\* A commit that has staged all of its writes was allowed each of them.
LEMMA CommitSatisfied ==
  ASSUME NEW r, Staged(r), r.todo = <<>>
  PROVE  Satisfied(r.ws)
<1>1. Len(r.ws) \in Nat /\ DOMAIN r.ws = 1..Len(r.ws)
  BY CommitTyped DEF Staged, StagedIn
<1>2. Count(r) = Len(r.ws)
  BY <1>1 DEF Count
<1> QED
  BY <1>1, <1>2 DEF Satisfied, Staged, StagedIn

\* The transaction that a commit ends with leaves what its writes leave in order.
LEMMA AppliedInOrder ==
  ASSUME Typed, NEW r, RegTyped(r), Staged(r), r.todo = <<>>, Distinct(r.ws), NEW d \in Doc
  PROVE  FieldsOf(Applied(docs[d], d, r.puts, r.deletes)) = FieldsOf(InOrder(r.ws, d))
<1>1. PICK ws, N : ws = r.ws /\ N = Len(ws)
  OBVIOUS
<1>2. N \in Nat /\ DOMAIN ws = 1..N /\ Count(r) = N
  BY <1>1, CommitTyped DEF Staged, StagedIn, Count
<1>4. PICK mine : mine = {i \in DOMAIN r.puts : r.puts[i].doc = d}
  OBVIOUS
<1>5. DOMAIN r.puts = 1..Len(r.puts) /\ Len(r.puts) \in Nat /\ mine \subseteq 1..Len(r.puts)
  BY <1>4 DEF RegTyped
<1>6. \A i, j \in 1..N : ws[i].doc = ws[j].doc => i = j
  BY <1>1, <1>2 DEF Distinct
<1>7. \A i : RowOf(r, i).doc = ws[i].doc
  BY <1>1 DEF RowOf, RowIn, Put
<1>8. docs[d] \in Row \cup {None}
  BY DEF Typed
<1>9. CASE \A i \in 1..N : ws[i].doc # d
  <2>1. d \notin r.deletes
    BY <1>1, <1>2, <1>9 DEF Staged, StagedIn
  <2>2. mine = {}
    <3> SUFFICES ASSUME NEW k \in 1..Len(r.puts), r.puts[k].doc = d PROVE FALSE
      BY <1>4, <1>5
    <3>1. PICK i \in 1..N : r.puts[k] = RowOf(r, i)
      BY <1>1, <1>2 DEF Staged, StagedIn, RowOf
    <3> QED
      BY <1>7, <1>9, <3>1
  <2>3. Applied(docs[d], d, r.puts, r.deletes) = docs[d]
    BY <1>4, <2>1, <2>2 DEF Applied
  <2>4. 0 \in 0..N /\ \A i \in 1..N : ws[i].doc = d <=> i = 0
    BY <1>2, <1>9
  <2>5. InOrder(ws, d) = docs[d]
    BY <1>1, <1>2, <2>4, OneWrite
  <2> QED
    BY <1>1, <2>3, <2>5
<1>10. ASSUME NEW j \in 1..N, ws[j].doc = d
       PROVE  FieldsOf(Applied(docs[d], d, r.puts, r.deletes)) = FieldsOf(InOrder(ws, d))
  <2>1. j \in 0..N /\ j # 0 /\ \A i \in 1..N : ws[i].doc = d <=> i = j
    BY <1>2, <1>6, <1>10
  <2>2. InOrder(ws, d) = After(docs[d], ws[j])
    BY <1>1, <1>2, <2>1, OneWrite
  <2>3. CASE ws[j].op = "delete"
    <3>1. d \in r.deletes
      BY <1>1, <1>2, <1>10, <2>3 DEF Staged, StagedIn
    <3>2. mine = {}
      <4> SUFFICES ASSUME NEW k \in 1..Len(r.puts), r.puts[k].doc = d PROVE FALSE
        BY <1>4, <1>5
      <4>1. PICK i \in 1..N : ws[i].op # "delete" /\ r.puts[k] = RowOf(r, i)
        BY <1>1, <1>2 DEF Staged, StagedIn, RowOf
      <4> QED
        BY <1>7, <2>1, <2>3, <4>1
    <3>3. Applied(docs[d], d, r.puts, r.deletes) = None
      BY <1>4, <3>1, <3>2 DEF Applied
    <3> QED
      BY <2>2, <2>3, <3>3 DEF After
  <2>4. CASE ws[j].op # "delete"
    <3>1. d \notin r.deletes
      <4> SUFFICES ASSUME d \in r.deletes PROVE FALSE
        OBVIOUS
      <4>1. PICK i \in 1..N : ws[i].op = "delete" /\ ws[i].doc = d
        BY <1>1, <1>2 DEF Staged, StagedIn
      <4> QED
        BY <2>1, <2>4, <4>1
    <3>2. PICK k \in 1..Len(r.puts) : r.puts[k] = RowOf(r, j)
      BY <1>1, <1>2, <2>4 DEF Staged, StagedIn, RowOf
    <3>3. mine # {}
      BY <1>4, <1>5, <1>7, <1>10, <3>2
    <3>4. Max(mine) \in mine /\ Min(mine) \in mine
      BY <1>5, <3>3, Extremes
    <3>5. r.puts[Max(mine)] = RowOf(r, j)
      <4>1. PICK i \in 1..N : r.puts[Max(mine)] = RowOf(r, i)
        BY <1>1, <1>2, <1>5, <3>4 DEF Staged, StagedIn, RowOf
      <4> QED
        BY <1>4, <1>7, <2>1, <3>4, <4>1
    <3>6. PICK row : row = Applied(docs[d], d, r.puts, r.deletes)
      OBVIOUS
    <3>7. row \in Row
      BY <1>4, <1>8, <3>3, <3>6, AppliedTyped DEF RegTyped
    <3>8. row = [fields |-> FieldsAfter(docs[d], ws[j]), created |-> row.created]
      BY <1>1, <1>4, <1>10, <3>3, <3>5, <3>6 DEF Applied, RowOf, RowIn, Put
    <3>9. FieldsAfter(docs[d], ws[j]) \in Value
      <4>1. r.puts[k] \in PutRow /\ r.puts[k].fields = FieldsAfter(docs[d], ws[j])
        BY <1>1, <1>10, <3>2 DEF RegTyped, RowOf, RowIn, Put
      <4> QED
        BY <4>1 DEF PutRow
    <3>10. Put(docs[d], ws[j], 0) \in PutRow
      BY <1>8, <1>10, <3>9, ConstantsAssumption DEF Put, PutRow, Row
    <3>11. After(docs[d], ws[j]) \in Row /\ After(docs[d], ws[j]).fields = FieldsAfter(docs[d], ws[j])
      BY <1>8, <2>4, <3>10, UpsertTyped DEF After, Upsert, Put
    <3>12. row # None /\ row.fields = FieldsAfter(docs[d], ws[j])
      BY <3>7, <3>8, ConstantsAssumption
    <3> QED
      BY <1>1, <2>2, <3>6, <3>11, <3>12, ConstantsAssumption DEF FieldsOf
  <2> QED
    BY <2>3, <2>4
<1> QED
  BY <1>1, <1>9, <1>10

\* What a commit has staged is what its writes make of the documents as they still are,
\* while clients take turns (stageWrite).
THEOREM Invariance == Spec => []SeqInv
  BY InitSeq, NextSeq, PTL DEF Spec

\* While clients take turns, a Commit of writes to different documents goes ahead only
\* if each of them is allowed by the documents as they are, and leaves exactly what
\* they leave one after the other, although it stages them first and applies the
\* deletes before the puts.
THEOREM CommitIsSequentialHolds == Spec => CommitIsSequential
<1>1. SeqInv /\ [Next]_vars =>
        [\A h \in Handler : turns /\ ApplyFirestoreWritesAtomic(h) /\ Distinct(reg[h].ws) =>
           /\ Satisfied(reg[h].ws)
           /\ \A d \in Doc : FieldsOf(docs'[d]) = FieldsOf(InOrder(reg[h].ws, d))]_vars
  <2> SUFFICES ASSUME SeqInv, NEW h \in Handler, turns,
                      ApplyFirestoreWritesAtomic(h), Distinct(reg[h].ws)
               PROVE  /\ Satisfied(reg[h].ws)
                      /\ \A d \in Doc : FieldsOf(docs'[d]) = FieldsOf(InOrder(reg[h].ws, d))
    OBVIOUS
  <2>1. PICK r : r = reg[h]
    OBVIOUS
  <2>2. /\ Typed /\ RegTyped(r) /\ Staged(r) /\ r.todo = <<>> /\ Distinct(r.ws)
        /\ docs' = [d \in Doc |-> Applied(docs[d], d, r.puts, r.deletes)]
    BY <2>1 DEF SeqInv, Typed, InTurn, ApplyFirestoreWritesAtomic, At
  <2>3. \A d \in Doc : FieldsOf(docs'[d]) = FieldsOf(InOrder(r.ws, d))
    BY <2>2, AppliedInOrder
  <2>4. Satisfied(r.ws)
    BY <2>2, CommitSatisfied
  <2> QED
    BY <2>1, <2>3, <2>4
<1> QED
  BY <1>1, Invariance, PTL DEF Spec, CommitIsSequential
=============================================================================
