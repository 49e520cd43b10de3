------------------------------- MODULE Steps -------------------------------
(***************************************************************************)
(* The vocabulary in which the request handlers of the control plane are   *)
(* written.  A handler is the sequence of the checks and the SQL           *)
(* statements it makes, in the order of its source: between two of them    *)
(* other handlers run, since the store (internal/store) only makes single  *)
(* statements and transactions atomic.                                     *)
(*                                                                         *)
(* One row of each table matters: the one the requests name.  A column     *)
(* holds the marks of the requests whose words are in it, or a constant    *)
(* that the code compares with.                                            *)
(***************************************************************************)
EXTENDS Sequences, SequencesExt

Columns == {"body", "state", "disabled", "parent", "policy"}
Missing == [c \in Columns \cup {"missing"} |-> {}]     \* there is no row, and no words in it

Statement(do, on, cols) == [do |-> do, on |-> on, cols |-> cols, sub |-> <<>>]

-----------------------------------------------------------------------------
(* Checks of the request alone.  Each refuses the request that fails it.   *)

Require(permission) == Statement("permission", permission, <<>>)  \* Authz.Evaluate
RequireEither(first, second) == Require(first \o " or " \o second)
Gates               == Statement("gates", "", <<>>)     \* RequireProjectAPIGates
ActAs               == Statement("actAs", "", <<>>)     \* RequireServiceAccountActAs
Body                == Statement("body", "", <<>>)      \* the request is well formed
Checks              == {"permission", "gates", "actAs", "body"}
Later               == Statement("later", "later", <<>>)   \* a later part of the request is not:
                                                          \* the earlier parts are stored

-----------------------------------------------------------------------------
(* Statements.                                                             *)

Get(t)      == Statement("get", t, <<>>)        \* read it; missing ends the request: not found
Exists(t)   == Statement("exists", t, <<>>)     \* the same, and nothing of it is used
Peek(t)     == Statement("peek", t, <<>>)       \* read it; the handler goes on without it
Lacks(t)    == Statement("lacks", t, <<>>)      \* read it; present ends the request: conflict
List(t)     == Statement("peek", t, <<>>)       \* one query of its own
Unless(t, col, value) ==                        \* what was read has that value: answer success
  Statement("unless", t, [c \in {col} |-> value])
Forbid(t, col, value) ==                        \* what was read has that value: refuse
  Statement("forbid", t, [c \in {col} |-> value])
Hidden(t, col, value) ==                        \* what was read has that value: not found
  Statement("hidden", t, [c \in {col} |-> value])
Must(t)     == Statement("must", t, <<>>)       \* what was read was missing: not found
Answer      == Statement("answer", "", <<>>)    \* answer success

Reload(t)   == Statement("reload", t, <<>>)     \* read it for the answer; missing: internal error
Still(t)    == Statement("still", t, <<>>)      \* the same, and nothing of it is used
Same(t, col) ==                                 \* a column was changed since it was read: internal error
  Statement("same", t, [c \in {col} |-> ""])
Again(t)    == Statement("again", t, <<>>)      \* the same; missing: not found, what was done stays
AgainUnless(t, state) ==                        \* ... or marked
  Statement("again", t, [state |-> state])

Insert(t)   == Statement("insert", t, <<>>)     \* INSERT OR IGNORE; present: conflict
InsertUnder(t, parent) ==                       \* the same, with a FOREIGN KEY
  Statement("foreign", t, [parent |-> parent])
InsertAs(t, cols) == Statement("insert", t, cols)  \* with the constants of cols
Claim(t)    == Statement("claim", t, <<>>)      \* the same; present: internal error
Ensure(t)   == Statement("ensure", t, <<>>)     \* INSERT OR IGNORE; present: go on
Generate(t) == Ensure(t)                        \* INSERT under an id of its own
Put(t)      == Statement("put", t, <<>>)        \* insert or replace
\* UPDATE: a column gets the request's own words ("own"), what was read with them
\* added ("merge"), what was read ("back") or a constant.
Write(t, cols)  == Statement("write", t, cols)  \* missing: nothing is written, go on
Change(t, cols) == Statement("change", t, cols) \* missing: not found
Delete(t)   == Statement("delete", t, <<>>)     \* missing: not found
Drop(t)     == Statement("drop", t, <<>>)       \* missing: go on
Take(t)     == Statement("take", t, <<>>)       \* the same, and whether it was there is known
When(t, col, value, step) ==                    \* only if what was read has that value
  [Statement("when", t, [c \in {col} |-> value]) EXCEPT !.sub = <<step>>]
IfMissing(t, step) ==                           \* only if the row was not there
  [Statement("ifMissing", t, <<>>) EXCEPT !.sub = <<step>>]
IfFound(t, step) ==                             \* only if it was
  [Statement("ifFound", t, <<>>) EXCEPT !.sub = <<step>>]
\* Work outside the store that may fail, an insert that finds the row there, or an
\* UPDATE that finds none; the handler then undoes what it did.
Undo(step) == IF step.do = "atomic" THEN step.sub ELSE <<step>>
Fallible(reason, undo) == [Statement("fallible", reason, <<>>) EXCEPT !.sub = Undo(undo)]
InsertOr(t, undo)      == [Statement("insertOr", t, <<>>) EXCEPT !.sub = Undo(undo)]
WriteOr(t, cols, undo) == [Statement("writeOr", t, cols) EXCEPT !.sub = Undo(undo)]
Atomic(steps) ==                                \* a transaction
  [do |-> "atomic", on |-> "", cols |-> <<>>, sub |-> steps]
TryInsert(t) == Atomic(<<Peek(t), Ensure(t)>>)  \* INSERT OR IGNORE, and whether it was there
GetUnless(t, state) == Atomic(<<Get(t), Hidden(t, "state", state)>>)  \* SELECT or UPDATE ... WHERE
ChangeUnless(t, state, cols) == Atomic(<<Get(t), Hidden(t, "state", state), Write(t, cols)>>)
Revise(t, cols) == Atomic(<<Again(t), Write(t, cols)>>)  \* UPDATE; missing: what was done stays

\* The statements by what they do to a row, and those that depend on one.
Inserts     == {"insert", "insertOr", "foreign", "claim", "ensure", "put"}
Updates     == {"write", "change", "writeOr"}
Removals    == {"delete", "drop"}
Reads       == {"get", "exists", "peek", "lacks", "unless", "forbid", "hidden", "must", "answer",
                "reload", "still", "same", "again"}
Conditional == {"when", "ifMissing", "ifFound"}
Reverting   == {"fallible", "insertOr", "writeOr"}

-----------------------------------------------------------------------------
(* What a step does.  A request st has a mark (me), the step that refuses   *)
(* it if one does (input), the step it is at, the tables as it finds them  *)
(* (db), the rows it has read (seen) and its answer (code), empty while it *)
(* runs.                                                                   *)

End(st, code)  == [st EXCEPT !.code = code]
Store(st, t, row) == [st EXCEPT !.db[t] = row]
NewRow(me)     == [c \in Columns |-> {me}]
NewRowAs(me, cols) == [c \in Columns |-> {IF c \in DOMAIN cols THEN cols[c] ELSE me}]

Column(st, s, c) ==
  IF c \notin DOMAIN s.cols THEN st.db[s.on][c] ELSE
  CASE s.cols[c] = "own"       -> {st.me}
    [] s.cols[c] = "merge"     -> st.seen[s.on][c] \cup {st.me}
    [] s.cols[c] = "back"      -> st.seen[s.on][c]
    [] OTHER                   -> {s.cols[c]}
Written(st, s) == Store(st, s.on, [c \in Columns |-> Column(st, s, c)])

HasValue(st, s) == st.seen[s.on] # Missing /\ \A c \in DOMAIN s.cols : st.seen[s.on][c] = {s.cols[c]}

\* A single statement.
Once(st, s) ==
  LET here == st.db[s.on] # Missing
      read == [st EXCEPT !.seen[s.on] = st.db[s.on]]
  IN  CASE s.do \in Checks  -> IF st.input = st.at THEN End(st, "refused") ELSE st
        [] s.do = "get"     -> IF here THEN read ELSE End(st, "not found")
        [] s.do = "exists"  -> IF here THEN st ELSE End(st, "not found")
        [] s.do = "peek"    -> read
        [] s.do = "reload"  -> IF here THEN read ELSE End(st, "internal")
        [] s.do = "still"   -> IF here THEN st ELSE End(st, "internal")
        [] s.do = "same"    -> IF here /\ \E c \in DOMAIN s.cols : st.db[s.on][c] # st.seen[s.on][c]
                               THEN End(st, "internal") ELSE st
        [] s.do = "again"   -> IF here /\ (s.cols = <<>> \/ ~HasValue(read, s)) THEN read ELSE End(st, "gone")
        [] s.do = "lacks"   -> IF here THEN End(st, "conflict") ELSE st
        [] s.do = "unless"  -> IF HasValue(st, s) THEN End(st, "ok") ELSE st
        [] s.do = "forbid"  -> IF HasValue(st, s) THEN End(st, "precondition") ELSE st
        [] s.do = "hidden"  -> IF HasValue(st, s) THEN End(st, "not found") ELSE st
        [] s.do = "must"    -> IF st.seen[s.on] = Missing THEN End(st, "not found") ELSE st
        [] s.do = "answer"  -> End(st, "ok")
        [] s.do = "insert"  -> IF here THEN End(st, "conflict") ELSE Store(st, s.on, NewRowAs(st.me, s.cols))
        [] s.do = "foreign" -> IF here THEN End(st, "conflict")
                               ELSE IF st.db[s.cols.parent] = Missing THEN End(st, "internal")
                               ELSE Store(st, s.on, NewRow(st.me))
        [] s.do = "claim"   -> IF here THEN End(st, "internal") ELSE Store(st, s.on, NewRow(st.me))
        [] s.do = "ensure"  -> IF here THEN st ELSE Store(st, s.on, NewRow(st.me))
        [] s.do = "put"     -> Store(st, s.on, NewRow(st.me))
        [] s.do = "write"   -> IF here THEN Written(st, s) ELSE st
        [] s.do = "change"  -> IF here THEN Written(st, s) ELSE End(st, "not found")
        [] s.do = "delete"  -> IF here THEN Store(st, s.on, Missing) ELSE End(st, "not found")
        [] s.do = "drop"    -> Store(st, s.on, Missing)
        [] s.do = "take"    -> Store(read, s.on, Missing)

\* The steps that undo what a handler did, each whatever it finds.
Reversal(st, steps) ==
  LET after[k \in 0 .. Len(steps)] ==
        IF k = 0 THEN st ELSE [Once(after[k - 1], steps[k]) EXCEPT !.code = ""]
  IN  after
Undone(st, steps) == End(Reversal(st, steps)[Len(steps)], "undone")

\* Whether a conditional step is made, whether one that can fail does, and the statement
\* that either makes.
Holds(st, s) ==
  CASE s.do = "when"      -> HasValue(st, s)
    [] s.do = "ifMissing" -> st.seen[s.on] = Missing
    [] s.do = "ifFound"   -> st.seen[s.on] # Missing
Fails(st, s) ==
  CASE s.do = "insertOr" -> st.db[s.on] # Missing
    [] s.do = "writeOr"  -> st.db[s.on] = Missing
    [] OTHER             -> st.input = st.at
Made(s) ==
  CASE s.do \in Conditional -> s.sub[1]
    [] s.do = "insertOr"     -> Insert(s.on)
    [] s.do = "writeOr"      -> Write(s.on, s.cols)
    [] OTHER                 -> s

Guarded(st, s) ==
  CASE s.do = "later" -> IF Fails(st, s) THEN End(st, "partly") ELSE st
    [] s.do = "fallible" /\ ~Fails(st, s) -> st
    [] s.do \in Reverting /\ Fails(st, s) -> Undone(st, s.sub)
    [] s.do \in Conditional /\ ~Holds(st, s) -> st
    [] OTHER -> Once(st, Made(s))

\* A transaction that ends the request rolls back.
Transaction(st, steps) ==
  LET after[k \in 0 .. Len(steps)] ==
        IF k = 0 THEN st
        ELSE LET before == after[k - 1]
             IN  IF before.code = "" THEN Guarded(before, steps[k]) ELSE before
  IN  after

\* Mutant: a handler that fails leaves what it did.
DoKeeping(st, s) ==
  IF s.do = "atomic" THEN LET after == Transaction(st, s.sub)[Len(s.sub)]
                          IN  IF after.code \in {"", "ok"} THEN after ELSE End(st, after.code)
  ELSE IF s.do = "fallible" /\ st.input = st.at THEN End(st, "undone")
  ELSE Guarded(st, s)

Do(st, s) ==
  IF s.do # "atomic" THEN Guarded(st, s)
  ELSE LET after == Transaction(st, s.sub)[Len(s.sub)]
       IN  IF after.code \in {"", "ok"} THEN after ELSE End(st, after.code)

\* The whole program, undisturbed.
Run(st, program) ==
  LET after[k \in 0 .. Len(program)] ==
        IF k = 0 THEN st
        ELSE LET before == after[k - 1]
             IN  [IF before.code = "" THEN Do(before, program[k]) ELSE before EXCEPT !.at = @ + 1]
      last == after[Len(program)]
  IN  IF last.code = "" THEN End(last, "ok") ELSE last
=============================================================================
