------------------------------ MODULE Handlers ------------------------------
(***************************************************************************)
(* Requests to the control plane, side by side.  Each handler runs the     *)
(* program of its operation one step at a time, as the goroutines that     *)
(* net/http starts for them do; the programs are those of the Ops modules. *)
(* The process may stop between any two steps: the tables stay as they are *)
(* and the requests get no answer.                                         *)
(***************************************************************************)
EXTENDS Steps, FiniteSets

CONSTANTS
  Handler,      \* requests, each with a mark of its own
  Groups        \* by name, the operations that share tables: [ops |-> <<program, ...>>,
                \*   rows |-> [table |-> {the tables whose row it lives under}]], and for the
                \*   tables whose state the programs compare, states |-> [table |-> {state}]

\* Every table a program names is one of its group.
TablesOf(s) ==
  CASE s.do \in Checks \cup {"fallible", "later", "answer"} -> {}
    [] s.do = "foreign" -> {s.on, s.cols.parent}
    [] s.do = "atomic"  -> {}
    [] OTHER            -> {s.on}
ASSUME GroupsAssumption ==
  \A g \in DOMAIN Groups : \A i \in DOMAIN Groups[g].ops :
    \A s \in UNION {Range(<<x>> \o x.sub) : x \in Range(Groups[g].ops[i])} :
      TablesOf(s) \subseteq DOMAIN Groups[g].rows

\* The statements a step may execute, other than to undo earlier ones.
Acting(s) == IF s.do \in Conditional THEN {s.sub[1]} ELSE {s}
Acts(s)   == IF s.do = "atomic" THEN UNION {Acting(x) : x \in Range(s.sub)} ELSE Acting(s)

Stored(s)   == {x.on : x \in {y \in Acts(s) : y.do \in Inserts \cup Updates}}  \* leaves words in
Created(s)  == {x.on : x \in {y \in Acts(s) : y.do \in Inserts}}
Restored(s) ==                                   \* writes back what was read
  {x.on : x \in {y \in Acts(s) : y.do \in Updates /\ \E c \in DOMAIN y.cols : y.cols[c] \in {"merge", "back"}}}
Taken(s) == {x.on : x \in Range(s.sub)}

\* The steps the modules Ops use.
IsSequence(q) == Len(q) \in Nat /\ DOMAIN q = 1 .. Len(q)
Single(s) == s.do \in Checks \cup Reads \cup ((Inserts \cup Updates) \ Reverting) \cup Removals \cup {"take"}
Guard(s)  == Single(s) \/ (s.do \in Conditional /\ Single(s.sub[1]))
Step(s) ==
  \/ Guard(s) \/ s.do = "later"
  \/ s.do \in Reverting /\ IsSequence(s.sub) /\ \A x \in Range(s.sub) : x.do \in Removals
  \/ s.do = "atomic" /\ IsSequence(s.sub) /\ \A x \in Range(s.sub) : Guard(x) /\ \A y \in Acting(x) : y.do \notin Checks

\* A handler checks the request before it stores anything of it.
ChecksFirst(p) ==
  \A k \in DOMAIN p : (\E s \in Acts(p[k]) : s.do \in Checks) => \A j \in 1 .. (k - 1) : Stored(p[j]) = {}
\* What it undoes is all that it did.
UndoesAll(p) ==
  \A k \in DOMAIN p : p[k].do \in Reverting => \A j \in 1 .. (k - 1) : Stored(p[j]) \subseteq Taken(p[k])
\* A handler that writes a row back that it read does not also create it.
Keeps(p, t) == ~ \E j, k \in DOMAIN p : t \in Created(p[j]) /\ t \in Restored(p[k])
ASSUME ProgramsAssumption ==
  \A g \in DOMAIN Groups : \A i \in DOMAIN Groups[g].ops : LET p == Groups[g].ops[i] IN
    /\ IsSequence(p) /\ p # <<>> /\ \A k \in DOMAIN p : Step(p[k])
    /\ ChecksFirst(p) /\ UndoesAll(p)
    /\ \A k \in DOMAIN p : p[k].do \in Reverting =>
         \A j \in DOMAIN Groups[g].ops : \A t \in Taken(p[k]) : Keeps(Groups[g].ops[j], t)

\* The mark of a request is no word that the code compares with.
ASSUME MarksAssumption ==
  \A g \in DOMAIN Groups :
    /\ Handler \cap {"initial"} = {}
    /\ "states" \in DOMAIN Groups[g] => \A t \in DOMAIN Groups[g].states : Handler \cap Groups[g].states[t] = {}
    /\ \A i \in DOMAIN Groups[g].ops : \A s \in UNION {Acts(x) : x \in Range(Groups[g].ops[i])} :
         Handler \cap Range(s.cols) = {}

VARIABLES
  group,        \* the name of the group at work
  start,        \* the tables as the requests found them
  db,           \* the tables
  reg           \* what each request is and knows

vars == <<group, start, db, reg>>

Rows       == Groups[group].rows
Tables     == DOMAIN Rows
Program(h) == Groups[group].ops[reg[h].op]

\* A row as the requests may find it.
States(t) ==
  IF "states" \in DOMAIN Groups[group] /\ t \in DOMAIN Groups[group].states
  THEN Groups[group].states[t] ELSE {"initial"}
Found(state) == [c \in Columns |-> IF c = "state" THEN {state} ELSE {"initial"}]
Starts(t) == {Missing} \cup {Found(x) : x \in States(t)}

\* The tables as finished requests leave them: no row without those it lives under.
Consistent(rows, tables) ==
  \A t \in DOMAIN rows : tables[t] # Missing => \A p \in rows[t] : tables[p] # Missing

\* The steps of a program that may refuse a request.
Refusals(program) ==
  {k \in DOMAIN program : \E s \in Range(<<program[k]>> \o program[k].sub) :
                            s.do \in Checks \cup {"fallible", "later"}}

Received(op, input, tables) ==
  [op |-> op, input |-> input, at |-> 1, code |-> "", seen |-> [t \in tables |-> Missing]]

Init ==
  /\ group \in DOMAIN Groups
  /\ start \in {d \in [Tables -> UNION {Starts(t) : t \in Tables}] :
                  (\A t \in Tables : d[t] \in Starts(t)) /\ Consistent(Rows, d)}
  /\ db = start
  /\ reg \in [Handler -> UNION {{Received(i, x, Tables) :
                                   x \in {0} \cup Refusals(Groups[group].ops[i])} :
                                  i \in DOMAIN Groups[group].ops}]
  /\ Cardinality({h \in Handler : reg[h].input # 0}) <= 1

Running(h) == reg[h].code = ""

\* What the steps of module Steps are about.
Request(h, tables) ==
  [me |-> h, input |-> reg[h].input, at |-> reg[h].at, db |-> tables, seen |-> reg[h].seen,
   code |-> ""]

Perform(h) ==
  /\ Running(h)
  /\ LET after == Do(Request(h, db), Program(h)[reg[h].at])
         done  == reg[h].at = Len(Program(h)) /\ after.code = ""
     IN  /\ db' = after.db
         /\ reg' = [reg EXCEPT ![h].seen = after.seen, ![h].at = @ + 1,
                               ![h].code = IF done THEN "ok" ELSE after.code]
  /\ UNCHANGED <<group, start>>

Next == \E h \in Handler : Perform(h)

Spec == Init /\ [][Next]_vars

-----------------------------------------------------------------------------
(* The same requests one after the other.                                  *)

Fresh(h, tables) == [Request(h, tables) EXCEPT !.at = 1, !.seen = [t \in Tables |-> Missing]]

\* The statements of a program, those of its transactions included.
Statements(program) ==
  UNION {IF s.do \in {"atomic", "ifMissing", "ifFound"} THEN Range(s.sub) ELSE {s} : s \in Range(program)}
Inserted(program) ==
  {s.on : s \in {x \in Statements(program) : x.do \in {"insert", "insertOr", "claim", "ensure", "put"}}}
Deleted(program) ==
  {s.on : s \in {x \in Statements(program) : x.do \in {"delete", "drop", "take"}}}
Writes(program, t) ==
  UNION {DOMAIN s.cols : s \in {x \in Statements(program) : x.on = t /\ x.do \in Updates}}
  \cup (IF t \in Inserted(program) THEN Columns ELSE {})

\* Columns that several of the requests write: the last one wins, and what it
\* writes may be of a row it read earlier.
WritesOf ==
  [g \in DOMAIN Groups |->
     [i \in DOMAIN Groups[g].ops |-> [t \in DOMAIN Groups[g].rows |-> Writes(Groups[g].ops[i], t)]]]
Contended(a, b, t) == WritesOf[group][reg[a].op][t] \cap WritesOf[group][reg[b].op][t]

\* p looks a parent up, then inserts under it; nothing stops q from deleting the
\* parent, with the children it has by then, in between.
Outruns(rows, p, q) == \E t \in Inserted(p) : rows[t] \cap Deleted(q) # {}
\* p looks whether a row is there, then replaces or inserts it all the same.
Overtakes(p, q) ==
  \E t \in Inserted(p) \cap Inserted(q) : \E s \in Statements(p) : s.do = "lacks" /\ s.on = t
\* p replaces a row by a delete and an insert; between them q finds none.
Uncovers(p, q) ==
  \E t \in Inserted(p) \cap Deleted(p) : \E s \in Statements(q) : s.on = t
\* p does one thing or another to a row after it looked for another row, which q
\* makes or removes.
Supposes(p, q) ==
  \E s \in Range(p) :
    /\ s.do \in {"ifMissing", "ifFound"} /\ s.sub[1].on # s.on
    /\ s.on \in Inserted(q) \cup Deleted(q)

\* p finds a row and drops it, without asking whether q deleted it in between: both
\* say they did.
Drops(p)      == {s.on : s \in {x \in Statements(p) : x.do = "drop"}}
Finds(p)      == {s.on : s \in {x \in Statements(p) : x.do = "get"}}
Redeletes(p, q) == Drops(p) \cap Finds(p) \cap Deleted(q) # {}

\* p refuses a row in a state that q puts it in, and writes the state it read all the
\* same; the modules SecretVersions and GcsObjects say what comes of it.
Overrides(p, q) ==
  \E s, w \in Range(p) : \E x \in Statements(q) :
    /\ s.do = "forbid" /\ w.do = "write" /\ x.do = "write"
    /\ s.on = w.on /\ s.on = x.on
    /\ \A c \in DOMAIN s.cols : c \in DOMAIN w.cols \cap DOMAIN x.cols /\ x.cols[c] = s.cols[c]

Disturbs(rows, p, q) ==
  \/ Overrides(p, q) \/ Outruns(rows, p, q) \/ Overtakes(p, q) \/ Uncovers(p, q)
  \/ Supposes(p, q) \/ Redeletes(p, q)
\* The pairs of operations of a group known to interfere.
Interfering ==
  [g \in DOMAIN Groups |->
     {ij \in (DOMAIN Groups[g].ops) \X (DOMAIN Groups[g].ops) :
        Disturbs(Groups[g].rows, Groups[g].ops[ij[1]], Groups[g].ops[ij[2]])}]
Interfere(a, b) ==
  <<reg[a].op, reg[b].op>> \in Interfering[group] \/ <<reg[b].op, reg[a].op>> \in Interfering[group]

\* What a handler read or wrote may be gone when it comes back to it.
SameAnswer(code, serial) == code = serial \/ code \in {"internal", "gone"}

\* What the requests a and then b, one after the other, leave and answer.
Explains(a, b) ==
  \E first \in {Run(Fresh(a, start), Program(a))} : \E second \in {Run(Fresh(b, first.db), Program(b))} :
    /\ SameAnswer(reg[a].code, first.code) /\ SameAnswer(reg[b].code, second.code)
    /\ \A t \in Tables :
         /\ db[t] = Missing <=> second.db[t] = Missing
         /\ db[t] # Missing => \A c \in Columns \ Contended(a, b, t) : db[t][c] = second.db[t][c]

\* A request that undoes its insert when what it starts fails may have been seen, and
\* one that misses what it inserted does not get to the rest of its work.
CutShort(h) == reg[h].code = "undone" \/ (reg[h].code \in {"internal", "gone"} /\ reg[h].at <= Len(Program(h)))
AllAnswered == \A h \in Handler : ~Running(h) /\ ~CutShort(h)

\* Whatever order the steps of two requests interleave in, their answers and the
\* rows they leave are those of one after the other: no conflict is missed, no row
\* is answered for that was not there, no write of a column is lost to a request
\* that does not write it.  The requests known to interfere are left out.
AsIfSerial ==
  \A a, b \in Handler :
    a # b /\ AllAnswered /\ ~Interfere(a, b) =>
      \E order \in {<<a, b>>, <<b, a>>} : Explains(order[1], order[2])

\* A request that a check refuses leaves no trace in any table, however far the
\* handler went before the check.
RefusedUntouched ==
  \A h \in Handler : reg[h].code \in {"refused", "undone"} =>
    \A t \in Tables : db[t] # Missing => \A c \in Columns : h \notin db[t][c]

\* A process that stops in the middle of a request leaves no row without the rows it
\* lives under: parents are made first and deleted last, or with their children.
\* Containers are of no table, and a stop may leave one running.
Started(h) == \E k \in 1 .. (reg[h].at - 1) : Program(h)[k].do \notin Checks
StopLeavesConsistent ==
  Cardinality({h \in Handler : Started(h)}) <= 1 =>
    Consistent([t \in Tables \ {"container"} |-> Rows[t]], db)
=============================================================================
