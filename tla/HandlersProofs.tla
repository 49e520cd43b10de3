--------------------------- MODULE HandlersProofs ---------------------------
(***************************************************************************)
(* Theorems about the requests of Handlers, for every number of requests   *)
(* and every table of programs that has the form Handlers assumes: TLC     *)
(* evaluates those assumptions on the programs of all the services.        *)
(*                                                                         *)
(* What a refused request leaves is a matter of its mark: where it may be  *)
(* in the tables and in what the handlers hold.  The invariant follows the *)
(* mark of each request through the statements of all of them.  It is in   *)
(* no table but those its own program has stored in (Traced), and a check  *)
(* comes before all of these (Refused).  A request that undoes its work    *)
(* also leaves its mark in what others read of the row it has taken away,  *)
(* and they must not write that back where there is a row again            *)
(* (Reverted).  With a third request that cannot be had: it stores the row *)
(* anew, and the second one merges into it what it read before.            *)
(***************************************************************************)
EXTENDS Handlers, SequenceTheorems, NaturalsInduction, WellFoundedInduction, TLAPS

-----------------------------------------------------------------------------
(* One mark and one statement of one request.                              *)

Fields == {"me", "input", "at", "db", "seen", "code"}

\* The mark of request q.h is in tables of q.T only.  If that request is over, the mark
\* is in no table, and where it was read the row is missing, or q.me does not write it
\* back (q.back).
Tracked(st, q) ==
  /\ DOMAIN st = Fields /\ DOMAIN st.db = q.tables /\ DOMAIN st.seen = q.tables /\ st.me = q.me
  /\ q.over => q.h # q.me
  /\ \A t \in q.tables, c \in Columns : q.h \in st.db[t][c] \/ q.h \in st.seen[t][c] => t \in q.T
  /\ q.over => \A t \in q.tables, c \in Columns :
                 q.h \notin st.db[t][c] /\ (q.h \in st.seen[t][c] => st.db[t] = Missing \/ t \notin q.back)

\* It writes back what was read.
Restores(s) == s.do \in Updates /\ \E c \in DOMAIN s.cols : s.cols[c] \in {"merge", "back"}

\* A statement that keeps it so.
Harmless(s, q) ==
  /\ s.do \in Inserts \cup Updates => \A c \in DOMAIN s.cols : s.cols[c] # q.h
  /\ q.h = q.me /\ s.do \in Inserts \cup Updates => s.on \in q.T
  /\ q.over => (Restores(s) => s.on \in q.back) /\ (s.do \in Inserts /\ s.on \in q.T => s.on \notin q.back)

\* The row is read.
Sees(st, t) == [st EXCEPT !.seen[t] = st.db[t]]

\* Nothing is read of a row that is missing.
LEMMA NoWords == \A c \in Columns : Missing[c] = {}
  BY DEF Missing

\* The statements by name.
LEMMA Kinds ==
  ASSUME NEW s, Single(s)
  PROVE  s.do \in {"permission", "gates", "actAs", "body", "get", "exists", "peek", "lacks", "unless", "forbid",
                   "hidden", "must", "answer", "reload", "still", "same", "again", "insert", "foreign", "claim", "ensure", "put",
                   "write", "change", "delete", "drop", "take"}
  BY DEF Single, Checks, Reads, Inserts, Updates, Removals, Reverting

\* What a single statement does is one of six things: nothing, an answer, a read, a new
\* row, new words in a row, the end of a row.
Codes == {"refused", "not found", "internal", "gone", "conflict", "ok", "precondition"}

LEMMA OnceCases ==
  ASSUME NEW st, NEW s, Single(s)
  PROVE  \/ Once(st, s) = st
         \/ \E code \in Codes : Once(st, s) = End(st, code) /\ (code = "refused" => s.do \in Checks)
         \/ Once(st, s) = Sees(st, s.on)
         \/ /\ s.do \in Inserts
            /\ \E row \in {NewRow(st.me), NewRowAs(st.me, s.cols)} : Once(st, s) = Store(st, s.on, row)
         \/ s.do \in Updates /\ st.db[s.on] # Missing /\ Once(st, s) = Written(st, s)
         \/ s.do \in Removals /\ Once(st, s) = Store(st, s.on, Missing)
         \/ s.do = "take" /\ Once(st, s) = Store(Sees(st, s.on), s.on, Missing)
<1>1. CASE s.do \in Checks
  BY <1>1 DEF Once, Codes, Checks, Sees
<1>2. CASE s.do \in {"get", "exists", "peek"}
  BY <1>2 DEF Once, Codes, Checks, Sees
<1>3. CASE s.do \in {"lacks", "unless", "forbid", "hidden"}
  BY <1>3 DEF Once, Codes, Checks, Sees
<1>4. CASE s.do \in {"must", "answer", "reload", "still", "same", "again"}
  BY <1>4 DEF Once, Codes, Checks, Sees
<1>5. CASE s.do \in {"insert", "foreign"}
  BY <1>5 DEF Once, Codes, Checks, Sees, Inserts
<1>6. CASE s.do \in {"claim", "ensure", "put"}
  BY <1>6 DEF Once, Codes, Checks, Sees, Inserts
<1>7. CASE s.do \in {"write", "change"}
  BY <1>7 DEF Once, Codes, Checks, Sees, Updates
<1>8. CASE s.do \in {"delete", "drop", "take"}
  BY <1>8 DEF Once, Codes, Checks, Sees, Removals
<1> QED
  BY <1>1, <1>2, <1>3, <1>4, <1>5, <1>6, <1>7, <1>8, Kinds DEF Checks

\* An answer moves no mark.
LEMMA EndTracked ==
  ASSUME NEW st, NEW q, NEW code,
         Tracked(st, q)
  PROVE  Tracked(End(st, code), q) /\ End(st, code).code = code
<1>1. DOMAIN st = Fields
  BY DEF Tracked
<1>2. PICK r : r = End(st, code)
  OBVIOUS
<1>3. DOMAIN r = Fields /\ r.me = st.me /\ r.db = st.db /\ r.seen = st.seen /\ r.code = code
  BY <1>1, <1>2 DEF End, Fields
<1> QED
  BY <1>2, <1>3 DEF Tracked

\* A read copies the marks of a row; if the request is over there are none to copy.
LEMMA ReadTracked ==
  ASSUME NEW st, NEW q, NEW on,
         Tracked(st, q)
  PROVE  Tracked(Sees(st, on), q) /\ Sees(st, on).code = st.code
<1>1. DOMAIN st = Fields /\ DOMAIN st.seen = q.tables
  BY DEF Tracked
<1>2. PICK r : r = Sees(st, on)
  OBVIOUS
<1>3. DOMAIN r = Fields /\ r.me = st.me /\ r.db = st.db /\ r.code = st.code
  BY <1>1, <1>2 DEF Fields, Sees
<1>4. r.seen = [st.seen EXCEPT ![on] = st.db[on]]
  BY <1>1, <1>2 DEF Fields, Sees
<1>5. DOMAIN r.seen = q.tables /\ \A t \in q.tables : r.seen[t] = st.seen[t] \/ r.seen[t] = st.db[t]
  BY <1>1, <1>4
<1>6. Tracked(r, q)
  BY <1>3, <1>5 DEF Tracked
<1> QED
  BY <1>2, <1>3, <1>6

\* A row may take the place of another if the mark of q.h is not in it, or its table is
\* one of q.T and the request goes on; and no row that q.me writes back may appear.
LEMMA StoreTracked ==
  ASSUME NEW st, NEW q, NEW on, NEW row,
         Tracked(st, q),
         on \in q.tables => \A c \in Columns : q.h \in row[c] => on \in q.T /\ ~q.over,
         q.over /\ on \in q.tables => row = Missing \/ st.db[on] # Missing \/ (on \in q.T => on \notin q.back)
  PROVE  Tracked(Store(st, on, row), q) /\ Store(st, on, row).code = st.code
<1>1. DOMAIN st = Fields /\ DOMAIN st.db = q.tables
  BY DEF Tracked
<1>2. PICK r : r = Store(st, on, row)
  OBVIOUS
<1>3. DOMAIN r = Fields /\ r.me = st.me /\ r.seen = st.seen /\ r.code = st.code
  BY <1>1, <1>2 DEF Fields, Store
<1>4. r.db = [st.db EXCEPT ![on] = row]
  BY <1>1, <1>2 DEF Fields, Store
<1>5. DOMAIN r.db = q.tables /\ \A t \in q.tables : r.db[t] = IF t = on THEN row ELSE st.db[t]
  BY <1>1, <1>4
<1>6. \A t \in q.tables, c \in Columns : q.h \in r.db[t][c] \/ q.h \in r.seen[t][c] => t \in q.T
  BY <1>3, <1>5 DEF Tracked
<1>7. ASSUME q.over, NEW t \in q.tables, NEW c \in Columns
      PROVE  q.h \notin r.db[t][c] /\ (q.h \in r.seen[t][c] => r.db[t] = Missing \/ t \notin q.back)
  BY <1>3, <1>5, <1>7 DEF Tracked
<1>8. Tracked(r, q)
  BY <1>3, <1>5, <1>6, <1>7 DEF Tracked
<1> QED
  BY <1>2, <1>3, <1>8

\* So each harmless statement keeps the mark tracked.
LEMMA OnceTracked ==
  ASSUME NEW st, NEW q, NEW s, Single(s),
         Tracked(st, q), Harmless(s, q)
  PROVE  /\ Tracked(Once(st, s), q)
         /\ Once(st, s).code \in {st.code} \cup Codes
         /\ Once(st, s).code = "refused" /\ st.code # "refused" => s.do \in Checks
<1>1. CASE Once(st, s) = st
  BY <1>1
<1>2. ASSUME NEW code \in Codes, Once(st, s) = End(st, code), code = "refused" => s.do \in Checks
      PROVE  /\ Tracked(Once(st, s), q)
             /\ Once(st, s).code \in {st.code} \cup Codes
             /\ Once(st, s).code = "refused" /\ st.code # "refused" => s.do \in Checks
  BY <1>2, EndTracked
<1>3. CASE Once(st, s) = Sees(st, s.on)
  BY <1>3, ReadTracked
<1>4. ASSUME s.do \in Inserts, NEW row \in {NewRow(st.me), NewRowAs(st.me, s.cols)}, Once(st, s) = Store(st, s.on, row)
      PROVE  Tracked(Once(st, s), q) /\ Once(st, s).code = st.code
  <2>1. \A c \in Columns : q.h \in row[c] => q.h = q.me
    BY <1>4 DEF NewRow, NewRowAs, Harmless, Tracked
  <2>2. q.h = q.me => s.on \in q.T /\ ~q.over
    BY <1>4 DEF Harmless, Tracked
  <2>3. q.over => (s.on \in q.T => s.on \notin q.back)
    BY <1>4 DEF Harmless
  <2>4. s.on \in q.tables => \A c \in Columns : q.h \in row[c] => s.on \in q.T /\ ~q.over
    BY <2>1, <2>2
  <2> QED
    BY <1>4, <2>3, <2>4, StoreTracked
<1>5. CASE s.do \in Updates /\ st.db[s.on] # Missing /\ Once(st, s) = Written(st, s)
  <2>1. PICK row : row = [c \in Columns |-> Column(st, s, c)]
    OBVIOUS
  <2>2. Once(st, s) = Store(st, s.on, row)
    BY <1>5, <2>1 DEF Written
  <2>3. q.h = q.me => s.on \in q.T /\ ~q.over
    BY <1>5 DEF Harmless, Tracked
  <2>4. ASSUME s.on \in q.tables, NEW c \in Columns, q.h \in row[c] PROVE s.on \in q.T /\ ~q.over
    <3>1. row[c] = Column(st, s, c)
      BY <2>1
    <3>2. CASE c \notin DOMAIN s.cols
      <4>1. q.h \in st.db[s.on][c]
        BY <2>4, <3>1, <3>2 DEF Column
      <4> QED
        BY <2>4, <4>1 DEF Tracked
    <3>3. CASE c \in DOMAIN s.cols /\ s.cols[c] \in {"merge", "back"} /\ q.h \in st.seen[s.on][c]
      <4>1. s.on \in q.T
        BY <2>4, <3>3 DEF Tracked
      <4>2. q.over => s.on \in q.back
        BY <1>5, <3>3 DEF Harmless, Restores
      <4> QED
        BY <1>5, <2>4, <3>3, <4>1, <4>2 DEF Tracked
    <3>4. CASE c \in DOMAIN s.cols /\ ~(s.cols[c] \in {"merge", "back"} /\ q.h \in st.seen[s.on][c])
      <4>1. st.me = q.me /\ s.cols[c] # q.h
        BY <1>5, <3>4 DEF Tracked, Harmless
      <4>2. q.h = q.me
        BY <2>4, <3>1, <3>4, <4>1 DEF Column
      <4> QED
        BY <2>3, <4>2
    <3> QED
      BY <3>2, <3>3, <3>4
  <2>5. s.on \in q.tables => \A c \in Columns : q.h \in row[c] => s.on \in q.T /\ ~q.over
    BY <2>4
  <2>6. Tracked(Store(st, s.on, row), q) /\ Store(st, s.on, row).code = st.code
    BY <1>5, <2>5, StoreTracked
  <2> QED
    BY <2>2, <2>6
<1>6. CASE s.do \in Removals /\ Once(st, s) = Store(st, s.on, Missing)
  BY <1>6, NoWords, StoreTracked
<1>7. CASE s.do = "take" /\ Once(st, s) = Store(Sees(st, s.on), s.on, Missing)
  <2>1. Tracked(Sees(st, s.on), q) /\ Sees(st, s.on).code = st.code
    BY ReadTracked
  <2> QED
    BY <1>7, <2>1, NoWords, StoreTracked
<1> QED
  BY <1>1, <1>2, <1>3, <1>4, <1>5, <1>6, <1>7, OnceCases

-----------------------------------------------------------------------------
(* A sequence of statements: what a handler undoes, and a transaction.     *)

\* A set of numbers has a least one.
LEMMA Least ==
  ASSUME NEW S, S \subseteq Nat, S # {}
  PROVE  \E n \in S : \A m \in S : n <= m
<1> DEFINE R == OpToRel(<, Nat)
<1>1. IsWellFoundedOn(R, Nat)
  BY NatLessThanWellFounded
<1>2. PICK n \in S : \A m \in S : ~(<<m, n>> \in R)
  <2> HIDE DEF R
  <2> QED BY <1>1, WFMin
<1>3. \A m \in S : ~(m < n)
  BY <1>2 DEF OpToRel
<1> QED
  BY <1>3

\* The answer of one statement does not keep the next from being made.
Cleared(st) == End(st, "")

\* Reversal chooses a function by its equation.  There is one that satisfies it: take
\* the least length for which there is none, and extend the one before.
LEMMA ReversalIs ==
  ASSUME NEW st, NEW steps, NEW n \in Nat, n = Len(steps), NEW f, f = Reversal(st, steps)
  PROVE  f[0] = st /\ \A k \in 1 .. n : f[k] = Cleared(Once(f[k - 1], steps[k]))
<1> DEFINE E(x, k)  == Cleared(Once(x, steps[k]))
           Is(g, m) == g = [k \in 0 .. m |-> IF k = 0 THEN st ELSE E(g[k - 1], k)]
           S == {m \in Nat : ~ \E g : Is(g, m)}
<1>1. S = {}
  <2>1. SUFFICES ASSUME S # {} PROVE FALSE
    OBVIOUS
  <2>2. PICK m \in S : \A i \in S : m <= i
    <3> HIDE DEF S
    <3> QED BY <2>1, Least DEF S
  <2> HIDE DEF E
  <2>3. m # 0
    <3>1. Is([k \in 0 .. 0 |-> st], 0)
      OBVIOUS
    <3> QED
      BY <3>1
  <2>4. PICK g : Is(g, m - 1)
    BY <2>2, <2>3
  <2>5. PICK e : e = [k \in 0 .. m |-> IF k = 0 THEN st ELSE E(g[k - 1], k)]
    OBVIOUS
  <2>6. \A k \in 0 .. (m - 1) : e[k] = g[k]
    BY <2>2, <2>3, <2>4, <2>5
  <2>7. \A k \in 1 .. m : e[k - 1] = g[k - 1]
    BY <2>2, <2>6
  <2>8. \A k \in 0 .. m : k # 0 => E(g[k - 1], k) = E(e[k - 1], k)
    BY <2>2, <2>7
  <2>9. Is(e, m)
    BY <2>5, <2>8
  <2> QED
    BY <2>2, <2>9
<1>2. \E g : Is(g, n)
  <2> HIDE DEF Is
  <2> QED BY <1>1
<1>3. f = CHOOSE g : Is(g, n)
  BY DEF Reversal, Cleared, End
<1>4. Is(f, n)
  <2> HIDE DEF Is
  <2> QED BY <1>2, <1>3
<1> HIDE DEF E
<1>5. f = [k \in 0 .. n |-> IF k = 0 THEN st ELSE E(f[k - 1], k)]
  BY <1>4
<1>6. f[0] = st /\ \A k \in 1 .. n : f[k] = E(f[k - 1], k)
  BY <1>5
<1> QED
  BY <1>6 DEF E

\* A removal moves no mark, and leaves no row where it is made or none was.
LEMMA RemovalTracked ==
  ASSUME NEW st, NEW q, NEW s, s.do \in Removals, Tracked(st, q)
  PROVE  /\ Tracked(Once(st, s), q)
         /\ \A t \in q.tables : t = s.on \/ st.db[t] = Missing => Once(st, s).db[t] = Missing
<1>1. Tracked(Once(st, s), q)
  <2>1. Single(s) /\ Harmless(s, q)
    BY DEF Single, Harmless, Restores, Removals, Inserts, Updates
  <2> QED
    BY <2>1, OnceTracked
<1>2. DOMAIN st = Fields /\ DOMAIN st.db = q.tables
  BY DEF Tracked
<1>3. CASE Once(st, s) = Store(st, s.on, Missing)
  <2>1. PICK r : r = Store(st, s.on, Missing)
    OBVIOUS
  <2>2. r.db = [st.db EXCEPT ![s.on] = Missing]
    BY <1>2, <2>1 DEF Store, Fields
  <2>3. \A t \in q.tables : r.db[t] = IF t = s.on THEN Missing ELSE st.db[t]
    BY <1>2, <2>2
  <2> QED
    BY <1>1, <1>3, <2>1, <2>3
<1>4. CASE st.db[s.on] = Missing /\ Once(st, s) = End(st, "not found")
  <2>1. PICK r : r = End(st, "not found")
    OBVIOUS
  <2>2. r.db = st.db
    BY <1>2, <2>1 DEF End, Fields
  <2> QED
    BY <1>1, <1>4, <2>1, <2>2
<1>5. Once(st, s) = Store(st, s.on, Missing) \/ (st.db[s.on] = Missing /\ Once(st, s) = End(st, "not found"))
  BY DEF Once, Removals, Checks
<1> QED
  BY <1>3, <1>4, <1>5

\* What is undone is gone, whatever the tables hold.
LEMMA UndoneTracked ==
  ASSUME NEW st, NEW q, NEW steps, IsSequence(steps), \A x \in Range(steps) : x.do \in Removals, Tracked(st, q)
  PROVE  /\ Tracked(Undone(st, steps), q) /\ Undone(st, steps).code = "undone"
         /\ \A x \in Range(steps) : x.on \in q.tables => Undone(st, steps).db[x.on] = Missing
<1>1. PICK n \in Nat : n = Len(steps)
  BY DEF IsSequence
<1>2. PICK f : f = Reversal(st, steps)
  OBVIOUS
<1>3. f[0] = st /\ \A k \in 1 .. n : f[k] = Cleared(Once(f[k - 1], steps[k]))
  BY <1>1, <1>2, ReversalIs
<1>4. /\ \A k \in 1 .. n : steps[k] \in Range(steps) /\ steps[k].do \in Removals
      /\ \A x \in Range(steps) : \E k \in 1 .. n : x = steps[k]
  BY <1>1 DEF IsSequence, Range
<1> DEFINE Good(k) == /\ Tracked(f[k], q)
                      /\ \A i \in 1 .. k : steps[i].on \in q.tables => f[k].db[steps[i].on] = Missing
           S == {k \in 0 .. n : ~Good(k)}
<1>5. Good(0)
  <2>1. f[0] = st
    BY <1>3
  <2> QED
    BY <2>1
<1>6. ASSUME NEW k \in 1 .. n, Good(k - 1) PROVE Good(k)
  <2>1. PICK x, s, r : x = f[k - 1] /\ s = steps[k] /\ r = Once(x, s)
    OBVIOUS
  <2>2. Tracked(r, q) /\ \A t \in q.tables : t = s.on \/ x.db[t] = Missing => r.db[t] = Missing
    <3>1. Tracked(x, q) /\ s.do \in Removals
      BY <1>4, <1>6, <2>1
    <3> QED
      BY <2>1, <3>1, RemovalTracked
  <2>3. f[k] = Cleared(r)
    BY <1>3, <2>1
  <2>4. Tracked(f[k], q) /\ f[k].db = r.db
    <3>1. DOMAIN r = Fields
      BY <2>2 DEF Tracked
    <3>2. f[k].db = r.db
      BY <2>3, <3>1 DEF Cleared, End, Fields
    <3> QED
      BY <2>2, <2>3, <3>2, EndTracked DEF Cleared
  <2>5. ASSUME NEW i \in 1 .. k, steps[i].on \in q.tables PROVE f[k].db[steps[i].on] = Missing
    BY <1>6, <2>1, <2>2, <2>4, <2>5
  <2> QED
    BY <2>4, <2>5
<1>7. S = {}
  <2>1. SUFFICES ASSUME S # {} PROVE FALSE
    OBVIOUS
  <2> HIDE DEF Good
  <2>2. PICK k \in S : \A m \in S : k <= m
    <3>1. S \subseteq Nat
      OBVIOUS
    <3> HIDE DEF S
    <3> QED BY <2>1, <3>1, Least
  <2>3. k \in 1 .. n /\ Good(k - 1)
    BY <1>1, <1>5, <2>2
  <2> QED
    BY <1>6, <2>2, <2>3
<1>8. Good(n)
  <2> HIDE DEF Good
  <2> QED BY <1>1, <1>7
<1>9. Undone(st, steps) = End(f[n], "undone")
  BY <1>1, <1>2 DEF Undone
<1>10. PICK r : r = End(f[n], "undone")
  OBVIOUS
<1>11. Tracked(r, q) /\ r.code = "undone" /\ r.db = f[n].db
  BY <1>8, <1>10, EndTracked DEF Tracked, End, Fields
<1> QED
  BY <1>4, <1>8, <1>9, <1>10, <1>11

\* It has no answer yet.
Open(st) == st.code = ""

\* A step of a transaction, unless the request is over.
Goes(st, s) == IF st.code = "" THEN Guarded(st, s) ELSE st

\* The same of Transaction, which stops at the first answer.
LEMMA TransactionIs ==
  ASSUME NEW st, NEW steps, NEW n \in Nat, n = Len(steps), NEW f, f = Transaction(st, steps)
  PROVE  f[0] = st /\ \A k \in 1 .. n : f[k] = Goes(f[k - 1], steps[k])
<1> DEFINE E(x, k)  == Goes(x, steps[k])
           Is(g, m) == g = [k \in 0 .. m |-> IF k = 0 THEN st ELSE E(g[k - 1], k)]
           S == {m \in Nat : ~ \E g : Is(g, m)}
<1>1. S = {}
  <2>1. SUFFICES ASSUME S # {} PROVE FALSE
    OBVIOUS
  <2>2. PICK m \in S : \A i \in S : m <= i
    <3> HIDE DEF S
    <3> QED BY <2>1, Least DEF S
  <2> HIDE DEF E
  <2>3. m # 0
    <3>1. Is([k \in 0 .. 0 |-> st], 0)
      OBVIOUS
    <3> QED
      BY <3>1
  <2>4. PICK g : Is(g, m - 1)
    BY <2>2, <2>3
  <2>5. PICK e : e = [k \in 0 .. m |-> IF k = 0 THEN st ELSE E(g[k - 1], k)]
    OBVIOUS
  <2>6. \A k \in 0 .. (m - 1) : e[k] = g[k]
    BY <2>2, <2>3, <2>4, <2>5
  <2>7. \A k \in 1 .. m : e[k - 1] = g[k - 1]
    BY <2>2, <2>6
  <2>8. \A k \in 0 .. m : k # 0 => E(g[k - 1], k) = E(e[k - 1], k)
    BY <2>2, <2>7
  <2>9. Is(e, m)
    BY <2>5, <2>8
  <2> QED
    BY <2>2, <2>9
<1>2. \E g : Is(g, n)
  <2> HIDE DEF Is
  <2> QED BY <1>1
<1>3. f = CHOOSE g : Is(g, n)
  BY DEF Transaction, Goes
<1>4. Is(f, n)
  <2> HIDE DEF Is
  <2> QED BY <1>2, <1>3
<1> HIDE DEF E
<1>5. f = [k \in 0 .. n |-> IF k = 0 THEN st ELSE E(f[k - 1], k)]
  BY <1>4
<1>6. f[0] = st /\ \A k \in 1 .. n : f[k] = E(f[k - 1], k)
  BY <1>5
<1> QED
  BY <1>6 DEF E


\* A statement that may depend on what was read, and the answers it may give.
LEMMA GuardTracked ==
  ASSUME NEW st, NEW q, NEW s, Guard(s), Tracked(st, q), Open(st),
         \A x \in Acting(s) : Harmless(x, q)
  PROVE  /\ Tracked(Guarded(st, s), q)
         /\ Guarded(st, s).code \in {""} \cup Codes
         /\ Guarded(st, s).code = "refused" => \E x \in Acting(s) : x.do \in Checks
<1>1. CASE Single(s)
  <2>1. Guarded(st, s) = Once(st, s)
    <3>1. s.do \notin Conditional /\ s.do \notin Reverting /\ s.do # "later"
      BY <1>1, Kinds DEF Conditional, Reverting
    <3>2. Made(s) = s
      BY <3>1 DEF Made, Reverting
    <3> QED
      BY <3>1, <3>2 DEF Guarded, Reverting
  <2>2. Acting(s) = {s}
    BY <1>1, Kinds DEF Acting, Conditional
  <2> QED
    BY <1>1, <2>1, <2>2, OnceTracked DEF Open
<1>2. CASE s.do \in Conditional /\ Single(s.sub[1])
  <2>1. Acting(s) = {s.sub[1]}
    BY <1>2 DEF Acting
  <2>2. PICK x : x = s.sub[1]
    OBVIOUS
  <2>3. Guarded(st, s) = st \/ Guarded(st, s) = Once(st, x)
    <3>1. s.do \notin Reverting /\ s.do # "later"
      BY <1>2 DEF Conditional, Reverting
    <3>2. Made(s) = x
      BY <1>2, <2>2, <3>1 DEF Made, Conditional, Reverting
    <3> QED
      BY <1>2, <3>1, <3>2 DEF Guarded
  <2>4. CASE Guarded(st, s) = st
    BY <2>4 DEF Open
  <2>5. CASE Guarded(st, s) = Once(st, x)
    BY <1>2, <2>1, <2>2, <2>5, OnceTracked DEF Open
  <2> QED
    BY <2>3, <2>4, <2>5
<1> QED
  BY <1>1, <1>2 DEF Guard

\* A transaction of such statements; there are no checks in it.
LEMMA TransactionTracked ==
  ASSUME NEW st, NEW q, NEW steps, IsSequence(steps), Tracked(st, q), Open(st),
         \A x \in Range(steps) : Guard(x) /\ \A y \in Acting(x) : y.do \notin Checks /\ Harmless(y, q)
  PROVE  LET after == Transaction(st, steps)[Len(steps)]
         IN  Tracked(after, q) /\ after.code \in {""} \cup (Codes \ {"refused"})
<1>1. PICK n \in Nat : n = Len(steps)
  BY DEF IsSequence
<1>2. PICK f : f = Transaction(st, steps)
  OBVIOUS
<1>3. f[0] = st /\ \A k \in 1 .. n : f[k] = Goes(f[k - 1], steps[k])
  BY <1>1, <1>2, TransactionIs
<1>4. \A k \in 1 .. n : steps[k] \in Range(steps)
  BY <1>1 DEF IsSequence, Range
<1> DEFINE Good(k) == Tracked(f[k], q) /\ f[k].code \in {""} \cup (Codes \ {"refused"})
           S == {k \in 0 .. n : ~Good(k)}
<1>5. Good(0)
  <2>1. f[0] = st
    BY <1>3
  <2> QED
    BY <2>1 DEF Open
<1>6. ASSUME NEW k \in 1 .. n, Good(k - 1) PROVE Good(k)
  <2>1. PICK x, s, r : x = f[k - 1] /\ s = steps[k] /\ r = Goes(x, s)
    OBVIOUS
  <2>2. /\ Tracked(x, q) /\ x.code \in {""} \cup (Codes \ {"refused"})
        /\ Guard(s) /\ \A y \in Acting(s) : y.do \notin Checks /\ Harmless(y, q)
    BY <1>4, <1>6, <2>1
  <2>3. Tracked(r, q) /\ r.code \in {""} \cup (Codes \ {"refused"})
    BY <2>1, <2>2, GuardTracked DEF Goes, Open
  <2> QED
    BY <1>3, <2>1, <2>3
<1>7. S = {}
  <2>1. SUFFICES ASSUME S # {} PROVE FALSE
    OBVIOUS
  <2> HIDE DEF Good
  <2>2. PICK k \in S : \A m \in S : k <= m
    <3>1. S \subseteq Nat
      OBVIOUS
    <3> HIDE DEF S
    <3> QED BY <2>1, <3>1, Least
  <2>3. k \in 1 .. n /\ Good(k - 1)
    BY <1>1, <1>5, <2>2
  <2> QED
    BY <1>6, <2>2, <2>3
<1>8. Good(n)
  <2> HIDE DEF Good
  <2> QED BY <1>1, <1>7
<1> QED
  BY <1>1, <1>2, <1>8

\* A step of a request.
LEMMA DoTracked ==
  ASSUME NEW st, NEW q, NEW s, Step(s), Tracked(st, q), Open(st), \A x \in Acts(s) : Harmless(x, q)
  PROVE  /\ Tracked(Do(st, s), q)
         /\ Do(st, s).code = "refused" => (\E x \in Acts(s) : x.do \in Checks) /\ Stored(s) = {}
         /\ Do(st, s).code = "undone" => s.do \in Reverting /\ Do(st, s) = Undone(st, s.sub)
<1>1. CASE Guard(s)
  <2>1. s.do # "atomic"
    BY <1>1, Kinds DEF Guard, Conditional
  <2>2. Do(st, s) = Guarded(st, s) /\ Acts(s) = Acting(s)
    BY <2>1 DEF Do, Acts
  <2>3. \E x : Acting(s) = {x}
    BY DEF Acting
  <2>4. (\E x \in Acts(s) : x.do \in Checks) => Stored(s) = {}
    BY <2>2, <2>3 DEF Stored, Checks, Inserts, Updates
  <2> QED
    BY <1>1, <2>2, <2>4, GuardTracked DEF Codes
<1>2. CASE s.do = "later"
  <2>1. Do(st, s) = st \/ Do(st, s) = End(st, "partly")
    BY <1>2 DEF Do, Guarded, Reverting, Conditional
  <2> QED
    BY <2>1, EndTracked DEF Open
<1>3. CASE s.do \in Reverting /\ Do(st, s) = Undone(st, s.sub)
  <2>1. IsSequence(s.sub) /\ \A x \in Range(s.sub) : x.do \in Removals
    BY <1>3, Kinds DEF Step, Guard, Conditional, Reverting
  <2>2. PICK x : x = Undone(st, s.sub)
    OBVIOUS
  <2>3. Tracked(x, q) /\ x.code = "undone"
    BY <2>1, <2>2, UndoneTracked
  <2> QED
    BY <1>3, <2>2, <2>3
<1>4. CASE s.do = "fallible" /\ Do(st, s) = st
  BY <1>4 DEF Open
<1>5. CASE s.do = "insertOr" /\ Do(st, s) = Once(st, Insert(s.on))
  <2>1. PICK x : x = Insert(s.on)
    OBVIOUS
  <2>2. x.do = "insert" /\ x.on = s.on /\ x.cols = <<>>
    BY <2>1 DEF Insert, Statement
  <2>3. Harmless(s, q)
    BY <1>5 DEF Acts, Acting, Conditional
  <2>4. Single(x) /\ Harmless(x, q)
    BY <1>5, <2>2, <2>3 DEF Single, Harmless, Inserts, Updates, Reverting, Restores
  <2>5. Once(st, x).code \in {""} \cup Codes /\ Once(st, x).code # "refused"
    BY <2>2, <2>4, OnceTracked DEF Checks, Open
  <2> QED
    BY <1>5, <2>1, <2>4, <2>5, OnceTracked DEF Codes
<1>6. CASE s.do = "writeOr" /\ Do(st, s) = Once(st, Write(s.on, s.cols))
  <2>1. PICK x : x = Write(s.on, s.cols)
    OBVIOUS
  <2>2. x.do = "write" /\ x.on = s.on /\ x.cols = s.cols
    BY <2>1 DEF Write, Statement
  <2>3. Harmless(s, q)
    BY <1>6 DEF Acts, Acting, Conditional
  <2>4. Single(x) /\ Harmless(x, q)
    BY <1>6, <2>2, <2>3 DEF Single, Harmless, Inserts, Updates, Reverting, Restores
  <2>5. Once(st, x).code \in {""} \cup Codes /\ Once(st, x).code # "refused"
    BY <2>2, <2>4, OnceTracked DEF Checks, Open
  <2> QED
    BY <1>6, <2>1, <2>4, <2>5, OnceTracked DEF Codes
<1>7. CASE s.do = "atomic"
  <2>1. IsSequence(s.sub) /\ \A x \in Range(s.sub) : Guard(x) /\ \A y \in Acting(x) : y.do \notin Checks
    BY <1>7, Kinds DEF Step, Guard, Conditional, Reverting
  <2>2. \A x \in Range(s.sub) : \A y \in Acting(x) : Harmless(y, q)
    BY <1>7 DEF Acts
  <2>3. PICK after : after = Transaction(st, s.sub)[Len(s.sub)]
    OBVIOUS
  <2>4. Tracked(after, q) /\ after.code \in {""} \cup (Codes \ {"refused"})
    BY <2>1, <2>2, <2>3, TransactionTracked
  <2>5. Do(st, s) = after \/ Do(st, s) = End(st, after.code)
    BY <1>7, <2>3 DEF Do
  <2> QED
    BY <2>4, <2>5, EndTracked DEF Codes
<1>8. CASE s.do \in Reverting
  <2>1. Do(st, s) = Guarded(st, s)
    BY <1>8 DEF Do, Reverting
  <2>2. CASE s.do = "fallible"
    <3>1. Do(st, s) = Undone(st, s.sub) \/ Do(st, s) = st
      BY <2>1, <2>2 DEF Guarded, Reverting
    <3> QED
      BY <1>3, <1>4, <1>8, <2>2, <3>1
  <2>3. CASE s.do = "insertOr"
    <3>1. Do(st, s) = Undone(st, s.sub) \/ Do(st, s) = Once(st, Insert(s.on))
      BY <2>1, <2>3 DEF Guarded, Reverting, Conditional, Made
    <3> QED
      BY <1>3, <1>5, <1>8, <2>3, <3>1
  <2>4. CASE s.do = "writeOr"
    <3>1. Do(st, s) = Undone(st, s.sub) \/ Do(st, s) = Once(st, Write(s.on, s.cols))
      BY <2>1, <2>4 DEF Guarded, Reverting, Conditional, Made
    <3> QED
      BY <1>3, <1>6, <1>8, <2>4, <3>1
  <2> QED
    BY <1>8, <2>2, <2>3, <2>4 DEF Reverting
<1> QED
  BY <1>1, <1>2, <1>7, <1>8 DEF Step

\* A step that undoes leaves no row in the tables it names.
LEMMA UndoneStep ==
  ASSUME NEW st, NEW q, NEW s, Step(s), s.do \in Reverting, Tracked(st, q)
  PROVE  /\ Tracked(Undone(st, s.sub), q)
         /\ \A t \in Taken(s) \cap q.tables : Undone(st, s.sub).db[t] = Missing
<1>1. IsSequence(s.sub) /\ \A x \in Range(s.sub) : x.do \in Removals
  BY Kinds DEF Step, Guard, Conditional, Reverting
<1>2. PICK x : x = Undone(st, s.sub)
  OBVIOUS
<1>3. /\ Tracked(x, q)
      /\ \A y \in Range(s.sub) : y.on \in q.tables => x.db[y.on] = Missing
  BY <1>1, <1>2, UndoneTracked
<1> QED
  BY <1>2, <1>3 DEF Taken

-----------------------------------------------------------------------------
(***************************************************************************)
(* The invariant.                                                          *)
(***************************************************************************)

\* The tables the words of h may be in, those its last step removed, and those
\* whose rows it may write back.
-----------------------------------------------------------------------------
(* The invariant.                                                          *)

\* Where a request has stored so far, what it took back by the step it made last, and
\* the tables its program writes rows back to.
Left(h)    == UNION {Stored(Program(h)[i]) : i \in 1 .. (reg[h].at - 1)}
Reverts(h) == Taken(Program(h)[reg[h].at - 1])
Back(h)    == UNION {Restored(Program(h)[i]) : i \in DOMAIN Program(h)}

\* A request is at a step of its program until it is answered.
TypeInv ==
  /\ group \in DOMAIN Groups /\ DOMAIN db = Tables /\ DOMAIN reg = Handler
  /\ \A h \in Handler :
       /\ DOMAIN reg[h] = {"op", "input", "at", "code", "seen"} /\ DOMAIN reg[h].seen = Tables
       /\ reg[h].op \in DOMAIN Groups[group].ops
       /\ reg[h].at \in Nat /\ reg[h].at >= 1 /\ reg[h].at <= Len(Program(h)) + 1
       /\ Running(h) => reg[h].at <= Len(Program(h))

\* Words are where they were stored, and there only.
Traced ==
  \A h \in Handler, t \in Tables, c \in Columns :
    h \in db[t][c] \/ (\E k \in Handler : h \in reg[k].seen[t][c]) => t \in Left(h)

\* A request is refused before it stores.
Refused == \A h \in Handler : reg[h].code = "refused" => Left(h) = {}

\* Of two requests one was undone: nothing is left of it but what the other has read,
\* and the other does not write that back where there is a row again.
Reverted(h) ==
  /\ reg[h].at > 1 /\ Program(h)[reg[h].at - 1].do \in Reverting
  /\ \A t \in Tables, c \in Columns :
       /\ h \notin db[t][c]
       /\ \A k \in Handler \ {h} :
            h \in reg[k].seen[t][c] => t \in Reverts(h) /\ (db[t] = Missing \/ t \notin Back(k))

\* There are one or two requests.
AtMostTwo == \A a, b, c \in Handler : a = b \/ b = c \/ a = c

Inv == /\ TypeInv /\ Traced /\ Refused
       /\ AtMostTwo => \A h \in Handler : reg[h].code = "undone" => Reverted(h)

\* What is assumed of the programs, for the one of each request.
LEMMA Programs ==
  ASSUME TypeInv, NEW h \in Handler
  PROVE  /\ IsSequence(Program(h)) /\ Len(Program(h)) >= 1
         /\ \A k \in DOMAIN Program(h) : Step(Program(h)[k])
         /\ ChecksFirst(Program(h)) /\ UndoesAll(Program(h))
         /\ \A j \in DOMAIN Program(h) : \A s \in Acts(Program(h)[j]) :
              \A c \in DOMAIN s.cols : s.cols[c] \notin Handler
         /\ \A j \in DOMAIN Program(h) : Program(h)[j].do \in Reverting =>
              \A k \in Handler : \A t \in Taken(Program(h)[j]) : Keeps(Program(k), t)
<1>1. group \in DOMAIN Groups /\ \A k \in Handler : reg[k].op \in DOMAIN Groups[group].ops
  BY DEF TypeInv
<1>2. PICK p : p = Program(h)
  OBVIOUS
<1>3. /\ IsSequence(p) /\ p # <<>> /\ \A k \in DOMAIN p : Step(p[k])
      /\ ChecksFirst(p) /\ UndoesAll(p)
      /\ \A k \in DOMAIN p : p[k].do \in Reverting =>
           \A j \in DOMAIN Groups[group].ops : \A t \in Taken(p[k]) : Keeps(Groups[group].ops[j], t)
  BY <1>1, <1>2, ProgramsAssumption DEF Program
<1>4. \A s \in UNION {Acts(x) : x \in Range(p)} : Handler \cap Range(s.cols) = {}
  BY <1>1, <1>2, MarksAssumption DEF Program
<1>5. \A j \in DOMAIN p : \A s \in Acts(p[j]) : \A c \in DOMAIN s.cols : s.cols[c] \notin Handler
  BY <1>4 DEF Range
<1>6. \A k \in DOMAIN p : p[k].do \in Reverting => \A j \in Handler : \A t \in Taken(p[k]) : Keeps(Program(j), t)
  BY <1>1, <1>3 DEF Program
<1>7. Len(p) >= 1
  BY <1>3 DEF IsSequence
<1> QED
  BY <1>2, <1>3, <1>5, <1>6, <1>7

\* No request has stored or read anything yet, and the words found are of no request.
LEMMA InitInv == Init => Inv
<1> SUFFICES ASSUME Init PROVE Inv
  OBVIOUS
<1>1. group \in DOMAIN Groups /\ DOMAIN db = Tables /\ db = start /\ \A t \in Tables : start[t] \in Starts(t)
  BY DEF Init
<1>2. DOMAIN reg = Handler
  BY DEF Init
<1>3. ASSUME NEW h \in Handler
      PROVE  \E i \in DOMAIN Groups[group].ops : \E x : reg[h] = Received(i, x, Tables)
  BY DEF Init
<1>4. ASSUME NEW h \in Handler
      PROVE  /\ DOMAIN reg[h] = {"op", "input", "at", "code", "seen"}
             /\ reg[h].op \in DOMAIN Groups[group].ops
             /\ reg[h].at = 1 /\ reg[h].code = ""
             /\ reg[h].seen = [t \in Tables |-> Missing]
  <2>0. PICK i \in DOMAIN Groups[group].ops : \E x : reg[h] = Received(i, x, Tables)
    BY <1>3
  <2>1. PICK x : reg[h] = Received(i, x, Tables)
    BY <2>0
  <2>2. PICK r : r = Received(i, x, Tables)
    OBVIOUS
  <2>3. /\ DOMAIN r = {"op", "input", "at", "code", "seen"}
        /\ r.op = i /\ r.at = 1 /\ r.code = "" /\ r.seen = [t \in Tables |-> Missing]
    BY <2>2 DEF Received
  <2> QED
    BY <2>1, <2>2, <2>3
<1>5. ASSUME NEW h \in Handler PROVE IsSequence(Program(h)) /\ Program(h) # <<>>
  BY <1>1, <1>4, <1>5, ProgramsAssumption DEF Program
<1>6. ASSUME NEW h \in Handler PROVE Len(Program(h)) >= 1
  BY <1>5, <1>6 DEF IsSequence
<1>7. TypeInv
  <2>1. ASSUME NEW h \in Handler
        PROVE  /\ reg[h].at \in Nat /\ reg[h].at >= 1 /\ reg[h].at <= Len(Program(h)) + 1
               /\ Running(h) => reg[h].at <= Len(Program(h))
    <3>1. Len(Program(h)) \in Nat /\ Len(Program(h)) >= 1 /\ reg[h].at = 1
      BY <1>4, <1>5, <1>6, <2>1 DEF IsSequence
    <3> QED
      BY <3>1
  <2>2. ASSUME NEW h \in Handler PROVE DOMAIN reg[h].seen = Tables
    <3>1. reg[h].seen = [t \in Tables |-> Missing]
      BY <1>4, <2>2
    <3> QED
      BY <3>1
  <2> QED
    BY <1>1, <1>2, <1>4, <2>1, <2>2 DEF TypeInv
<1>8. ASSUME NEW h \in Handler, NEW t \in Tables, NEW c \in Columns PROVE h \notin db[t][c]
  <2>1. CASE db[t] = Missing
    BY <2>1, NoWords
  <2>2. ASSUME NEW x \in States(t), db[t] = Found(x) PROVE h \notin db[t][c]
    <3>1. db[t][c] = {x} \/ db[t][c] = {"initial"}
      BY <2>2 DEF Found
    <3>2. h # "initial" /\ h # x
      BY <1>1, <2>2, MarksAssumption DEF States
    <3> QED
      BY <3>1, <3>2
  <2> QED
    BY <1>1, <2>1, <2>2 DEF Starts
<1>9. ASSUME NEW h \in Handler, NEW k \in Handler, NEW t \in Tables, NEW c \in Columns PROVE h \notin reg[k].seen[t][c]
  <2>1. reg[k].seen[t] = Missing
    BY <1>4
  <2> QED
    BY <2>1, NoWords
<1>10. Traced
  BY <1>8, <1>9 DEF Traced
<1>11. Refused /\ \A h \in Handler : reg[h].code # "undone"
  BY <1>4 DEF Refused
<1> QED
  BY <1>7, <1>10, <1>11 DEF Inv

\* What a request does when it performs a step.
LEMMA PerformIs ==
  ASSUME TypeInv, NEW k \in Handler, Perform(k), NEW after, after = Do(Request(k, db), Program(k)[reg[k].at])
  PROVE  /\ group' = group /\ db' = after.db
         /\ DOMAIN reg' = Handler /\ \A h \in Handler \ {k} : reg'[h] = reg[h]
         /\ DOMAIN reg'[k] = DOMAIN reg[k]
         /\ reg'[k].op = reg[k].op /\ reg'[k].at = reg[k].at + 1 /\ reg'[k].seen = after.seen
         /\ reg'[k].code = after.code \/ (after.code = "" /\ reg'[k].code = "ok" /\ reg[k].at = Len(Program(k)))
         /\ reg'[k].code = "" => reg[k].at # Len(Program(k))
<1>1. DOMAIN reg = Handler /\ DOMAIN reg[k] = {"op", "input", "at", "code", "seen"}
  BY DEF TypeInv
<1>2. PICK code : code = IF reg[k].at = Len(Program(k)) /\ after.code = "" THEN "ok" ELSE after.code
  OBVIOUS
<1>3. /\ group' = group /\ db' = after.db
      /\ reg' = [reg EXCEPT ![k].seen = after.seen, ![k].at = @ + 1, ![k].code = code]
  BY <1>2 DEF Perform
<1>4. reg'[k] = [reg[k] EXCEPT !.seen = after.seen, !.at = @ + 1, !.code = code]
  BY <1>1, <1>3
<1>5. DOMAIN reg' = Handler /\ \A h \in Handler \ {k} : reg'[h] = reg[h]
  BY <1>1, <1>3
<1>6. /\ DOMAIN reg'[k] = DOMAIN reg[k]
      /\ reg'[k].op = reg[k].op /\ reg'[k].at = reg[k].at + 1 /\ reg'[k].seen = after.seen /\ reg'[k].code = code
  BY <1>1, <1>4
<1>7. code = after.code \/ (after.code = "" /\ code = "ok" /\ reg[k].at = Len(Program(k)))
  BY <1>2
<1>8. code = "" => reg[k].at # Len(Program(k))
  BY <1>2
<1> QED
  BY <1>3, <1>5, <1>6, <1>7, <1>8

\* The request as it comes to the step.
LEMMA RequestIs ==
  ASSUME TypeInv, NEW k \in Handler, NEW st, st = Request(k, db)
  PROVE  /\ DOMAIN st = Fields /\ st.db = db /\ st.seen = reg[k].seen /\ st.me = k /\ Open(st)
         /\ DOMAIN st.db = Tables /\ DOMAIN st.seen = Tables
  BY DEF TypeInv, Request, Fields, Open

\* The programs stay, and so does what a request left until it performs a step.
LEMMA LeftIs ==
  ASSUME TypeInv, NEW k \in Handler, Perform(k)
  PROVE  /\ Tables' = Tables /\ \A h \in Handler : Program(h)' = Program(h)
         /\ \A h \in Handler \ {k} : Left(h)' = Left(h)
         /\ Left(k)' = Left(k) \cup Stored(Program(k)[reg[k].at])
<1>1. PICK after : after = Do(Request(k, db), Program(k)[reg[k].at])
  OBVIOUS
<1>2. /\ group' = group /\ DOMAIN reg' = Handler /\ \A h \in Handler \ {k} : reg'[h] = reg[h]
      /\ reg'[k].op = reg[k].op /\ reg'[k].at = reg[k].at + 1
  BY <1>1, PerformIs
<1>3. Tables' = Tables
  BY <1>2 DEF Tables, Rows
<1>4. \A h \in Handler : Program(h)' = Program(h)
  BY <1>2 DEF Program
<1>5. ASSUME NEW h \in Handler \ {k} PROVE Left(h)' = Left(h)
  BY <1>2, <1>4, <1>5 DEF Left
<1>6. PICK n \in Nat : n = reg[k].at /\ n >= 1
  BY DEF TypeInv
<1>7. 1 .. n = (1 .. (n - 1)) \cup {n}
  BY <1>6
<1>8. PICK p : p = Program(k)
  OBVIOUS
<1>9. Left(k)' = UNION {Stored(p[i]) : i \in 1 .. n}
  BY <1>2, <1>4, <1>6, <1>8 DEF Left
<1>10. Left(k) = UNION {Stored(p[i]) : i \in 1 .. (n - 1)}
  BY <1>6, <1>8 DEF Left
<1>11. UNION {Stored(p[i]) : i \in 1 .. n} = (UNION {Stored(p[i]) : i \in 1 .. (n - 1)}) \cup Stored(p[n])
  BY <1>7
<1> QED
  BY <1>3, <1>4, <1>5, <1>6, <1>8, <1>9, <1>10, <1>11

\* The marks of h, as a step of k finds them.
Marks(h, k, T)    == [tables |-> Tables, me |-> k, h |-> h, T |-> T, back |-> {}, over |-> FALSE]
Leftover(h, k, T, back) == [tables |-> Tables, me |-> k, h |-> h, T |-> T, back |-> back, over |-> TRUE]

\* The invariant, as what Tracked says of a request h when k performs a step.
LEMMA MarksTracked ==
  ASSUME TypeInv, Traced, NEW h \in Handler, NEW k \in Handler, NEW T, Left(h) \subseteq T
  PROVE  Tracked(Request(k, db), Marks(h, k, T))
<1>1. PICK st, q : st = Request(k, db) /\ q = Marks(h, k, T)
  OBVIOUS
<1>2. /\ DOMAIN st = Fields /\ st.db = db /\ st.seen = reg[k].seen /\ st.me = k
      /\ DOMAIN st.db = Tables /\ DOMAIN st.seen = Tables
  BY <1>1, RequestIs
<1>3. q.tables = Tables /\ q.me = k /\ q.h = h /\ q.T = T /\ ~q.over
  BY <1>1 DEF Marks
<1>4. \A t \in Tables, c \in Columns : h \in db[t][c] \/ h \in reg[k].seen[t][c] => t \in T
  BY DEF Traced
<1>5. Tracked(st, q)
  BY <1>2, <1>3, <1>4 DEF Tracked
<1> QED
  BY <1>1, <1>5

\* A step of k does not store words of another request under its name, and stores its
\* own where Stored says.
LEMMA MarksKept ==
  ASSUME TypeInv, Traced, NEW h \in Handler, NEW k \in Handler, Running(k), NEW s, s = Program(k)[reg[k].at],
         NEW T, T = Left(h) \cup (IF h = k THEN Stored(s) ELSE {})
  PROVE  /\ Step(s) /\ reg[k].at \in DOMAIN Program(k)
         /\ Tracked(Do(Request(k, db), s), Marks(h, k, T))
         /\ Do(Request(k, db), s).code = "refused" => (\E x \in Acts(s) : x.do \in Checks) /\ Stored(s) = {}
         /\ Do(Request(k, db), s).code = "undone" =>
              s.do \in Reverting /\ Do(Request(k, db), s) = Undone(Request(k, db), s.sub)
<1>1. PICK st, q : st = Request(k, db) /\ q = Marks(h, k, T)
  OBVIOUS
<1>2. reg[k].at \in DOMAIN Program(k)
  <2>1. Len(Program(k)) \in Nat /\ DOMAIN Program(k) = 1 .. Len(Program(k))
    BY Programs DEF IsSequence
  <2>2. reg[k].at \in Nat /\ reg[k].at >= 1 /\ reg[k].at <= Len(Program(k))
    BY DEF TypeInv
  <2> QED
    BY <2>1, <2>2
<1>3. Step(s) /\ \A x \in Acts(s) : \A c \in DOMAIN x.cols : x.cols[c] \notin Handler
  BY <1>2, Programs
<1>4. Tracked(st, q)
  <2>1. Left(h) \subseteq T
    OBVIOUS
  <2> QED
    BY <1>1, <2>1, MarksTracked
<1>5. Open(st)
  BY <1>1, RequestIs
<1>6. q.me = k /\ q.h = h /\ q.T = T /\ ~q.over
  BY <1>1 DEF Marks
<1>7. ASSUME NEW x \in Acts(s) PROVE Harmless(x, q)
  <2>1. \A c \in DOMAIN x.cols : x.cols[c] # h
    BY <1>3, <1>7
  <2>2. x.do \in Inserts \cup Updates => x.on \in Stored(s)
    BY <1>7 DEF Stored
  <2>3. h = k => Stored(s) \subseteq T
    OBVIOUS
  <2> QED
    BY <1>6, <2>1, <2>2, <2>3 DEF Harmless
<1>8. /\ Tracked(Do(st, s), q)
      /\ Do(st, s).code = "refused" => (\E x \in Acts(s) : x.do \in Checks) /\ Stored(s) = {}
      /\ Do(st, s).code = "undone" => s.do \in Reverting /\ Do(st, s) = Undone(st, s.sub)
  BY <1>3, <1>4, <1>5, <1>7, DoTracked
<1> QED
  BY <1>1, <1>2, <1>3, <1>8

\* One step of one request keeps each part of the invariant.
LEMMA TypeStep ==
  ASSUME TypeInv, Traced, NEW k \in Handler, Perform(k)
  PROVE  TypeInv'
<1>1. PICK s : s = Program(k)[reg[k].at]
  OBVIOUS
<1>2. PICK after : after = Do(Request(k, db), s)
  OBVIOUS
<1>3. Running(k)
  BY DEF Perform
<1>4. DOMAIN after.db = Tables /\ DOMAIN after.seen = Tables
  <2>1. PICK T : T = Left(k) \cup (IF k = k THEN Stored(s) ELSE {})
    OBVIOUS
  <2>2. PICK q : q = Marks(k, k, T)
    OBVIOUS
  <2>3. Tracked(after, q)
    BY <1>1, <1>2, <1>3, <2>1, <2>2, MarksKept
  <2>4. q.tables = Tables
    BY <2>2 DEF Marks
  <2> QED
    BY <2>3, <2>4 DEF Tracked
<1>5. /\ group' = group /\ db' = after.db
      /\ DOMAIN reg' = Handler /\ \A h \in Handler \ {k} : reg'[h] = reg[h]
      /\ DOMAIN reg'[k] = DOMAIN reg[k]
      /\ reg'[k].op = reg[k].op /\ reg'[k].at = reg[k].at + 1 /\ reg'[k].seen = after.seen
      /\ reg'[k].code = "" => reg[k].at # Len(Program(k))
  BY <1>1, <1>2, PerformIs
<1>6. Tables' = Tables /\ \A h \in Handler : Program(h)' = Program(h)
  BY LeftIs
<1>7. DOMAIN db' = Tables'
  BY <1>4, <1>5, <1>6
<1>8. ASSUME NEW h \in Handler
      PROVE  /\ DOMAIN reg'[h] = {"op", "input", "at", "code", "seen"} /\ DOMAIN reg'[h].seen = Tables
             /\ reg'[h].op \in DOMAIN Groups[group].ops
  BY <1>4, <1>5 DEF TypeInv
<1>9. ASSUME NEW h \in Handler
      PROVE  /\ reg'[h].at \in Nat /\ reg'[h].at >= 1 /\ reg'[h].at <= Len(Program(h)) + 1
             /\ reg'[h].code = "" => reg'[h].at <= Len(Program(h))
  <2>1. Len(Program(h)) \in Nat
    BY Programs DEF IsSequence
  <2>2. /\ reg[h].at \in Nat /\ reg[h].at >= 1 /\ reg[h].at <= Len(Program(h)) + 1
        /\ reg[h].code = "" => reg[h].at <= Len(Program(h))
    BY DEF TypeInv, Running
  <2>3. CASE h # k
    BY <1>5, <2>2, <2>3
  <2>4. CASE h = k
    <3>1. reg[h].at <= Len(Program(h))
      BY <1>3, <2>2, <2>4 DEF Running
    <3>2. PICK n, m \in Nat : n = reg[h].at /\ m = Len(Program(h)) /\ n >= 1 /\ n <= m
      BY <2>1, <2>2, <3>1
    <3>3. reg'[h].at = n + 1 /\ (reg'[h].code = "" => n # m)
      BY <1>5, <2>4, <3>2
    <3>4. n + 1 \in Nat /\ n + 1 >= 1 /\ n + 1 <= m + 1 /\ (n # m => n + 1 <= m)
      BY <3>2
    <3> QED
      BY <3>2, <3>3, <3>4
  <2> QED
    BY <2>3, <2>4
<1>10. group' \in DOMAIN Groups /\ DOMAIN reg' = Handler
  BY <1>5 DEF TypeInv
<1> QED
  BY <1>5, <1>6, <1>7, <1>8, <1>9, <1>10 DEF TypeInv, Running

LEMMA TracedStep ==
  ASSUME TypeInv, Traced, NEW k \in Handler, Perform(k)
  PROVE  Traced'
<1>1. PICK s : s = Program(k)[reg[k].at]
  OBVIOUS
<1>2. PICK after : after = Do(Request(k, db), s)
  OBVIOUS
<1>3. Running(k)
  BY DEF Perform
<1>4. db' = after.db /\ reg'[k].seen = after.seen /\ \A h \in Handler \ {k} : reg'[h] = reg[h]
  BY <1>1, <1>2, PerformIs
<1>5. Tables' = Tables /\ Left(k)' = Left(k) \cup Stored(s) /\ \A h \in Handler \ {k} : Left(h)' = Left(h)
  BY <1>1, LeftIs
<1>6. ASSUME NEW h \in Handler, NEW t \in Tables, NEW c \in Columns,
             h \in after.db[t][c] \/ h \in after.seen[t][c]
      PROVE  t \in Left(h)'
  <2>1. PICK T : T = Left(h) \cup (IF h = k THEN Stored(s) ELSE {})
    OBVIOUS
  <2>2. PICK q : q = Marks(h, k, T)
    OBVIOUS
  <2>3. Tracked(after, q)
    BY <1>1, <1>2, <1>3, <2>1, <2>2, MarksKept
  <2>4. q.tables = Tables /\ q.h = h /\ q.T = T
    BY <2>2 DEF Marks
  <2>5. t \in T
    BY <1>6, <2>3, <2>4 DEF Tracked
  <2> QED
    BY <1>5, <2>1, <2>5
<1>7. ASSUME NEW h \in Handler, NEW t \in Tables, NEW c \in Columns, NEW j \in Handler, h \in reg'[j].seen[t][c]
      PROVE  t \in Left(h)'
  <2>1. CASE j = k
    BY <1>4, <1>6, <1>7, <2>1
  <2>2. CASE j # k
    <3>1. t \in Left(h)
      BY <1>4, <1>7, <2>2 DEF Traced
    <3> QED
      BY <1>5, <3>1
  <2> QED
    BY <2>1, <2>2
<1>8. ASSUME NEW h \in Handler, NEW t \in Tables, NEW c \in Columns, h \in db'[t][c]
      PROVE  t \in Left(h)'
  BY <1>4, <1>6, <1>8
<1> QED
  BY <1>5, <1>7, <1>8 DEF Traced

LEMMA RefusedStep ==
  ASSUME TypeInv, Traced, Refused, NEW k \in Handler, Perform(k)
  PROVE  Refused'
<1>1. PICK s : s = Program(k)[reg[k].at]
  OBVIOUS
<1>2. PICK after : after = Do(Request(k, db), s)
  OBVIOUS
<1>3. Running(k)
  BY DEF Perform
<1>4. /\ \A h \in Handler \ {k} : reg'[h] = reg[h]
      /\ reg'[k].code = "refused" => after.code = "refused"
  BY <1>1, <1>2, PerformIs
<1>5. Left(k)' = Left(k) \cup Stored(s) /\ \A h \in Handler \ {k} : Left(h)' = Left(h)
  BY <1>1, LeftIs
<1>6. ASSUME after.code = "refused" PROVE Left(k)' = {}
  <2>1. reg[k].at \in DOMAIN Program(k) /\ (\E x \in Acts(s) : x.do \in Checks) /\ Stored(s) = {}
    <3>1. PICK T : T = Left(k) \cup (IF k = k THEN Stored(s) ELSE {})
      OBVIOUS
    <3> QED
      BY <1>1, <1>2, <1>3, <1>6, <3>1, MarksKept
  <2>2. ChecksFirst(Program(k))
    BY Programs
  <2>3. \A j \in 1 .. (reg[k].at - 1) : Stored(Program(k)[j]) = {}
    BY <1>1, <2>1, <2>2 DEF ChecksFirst
  <2>4. Left(k) = {}
    BY <2>3 DEF Left
  <2> QED
    BY <1>5, <2>1, <2>4
<1> QED
  BY <1>4, <1>5, <1>6 DEF Refused

\* The request that a step undoes: Reverted begins to hold.
LEMMA RevertedNow ==
  ASSUME TypeInv, Traced, NEW k \in Handler, Perform(k), reg'[k].code = "undone"
  PROVE  Reverted(k)'
<1>1. PICK s : s = Program(k)[reg[k].at]
  OBVIOUS
<1>2. PICK st, after : st = Request(k, db) /\ after = Do(st, s)
  OBVIOUS
<1>3. Running(k)
  BY DEF Perform
<1>4. /\ \A h \in Handler \ {k} : reg'[h] = reg[h]
      /\ reg'[k].at = reg[k].at + 1 /\ db' = after.db /\ after.code = "undone"
  BY <1>1, <1>2, PerformIs
<1>5. Tables' = Tables /\ Program(k)' = Program(k)
  BY LeftIs
<1>6. Step(s) /\ reg[k].at \in DOMAIN Program(k) /\ s.do \in Reverting /\ after = Undone(st, s.sub)
  <2>1. PICK T : T = Left(k) \cup (IF k = k THEN Stored(s) ELSE {})
    OBVIOUS
  <2> QED
    BY <1>1, <1>2, <1>3, <1>4, <2>1, MarksKept
<1>7. PICK q : q = Marks(k, k, Left(k))
  OBVIOUS
<1>8. q.tables = Tables /\ q.h = k /\ q.T = Left(k)
  BY <1>7 DEF Marks
<1>9. Tracked(st, q)
  <2>1. PICK T : T = Left(k) /\ Left(k) \subseteq T
    OBVIOUS
  <2> QED
    BY <1>2, <1>7, <2>1, MarksTracked
<1>10. Tracked(after, q) /\ \A t \in Taken(s) \cap Tables : after.db[t] = Missing
  BY <1>6, <1>8, <1>9, UndoneStep
<1>11. Left(k) \subseteq Taken(s)
  <2>1. UndoesAll(Program(k))
    BY Programs
  <2>2. \A j \in 1 .. (reg[k].at - 1) : Stored(Program(k)[j]) \subseteq Taken(s)
    BY <1>1, <1>6, <2>1 DEF UndoesAll
  <2> QED
    BY <2>2 DEF Left
<1>12. PICK n \in Nat : n = reg[k].at /\ n >= 1
  BY DEF TypeInv
<1>13. reg'[k].at > 1 /\ reg'[k].at - 1 = n
  BY <1>4, <1>12
<1>14. Reverts(k)' = Taken(s) /\ Program(k)'[reg'[k].at - 1] = s
  BY <1>1, <1>5, <1>12, <1>13 DEF Reverts
<1>15. ASSUME NEW t \in Tables, NEW c \in Columns PROVE k \notin db'[t][c]
  <2>1. SUFFICES ASSUME k \in after.db[t][c] PROVE FALSE
    BY <1>4
  <2>2. t \in Left(k)
    BY <1>8, <1>10, <1>15, <2>1 DEF Tracked
  <2>3. after.db[t] = Missing
    BY <1>10, <1>11, <1>15, <2>2
  <2> QED
    BY <1>15, <2>1, <2>3, NoWords
<1>16. ASSUME NEW t \in Tables, NEW c \in Columns, NEW j \in Handler \ {k}, k \in reg'[j].seen[t][c]
       PROVE  t \in Reverts(k)' /\ db'[t] = Missing
  <2>1. t \in Left(k)
    BY <1>4, <1>16 DEF Traced
  <2> QED
    BY <1>4, <1>10, <1>11, <1>14, <1>16, <2>1
<1> QED
  BY <1>5, <1>6, <1>13, <1>14, <1>15, <1>16 DEF Reverted

\* It goes on to hold through every step of the other request.
LEMMA RevertedStill ==
  ASSUME TypeInv, Traced, AtMostTwo, NEW k \in Handler, Perform(k), NEW h \in Handler, h # k, Reverted(h)
  PROVE  Reverted(h)'
<1>1. PICK s : s = Program(k)[reg[k].at]
  OBVIOUS
<1>2. PICK st, after : st = Request(k, db) /\ after = Do(st, s)
  OBVIOUS
<1>3. Running(k)
  BY DEF Perform
<1>4. reg'[h] = reg[h] /\ db' = after.db /\ reg'[k].seen = after.seen
  BY <1>1, <1>2, PerformIs
<1>5. Tables' = Tables /\ Program(h)' = Program(h) /\ Program(k)' = Program(k)
  BY LeftIs
<1>6. PICK T, back : T = Reverts(h) /\ back = Back(k)
  OBVIOUS
<1>7. Reverts(h)' = T /\ Back(k)' = back
  BY <1>4, <1>5, <1>6 DEF Reverts, Back
<1>8. PICK q : q = Leftover(h, k, T, back)
  OBVIOUS
<1>9. q.tables = Tables /\ q.h = h /\ q.me = k /\ q.T = T /\ q.back = back /\ q.over
  BY <1>8 DEF Leftover
<1>10. /\ DOMAIN st = Fields /\ st.db = db /\ st.seen = reg[k].seen /\ st.me = k /\ Open(st)
       /\ DOMAIN st.db = Tables /\ DOMAIN st.seen = Tables
  BY <1>2, RequestIs
<1>11. \A t \in Tables, c \in Columns :
         /\ h \notin db[t][c]
         /\ h \in reg[k].seen[t][c] => t \in T /\ (db[t] = Missing \/ t \notin back)
  BY <1>6 DEF Reverted
<1>12. Tracked(st, q)
  BY <1>9, <1>10, <1>11 DEF Tracked
<1>13. Step(s) /\ reg[k].at \in DOMAIN Program(k)
  <2>1. PICK T0 : T0 = Left(k) \cup (IF k = k THEN Stored(s) ELSE {})
    OBVIOUS
  <2> QED
    BY <1>1, <1>3, <2>1, MarksKept
<1>14. PICK n \in DOMAIN Program(h) : n = reg[h].at - 1 /\ Program(h)[n].do \in Reverting
  <2>1. Len(Program(h)) \in Nat /\ DOMAIN Program(h) = 1 .. Len(Program(h))
    BY Programs DEF IsSequence
  <2>2. reg[h].at \in Nat /\ reg[h].at <= Len(Program(h)) + 1
    BY DEF TypeInv
  <2>3. reg[h].at > 1 /\ Program(h)[reg[h].at - 1].do \in Reverting
    BY DEF Reverted
  <2>4. reg[h].at - 1 \in 1 .. Len(Program(h))
    BY <2>1, <2>2, <2>3
  <2> QED
    BY <2>1, <2>3, <2>4
<1>15. \A t \in T : Keeps(Program(k), t)
  <2>1. T = Taken(Program(h)[n])
    BY <1>6, <1>14 DEF Reverts
  <2> QED
    BY <1>14, <2>1, Programs
<1>16. ASSUME NEW x \in Acts(s) PROVE Harmless(x, q)
  <2>1. \A c \in DOMAIN x.cols : x.cols[c] # h
    BY <1>1, <1>13, <1>16, Programs
  <2>2. Restores(x) => x.on \in back
    <3>1. Restores(x) => x.on \in Restored(s)
      BY <1>16 DEF Restores, Restored
    <3> QED
      BY <1>1, <1>6, <1>13, <3>1 DEF Back
  <2>3. ASSUME x.do \in Inserts, x.on \in T PROVE x.on \notin back
    <3>1. x.on \in Created(s)
      BY <1>16, <2>3 DEF Created
    <3> QED
      BY <1>1, <1>6, <1>13, <1>15, <2>3, <3>1 DEF Back, Keeps
  <2> QED
    BY <1>9, <2>1, <2>2, <2>3 DEF Harmless
<1>17. Tracked(after, q)
  BY <1>2, <1>10, <1>12, <1>13, <1>16, DoTracked
<1>18. \A t \in Tables, c \in Columns :
         /\ h \notin after.db[t][c]
         /\ h \in after.seen[t][c] => t \in T /\ (after.db[t] = Missing \/ t \notin back)
  BY <1>9, <1>17 DEF Tracked
<1>19. \A j \in Handler \ {h} : j = k
  BY DEF AtMostTwo
<1>20. \A t \in Tables, c \in Columns :
         /\ h \notin db'[t][c]
         /\ \A j \in Handler \ {h} :
              h \in reg'[j].seen[t][c] => t \in Reverts(h)' /\ (db'[t] = Missing \/ t \notin Back(j)')
  BY <1>4, <1>7, <1>18, <1>19
<1>21. reg'[h].at > 1 /\ Program(h)'[reg'[h].at - 1].do \in Reverting
  BY <1>4, <1>5 DEF Reverted
<1> QED
  BY <1>5, <1>20, <1>21 DEF Reverted

LEMMA StepInv == Inv /\ [Next]_vars => Inv'
<1> SUFFICES ASSUME Inv, [Next]_vars PROVE Inv'
  OBVIOUS
<1>1. ASSUME NEW k \in Handler, Perform(k) PROVE Inv'
  <2>1. TypeInv' /\ Traced' /\ Refused'
    BY <1>1, TypeStep, TracedStep, RefusedStep DEF Inv
  <2>2. ASSUME AtMostTwo, NEW h \in Handler, reg'[h].code = "undone" PROVE Reverted(h)'
    <3>1. CASE h = k
      BY <1>1, <2>2, <3>1, RevertedNow DEF Inv
    <3>2. CASE h # k
      <4>1. reg'[h] = reg[h]
        <5>1. PICK after : after = Do(Request(k, db), Program(k)[reg[k].at])
          OBVIOUS
        <5> QED
          BY <1>1, <3>2, <5>1, PerformIs DEF Inv
      <4>2. Reverted(h)
        BY <2>2, <4>1 DEF Inv
      <4> QED
        BY <1>1, <2>2, <3>2, <4>2, RevertedStill DEF Inv
    <3> QED
      BY <3>1, <3>2
  <2>3. AtMostTwo' <=> AtMostTwo
    BY DEF AtMostTwo
  <2> QED
    BY <2>1, <2>2, <2>3 DEF Inv
<1>2. CASE UNCHANGED vars
  <2>1. group' = group /\ db' = db /\ reg' = reg
    BY <1>2 DEF vars
  <2>2. Tables' = Tables /\ \A h : Program(h)' = Program(h)
    BY <2>1 DEF Tables, Rows, Program
  <2>3. \A h : Left(h)' = Left(h) /\ Reverts(h)' = Reverts(h) /\ Back(h)' = Back(h)
    BY <2>1, <2>2 DEF Left, Reverts, Back
  <2>4. TypeInv'
    BY <2>1, <2>2 DEF Inv, TypeInv, Running
  <2>5. Traced' /\ Refused'
    BY <2>1, <2>2, <2>3 DEF Inv, Traced, Refused
  <2>6. \A h : Reverted(h)' <=> Reverted(h)
    BY <2>1, <2>2, <2>3 DEF Reverted
  <2> QED
    BY <2>1, <2>4, <2>5, <2>6 DEF Inv, AtMostTwo
<1> QED
  BY <1>1, <1>2 DEF Next

\* However many requests overlap, in whatever order their steps interleave, and however
\* long the programs are: words of a request are only in tables where a step of it has
\* stored some, and of two requests nothing stays of one that was undone.
THEOREM Invariance == Spec => []Inv
<1>1. Init => Inv
  BY InitInv
<1>2. Inv /\ [Next]_vars => Inv'
  BY StepInv
<1> QED
  BY <1>1, <1>2, PTL DEF Spec

\* A refused request has no word in a row, nor in what a handler has read of one.
RefusedLeaveNothing ==
  \A h \in Handler : reg[h].code = "refused" =>
    \A t \in Tables, c \in Columns : h \notin db[t][c] /\ \A k \in Handler : h \notin reg[k].seen[t][c]

\* Of a request that a check refuses nothing is stored, however many requests overlap:
\* every check of a handler (Evaluate, RequireProjectAPIGates, the parsing of the body)
\* comes before the first statement that stores something.
THEOREM RefusedStoreNothing == Spec => []RefusedLeaveNothing
<1>1. Inv => RefusedLeaveNothing
  BY DEF Inv, Traced, Refused, RefusedLeaveNothing
<1> QED
  BY <1>1, Invariance, PTL

\* RefusedUntouched, for any two requests of any group: what fails after it has stored
\* (a container that does not start, an insert that finds the name taken) is taken back,
\* and the other request does not bring it back with a row it read before.
THEOREM RefusedStayUntouched ==
  ASSUME AtMostTwo
  PROVE  Spec => []RefusedUntouched
<1>1. Inv => RefusedUntouched
  BY DEF Inv, Traced, Refused, Reverted, RefusedUntouched
<1> QED
  BY <1>1, Invariance, PTL
=============================================================================
