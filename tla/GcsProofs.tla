------------------------------ MODULE GcsProofs ------------------------------
(***************************************************************************)
(* Theorems about GcsObjects, for every set of buckets, names, contents    *)
(* and handlers, under the hypotheses each theorem states.                 *)
(*                                                                         *)
(* That every row has its file is not inductive: a handler on its way to   *)
(* insert or remove a row must be known to have written the file, to hold  *)
(* a generation above all stored ones, or to have deleted the row (Holds). *)
(* What clients racing on one name may break is known of private names     *)
(* alone.  Retention and lock rest on checks made statements before the    *)
(* write: AloneInv says that what they found still holds, which it does    *)
(* for one request at a time.                                              *)
(***************************************************************************)
EXTENDS GcsObjects, SequenceTheorems, FiniteSetTheorems, WellFoundedInduction, TLAPS

-----------------------------------------------------------------------------
(***************************************************************************)
(* Hypotheses on the constants.                                            *)
(***************************************************************************)

\* Names whose paths differ: sanitizeObjectPath maps several names to one file.
Distinct == \A m, n \in Name : sanitizeObjectPath(m) = sanitizeObjectPath(n) => m = n

\* One request at a time.
Alone == \A h, k \in Handler : h = k

\* One handler at most writes the name.
Private(n) == \A h, k \in Handler : n \in Owned[h] /\ n \in Owned[k] => h = k

\* Buckets are deleted only while nobody else makes requests: DeleteBucket
\* counts the objects before it drops the bucket and its directory.
DropsAlone == "drop" \in Offered => Alone

-----------------------------------------------------------------------------
(***************************************************************************)
(* The invariant.                                                          *)
(***************************************************************************)
PC == {"idle", "source", "sourceBytes", "bucket", "retention", "age", "next", "write", "insert", "session",
       "match", "find", "row", "unlink", "bytes", "reply", "patch", "drop", "rmdir"}
Op == {"none", "put", "delete", "get", "patch", "drop"}
Source == Bucket \X Name \X (0..MaxGen)

Reg == [pc : PC, op : Op, b : Bucket \cup {None}, n : Name \cup {None}, g : 0..MaxGen, want : Int,
        named : BOOLEAN, data : Content \cup {None}, sum : Content \cup {None}, srcs : Seq(Source),
        period : Nat, policy : Policy \cup {None}, u : Upload \cup {None}]

\* Which request is at which statement.
OpFits(r) ==
  /\ r.pc \in {"source", "sourceBytes", "bucket", "next", "write", "insert"} => r.op = "put"
  /\ r.pc \in {"row", "unlink"} => r.op = "delete"
  /\ r.pc \in {"retention", "age"} => r.op \in {"put", "delete"}
  /\ r.pc \in {"match", "find"} => r.op \in {"get", "delete"}
  /\ r.pc = "bytes" => r.op = "get"
  /\ r.pc \in {"drop", "rmdir"} => "drop" \in Offered

\* What the registers hold that the next statements use.
Carries(h, r) ==
  /\ r.pc # "idle" => r.b \in Bucket
  /\ r.op \in {"put", "delete"} => r.n \in Owned[h]
  /\ r.op = "get" => r.n \in Name
  /\ r.op = "put" => r.data \in Content
  /\ r.pc \in {"source", "sourceBytes"} => r.srcs # <<>>
  /\ r.pc \in {"sourceBytes", "write", "insert", "row", "unlink", "bytes"} => r.g > 0
  /\ r.pc \in {"retention", "age"} /\ r.op = "delete" => r.g > 0
  /\ r.pc = "session" => r.u \in Upload
  /\ r.pc = "patch" => r.policy \in Policy

RegInv == reg \in [Handler -> Reg] /\ \A h \in Handler : OpFits(reg[h]) /\ Carries(h, reg[h])

Session == [state : {"fresh", "open", "done"}, b : Bucket \cup {None}, n : Name \cup {None}]

TableInv ==
  /\ buckets \in [Bucket -> Policy \cup {None}]
  /\ objects \in [Key -> Row \cup {None}]
  /\ blobs \in [Path -> Content \cup {None}]
  /\ sessions \in [Upload -> Session] /\ \A u \in Upload : sessions[u].state = "open" => sessions[u].b \in Bucket
  /\ clock \in 0..MaxClock

TypeInv == RegInv /\ TableInv

\* The rows of names with one writer have their files.
PrivateBacked == \A k \in Key : objects[k] # None /\ Private(k[2]) => blobs[BlobPath(k)] = objects[k].data

\* What a handler knows of the rows and the file of the name it alone writes.
Above(r)   == \A g \in Generation : objects[<<r.b, r.n, g>>] # None => g < r.g
Written(r) == blobs[BlobPath(<<r.b, r.n, r.g>>)] = r.data
Gone(r)    == objects[<<r.b, r.n, r.g>>] = None
Emptied(b) == \A k \in Key : k[1] = b => objects[k] = None

Holds(r) ==
  /\ Private(r.n) => /\ r.pc \in {"write", "insert"} => Above(r)
                     /\ r.pc = "insert" => Written(r)
                     /\ r.pc = "unlink" => Gone(r)
  /\ r.pc \in {"drop", "rmdir"} => Emptied(r.b)

FileInv == PrivateBacked /\ \A h \in Handler : Holds(reg[h])

Inv == TypeInv /\ FileInv

-----------------------------------------------------------------------------
(***************************************************************************)
(* Keys, paths and generations.                                            *)
(***************************************************************************)

\* Names whose paths differ give every version a file of its own.
LEMMA PathOfKey ==
  ASSUME Distinct, NEW k \in Key, NEW l \in Key, BlobPath(k) = BlobPath(l)
  PROVE  k = l
<1>1. k = <<k[1], k[2], k[3]>> /\ l = <<l[1], l[2], l[3]>> /\ k[2] \in Name /\ l[2] \in Name
  BY DEF Key
<1>2. k[1] = l[1] /\ k[3] = l[3] /\ sanitizeObjectPath(k[2]) = sanitizeObjectPath(l[2])
  BY DEF BlobPath
<1> QED
  BY <1>1, <1>2 DEF Distinct

LEMMA BoundedMax ==
  ASSUME NEW N \in Nat, NEW S, S \subseteq 0..N, S # {}
  PROVE  \E x \in S : \A y \in S : x >= y
<1> DEFINE T == {N - x : x \in S}
<1> DEFINE R == OpToRel(<, Nat)
<1>1. T \subseteq Nat /\ T # {}
  <2>1. \A x \in S : N - x \in Nat
    OBVIOUS
  <2> QED
    BY <2>1
<1>2. IsWellFoundedOn(R, Nat)
  BY NatLessThanWellFounded
<1>3. PICK t \in T : \A u \in T : ~(<<u, t>> \in R)
  <2> HIDE DEF R, T
  <2> QED BY <1>1, <1>2, WFMin
<1>4. \A u \in T : ~(u < t)
  BY <1>1, <1>3 DEF OpToRel
<1>5. PICK x \in S : t = N - x
  OBVIOUS
<1>6. \A y \in S : N - y \in T
  OBVIOUS
<1>7. \A y \in S : x >= y
  <2> HIDE DEF T
  <2> QED BY <1>4, <1>5, <1>6
<1> QED
  BY <1>7

\* What the latest generation of a name is.
LEMMA LatestGeneration ==
  ASSUME NEW b, NEW n
  PROVE  /\ Latest(b, n) \in 0..MaxGen
         /\ Latest(b, n) # 0 => Latest(b, n) \in Generation /\ objects[<<b, n, Latest(b, n)>>] # None
         /\ \A g \in Generation : objects[<<b, n, g>>] # None => g <= Latest(b, n)
<1> DEFINE S == {0} \cup {g \in Generation : objects[<<b, n, g>>] # None}
<1>1. S \subseteq 0..MaxGen /\ S # {} /\ MaxGen \in Nat
  <2>1. MaxGen \in Nat /\ \A g \in Generation : g \in 0..MaxGen
    BY ConstantsAssumption DEF Generation
  <2> QED
    BY <2>1
<1>2. \E x \in S : \A y \in S : x >= y
  <2> HIDE DEF S
  <2> QED BY <1>1, BoundedMax
<1>3. Latest(b, n) \in S /\ \A y \in S : Latest(b, n) >= y
  BY <1>2 DEF Latest, Max
<1>4. \A g \in Generation : g \in Int /\ g # 0
  BY ConstantsAssumption DEF Generation
<1> QED
  BY <1>1, <1>3, <1>4

\* One row replaced, and one file.
LEMMA RowReplaced ==
  ASSUME TableInv, NEW k \in Key, NEW v, objects' = [objects EXCEPT ![k] = v]
  PROVE  objects'[k] = v /\ \A l \in Key : l # k => objects'[l] = objects[l]
  BY DEF TableInv

LEMMA FileReplaced ==
  ASSUME TableInv, Distinct, NEW k \in Key, NEW v, blobs' = [blobs EXCEPT ![BlobPath(k)] = v]
  PROVE  /\ blobs'[BlobPath(k)] = v
         /\ \A l \in Key : l # k => blobs'[BlobPath(l)] = blobs[BlobPath(l)]
<1>1. \A l \in Key : BlobPath(l) \in Path
  BY DEF Path
<1> QED
  BY <1>1, PathOfKey DEF TableInv

-----------------------------------------------------------------------------
(***************************************************************************)
(* The invariant holds initially, and what a step of one handler must do   *)
(* to keep it.                                                             *)
(***************************************************************************)
LEMMA EmptyContent == <<>> \in Content
<1>1. 0 \in 0..MaxSize
  BY ConstantsAssumption
<1>2. <<>> \in [1..0 -> Chunk]
  OBVIOUS
<1> QED
  BY <1>1, <1>2 DEF Content

LEMMA OneChunk == ASSUME NEW d \in Chunk PROVE <<d>> \in Content
<1>1. 1 \in 0..MaxSize
  BY ConstantsAssumption
<1>2. <<d>> \in [1..1 -> Chunk]
  OBVIOUS
<1> QED
  BY <1>1, <1>2 DEF Content

LEMMA IdleFits ==
  ASSUME NEW h \in Handler
  PROVE  Idle \in Reg /\ OpFits(Idle) /\ Carries(h, Idle) /\ Holds(Idle)
<1>1. Idle \in Reg
  BY EmptyContent, ConstantsAssumption DEF Idle, Reg, PC, Op
<1>2. Idle.pc = "idle" /\ Idle.op = "none"
  BY DEF Idle
<1> QED
  BY <1>1, <1>2 DEF OpFits, Carries, Holds

LEMMA InitInv == Init => Inv
<1> SUFFICES ASSUME Init PROVE Inv
  OBVIOUS
<1>1. RegInv
  BY IdleFits DEF Init, StartWith, RegInv
<1>2. TableInv
  BY ConstantsAssumption DEF Init, StartWith, TableInv, Session
<1>3. FileInv
  BY IdleFits DEF Init, StartWith, FileInv, PrivateBacked
<1> QED
  BY <1>1, <1>2, <1>3 DEF Inv, TypeInv

\* The registers of the handlers when one of them moves.
LEMMA RegStep ==
  ASSUME RegInv, NEW h \in Handler, NEW r \in Reg, OpFits(r), Carries(h, r), Goto(h, r)
  PROVE  RegInv' /\ reg'[h] = r /\ \A k \in Handler : k # h => reg'[k] = reg[k]
<1>1. reg' = [reg EXCEPT ![h] = r] /\ reg \in [Handler -> Reg]
  BY DEF Goto, RegInv
<1>2. reg' \in [Handler -> Reg] /\ reg'[h] = r /\ \A k \in Handler : k # h => reg'[k] = reg[k]
  BY <1>1
<1>3. \A k \in Handler : OpFits(reg'[k]) /\ Carries(k, reg'[k])
  BY <1>2 DEF RegInv
<1>4. (\A k \in Handler : OpFits(reg[k]) /\ Carries(k, reg[k]))'
  BY <1>3 DEF OpFits, Carries
<1> QED
  BY <1>2, <1>4 DEF RegInv

\* A step that leaves rows and files alone.
LEMMA LocalStep ==
  ASSUME Inv, NEW h \in Handler, NEW r \in Reg, OpFits(r), Carries(h, r), Holds(r), Goto(h, r),
         TableInv', UNCHANGED <<objects, blobs>>
  PROVE  Inv'
<1>1. RegInv' /\ reg'[h] = r /\ \A k \in Handler : k # h => reg'[k] = reg[k]
  BY RegStep DEF Inv, TypeInv
<1>2. PrivateBacked'
  BY DEF Inv, FileInv, PrivateBacked
<1>3. \A k \in Handler : Holds(reg'[k])
  BY <1>1 DEF Inv, FileInv
<1>4. (\A k \in Handler : Holds(reg[k]))'
  BY <1>3 DEF Holds, Above, Written, Gone, Emptied
<1> QED
  BY <1>1, <1>2, <1>4 DEF Inv, TypeInv, FileInv

\* A step that writes rows and files, but those of no name another handler has:
\* what the others know still holds.
LEMMA WriteStep ==
  ASSUME Inv, DropsAlone, NEW h \in Handler, NEW r \in Reg, OpFits(r), Carries(h, r), Goto(h, r),
         TableInv', PrivateBacked', Holds(r)',
         \A k \in Handler \ {h}, l \in Key : l[2] \notin Owned[h] =>
           objects'[l] = objects[l] /\ blobs'[BlobPath(l)] = blobs[BlobPath(l)]
  PROVE  Inv'
<1>1. RegInv' /\ reg'[h] = r /\ \A k \in Handler : k # h => reg'[k] = reg[k]
  BY RegStep DEF Inv, TypeInv
<1>2. ASSUME NEW k \in Handler, k # h PROVE Holds(reg[k])'
  <2> PICK q : q = reg[k]
    OBVIOUS
  <2>1. reg'[k] = q /\ q \in Reg /\ OpFits(q) /\ Carries(k, q) /\ Holds(q)
    BY <1>1, <1>2 DEF Inv, TypeInv, RegInv, FileInv
  <2>2. q.pc \notin {"drop", "rmdir"}
    BY <1>2, <2>1 DEF OpFits, DropsAlone, Alone
  <2>3. ASSUME Private(q.n), q.pc \in {"write", "insert", "unlink"}
        PROVE  /\ q.b \in Bucket /\ q.g \in Generation
               /\ \A g \in Generation : LET l == <<q.b, q.n, g>> IN
                    objects'[l] = objects[l] /\ blobs'[BlobPath(l)] = blobs[BlobPath(l)]
    <3>1. q.n \in Owned[k] /\ q.b \in Bucket /\ q.g \in Generation
      BY <2>1, <2>3, ConstantsAssumption DEF OpFits, Carries, Reg, Generation
    <3>2. q.n \notin Owned[h] /\ q.n \in Name
      BY <1>2, <2>3, <3>1, ConstantsAssumption DEF Private
    <3>3. \A g \in Generation : <<q.b, q.n, g>> \in Key /\ <<q.b, q.n, g>>[2] = q.n
      BY <3>1, <3>2 DEF Key
    <3> QED
      BY <1>2, <3>1, <3>2, <3>3
  <2>4. Private(q.n) => /\ q.pc \in {"write", "insert"} => Above(q)'
                        /\ q.pc = "insert" => Written(q)'
                        /\ q.pc = "unlink" => Gone(q)'
    BY <2>1, <2>3 DEF Holds, Above, Written, Gone
  <2>5. Holds(q)'
    BY <2>2, <2>4 DEF Holds
  <2> QED
    BY <2>1, <2>5 DEF Holds, Above, Written, Gone, Emptied
<1>3. Holds(reg[h])'
  BY <1>1 DEF Holds, Above, Written, Gone, Emptied
<1> QED
  BY <1>1, <1>2, <1>3 DEF Inv, TypeInv, FileInv

-----------------------------------------------------------------------------
(***************************************************************************)
(* Requests: what a handler starts with.                                   *)
(***************************************************************************)
LEMMA TablesUnchanged ==
  ASSUME TableInv, UNCHANGED <<buckets, objects, blobs, sessions, clock>>
  PROVE  TableInv'
  BY DEF TableInv

\* A handler that has only registered its request knows nothing yet.
LEMMA Begins ==
  ASSUME Inv, NEW h \in Handler, NEW op, NEW r \in Reg, OpFits(r), Carries(h, r), Begin(h, op, r),
         r.pc \notin {"write", "insert", "unlink", "rmdir"}, r.pc = "drop" => Emptied(r.b),
         UNCHANGED <<buckets, objects, blobs, sessions, clock>>
  PROVE  Inv'
<1>1. Holds(r) /\ Goto(h, r)
  BY DEF Holds, Begin
<1>2. TableInv'
  BY TablesUnchanged DEF Inv, TypeInv
<1> QED
  BY <1>1, <1>2, LocalStep

LEMMA UploadKeeps ==
  ASSUME Inv, NEW h \in Handler, NEW b \in Bucket, NEW n \in Name, NEW d \in Chunk, UploadObject(h, b, n, d)
  PROVE  Inv'
<1> PICK r : r = [Idle EXCEPT !.pc = "bucket", !.op = "put", !.b = b, !.n = n, !.data = <<d>>]
  OBVIOUS
<1>1. r \in Reg
  BY OneChunk, IdleFits DEF Reg, PC, Op
<1>2. OpFits(r) /\ Carries(h, r) /\ r.pc = "bucket"
  BY OneChunk, IdleFits DEF Reg, OpFits, Carries, UploadObject
<1> QED
  BY <1>1, <1>2, Begins DEF UploadObject

LEMMA ComposeKeeps ==
  ASSUME Inv, NEW h \in Handler, NEW b \in Bucket, NEW n \in Name, NEW srcs \in Sources,
         ComposeObject(h, srcs, b, n)
  PROVE  Inv'
<1> PICK r : r = [Idle EXCEPT !.pc = "source", !.op = "put", !.b = b, !.n = n, !.srcs = srcs]
  OBVIOUS
<1>1. srcs \in Seq(Source) /\ srcs # <<>>
  <2>1. 0 \in 0..MaxGen
    BY ConstantsAssumption
  <2>2. CASE \E src \in Bucket \X Name \X (0..MaxGen) : srcs = <<src>>
    BY <2>2 DEF Source
  <2>3. CASE \E s1, s2 \in Bucket \X Name \X {0} : srcs = <<s1, s2>>
    <3>1. PICK s1, s2 \in Bucket \X Name \X {0} : srcs = <<s1, s2>>
      BY <2>3
    <3>2. s1 \in Source /\ s2 \in Source
      BY <2>1 DEF Source
    <3> QED
      BY <3>1, <3>2
  <2> QED
    BY <2>2, <2>3 DEF Sources
<1>2. r \in Reg
  BY <1>1, IdleFits DEF Reg, PC, Op
<1>3. OpFits(r) /\ Carries(h, r) /\ r.pc = "source"
  BY <1>1, EmptyContent DEF Idle, OpFits, Carries, ComposeObject
<1> QED
  BY <1>2, <1>3, Begins DEF ComposeObject

LEMMA CompleteKeeps ==
  ASSUME Inv, NEW h \in Handler, NEW u \in Upload, NEW d \in Chunk, CompleteUploadSession(h, u, d)
  PROVE  Inv'
<1> PICK r : r = [Idle EXCEPT !.pc = "bucket", !.op = "put", !.u = u, !.data = <<d>>,
                              !.b = sessions[u].b, !.n = sessions[u].n]
  OBVIOUS
<1>1. sessions[u].b \in Bucket /\ sessions[u].n \in Owned[h] /\ sessions[u].n \in Name
  BY ConstantsAssumption DEF CompleteUploadSession, Inv, TypeInv, TableInv
<1>2. r \in Reg
  BY <1>1, OneChunk, IdleFits DEF Reg, PC, Op
<1>3. OpFits(r) /\ Carries(h, r) /\ r.pc = "bucket"
  BY <1>1, OneChunk DEF Idle, OpFits, Carries
<1> QED
  BY <1>2, <1>3, Begins DEF CompleteUploadSession

LEMMA LookupRegister ==
  ASSUME NEW h \in Handler, NEW b \in Bucket, NEW n \in Name, NEW g \in 0..MaxGen, NEW want \in Int,
         NEW pc \in {"find", "match"}, NEW some \in BOOLEAN
  PROVE  /\ [Idle EXCEPT !.pc = pc, !.op = "get", !.b = b, !.n = n, !.g = g, !.want = want] \in Reg
         /\ [Idle EXCEPT !.pc = pc, !.op = "delete",
                         !.b = b, !.n = n, !.g = g, !.want = want, !.named = some] \in Reg
  BY IdleFits, ZenonT(40) DEF Reg, PC, Op

\* A read or a delete starts with the generation check or with the lookup.
LEMMA LookupKeeps ==
  ASSUME Inv, NEW h \in Handler, NEW b \in Bucket, NEW n \in Name, NEW g \in 0..MaxGen, NEW want \in -1..MaxGen,
         DeleteObject(h, b, n, g, want) \/ GetOrDownloadObject(h, b, n, g, want)
  PROVE  Inv'
<1> PICK pc \in {"find", "match"} : pc = IF want < 0 THEN "find" ELSE "match"
  OBVIOUS
<1> PICK some \in BOOLEAN : some = (g > 0)
  <2>1. (g > 0) \in BOOLEAN
    OBVIOUS
  <2> QED
    BY <2>1, Zenon
<1> want \in Int
  BY ConstantsAssumption
<1>1. CASE DeleteObject(h, b, n, g, want)
  <2> PICK r : r = [Idle EXCEPT !.pc = pc, !.op = "delete",
                                !.b = b, !.n = n, !.g = g, !.want = want, !.named = some]
    OBVIOUS
  <2>1. r \in Reg
    BY LookupRegister, ZenonT(40)
  <2>2. OpFits(r) /\ Carries(h, r) /\ r.pc \in {"find", "match"}
    BY <1>1 DEF Idle, OpFits, Carries, DeleteObject
  <2>3. Begin(h, "delete", r) /\ UNCHANGED <<buckets, objects, blobs, sessions, clock>>
    BY <1>1 DEF DeleteObject
  <2> QED
    BY <2>1, <2>2, <2>3, Begins
<1>2. CASE GetOrDownloadObject(h, b, n, g, want)
  <2> PICK r : r = [Idle EXCEPT !.pc = pc, !.op = "get", !.b = b, !.n = n, !.g = g, !.want = want]
    OBVIOUS
  <2>1. r \in Reg
    BY LookupRegister
  <2>2. OpFits(r) /\ Carries(h, r) /\ r.pc \in {"find", "match"}
    BY DEF Idle, OpFits, Carries
  <2>3. Begin(h, "get", r) /\ UNCHANGED <<buckets, objects, blobs, sessions, clock>>
    BY <1>2 DEF GetOrDownloadObject
  <2> QED
    BY <2>1, <2>2, <2>3, Begins
<1> QED
  BY <1>1, <1>2

\* What PatchBucket writes back is a policy, and no weaker than a locked one.
LEMMA PatchedPolicy ==
  ASSUME NEW cur \in Policy, NEW patch \in Patches
  PROVE  /\ Patched(cur, patch) \in Policy
         /\ ~LockRefuses(cur, patch) /\ cur.locked =>
              Patched(cur, patch).locked /\ Patched(cur, patch).period >= cur.period
<1>1. Period \cup {0} \subseteq Nat
  BY ConstantsAssumption
<1>2. cur.period \in Nat
  BY <1>1 DEF Policy
<1>3. CASE patch = None
  BY <1>2, <1>3 DEF Patched
<1>4. CASE patch # None
  <2>1. patch \in [period : Period \cup {0}, locked : BOOLEAN]
    BY <1>4 DEF Patches
  <2>2. patch.period \in Nat /\ patch.period \in Period \cup {0}
    BY <1>1, <2>1
  <2> DEFINE lock == (patch.locked \/ cur.locked) /\ patch.period > 0
  <2>3. Patched(cur, patch) = [period |-> patch.period, locked |-> lock]
    BY <1>4 DEF Patched
  <2>4. lock \in BOOLEAN
    OBVIOUS
  <2>5. ASSUME ~LockRefuses(cur, patch), cur.locked PROVE patch.period >= cur.period /\ lock
    <3>1. ~(patch.period < cur.period) /\ patch.period # 0
      BY <1>4, <2>5 DEF LockRefuses
    <3>2. patch.period >= cur.period /\ patch.period > 0
      BY <1>2, <2>2, <3>1
    <3> QED
      BY <2>5, <3>2
  <2> HIDE DEF lock
  <2>6. Patched(cur, patch) \in Policy
    BY <2>2, <2>3, <2>4 DEF Policy
  <2>7. Patched(cur, patch).locked = lock /\ Patched(cur, patch).period = patch.period
    BY <2>3
  <2> QED
    BY <2>5, <2>6, <2>7
<1> QED
  BY <1>3, <1>4

LEMMA PatchKeeps ==
  ASSUME Inv, NEW h \in Handler, NEW b \in Bucket, NEW patch \in Patches, PatchBucket(h, b, patch)
  PROVE  Inv'
<1> PICK p : p = Patched(buckets[b], patch)
  OBVIOUS
<1> PICK r : r = [Idle EXCEPT !.pc = "patch", !.op = "patch", !.b = b, !.policy = p]
  OBVIOUS
<1>1. p \in Policy
  BY PatchedPolicy DEF PatchBucket, Inv, TypeInv, TableInv
<1>2. r \in Reg
  BY <1>1, IdleFits DEF Idle, Reg, PC, Op
<1>3. OpFits(r) /\ Carries(h, r) /\ r.pc = "patch"
  BY <1>1 DEF Idle, OpFits, Carries
<1> QED
  BY <1>2, <1>3, Begins DEF PatchBucket

LEMMA DeleteBucketKeeps ==
  ASSUME Inv, NEW h \in Handler, NEW b \in Bucket, DeleteBucket(h, b)
  PROVE  Inv'
<1> PICK r : r = [Idle EXCEPT !.pc = "drop", !.op = "drop", !.b = b]
  OBVIOUS
<1>1. r \in Reg
  BY IdleFits, ZenonT(40) DEF Reg, PC, Op
<1>2. OpFits(r) /\ Carries(h, r) /\ r.pc = "drop" /\ r.b = b
  BY DEF Idle, OpFits, Carries, DeleteBucket, Begin
<1>3. Emptied(b)
  BY DEF DeleteBucket, Rows, Emptied
<1> QED
  BY <1>1, <1>2, <1>3, Begins DEF DeleteBucket

LEMMA AcceptKeeps ==
  ASSUME Inv, NEW h \in Handler, Accept(h)
  PROVE  Inv'
  BY UploadKeeps, ComposeKeeps, CompleteKeeps, LookupKeeps, PatchKeeps, DeleteBucketKeeps DEF Accept

-----------------------------------------------------------------------------
(***************************************************************************)
(* Statements that read.                                                   *)
(***************************************************************************)

\* A handler moves on: what a read puts in its registers, and what they keep.
Moved(q, pc) == [q EXCEPT !.pc = pc]
Found(q, pc, g) == [q EXCEPT !.pc = pc, !.g = g]
Summed(q, pc, g, sum) == [q EXCEPT !.pc = pc, !.g = g, !.sum = sum]
Joining(q, pc, srcs, data) == [q EXCEPT !.pc = pc, !.srcs = srcs, !.data = data, !.g = 0]
Bound(q, pc, period) == [q EXCEPT !.pc = pc, !.period = period]
Filled(q, pc, data) == [q EXCEPT !.pc = pc, !.data = data]

Same(q, r) == r.op = q.op /\ r.b = q.b /\ r.n = q.n

LEMMA MovedRegister ==
  ASSUME NEW q \in Reg, NEW pc \in PC, NEW r, r = Moved(q, pc)
  PROVE  /\ r \in Reg
         /\ r.pc = pc
         /\ Same(q, r)
         /\ r.g = q.g /\ r.data = q.data /\ r.srcs = q.srcs /\ r.period = q.period /\ r.policy = q.policy /\ r.u = q.u
<1>1. r \in Reg
  BY DEF Reg, Moved
<1>2. r.pc = pc
  BY DEF Reg, Moved
<1>3. Same(q, r)
  BY DEF Reg, Same, Moved
<1>4. r.g = q.g /\ r.data = q.data /\ r.srcs = q.srcs /\ r.period = q.period /\ r.policy = q.policy /\ r.u = q.u
  BY DEF Reg, Moved
<1> QED
  BY <1>1, <1>2, <1>3, <1>4

LEMMA FoundRegister ==
  ASSUME NEW q \in Reg, NEW pc \in PC, NEW g \in 0..MaxGen, NEW r, r = Found(q, pc, g)
  PROVE  /\ r \in Reg
         /\ r.pc = pc /\ r.g = g
         /\ Same(q, r)
         /\ r.data = q.data /\ r.srcs = q.srcs /\ r.period = q.period /\ r.policy = q.policy /\ r.u = q.u
<1>1. r \in Reg
  BY DEF Reg, Found
<1>2. r.pc = pc /\ r.g = g
  BY DEF Reg, Found
<1>3. Same(q, r)
  BY DEF Reg, Same, Found
<1>4. r.data = q.data /\ r.srcs = q.srcs /\ r.period = q.period /\ r.policy = q.policy /\ r.u = q.u
  BY DEF Reg, Found
<1> QED
  BY <1>1, <1>2, <1>3, <1>4

LEMMA SummedRegister ==
  ASSUME NEW q \in Reg, NEW pc \in PC, NEW g \in 0..MaxGen, NEW sum \in Content \cup {None},
          NEW r, r = Summed(q, pc, g, sum)
  PROVE  /\ r \in Reg
         /\ r.pc = pc /\ r.g = g
         /\ Same(q, r)
         /\ r.data = q.data /\ r.srcs = q.srcs /\ r.period = q.period /\ r.policy = q.policy /\ r.u = q.u
<1>1. r \in Reg
  BY DEF Reg, Summed
<1>2. r.pc = pc /\ r.g = g
  BY DEF Reg, Summed
<1>3. Same(q, r)
  BY DEF Reg, Same, Summed
<1>4. r.data = q.data /\ r.srcs = q.srcs /\ r.period = q.period /\ r.policy = q.policy /\ r.u = q.u
  BY DEF Reg, Summed
<1> QED
  BY <1>1, <1>2, <1>3, <1>4

LEMMA JoiningRegister ==
  ASSUME NEW q \in Reg, NEW pc \in PC, NEW srcs \in Seq(Source), NEW data \in Content,
          NEW r, r = Joining(q, pc, srcs, data)
  PROVE  /\ r \in Reg
         /\ r.pc = pc /\ r.srcs = srcs /\ r.data = data
         /\ Same(q, r)
         /\ r.period = q.period /\ r.policy = q.policy /\ r.u = q.u
<1>0. 0 \in 0..MaxGen
  BY ConstantsAssumption
<1>1. r \in Reg
  BY <1>0 DEF Reg, Joining
<1>2. r.pc = pc /\ r.srcs = srcs /\ r.data = data
  BY DEF Reg, Joining
<1>3. Same(q, r)
  BY DEF Reg, Same, Joining
<1>4. r.period = q.period /\ r.policy = q.policy /\ r.u = q.u
  BY DEF Reg, Joining
<1> QED
  BY <1>1, <1>2, <1>3, <1>4

LEMMA BoundRegister ==
  ASSUME NEW q \in Reg, NEW pc \in PC, NEW period \in Nat, NEW r, r = Bound(q, pc, period)
  PROVE  /\ r \in Reg
         /\ r.pc = pc /\ r.period = period
         /\ Same(q, r)
         /\ r.g = q.g /\ r.data = q.data /\ r.srcs = q.srcs /\ r.policy = q.policy /\ r.u = q.u
<1>1. r \in Reg
  BY DEF Reg, Bound
<1>2. r.pc = pc /\ r.period = period
  BY DEF Reg, Bound
<1>3. Same(q, r)
  BY DEF Reg, Same, Bound
<1>4. r.g = q.g /\ r.data = q.data /\ r.srcs = q.srcs /\ r.policy = q.policy /\ r.u = q.u
  BY DEF Reg, Bound
<1> QED
  BY <1>1, <1>2, <1>3, <1>4

LEMMA FilledRegister ==
  ASSUME NEW q \in Reg, NEW pc \in PC, NEW data \in Content \cup {None}, NEW r, r = Filled(q, pc, data)
  PROVE  /\ r \in Reg
         /\ r.pc = pc /\ r.data = data
         /\ Same(q, r)
         /\ r.g = q.g /\ r.srcs = q.srcs /\ r.period = q.period /\ r.policy = q.policy /\ r.u = q.u
<1>1. r \in Reg
  BY DEF Reg, Filled
<1>2. r.pc = pc /\ r.data = data
  BY DEF Reg, Filled
<1>3. Same(q, r)
  BY DEF Reg, Same, Filled
<1>4. r.g = q.g /\ r.srcs = q.srcs /\ r.period = q.period /\ r.policy = q.policy /\ r.u = q.u
  BY DEF Reg, Filled
<1> QED
  BY <1>1, <1>2, <1>3, <1>4

\* What is known of a handler before its step.
LEMMA Known ==
  ASSUME Inv, NEW h \in Handler
  PROVE  reg[h] \in Reg /\ OpFits(reg[h]) /\ Carries(h, reg[h]) /\ Holds(reg[h])
  BY DEF Inv, TypeInv, RegInv, FileInv

\* A handler that returns without writing.
LEMMA Returns ==
  ASSUME Inv, NEW h \in Handler, Return(h), UNCHANGED <<buckets, objects, blobs, sessions, clock>>
  PROVE  Inv'
<1>1. TableInv'
  BY TablesUnchanged DEF Inv, TypeInv
<1> QED
  BY <1>1, IdleFits, LocalStep DEF Return

\* A handler that reads, and goes on to a statement that needs no more of the tables.
LEMMA Reads ==
  ASSUME Inv, NEW h \in Handler, NEW r \in Reg, OpFits(r), Carries(h, r), Goto(h, r),
         r.pc \notin {"write", "insert", "unlink", "drop", "rmdir"},
         UNCHANGED <<buckets, objects, blobs, sessions, clock>>
  PROVE  Inv'
<1>1. TableInv'
  BY TablesUnchanged DEF Inv, TypeInv
<1>2. Holds(r)
  BY DEF Holds
<1> QED
  BY <1>1, <1>2, LocalStep

LEMMA FindSourceKeeps ==
  ASSUME Inv, NEW h \in Handler, FindSource(h)
  PROVE  Inv'
<1>1. PICK q : q = reg[h]
  OBVIOUS
<1>2. q \in Reg /\ OpFits(q) /\ Carries(h, q) /\ q.pc = "source"
  BY <1>1, Known DEF FindSource, At
<1>3. PICK src : src = Head(q.srcs)
  OBVIOUS
<1>4. src \in Source
  BY <1>2, <1>3 DEF Carries, Reg
<1>5. PICK g : g = IF src[3] = 0 THEN Latest(src[1], src[2]) ELSE src[3]
  OBVIOUS
<1>6. g \in 0..MaxGen
  BY <1>4, <1>5, LatestGeneration DEF Source
<1>7. \/ Return(h)
      \/ g # 0 /\ Goto(h, [q EXCEPT !.pc = "sourceBytes", !.g = g])
  BY <1>1, <1>3, <1>5 DEF FindSource
<1>8. UNCHANGED <<buckets, objects, blobs, sessions, clock>>
  BY DEF FindSource
<1>9. ASSUME g # 0, Goto(h, [q EXCEPT !.pc = "sourceBytes", !.g = g]) PROVE Inv'
  <2>1. PICK r : r = Found(q, "sourceBytes", g)
    OBVIOUS
  <2>2. "sourceBytes" \in PC
    BY DEF PC
  <2>3. r \in Reg /\ r.pc = "sourceBytes" /\ r.g = g /\ Same(q, r) /\ r.data = q.data /\ r.srcs = q.srcs
    BY <1>2, <1>6, <2>1, <2>2, FoundRegister
  <2>4. g > 0
    BY <1>6, <1>9, ConstantsAssumption
  <2>5. OpFits(r) /\ Carries(h, r)
    BY <1>2, <2>3, <2>4 DEF OpFits, Carries, Same
  <2>6. Goto(h, r)
    BY <1>9, <2>1 DEF Found
  <2> QED
    BY <1>8, <2>3, <2>5, <2>6, Reads
<1> QED
  BY <1>7, <1>8, <1>9, Returns

\* The parts read so far and the next one, as long as they fit.
LEMMA Joined ==
  ASSUME NEW s \in Content, NEW t \in Content, Len(s \o t) <= MaxSize
  PROVE  s \o t \in Content
<1>1. PICK m \in 0..MaxSize, n \in 0..MaxSize : s \in [1..m -> Chunk] /\ t \in [1..n -> Chunk]
  BY DEF Content
<1>2. MaxSize \in Nat /\ m \in Nat /\ n \in Nat
  BY ConstantsAssumption
<1>3. s \in Seq(Chunk) /\ t \in Seq(Chunk)
  BY <1>1, <1>2, SeqDef
<1>4. s \o t \in Seq(Chunk) /\ Len(s \o t) \in Nat
  BY <1>3, ConcatProperties, LenProperties
<1>5. s \o t \in [1..Len(s \o t) -> Chunk]
  BY <1>4, LenProperties
<1>6. Len(s \o t) \in 0..MaxSize
  BY <1>2, <1>4
<1> QED
  BY <1>5, <1>6 DEF Content

LEMMA ReadSourceKeeps ==
  ASSUME Inv, NEW h \in Handler, ReadSource(h)
  PROVE  Inv'
<1>1. PICK q : q = reg[h]
  OBVIOUS
<1>2. q \in Reg /\ OpFits(q) /\ Carries(h, q) /\ q.pc = "sourceBytes"
  BY <1>1, Known DEF ReadSource, At
<1>3. PICK src : src = Head(q.srcs)
  OBVIOUS
<1>4. PICK rest : rest = Tail(q.srcs)
  OBVIOUS
<1>5. src \in Source /\ rest \in Seq(Source) /\ (Len(q.srcs) # 1 => rest # <<>>)
  <2>1. q.srcs \in Seq(Source) /\ q.srcs # <<>>
    BY <1>2 DEF Carries, Reg
  <2>2. /\ Tail(q.srcs) \in Seq(Source) /\ Len(q.srcs) \in Nat /\ Len(Tail(q.srcs)) = Len(q.srcs) - 1
        /\ Head(q.srcs) \in Source
    BY <2>1, HeadTailProperties, LenProperties
  <2>3. Tail(q.srcs) = <<>> => Len(Tail(q.srcs)) = 0
    BY EmptySeq
  <2> QED
    BY <1>3, <1>4, <2>2, <2>3
<1>6. PICK data : data = blobs[BlobPath(<<src[1], src[2], q.g>>)]
  OBVIOUS
<1>7. data \in Content \cup {None}
  <2>1. q.g \in Generation
    BY <1>2, ConstantsAssumption DEF Carries, Reg, Generation
  <2>2. <<src[1], src[2], q.g>> \in Key
    BY <1>5, <2>1 DEF Key, Source
  <2> QED
    BY <1>6, <2>2 DEF Inv, TypeInv, TableInv, Path
<1>8. PICK pc : pc = IF Len(q.srcs) = 1 THEN "bucket" ELSE "source"
  OBVIOUS
<1>9. \/ Return(h)
      \/ /\ data # None /\ Len(q.data \o data) <= MaxSize
         /\ Goto(h, [q EXCEPT !.pc = pc, !.srcs = rest, !.data = q.data \o data, !.g = 0])
  BY <1>1, <1>2, <1>3, <1>4, <1>6, <1>8 DEF ReadSource, Reg
<1>10. UNCHANGED <<buckets, objects, blobs, sessions, clock>>
  BY DEF ReadSource
<1>11. ASSUME data # None, Len(q.data \o data) <= MaxSize,
              Goto(h, [q EXCEPT !.pc = pc, !.srcs = rest, !.data = q.data \o data, !.g = 0])
       PROVE  Inv'
  <2>1. PICK all : all = q.data \o data
    OBVIOUS
  <2>2. all \in Content
    BY <1>2, <1>7, <1>11, <2>1, Joined DEF OpFits, Carries
  <2>3. PICK r : r = Joining(q, pc, rest, all)
    OBVIOUS
  <2>4. pc \in PC /\ pc \in {"bucket", "source"}
    BY <1>8 DEF PC
  <2>5. Goto(h, r)
    BY <1>11, <2>1, <2>3 DEF Joining
  <2>6. r \in Reg /\ r.pc = pc /\ r.data = all /\ r.srcs = rest /\ Same(q, r)
    BY <1>2, <1>5, <2>2, <2>3, <2>4, JoiningRegister
  <2>7. OpFits(r) /\ Carries(h, r)
    BY <1>2, <1>5, <1>8, <2>2, <2>4, <2>6 DEF OpFits, Carries, Same
  <2>8. r.pc \notin {"write", "insert", "unlink", "drop", "rmdir"}
    BY <2>4, <2>6
  <2> QED
    BY <1>10, <2>5, <2>6, <2>7, <2>8, Reads
<1> QED
  BY <1>9, <1>10, <1>11, Returns

\* A handler goes on to its next statement with what it has, or returns.
LEMMA MovesOn ==
  ASSUME Inv, NEW h \in Handler, NEW pc \in PC \ {"write", "insert", "unlink", "drop", "rmdir"},
         OpFits(Moved(reg[h], pc)), Carries(h, Moved(reg[h], pc)), Step(h, pc),
         UNCHANGED <<buckets, objects, blobs, sessions, clock>>
  PROVE  Inv'
<1>1. PICK r : r = Moved(reg[h], pc)
  OBVIOUS
<1>2. r \in Reg /\ r.pc = pc
  BY <1>1, Known, MovedRegister
<1>3. Goto(h, r)
  BY <1>1 DEF Step, Moved
<1> QED
  BY <1>1, <1>2, <1>3, Reads

LEMMA OpenBucketKeeps ==
  ASSUME Inv, NEW h \in Handler, OpenBucket(h)
  PROVE  Inv'
<1>1. PICK q : q = reg[h]
  OBVIOUS
<1>2. q \in Reg /\ OpFits(q) /\ Carries(h, q) /\ q.pc = "bucket"
  BY <1>1, Known DEF OpenBucket, At
<1>3. PICK r : r = Moved(q, "retention")
  OBVIOUS
<1>4. "retention" \in PC
  BY DEF PC
<1>5. r.pc = "retention" /\ Same(q, r) /\ r.data = q.data
  BY <1>2, <1>3, <1>4, MovedRegister
<1>6. OpFits(r) /\ Carries(h, r)
  BY <1>2, <1>5 DEF OpFits, Carries, Same
<1>7. Return(h) \/ Step(h, "retention")
  BY DEF OpenBucket
<1>8. UNCHANGED <<buckets, objects, blobs, sessions, clock>>
  BY DEF OpenBucket
<1> QED
  BY <1>1, <1>3, <1>4, <1>6, <1>7, <1>8, Returns, MovesOn

LEMMA CheckRetentionPeriodKeeps ==
  ASSUME Inv, NEW h \in Handler, CheckRetentionPeriod(h)
  PROVE  Inv'
<1>1. PICK q : q = reg[h]
  OBVIOUS
<1>2. q \in Reg /\ OpFits(q) /\ Carries(h, q) /\ q.pc = "retention" /\ q.b \in Bucket
  BY <1>1, Known DEF CheckRetentionPeriod, At, Carries
<1>3. PICK period : period = IF buckets[q.b] = None THEN 0 ELSE buckets[q.b].period
  OBVIOUS
<1>4. period \in Nat
  <2>1. Period \cup {0} \subseteq Nat
    BY ConstantsAssumption
  <2>2. buckets[q.b] \in Policy \cup {None}
    BY <1>2 DEF Inv, TypeInv, TableInv
  <2>3. buckets[q.b] # None => buckets[q.b].period \in Nat
    BY <2>1, <2>2 DEF Policy
  <2> QED
    BY <1>3, <2>3
<1>5. PICK pc : pc = IF period = 0 THEN (IF q.op = "put" THEN "next" ELSE "row") ELSE "age"
  OBVIOUS
<1>6. pc \in PC /\ pc \in {"next", "row", "age"} /\ (pc = "next" => q.op = "put") /\ (pc = "row" => q.op # "put")
  BY <1>5 DEF PC
<1>7. PICK r : r = Bound(q, pc, period)
  OBVIOUS
<1>8. r \in Reg /\ r.pc = pc /\ Same(q, r) /\ r.g = q.g /\ r.data = q.data
  BY <1>2, <1>4, <1>6, <1>7, BoundRegister
<1>9. OpFits(r) /\ Carries(h, r)
  BY <1>2, <1>6, <1>8 DEF OpFits, Carries, Same
<1>10. Goto(h, r) /\ UNCHANGED <<buckets, objects, blobs, sessions, clock>>
  BY <1>1, <1>3, <1>5, <1>7 DEF CheckRetentionPeriod, Bound
<1> QED
  BY <1>6, <1>8, <1>9, <1>10, Reads

LEMMA CheckRetentionAgeKeeps ==
  ASSUME Inv, NEW h \in Handler, CheckRetentionAge(h)
  PROVE  Inv'
<1>1. PICK q : q = reg[h]
  OBVIOUS
<1>2. q \in Reg /\ OpFits(q) /\ Carries(h, q) /\ q.pc = "age"
  BY <1>1, Known DEF CheckRetentionAge, At
<1>3. PICK pc : pc = IF q.op = "put" THEN "next" ELSE "row"
  OBVIOUS
<1>4. pc \in PC \ {"write", "insert", "unlink", "drop", "rmdir"}
  BY <1>3 DEF PC
<1>5. PICK r : r = Moved(q, pc)
  OBVIOUS
<1>6. r.pc = pc /\ Same(q, r) /\ r.data = q.data /\ r.g = q.g
  BY <1>2, <1>4, <1>5, MovedRegister
<1>7. OpFits(r) /\ Carries(h, r)
  BY <1>2, <1>3, <1>6 DEF OpFits, Carries, Same
<1>8. Return(h) \/ Step(h, pc)
  BY <1>1, <1>3 DEF CheckRetentionAge
<1>9. UNCHANGED <<buckets, objects, blobs, sessions, clock>>
  BY DEF CheckRetentionAge
<1> QED
  BY <1>1, <1>4, <1>5, <1>7, <1>8, <1>9, Returns, MovesOn

\* The number found is above every stored generation.
LEMMA NextGenerationKeeps ==
  ASSUME Inv, NEW h \in Handler, NextGeneration(h)
  PROVE  Inv'
<1>1. PICK q : q = reg[h]
  OBVIOUS
<1>2. q \in Reg /\ OpFits(q) /\ Carries(h, q) /\ q.pc = "next"
  BY <1>1, Known DEF NextGeneration, At
<1>3. PICK last : last = Latest(q.b, q.n)
  OBVIOUS
<1>4. last \in 0..MaxGen /\ \A f \in Generation : objects[<<q.b, q.n, f>>] # None => f <= last
  BY <1>3, LatestGeneration
<1>5. PICK g : g = last + 1
  OBVIOUS
<1>6. g <= MaxGen
  BY <1>1, <1>3, <1>5 DEF NextGeneration
<1>7. g \in 0..MaxGen /\ g > 0
  BY <1>4, <1>5, <1>6, ConstantsAssumption
<1>8. PICK r : r = Found(q, "write", g)
  OBVIOUS
<1>9. "write" \in PC
  BY DEF PC
<1>10. r \in Reg /\ r.pc = "write" /\ r.g = g /\ Same(q, r) /\ r.data = q.data
  BY <1>2, <1>7, <1>8, <1>9, FoundRegister
<1>11. OpFits(r) /\ Carries(h, r)
  BY <1>2, <1>7, <1>10 DEF OpFits, Carries, Same
<1>12. Goto(h, r) /\ UNCHANGED <<buckets, objects, blobs, sessions, clock>>
  BY <1>1, <1>3, <1>5, <1>8 DEF NextGeneration, Found
<1>13. Above(r)
  <2>1. \A f \in Generation : f \in Int
    BY DEF Generation
  <2>2. \A f \in Generation : objects[<<q.b, q.n, f>>] # None => f < g
    BY <1>4, <1>5, <2>1, ConstantsAssumption
  <2> QED
    BY <1>10, <2>2 DEF Above, Same
<1>14. Holds(r)
  BY <1>10, <1>13 DEF Holds
<1>15. TableInv'
  BY <1>12, TablesUnchanged DEF Inv, TypeInv
<1> QED
  BY <1>10, <1>11, <1>12, <1>14, <1>15, LocalStep

LEMMA CheckGenerationMatchKeeps ==
  ASSUME Inv, NEW h \in Handler, CheckGenerationMatch(h)
  PROVE  Inv'
<1>1. PICK q : q = reg[h]
  OBVIOUS
<1>2. q \in Reg /\ OpFits(q) /\ Carries(h, q) /\ q.pc = "match"
  BY <1>1, Known DEF CheckGenerationMatch, At
<1>3. PICK r : r = Moved(q, "find")
  OBVIOUS
<1>4. "find" \in PC
  BY DEF PC
<1>5. r.pc = "find" /\ Same(q, r) /\ r.data = q.data
  BY <1>2, <1>3, <1>4, MovedRegister
<1>6. OpFits(r) /\ Carries(h, r)
  BY <1>2, <1>5 DEF OpFits, Carries, Same
<1>7. Return(h) \/ Step(h, "find")
  BY DEF CheckGenerationMatch
<1>8. UNCHANGED <<buckets, objects, blobs, sessions, clock>>
  BY DEF CheckGenerationMatch
<1> QED
  BY <1>1, <1>3, <1>4, <1>6, <1>7, <1>8, Returns, MovesOn

LEMMA GetObjectKeeps ==
  ASSUME Inv, NEW h \in Handler, GetObject(h)
  PROVE  Inv'
<1>1. PICK q : q = reg[h]
  OBVIOUS
<1>2. q \in Reg /\ OpFits(q) /\ Carries(h, q) /\ q.pc = "find"
  BY <1>1, Known DEF GetObject, At
<1>3. q.b \in Bucket /\ q.n \in Name
  BY <1>2, ConstantsAssumption DEF OpFits, Carries
<1>4. PICK g : g = IF q.g = 0 THEN Latest(q.b, q.n) ELSE q.g
  OBVIOUS
<1>5. g \in 0..MaxGen
  BY <1>2, <1>4, LatestGeneration DEF Reg
<1>6. PICK row : row = IF g = 0 THEN None ELSE objects[<<q.b, q.n, g>>]
  OBVIOUS
<1>7. row # None => row.data \in Content /\ g > 0
  <2> SUFFICES ASSUME row # None PROVE row.data \in Content /\ g > 0
    OBVIOUS
  <2>1. g # 0 /\ row = objects[<<q.b, q.n, g>>]
    BY <1>6
  <2>2. g \in Generation /\ g > 0
    BY <1>5, <2>1, ConstantsAssumption DEF Generation
  <2>3. <<q.b, q.n, g>> \in Key
    BY <1>3, <2>2 DEF Key
  <2>4. row \in Row
    BY <2>1, <2>3 DEF Inv, TypeInv, TableInv
  <2> QED
    BY <2>2, <2>4 DEF Row
<1>8. PICK pc : pc = IF q.op = "get" THEN "bytes" ELSE "retention"
  OBVIOUS
<1>9. pc \in PC /\ pc \in {"bytes", "retention"}
  BY <1>8 DEF PC
<1>10. \/ Return(h)
       \/ row # None /\ Goto(h, Summed(q, pc, g, row.data))
  BY <1>1, <1>4, <1>6, <1>8 DEF GetObject, Summed
<1>11. UNCHANGED <<buckets, objects, blobs, sessions, clock>>
  BY DEF GetObject
<1>12. ASSUME row # None, Goto(h, Summed(q, pc, g, row.data)) PROVE Inv'
  <2>1. PICK r : r = Summed(q, pc, g, row.data)
    OBVIOUS
  <2>2. r \in Reg /\ r.pc = pc /\ r.g = g /\ Same(q, r) /\ r.data = q.data
    <3>1. row.data \in Content \cup {None}
      BY <1>7, <1>12
    <3> QED
      BY <1>2, <1>5, <1>9, <2>1, <3>1, SummedRegister
  <2>3. OpFits(r) /\ Carries(h, r)
    BY <1>2, <1>7, <1>8, <1>9, <1>12, <2>2 DEF OpFits, Carries, Same
  <2> QED
    BY <1>9, <1>11, <1>12, <2>1, <2>2, <2>3, Reads
<1> QED
  BY <1>10, <1>11, <1>12, Returns

LEMMA ReadObjectBytesKeeps ==
  ASSUME Inv, NEW h \in Handler, ReadObjectBytes(h)
  PROVE  Inv'
<1>1. PICK q : q = reg[h]
  OBVIOUS
<1>2. q \in Reg /\ OpFits(q) /\ Carries(h, q) /\ q.pc = "bytes"
  BY <1>1, Known DEF ReadObjectBytes, At
<1>3. <<q.b, q.n, q.g>> \in Key
  BY <1>2, ConstantsAssumption DEF OpFits, Carries, Reg, Key, Generation
<1>4. PICK data : data = blobs[BlobPath(<<q.b, q.n, q.g>>)]
  OBVIOUS
<1>5. data \in Content \cup {None}
  BY <1>3, <1>4 DEF Inv, TypeInv, TableInv, Path
<1>6. PICK r : r = Filled(q, "reply", data)
  OBVIOUS
<1>7. "reply" \in PC
  BY DEF PC
<1>8. r \in Reg /\ r.pc = "reply" /\ Same(q, r)
  BY <1>2, <1>5, <1>6, <1>7, FilledRegister
<1>9. OpFits(r) /\ Carries(h, r)
  BY <1>2, <1>8 DEF OpFits, Carries, Same
<1>10. Goto(h, r) /\ UNCHANGED <<buckets, objects, blobs, sessions, clock>>
  BY <1>1, <1>4, <1>6 DEF ReadObjectBytes, Filled, KeyOf
<1> QED
  BY <1>8, <1>9, <1>10, Reads

-----------------------------------------------------------------------------
(***************************************************************************)
(* Statements that write rows and files.                                   *)
(***************************************************************************)

\* The version a handler writes is one of its own names.
LEMMA OwnKey ==
  ASSUME Inv, NEW h \in Handler, reg[h].pc \in {"write", "insert", "row", "unlink"}
  PROVE  /\ KeyOf(h) \in Key /\ KeyOf(h)[2] = reg[h].n /\ reg[h].n \in Owned[h]
         /\ KeyOf(h) = <<reg[h].b, reg[h].n, reg[h].g>>
         /\ reg[h].b \in Bucket /\ reg[h].n \in Name /\ reg[h].g \in Generation
<1>1. PICK q : q = reg[h]
  OBVIOUS
<1>2. q \in Reg /\ OpFits(q) /\ Carries(h, q) /\ q.pc \in {"write", "insert", "row", "unlink"}
  BY <1>1, Known
<1>3. q.b \in Bucket /\ q.n \in Owned[h]
  BY <1>2 DEF OpFits, Carries
<1>4. q.n \in Name
  BY <1>3, ConstantsAssumption
<1>5. q.g \in Generation
  BY <1>2, ConstantsAssumption DEF Carries, Reg, Generation
<1> QED
  BY <1>1, <1>3, <1>4, <1>5 DEF KeyOf, Key

LEMMA WriteBlobKeeps ==
  ASSUME Inv, Distinct, DropsAlone, NEW h \in Handler, WriteBlob(h)
  PROVE  Inv'
<1>1. PICK q : q = reg[h]
  OBVIOUS
<1>2. q \in Reg /\ OpFits(q) /\ Carries(h, q) /\ Holds(q) /\ q.pc = "write"
  BY <1>1, Known DEF WriteBlob, At
<1>3. PICK k : k = KeyOf(h)
  OBVIOUS
<1>4. k \in Key /\ k[2] = q.n /\ q.n \in Owned[h] /\ k = <<q.b, q.n, q.g>> /\ q.g \in Generation
  BY <1>1, <1>2, <1>3, OwnKey
<1>5. PICK r : r = Moved(q, "insert")
  OBVIOUS
<1>6. "insert" \in PC /\ q.data \in Content
  BY <1>2 DEF PC, OpFits, Carries
<1>7. r \in Reg /\ r.pc = "insert" /\ Same(q, r) /\ r.data = q.data /\ r.g = q.g
  BY <1>2, <1>5, <1>6, MovedRegister
<1>8. OpFits(r) /\ Carries(h, r) /\ Goto(h, r)
  BY <1>1, <1>2, <1>5, <1>7 DEF OpFits, Carries, Same, WriteBlob, Step, Moved
<1>9. /\ blobs'[BlobPath(k)] = q.data
      /\ \A l \in Key : l # k => blobs'[BlobPath(l)] = blobs[BlobPath(l)]
  <2>1. blobs' = [blobs EXCEPT ![BlobPath(k)] = q.data] /\ TableInv
    BY <1>1, <1>3 DEF WriteBlob, Inv, TypeInv
  <2> QED
    BY <1>4, <2>1, FileReplaced
<1>10. TableInv' /\ objects' = objects
  BY <1>1, <1>3, <1>4, <1>6 DEF WriteBlob, Inv, TypeInv, TableInv, Path
<1>11. Private(q.n) => objects[k] = None
  BY <1>2, <1>4 DEF Holds, Above, Generation
<1>12. PrivateBacked'
  BY <1>4, <1>9, <1>10, <1>11 DEF Inv, FileInv, PrivateBacked
<1>13. Holds(r)'
  <2>1. Written(r)'
    BY <1>4, <1>7, <1>9 DEF Written, Same
  <2>2. Private(r.n) => Above(r)'
    BY <1>2, <1>7, <1>10 DEF Holds, Above, Same
  <2> QED
    BY <1>7, <2>1, <2>2 DEF Holds
<1>14. \A l \in Key : l[2] \notin Owned[h] =>
         objects'[l] = objects[l] /\ blobs'[BlobPath(l)] = blobs[BlobPath(l)]
  BY <1>4, <1>9, <1>10
<1> QED
  BY <1>7, <1>8, <1>10, <1>12, <1>13, <1>14, WriteStep

\* The next register after the row is in: the session is deleted, or the reply sent.
LEMMA AfterInsert ==
  ASSUME Inv, NEW h \in Handler, At(h, "insert"),
         IF reg[h].u = None THEN Return(h) ELSE Step(h, "session")
  PROVE  \E r \in Reg : OpFits(r) /\ Carries(h, r) /\ Goto(h, r) /\ r.pc \in {"idle", "session"}
<1>1. PICK q : q = reg[h]
  OBVIOUS
<1>2. q \in Reg /\ OpFits(q) /\ Carries(h, q) /\ q.pc = "insert"
  BY <1>1, Known DEF At
<1>3. CASE q.u = None
  BY <1>1, <1>3, IdleFits DEF Return, Idle
<1>4. CASE q.u # None
  <2>1. PICK r : r = Moved(q, "session")
    OBVIOUS
  <2>2. "session" \in PC
    BY DEF PC
  <2>3. r \in Reg /\ r.pc = "session" /\ Same(q, r) /\ r.data = q.data /\ r.u = q.u
    BY <1>2, <2>1, <2>2, MovedRegister
  <2>4. q.u \in Upload
    BY <1>2, <1>4 DEF Reg
  <2>5. OpFits(r) /\ Carries(h, r)
    BY <1>2, <2>3, <2>4 DEF OpFits, Carries, Same
  <2> QED
    BY <1>1, <1>4, <2>1, <2>3, <2>5 DEF Step, Moved
<1> QED
  BY <1>3, <1>4

LEMMA InsertRowKeeps ==
  ASSUME Inv, DropsAlone, NEW h \in Handler, InsertRow(h)
  PROVE  Inv'
<1>1. PICK q : q = reg[h]
  OBVIOUS
<1>2. q \in Reg /\ OpFits(q) /\ Carries(h, q) /\ Holds(q) /\ q.pc = "insert"
  BY <1>1, Known DEF InsertRow, At
<1>3. PICK k : k = KeyOf(h)
  OBVIOUS
<1>4. k \in Key /\ k[2] = q.n /\ q.n \in Owned[h] /\ k = <<q.b, q.n, q.g>> /\ q.g \in Generation
  BY <1>1, <1>2, <1>3, OwnKey
<1>5. PICK r \in Reg : OpFits(r) /\ Carries(h, r) /\ Goto(h, r) /\ r.pc \in {"idle", "session"}
  BY AfterInsert DEF InsertRow
<1>6. PICK row : row = [data |-> q.data, created |-> clock]
  OBVIOUS
<1>7. row \in Row /\ row.data = q.data
  BY <1>2, <1>6 DEF Row, OpFits, Carries, Inv, TypeInv, TableInv
<1>8. objects' = [objects EXCEPT ![k] = row] /\ blobs' = blobs /\ TableInv
  BY <1>1, <1>3, <1>6 DEF InsertRow, Inv, TypeInv
<1>9. objects'[k] = row /\ \A l \in Key : l # k => objects'[l] = objects[l]
  BY <1>4, <1>8, RowReplaced
<1>10. TableInv'
  BY <1>4, <1>7, <1>8, ZenonT(40) DEF InsertRow, TableInv
<1>11. PrivateBacked'
  <2>1. Private(q.n) => blobs[BlobPath(k)] = q.data
    BY <1>2, <1>4 DEF Holds, Written
  <2> QED
    BY <1>4, <1>7, <1>8, <1>9, <2>1 DEF Inv, FileInv, PrivateBacked
<1>12. Holds(r)'
  BY <1>5 DEF Holds
<1>13. \A l \in Key : l[2] \notin Owned[h] =>
         objects'[l] = objects[l] /\ blobs'[BlobPath(l)] = blobs[BlobPath(l)]
  BY <1>4, <1>8, <1>9
<1> QED
  BY <1>5, <1>10, <1>11, <1>12, <1>13, WriteStep

\* A file goes: the handler lost the race for the generation, or has deleted the row.
LEMMA UnlinkKeeps ==
  ASSUME Inv, Distinct, DropsAlone, NEW h \in Handler, InsertConflict(h) \/ RemoveBlob(h)
  PROVE  Inv'
<1>1. PICK q : q = reg[h]
  OBVIOUS
<1>2. q \in Reg /\ Holds(q) /\ q.pc \in {"insert", "unlink"}
  BY <1>1, Known DEF InsertConflict, RemoveBlob, At
<1>3. PICK k : k = KeyOf(h)
  OBVIOUS
<1>4. k \in Key /\ k[2] = q.n /\ q.n \in Owned[h] /\ k = <<q.b, q.n, q.g>> /\ q.g \in Generation
  BY <1>1, <1>2, <1>3, OwnKey
<1>5. blobs' = [blobs EXCEPT ![BlobPath(k)] = None] /\ objects' = objects /\ TableInv /\ Goto(h, Idle)
  BY <1>3 DEF InsertConflict, RemoveBlob, Return, Inv, TypeInv
<1>6. \A l \in Key : l # k => blobs'[BlobPath(l)] = blobs[BlobPath(l)]
  BY <1>4, <1>5, FileReplaced
<1>7. TableInv'
  BY <1>4, <1>5 DEF InsertConflict, RemoveBlob, TableInv, Path
<1>8. Private(q.n) => objects[k] = None
  <2>1. CASE RemoveBlob(h)
    BY <1>1, <1>2, <1>4, <2>1 DEF Holds, Gone, RemoveBlob, At
  <2>2. CASE InsertConflict(h)
    BY <1>1, <1>2, <1>4, <2>2 DEF Holds, Above, InsertConflict, At, Generation
  <2> QED
    BY <2>1, <2>2
<1>9. PrivateBacked'
  BY <1>4, <1>5, <1>6, <1>8 DEF Inv, FileInv, PrivateBacked
<1>10. PICK r : r = Idle
  OBVIOUS
<1>11. r \in Reg /\ OpFits(r) /\ Carries(h, r) /\ Goto(h, r) /\ r.pc = "idle"
  BY <1>5, <1>10, IdleFits DEF Idle
<1>12. Holds(r)'
  BY <1>11 DEF Holds
<1>13. \A l \in Key : l[2] \notin Owned[h] =>
         objects'[l] = objects[l] /\ blobs'[BlobPath(l)] = blobs[BlobPath(l)]
  BY <1>4, <1>5, <1>6
<1> QED
  BY <1>7, <1>9, <1>11, <1>12, <1>13, WriteStep

LEMMA DeleteRowKeeps ==
  ASSUME Inv, DropsAlone, NEW h \in Handler, DeleteRow(h)
  PROVE  Inv'
<1>1. PICK q : q = reg[h]
  OBVIOUS
<1>2. q \in Reg /\ OpFits(q) /\ Carries(h, q) /\ q.pc = "row"
  BY <1>1, Known DEF DeleteRow, At
<1>3. PICK k : k = KeyOf(h)
  OBVIOUS
<1>4. k \in Key /\ k[2] = q.n /\ q.n \in Owned[h] /\ k = <<q.b, q.n, q.g>> /\ q.g \in Generation
  BY <1>1, <1>2, <1>3, OwnKey
<1>5. objects' = [objects EXCEPT ![k] = None] /\ blobs' = blobs /\ TableInv
  BY <1>3 DEF DeleteRow, Inv, TypeInv
<1>6. objects'[k] = None /\ \A l \in Key : l # k => objects'[l] = objects[l]
  BY <1>4, <1>5, RowReplaced
<1>7. TableInv'
  BY <1>4, <1>5 DEF DeleteRow, TableInv
<1>8. PrivateBacked'
  BY <1>5, <1>6 DEF Inv, FileInv, PrivateBacked
<1>9. \A l \in Key : l[2] \notin Owned[h] =>
         objects'[l] = objects[l] /\ blobs'[BlobPath(l)] = blobs[BlobPath(l)]
  BY <1>4, <1>5, <1>6
<1>10. PICK r : r = IF objects[k] = None THEN Idle ELSE Moved(q, "unlink")
  OBVIOUS
<1>11. Goto(h, r)
  BY <1>1, <1>3, <1>10 DEF DeleteRow, Return, Step, Moved
<1>12. r \in Reg /\ OpFits(r) /\ Carries(h, r) /\ Holds(r)'
  <2>1. CASE r = Idle
    BY <2>1, IdleFits DEF Holds, Idle
  <2>2. CASE r = Moved(q, "unlink")
    <3>1. "unlink" \in PC
      BY DEF PC
    <3>2. r \in Reg /\ r.pc = "unlink" /\ Same(q, r) /\ r.data = q.data /\ r.g = q.g
      BY <1>2, <2>2, <3>1, MovedRegister
    <3>3. OpFits(r) /\ Carries(h, r)
      BY <1>2, <3>2 DEF OpFits, Carries, Same
    <3>4. Gone(r)'
      BY <1>4, <1>6, <3>2 DEF Gone, Same
    <3> QED
      BY <3>2, <3>3, <3>4 DEF Holds
  <2> QED
    BY <1>10, <2>1, <2>2
<1> QED
  BY <1>7, <1>8, <1>9, <1>11, <1>12, WriteStep

\* The directory of a bucket that is still empty goes.
LEMMA RemoveDirKeeps ==
  ASSUME Inv, DropsAlone, NEW h \in Handler, RemoveDir(h)
  PROVE  Inv'
<1>1. PICK q : q = reg[h]
  OBVIOUS
<1>2. q \in Reg /\ OpFits(q) /\ Holds(q) /\ q.pc = "rmdir"
  BY <1>1, Known DEF RemoveDir, At
<1>3. Alone /\ Emptied(q.b)
  BY <1>2 DEF OpFits, DropsAlone, Holds
<1>4. /\ blobs' = [p \in Path |-> IF p[1] = q.b THEN None ELSE blobs[p]]
      /\ objects' = objects /\ TableInv /\ Goto(h, Idle)
  BY <1>1 DEF RemoveDir, Return, Inv, TypeInv
<1>5. \A l \in Key : objects[l] # None => blobs'[BlobPath(l)] = blobs[BlobPath(l)]
  <2> SUFFICES ASSUME NEW l \in Key, objects[l] # None PROVE blobs'[BlobPath(l)] = blobs[BlobPath(l)]
    OBVIOUS
  <2>1. l[1] # q.b
    BY <1>3 DEF Emptied
  <2>2. BlobPath(l) \in Path /\ BlobPath(l)[1] = l[1]
    BY DEF Path, BlobPath
  <2> QED
    BY <1>4, <2>1, <2>2
<1>6. PrivateBacked'
  BY <1>4, <1>5 DEF Inv, FileInv, PrivateBacked
<1>7. TableInv'
  BY <1>4 DEF RemoveDir, TableInv
<1>8. PICK r : r = Idle
  OBVIOUS
<1>9. r \in Reg /\ OpFits(r) /\ Carries(h, r) /\ Goto(h, r) /\ r.pc = "idle"
  BY <1>4, <1>8, IdleFits DEF Idle
<1>10. Holds(r)'
  BY <1>9 DEF Holds
<1>11. Handler \ {h} = {}
  BY <1>3 DEF Alone
<1> QED
  BY <1>6, <1>7, <1>9, <1>10, <1>11, WriteStep

\* Steps that change buckets and sessions, and replies.
LEMMA OtherStatementsKeep ==
  ASSUME Inv, NEW h \in Handler,
         FinishUpload(h) \/ WriteObjectMedia(h) \/ UpdateBucket(h) \/ DropBucket(h)
  PROVE  Inv'
<1>1. PICK q : q = reg[h]
  OBVIOUS
<1>2. q \in Reg /\ OpFits(q) /\ Carries(h, q) /\ Holds(q) /\ TableInv
  BY <1>1, Known DEF Inv, TypeInv
<1>3. CASE FinishUpload(h)
  <2>1. q.u \in Upload
    BY <1>1, <1>2, <1>3 DEF FinishUpload, At, Carries
  <2>2. TableInv'
    BY <1>1, <1>2, <1>3, <2>1 DEF FinishUpload, TableInv, Session
  <2> QED
    BY <1>3, <2>2, IdleFits, LocalStep DEF FinishUpload, Return
<1>4. CASE WriteObjectMedia(h)
  BY <1>4, Returns DEF WriteObjectMedia
<1>5. CASE UpdateBucket(h)
  <2>1. q.b \in Bucket /\ q.policy \in Policy
    BY <1>1, <1>2, <1>5 DEF UpdateBucket, At, Carries
  <2>2. TableInv'
    BY <1>1, <1>2, <1>5, <2>1 DEF UpdateBucket, TableInv
  <2> QED
    BY <1>5, <2>2, IdleFits, LocalStep DEF UpdateBucket, Return
<1>6. CASE DropBucket(h)
  <2>1. q.b \in Bucket /\ q.pc = "drop"
    BY <1>1, <1>2, <1>6 DEF DropBucket, At, Carries
  <2>2. TableInv'
    BY <1>1, <1>2, <1>6, <2>1 DEF DropBucket, TableInv
  <2>3. PICK r : r = Moved(q, "rmdir")
    OBVIOUS
  <2>4. "rmdir" \in PC
    BY DEF PC
  <2>5. r \in Reg /\ r.pc = "rmdir" /\ Same(q, r)
    BY <1>2, <2>3, <2>4, MovedRegister
  <2>6. OpFits(r) /\ Carries(h, r)
    BY <1>2, <2>1, <2>5, MovedRegister, <2>3, <2>4 DEF OpFits, Carries, Same
  <2>7. Holds(r)
    BY <1>2, <2>1, <2>5 DEF Holds, Same
  <2>8. Return(h) \/ Goto(h, r)
    BY <1>1, <1>6, <2>3 DEF DropBucket, Step, Moved
  <2>9. UNCHANGED <<objects, blobs>>
    BY <1>6 DEF DropBucket
  <2> QED
    BY <2>2, <2>5, <2>6, <2>7, <2>8, <2>9, IdleFits, LocalStep DEF Return
<1> QED
  BY <1>3, <1>4, <1>5, <1>6

\* Steps of no handler, and a restart: rows and files stay.
LEMMA EnvironmentKeeps ==
  ASSUME Inv,
         \/ \E u \in Upload : DeleteUploadSession(u) \/ \E b \in Bucket, n \in Name : CreateUploadSession(u, b, n)
         \/ \E b \in Bucket : CreateBucket(b)
         \/ Tick \/ Restart
  PROVE  Inv'
<1>1. ASSUME TableInv', UNCHANGED <<objects, blobs, reg>> PROVE Inv'
  BY <1>1 DEF Inv, TypeInv, RegInv, OpFits, Carries, FileInv, PrivateBacked, Holds, Above, Written, Gone, Emptied
<1>2. TableInv
  BY DEF Inv, TypeInv
<1>3. ASSUME NEW u \in Upload, DeleteUploadSession(u) PROVE Inv'
  <2>1. TableInv'
    BY <1>2, <1>3 DEF DeleteUploadSession, TableInv, Session
  <2> QED
    BY <1>1, <1>3, <2>1 DEF DeleteUploadSession
<1>4. ASSUME NEW u \in Upload, NEW b \in Bucket, NEW n \in Name, CreateUploadSession(u, b, n) PROVE Inv'
  <2>1. TableInv'
    BY <1>2, <1>4 DEF CreateUploadSession, TableInv, Session
  <2> QED
    BY <1>1, <1>4, <2>1 DEF CreateUploadSession
<1>5. ASSUME NEW b \in Bucket, CreateBucket(b) PROVE Inv'
  <2>1. TableInv'
    BY <1>2, <1>5 DEF CreateBucket, TableInv, Policy
  <2> QED
    BY <1>1, <1>5, <2>1 DEF CreateBucket
<1>6. CASE Tick
  <2>1. TableInv'
    BY <1>2, <1>6, ConstantsAssumption DEF Tick, TableInv
  <2> QED
    BY <1>1, <1>6, <2>1 DEF Tick
<1>7. CASE Restart
  <2>1. \A h \in Handler : reg'[h] = Idle
    BY <1>7 DEF Restart
  <2>2. RegInv'
    <3>1. reg' \in [Handler -> Reg]
      BY <1>7, IdleFits DEF Restart
    <3>2. (\A h \in Handler : OpFits(reg[h]) /\ Carries(h, reg[h]))'
      BY <2>1, IdleFits DEF OpFits, Carries
    <3> QED
      BY <3>1, <3>2 DEF RegInv
  <2>3. FileInv'
    <3>1. (\A h \in Handler : Holds(reg[h]))'
      BY <2>1 DEF Holds, Idle
    <3>2. PrivateBacked'
      BY <1>7 DEF Restart, Inv, FileInv, PrivateBacked
    <3> QED
      BY <3>1, <3>2 DEF FileInv
  <2>4. TableInv'
    BY <1>2, <1>7 DEF Restart, TableInv
  <2> QED
    BY <2>2, <2>3, <2>4 DEF Inv, TypeInv
<1> QED
  BY <1>3, <1>4, <1>5, <1>6, <1>7

LEMMA AdvanceKeeps ==
  ASSUME Inv, Distinct, DropsAlone, NEW h \in Handler, Advance(h)
  PROVE  Inv'
  BY FindSourceKeeps, ReadSourceKeeps, OpenBucketKeeps, CheckRetentionPeriodKeeps, CheckRetentionAgeKeeps,
     NextGenerationKeeps, WriteBlobKeeps, InsertRowKeeps, UnlinkKeeps, CheckGenerationMatchKeeps, GetObjectKeeps,
     DeleteRowKeeps, ReadObjectBytesKeeps, RemoveDirKeeps, OtherStatementsKeep DEF Advance

LEMMA NextInv ==
  ASSUME Distinct, DropsAlone
  PROVE  Inv /\ [Next]_vars => Inv'
<1> SUFFICES ASSUME Inv, [Next]_vars PROVE Inv'
  OBVIOUS
<1>1. CASE UNCHANGED vars
  BY <1>1 DEF vars, Inv, TypeInv, RegInv, OpFits, Carries, TableInv,
              FileInv, PrivateBacked, Holds, Above, Written, Gone, Emptied
<1>2. CASE Next
  BY <1>2, AcceptKeeps, AdvanceKeeps, EnvironmentKeeps DEF Next
<1> QED
  BY <1>1, <1>2

-----------------------------------------------------------------------------
(***************************************************************************)
(* Theorems about rows and files.                                          *)
(***************************************************************************)

\* Registers and tables are well formed, rows have their files, and handlers
\* know what they rely on, whatever requests and restarts interleave.
THEOREM Invariance == ASSUME Distinct, DropsAlone PROVE Spec => []Inv
  BY InitInv, NextInv, PTL DEF Spec

\* Tables, files and registers hold what they can hold.
THEOREM TypeCorrect == ASSUME Distinct, DropsAlone PROVE Spec => []TypeOK
<1>1. Inv => TypeOK
  BY DEF Inv, TypeInv, RegInv, TableInv, Carries, Session, TypeOK
<1> QED
  BY <1>1, Invariance, PTL

\* Every row has its file, at every statement of every request and after a
\* restart at any of them, if each name has one writer (PutObjectBytesMeta,
\* DeleteObject) and buckets are deleted by a single client (DeleteBucket).
THEOREM RowsHaveFiles ==
  ASSUME Distinct, DropsAlone, \A n \in Name : Private(n)
  PROVE  Spec => []BlobBacked
<1>1. Inv => BlobBacked
  BY DEF Inv, FileInv, PrivateBacked, BlobBacked, Rows, Key
<1> QED
  BY <1>1, Invariance, PTL

\* One handler at most is among the writers when there is one of them.
LEMMA OneWriter ==
  ASSUME IsFiniteSet(Handler), NEW n, Cardinality({h \in Handler : n \in Owned[h]}) = 1
  PROVE  Private(n)
<1> DEFINE Writers == {h \in Handler : n \in Owned[h]}
<1>1. IsFiniteSet(Writers)
  BY FS_Subset
<1>2. PICK w : Writers = {w}
  BY <1>1, FS_Singleton
<1> QED
  BY <1>2 DEF Private

LEMMA InvOwned == ASSUME IsFiniteSet(Handler) PROVE Inv => OwnedBlobBacked
  BY OneWriter DEF Inv, FileInv, PrivateBacked, OwnedBlobBacked, Rows

\* While any number of clients race, the names that one client alone writes keep
\* row and file together.
THEOREM OwnedRowsHaveFiles ==
  ASSUME Distinct, DropsAlone, IsFiniteSet(Handler)
  PROVE  Spec => []OwnedBlobBacked
  BY InvOwned, Invariance, PTL

\* The table keeps its keys.
Keyed == objects = [k \in Key |-> objects[k]]

\* What touches the table: the INSERT and the DELETE of a handler.
LEMMA RowWriters ==
  ASSUME [Next]_vars
  PROVE  objects' = objects \/ \E h \in Handler : InsertRow(h) \/ DeleteRow(h)
<1>1. ASSUME NEW h \in Handler, Accept(h) PROVE objects' = objects
  BY <1>1 DEF Accept, UploadObject, ComposeObject, CompleteUploadSession, DeleteObject, GetOrDownloadObject,
              PatchBucket, DeleteBucket
<1>2. ASSUME NEW h \in Handler, Advance(h) PROVE InsertRow(h) \/ DeleteRow(h) \/ objects' = objects
  BY <1>2 DEF Advance, FindSource, ReadSource, OpenBucket, CheckRetentionPeriod, CheckRetentionAge, NextGeneration,
              WriteBlob, InsertConflict, FinishUpload, CheckGenerationMatch, GetObject, RemoveBlob,
              ReadObjectBytes, WriteObjectMedia, UpdateBucket, DropBucket, RemoveDir
<1>3. CASE UNCHANGED vars
  BY <1>3 DEF vars
<1>4. CASE Next
  BY <1>1, <1>2, <1>4 DEF Next, DeleteUploadSession, CreateUploadSession, CreateBucket, Tick, Restart
<1> QED
  BY <1>3, <1>4

LEMMA KeyedStep == Keyed /\ [Next]_vars => Keyed'
<1> SUFFICES ASSUME Keyed, [Next]_vars PROVE Keyed'
  OBVIOUS
<1>1. ASSUME NEW x, NEW v, objects' = [objects EXCEPT ![x] = v] PROVE Keyed'
  BY <1>1 DEF Keyed
<1> QED
  BY <1>1, RowWriters DEF Keyed, InsertRow, DeleteRow

\* A row is inserted where there is none, so those that are there stay or go.
LEMMA RowsStay == Keyed /\ [Next]_vars => [\A k \in Rows : objects'[k] \in {objects[k], None}]_vars
<1> SUFFICES ASSUME Keyed, [Next]_vars, NEW k \in Rows PROVE objects'[k] \in {objects[k], None}
  OBVIOUS
<1>1. k \in Key /\ objects[k] # None
  BY DEF Rows
<1>2. ASSUME NEW h \in Handler, InsertRow(h) PROVE objects'[k] = objects[k]
  BY <1>1, <1>2 DEF InsertRow, Keyed
<1>3. ASSUME NEW h \in Handler, DeleteRow(h) PROVE objects'[k] \in {objects[k], None}
  BY <1>1, <1>3 DEF DeleteRow, Keyed
<1> QED
  BY <1>2, <1>3, RowWriters

LEMMA InitKeyed == Init => Keyed
  BY DEF Init, StartWith, Keyed

\* Whatever clients race: a write never replaces the row of another write that
\* took the same generation (the primary key of objects).
THEOREM RowsAreKept == Spec => RowsKept
  BY InitKeyed, KeyedStep, RowsStay, PTL DEF Spec, RowsKept

-----------------------------------------------------------------------------
(***************************************************************************)
(* Rows and files together are a store of versions.                        *)
(***************************************************************************)
Store == [k \in Key |-> Stored(k)]

LEMMA SameVersions == V!Version = Key /\ V!Bytes = Content
  BY DEF V!Version, V!Bytes, Key, Content, Generation

\* The store of a step that shows nothing.
LEMMA StoreStays ==
  ASSUME \A k \in Key : objects'[k] = objects[k],
         \A k \in Key : objects[k] # None => blobs'[BlobPath(k)] = blobs[BlobPath(k)]
  PROVE  Store' = Store
<1>1. \A k \in Key : Stored(k)' = Stored(k)
  BY DEF Stored
<1> QED
  BY <1>1, Zenon DEF Store

\* The INSERT makes the version appear, whole and above the others of its name.
LEMMA InsertPuts ==
  ASSUME Inv, \A n \in Name : Private(n), NEW h \in Handler, InsertRow(h)
  PROVE  V!Next
<1>1. PICK q : q = reg[h]
  OBVIOUS
<1>2. OpFits(q) /\ Carries(h, q) /\ Holds(q) /\ q.pc = "insert"
  BY <1>1, Known DEF InsertRow, At
<1>3. PICK k : k = KeyOf(h)
  OBVIOUS
<1>4. k \in Key /\ q.n \in Name /\ k = <<q.b, q.n, q.g>>
  BY <1>1, <1>2, <1>3, OwnKey
<1>5. PICK row : row = [data |-> q.data, created |-> clock]
  OBVIOUS
<1>6. row \in Row /\ row # None /\ q.data \in Content
  BY <1>2, <1>5, ConstantsAssumption DEF Row, OpFits, Carries, Inv, TypeInv, TableInv
<1>7. objects'[k] = row /\ blobs' = blobs /\ \A l \in Key : l # k => objects'[l] = objects[l]
  <2>1. objects' = [objects EXCEPT ![k] = row] /\ blobs' = blobs /\ TableInv
    BY <1>1, <1>3, <1>5 DEF InsertRow, Inv, TypeInv
  <2> QED
    BY <1>4, <2>1, RowReplaced
<1>8. blobs[BlobPath(k)] = q.data /\ Above(q)
  BY <1>2, <1>4 DEF Holds, Written
<1>9. Stored(k)' = q.data /\ \A l \in Key : l # k => Stored(l)' = Stored(l)
  <2>1. Stored(k)' = blobs'[BlobPath(k)]
    BY <1>6, <1>7 DEF Stored
  <2>2. ASSUME NEW l \in Key, l # k PROVE Stored(l)' = Stored(l)
    BY <1>7, <2>2 DEF Stored
  <2> QED
    BY <1>7, <1>8, <2>1, <2>2
<1>10. Store' = [Store EXCEPT ![k] = q.data]
  BY <1>4, <1>9 DEF Store
<1>11. \A g \in 1..MaxGen : Store[<<k[1], k[2], g>>] # None => g < k[3]
  <2> SUFFICES ASSUME NEW g \in 1..MaxGen, Store[<<k[1], k[2], g>>] # None PROVE g < k[3]
    OBVIOUS
  <2>1. k[1] = q.b /\ k[2] = q.n /\ k[3] = q.g /\ <<q.b, q.n, g>> \in Key
    BY <1>4 DEF Key, Generation
  <2>2. objects[<<q.b, q.n, g>>] # None
    BY <2>1 DEF Store, Stored
  <2> QED
    BY <1>8, <2>1, <2>2 DEF Above, Generation
<1>12. V!Put(k, q.data)
  BY <1>10, <1>11 DEF V!Put, Store
<1> QED
  BY <1>4, <1>6, <1>12, SameVersions DEF V!Next

\* The DELETE makes it disappear.
LEMMA DeleteDeletes ==
  ASSUME Inv, \A n \in Name : Private(n), NEW h \in Handler, DeleteRow(h)
  PROVE  V!Next \/ Store' = Store
<1>1. PICK k : k = KeyOf(h)
  OBVIOUS
<1>2. k \in Key /\ Private(k[2])
  BY <1>1, OwnKey DEF DeleteRow, At
<1>3. objects'[k] = None /\ blobs' = blobs /\ \A l \in Key : l # k => objects'[l] = objects[l]
  <2>1. objects' = [objects EXCEPT ![k] = None] /\ blobs' = blobs /\ TableInv
    BY <1>1 DEF DeleteRow, Inv, TypeInv
  <2> QED
    BY <1>2, <2>1, RowReplaced
<1>4. CASE objects[k] = None
  BY <1>3, <1>4, StoreStays
<1>5. CASE objects[k] # None
  <2>1. Stored(k) # None
    <3>1. objects[k] \in Row /\ Stored(k) = objects[k].data
      BY <1>2, <1>5 DEF Inv, TypeInv, TableInv, FileInv, PrivateBacked, Stored
    <3> QED
      BY <3>1, ConstantsAssumption DEF Row
  <2>2. Store' = [Store EXCEPT ![k] = None]
    <3>1. Stored(k)' = None
      BY <1>3 DEF Stored
    <3>2. \A l \in Key : l # k => Stored(l)' = Stored(l)
      BY <1>3 DEF Stored
    <3> QED
      BY <1>2, <3>1, <3>2 DEF Store
  <2>3. V!Delete(k)
    BY <1>2, <2>1, <2>2 DEF V!Delete, Store
  <2> QED
    BY <1>2, <2>3, SameVersions DEF V!Next
<1> QED
  BY <1>4, <1>5

\* No other statement shows: files are written before their row is in, and
\* removed after it is gone.
LEMMA FilesDoNotShow ==
  ASSUME Inv, Distinct, DropsAlone, \A n \in Name : Private(n), NEW h \in Handler,
         WriteBlob(h) \/ InsertConflict(h) \/ RemoveBlob(h) \/ RemoveDir(h)
  PROVE  Store' = Store
<1>1. PICK q : q = reg[h]
  OBVIOUS
<1>2. OpFits(q) /\ Carries(h, q) /\ Holds(q) /\ TableInv
  BY <1>1, Known DEF Inv, TypeInv
<1>3. PICK k : k = KeyOf(h)
  OBVIOUS
<1>4. ASSUME NEW v, k \in Key, objects[k] = None, objects' = objects, blobs' = [blobs EXCEPT ![BlobPath(k)] = v]
      PROVE  Store' = Store
  <2>1. \A l \in Key : l # k => blobs'[BlobPath(l)] = blobs[BlobPath(l)]
    BY <1>2, <1>4, FileReplaced
  <2> QED
    BY <1>4, <2>1, StoreStays
<1>5. ASSUME q.pc \in {"write", "insert", "unlink"} PROVE k \in Key /\ objects[k] = None
  <2>1. k \in Key /\ q.n \in Name /\ k = <<q.b, q.n, q.g>> /\ q.g \in Generation
    BY <1>1, <1>3, <1>5, OwnKey
  <2>2. q.pc \in {"write", "insert"} => Above(q)
    BY <1>2, <2>1 DEF Holds
  <2>3. q.pc = "unlink" => Gone(q)
    BY <1>2, <2>1 DEF Holds
  <2> QED
    BY <1>5, <2>1, <2>2, <2>3 DEF Above, Gone, Generation
<1>6. CASE WriteBlob(h)
  BY <1>1, <1>3, <1>4, <1>5, <1>6 DEF WriteBlob, At
<1>7. CASE InsertConflict(h) \/ RemoveBlob(h)
  BY <1>1, <1>3, <1>4, <1>5, <1>7 DEF InsertConflict, RemoveBlob, At
<1>8. CASE RemoveDir(h)
  <2>1. q.pc = "rmdir" /\ objects' = objects
        /\ blobs' = [p \in Path |-> IF p[1] = q.b THEN None ELSE blobs[p]]
    BY <1>1, <1>8 DEF RemoveDir, At
  <2>2. Emptied(q.b)
    BY <1>2, <2>1 DEF Holds
  <2>3. ASSUME NEW l \in Key, objects[l] # None PROVE blobs'[BlobPath(l)] = blobs[BlobPath(l)]
    <3>1. l[1] # q.b
      BY <2>2, <2>3 DEF Emptied
    <3>2. BlobPath(l) \in Path /\ BlobPath(l)[1] = l[1]
      BY DEF Path, BlobPath
    <3> QED
      BY <2>1, <3>1, <3>2
  <2> QED
    BY <2>1, <2>3, StoreStays
<1> QED
  BY <1>6, <1>7, <1>8

\* Clients that each write their own names see a store of versions, step by step:
\* a version appears whole, above the others of its name, never changes, and goes
\* whole (PutObjectBytesMeta, DeleteObject), although file and row are two things.
THEOREM VersionsImplemented ==
  ASSUME Distinct, DropsAlone, \A n \in Name : Private(n)
  PROVE  Spec => ImplementsVersions
<1>1. Init => V!Init
  BY SameVersions DEF Init, StartWith, V!Init, Stored
<1>2. Inv /\ [Next]_vars => [V!Next]_Store
  <2> SUFFICES ASSUME Inv, [Next]_vars PROVE V!Next \/ Store' = Store
    BY DEF Store
  <2>1. ASSUME UNCHANGED <<objects, blobs>> PROVE Store' = Store
    BY <2>1, StoreStays
  <2>2. ASSUME NEW h \in Handler, Accept(h) PROVE UNCHANGED <<objects, blobs>>
    BY <2>2 DEF Accept, UploadObject, ComposeObject, CompleteUploadSession, DeleteObject, GetOrDownloadObject,
                PatchBucket, DeleteBucket
  <2>3. ASSUME NEW h \in Handler, Advance(h)
        PROVE  \/ InsertRow(h) \/ DeleteRow(h)
               \/ WriteBlob(h) \/ InsertConflict(h) \/ RemoveBlob(h) \/ RemoveDir(h)
               \/ UNCHANGED <<objects, blobs>>
    BY <2>3 DEF Advance, FindSource, ReadSource, OpenBucket, CheckRetentionPeriod, CheckRetentionAge, NextGeneration,
                FinishUpload, CheckGenerationMatch, GetObject, ReadObjectBytes, WriteObjectMedia,
                UpdateBucket, DropBucket
  <2>4. ASSUME NEW h \in Handler, Advance(h) PROVE V!Next \/ Store' = Store
    BY <2>1, <2>3, <2>4, InsertPuts, DeleteDeletes, FilesDoNotShow
  <2>5. CASE UNCHANGED vars
    BY <2>1, <2>5 DEF vars
  <2>6. CASE Next
    BY <2>1, <2>2, <2>4, <2>6 DEF Next, DeleteUploadSession, CreateUploadSession, CreateBucket, Tick, Restart
  <2> QED
    BY <2>5, <2>6
<1>3. Inv /\ [Next]_vars => [V!Next]_[k \in Key |-> Stored(k)]
  BY <1>2 DEF Store
<1> QED
  BY <1>1, <1>3, Invariance, PTL DEF Spec, ImplementsVersions, V!Spec

-----------------------------------------------------------------------------
(***************************************************************************)
(* One request at a time: what the checks of retention and lock found      *)
(* still holds when the handler writes.                                    *)
(***************************************************************************)
Stamped == \A k \in Key : objects[k] # None => objects[k].created <= clock

\* The retention check of the latest version, or of the victim, has passed.
Aged(r) ==
  /\ r.pc = "age" => buckets[r.b] # None /\ buckets[r.b].period = r.period
  /\ r.pc \in {"next", "write", "insert"} =>
       \A g \in Generation : g = Latest(r.b, r.n) => ~Young(<<r.b, r.n, g>>)
  /\ r.pc = "row" => ~Young(<<r.b, r.n, r.g>>)

\* What PatchBucket writes back does not weaken a locked policy.
KeepsLock(r) ==
  r.pc = "patch" /\ buckets[r.b] # None /\ buckets[r.b].locked
    => r.policy.locked /\ r.policy.period >= buckets[r.b].period

AloneInv == Stamped /\ \A h \in Handler : Aged(reg[h]) /\ KeepsLock(reg[h])

\* Statements before and after the ones these facts are for.
Quiet == PC \ {"age", "next", "write", "insert", "row", "patch"}

LEMMA AloneStep ==
  ASSUME Inv, Alone, NEW h \in Handler, NEW r, Goto(h, r), Stamped', Aged(r)', KeepsLock(r)'
  PROVE  AloneInv'
<1>1. reg'[h] = r /\ \A k \in Handler : k = h
  BY DEF Goto, Inv, TypeInv, RegInv, Alone
<1>2. (\A k \in Handler : Aged(reg[k]) /\ KeepsLock(reg[k]))'
  BY <1>1 DEF Aged, KeepsLock
<1> QED
  BY <1>2 DEF AloneInv

LEMMA QuietStep ==
  ASSUME Inv, Alone, NEW h \in Handler, NEW r, Goto(h, r), r.pc \in Quiet, Stamped'
  PROVE  AloneInv'
<1>1. Aged(r)' /\ KeepsLock(r)'
  BY DEF Aged, KeepsLock, Quiet
<1> QED
  BY <1>1, AloneStep

LEMMA StampedStays == ASSUME Stamped, UNCHANGED <<objects, clock>> PROVE Stamped'
  BY DEF Stamped

\* What is known of the numbers that Young compares.
LEMMA YoungNumbers ==
  ASSUME Inv, AloneInv, NEW k \in Key, objects[k] # None
  PROVE  /\ objects[k].created \in Nat /\ clock \in Nat /\ objects[k].created <= clock
         /\ k[1] \in Bucket
         /\ buckets[k[1]] # None => buckets[k[1]].period \in Nat
<1>1. Period \cup {0} \subseteq Nat /\ MaxClock \in Nat
  BY ConstantsAssumption
<1>2. objects[k] \in Row /\ k[1] \in Bucket
  BY DEF Inv, TypeInv, TableInv, Key
<1>3. objects[k].created \in Nat /\ clock \in Nat
  BY <1>1, <1>2 DEF Row, Inv, TypeInv, TableInv
<1>4. buckets[k[1]] # None => buckets[k[1]].period \in Nat
  BY <1>1, <1>2 DEF Inv, TypeInv, TableInv, Policy
<1> QED
  BY <1>2, <1>3, <1>4 DEF AloneInv, Stamped

\* No version is young in a bucket without a period.
LEMMA NoPeriod ==
  ASSUME Inv, AloneInv, NEW k \in Key, buckets[k[1]] = None \/ buckets[k[1]].period = 0
  PROVE  ~Young(k)
<1> SUFFICES ASSUME objects[k] # None, buckets[k[1]] # None PROVE ~(clock - objects[k].created < buckets[k[1]].period)
  BY DEF Young
<1> QED
  BY YoungNumbers

\* The versions the checks of a handler are about.
LEMMA CheckedKey ==
  ASSUME Inv, NEW h \in Handler, reg[h].pc \in {"retention", "age", "next", "write", "insert", "row"}
  PROVE  /\ reg[h].b \in Bucket /\ reg[h].n \in Name
         /\ \A g \in Generation : <<reg[h].b, reg[h].n, g>> \in Key
         /\ reg[h].op \in {"put", "delete"}
         /\ reg[h].op = "delete" /\ reg[h].pc \in {"retention", "age", "row"} => reg[h].g \in Generation
<1>1. PICK q : q = reg[h]
  OBVIOUS
<1>2. q \in Reg /\ OpFits(q) /\ Carries(h, q) /\ q.pc \in {"retention", "age", "next", "write", "insert", "row"}
  BY <1>1, Known
<1>3. q.b \in Bucket /\ q.op \in {"put", "delete"} /\ q.n \in Owned[h]
  BY <1>2 DEF OpFits, Carries
<1>4. q.n \in Name
  BY <1>3, ConstantsAssumption
<1>5. q.op = "delete" /\ q.pc \in {"retention", "age", "row"} => q.g \in Generation
  BY <1>2, ConstantsAssumption DEF Carries, Reg, Generation
<1>6. \A g \in Generation : <<q.b, q.n, g>> \in Key
  BY <1>3, <1>4 DEF Key
<1> QED
  BY <1>1, <1>3, <1>4, <1>5, <1>6

\* What the checks found, in a step after which no version is young that was not.
LEMMA AgedStays ==
  ASSUME Inv, AloneInv, NEW h \in Handler, NEW r,
         r.pc = reg[h].pc \/ {r.pc, reg[h].pc} \subseteq {"next", "write", "insert"},
         r.b = reg[h].b, r.n = reg[h].n, r.g = reg[h].g \/ r.pc = "write", r.period = reg[h].period,
         objects' = objects, \A k \in Key : Young(k)' => Young(k),
         r.pc = "age" => buckets'[r.b] = buckets[r.b]
  PROVE  Aged(r)'
<1>1. PICK q : q = reg[h]
  OBVIOUS
<1>2. Aged(q) /\ r.b = q.b /\ r.n = q.n /\ r.period = q.period
  BY <1>1 DEF AloneInv
<1>3. r.pc = "age" => q.pc = "age"
  BY <1>1
<1>4. (r.pc = "age" => buckets[r.b] # None /\ buckets[r.b].period = r.period)'
  BY <1>2, <1>3 DEF Aged
<1>5. Latest(r.b, r.n)' = Latest(r.b, r.n)
  BY DEF Latest
<1>6. ASSUME r.pc \in {"next", "write", "insert"}, NEW g \in Generation, g = Latest(r.b, r.n)'
      PROVE  ~Young(<<r.b, r.n, g>>)'
  <2>1. q.pc \in {"next", "write", "insert"}
    BY <1>1, <1>6
  <2>2. ~Young(<<r.b, r.n, g>>)
    BY <1>2, <1>5, <1>6, <2>1 DEF Aged
  <2>3. <<r.b, r.n, g>> \in Key
    BY <1>1, <1>2, <2>1, CheckedKey
  <2> QED
    BY <2>2, <2>3
<1>7. ASSUME r.pc = "row" PROVE ~Young(<<r.b, r.n, r.g>>)'
  <2>1. q.pc = "row" /\ r.g = q.g
    BY <1>1, <1>7
  <2>2. ~Young(<<r.b, r.n, r.g>>)
    BY <1>2, <2>1 DEF Aged
  <2>3. <<r.b, r.n, r.g>> \in Key
    BY <1>1, <1>2, <2>1, OwnKey
  <2> QED
    BY <2>2, <2>3
<1> QED
  BY <1>4, <1>6, <1>7 DEF Aged

\* No table changed.
LEMMA YoungStays ==
  ASSUME UNCHANGED <<buckets, objects, clock>>
  PROVE  \A k \in Key : Young(k)' => Young(k)
  BY DEF Young

\* Nothing is claimed of a handler without a request.
LEMMA InitAlone == Init => AloneInv
<1> SUFFICES ASSUME Init PROVE AloneInv
  OBVIOUS
<1>1. \A h \in Handler : reg[h].pc = "idle"
  BY DEF Init, StartWith, Idle
<1>2. Stamped
  BY DEF Init, StartWith, Stamped
<1> QED
  BY <1>1, <1>2 DEF AloneInv, Aged, KeepsLock

\* A handler that moves to a quiet statement, or returns, without writing a row.
LEMMA QuietMove ==
  ASSUME Inv, Alone, AloneInv, NEW h \in Handler, NEW pc \in Quiet,
         Return(h) \/ Step(h, pc), UNCHANGED <<objects, clock>>
  PROVE  AloneInv'
<1>1. Stamped'
  BY StampedStays DEF AloneInv
<1>2. CASE Return(h)
  <2>1. Idle.pc \in Quiet
    BY DEF Idle, Quiet, PC
  <2> QED
    BY <1>1, <1>2, <2>1, QuietStep DEF Return
<1>3. CASE Step(h, pc)
  <2>1. PICK q : q = reg[h]
    OBVIOUS
  <2>2. PICK r : r = [q EXCEPT !.pc = pc]
    OBVIOUS
  <2>3. r.pc = pc /\ Goto(h, r)
    BY <1>3, <2>1, <2>2, Known DEF Reg, Step
  <2> QED
    BY <1>1, <2>3, QuietStep
<1> QED
  BY <1>2, <1>3

LEMMA QuietGoto ==
  ASSUME Inv, Alone, AloneInv, NEW h \in Handler, NEW r, r.pc \in Quiet,
         Return(h) \/ Goto(h, r), UNCHANGED <<objects, clock>>
  PROVE  AloneInv'
<1>1. Stamped'
  BY StampedStays DEF AloneInv
<1>2. "idle" \in Quiet
  BY DEF Quiet, PC
<1> QED
  BY <1>1, <1>2, QuietStep, QuietMove

\* Requests other than PatchBucket start at a quiet statement.
LEMMA AcceptQuiet ==
  ASSUME Inv, Alone, AloneInv, NEW h \in Handler,
         \/ \E b \in Bucket, n \in Name :
              \/ \E d \in Chunk : UploadObject(h, b, n, d)
              \/ \E srcs \in Sources : ComposeObject(h, srcs, b, n)
              \/ \E g \in 0..MaxGen, want \in -1..MaxGen :
                   DeleteObject(h, b, n, g, want) \/ GetOrDownloadObject(h, b, n, g, want)
         \/ \E u \in Upload, d \in Chunk : CompleteUploadSession(h, u, d)
         \/ \E b \in Bucket : DeleteBucket(h, b)
  PROVE  AloneInv'
<1>1. ASSUME NEW r, Goto(h, r), r.pc \in {"bucket", "source", "find", "match", "drop"}, UNCHANGED <<objects, clock>>
      PROVE  AloneInv'
  <2>1. r.pc \in Quiet
    BY <1>1 DEF Quiet, PC
  <2> QED
    BY <1>1, <2>1, QuietGoto
<1>2. ASSUME NEW b, NEW n, NEW d, UploadObject(h, b, n, d) PROVE AloneInv'
  <2>1. PICK r : r = [Idle EXCEPT !.pc = "bucket", !.op = "put", !.b = b, !.n = n, !.data = <<d>>]
    OBVIOUS
  <2>2. r.pc = "bucket"
    BY <2>1 DEF Idle
  <2> QED
    BY <1>1, <1>2, <2>1, <2>2 DEF UploadObject, Begin
<1>3. ASSUME NEW b, NEW n, NEW srcs, ComposeObject(h, srcs, b, n) PROVE AloneInv'
  <2>1. PICK r : r = [Idle EXCEPT !.pc = "source", !.op = "put", !.b = b, !.n = n, !.srcs = srcs]
    OBVIOUS
  <2>2. r.pc = "source"
    BY <2>1 DEF Idle
  <2> QED
    BY <1>1, <1>3, <2>1, <2>2 DEF ComposeObject, Begin
<1>4. ASSUME NEW b, NEW n, NEW g, NEW want, DeleteObject(h, b, n, g, want) PROVE AloneInv'
  <2>1. PICK r : r = [Idle EXCEPT !.pc = IF want < 0 THEN "find" ELSE "match", !.op = "delete",
                                  !.b = b, !.n = n, !.g = g, !.want = want, !.named = g > 0]
    OBVIOUS
  <2>2. r.pc \in {"find", "match"}
    BY <2>1 DEF Idle
  <2> QED
    BY <1>1, <1>4, <2>1, <2>2 DEF DeleteObject, Begin
<1>5. ASSUME NEW b, NEW n, NEW g, NEW want, GetOrDownloadObject(h, b, n, g, want) PROVE AloneInv'
  <2>1. PICK r : r = [Idle EXCEPT !.pc = IF want < 0 THEN "find" ELSE "match", !.op = "get",
                                  !.b = b, !.n = n, !.g = g, !.want = want]
    OBVIOUS
  <2>2. r.pc \in {"find", "match"}
    BY <2>1 DEF Idle
  <2> QED
    BY <1>1, <1>5, <2>1, <2>2 DEF GetOrDownloadObject, Begin
<1>6. ASSUME NEW u, NEW d, CompleteUploadSession(h, u, d) PROVE AloneInv'
  <2>1. PICK r : r = [Idle EXCEPT !.pc = "bucket", !.op = "put", !.u = u, !.data = <<d>>,
                                  !.b = sessions[u].b, !.n = sessions[u].n]
    OBVIOUS
  <2>2. r.pc = "bucket"
    BY <2>1 DEF Idle
  <2> QED
    BY <1>1, <1>6, <2>1, <2>2 DEF CompleteUploadSession, Begin
<1>7. ASSUME NEW b, DeleteBucket(h, b) PROVE AloneInv'
  <2>1. PICK r : r = [Idle EXCEPT !.pc = "drop", !.op = "drop", !.b = b]
    OBVIOUS
  <2>2. r.pc = "drop"
    BY <2>1 DEF Idle
  <2> QED
    BY <1>1, <1>7, <2>1, <2>2 DEF DeleteBucket, Begin
<1> QED
  BY <1>2, <1>3, <1>4, <1>5, <1>6, <1>7

\* The policy PatchBucket is about to write is no weaker than a locked one it read.
LEMMA PatchAlone ==
  ASSUME Inv, Alone, AloneInv, NEW h \in Handler, NEW b \in Bucket, NEW patch \in Patches, PatchBucket(h, b, patch)
  PROVE  AloneInv'
<1>1. PICK cur : cur = buckets[b]
  OBVIOUS
<1>2. cur \in Policy /\ Period \cup {0} \subseteq Nat
  BY <1>1, ConstantsAssumption DEF PatchBucket, Inv, TypeInv, TableInv
<1>3. PICK p : p = Patched(cur, patch)
  OBVIOUS
<1>4. cur.locked => p.locked /\ p.period >= cur.period
  <2>1. CASE patch = None
    BY <1>2, <1>3, <2>1 DEF Patched, Policy
  <2>2. CASE patch # None
    <3>1. patch.period \in Nat
      BY <1>2, <2>2 DEF Patches
    <3>2. cur.period \in Nat
      BY <1>2 DEF Policy
    <3>3. cur.locked => ~(patch.period < cur.period) /\ patch.period # 0
      BY <1>1, <2>2 DEF PatchBucket, LockRefuses
    <3>4. p = [period |-> patch.period, locked |-> (patch.locked \/ cur.locked) /\ patch.period > 0]
      BY <1>3, <2>2 DEF Patched
    <3>5. cur.locked => patch.period > 0 /\ patch.period >= cur.period
      BY <3>1, <3>2, <3>3
    <3>6. p.period = patch.period /\ p.locked = ((patch.locked \/ cur.locked) /\ patch.period > 0)
      BY <3>4, Zenon
    <3>7. cur.locked => p.locked
      BY <3>5, <3>6, Zenon
    <3> QED
      BY <3>5, <3>6, <3>7
  <2> QED
    BY <2>1, <2>2
<1>5. PICK r : r = [Idle EXCEPT !.pc = "patch", !.op = "patch", !.b = b, !.policy = p]
  OBVIOUS
<1>6. r.pc = "patch" /\ r.b = b /\ r.policy = p
  BY <1>5 DEF Idle
<1>7. Goto(h, r) /\ UNCHANGED <<buckets, objects, clock>>
  BY <1>1, <1>3, <1>5 DEF PatchBucket, Begin
<1>8. Aged(r)'
  BY <1>6 DEF Aged
<1>9. KeepsLock(r)'
  BY <1>1, <1>4, <1>6, <1>7 DEF KeepsLock
<1>10. Stamped'
  BY <1>7, StampedStays DEF AloneInv
<1> QED
  BY <1>7, <1>8, <1>9, <1>10, AloneStep

\* Statements that return, or go on to a quiet one, and write no row.
LEMMA StatementsQuiet ==
  ASSUME Inv, Alone, AloneInv, NEW h \in Handler,
         \/ FindSource(h) \/ ReadSource(h) \/ OpenBucket(h) \/ CheckGenerationMatch(h) \/ GetObject(h)
         \/ ReadObjectBytes(h) \/ WriteObjectMedia(h) \/ FinishUpload(h) \/ InsertConflict(h)
         \/ RemoveBlob(h) \/ RemoveDir(h) \/ UpdateBucket(h) \/ DropBucket(h)
  PROVE  AloneInv'
<1> DEFINE Quiets == {"sourceBytes", "bucket", "source", "retention", "find", "bytes", "reply", "rmdir"}
<1>1. PICK q : q = reg[h]
  OBVIOUS
<1>2. q \in Reg
  BY <1>1, Known
<1>3. UNCHANGED <<objects, clock>>
  BY DEF FindSource, ReadSource, OpenBucket, CheckGenerationMatch, GetObject, ReadObjectBytes, WriteObjectMedia,
         FinishUpload, InsertConflict, RemoveBlob, RemoveDir, UpdateBucket, DropBucket
<1>4. Quiets \subseteq Quiet
  BY DEF Quiet, PC
<1>5. ASSUME NEW pc \in Quiets, Return(h) \/ Step(h, pc) PROVE AloneInv'
  <2> HIDE DEF Quiets
  <2> QED BY <1>3, <1>4, <1>5, QuietMove
<1>6. ASSUME NEW r, r.pc \in Quiets, Goto(h, r) PROVE AloneInv'
  <2> HIDE DEF Quiets
  <2> QED BY <1>3, <1>4, <1>6, QuietGoto
<1>7. CASE FindSource(h)
  <2>1. PICK src : src = Head(q.srcs)
    OBVIOUS
  <2>2. PICK g : g = IF src[3] = 0 THEN Latest(src[1], src[2]) ELSE src[3]
    OBVIOUS
  <2>3. PICK r : r = Found(q, "sourceBytes", g)
    OBVIOUS
  <2>4. r.pc = "sourceBytes"
    BY <1>2, <2>3 DEF Found, Reg
  <2>5. Return(h) \/ Goto(h, r)
    BY <1>1, <1>7, <2>1, <2>2, <2>3 DEF FindSource, Found
  <2> QED
    BY <1>5, <1>6, <2>4, <2>5
<1>8. CASE ReadSource(h)
  <2>1. PICK src : src = Head(q.srcs)
    OBVIOUS
  <2>2. PICK data : data = blobs[BlobPath(<<src[1], src[2], q.g>>)]
    OBVIOUS
  <2>3. PICK pc : pc = IF Len(q.srcs) = 1 THEN "bucket" ELSE "source"
    OBVIOUS
  <2>4. PICK r : r = [q EXCEPT !.pc = pc, !.srcs = Tail(@), !.data = @ \o data, !.g = 0]
    OBVIOUS
  <2>5. r.pc = pc /\ pc \in {"bucket", "source"}
    BY <1>2, <2>3, <2>4 DEF Reg
  <2>6. Return(h) \/ Goto(h, r)
    BY <1>1, <1>8, <2>1, <2>2, <2>3, <2>4 DEF ReadSource
  <2> QED
    BY <1>5, <1>6, <2>5, <2>6
<1>9. CASE OpenBucket(h) \/ CheckGenerationMatch(h) \/ WriteObjectMedia(h) \/ FinishUpload(h) \/ InsertConflict(h)
           \/ RemoveBlob(h) \/ RemoveDir(h) \/ UpdateBucket(h) \/ DropBucket(h)
  <2>1. Return(h) \/ Step(h, "retention") \/ Step(h, "find") \/ Step(h, "rmdir")
    BY <1>9 DEF OpenBucket, CheckGenerationMatch, WriteObjectMedia, FinishUpload, InsertConflict, RemoveBlob,
                RemoveDir, UpdateBucket, DropBucket
  <2> QED
    BY <1>5, <2>1
<1>10. CASE GetObject(h)
  <2>1. PICK g : g = IF q.g = 0 THEN Latest(q.b, q.n) ELSE q.g
    OBVIOUS
  <2>2. PICK row : row = IF g = 0 THEN None ELSE objects[<<q.b, q.n, g>>]
    OBVIOUS
  <2>3. PICK pc : pc = IF q.op = "get" THEN "bytes" ELSE "retention"
    OBVIOUS
  <2>4. PICK r : r = Summed(q, pc, g, row.data)
    OBVIOUS
  <2>5. r.pc = pc /\ pc \in {"bytes", "retention"}
    BY <1>2, <2>3, <2>4 DEF Summed, Reg
  <2>6. Return(h) \/ Goto(h, r)
    BY <1>1, <1>10, <2>1, <2>2, <2>3, <2>4 DEF GetObject, Summed
  <2> QED
    BY <1>5, <1>6, <2>5, <2>6
<1>11. CASE ReadObjectBytes(h)
  <2>1. PICK data : data = blobs[BlobPath(KeyOf(h))]
    OBVIOUS
  <2>2. PICK r : r = Filled(q, "reply", data)
    OBVIOUS
  <2>3. r.pc = "reply" /\ Goto(h, r)
    BY <1>1, <1>2, <1>11, <2>1, <2>2 DEF ReadObjectBytes, Filled, Reg
  <2> QED
    BY <1>6, <2>3
<1> QED
  BY <1>7, <1>8, <1>9, <1>10, <1>11

\* The INSERT stamps the row with the clock; the DELETE removes one.
LEMMA RowsQuiet ==
  ASSUME Inv, Alone, AloneInv, NEW h \in Handler, InsertRow(h) \/ DeleteRow(h)
  PROVE  AloneInv'
<1>1. PICK k : k = KeyOf(h)
  OBVIOUS
<1>2. k \in Key /\ TableInv
  BY <1>1, OwnKey DEF InsertRow, DeleteRow, At, Inv, TypeInv
<1>3. PICK row : row = [data |-> reg[h].data, created |-> clock]
  OBVIOUS
<1>4. clock' = clock /\ (objects' = [objects EXCEPT ![k] = row] \/ objects' = [objects EXCEPT ![k] = None])
  BY <1>1, <1>3 DEF InsertRow, DeleteRow
<1>5. \A l \in Key : objects'[l] \in {objects[l], row, None}
  BY <1>2, <1>4, RowReplaced
<1>6. clock <= clock /\ row.created = clock
  BY <1>2, <1>3, ConstantsAssumption DEF TableInv
<1>7. Stamped'
  BY <1>4, <1>5, <1>6 DEF AloneInv, Stamped
<1>8. PICK q : q = reg[h]
  OBVIOUS
<1>9. ASSUME NEW pc \in Quiet, Return(h) \/ Step(h, pc) PROVE AloneInv'
  <2>1. CASE Return(h)
    <3>1. Idle.pc \in Quiet
      BY DEF Idle, Quiet, PC
    <3> QED
      BY <1>7, <2>1, <3>1, QuietStep DEF Return
  <2>2. CASE Step(h, pc)
    <3>1. PICK r : r = Moved(q, pc)
      OBVIOUS
    <3>2. r.pc = pc /\ Goto(h, r)
      BY <1>8, <2>2, <3>1, Known DEF Reg, Moved, Step
    <3> QED
      BY <1>7, <3>2, QuietStep
  <2> QED
    BY <1>9, <2>1, <2>2
<1>10. "session" \in Quiet /\ "unlink" \in Quiet
  BY DEF Quiet, PC
<1>11. Return(h) \/ Step(h, "session") \/ Step(h, "unlink")
  BY DEF InsertRow, DeleteRow
<1> QED
  BY <1>9, <1>10, <1>11

\* A handler that has been told a period will compare against the bucket's own;
\* without one, no version of the bucket is young.
LEMMA PeriodAlone ==
  ASSUME Inv, Alone, AloneInv, NEW h \in Handler, CheckRetentionPeriod(h)
  PROVE  AloneInv'
<1>1. PICK q : q = reg[h]
  OBVIOUS
<1>2. q \in Reg /\ q.pc = "retention"
  BY <1>1, Known DEF CheckRetentionPeriod, At
<1>3. PICK policy : policy = buckets[q.b]
  OBVIOUS
<1>4. PICK period : period = IF policy = None THEN 0 ELSE policy.period
  OBVIOUS
<1>5. PICK pc : pc = IF period = 0 THEN IF q.op = "put" THEN "next" ELSE "row" ELSE "age"
  OBVIOUS
<1>6. PICK r : r = Bound(q, pc, period)
  OBVIOUS
<1>7. r.pc = pc /\ r.b = q.b /\ r.n = q.n /\ r.g = q.g /\ r.op = q.op /\ r.period = period
  BY <1>2, <1>6 DEF Bound, Reg
<1>8. Goto(h, r) /\ UNCHANGED <<buckets, objects, clock>>
  BY <1>1, <1>3, <1>4, <1>5, <1>6 DEF CheckRetentionPeriod, Bound
<1>9. Stamped'
  BY <1>8, StampedStays DEF AloneInv
<1>10. /\ \A g \in Generation : <<q.b, q.n, g>> \in Key
       /\ q.op \in {"put", "delete"} /\ (q.op = "delete" => q.g \in Generation)
  BY <1>1, <1>2, CheckedKey
<1>11. ASSUME period = 0, NEW g \in Generation PROVE ~Young(<<q.b, q.n, g>>)'
  <2>1. PICK k \in Key : k = <<q.b, q.n, g>>
    BY <1>10
  <2>2. buckets[k[1]] = None \/ buckets[k[1]].period = 0
    BY <1>3, <1>4, <1>11, <2>1
  <2>3. ~Young(k)
    BY <2>2, NoPeriod
  <2> QED
    BY <1>8, <2>1, <2>3, YoungStays
<1>12. CASE period = 0
  <2>1. pc \in {"next", "row"} /\ (pc = "row" => q.g \in Generation)
    BY <1>5, <1>10, <1>12
  <2>2. Aged(r)'
    BY <1>7, <1>11, <1>12, <2>1 DEF Aged
  <2>3. KeepsLock(r)'
    BY <1>7, <2>1 DEF KeepsLock
  <2> QED
    BY <1>8, <1>9, <2>2, <2>3, AloneStep
<1>13. CASE period # 0
  <2>1. pc = "age" /\ buckets[q.b] # None /\ buckets[q.b].period = period
    BY <1>3, <1>4, <1>5, <1>13
  <2>2. Aged(r)'
    BY <1>7, <1>8, <2>1 DEF Aged
  <2>3. KeepsLock(r)'
    BY <1>7, <2>1 DEF KeepsLock
  <2> QED
    BY <1>8, <1>9, <2>2, <2>3, AloneStep
<1> QED
  BY <1>12, <1>13

\* The check passes only when the version it looks at is not young.
LEMMA AgeAlone ==
  ASSUME Inv, Alone, AloneInv, NEW h \in Handler, CheckRetentionAge(h)
  PROVE  AloneInv'
<1>1. PICK q : q = reg[h]
  OBVIOUS
<1>2. q \in Reg /\ q.pc = "age" /\ Aged(q)
  BY <1>1, Known DEF CheckRetentionAge, At, AloneInv
<1>3. PICK last : last = Latest(q.b, q.n)
  OBVIOUS
<1>4. PICK g : g = IF q.op = "put" THEN last ELSE q.g
  OBVIOUS
<1>5. PICK row : row = IF g = 0 THEN None ELSE objects[<<q.b, q.n, g>>]
  OBVIOUS
<1>6. PICK pc : pc = IF q.op = "put" THEN "next" ELSE "row"
  OBVIOUS
<1>7. UNCHANGED <<buckets, objects, clock>>
  BY DEF CheckRetentionAge
<1>8. /\ \A f \in Generation : <<q.b, q.n, f>> \in Key /\ f # 0
      /\ q.op \in {"put", "delete"} /\ (q.op = "delete" => q.g \in Generation)
  BY <1>1, <1>2, CheckedKey DEF Generation
<1>9. CASE Return(h)
  <2>1. "idle" \in Quiet
    BY DEF Quiet, PC
  <2> QED
    BY <1>7, <1>9, <2>1, QuietMove
<1>10. CASE ~Return(h)
  <2>1. Step(h, pc) /\ ~(row # None /\ clock - row.created < q.period)
    BY <1>1, <1>3, <1>4, <1>5, <1>6, <1>10 DEF CheckRetentionAge
  <2>2. PICK r : r = Moved(q, pc)
    OBVIOUS
  <2>3. r.pc = pc /\ r.b = q.b /\ r.n = q.n /\ r.g = q.g /\ Goto(h, r)
    BY <1>1, <1>2, <2>1, <2>2 DEF Moved, Reg, Step
  <2>4. ASSUME g \in Generation PROVE ~Young(<<q.b, q.n, g>>)
    <3>1. row = objects[<<q.b, q.n, g>>]
      BY <1>5, <1>8, <2>4
    <3>2. buckets[q.b].period = q.period
      BY <1>2 DEF Aged
    <3> QED
      BY <2>1, <3>1, <3>2 DEF Young
  <2>5. Stamped'
    BY <1>7, StampedStays DEF AloneInv
  <2>6. pc \in {"next", "row"}
    BY <1>6
  <2>7. (g \in Generation => ~Young(<<q.b, q.n, g>>))'
    BY <1>7, <2>4 DEF Young
  <2>8. Aged(r)'
    <3>1. CASE q.op = "put"
      <4>1. pc = "next" /\ g = last
        BY <1>4, <1>6, <3>1
      <4>2. Latest(r.b, r.n)' = last
        BY <1>3, <1>7, <2>3 DEF Latest
      <4> QED
        BY <2>3, <2>7, <4>1, <4>2 DEF Aged
    <3>2. CASE q.op # "put"
      <4>1. pc = "row" /\ g = q.g /\ g \in Generation
        BY <1>4, <1>6, <1>8, <3>2
      <4> QED
        BY <2>3, <2>7, <4>1 DEF Aged
    <3> QED
      BY <3>1, <3>2
  <2>9. KeepsLock(r)'
    BY <2>3, <2>6 DEF KeepsLock
  <2> QED
    BY <2>3, <2>5, <2>8, <2>9, AloneStep
<1> QED
  BY <1>9, <1>10

\* The number and the file are written under the check that has passed.
LEMMA WritesAlone ==
  ASSUME Inv, Alone, AloneInv, NEW h \in Handler, NextGeneration(h) \/ WriteBlob(h)
  PROVE  AloneInv'
<1>1. PICK q : q = reg[h]
  OBVIOUS
<1>2. q \in Reg /\ q.pc \in {"next", "write"}
  BY <1>1, Known DEF NextGeneration, WriteBlob, At
<1>3. UNCHANGED <<buckets, objects, clock>>
  BY DEF NextGeneration, WriteBlob
<1>4. ASSUME NEW r, r.pc \in {"write", "insert"}, r.b = q.b, r.n = q.n, r.g = q.g \/ r.pc = "write",
             r.period = q.period, Goto(h, r)
      PROVE  AloneInv'
  <2>1. \A k \in Key : Young(k)' => Young(k)
    BY <1>3, YoungStays
  <2>2. {r.pc, q.pc} \subseteq {"next", "write", "insert"} /\ r.pc # "age"
    BY <1>2, <1>4
  <2>3. Aged(r)'
    BY <1>1, <1>3, <1>4, <2>1, <2>2, AgedStays
  <2>4. KeepsLock(r)'
    BY <1>4 DEF KeepsLock
  <2>5. Stamped'
    BY <1>3, StampedStays DEF AloneInv
  <2> QED
    BY <1>4, <2>3, <2>4, <2>5, AloneStep
<1>5. CASE NextGeneration(h)
  <2>1. PICK g : g = Latest(q.b, q.n) + 1
    OBVIOUS
  <2>2. PICK r : r = Found(q, "write", g)
    OBVIOUS
  <2>3. r.pc = "write" /\ r.b = q.b /\ r.n = q.n /\ r.period = q.period
    BY <1>2, <2>2 DEF Found, Reg
  <2>4. Goto(h, r)
    BY <1>1, <1>5, <2>1, <2>2 DEF NextGeneration, Found
  <2> QED
    BY <1>4, <2>3, <2>4
<1>6. CASE WriteBlob(h)
  <2>1. PICK r : r = Moved(q, "insert")
    OBVIOUS
  <2>2. r.pc = "insert" /\ r.b = q.b /\ r.n = q.n /\ r.g = q.g /\ r.period = q.period
    BY <1>2, <2>1 DEF Moved, Reg
  <2>3. Goto(h, r)
    BY <1>1, <1>6, <2>1 DEF WriteBlob, Step, Moved
  <2> QED
    BY <1>4, <2>2, <2>3
<1> QED
  BY <1>5, <1>6

\* A new bucket has no period, and time makes no version younger.
LEMMA YoungAfter ==
  ASSUME Inv, AloneInv, Tick \/ \E b \in Bucket : CreateBucket(b)
  PROVE  \A k \in Key : Young(k)' => Young(k)
<1> SUFFICES ASSUME NEW k \in Key, Young(k)' PROVE Young(k)
  OBVIOUS
<1>1. objects' = objects
  BY DEF Tick, CreateBucket
<1>2. objects[k] # None
  BY <1>1 DEF Young
<1>3. PICK c, t : c = objects[k].created /\ t = clock
  OBVIOUS
<1>4. c \in Nat /\ t \in Nat /\ c <= t /\ k[1] \in Bucket
  BY <1>2, <1>3, YoungNumbers
<1>5. CASE Tick
  <2>1. buckets' = buckets /\ clock' = t + 1
    BY <1>3, <1>5 DEF Tick
  <2>2. buckets[k[1]] # None /\ (t + 1) - c < buckets[k[1]].period
    BY <1>1, <1>3, <2>1 DEF Young
  <2>3. buckets[k[1]].period \in Nat
    BY <1>2, <2>2, YoungNumbers
  <2>4. t - c < buckets[k[1]].period
    BY <1>4, <2>2, <2>3
  <2> QED
    BY <1>2, <1>3, <2>2, <2>4 DEF Young
<1>6. ASSUME NEW b \in Bucket, CreateBucket(b) PROVE Young(k)
  <2>1. buckets' = [buckets EXCEPT ![b] = [period |-> 0, locked |-> FALSE]] /\ clock' = clock
    BY <1>6 DEF CreateBucket
  <2>2. CASE k[1] = b
    <3>1. buckets'[k[1]].period = 0
      BY <2>1, <2>2, <1>4 DEF Inv, TypeInv, TableInv
    <3>2. t - c < 0
      BY <1>1, <1>3, <2>1, <3>1 DEF Young
    <3> QED
      BY <1>4, <3>2
  <2>3. CASE k[1] # b
    <3>1. buckets'[k[1]] = buckets[k[1]]
      BY <1>4, <2>1, <2>3 DEF Inv, TypeInv, TableInv
    <3> QED
      BY <1>1, <2>1, <3>1 DEF Young
  <2> QED
    BY <2>2, <2>3
<1> QED
  BY <1>5, <1>6

LEMMA EnvironmentAlone ==
  ASSUME Inv, Alone, AloneInv,
         \/ \E u \in Upload : DeleteUploadSession(u) \/ \E b \in Bucket, n \in Name : CreateUploadSession(u, b, n)
         \/ \E b \in Bucket : CreateBucket(b)
         \/ Tick \/ Restart
  PROVE  AloneInv'
<1>1. ASSUME reg' = reg, objects' = objects, Stamped', \A k \in Key : Young(k)' => Young(k),
             \A b \in Bucket : buckets[b] # None => buckets'[b] = buckets[b],
             \A b \in Bucket : buckets[b] = None => buckets'[b] = None \/ ~buckets'[b].locked
      PROVE  AloneInv'
  <2>1. ASSUME NEW h \in Handler PROVE Aged(reg[h])' /\ KeepsLock(reg[h])'
    <3>1. PICK q : q = reg[h]
      OBVIOUS
    <3>2. Aged(q) /\ KeepsLock(q) /\ (q.pc # "idle" => q.b \in Bucket)
      BY <3>1, Known DEF AloneInv, Carries
    <3>3. q.pc = "age" => buckets'[q.b] = buckets[q.b]
      BY <1>1, <3>2 DEF Aged
    <3>4. Aged(q)'
      BY <1>1, <3>1, <3>3, AgedStays
    <3>5. KeepsLock(q)'
      BY <1>1, <3>2 DEF KeepsLock
    <3>6. reg'[h] = q
      BY <1>1, <3>1
    <3> QED
      BY <3>4, <3>5, <3>6 DEF Aged, KeepsLock
  <2> QED
    BY <1>1, <2>1 DEF AloneInv
<1>2. ASSUME NEW u, DeleteUploadSession(u) PROVE AloneInv'
  BY <1>1, <1>2, YoungStays, StampedStays DEF DeleteUploadSession, AloneInv
<1>3. ASSUME NEW u, NEW b, NEW n, CreateUploadSession(u, b, n) PROVE AloneInv'
  BY <1>1, <1>3, YoungStays, StampedStays DEF CreateUploadSession, AloneInv
<1>4. ASSUME NEW b \in Bucket, CreateBucket(b) PROVE AloneInv'
  <2>1. buckets[b] = None /\ buckets' = [buckets EXCEPT ![b] = [period |-> 0, locked |-> FALSE]]
        /\ UNCHANGED <<objects, reg, clock>>
    BY <1>4 DEF CreateBucket
  <2>2. Stamped'
    BY <2>1, StampedStays DEF AloneInv
  <2>3. \A c \in Bucket : c # b => buckets'[c] = buckets[c]
    BY <2>1 DEF Inv, TypeInv, TableInv
  <2>4. buckets'[b].locked = FALSE
    BY <2>1 DEF Inv, TypeInv, TableInv
  <2> QED
    BY <1>1, <1>4, <2>1, <2>2, <2>3, <2>4, YoungAfter
<1>5. CASE Tick
  <2>1. UNCHANGED <<buckets, objects, reg>> /\ clock' = clock + 1
    BY <1>5 DEF Tick
  <2>2. Stamped'
    <3>1. ASSUME NEW k \in Key, objects[k] # None PROVE objects[k].created <= clock + 1
      BY <3>1, YoungNumbers
    <3> QED
      BY <2>1, <3>1 DEF Stamped
  <2> QED
    BY <1>1, <1>5, <2>1, <2>2, YoungAfter
<1>6. CASE Restart
  <2>1. \A h \in Handler : reg'[h] = Idle
    BY <1>6 DEF Restart
  <2>2. Stamped'
    BY <1>6, StampedStays DEF Restart, AloneInv
  <2> QED
    BY <2>1, <2>2 DEF AloneInv, Aged, KeepsLock, Idle
<1> QED
  BY <1>2, <1>3, <1>4, <1>5, <1>6

LEMMA NextAlone ==
  ASSUME Alone
  PROVE  Inv /\ AloneInv /\ [Next]_vars => AloneInv'
<1> SUFFICES ASSUME Inv, AloneInv, [Next]_vars PROVE AloneInv'
  OBVIOUS
<1>1. CASE UNCHANGED vars
  BY <1>1 DEF vars, AloneInv, Stamped, Aged, KeepsLock, Young, Latest
<1>2. ASSUME NEW h \in Handler, Accept(h) PROVE AloneInv'
  BY <1>2, AcceptQuiet, PatchAlone DEF Accept
<1>3. ASSUME NEW h \in Handler, Advance(h) PROVE AloneInv'
  BY <1>3, StatementsQuiet, RowsQuiet, PeriodAlone, AgeAlone, WritesAlone DEF Advance
<1>4. CASE Next
  BY <1>2, <1>3, <1>4, EnvironmentAlone DEF Next
<1> QED
  BY <1>1, <1>4

\* What the checks of the one request found holds until it writes, whatever time
\* passes, whichever buckets are created meanwhile, and across restarts.
THEOREM AloneInvariance ==
  ASSUME Distinct, Alone
  PROVE  Spec => [](Inv /\ AloneInv)
<1>1. DropsAlone
  BY DEF DropsAlone
<1> QED
  BY <1>1, InitAlone, NextAlone, Invariance, PTL DEF Spec

\* A version younger than its bucket's period is neither deleted nor superseded:
\* the check (checkObjectRetention) still holds at the DELETE or the INSERT, two
\* or three statements later.
THEOREM RetentionKept ==
  ASSUME Distinct, Alone
  PROVE  Spec => RetentionHonoured
<1>1. ASSUME Inv, AloneInv, [Next]_vars, NEW k \in Key, Young(k)
      PROVE  objects'[k] # None /\ (Latest(k[1], k[2]) = k[3] => ~Superseded(k))
  <2>1. objects[k] # None /\ k = <<k[1], k[2], k[3]>> /\ k[3] \in Generation
    BY <1>1 DEF Young, Key
  <2>2. \A g \in Generation : <<k[1], k[2], g>> \in Key
    BY <1>1 DEF Key
  <2>3. CASE objects' = objects
    BY <2>1, <2>3 DEF Superseded
  <2>4. ASSUME NEW h \in Handler, InsertRow(h)
        PROVE  objects'[k] # None /\ (Latest(k[1], k[2]) = k[3] => ~Superseded(k))
    <3>1. PICK x : x = KeyOf(h)
      OBVIOUS
    <3>2. PICK q : q = reg[h]
      OBVIOUS
    <3>3. x \in Key /\ x = <<q.b, q.n, q.g>> /\ q.pc = "insert" /\ Aged(q)
      BY <1>1, <2>4, <3>1, <3>2, OwnKey DEF InsertRow, At, AloneInv
    <3>4. objects[x] = None /\ objects' = [objects EXCEPT ![x] = [data |-> q.data, created |-> clock]] /\ TableInv
      BY <1>1, <2>4, <3>1, <3>2 DEF InsertRow, Inv, TypeInv
    <3>5. \A l \in Key : l # x => objects'[l] = objects[l]
      BY <3>3, <3>4, RowReplaced
    <3>6. objects'[k] # None
      BY <2>1, <3>4, <3>5
    <3>7. ASSUME Latest(k[1], k[2]) = k[3], Superseded(k) PROVE FALSE
      <4>1. PICK g \in Generation : objects[<<k[1], k[2], g>>] = None /\ objects'[<<k[1], k[2], g>>] # None
        BY <3>7 DEF Superseded
      <4>2. <<k[1], k[2], g>> = x
        BY <2>2, <3>5, <4>1
      <4>3. q.b = k[1] /\ q.n = k[2]
        BY <3>3, <4>2
      <4>4. ~Young(<<k[1], k[2], k[3]>>)
        BY <2>1, <3>3, <3>7, <4>3 DEF Aged
      <4> QED
        BY <1>1, <2>1, <4>4
    <3> QED
      BY <3>6, <3>7
  <2>5. ASSUME NEW h \in Handler, DeleteRow(h)
        PROVE  objects'[k] # None /\ (Latest(k[1], k[2]) = k[3] => ~Superseded(k))
    <3>1. PICK x : x = KeyOf(h)
      OBVIOUS
    <3>2. PICK q : q = reg[h]
      OBVIOUS
    <3>3. x \in Key /\ x = <<q.b, q.n, q.g>> /\ q.pc = "row" /\ Aged(q)
      BY <1>1, <2>5, <3>1, <3>2, OwnKey DEF DeleteRow, At, AloneInv
    <3>4. objects' = [objects EXCEPT ![x] = None] /\ TableInv
      BY <1>1, <2>5, <3>1 DEF DeleteRow, Inv, TypeInv
    <3>5. objects'[x] = None /\ \A l \in Key : l # x => objects'[l] = objects[l]
      BY <3>3, <3>4, RowReplaced
    <3>6. k # x
      BY <1>1, <3>3 DEF Aged
    <3>7. ~Superseded(k)
      BY <2>2, <3>5 DEF Superseded
    <3> QED
      BY <2>1, <3>5, <3>6, <3>7
  <2> QED
    BY <1>1, <2>3, <2>4, <2>5, RowWriters
<1>2. Inv /\ AloneInv /\ [Next]_vars
        => [\A k \in Key : Young(k) => /\ objects'[k] # None
                                       /\ Latest(k[1], k[2]) = k[3] => ~Superseded(k)]_vars
  BY <1>1
<1> QED
  BY <1>2, AloneInvariance, PTL DEF Spec, RetentionHonoured

\* A locked retention policy is never shortened, cleared or unlocked while its
\* bucket exists (PatchBucket), one request at a time.
THEOREM LockKept ==
  ASSUME Distinct, Alone
  PROVE  Spec => LockHolds
<1>1. ASSUME Inv, AloneInv, [Next]_vars, NEW b \in Bucket, buckets[b] # None, buckets'[b] # None, buckets[b].locked
      PROVE  buckets'[b].locked /\ buckets'[b].period >= buckets[b].period
  <2>1. TableInv /\ Period \cup {0} \subseteq Nat
    BY <1>1, ConstantsAssumption DEF Inv, TypeInv
  <2>2. buckets[b].period >= buckets[b].period
    <3>1. buckets[b] \in Policy
      BY <1>1, <2>1 DEF TableInv
    <3>2. buckets[b].period \in Nat
      BY <2>1, <3>1 DEF Policy
    <3> QED
      BY <3>2
  <2>3. CASE buckets' = buckets
    BY <1>1, <2>2, <2>3
  <2>4. ASSUME NEW h \in Handler, UpdateBucket(h)
        PROVE  buckets'[b].locked /\ buckets'[b].period >= buckets[b].period
    <3>1. PICK q : q = reg[h]
      OBVIOUS
    <3>2. q.pc = "patch" /\ KeepsLock(q) /\ q.b \in Bucket
      BY <1>1, <2>4, <3>1, Known DEF UpdateBucket, At, AloneInv, Carries
    <3>3. buckets' = [buckets EXCEPT ![q.b] = IF @ = None THEN None ELSE q.policy]
      BY <2>4, <3>1 DEF UpdateBucket
    <3>4. CASE q.b = b
      <4>1. buckets'[b] = q.policy
        BY <1>1, <2>1, <3>3, <3>4 DEF TableInv
      <4> QED
        BY <1>1, <3>2, <3>4, <4>1 DEF KeepsLock
    <3>5. CASE q.b # b
      <4>1. buckets'[b] = buckets[b]
        BY <2>1, <3>2, <3>3, <3>5 DEF TableInv
      <4> QED
        BY <1>1, <2>2, <4>1
    <3> QED
      BY <3>4, <3>5
  <2>5. ASSUME NEW c, \/ buckets' = [buckets EXCEPT ![c] = None]
                      \/ (buckets[c] = None /\ \E v : buckets' = [buckets EXCEPT ![c] = v])
        PROVE  buckets'[b].locked /\ buckets'[b].period >= buckets[b].period
    <3>1. c # b
      BY <1>1, <2>1, <2>5 DEF TableInv
    <3>2. buckets'[b] = buckets[b]
      BY <2>1, <2>5, <3>1 DEF TableInv
    <3> QED
      BY <1>1, <2>2, <3>2
  <2>6. ASSUME NEW h \in Handler, DropBucket(h)
        PROVE  buckets'[b].locked /\ buckets'[b].period >= buckets[b].period
    BY <2>5, <2>6 DEF DropBucket
  <2>7. ASSUME NEW c \in Bucket, CreateBucket(c)
        PROVE  buckets'[b].locked /\ buckets'[b].period >= buckets[b].period
    BY <2>5, <2>7 DEF CreateBucket
  <2>8. ASSUME NEW h \in Handler, Accept(h) PROVE buckets' = buckets
    BY <2>8 DEF Accept, UploadObject, ComposeObject, CompleteUploadSession, DeleteObject, GetOrDownloadObject,
                PatchBucket, DeleteBucket
  <2>9. ASSUME NEW h \in Handler, Advance(h) PROVE buckets' = buckets \/ UpdateBucket(h) \/ DropBucket(h)
    BY <2>9 DEF Advance, FindSource, ReadSource, OpenBucket, CheckRetentionPeriod, CheckRetentionAge, NextGeneration,
                WriteBlob, InsertRow, InsertConflict, FinishUpload, CheckGenerationMatch, GetObject, DeleteRow,
                RemoveBlob, ReadObjectBytes, WriteObjectMedia, RemoveDir
  <2>10. CASE UNCHANGED vars
    BY <2>3, <2>10 DEF vars
  <2>11. CASE Next
    BY <2>3, <2>4, <2>6, <2>7, <2>8, <2>9, <2>11
       DEF Next, DeleteUploadSession, CreateUploadSession, Tick, Restart
  <2> QED
    BY <1>1, <2>10, <2>11
<1>2. Inv /\ AloneInv /\ [Next]_vars
        => [\A b \in Bucket : /\ buckets[b] # None /\ buckets'[b] # None
                              /\ buckets[b].locked
                              => buckets'[b].locked /\ buckets'[b].period >= buckets[b].period]_vars
  BY <1>1
<1> QED
  BY <1>2, AloneInvariance, PTL DEF Spec, LockHolds
=============================================================================
