------------------------------ MODULE GcsObjects ------------------------------
(***************************************************************************)
(* Cloud Storage objects: rows of the SQLite tables buckets, objects and   *)
(* gcs_upload_sessions, and the blob files under gcs/{bucket}/{generation} *)
(* (internal/store/gcs.go, internal/services/gcs/handler.go).              *)
(*                                                                         *)
(* A request is run by a handler.  Each SQL statement and each file        *)
(* operation is one step; between two of them any other handler may run,   *)
(* or the process may be killed.  Bytes are sequences of chunks, a hash is *)
(* the bytes themselves, and only the metadata a step decides on is kept:  *)
(* the generation, the creation time, and a bucket's retention policy.     *)
(***************************************************************************)
EXTENDS Integers, Sequences, FiniteSetsExt

CONSTANTS
  Handler,    \* request goroutines
  Bucket,     \* bucket names
  Name,       \* object names, each the sequence of its segments between slashes
  Chunk,      \* pieces of content
  Upload,     \* upload ids uuid.NewString can return
  Period,     \* retention periods a client asks for
  Owned,      \* Owned[h]: the object names the clients of h write
  Offered,    \* the kinds of request the clients make
  None,       \* no row, no file, no policy in the patch
  MaxGen,     \* bound: generations of one name
  MaxClock,   \* bound: clock ticks
  MaxSize     \* bound: chunks in one object

VARIABLES
  buckets,    \* table buckets: the retention policy, or None
  objects,    \* table objects: <<bucket, name, generation>> -> row, or None
  blobs,      \* the files: blob path -> bytes, or None
  sessions,   \* table gcs_upload_sessions
  reg,        \* what each handler has read so far
  clock       \* time.Now

vars == <<buckets, objects, blobs, sessions, reg, clock>>

Generation == 1..MaxGen
Key        == Bucket \X Name \X Generation
Content    == UNION {[1..n -> Chunk] : n \in 0..MaxSize}
Policy     == [period : Period \cup {0}, locked : BOOLEAN]
Row        == [data : Content, created : 0..MaxClock]

ASSUME ConstantsAssumption ==
  /\ MaxGen \in Nat \ {0} /\ MaxClock \in Nat /\ MaxSize \in Nat \ {0}
  /\ Name \subseteq Seq(STRING) /\ Period \subseteq Nat
  /\ Owned \in [Handler -> SUBSET Name]
  /\ None \notin Row /\ None \notin Content

\* sanitizeObjectPath: empty, "." and ".." segments are dropped.
sanitizeObjectPath(n) ==
  LET clean == SelectSeq(n, LAMBDA s : s \notin {"", ".", ".."})
  IN  IF clean = <<>> THEN <<"_object">> ELSE clean

\* Mutants: the file named without its generation, and without its object.
BlobPathLatestOnly(k) == <<k[1], 1, sanitizeObjectPath(k[2])>>
BlobPathNameless(k)   == <<k[1], k[3], sanitizeObjectPath(<<>>)>>

BlobPath(k) == <<k[1], k[3], sanitizeObjectPath(k[2])>>
Path        == {BlobPath(k) : k \in Key}

\* The generation GetObject takes as the latest, 0 when the name has no row.
Latest(b, n) == Max({0} \cup {g \in Generation : objects[<<b, n, g>>] # None})

Rows == {k \in Key : objects[k] # None}

(***************************************************************************)
(* Handlers.  pc names the statement the request runs next.                *)
(***************************************************************************)
Idle == [pc |-> "idle", op |-> "none", b |-> None, n |-> None, g |-> 0, want |-> -1, named |-> FALSE,
         data |-> <<>>, sum |-> None, srcs |-> <<>>, period |-> 0, policy |-> None, u |-> None]

At(h, pc)       == reg[h].pc = pc
Goto(h, r)      == reg' = [reg EXCEPT ![h] = r]
Step(h, pc)     == Goto(h, [reg[h] EXCEPT !.pc = pc])
Return(h)       == Goto(h, Idle)
KeyOf(h)        == <<reg[h].b, reg[h].n, reg[h].g>>
Begin(h, op, r) == /\ At(h, "idle") /\ op \in Offered /\ Goto(h, r)

\* An empty store, but for the buckets of earlier requests.
StartWith(existing) ==
  /\ buckets  = existing
  /\ objects  = [k \in Key |-> None]
  /\ blobs    = [p \in Path |-> None]
  /\ sessions = [u \in Upload |-> [state |-> "fresh", b |-> None, n |-> None]]
  /\ reg      = [h \in Handler |-> Idle]
  /\ clock    = 0

Init == StartWith([b \in Bucket |-> None])

(***************************************************************************)
(* Writing an object: uploadObject, putMediaUpload, xmlPutObject, and the  *)
(* writing half of copyTo, rewriteTo, compose and resumable uploads.       *)
(***************************************************************************)
UploadObject(h, b, n, d) ==
  /\ n \in Owned[h]
  /\ Begin(h, "put", [Idle EXCEPT !.pc = "bucket", !.op = "put", !.b = b, !.n = n, !.data = <<d>>])
  /\ UNCHANGED <<buckets, objects, blobs, sessions, clock>>

\* copyObject, rewriteObject (one source) and composeObject (several, in order).
ComposeObject(h, srcs, b, n) ==
  /\ n \in Owned[h]
  /\ Begin(h, "compose", [Idle EXCEPT !.pc = "source", !.op = "put", !.b = b, !.n = n, !.srcs = srcs])
  /\ UNCHANGED <<buckets, objects, blobs, sessions, clock>>

\* GetObject of the next source; a missing one ends the request.
FindSource(h) ==
  /\ At(h, "source")
  /\ LET src == Head(reg[h].srcs)
         g   == IF src[3] = 0 THEN Latest(src[1], src[2]) ELSE src[3]
         row == IF g = 0 THEN None ELSE objects[<<src[1], src[2], g>>]
     IN  IF row = None THEN Return(h)
                       ELSE Goto(h, [reg[h] EXCEPT !.pc = "sourceBytes", !.g = g])
  /\ UNCHANGED <<buckets, objects, blobs, sessions, clock>>

\* ReadObjectBytes of that source, appended to the parts read so far.
ReadSource(h) ==
  /\ At(h, "sourceBytes")
  /\ LET src  == Head(reg[h].srcs)
         data == blobs[BlobPath(<<src[1], src[2], reg[h].g>>)]
     IN  IF data = None THEN Return(h)
         ELSE /\ Len(reg[h].data \o data) <= MaxSize
              /\ Goto(h, [reg[h] EXCEPT !.pc = IF Len(reg[h].srcs) = 1 THEN "bucket" ELSE "source",
                                        !.srcs = Tail(@), !.data = @ \o data, !.g = 0])
  /\ UNCHANGED <<buckets, objects, blobs, sessions, clock>>

\* PutObjectBytesMeta: GetBucket.
OpenBucket(h) ==
  /\ At(h, "bucket")
  /\ IF buckets[reg[h].b] = None THEN Return(h) ELSE Step(h, "retention")
  /\ UNCHANGED <<buckets, objects, blobs, sessions, clock>>

\* checkObjectRetention: GetBucket; no bucket and no period both allow the request.
CheckRetentionPeriod(h) ==
  /\ At(h, "retention")
  /\ LET policy == buckets[reg[h].b]
         period == IF policy = None THEN 0 ELSE policy.period
         next   == IF reg[h].op = "put" THEN "next" ELSE "row"
     IN  Goto(h, [reg[h] EXCEPT !.pc = IF period = 0 THEN next ELSE "age", !.period = period])
  /\ UNCHANGED <<buckets, objects, blobs, sessions, clock>>

\* Mutant: an object counts as old enough one tick too soon.
CheckRetentionAgeEarly(h) ==
  /\ At(h, "age")
  /\ LET g   == IF reg[h].op = "put" THEN Latest(reg[h].b, reg[h].n) ELSE reg[h].g
         row == IF g = 0 THEN None ELSE objects[<<reg[h].b, reg[h].n, g>>]
     IN  IF row # None /\ clock - row.created + 1 < reg[h].period
         THEN Return(h)
         ELSE Step(h, IF reg[h].op = "put" THEN "next" ELSE "row")
  /\ UNCHANGED <<buckets, objects, blobs, sessions, clock>>

\* checkObjectRetention: GetObject, the latest for a put, the victim for a delete.
CheckRetentionAge(h) ==
  /\ At(h, "age")
  /\ LET g   == IF reg[h].op = "put" THEN Latest(reg[h].b, reg[h].n) ELSE reg[h].g
         row == IF g = 0 THEN None ELSE objects[<<reg[h].b, reg[h].n, g>>]
     IN  IF row # None /\ clock - row.created < reg[h].period
         THEN Return(h)
         ELSE Step(h, IF reg[h].op = "put" THEN "next" ELSE "row")
  /\ UNCHANGED <<buckets, objects, blobs, sessions, clock>>

\* Mutant: the latest generation is used again.
NextGenerationReused(h) ==
  /\ At(h, "next")
  /\ Goto(h, [reg[h] EXCEPT !.pc = "write", !.g = Max({1, Latest(reg[h].b, reg[h].n)})])
  /\ UNCHANGED <<buckets, objects, blobs, sessions, clock>>

\* SELECT COALESCE(MAX(generation), 0) + 1.
NextGeneration(h) ==
  /\ At(h, "next")
  /\ LET g == Latest(reg[h].b, reg[h].n) + 1
     IN  /\ g <= MaxGen
         /\ Goto(h, [reg[h] EXCEPT !.pc = "write", !.g = g])
  /\ UNCHANGED <<buckets, objects, blobs, sessions, clock>>

\* MkdirAll and os.WriteFile, which replaces a file already there.
WriteBlob(h) ==
  /\ At(h, "write")
  /\ blobs' = [blobs EXCEPT ![BlobPath(KeyOf(h))] = reg[h].data]
  /\ Step(h, "insert")
  /\ UNCHANGED <<buckets, objects, sessions, clock>>

\* Mutant: INSERT OR REPLACE.
InsertRowReplaces(h) ==
  /\ At(h, "insert")
  /\ objects' = [objects EXCEPT ![KeyOf(h)] = [data |-> reg[h].data, created |-> clock]]
  /\ IF reg[h].u = None THEN Return(h) ELSE Step(h, "session")
  /\ UNCHANGED <<buckets, blobs, sessions, clock>>

InsertRow(h) ==
  /\ At(h, "insert")
  /\ objects[KeyOf(h)] = None
  /\ objects' = [objects EXCEPT ![KeyOf(h)] = [data |-> reg[h].data, created |-> clock]]
  /\ IF reg[h].u = None THEN Return(h) ELSE Step(h, "session")
  /\ UNCHANGED <<buckets, blobs, sessions, clock>>

\* The primary key is taken: os.Remove(abs), and the client gets the error.
InsertConflict(h) ==
  /\ At(h, "insert")
  /\ objects[KeyOf(h)] # None
  /\ blobs' = [blobs EXCEPT ![BlobPath(KeyOf(h))] = None]
  /\ Return(h)
  /\ UNCHANGED <<buckets, objects, sessions, clock>>

(***************************************************************************)
(* Resumable uploads.  The bucket check and the INSERT of a new session    *)
(* are one step: a session may outlive its bucket in any case.             *)
(***************************************************************************)
CreateUploadSession(u, b, n) ==
  /\ "upload" \in Offered
  /\ buckets[b] # None
  /\ sessions[u].state = "fresh"
  /\ sessions' = [sessions EXCEPT ![u] = [state |-> "open", b |-> b, n |-> n]]
  /\ UNCHANGED <<buckets, objects, blobs, reg, clock>>

CompleteUploadSession(h, u, d) ==
  /\ sessions[u].state = "open"
  /\ sessions[u].n \in Owned[h]
  /\ Begin(h, "upload", [Idle EXCEPT !.pc = "bucket", !.op = "put", !.u = u, !.data = <<d>>,
                                     !.b = sessions[u].b, !.n = sessions[u].n])
  /\ UNCHANGED <<buckets, objects, blobs, sessions, clock>>

\* DELETE FROM gcs_upload_sessions, after the object is in; its result is ignored.
FinishUpload(h) ==
  /\ At(h, "session")
  /\ sessions' = [sessions EXCEPT ![reg[h].u].state = "done"]
  /\ Return(h)
  /\ UNCHANGED <<buckets, objects, blobs, clock>>

DeleteUploadSession(u) ==
  /\ "upload" \in Offered
  /\ sessions[u].state = "open"
  /\ sessions' = [sessions EXCEPT ![u].state = "done"]
  /\ UNCHANGED <<buckets, objects, blobs, reg, clock>>

(***************************************************************************)
(* Deleting and reading.  g = 0 asks for the latest generation, want = -1  *)
(* for no ifGenerationMatch check.                                         *)
(***************************************************************************)
DeleteObject(h, b, n, g, want) ==
  /\ n \in Owned[h]
  /\ buckets[b] # None
  /\ Begin(h, "delete", [Idle EXCEPT !.pc = IF want < 0 THEN "find" ELSE "match", !.op = "delete",
                                     !.b = b, !.n = n, !.g = g, !.want = want, !.named = g > 0])
  /\ UNCHANGED <<buckets, objects, blobs, sessions, clock>>

GetOrDownloadObject(h, b, n, g, want) ==
  /\ buckets[b] # None
  /\ Begin(h, "get", [Idle EXCEPT !.pc = IF want < 0 THEN "find" ELSE "match", !.op = "get",
                                  !.b = b, !.n = n, !.g = g, !.want = want])
  /\ UNCHANGED <<buckets, objects, blobs, sessions, clock>>

\* want = 0 asks that the object does not exist, which is what Latest = 0 says.
CheckGenerationMatch(h) ==
  /\ At(h, "match")
  /\ IF Latest(reg[h].b, reg[h].n) = reg[h].want THEN Step(h, "find") ELSE Return(h)
  /\ UNCHANGED <<buckets, objects, blobs, sessions, clock>>

GetObject(h) ==
  /\ At(h, "find")
  /\ LET g   == IF reg[h].g = 0 THEN Latest(reg[h].b, reg[h].n) ELSE reg[h].g
         row == IF g = 0 THEN None ELSE objects[<<reg[h].b, reg[h].n, g>>]
     IN  IF row = None THEN Return(h)
         ELSE Goto(h, [reg[h] EXCEPT !.pc = IF reg[h].op = "get" THEN "bytes" ELSE "retention",
                                     !.g = g, !.sum = row.data])
  /\ UNCHANGED <<buckets, objects, blobs, sessions, clock>>

DeleteRow(h) ==
  /\ At(h, "row")
  /\ objects' = [objects EXCEPT ![KeyOf(h)] = None]
  /\ IF objects[KeyOf(h)] = None THEN Return(h) ELSE Step(h, "unlink")
  /\ UNCHANGED <<buckets, blobs, sessions, clock>>

RemoveBlob(h) ==
  /\ At(h, "unlink")
  /\ blobs' = [blobs EXCEPT ![BlobPath(KeyOf(h))] = None]
  /\ Return(h)
  /\ UNCHANGED <<buckets, objects, sessions, clock>>

ReadObjectBytes(h) ==
  /\ At(h, "bytes")
  /\ Goto(h, [reg[h] EXCEPT !.pc = "reply", !.data = blobs[BlobPath(KeyOf(h))]])
  /\ UNCHANGED <<buckets, objects, blobs, sessions, clock>>

WriteObjectMedia(h) ==
  /\ At(h, "reply") /\ Return(h)
  /\ UNCHANGED <<buckets, objects, blobs, sessions, clock>>

(***************************************************************************)
(* Buckets.                                                                *)
(***************************************************************************)
CreateBucket(b) ==
  /\ "bucket" \in Offered
  /\ buckets[b] = None
  /\ buckets' = [buckets EXCEPT ![b] = [period |-> 0, locked |-> FALSE]]
  /\ UNCHANGED <<objects, blobs, sessions, reg, clock>>

\* Mutant: the lock is taken from the patch alone.
PatchedUnlocks(cur, patch) ==
  IF patch = None THEN cur ELSE [period |-> patch.period, locked |-> patch.locked /\ patch.period > 0]

\* The row PatchBucket writes back over the row cur it has read; a patch
\* without a retention policy writes the same policy again.
Patched(cur, patch) ==
  IF patch = None THEN cur
  ELSE [period |-> patch.period, locked |-> (patch.locked \/ cur.locked) /\ patch.period > 0]

LockRefuses(cur, patch) ==
  patch # None /\ cur.locked /\ (patch.period < cur.period \/ patch.period = 0)

PatchBucket(h, b, patch) ==
  /\ buckets[b] # None
  /\ ~LockRefuses(buckets[b], patch)
  /\ Begin(h, "patch", [Idle EXCEPT !.pc = "patch", !.op = "patch", !.b = b,
                                    !.policy = Patched(buckets[b], patch)])
  /\ UNCHANGED <<buckets, objects, blobs, sessions, clock>>

\* UPDATE buckets ... WHERE name: no row, no effect.
UpdateBucket(h) ==
  /\ At(h, "patch")
  /\ buckets' = [buckets EXCEPT ![reg[h].b] = IF @ = None THEN None ELSE reg[h].policy]
  /\ Return(h)
  /\ UNCHANGED <<objects, blobs, sessions, clock>>

\* DeleteBucket: SELECT COUNT(1) FROM objects; a bucket with objects is refused.
DeleteBucket(h, b) ==
  /\ buckets[b] # None
  /\ \A k \in Rows : k[1] # b
  /\ Begin(h, "drop", [Idle EXCEPT !.pc = "drop", !.op = "drop", !.b = b])
  /\ UNCHANGED <<buckets, objects, blobs, sessions, clock>>

DropBucket(h) ==
  /\ At(h, "drop")
  /\ buckets' = [buckets EXCEPT ![reg[h].b] = None]
  /\ IF buckets[reg[h].b] = None THEN Return(h) ELSE Step(h, "rmdir")
  /\ UNCHANGED <<objects, blobs, sessions, clock>>

\* os.RemoveAll of the bucket's directory.
RemoveDir(h) ==
  /\ At(h, "rmdir")
  /\ blobs' = [p \in Path |-> IF p[1] = reg[h].b THEN None ELSE blobs[p]]
  /\ Return(h)
  /\ UNCHANGED <<buckets, objects, sessions, clock>>

(***************************************************************************)
(* The clock, and a process killed and started again: the tables and the   *)
(* files stay, the requests are gone.                                      *)
(***************************************************************************)
Tick ==
  /\ clock < MaxClock
  /\ clock' = clock + 1
  /\ UNCHANGED <<buckets, objects, blobs, sessions, reg>>

Restart ==
  /\ \E h \in Handler : reg[h] # Idle
  /\ reg' = [h \in Handler |-> Idle]
  /\ UNCHANGED <<buckets, objects, blobs, sessions, clock>>

\* The sources of a copy, of one generation or the latest, and of a compose.
Sources == {<<src>> : src \in Bucket \X Name \X (0..MaxGen)}
             \cup {<<s1, s2>> : s1, s2 \in Bucket \X Name \X {0}}
Patches == {None} \cup [period : Period \cup {0}, locked : BOOLEAN]

\* A handler with no request of its own takes one.
Accept(h) ==
  \/ \E b \in Bucket, n \in Name :
       \/ \E d \in Chunk : UploadObject(h, b, n, d)
       \/ \E srcs \in Sources : ComposeObject(h, srcs, b, n)
       \/ \E g \in 0..MaxGen, want \in -1..MaxGen :
            DeleteObject(h, b, n, g, want) \/ GetOrDownloadObject(h, b, n, g, want)
  \/ \E u \in Upload, d \in Chunk : CompleteUploadSession(h, u, d)
  \/ \E b \in Bucket : DeleteBucket(h, b) \/ \E patch \in Patches : PatchBucket(h, b, patch)

\* The next statement of the request it has.
Advance(h) ==
  \/ FindSource(h) \/ ReadSource(h) \/ OpenBucket(h)
  \/ CheckRetentionPeriod(h) \/ CheckRetentionAge(h)
  \/ NextGeneration(h) \/ WriteBlob(h) \/ InsertRow(h) \/ InsertConflict(h) \/ FinishUpload(h)
  \/ CheckGenerationMatch(h) \/ GetObject(h) \/ DeleteRow(h) \/ RemoveBlob(h)
  \/ ReadObjectBytes(h) \/ WriteObjectMedia(h)
  \/ UpdateBucket(h) \/ DropBucket(h) \/ RemoveDir(h)

Next ==
  \/ \E h \in Handler : Accept(h) \/ Advance(h)
  \/ \E u \in Upload : DeleteUploadSession(u) \/ \E b \in Bucket, n \in Name : CreateUploadSession(u, b, n)
  \/ \E b \in Bucket : CreateBucket(b)
  \/ Tick \/ Restart

Spec == Init /\ [][Next]_vars

-----------------------------------------------------------------------------
(***************************************************************************)
(* Properties.                                                             *)
(***************************************************************************)

\* Every variable holds what its table, its directory or its goroutine can hold.
TypeOK ==
  /\ buckets \in [Bucket -> Policy \cup {None}]
  /\ objects \in [Key -> Row \cup {None}]
  /\ blobs \in [Path -> Content \cup {None}]
  /\ \A u \in Upload : sessions[u].state \in {"fresh", "open", "done"}
  /\ \A h \in Handler : reg[h].pc # "idle" => reg[h].b \in Bucket
  /\ clock \in 0..MaxClock

\* Every row has its file, with the bytes whose hash the row records: the file
\* is written before the row is inserted and removed after it is deleted, so a
\* process killed anywhere leaves at most a file too many.
BlobBacked == \A k \in Rows : blobs[BlobPath(k)] = objects[k].data

\* The same for the names that one handler alone writes, while others race: no
\* request touches the file of an object of another name.
OwnedBlobBacked ==
  \A k \in Rows : Cardinality({h \in Handler : k[2] \in Owned[h]}) = 1
                     => blobs[BlobPath(k)] = objects[k].data

\* Two writes of one name that take the same generation do not overwrite each
\* other's row: a version keeps what it recorded until it is deleted.
RowsKept ==
  [][\A k \in Rows : objects'[k] \in {objects[k], None}]_vars

\* An object younger than its bucket's retention period is neither deleted nor
\* overwritten by a newer generation of the same name.
Young(k) == /\ objects[k] # None /\ buckets[k[1]] # None
            /\ clock - objects[k].created < buckets[k[1]].period
Superseded(k) == \E g \in Generation : /\ g > k[3]
                                       /\ objects[<<k[1], k[2], g>>] = None
                                       /\ objects'[<<k[1], k[2], g>>] # None
RetentionHonoured ==
  [][\A k \in Key : Young(k) => /\ objects'[k] # None
                                /\ Latest(k[1], k[2]) = k[3] => ~Superseded(k)]_vars

\* Once a bucket's retention policy is locked, its period is never shortened or
\* cleared and the lock never comes off while the bucket exists.
LockHolds ==
  [][\A b \in Bucket : /\ buckets[b] # None /\ buckets'[b] # None
                       /\ buckets[b].locked
                       => buckets'[b].locked /\ buckets'[b].period >= buckets[b].period]_vars

\* What the tables and the files together hold, as clients can read it.
Stored(k) == IF objects[k] = None THEN None ELSE blobs[BlobPath(k)]
V == INSTANCE VersionStore WITH store <- [k \in Key |-> Stored(k)]

\* The steps of the handlers implement a store of versions in which a version
\* appears whole, above the versions the name has, never changes, and goes whole.
ImplementsVersions == V!Spec
=============================================================================
