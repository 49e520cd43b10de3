---------------------------- MODULE GcsRaceProofs ----------------------------
(***************************************************************************)
(* The theorems of GcsProofs about the clients that race in MCGcsObjects,  *)
(* for any number of them and any names.  The racers are an instance of    *)
(* GcsObjects (Race), the theorems about them one of GcsProofs (RaceFacts) *)
(* with the same substitution.  Each has definitions of its own, so the    *)
(* lemmas Same... show that they are equal, one level of definitions after *)
(* the other, before the facts about the one are used for the other.       *)
(***************************************************************************)
EXTENDS MCGcsObjects, FiniteSetTheorems, TLAPS

RaceFacts == INSTANCE GcsProofs WITH
  Handler <- Racer, Name <- RaceName, Owned <- RaceOwned, Offered <- Deletes, MaxGen <- RaceGen, MaxClock <- 0,
  buckets <- raceBuckets, objects <- raceObjects, blobs <- raceBlobs, sessions <- raceSessions, reg <- raceReg,
  clock <- raceClock

\* What GcsObjects assumes of its constants holds of what the racers have for them.
LEMMA RaceConstants ==
  /\ RaceGen \in Nat \ {0} /\ 0 \in Nat /\ MaxSize \in Nat \ {0}
  /\ RaceName \subseteq Seq(STRING) /\ Period \subseteq Nat
  /\ RaceOwned \in [Racer -> SUBSET RaceName]
  /\ None \notin RaceFacts!Row /\ None \notin RaceFacts!Content
<1>1. RaceFacts!Content = Content
  BY DEF RaceFacts!Content, Content
<1>2. RaceFacts!Row \subseteq Row
  <2>1. 0..0 \subseteq 0..MaxClock
    BY ConstantsAssumption
  <2> QED
    BY <1>1, <2>1 DEF RaceFacts!Row, Row
<1> QED
  BY <1>1, <1>2, ConstantsAssumption, RaceAssumption

-----------------------------------------------------------------------------
(* The definitions of the two instances.                                    *)

\* Keys, files and generations.
LEMMA SamePaths == \A k : Race!BlobPath(k) = RaceFacts!BlobPath(k)
  BY DEF Race!BlobPath, RaceFacts!BlobPath, Race!sanitizeObjectPath, RaceFacts!sanitizeObjectPath

LEMMA SameSets ==
  Race!Key = RaceFacts!Key /\ Race!Rows = RaceFacts!Rows /\ Race!Generation = RaceFacts!Generation
  BY DEF Race!Key, RaceFacts!Key, Race!Rows, RaceFacts!Rows, Race!Generation, RaceFacts!Generation

LEMMA SamePath == Race!Path = RaceFacts!Path
  BY SamePaths, SameSets DEF Race!Path, RaceFacts!Path

LEMMA SameLatest == \A b, n : Race!Latest(b, n) = RaceFacts!Latest(b, n)
  BY DEF Race!Latest, RaceFacts!Latest, Race!Generation, RaceFacts!Generation, Race!Max, RaceFacts!Max

\* Registers, requests and what is decided of a patch.
LEMMA SameIdle == Race!Idle = RaceFacts!Idle /\ Race!vars = RaceFacts!vars
  BY DEF Race!Idle, RaceFacts!Idle, Race!vars, RaceFacts!vars

LEMMA SameRequests == Race!Sources = RaceFacts!Sources /\ Race!Patches = RaceFacts!Patches
  BY DEF Race!Sources, RaceFacts!Sources, Race!Patches, RaceFacts!Patches

LEMMA SameDecisions ==
  \A cur, patch : Race!Patched(cur, patch) = RaceFacts!Patched(cur, patch)
              /\ (Race!LockRefuses(cur, patch) <=> RaceFacts!LockRefuses(cur, patch))
  BY DEF Race!Patched, RaceFacts!Patched, Race!LockRefuses, RaceFacts!LockRefuses

\* The moves of a handler.
LEMMA SameMoves ==
  /\ \A h, pc : Race!At(h, pc) <=> RaceFacts!At(h, pc)
  /\ \A h, r : Race!Goto(h, r) <=> RaceFacts!Goto(h, r)
  /\ \A h, pc : Race!Step(h, pc) <=> RaceFacts!Step(h, pc)
  /\ \A h : Race!Return(h) <=> RaceFacts!Return(h)
  /\ \A h : Race!KeyOf(h) = RaceFacts!KeyOf(h)
  /\ \A h, op, r : Race!Begin(h, op, r) <=> RaceFacts!Begin(h, op, r)
  BY SameIdle DEF Race!At, RaceFacts!At, Race!Goto, RaceFacts!Goto, Race!Step, RaceFacts!Step,
     Race!Return, RaceFacts!Return, Race!KeyOf, RaceFacts!KeyOf, Race!Begin, RaceFacts!Begin

\* The start, the requests, the statements, and all steps.
LEMMA SameInit == Race!Init => RaceFacts!Init
  BY SamePath, SameSets, SameIdle DEF Race!Init, RaceFacts!Init, Race!StartWith, RaceFacts!StartWith

LEMMA SameRequestSteps ==
  /\ \A h, b, n, d : Race!UploadObject(h, b, n, d) <=> RaceFacts!UploadObject(h, b, n, d)
  /\ \A h, srcs, b, n : Race!ComposeObject(h, srcs, b, n) <=> RaceFacts!ComposeObject(h, srcs, b, n)
  /\ \A h, u, d : Race!CompleteUploadSession(h, u, d) <=> RaceFacts!CompleteUploadSession(h, u, d)
  /\ \A h, b, n, g, want : Race!DeleteObject(h, b, n, g, want) <=> RaceFacts!DeleteObject(h, b, n, g, want)
  /\ \A h, b, n, g, want :
       Race!GetOrDownloadObject(h, b, n, g, want) <=> RaceFacts!GetOrDownloadObject(h, b, n, g, want)
  /\ \A h, b, patch : Race!PatchBucket(h, b, patch) <=> RaceFacts!PatchBucket(h, b, patch)
  /\ \A h, b : Race!DeleteBucket(h, b) <=> RaceFacts!DeleteBucket(h, b)
<1> USE SameMoves, SameIdle, SameSets, SameDecisions
<1>1. \A h, b, n, d : Race!UploadObject(h, b, n, d) <=> RaceFacts!UploadObject(h, b, n, d)
  BY DEF Race!UploadObject, RaceFacts!UploadObject
<1>2. \A h, srcs, b, n : Race!ComposeObject(h, srcs, b, n) <=> RaceFacts!ComposeObject(h, srcs, b, n)
  BY DEF Race!ComposeObject, RaceFacts!ComposeObject
<1>3. \A h, u, d : Race!CompleteUploadSession(h, u, d) <=> RaceFacts!CompleteUploadSession(h, u, d)
  BY DEF Race!CompleteUploadSession, RaceFacts!CompleteUploadSession
<1>4. \A h, b, n, g, want : Race!DeleteObject(h, b, n, g, want) <=> RaceFacts!DeleteObject(h, b, n, g, want)
  BY DEF Race!DeleteObject, RaceFacts!DeleteObject
<1>5. \A h, b, n, g, want :
        Race!GetOrDownloadObject(h, b, n, g, want) <=> RaceFacts!GetOrDownloadObject(h, b, n, g, want)
  BY DEF Race!GetOrDownloadObject, RaceFacts!GetOrDownloadObject
<1>6. \A h, b, patch : Race!PatchBucket(h, b, patch) <=> RaceFacts!PatchBucket(h, b, patch)
  BY DEF Race!PatchBucket, RaceFacts!PatchBucket
<1>7. \A h, b : Race!DeleteBucket(h, b) <=> RaceFacts!DeleteBucket(h, b)
  BY DEF Race!DeleteBucket, RaceFacts!DeleteBucket
<1> QED
  BY <1>1, <1>2, <1>3, <1>4, <1>5, <1>6, <1>7

LEMMA SameStatements ==
  \A h : Race!Advance(h) <=> RaceFacts!Advance(h)
<1> SUFFICES ASSUME NEW h PROVE Race!Advance(h) <=> RaceFacts!Advance(h)
  OBVIOUS
<1> USE SameMoves, SameIdle, SameSets, SamePath, SamePaths, SameLatest
<1>1. Race!FindSource(h) <=> RaceFacts!FindSource(h)
  BY DEF Race!FindSource, RaceFacts!FindSource
<1>2. Race!ReadSource(h) <=> RaceFacts!ReadSource(h)
  BY DEF Race!ReadSource, RaceFacts!ReadSource
<1>3. Race!OpenBucket(h) <=> RaceFacts!OpenBucket(h)
  BY DEF Race!OpenBucket, RaceFacts!OpenBucket
<1>4. Race!CheckRetentionPeriod(h) <=> RaceFacts!CheckRetentionPeriod(h)
  BY DEF Race!CheckRetentionPeriod, RaceFacts!CheckRetentionPeriod
<1>5. Race!CheckRetentionAge(h) <=> RaceFacts!CheckRetentionAge(h)
  BY DEF Race!CheckRetentionAge, RaceFacts!CheckRetentionAge
<1>6. Race!NextGeneration(h) <=> RaceFacts!NextGeneration(h)
  BY DEF Race!NextGeneration, RaceFacts!NextGeneration
<1>7. Race!WriteBlob(h) <=> RaceFacts!WriteBlob(h)
  BY DEF Race!WriteBlob, RaceFacts!WriteBlob
<1>8. Race!InsertRow(h) <=> RaceFacts!InsertRow(h)
  BY DEF Race!InsertRow, RaceFacts!InsertRow
<1>9. Race!InsertConflict(h) <=> RaceFacts!InsertConflict(h)
  BY DEF Race!InsertConflict, RaceFacts!InsertConflict
<1>10. Race!FinishUpload(h) <=> RaceFacts!FinishUpload(h)
  BY DEF Race!FinishUpload, RaceFacts!FinishUpload
<1>11. Race!CheckGenerationMatch(h) <=> RaceFacts!CheckGenerationMatch(h)
  BY DEF Race!CheckGenerationMatch, RaceFacts!CheckGenerationMatch
<1>12. Race!GetObject(h) <=> RaceFacts!GetObject(h)
  BY DEF Race!GetObject, RaceFacts!GetObject
<1>13. Race!DeleteRow(h) <=> RaceFacts!DeleteRow(h)
  BY DEF Race!DeleteRow, RaceFacts!DeleteRow
<1>14. Race!RemoveBlob(h) <=> RaceFacts!RemoveBlob(h)
  BY DEF Race!RemoveBlob, RaceFacts!RemoveBlob
<1>15. Race!ReadObjectBytes(h) <=> RaceFacts!ReadObjectBytes(h)
  BY DEF Race!ReadObjectBytes, RaceFacts!ReadObjectBytes
<1>16. Race!WriteObjectMedia(h) <=> RaceFacts!WriteObjectMedia(h)
  BY DEF Race!WriteObjectMedia, RaceFacts!WriteObjectMedia
<1>17. Race!UpdateBucket(h) <=> RaceFacts!UpdateBucket(h)
  BY DEF Race!UpdateBucket, RaceFacts!UpdateBucket
<1>18. Race!DropBucket(h) <=> RaceFacts!DropBucket(h)
  BY DEF Race!DropBucket, RaceFacts!DropBucket
<1>19. Race!RemoveDir(h) <=> RaceFacts!RemoveDir(h)
  BY DEF Race!RemoveDir, RaceFacts!RemoveDir
<1> QED
  BY <1>1, <1>2, <1>3, <1>4, <1>5, <1>6, <1>7, <1>8, <1>9, <1>10, <1>11, <1>12, <1>13, <1>14, <1>15,
     <1>16, <1>17, <1>18, <1>19 DEF Race!Advance, RaceFacts!Advance

LEMMA SameNext == [Race!Next]_(Race!vars) => [RaceFacts!Next]_(RaceFacts!vars)
<1>1. \A u : Race!DeleteUploadSession(u) <=> RaceFacts!DeleteUploadSession(u)
  BY SameIdle DEF Race!DeleteUploadSession, RaceFacts!DeleteUploadSession
<1>2. \A u, b, n : Race!CreateUploadSession(u, b, n) <=> RaceFacts!CreateUploadSession(u, b, n)
  BY SameIdle DEF Race!CreateUploadSession, RaceFacts!CreateUploadSession
<1>3. \A b : Race!CreateBucket(b) <=> RaceFacts!CreateBucket(b)
  BY SameIdle DEF Race!CreateBucket, RaceFacts!CreateBucket
<1>4. Race!Tick <=> RaceFacts!Tick
  BY SameIdle DEF Race!Tick, RaceFacts!Tick
<1>5. Race!Restart <=> RaceFacts!Restart
  BY SameIdle DEF Race!Restart, RaceFacts!Restart
<1>6. \A h : Race!Accept(h) <=> RaceFacts!Accept(h)
  BY SameRequestSteps, SameRequests DEF Race!Accept, RaceFacts!Accept
<1>7. Race!Next => RaceFacts!Next
  <2> SUFFICES ASSUME Race!Next PROVE RaceFacts!Next
    OBVIOUS
  <2>1. CASE \E h \in Racer : Race!Accept(h) \/ Race!Advance(h)
    BY <1>6, <2>1, SameStatements DEF RaceFacts!Next
  <2>2. CASE \E u \in Upload : \/ Race!DeleteUploadSession(u)
                               \/ \E b \in Bucket, n \in RaceName : Race!CreateUploadSession(u, b, n)
    BY <1>1, <1>2, <2>2 DEF RaceFacts!Next
  <2>3. CASE \E b \in Bucket : Race!CreateBucket(b)
    BY <1>3, <2>3 DEF RaceFacts!Next
  <2>4. CASE Race!Tick \/ Race!Restart
    BY <1>4, <1>5, <2>4 DEF RaceFacts!Next
  <2> QED
    BY <2>1, <2>2, <2>3, <2>4 DEF Race!Next
<1> QED
  BY <1>7 DEF Race!vars, RaceFacts!vars

-----------------------------------------------------------------------------
(* The theorems.                                                           *)

\* Names whose paths differ, as Distinct of GcsProofs: sanitizeObjectPath maps several
\* names to one file.
DistinctPaths ==
  \A m, n \in RaceName : Race!sanitizeObjectPath(m) = Race!sanitizeObjectPath(n) => m = n

\* The hypotheses of the theorems of GcsProofs: no racer deletes a bucket.
LEMMA Hypotheses == ASSUME DistinctPaths PROVE RaceFacts!Distinct /\ RaceFacts!DropsAlone
<1>1. RaceFacts!Distinct
  BY DEF DistinctPaths, RaceFacts!Distinct, Race!sanitizeObjectPath, RaceFacts!sanitizeObjectPath
<1>2. RaceFacts!DropsAlone
  BY DEF RaceFacts!DropsAlone, Deletes
<1> QED
  BY <1>1, <1>2

\* What the properties are made of.
LEMMA SameCounts ==
  /\ \A S : Race!Cardinality(S) = RaceFacts!Cardinality(S)
  /\ \A S : IsFiniteSet(S) => RaceFacts!IsFiniteSet(S)
  BY DEF Race!Cardinality, RaceFacts!Cardinality, IsFiniteSet, RaceFacts!IsFiniteSet

LEMMA SameProperty == RaceFacts!OwnedBlobBacked => Race!OwnedBlobBacked
  BY SameSets, SamePaths, SameCounts DEF Race!OwnedBlobBacked, RaceFacts!OwnedBlobBacked

\* While any number of clients put and delete objects at once, the names that one of
\* them alone writes keep row and file together (PutObjectBytesMeta, DeleteObject).
THEOREM RacersRowsHaveFiles ==
  ASSUME DistinctPaths, IsFiniteSet(Racer)
  PROVE  MCSpec => []RacersBlobBacked
<1>1. MCInit => RaceFacts!Inv
  BY RaceFacts!InitInv, RaceConstants, Hypotheses, SameInit DEF MCInit
<1>2. RaceFacts!Inv /\ [MCNext]_<<vars, raceVars, racing>> => RaceFacts!Inv'
  <2>1. [MCNext]_<<vars, raceVars, racing>> => [Race!Next]_(Race!vars)
    BY DEF MCNext, raceVars, Race!vars
  <2> QED
    BY <2>1, RaceFacts!NextInv, RaceConstants, Hypotheses, SameNext
<1>3. RaceFacts!Inv => RacersBlobBacked
  BY RaceFacts!InvOwned, RaceConstants, SameProperty, SameCounts DEF RacersBlobBacked
<1> QED
  BY <1>1, <1>2, <1>3, PTL DEF MCSpec

\* Two of them that take one generation of a name do not overwrite each other's row: the
\* INSERT of the second meets the primary key of objects.
THEOREM RacersRowsAreKept == MCSpec => RacersRowsKept
<1>1. MCInit => RaceFacts!Keyed
  BY RaceFacts!InitKeyed, RaceConstants, SameInit DEF MCInit
<1>2. [MCNext]_<<vars, raceVars, racing>> => [RaceFacts!Next]_(RaceFacts!vars)
  BY SameNext DEF MCNext, raceVars, Race!vars
<1>3. RaceFacts!Keyed /\ [MCNext]_<<vars, raceVars, racing>> => RaceFacts!Keyed'
  BY <1>2, RaceFacts!KeyedStep, RaceConstants
<1>4. RaceFacts!Keyed /\ [MCNext]_<<vars, raceVars, racing>>
        => [\A k \in Race!Rows : raceObjects'[k] \in {raceObjects[k], None}]_(Race!vars)
  BY <1>2, RaceFacts!RowsStay, RaceConstants, SameSets DEF Race!vars, RaceFacts!vars
<1> QED
  BY <1>1, <1>3, <1>4, PTL DEF MCSpec, RacersRowsKept, Race!RowsKept
==============================================================================
