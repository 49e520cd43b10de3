----------------------------- MODULE MCGcsObjects -----------------------------
(***************************************************************************)
(* Instances of GcsObjects for TLC: either one client makes every kind of  *)
(* request (the variables of GcsObjects), or two race to write and delete  *)
(* (a copy of them).  What is not at work stays as it started.             *)
(***************************************************************************)
EXTENDS GcsObjects

CONSTANTS
  Racer,      \* the request goroutines that race
  RaceName,   \* the object names they write
  RaceOwned,  \* RaceOwned[h]: those the clients of h write
  RaceGen     \* bound: generations of one of them

ASSUME RaceAssumption ==
  /\ RaceName \subseteq Seq(STRING) /\ RaceOwned \in [Racer -> SUBSET RaceName]
  /\ RaceGen \in Nat \ {0}

VARIABLES raceBuckets, raceObjects, raceBlobs, raceSessions, raceReg, raceClock, racing

raceVars == <<raceBuckets, raceObjects, raceBlobs, raceSessions, raceReg, raceClock>>

\* Names whose paths differ.
Single == {<<"a">>}
Pair   == {<<"a">>, <<"b">>}

\* One client writes every name; of two, one alone writes "a" and both write "b".
AnyName == [h \in Handler |-> Name]
OwnName == LET owner == CHOOSE h \in Racer : TRUE
           IN  [h \in Racer |-> IF h = owner THEN Pair ELSE {<<"b">>}]

\* Kinds of request.
Everything == {"put", "compose", "upload", "delete", "get", "bucket", "drop", "patch"}
Deletes  == {"put", "delete", "bucket"}

Race == INSTANCE GcsObjects WITH
  Handler <- Racer, Name <- RaceName, Owned <- RaceOwned, Offered <- Deletes, MaxGen <- RaceGen, MaxClock <- 0,
  buckets <- raceBuckets, objects <- raceObjects, blobs <- raceBlobs, sessions <- raceSessions, reg <- raceReg,
  clock <- raceClock

MCInit == Init /\ Race!Init /\ racing \in BOOLEAN
MCNext ==
  /\ \/ ~racing /\ Next /\ UNCHANGED raceVars
     \/ racing /\ Race!Next /\ UNCHANGED vars
  /\ UNCHANGED racing
MCSpec == MCInit /\ [][MCNext]_<<vars, raceVars, racing>>

\* While others race, the names that one handler alone writes keep row and file
\* together: no request touches the file of an object of another name.
RacersBlobBacked == Race!OwnedBlobBacked

\* Two writes of one name that take the same generation do not overwrite each
\* other's row: a version keeps what it recorded until it is deleted.
RacersRowsKept == Race!RowsKept
=============================================================================
