----------------------------- MODULE VersionStore -----------------------------
(***************************************************************************)
(* What Cloud Storage promises of object bytes: a map from bucket, name    *)
(* and generation to content, in which each write adds one version.        *)
(***************************************************************************)
EXTENDS Integers, Sequences

CONSTANTS Bucket, Name, Chunk, None, MaxGen, MaxSize

VARIABLE store   \* <<bucket, name, generation>> -> bytes, or None

Version == Bucket \X Name \X (1..MaxGen)
Bytes   == UNION {[1..n -> Chunk] : n \in 0..MaxSize}

Init == store = [k \in Version |-> None]

\* A write adds a version above every version of its name.
Put(k, d) ==
  /\ \A g \in 1..MaxGen : store[<<k[1], k[2], g>>] # None => g < k[3]
  /\ store' = [store EXCEPT ![k] = d]

Delete(k) ==
  /\ store[k] # None
  /\ store' = [store EXCEPT ![k] = None]

Next == \E k \in Version : Delete(k) \/ \E d \in Bytes : Put(k, d)

Spec == Init /\ [][Next]_store
=============================================================================
