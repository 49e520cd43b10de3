----------------------------- MODULE StorageOps -----------------------------
(***************************************************************************)
(* Secrets, buckets, the objects' metadata, HMAC keys and the reads of     *)
(* Firestore (internal/services/secretmanager, gcs, firestore and their    *)
(* files of internal/store).  What several versions, generations or        *)
(* documents make possible is in modules of its own: SecretVersions,       *)
(* GcsObjects and Firestore.                                               *)
(***************************************************************************)
EXTENDS Steps

-----------------------------------------------------------------------------
(* Secret Manager.  The number of a new version is the next; the policy of  *)
(* a secret is filed under its name, and outlives it.                      *)

CreateSecretWithRotation == Insert("secret")
LoadSecret     == Get("secret")
StoredSecrets  == List("secret")
RemoveSecret   == <<Atomic(<<Drop("version"), Take("secret")>>), Must("secret")>>
PatchSecretMeta == <<LoadSecret, Write("secret", [body |-> "merge", policy |-> "merge"])>>
StoreVersion    == <<Exists("secret"), List("version"), Generate("version")>>
\* With no payload, that of the latest version again.
RotateSecretTheatre == <<LoadSecret, Peek("version")>> \o StoreVersion \o <<Write("secret", [policy |-> "merge"])>>
LoadVersion     == Get("version")
ReadVersion ==
  <<LoadVersion, Forbid("version", "state", "DESTROYED"), Forbid("version", "state", "DISABLED")>>
SetSecretVersionState(state) ==
  <<LoadVersion, Forbid("version", "state", "DESTROYED"), Write("version", [state |-> state])>>
StoredVersions  == List("version")
LoadPolicy      == Peek("policy")
PutIAMPolicyJSON == Put("policy")

httpCreateSecret ==
  <<Require("secretmanager.secrets.create"), Gates, Body, CreateSecretWithRotation>>
httpListSecrets  == <<Require("secretmanager.secrets.list"), StoredSecrets>>
httpGetSecret    == <<Require("secretmanager.secrets.get"), LoadSecret>>
httpPatchSecret  == <<Require("secretmanager.secrets.update"), Body>> \o PatchSecretMeta
httpDeleteSecret == <<Require("secretmanager.secrets.delete")>> \o RemoveSecret
httpRotateSecret == <<Require("secretmanager.versions.add"), Body>> \o RotateSecretTheatre
httpGetIamPolicy == <<Require("secretmanager.secrets.getIamPolicy"), Exists("secret"), LoadPolicy>>
httpSetIamPolicy ==
  <<Require("secretmanager.secrets.setIamPolicy"), Exists("secret"), Body, PutIAMPolicyJSON>>
httpTestIamPermissions == <<Body, LoadPolicy>>
httpAddVersion    == <<Require("secretmanager.versions.add"), Body>> \o StoreVersion
httpAccessVersion == <<Require("secretmanager.versions.access")>> \o ReadVersion
httpSetVersionState(state, permission) == <<Require(permission)>> \o SetSecretVersionState(state)
httpEnableVersion  == httpSetVersionState("ENABLED", "secretmanager.versions.enable")
httpDisableVersion == httpSetVersionState("DISABLED", "secretmanager.versions.disable")
httpDestroyVersion == httpSetVersionState("DESTROYED", "secretmanager.versions.destroy")
httpListVersions == <<Require("secretmanager.versions.list"), StoredVersions>>
httpGetVersion   == <<Require("secretmanager.versions.get"), LoadVersion>>

\* The same over gRPC: no gates, and nobody looks whether the secret of a policy is there.
CreateSecret == <<Body, Require("secretmanager.secrets.create"), CreateSecretWithRotation>>
ListSecrets  == <<Body>> \o httpListSecrets
GetSecret    == httpGetSecret
UpdateSecret == httpPatchSecret
DeleteSecret == httpDeleteSecret
GetIamPolicy == <<Require("secretmanager.secrets.getIamPolicy"), LoadPolicy>>
SetIamPolicy == <<Require("secretmanager.secrets.setIamPolicy"), PutIAMPolicyJSON>>
TestIamPermissions == <<LoadPolicy>>
AddSecretVersion   == <<Require("secretmanager.versions.add")>> \o StoreVersion
AccessSecretVersion == <<Body>> \o httpAccessVersion
grpcSetState(state, permission) == <<Body>> \o httpSetVersionState(state, permission)
EnableSecretVersion  == grpcSetState("ENABLED", "secretmanager.versions.enable")
DisableSecretVersion == grpcSetState("DISABLED", "secretmanager.versions.disable")
DestroySecretVersion == grpcSetState("DESTROYED", "secretmanager.versions.destroy")
ListSecretVersions   == httpListVersions

SecretRows   == [secret |-> {}, version |-> {"secret"}, policy |-> {}]
SecretStates == [version |-> {"ENABLED", "DISABLED", "DESTROYED"}]
Secrets ==
  [rows |-> SecretRows, states |-> SecretStates,
   ops  |-> <<httpCreateSecret, httpListSecrets, httpGetSecret, httpPatchSecret, httpDeleteSecret, httpRotateSecret,
             httpGetIamPolicy, httpSetIamPolicy, httpTestIamPermissions, httpAddVersion, httpAccessVersion,
             httpEnableVersion, httpDisableVersion, httpDestroyVersion, httpListVersions, httpGetVersion>>]
SecretsByName ==
  [rows |-> SecretRows, states |-> SecretStates,
   ops  |-> <<CreateSecret, ListSecrets, GetSecret, UpdateSecret, DeleteSecret, GetIamPolicy, SetIamPolicy,
             TestIamPermissions, AddSecretVersion, AccessSecretVersion, EnableSecretVersion, DisableSecretVersion,
             DestroySecretVersion, ListSecretVersions, httpSetIamPolicy>>]

-----------------------------------------------------------------------------
(* Buckets.  The bucket is read before the permission is asked for, and     *)
(* whether it was there is told only to those who have it.  A bucket's     *)
(* metageneration (policy) goes up with its notifications.                 *)

StoreBucket   == Insert("bucket")
StoredBuckets == List("bucket")
\* A lock refuses a shorter retention period, and stays.
PatchBucket == <<Reload("bucket"), Write("bucket", [body |-> "merge", state |-> "back", policy |-> "merge"])>>
PatchRetention ==
  <<Reload("bucket"), Forbid("bucket", "state", "locked"),
    Write("bucket", [body |-> "back", state |-> "locked", policy |-> "merge"])>>
DropBucket == <<Lacks("object"), Drop("notification"), Delete("bucket")>>
bumpBucketMetageneration == Write("bucket", [policy |-> "merge"])
CreateNotificationConfig ==
  <<Reload("bucket"), List("notification"), Generate("notification"), bumpBucketMetageneration>>
GetNotificationConfig    == Get("notification")
ListNotificationConfigs  == List("notification")
DeleteNotificationConfig == <<Get("bucket"), Delete("notification"), bumpBucketMetageneration>>

\* The bucket of a request that has the permission on it, or on its project.
requireStorage(permission) == <<Peek("bucket"), Require(permission), Must("bucket")>>

createBucket == <<Body, Require("storage.buckets.create"), Gates, Body, StoreBucket>> \o PatchBucket
listBuckets  == <<Body, Require("storage.buckets.list"), StoredBuckets>>
getBucket    == requireStorage("storage.buckets.get")
patchBucket  == requireStorage("storage.buckets.update") \o <<Body>> \o PatchBucket
patchBucketRetention == requireStorage("storage.buckets.update") \o <<Body>> \o PatchRetention
deleteBucket == requireStorage("storage.buckets.delete") \o DropBucket
getBucketIAM == requireStorage("storage.buckets.getIamPolicy") \o <<LoadPolicy>>
\* The organization policy may forbid public members.
setBucketIAM == requireStorage("storage.buckets.setIamPolicy") \o <<Body, Body, PutIAMPolicyJSON>>
testBucketIAM == <<Peek("bucket"), LoadPolicy>>

insertNotification == requireStorage("storage.buckets.update") \o <<Body>> \o CreateNotificationConfig
listNotifications  == requireStorage("storage.buckets.get") \o <<ListNotificationConfigs>>
getNotification    == requireStorage("storage.buckets.get") \o <<GetNotificationConfig>>
deleteNotification == requireStorage("storage.buckets.update") \o DeleteNotificationConfig

BucketRows   == [bucket |-> {}, notification |-> {"bucket"}, object |-> {"bucket"}, policy |-> {}]
BucketStates == [bucket |-> {"open", "locked"}]
Buckets ==
  [rows |-> BucketRows, states |-> BucketStates,
   ops  |-> <<createBucket, listBuckets, getBucket, patchBucket, patchBucketRetention, deleteBucket, getBucketIAM,
             setBucketIAM, testBucketIAM, insertNotification, listNotifications, getNotification, deleteNotification>>]

-----------------------------------------------------------------------------
(* Objects, as far as one generation goes, and the XML interface, whose     *)
(* callers sign with an HMAC key.                                          *)

LoadObject == Get("object")
ListObjectsDelimited == List("object")
PatchObjectMetadata  == <<LoadObject, Write("object", [body |-> "merge", policy |-> "merge"])>>
\* The retention period is of the bucket's row, read again, and of the object's.
DeleteObject   == <<LoadObject, Peek("bucket"), Delete("object")>>
PutObjectBytes == <<Exists("bucket"), Peek("object"), Generate("object")>>
CreateHMACKey  == Generate("hmacKey")
GetHMACKey     == Get("hmacKey")
ListHMACKeys   == List("hmacKey")
DeleteHMACKey  == Delete("hmacKey")

listObjects         == requireStorage("storage.objects.list") \o <<ListObjectsDelimited>>
getOrDownloadObject == requireStorage("storage.objects.get") \o <<LoadObject>>
patchObject         == requireStorage("storage.objects.update") \o <<Body>> \o PatchObjectMetadata
deleteObject        == requireStorage("storage.objects.delete") \o DeleteObject
generateSignedURL   == <<Body>> \o requireStorage("storage.objects.get") \o <<Body>>

\* A key deleted after the signature was checked leaves the caller no rights.
requireXMLHMAC == GetHMACKey
authorizeHMACStorage(permission) == <<GetHMACKey, Get("bucket"), Require(permission)>>
xmlListBucket ==
  <<requireXMLHMAC>> \o authorizeHMACStorage("storage.objects.list") \o <<Exists("bucket"), List("object")>>
xmlGetObject ==
  <<requireXMLHMAC>> \o authorizeHMACStorage("storage.objects.get") \o <<Body, LoadObject>>
xmlPutObject ==
  <<requireXMLHMAC>> \o authorizeHMACStorage("storage.objects.create") \o <<Body>> \o PutObjectBytes

createHMACKey == <<Require("storage.hmacKeys.create"), Body, CreateHMACKey>>
listHMACKeys  == <<Require("storage.hmacKeys.list"), ListHMACKeys>>
getHMACKey    == <<Require("storage.hmacKeys.get"), GetHMACKey>>
deleteHMACKey == <<Require("storage.hmacKeys.delete"), DeleteHMACKey>>

Objects ==
  [rows |-> [bucket |-> {}, notification |-> {"bucket"}, object |-> {"bucket"}, hmacKey |-> {}],
   ops  |-> <<deleteBucket, listObjects, getOrDownloadObject, patchObject, deleteObject, generateSignedURL,
             xmlListBucket, xmlGetObject, xmlPutObject, createHMACKey, listHMACKeys, getHMACKey, deleteHMACKey>>]

-----------------------------------------------------------------------------
(* Firestore.  The REST interface puts one document; the writes of the gRPC *)
(* one are in module Firestore.  requirePermissions asks the gates first.  *)

require(permission) == <<Gates, Require(permission)>>
GetFirestoreDoc     == Get("document")
ListFirestoreDocs   == List("document")
BatchGetFirestoreDocs == Peek("document")
DeleteFirestoreDoc  == Delete("document")
\* On a conflict the time it was created at stays.
PutFirestoreDoc     == Atomic(<<Ensure("document"), Write("document", [body |-> "own"])>>)

\* The owner of a document needs no permission.
authorizeOwnerOrIAM(permission) == Require(permission)
GetDocument       == <<Body, authorizeOwnerOrIAM("datastore.entities.get"), GetFirestoreDoc>>
ListDocuments     == <<Body>> \o require("datastore.entities.list") \o <<ListFirestoreDocs>>
BatchGetDocuments == <<Body>> \o require("datastore.entities.get") \o <<Body, BatchGetFirestoreDocs>>
RunQuery          == <<Body>> \o require("datastore.entities.list") \o <<Body, ListFirestoreDocs, Body>>
PartitionQuery    == <<Body>> \o require("datastore.entities.list") \o <<Body>>
DeleteDocument    == <<Body>> \o require("datastore.entities.delete") \o <<DeleteFirestoreDoc>>
restCreateDocument ==
  <<Body, authorizeOwnerOrIAM("datastore.entities.create"), Body, Lacks("document"), PutFirestoreDoc>>
restGetDocument == <<Body, authorizeOwnerOrIAM("datastore.entities.get"), GetFirestoreDoc>>
restPatchDocument ==
  <<Body, authorizeOwnerOrIAM("datastore.entities.update"), Body, Peek("document"), PutFirestoreDoc>>

Documents ==
  [rows |-> [document |-> {}],
   ops  |-> <<GetDocument, ListDocuments, BatchGetDocuments, RunQuery, PartitionQuery, DeleteDocument,
             restCreateDocument, restGetDocument, restPatchDocument>>]
=============================================================================
