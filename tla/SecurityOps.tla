---------------------------- MODULE SecurityOps ----------------------------
(***************************************************************************)
(* Cloud KMS, Binary Authorization, Container Analysis, Security Command   *)
(* Center, Access Context Manager, Organization Policy and Service Usage   *)
(* (internal/services/<service> and internal/store/kms.go, lab_extras.go,  *)
(* securitycenter.go, accesscontextmanager.go, orgpolicy.go, identity.go). *)
(***************************************************************************)
EXTENDS Steps

-----------------------------------------------------------------------------
(* Cloud KMS.  A key is made with its first version; nothing deletes a     *)
(* ring, a key or a version, which is only marked.                         *)

CreateKMSKeyRing     == Insert("ring")
GetKMSKeyRing        == Get("ring")
ListKMSKeyRings      == List("ring")
CreateKMSCryptoKey   == Atomic(<<Insert("key"), InsertAs("version", [state |-> "ENABLED"])>>)
GetKMSCryptoKey      == Get("key")
ListKMSCryptoKeys    == List("key")
UpdateKMSCryptoKey(labels) == <<Write("key", [body |-> labels]), Get("key")>>
GetKMSKeyVersion     == Get("version")
PrimaryKMSKeyVersion == Peek("version")
DestroyKMSKeyVersion ==
  <<Get("version"), Unless("version", "state", "DESTROYED"), Write("version", [state |-> "DESTROYED"])>>
RestoreKMSKeyVersion ==
  <<Get("version"), Unless("version", "state", "ENABLED"), Write("version", [state |-> "ENABLED"])>>
ListKMSKeyVersions   == List("version")

createKeyRing == <<Require("cloudkms.keyRings.create"), Gates, Body, CreateKMSKeyRing>>
getKeyRing    == <<Require("cloudkms.keyRings.get"), GetKMSKeyRing>>
listKeyRings  == <<Require("cloudkms.keyRings.list"), ListKMSKeyRings>>
createCryptoKey == <<Require("cloudkms.cryptoKeys.create"), Body, GetKMSKeyRing, CreateKMSCryptoKey>>
getCryptoKey ==
  <<RequireEither("cloudkms.cryptoKeys.get", "on the key"), GetKMSCryptoKey, PrimaryKMSKeyVersion>>
\* A request without labels writes those it read.
updateCryptoKey(labels) ==
  <<Require("cloudkms.cryptoKeys.update"), GetKMSCryptoKey>> \o UpdateKMSCryptoKey(labels)
  \o <<PrimaryKMSKeyVersion>>
listCryptoKeys == <<Require("cloudkms.cryptoKeys.list"), ListKMSCryptoKeys>>
kmsGetIamPolicy == <<Require("cloudkms.cryptoKeys.getIamPolicy"), GetKMSCryptoKey, Peek("iamPolicy")>>
kmsSetIamPolicy == <<Require("cloudkms.cryptoKeys.setIamPolicy"), GetKMSCryptoKey, Body, Put("iamPolicy")>>

\* The uses of a version: refused when it is destroyed; the last check is that the
\* text decrypts.
UsableVersion == <<GetKMSKeyVersion, Forbid("version", "state", "DESTROYED")>>
encrypt == <<RequireEither("cloudkms.cryptoKeyVersions.useToEncrypt", "on the key"), GetKMSCryptoKey, Body>>
           \o UsableVersion
decrypt == <<RequireEither("cloudkms.cryptoKeyVersions.useToDecrypt", "on the key"), Gates, GetKMSCryptoKey, Body>>
           \o UsableVersion \o <<Body>>
getPublicKey == <<RequireEither("cloudkms.cryptoKeyVersions.viewPublicKey", "on the key"), GetKMSCryptoKey, Body>>
                \o UsableVersion
asymmetricSign == <<RequireEither("cloudkms.cryptoKeyVersions.useToSign", "on the key"), GetKMSCryptoKey, Body>>
                  \o UsableVersion
destroyVersion  == <<Require("cloudkms.cryptoKeyVersions.destroy")>> \o DestroyKMSKeyVersion
restoreVersion  == <<Require("cloudkms.cryptoKeyVersions.restore")>> \o RestoreKMSKeyVersion
listKeyVersions == <<Require("cloudkms.cryptoKeyVersions.list"), GetKMSCryptoKey, ListKMSKeyVersions>>
getKeyVersion   == <<Require("cloudkms.cryptoKeyVersions.get"), GetKMSKeyVersion>>

KmsTables == [ring |-> {}, key |-> {"ring"}, version |-> {"key"}, iamPolicy |-> {}]
KmsKeys ==
  [rows |-> KmsTables, states |-> [version |-> {"ENABLED", "DESTROYED"}],
   ops  |-> <<createKeyRing, getKeyRing, listKeyRings, createCryptoKey, getCryptoKey, updateCryptoKey("own"),
             updateCryptoKey("back"), listCryptoKeys, kmsGetIamPolicy, kmsSetIamPolicy>>]
KmsVersions ==
  [rows |-> KmsTables, states |-> [version |-> {"ENABLED", "DESTROYED"}],
   ops  |-> <<createCryptoKey, encrypt, decrypt, getPublicKey, asymmetricSign, destroyVersion, restoreVersion,
             listKeyVersions, getKeyVersion>>]

-----------------------------------------------------------------------------
(* Binary Authorization and Container Analysis.                            *)

GetBinaryAuthzPolicy     == Peek("authzPolicy")
PutBinaryAuthzPolicy     == Put("authzPolicy")
PutContainerOccurrence   == Put("occurrence")
GetContainerOccurrence   == Get("occurrence")
ListContainerOccurrences == List("occurrence")

authzGetPolicy == <<Require("binaryauthorization.policy.get"), GetBinaryAuthzPolicy>>
updatePolicy   == <<Require("binaryauthorization.policy.update"), Gates, Body, PutBinaryAuthzPolicy>>
filteredOccurrences == <<Body, ListContainerOccurrences>>
listOccurrences == <<Require("containeranalysis.occurrences.list"), Body>> \o filteredOccurrences
getOccurrence   == <<Require("containeranalysis.occurrences.get"), GetContainerOccurrence>>
createOccurrence ==
  <<Require("containeranalysis.occurrences.create"), Gates, Body, Require("containeranalysis.notes.attachOccurrence"),
    PutContainerOccurrence, Reload("occurrence")>>
vulnerabilitySummary == <<Require("containeranalysis.occurrences.list")>> \o filteredOccurrences

Attestation ==
  [rows |-> [authzPolicy |-> {}, occurrence |-> {}],
   ops  |-> <<authzGetPolicy, updatePolicy, listOccurrences, getOccurrence, createOccurrence, vulnerabilitySummary>>]

-----------------------------------------------------------------------------
(* Security Command Center.  A source goes in two statements, its findings *)
(* first.                                                                  *)

CreateSCCSource  == Insert("source")
GetSCCSource     == Get("source")
ListSCCSources   == List("source")
DeleteSCCSource  == <<Drop("finding"), Delete("source")>>
CreateSCCFinding == Insert("finding")
GetSCCFinding    == Get("finding")
ListSCCFindings  == List("finding")
UpdateSCCFindingState == <<Change("finding", [state |-> "own"]), Get("finding")>>
DeleteSCCFinding == Delete("finding")

listSources  == <<Require("securitycenter.sources.list"), ListSCCSources>>
createSource == <<Require("securitycenter.sources.create"), Gates, Body, CreateSCCSource, Reload("source")>>
getSource    == <<Require("securitycenter.sources.get"), GetSCCSource>>
deleteSource == <<Require("securitycenter.sources.delete")>> \o DeleteSCCSource
listFindings == <<Require("securitycenter.findings.list"), GetSCCSource, ListSCCFindings>>
createFinding ==
  <<Require("securitycenter.findings.create"), Gates, Body, GetSCCSource, Body, CreateSCCFinding, Reload("finding")>>
getFinding      == <<Require("securitycenter.findings.get"), GetSCCFinding>>
deleteFinding   == <<Require("securitycenter.findings.delete"), DeleteSCCFinding>>
setFindingState == <<Require("securitycenter.findings.setState"), Body>> \o UpdateSCCFindingState
\* The lab's own way in: makes the source it needs, then replaces each finding, and
\* only then looks at what the findings are.
injectFindings ==
  <<Body, Require("securitycenter.findings.create"), Peek("source"),
    IfMissing("source", Require("securitycenter.sources.create")), IfMissing("source", Ensure("source")),
    Later, TryInsert("finding"), IfFound("finding", Drop("finding")), IfFound("finding", Ensure("finding"))>>

SecurityCenter ==
  [rows |-> [source |-> {}, finding |-> {"source"}],
   ops  |-> <<listSources, createSource, getSource, deleteSource, listFindings, createFinding, getFinding,
             deleteFinding, setFindingState, injectFindings>>]

-----------------------------------------------------------------------------
(* Access Context Manager.  The policy is read before the caller is asked  *)
(* for, since the permission is one on the policy's parent.                *)

CreateAccessPolicy  == Insert("policy")
GetAccessPolicy     == Get("policy")
ListAccessPolicies  == List("policy")
UpdateAccessPolicy  == <<Get("policy"), Write("policy", [body |-> "merge"])>>
DeleteAccessPolicy  == <<Peek("policy"), Drop("perimeter"), Drop("policy")>>
CreateServicePerimeter == Insert("perimeter")
GetServicePerimeter    == Get("perimeter")
ListServicePerimeters  == List("perimeter")
UpdateServicePerimeter == <<Get("perimeter"), Write("perimeter", [body |-> "merge"])>>
DeleteServicePerimeter == Delete("perimeter")

acmCreatePolicy == <<Body, Require("accesscontextmanager.policies.create"), Body, CreateAccessPolicy, Reload("policy")>>
acmListPolicies == <<Body, Require("accesscontextmanager.policies.list"), ListAccessPolicies>>
acmGetPolicy    == <<GetAccessPolicy, Require("accesscontextmanager.policies.get")>>
acmPatchPolicy  == <<GetAccessPolicy, Require("accesscontextmanager.policies.update"), Body>> \o UpdateAccessPolicy
acmDeletePolicy == <<GetAccessPolicy, Require("accesscontextmanager.policies.delete")>> \o DeleteAccessPolicy
createPerimeter ==
  <<GetAccessPolicy, Require("accesscontextmanager.servicePerimeters.create"), Body, CreateServicePerimeter,
    Reload("perimeter")>>
listPerimeters  == <<GetAccessPolicy, Require("accesscontextmanager.servicePerimeters.list"), ListServicePerimeters>>
getPerimeter    == <<GetAccessPolicy, Require("accesscontextmanager.servicePerimeters.get"), GetServicePerimeter>>
patchPerimeter  ==
  <<GetAccessPolicy, Require("accesscontextmanager.servicePerimeters.update"), GetServicePerimeter, Body>>
  \o UpdateServicePerimeter
deletePerimeter ==
  <<GetAccessPolicy, Require("accesscontextmanager.servicePerimeters.delete"), DeleteServicePerimeter>>

AccessContext ==
  [rows |-> [policy |-> {}, perimeter |-> {"policy"}],
   ops  |-> <<acmCreatePolicy, acmListPolicies, acmGetPolicy, acmPatchPolicy, acmDeletePolicy, createPerimeter,
             listPerimeters, getPerimeter, patchPerimeter, deletePerimeter>>]

-----------------------------------------------------------------------------
(* Organization Policy and Service Usage.  getEffectivePolicy is a form of *)
(* getPolicy, whose permission it has passed.                              *)

SetOrgPolicy    == Put("orgPolicy")
GetOrgPolicy    == Get("orgPolicy")
ListOrgPolicies == List("orgPolicy")
DeleteOrgPolicy == Delete("orgPolicy")
IsOrgPolicyConstraintEnforced == Peek("orgPolicy")

listPolicies  == <<Require("orgpolicy.policies.list"), ListOrgPolicies>>
getPolicy     == <<Require("orgpolicy.policies.get"), Body, GetOrgPolicy>>
getEffectivePolicy == <<Require("orgpolicy.policies.get"), IsOrgPolicyConstraintEnforced>>
createPolicy  == <<Require("orgpolicy.policies.create"), Body, Lacks("orgPolicy"), Body, SetOrgPolicy>>
patchPolicy   == <<Require("orgpolicy.policies.update"), Body, SetOrgPolicy>>
deletePolicy  == <<Require("orgpolicy.policies.delete"), DeleteOrgPolicy>>
listConstraints == <<Require("orgpolicy.constraints.list")>>

ListServiceUsage      == List("usage")
GetServiceUsage       == Peek("usage")
SetServiceUsageState  == Put("usage")
BatchEnableServiceUsage  == Atomic(<<Put("usage"), Put("usage2")>>)
BatchDisableServiceUsage == Atomic(<<Put("usage"), Put("usage2")>>)
BatchGetServiceUsage  == <<Body, Peek("usage"), Peek("usage2")>>

listServices  == <<Require("serviceusage.services.list"), Body, ListServiceUsage>>
getService    == <<Body, Require("serviceusage.services.get"), GetServiceUsage>>
serviceAction == <<Body, Require("serviceusage.services.enable"), SetServiceUsageState>>
batchEnable   == <<Require("serviceusage.services.enable"), Body, BatchEnableServiceUsage>>
batchDisable  == <<Require("serviceusage.services.disable"), Body, BatchDisableServiceUsage>>
batchGet      == <<Require("serviceusage.services.get"), Body>> \o BatchGetServiceUsage

Governance ==
  [rows |-> [orgPolicy |-> {}, usage |-> {}, usage2 |-> {}],
   ops  |-> <<listPolicies, getPolicy, getEffectivePolicy, createPolicy, patchPolicy, deletePolicy, listConstraints,
             listServices, getService, serviceAction, batchEnable, batchDisable, batchGet>>]
=============================================================================
