------------------------------ MODULE IamOps ------------------------------
(***************************************************************************)
(* IAM: service accounts and their keys, custom roles, workload identity   *)
(* pools and the tokens given for them (internal/services/iam,             *)
(* internal/store/identity.go, iam_roles.go, wif.go), and the users and    *)
(* tenants of Identity Toolkit (internal/services/firebaseauth).           *)
(***************************************************************************)
EXTENDS Steps

-----------------------------------------------------------------------------
(* Service accounts.  A delete marks the account and keeps its keys; every *)
(* query but undelete's looks for accounts that are not marked.            *)

Gone == "DELETED"
Live == "LIVE"

CreateServiceAccount == InsertAs("account", [state |-> Live])
GetServiceAccount    == GetUnless("account", Gone)
GetServiceAccountInProject        == GetUnless("account", Gone)
GetDeletedServiceAccountInProject == GetUnless("account", Live)
ListServiceAccounts  == List("account")
SetServiceAccountDisabled(flag) ==
  <<ChangeUnless("account", Gone, [disabled |-> flag]), AgainUnless("account", Gone)>>
UpdateServiceAccountDisplayName ==
  <<ChangeUnless("account", Gone, [body |-> "own"]), AgainUnless("account", Gone)>>
DeleteServiceAccount   == ChangeUnless("account", Gone, [state |-> Gone])
UndeleteServiceAccount ==
  <<ChangeUnless("account", Live, [state |-> Live]), AgainUnless("account", Gone)>>
CreateServiceAccountKey == Generate("key")
GetServiceAccountKey    == Get("key")
ListServiceAccountKeysPage == List("key")
DeleteServiceAccountKey == Delete("key")
PutAccessToken          == Generate("token")

createServiceAccount == <<Require("iam.serviceAccounts.create"), Gates, Body, CreateServiceAccount>>
listServiceAccounts  == <<Require("iam.serviceAccounts.list"), ListServiceAccounts>>
getServiceAccount    == <<Body, Require("iam.serviceAccounts.get"), GetServiceAccountInProject>>
patchServiceAccount  ==
  <<Body, Require("iam.serviceAccounts.update"), GetServiceAccountInProject, Body>> \o UpdateServiceAccountDisplayName
deleteServiceAccount == <<Require("iam.serviceAccounts.delete"), GetServiceAccountInProject, DeleteServiceAccount>>
undeleteServiceAccount ==
  <<Body, Require("iam.serviceAccounts.undelete"), GetDeletedServiceAccountInProject>> \o UndeleteServiceAccount
\* The other methods find the account before they ask for the permission.
serviceAccountPost(permission) == <<Body, GetServiceAccountInProject, Require(permission)>>
enable              == serviceAccountPost("iam.serviceAccounts.enable") \o SetServiceAccountDisabled("no")
disable             == serviceAccountPost("iam.serviceAccounts.disable") \o SetServiceAccountDisabled("yes")
checkVPCSCCredentials == Gates
signBlob            == serviceAccountPost("iam.serviceAccounts.signBlob") \o <<checkVPCSCCredentials, Body>>
signJwt             == serviceAccountPost("iam.serviceAccounts.signJwt") \o <<checkVPCSCCredentials, Body>>
generateAccessToken ==
  serviceAccountPost("iam.serviceAccounts.getAccessToken")
  \o <<checkVPCSCCredentials, Forbid("account", "disabled", "yes"), Body, PutAccessToken>>
saGetIamPolicy      == serviceAccountPost("iam.serviceAccounts.getIamPolicy") \o <<Peek("iamPolicy")>>
saSetIamPolicy      == serviceAccountPost("iam.serviceAccounts.setIamPolicy") \o <<Body, Put("iamPolicy")>>

createKey ==
  <<Require("iam.serviceAccountKeys.create"), Body, GetServiceAccountInProject, CreateServiceAccountKey>>
listKeys  == <<Require("iam.serviceAccountKeys.list"), GetServiceAccountInProject, Body, ListServiceAccountKeysPage>>
getKey    == <<Require("iam.serviceAccountKeys.get"), GetServiceAccountInProject, GetServiceAccountKey>>
deleteKey == <<Require("iam.serviceAccountKeys.delete"), GetServiceAccountInProject, DeleteServiceAccountKey>>

\* A token for an assertion signed with one of the account's keys.
verifySAJWTBearer   == <<Body, GetServiceAccount, Peek("key"), Body>>
oauthJWTBearerToken ==
  <<Body>> \o verifySAJWTBearer \o <<GetServiceAccount, Forbid("account", "disabled", "yes"), PutAccessToken>>

AccountTables == [account |-> {}, key |-> {"account"}, token |-> {}, iamPolicy |-> {}]
ServiceAccounts ==
  [rows |-> AccountTables, states |-> [account |-> {Live, Gone}],
   ops  |-> <<createServiceAccount, listServiceAccounts, getServiceAccount, patchServiceAccount, deleteServiceAccount,
             undeleteServiceAccount, disable, enable, signBlob, signJwt, generateAccessToken,
             saGetIamPolicy, saSetIamPolicy>>]
ServiceAccountKeys ==
  [rows |-> AccountTables, states |-> [account |-> {Live, Gone}],
   ops  |-> <<deleteServiceAccount, undeleteServiceAccount, disable, createKey, listKeys, getKey, deleteKey,
             oauthJWTBearerToken>>]

-----------------------------------------------------------------------------
(* Custom roles, deleted by a mark.                                        *)

CreateCustomRole == InsertAs("role", [state |-> Live])
GetCustomRole    == Get("role")
ListCustomRoles  == List("role")
UpdateCustomRole ==
  <<Get("role"), Hidden("role", "state", Gone), ChangeUnless("role", Gone, [body |-> "merge"])>>
DeleteCustomRole ==
  <<Get("role"), Hidden("role", "state", Gone), ChangeUnless("role", Gone, [state |-> Gone])>>
\* Of a role found deleted; one that is not any more does not exist, it says.
UndeleteCustomRole ==
  <<Atomic(<<AgainUnless("role", Live), Write("role", [state |-> Live])>>), Again("role")>>

createRole == <<Require("iam.roles.create"), Body, CreateCustomRole>>
listRoles  == <<Require("iam.roles.list"), ListCustomRoles>>
getRole    == <<Body, Require("iam.roles.get"), GetCustomRole>>
patchRole  == <<Require("iam.roles.update"), Body>> \o UpdateCustomRole
deleteRole == <<Require("iam.roles.delete")>> \o DeleteCustomRole
undeleteRole ==
  <<Body, Require("iam.roles.undelete"), GetCustomRole, Forbid("role", "state", Live)>> \o UndeleteCustomRole

Roles ==
  [rows |-> [role |-> {}], states |-> [role |-> {Live, Gone}],
   ops  |-> <<createRole, listRoles, getRole, patchRole, deleteRole, undeleteRole>>]

-----------------------------------------------------------------------------
(* Workload identity pools and providers, deleted by a mark, never undone. *)

CreateWIFPool   == InsertAs("pool", [state |-> Live])
GetWIFPool      == Get("pool")
ListWIFPools    == List("pool")

\* Mutant: the state is read before the update.
DeleteWIFPoolReadFirst ==
  <<Get("pool"), Hidden("pool", "state", Gone), Write("pool", [state |-> Gone]), GetWIFPool>>

DeleteWIFPool   == <<ChangeUnless("pool", Gone, [state |-> Gone]), GetWIFPool>>
CreateWIFProvider ==
  <<GetWIFPool, Hidden("pool", "state", Gone), InsertAs("provider", [state |-> Live])>>
GetWIFProvider  == Get("provider")
ListWIFProviders == List("provider")
DeleteWIFProvider == <<ChangeUnless("provider", Gone, [state |-> Gone]), GetWIFProvider>>
UpdateWIFProvider ==
  <<GetWIFProvider, Hidden("provider", "state", Gone), ChangeUnless("provider", Gone, [body |-> "merge"]),
    GetWIFProvider>>

createWIFPool  == <<Require("iam.workloadIdentityPools.create"), Body, CreateWIFPool>>
listWIFPools   == <<Require("iam.workloadIdentityPools.list"), ListWIFPools>>
getWIFPool     == <<Require("iam.workloadIdentityPools.get"), GetWIFPool>>
deleteWIFPool  == <<Require("iam.workloadIdentityPools.delete")>> \o DeleteWIFPool
createWIFProvider == <<Require("iam.workloadIdentityPoolProviders.create"), Body>> \o CreateWIFProvider
patchWIFProvider  == <<Require("iam.workloadIdentityPoolProviders.update"), Body>> \o UpdateWIFProvider
listWIFProviders  == <<Require("iam.workloadIdentityPoolProviders.list"), ListWIFProviders>>
getWIFProvider    == <<Require("iam.workloadIdentityPoolProviders.get"), GetWIFProvider>>
deleteWIFProvider == <<Require("iam.workloadIdentityPoolProviders.delete")>> \o DeleteWIFProvider
\* The exchange of a subject token, the provider's and its pool's state read apart.
stsToken ==
  <<Body, GetWIFProvider, Hidden("provider", "state", Gone), GetWIFPool, Hidden("pool", "state", Gone), Body,
    PutAccessToken>>

WorkloadIdentity ==
  [rows |-> [pool |-> {}, provider |-> {"pool"}, token |-> {}],
   states |-> [pool |-> {Live, Gone}, provider |-> {Live, Gone}],
   ops  |-> <<createWIFPool, listWIFPools, getWIFPool, deleteWIFPool, createWIFProvider, patchWIFProvider,
             listWIFProviders, getWIFProvider, deleteWIFProvider, stsToken>>]

-----------------------------------------------------------------------------
(* Identity Toolkit.  A user's row is read, changed and written back as a  *)
(* whole: "body" stands for the name and the claims, "state" for the       *)
(* password.                                                               *)

CreateFirebaseUser       == Insert("user")
GetFirebaseUserByEmail   == Get("user")
GetFirebaseUserByLocalID == Get("user")
ListFirebaseUsersPage    == List("user")
UpdateFirebaseUser(changed) ==
  Write("user", [c \in {"body", "state", "disabled"} |-> IF c \in changed THEN "merge" ELSE "back"])
DeleteFirebaseUser       == Delete("user")
Used == "used"
CreateFirebaseOOBCode    == Generate("code")
GetFirebaseOOBCode       == Get("code")
\* Found unused and not too old, then UPDATE ... WHERE used = 0.
ConsumeFirebaseOOBCode   ==
  <<GetFirebaseOOBCode, Hidden("code", "state", Used), Body, ChangeUnless("code", Used, [state |-> Used])>>
CreateIdentityTenant     == Insert("tenant")
GetIdentityTenant        == Get("tenant")
ListIdentityTenants      == List("tenant")
PatchIdentityTenant      == <<GetIdentityTenant, Write("tenant", [body |-> "merge"])>>

signUp(tenant) ==
  <<Body>> \o (IF tenant THEN <<GetIdentityTenant, Body>> ELSE <<>>) \o <<CreateFirebaseUser>>
signIn == <<Body, GetFirebaseUserByEmail, Body>>
lookup == <<Body, RequireEither("firebaseauth.users.get", "firebaseauth.users.list"), Peek("user")>>
sendOobCode   == <<Body, GetFirebaseUserByEmail, CreateFirebaseOOBCode>>
\* The code is used up before the user is looked for.
resetPassword == <<Body>> \o ConsumeFirebaseOOBCode \o <<GetFirebaseUserByLocalID, UpdateFirebaseUser({"state"})>>
requireClientIDToken == Body
deleteAccount == <<Body, requireClientIDToken, DeleteFirebaseUser>>
updateAccount ==
  <<Body, requireClientIDToken, GetFirebaseUserByLocalID, UpdateFirebaseUser({"body", "state", "disabled"})>>
\* A user that another request made meanwhile is no answer: the handler goes on with
\* no user at all and panics.
signInCustomToken == <<Body, Peek("user"), IfMissing("user", Claim("user"))>>

adminCreate == <<Require("firebaseauth.users.create"), Body, CreateFirebaseUser>>
adminList   == <<Require("firebaseauth.users.list"), ListFirebaseUsersPage>>
adminGet    == <<Require("firebaseauth.users.get"), GetFirebaseUserByLocalID>>
adminPatch  ==
  <<Require("firebaseauth.users.update"), GetFirebaseUserByLocalID, Body, UpdateFirebaseUser({"body", "disabled"})>>
adminDelete == <<Require("firebaseauth.users.delete"), GetFirebaseUserByLocalID, Drop("user")>>
createCustomToken   == <<Require("firebaseauth.users.create"), Body>>
setCustomUserClaims ==
  <<Require("firebaseauth.users.update"), Body, GetFirebaseUserByLocalID, UpdateFirebaseUser({"body"})>>
verifyIdToken == <<Require("firebaseauth.users.get"), Body, GetFirebaseUserByLocalID, Body>>
createTenant  == <<Require("identitytoolkit.tenants.create"), CreateIdentityTenant>>
listTenants   == <<Require("identitytoolkit.tenants.list"), ListIdentityTenants>>
getTenant     == <<Require("identitytoolkit.tenants.get"), GetIdentityTenant>>
patchTenant   == <<Require("identitytoolkit.tenants.update")>> \o PatchIdentityTenant

Users ==
  [rows |-> [user |-> {}, code |-> {}, tenant |-> {}], states |-> [code |-> {"fresh", Used}],
   ops  |-> <<signUp(TRUE), signIn, lookup, sendOobCode, resetPassword, deleteAccount, updateAccount,
             signInCustomToken, verifyIdToken, adminPatch, adminDelete>>]
UserAdministration ==
  [rows |-> [user |-> {}, tenant |-> {}],
   ops  |-> <<signUp(FALSE), deleteAccount, adminCreate, adminList, adminGet, adminPatch, adminDelete,
             createCustomToken, setCustomUserClaims, createTenant, listTenants, getTenant, patchTenant>>]
=============================================================================
