---------------------------- MODULE ServerlessOps ----------------------------
(***************************************************************************)
(* Cloud Run, with its Knative API, Cloud Functions, App Engine and GKE    *)
(* (internal/services/cloudrun, cloudfunctions, appengine and gke,         *)
(* internal/store/serverless.go, appengine_crm.go and gke_lb_cdn.go).      *)
(***************************************************************************)
EXTENDS Steps

-----------------------------------------------------------------------------
(* Cloud Run.  In the row of a service "body" is the template, "policy"    *)
(* the traffic and "state" the nested container.  The revisions of a       *)
(* service are one row here.  An update names its revision by the          *)
(* generation it read, and so clashes with an update that was made since,  *)
(* whose revision has that name: its INSERT fails, and nothing is written. *)

CreateRunService == Atomic(<<Insert("service"), Ensure("revision")>>)
GetRunService    == Get("service")
ListRunServices  == List("service")
UpdateRunService ==
  <<Get("service"), Atomic(<<Same("service", "body"), Write("service", [body |-> "merge", policy |-> "own"]),
                             Ensure("revision")>>)>>
SetRunServiceTraffic   == <<Get("service"), Write("service", [policy |-> "own"])>>
RecordRunInvoke        == Write("service", <<>>)       \* a column nothing else writes
DeleteRunService       == Atomic(<<Drop("revision"), Delete("service")>>)
ListRunRevisions           == List("revision")
ListRunRevisionsByProject  == List("revision")
GetRunRevisionByShortName  == Get("revision")
DeleteRunRevision          == Delete("revision")
CreateRunJob == Insert("job")
GetRunJob    == Get("job")
ListRunJobs  == List("job")
UpdateRunJob == <<Get("job"), Write("job", [body |-> "merge"])>>
DeleteRunJob == Delete("job")

admitTemplate == Require("BinaryAuthzAllows")           \* asks for the image's policy

\* The nested container of the new template is started and written to the row, or
\* what was there is cleared.  The row may be gone by then, and a container that did
\* not start may have to fail the request: a create is then taken back, by name, and
\* an update stays.
reconcileNested(create) ==
  IF create THEN <<WriteOr("service", [state |-> "own"], DeleteRunService), Fallible("engine", DeleteRunService)>>
  ELSE <<Revise("service", [state |-> "own"]), Later>>

createService ==
  <<Require("run.services.create"), Gates, Body, ActAs, admitTemplate, CreateRunService, Reload("service")>>
  \o reconcileNested(TRUE)
getOrInvoke    == <<Require("run.services.get"), GetRunService>>
listServices   == <<Require("run.services.list"), ListRunServices>>
patchService(traffic) ==
  <<Require("run.services.update")>>
  \o (IF traffic THEN SetRunServiceTraffic
      ELSE <<ActAs, admitTemplate>> \o UpdateRunService \o reconcileNested(FALSE))
deleteServiceAndNested == <<GetRunService, DeleteRunService>>
deleteService  == <<Require("run.services.delete")>> \o deleteServiceAndNested
listRevisions  == <<Require("run.services.get"), GetRunService, ListRunRevisions>>
getIamPolicy   == <<Require("run.services.getIamPolicy"), GetRunService, Peek("policy")>>
setIamPolicy   == <<Require("run.services.setIamPolicy"), GetRunService, Body, Put("policy")>>
invoke         == <<RequireEither("run.routes.invoke", "on the project"), GetRunService, RecordRunInvoke>>
handleRunProxy == <<RequireEither("run.routes.invoke", "allUsers"), GetRunService>>

createJob ==
  <<Require("run.jobs.create"), Gates, Body, ActAs, admitTemplate, CreateRunJob, Peek("job")>>
getJob    == <<Require("run.jobs.get"), GetRunJob>>
listJobs  == <<Require("run.jobs.list"), ListRunJobs>>
patchJob  == <<Require("run.jobs.update"), admitTemplate>> \o UpdateRunJob
deleteJob == <<Require("run.jobs.delete"), DeleteRunJob>>

\* The Knative API: the same services under other names.
knativeListServices == <<Require("run.services.list"), ListRunServices>>
knativeGetService   == <<Require("run.services.get"), GetRunService>>
knativeCreateService ==
  <<Require("run.services.create"), Body, admitTemplate, CreateRunService, Reload("service")>>
  \o reconcileNested(TRUE)
knativeReplaceService ==
  <<Require("run.services.update"), Body, admitTemplate>> \o UpdateRunService \o reconcileNested(FALSE)
knativeDeleteService   == <<Require("run.services.delete")>> \o deleteServiceAndNested
knativeListRevisions   == <<Require("run.revisions.list"), ListRunRevisionsByProject>>
knativeGetRevision     == <<Require("run.revisions.get"), GetRunRevisionByShortName>>
knativeDeleteRevision  == <<Require("run.revisions.delete"), GetRunRevisionByShortName, DeleteRunRevision>>
knativeListConfigurations == <<Require("run.services.list"), ListRunServices>>
knativeGetConfiguration   == <<Require("run.services.get"), GetRunService>>
knativeListRoutes == <<Require("run.services.list"), ListRunServices>>
knativeGetRoute   == <<Require("run.services.get"), GetRunService>>

RunServices ==
  [rows |-> [service |-> {}, revision |-> {"service"}, policy |-> {}],
   ops  |-> <<createService, getOrInvoke, listServices, patchService(TRUE), patchService(FALSE),
              deleteService, listRevisions, getIamPolicy, setIamPolicy, invoke, handleRunProxy>>]
RunJobs ==
  [rows |-> [job |-> {}], ops |-> <<createJob, getJob, listJobs, patchJob, deleteJob>>]
Knative ==
  [rows |-> [service |-> {}, revision |-> {"service"}],
   ops  |-> <<knativeListServices, knativeGetService, knativeCreateService, knativeReplaceService,
              knativeDeleteService, knativeListRevisions, knativeGetRevision, knativeDeleteRevision,
              knativeListConfigurations, knativeGetConfiguration, knativeListRoutes, knativeGetRoute>>]

-----------------------------------------------------------------------------
(* Cloud Functions.  A function whose source is not there yet is DEPLOYING *)
(* until the upload of the source makes it ACTIVE.                         *)

CreateCloudFunction(state) == InsertAs("function", [state |-> state])
GetCloudFunction    == Get("function")
ListCloudFunctions  == List("function")
\* The configuration is merged by the caller, into the row it read before.
UpdateCloudFunction == <<Exists("function"), Write("function", [body |-> "merge"])>>
SetCloudFunctionState(state) == Change("function", [state |-> state])
DeleteCloudFunction == Delete("function")
HasCloudFunctionUploadObject == Peek("upload")
AcceptCloudFunctionUpload    == Put("upload")
ActivateCloudFunctionsForStorageSource ==
  <<ListCloudFunctions, When("function", "state", "DEPLOYING", Write("function", [state |-> "ACTIVE"]))>>

\* A trigger of the same function left over takes the create back.
wireEventarcFromCreate == <<InsertOr("trigger", Drop("function"))>>

createFunction(source, event) ==
  <<Require("cloudfunctions.functions.create"), Gates, Body, ActAs>>
  \o (IF source
      THEN <<HasCloudFunctionUploadObject,
             IfFound("upload", CreateCloudFunction("ACTIVE")),
             IfMissing("upload", CreateCloudFunction("DEPLOYING"))>>
      ELSE <<CreateCloudFunction("ACTIVE")>>)
  \o <<Reload("function")>> \o (IF event THEN wireEventarcFromCreate ELSE <<>>)
generateUploadUrl   == <<Require("cloudfunctions.functions.create")>>
generateDownloadUrl == <<Require("cloudfunctions.functions.sourceCodeGet"), GetCloudFunction>>
acceptUpload ==
  <<Require("cloudfunctions.functions.create"), Body, AcceptCloudFunctionUpload>>
  \o ActivateCloudFunctionsForStorageSource
listFunctions  == <<Require("cloudfunctions.functions.list"), ListCloudFunctions>>
getFunction    == <<Require("cloudfunctions.functions.get"), GetCloudFunction>>
patchFunction  ==
  <<Require("cloudfunctions.functions.update"), GetCloudFunction, ActAs>> \o UpdateCloudFunction
  \o <<HasCloudFunctionUploadObject, IfFound("upload", SetCloudFunctionState("ACTIVE"))>>
deleteFunction == <<Require("cloudfunctions.functions.delete"), DeleteCloudFunction>>
functionGetIamPolicy ==
  <<Require("cloudfunctions.functions.getIamPolicy"), GetCloudFunction, Peek("policy")>>
functionSetIamPolicy ==
  <<Require("cloudfunctions.functions.setIamPolicy"), GetCloudFunction, Body, Put("policy")>>
invokeFunction ==
  <<RequireEither("cloudfunctions.functions.invoke", "on the project"), GetCloudFunction>>

Functions ==
  [rows |-> [function |-> {}, upload |-> {}, trigger |-> {}, policy |-> {}],
   states |-> [function |-> {"DEPLOYING", "ACTIVE"}],
   ops  |-> <<createFunction(TRUE, FALSE), createFunction(FALSE, TRUE), generateUploadUrl,
              generateDownloadUrl, acceptUpload, listFunctions, getFunction, patchFunction,
              deleteFunction, functionGetIamPolicy, functionSetIamPolicy, invokeFunction>>]

-----------------------------------------------------------------------------
(* App Engine.  Creating a version makes the service it is of.  Nothing    *)
(* deletes applications or services.                                       *)

CreateAppEngineApp     == Insert("app")
GetAppEngineApp        == Get("app")
EnsureAppEngineService == <<Ensure("service"), Reload("service")>>
GetAppEngineService    == Get("service")
ListAppEngineServices  == List("service")
UpdateAppEngineServiceTraffic ==
  <<Get("service"), Change("service", [body |-> "own"]), Exists("service")>>
CreateAppEngineVersion == EnsureAppEngineService \o <<Insert("version")>>
GetAppEngineVersion    == Get("version")
ListAppEngineVersions  == List("version")
DeleteAppEngineVersion == Delete("version")

createApp ==
  <<Body, Require("appengine.applications.create"), Gates, CreateAppEngineApp, Reload("app")>>
getApp          == <<Body, Require("appengine.applications.get"), GetAppEngineApp>>
appListServices == <<Require("appengine.services.list"), GetAppEngineApp, ListAppEngineServices>>
getService      == <<Require("appengine.services.get"), GetAppEngineService>>
appPatchService ==
  <<Require("appengine.services.update"), GetAppEngineService, Body>> \o UpdateAppEngineServiceTraffic
listInstances   == <<Require("appengine.instances.list"), GetAppEngineVersion>>
listVersions    == <<Require("appengine.versions.list"), GetAppEngineService, ListAppEngineVersions>>
createVersion   ==
  <<Require("appengine.versions.create"), Gates, GetAppEngineApp, Body>> \o CreateAppEngineVersion
  \o <<Reload("version")>>
getVersion      == <<Require("appengine.versions.get"), GetAppEngineVersion>>
deleteVersion   == <<Require("appengine.versions.delete"), DeleteAppEngineVersion>>

AppEngine ==
  [rows |-> [app |-> {}, service |-> {"app"}, version |-> {"service"}],
   ops  |-> <<createApp, getApp, appListServices, getService, appPatchService, listInstances,
              listVersions, createVersion, getVersion, deleteVersion>>]

-----------------------------------------------------------------------------
(* GKE.                                                                    *)

CreateGKECluster == Insert("cluster")
GetGKECluster    == Get("cluster")
ListGKEClusters  == List("cluster")
DeleteGKECluster == Delete("cluster")

createCluster ==
  <<Require("container.clusters.create"), Gates, Body, CreateGKECluster, Reload("cluster")>>
getCluster    == <<Require("container.clusters.get"), GetGKECluster>>
listClusters  == <<Require("container.clusters.list"), ListGKEClusters>>
deleteCluster == <<Require("container.clusters.delete"), DeleteGKECluster>>

Gke ==
  [rows |-> [cluster |-> {}], ops |-> <<createCluster, getCluster, listClusters, deleteCluster>>]
=============================================================================
