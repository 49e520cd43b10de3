---------------------------- MODULE MessagingOps ----------------------------
(***************************************************************************)
(* Topics, subscriptions and snapshots of Pub/Sub, queues and tasks, jobs, *)
(* builds and the triggers of Eventarc and Cloud Build                     *)
(* (internal/services/pubsub, cloudtasks, scheduler, cloudbuild, eventarc, *)
(* server/register_location_triggers.go and their files of internal/store).*)
(* What the requests set off is in modules of its own: PubSub (delivery),  *)
(* CloudTasks (dispatch), Scheduler (tickers), CloudBuild (runs) and       *)
(* Eventing (triggers).                                                    *)
(***************************************************************************)
EXTENDS Steps

-----------------------------------------------------------------------------
(* Pub/Sub.  A topic goes without its subscriptions, a subscription with    *)
(* its messages, leased or not; a snapshot is of a subscription that nobody *)
(* looks up again.                                                         *)

CreateTopicWithLabels == Insert("topic")
LoadTopic             == Get("topic")
UpdateTopicLabels     == <<LoadTopic, Write("topic", [body |-> "own"])>>
RemoveTopic           == Delete("topic")
\* The topic of dead letters and the topic are one row.
CreateSubscriptionFull == <<Body, Exists("topic"), Body, Exists("topic"), Insert("subscription")>>
LoadSubscription       == Get("subscription")
StoreSubscription ==
  <<LoadSubscription, Body, Exists("topic"), Body, Write("subscription", [body |-> "merge", policy |-> "merge"])>>
RemoveSubscription ==
  <<Atomic(<<Drop("message"), Take("subscription")>>), Must("subscription")>>
PublishFanout ==
  <<Still("topic"), List("subscription"), IfFound("subscription", Generate("message"))>>
\* The message is older than the time, and dropped, or not, and anybody's again.
Older == Drop("message")
Newer == Write("message", [policy |-> "own"])
SeekToTime(side) == <<Exists("subscription"), Atomic(<<side>>)>>
StoreSnapshot  == <<Body, Exists("subscription"), Body, Insert("snapshot")>>
LoadSnapshot   == Get("snapshot")
RemoveSnapshot == Delete("snapshot")

createOrReplaceTopic == <<Require("pubsub.topics.create"), Gates, CreateTopicWithLabels>>
getTopic    == <<Require("pubsub.topics.get"), LoadTopic>>
listTopics  == <<Require("pubsub.topics.list"), List("topic")>>
patchTopic  == <<Require("pubsub.topics.update"), Body>> \o UpdateTopicLabels
deleteTopic == <<Require("pubsub.topics.delete"), RemoveTopic>>
\* Two messages; what the push endpoints answer is in module PubSub.
publish == <<Require("pubsub.topics.publish"), Gates, LoadTopic, Body>> \o PublishFanout \o PublishFanout

createOrReplaceSubscription ==
  <<Require("pubsub.subscriptions.create"), Gates, Body, Require("pubsub.topics.attachSubscription"), Body, ActAs>>
  \o CreateSubscriptionFull
getSubscription    == <<Require("pubsub.subscriptions.get"), LoadSubscription>>
listSubscriptions  == <<Require("pubsub.subscriptions.list"), List("subscription")>>
patchSubscription  == <<Require("pubsub.subscriptions.update"), Body, ActAs>> \o StoreSubscription
modifyPushConfig ==
  <<Require("pubsub.subscriptions.update"), Body, ActAs, LoadSubscription,
    Write("subscription", [body |-> "back", policy |-> "merge"])>>
deleteSubscription == <<Require("pubsub.subscriptions.delete")>> \o RemoveSubscription
seek(side)         == <<Require("pubsub.subscriptions.consume"), Body>> \o SeekToTime(side)

createSnapshot == <<Require("pubsub.snapshots.create"), Gates, Body>> \o StoreSnapshot
getSnapshot    == <<Require("pubsub.snapshots.get"), LoadSnapshot>>
listSnapshots  == <<Require("pubsub.snapshots.list"), List("snapshot")>>
deleteSnapshot == <<Require("pubsub.snapshots.delete"), RemoveSnapshot>>

\* The same over gRPC, where the name of the resource is read first.
named(program) == <<Body>> \o program
CreateTopic == named(createOrReplaceTopic)
GetTopic    == named(getTopic)
ListTopics  == named(listTopics)
DeleteTopic == named(deleteTopic)
\* With a mask that leaves the labels out, those read are written back.
UpdateTopic ==
  <<Body, Require("pubsub.topics.update"), Body, LoadTopic, Still("topic"), Write("topic", [body |-> "own"])>>
UpdateTopicUnmasked ==
  <<Body, Require("pubsub.topics.update"), Body, LoadTopic, Still("topic"), Write("topic", [body |-> "back"])>>
Publish == <<Body, Require("pubsub.topics.publish"), Gates, LoadTopic>> \o PublishFanout \o PublishFanout
CreateSubscription ==
  <<Body, Require("pubsub.subscriptions.create"), Require("pubsub.topics.attachSubscription"), Body, ActAs>>
  \o CreateSubscriptionFull
GetSubscription    == named(getSubscription)
ListSubscriptions  == named(listSubscriptions)
UpdateSubscription == named(patchSubscription)
ModifyPushConfig   == named(modifyPushConfig)
DeleteSubscription == named(deleteSubscription)
Seek(side)         == named(seek(side))
CreateSnapshot == <<Body, Require("pubsub.snapshots.create")>> \o StoreSnapshot
GetSnapshot    == named(getSnapshot)
ListSnapshots  == named(listSnapshots)
DeleteSnapshot == named(deleteSnapshot)

PubSubRows == [topic |-> {}, subscription |-> {}, message |-> {"subscription"}, snapshot |-> {}]
Topics ==
  [rows |-> PubSubRows,
   ops  |-> <<createOrReplaceTopic, getTopic, listTopics, patchTopic, deleteTopic, publish, CreateTopic, GetTopic,
             ListTopics, DeleteTopic, UpdateTopic, UpdateTopicUnmasked, Publish, createOrReplaceSubscription,
             deleteSubscription>>]
Subscriptions ==
  [rows |-> PubSubRows,
   ops  |-> <<deleteTopic, createOrReplaceSubscription, getSubscription, listSubscriptions, patchSubscription,
             modifyPushConfig, deleteSubscription, seek(Older), seek(Newer), createSnapshot, getSnapshot, listSnapshots,
             deleteSnapshot>>]
SubscriptionsByName ==
  [rows |-> PubSubRows,
   ops  |-> <<publish, DeleteTopic, CreateSubscription, GetSubscription, ListSubscriptions, UpdateSubscription,
             ModifyPushConfig, DeleteSubscription, Seek(Older), Seek(Newer), CreateSnapshot, GetSnapshot, ListSnapshots, DeleteSnapshot>>]

-----------------------------------------------------------------------------
(* Cloud Tasks.  The tasks of a queue go with it.                          *)

CreateCloudTasksQueue == Insert("queue")
GetCloudTasksQueue    == Get("queue")
ListCloudTasksQueues  == List("queue")
UpdateCloudTasksQueue == Write("queue", [body |-> "merge", state |-> "merge"])
DeleteCloudTasksQueue == <<Atomic(<<Drop("task"), Take("queue")>>), Must("queue")>>
CreateCloudTask == Insert("task")
GetCloudTask    == Get("task")
ListCloudTasks  == List("task")
DeleteCloudTask == Delete("task")
\* Adding one is a statement of its own.
IncrementCloudTaskDispatch == Atomic(<<Peek("task"), Write("task", [policy |-> "merge"])>>)
IncrementCloudTaskResponse == Atomic(<<Peek("task"), Write("task", [policy |-> "merge"])>>)
\* With the credentials of a service account, made when it is not there.
dispatchHTTP ==
  <<IncrementCloudTaskDispatch, Ensure("account"), Generate("token"), IncrementCloudTaskResponse>>

createQueue == <<Require("cloudtasks.queues.create"), Gates, Body, CreateCloudTasksQueue, Peek("queue")>>
getQueue    == <<Require("cloudtasks.queues.get"), GetCloudTasksQueue>>
listQueues  == <<Require("cloudtasks.queues.list"), ListCloudTasksQueues>>
patchQueue  == <<Require("cloudtasks.queues.update"), GetCloudTasksQueue, UpdateCloudTasksQueue, Peek("queue")>>
deleteQueue == <<Require("cloudtasks.queues.delete")>> \o DeleteCloudTasksQueue
createTask ==
  <<Require("cloudtasks.tasks.create"), Exists("queue"), Body, ActAs, CreateCloudTask, Reload("task")>>
  \o dispatchHTTP \o <<Reload("task")>>
getTask    == <<Require("cloudtasks.tasks.get"), GetCloudTask>>
listTasks  == <<Require("cloudtasks.tasks.list"), ListCloudTasks>>
deleteTask == <<Require("cloudtasks.tasks.delete"), DeleteCloudTask>>
runTask    ==
  <<Body, Require("cloudtasks.tasks.run"), GetCloudTask, ActAs>> \o dispatchHTTP \o <<Peek("task")>>

Tasks ==
  [rows |-> [queue |-> {}, task |-> {"queue"}, account |-> {}, token |-> {}],
   ops  |-> <<createQueue, getQueue, listQueues, patchQueue, deleteQueue, createTask, getTask, listTasks, deleteTask,
             runTask>>]

-----------------------------------------------------------------------------
(* Cloud Scheduler.  Patching, pausing and resuming write all the columns  *)
(* read, the time of the last attempt (policy) among them.                 *)

CreateSchedulerJob == Insert("job")
GetSchedulerJob    == Get("job")
ListSchedulerJobs  == List("job")
UpdateSchedulerJob(body, state) == Write("job", [body |-> body, state |-> state, policy |-> "back"])
DeleteSchedulerJob == Delete("job")
MarkSchedulerJobAttempt == <<Peek("job"), IfFound("job", Write("job", [policy |-> "own"]))>>
fire == MarkSchedulerJobAttempt \o <<Ensure("account"), Generate("token"), Generate("message")>>

createJob ==
  <<Require("cloudscheduler.jobs.create"), Gates, Body, ActAs, Require("pubsub.topics.publish"), CreateSchedulerJob,
    Reload("job")>>
getJob   == <<Require("cloudscheduler.jobs.get"), GetSchedulerJob>>
listJobs == <<Require("cloudscheduler.jobs.list"), ListSchedulerJobs>>
patchJob ==
  <<Require("cloudscheduler.jobs.update"), GetSchedulerJob, Body, ActAs, Require("pubsub.topics.publish"),
    UpdateSchedulerJob("merge", "merge"), Peek("job")>>
setJobState(state) ==
  <<Require("cloudscheduler.jobs.update"), GetSchedulerJob, UpdateSchedulerJob("back", state), Peek("job")>>
deleteJob == <<Require("cloudscheduler.jobs.delete"), DeleteSchedulerJob>>
runJob ==
  <<Require("cloudscheduler.jobs.run"), GetSchedulerJob, ActAs, Require("pubsub.topics.publish")>>
  \o fire \o <<Peek("job")>>

Jobs ==
  [rows |-> [job |-> {}, account |-> {}, token |-> {}, message |-> {}],
   ops  |-> <<createJob, getJob, listJobs, patchJob, setJobState("PAUSED"), setJobState("ENABLED"), deleteJob, runJob>>]

-----------------------------------------------------------------------------
(* Cloud Build.  A build has an id of its own: the one requests name is     *)
(* another, made before.                                                   *)

CreateCbBuild      == Generate("build")
GetCbBuild         == Get("build")
ListCbBuilds       == List("build")
CreateCbTrigger    == Insert("buildTrigger")
GetCbTrigger       == Get("buildTrigger")
ListCbTriggers     == List("buildTrigger")
DeleteCbTrigger    == Delete("buildTrigger")
CreateCbWorkerPool == Insert("pool")
GetCbWorkerPool    == Get("pool")
ListCbWorkerPools  == List("pool")

\* A build that names no pool skips this; a pool or a host project that is not there is
\* a failed precondition.
requireWorkerPoolUse == <<GetCbWorkerPool, Exists("project"), Require("cloudbuild.workerpools.use")>>
requireBuildServiceAccountActAs == ActAs
createBuild ==
  <<Require("cloudbuild.builds.create"), Gates>> \o requireWorkerPoolUse
  \o <<requireBuildServiceAccountActAs, CreateCbBuild, Peek("build")>>
retryBuild ==
  <<Body, Require("cloudbuild.builds.create"), GetCbBuild>> \o requireWorkerPoolUse
  \o <<requireBuildServiceAccountActAs, CreateCbBuild, Peek("build")>>
getBuild     == <<Require("cloudbuild.builds.get"), GetCbBuild>>
getBuildLogs == <<Require("cloudbuild.builds.get"), GetCbBuild, Again("build")>>
listBuilds   == <<Require("cloudbuild.builds.list"), ListCbBuilds>>
createWorkerPool == <<Require("cloudbuild.workerpools.create"), Exists("project"), Body, CreateCbWorkerPool>>
getWorkerPool    == <<GetCbWorkerPool, Require("cloudbuild.workerpools.get")>>
listWorkerPools  == <<Require("cloudbuild.workerpools.list"), ListCbWorkerPools>>

createTrigger ==
  <<Require("cloudbuild.triggers.create"), Gates, ActAs, CreateCbTrigger, Reload("buildTrigger")>>
getTrigger    == <<Body, Require("cloudbuild.triggers.get"), GetCbTrigger>>
listTriggers  == <<Require("cloudbuild.triggers.list"), ListCbTriggers>>
deleteTrigger == <<Require("cloudbuild.triggers.delete"), DeleteCbTrigger>>
runTrigger    == <<Body, Require("cloudbuild.builds.create"), GetCbTrigger, ActAs, CreateCbBuild, Peek("build")>>

Builds ==
  [rows |-> [build |-> {}, buildTrigger |-> {}, pool |-> {}, project |-> {}],
   ops  |-> <<createBuild, retryBuild, getBuild, getBuildLogs, listBuilds, createWorkerPool, getWorkerPool,
             listWorkerPools, createTrigger, getTrigger, listTriggers, deleteTrigger, runTrigger>>]

-----------------------------------------------------------------------------
(* The regional triggers: one path for those of Eventarc and Cloud Build,   *)
(* which may have the same name.  Eventarc is asked first.                  *)

CreateEventarcTrigger == Insert("eventTrigger")
ListEventarcTriggers  == List("eventTrigger")
CreateEventarcChannel == Insert("channel")
GetEventarcChannel    == Get("channel")
ListEventarcChannels  == List("channel")
DeleteEventarcChannel == Delete("channel")

eventarcCreateTrigger ==
  <<Require("eventarc.triggers.create"), Gates, Body, ActAs, CreateEventarcTrigger>>
eventarcGetTriggerHTTP ==
  <<Peek("eventTrigger"), IfFound("eventTrigger", Require("eventarc.triggers.get")), IfFound("eventTrigger", Answer)>>
\* Deleted by another in between: not this service's any more.
eventarcDeleteTriggerHTTP ==
  <<Peek("eventTrigger"), IfFound("eventTrigger", Require("eventarc.triggers.delete")),
    IfFound("eventTrigger", Take("eventTrigger")), IfFound("eventTrigger", Answer)>>
cloudBuildGetTriggerHTTP    == <<GetCbTrigger, Require("cloudbuild.triggers.get")>>
cloudBuildDeleteTriggerHTTP == <<GetCbTrigger, Require("cloudbuild.triggers.delete"), DeleteCbTrigger>>

getLocationTrigger    == eventarcGetTriggerHTTP \o cloudBuildGetTriggerHTTP
deleteLocationTrigger == eventarcDeleteTriggerHTTP \o cloudBuildDeleteTriggerHTTP
listLocationTriggers  ==
  <<RequireEither("eventarc.triggers.list", "cloudbuild.triggers.list"), ListEventarcTriggers, ListCbTriggers>>

createChannel == <<Require("eventarc.channels.create"), Body, CreateEventarcChannel>>
getChannel    == <<Require("eventarc.channels.get"), GetEventarcChannel>>
listChannels  == <<Require("eventarc.channels.list"), ListEventarcChannels>>
deleteChannel == <<Require("eventarc.channels.delete"), DeleteEventarcChannel>>

LocationTriggers ==
  [rows |-> [eventTrigger |-> {}, buildTrigger |-> {}, build |-> {}, channel |-> {}],
   ops  |-> <<eventarcCreateTrigger, createTrigger, getLocationTrigger, deleteLocationTrigger, listLocationTriggers,
             runTrigger, createChannel, getChannel, listChannels, deleteChannel>>]
=============================================================================
