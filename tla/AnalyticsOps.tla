---------------------------- MODULE AnalyticsOps ----------------------------
(***************************************************************************)
(* Dataflow, BigQuery, Datastore mode, Spanner and Workflows               *)
(* (internal/services/dataflow, bigquery, datastore, spanner and           *)
(* workflows; internal/store/dns_dataflow.go, bq_analytics.go,             *)
(* datastore_entities.go, workflows_spanner.go and                         *)
(* artifact_build_workflows_ops.go).                                       *)
(***************************************************************************)
EXTENDS Steps

-----------------------------------------------------------------------------
(* Dataflow: a job is done as soon as somebody looks at it.                *)

CreateDataflowJob == Generate("job")
GetDataflowJob    == Peek("job")
AdvanceDataflowJobToDone ==
  <<Get("job"), Unless("job", "state", "DONE"), Write("job", [state |-> "DONE"])>>
ListDataflowJobs        == List("job")
ListDataflowJobsProject == List("job")

createJob ==
  <<Require("dataflow.jobs.create"), Gates, Body, ActAs, CreateDataflowJob, GetDataflowJob>>
getJob          == <<Body, Require("dataflow.jobs.get")>> \o AdvanceDataflowJobToDone
listJobsRegional == <<Require("dataflow.jobs.list"), ListDataflowJobs>>
listJobsProject  == <<Require("dataflow.jobs.list"), ListDataflowJobsProject>>

Dataflow ==
  [rows |-> [job |-> {}], states |-> [job |-> {"RUNNING", "DONE"}],
   ops  |-> <<createJob, getJob, listJobsRegional, listJobsProject>>]

-----------------------------------------------------------------------------
(* BigQuery.  The rows of a table are one row here.                        *)

CreateBQDataset == Insert("dataset")
GetBQDataset    == Get("dataset")
ListBQDatasets  == List("dataset")
DeleteBQDataset == Atomic(<<Drop("rows"), Drop("table"), Delete("dataset")>>)
CreateBQTable   == <<GetBQDataset, Insert("table")>>
GetBQTable      == Get("table")
ListBQTables    == List("table")
DeleteBQTable   == Atomic(<<Drop("rows"), Delete("table")>>)
InsertBQRows    == <<Reload("table"), Put("rows")>>
ListBQRows      == List("rows")
ListBQRowsPage  == List("rows")
CountBQRows     == List("rows")
PutBQJob        == Generate("bqjob")
GetBQJob        == Get("bqjob")

createDataset == <<Require("bigquery.datasets.create"), Gates, Body, CreateBQDataset>>
getDataset    == <<Require("bigquery.datasets.get"), GetBQDataset>>
listDatasets  == <<Require("bigquery.datasets.list"), ListBQDatasets>>
deleteDataset == <<Require("bigquery.datasets.delete"), DeleteBQDataset>>
createTable   == <<Require("bigquery.tables.create"), Body>> \o CreateBQTable
getTable      == <<Require("bigquery.tables.get"), GetBQTable>>
listTables    == <<Require("bigquery.tables.list"), ListBQTables>>
deleteTable   == <<Require("bigquery.tables.delete"), DeleteBQTable>>
insertAll     == <<Require("bigquery.tables.updateData"), Body, GetBQTable, Body>> \o InsertBQRows
tabledataList == <<Require("bigquery.tables.getData"), GetBQTable, CountBQRows, ListBQRowsPage>>
jobsGet       == <<Require("bigquery.jobs.get"), GetBQJob>>

evalSimpleSelect == <<Body, Require("bigquery.tables.getData"), ListBQRows>>
\* The statements of the query language that the lab has.  CREATE TABLE makes the
\* dataset it lacks.
jobsQuery(statement) ==
  <<Require("bigquery.jobs.create"), Body>>
  \o (CASE statement = "CREATE" ->
             <<Peek("dataset"), IfMissing("dataset", Require("bigquery.datasets.create")),
               Require("bigquery.tables.create"), Peek("dataset"),
               IfMissing("dataset", Ensure("dataset")), Reload("dataset"), Insert("table")>>
        [] statement = "JOIN"   -> <<Require("bigquery.tables.getData"), ListBQRows, ListBQRows>>
        [] statement = "TABLES" -> <<Require("bigquery.tables.list"), ListBQTables>>
        [] statement = "UNION"  -> evalSimpleSelect \o evalSimpleSelect
        [] OTHER                -> <<Require("bigquery.tables.getData"), ListBQRows>>)
  \o <<PutBQJob>>

Datasets ==
  [rows |-> [dataset |-> {}, table |-> {"dataset"}, rows |-> {"table"}],
   ops  |-> <<createDataset, getDataset, listDatasets, deleteDataset, createTable, getTable,
              listTables, deleteTable, insertAll, tabledataList>>]
Queries ==
  [rows |-> [dataset |-> {}, table |-> {"dataset"}, rows |-> {"table"}, bqjob |-> {}],
   ops  |-> <<jobsQuery("CREATE"), jobsQuery("JOIN"), jobsQuery("TABLES"), jobsQuery("UNION"),
              jobsQuery("SELECT"), jobsGet, deleteDataset, createDataset, insertAll>>]

-----------------------------------------------------------------------------
(* Datastore mode.  A transaction is a token that a commit consumes first; *)
(* the mutations of the commit are then made one by one.                   *)

PutDatastoreEntity    == Put("entity")
GetDatastoreEntity    == Peek("entity")
DeleteDatastoreEntity == Drop("entity")
QueryDatastoreEntities == List("entity")
NextDatastoreID       == List("entity")
PutDatastoreTransaction     == Generate("token")
ConsumeDatastoreTransaction == Delete("token")
DeleteDatastoreTransaction  == Delete("token")

\* Nothing keeps two inserts from finding no entity, or an id from being given twice.
putEntity(insertOnly) ==
  <<Body, NextDatastoreID>> \o (IF insertOnly THEN <<Lacks("entity")>> ELSE <<>>)
  \o <<PutDatastoreEntity>>

Lookup   == <<Body, Require("datastore.entities.get"), GetDatastoreEntity>>
RunQuery == <<Body, Require("datastore.entities.list"), Body, QueryDatastoreEntities>>
Commit(mutation) ==
  <<Body, Require("datastore.entities.write"), Body, ConsumeDatastoreTransaction>>
  \o (IF mutation = "delete" THEN <<DeleteDatastoreEntity>> ELSE putEntity(mutation = "insert"))
  \o <<Later>>
AllocateIds ==
  <<Body, Require("datastore.entities.write"), Body, NextDatastoreID, PutDatastoreEntity, Later>>
BeginTransaction == <<Body, Require("datastore.entities.write"), PutDatastoreTransaction>>
Rollback == <<Body, Require("datastore.entities.write"), DeleteDatastoreTransaction>>

Datastore ==
  [rows |-> [entity |-> {}, token |-> {}],
   ops  |-> <<Lookup, RunQuery, Commit("insert"), Commit("update"), Commit("delete"), AllocateIds,
              Rollback>>]

-----------------------------------------------------------------------------
(* Spanner.                                                                *)

CreateSpannerInstance == Insert("instance")
GetSpannerInstance    == Get("instance")
ListSpannerInstances  == List("instance")
DeleteSpannerInstance == Atomic(<<Drop("rows"), Drop("session"), Drop("database"), Delete("instance")>>)
CreateSpannerDatabase == Insert("database")
GetSpannerDatabase    == Get("database")
ListSpannerDatabases  == List("database")
AppendSpannerDDL == <<Get("database"), Change("database", [body |-> "merge"]), Exists("database")>>
DeleteSpannerDatabase == Atomic(<<Drop("rows"), Drop("session"), Delete("database")>>)
CreateSpannerSession  == Generate("session")
GetSpannerSession     == Get("session")
InsertSpannerRows     == <<Get("database"), Put("rows")>>
ListSpannerRows       == List("rows")

createInstance ==
  <<Require("spanner.instances.create"), Gates, Body, CreateSpannerInstance, Reload("instance")>>
getInstance    == <<Require("spanner.instances.get"), GetSpannerInstance>>
listInstances  == <<Require("spanner.instances.list"), ListSpannerInstances>>
deleteInstance == <<Require("spanner.instances.delete"), DeleteSpannerInstance>>
createDatabase ==
  <<Require("spanner.databases.create"), GetSpannerInstance, Body, CreateSpannerDatabase,
    Reload("database")>>
getDatabase    == <<Require("spanner.databases.get"), GetSpannerDatabase>>
listDatabases  == <<Require("spanner.databases.list"), ListSpannerDatabases>>
deleteDatabase == <<Require("spanner.databases.drop"), DeleteSpannerDatabase>>
updateDDL == <<Require("spanner.databases.updateDdl"), Body>> \o AppendSpannerDDL
listInstanceConfigs == <<Require("spanner.instanceConfigs.list")>>

createSession  == <<Require("spanner.sessions.create"), GetSpannerDatabase, CreateSpannerSession>>
batchCreateSessions == <<Require("spanner.sessions.create"), GetSpannerDatabase, CreateSpannerSession>>
requireSession == GetSpannerSession
executeSQL == <<Require("spanner.databases.select"), requireSession, Body, ListSpannerRows>>
read       == <<Require("spanner.databases.read"), requireSession, Body, ListSpannerRows>>
partitionQuery == <<Require("spanner.databases.partitionQuery"), requireSession>>
\* Each insert is a transaction of its own: a bad one leaves those before it.
commit ==
  <<Require("spanner.databases.write"), requireSession, Body>> \o InsertSpannerRows \o <<Later>>

SpannerDatabases ==
  [rows |-> [instance |-> {}, database |-> {"instance"}, session |-> {"database"}, rows |-> {"database"}],
   ops  |-> <<createInstance, getInstance, listInstances, deleteInstance, createDatabase, getDatabase,
              listDatabases, deleteDatabase, updateDDL, listInstanceConfigs>>]
SpannerSessions ==
  [rows |-> [instance |-> {}, database |-> {"instance"}, session |-> {"database"}, rows |-> {"database"}],
   ops  |-> <<deleteInstance, deleteDatabase, createSession, batchCreateSessions, executeSQL, read,
              partitionQuery, commit>>]

-----------------------------------------------------------------------------
(* Workflows: an execution ends when somebody looks at it.                 *)

CreateWorkflow == Insert("workflow")
GetWorkflow    == Get("workflow")
DeleteWorkflow == Atomic(<<Drop("execution"), Delete("workflow")>>)
PatchWorkflowDeepen == <<Get("workflow"), Write("workflow", [body |-> "merge", policy |-> "back"])>>
ListWorkflowsPageDeepen == List("workflow")
CreateWorkflowExecution == Generate("execution")
GetWorkflowExecution    == Peek("execution")
Ended == <<Unless("execution", "state", "SUCCEEDED"), Unless("execution", "state", "CANCELLED")>>
AdvanceWorkflowExecutionDeepen ==
  <<Get("execution")>> \o Ended \o <<Write("execution", [state |-> "SUCCEEDED"])>>
CancelWorkflowExecutionDeepen ==
  <<Get("execution"), Forbid("execution", "state", "SUCCEEDED"),
    Unless("execution", "state", "CANCELLED"), Write("execution", [state |-> "CANCELLED"])>>
ListWorkflowExecutionsPageDeepen == List("execution")

createWorkflow ==
  <<Require("workflows.workflows.create"), Gates, Body, ActAs, CreateWorkflow, Reload("workflow")>>
getWorkflow    == <<Body, Require("workflows.workflows.get"), GetWorkflow>>
patchWorkflow  == <<Require("workflows.workflows.update"), ActAs>> \o PatchWorkflowDeepen
listWorkflows  == <<Require("workflows.workflows.list"), Body, ListWorkflowsPageDeepen>>
deleteWorkflow == <<Require("workflows.workflows.delete"), DeleteWorkflow>>
createExecution ==
  <<Require("workflows.executions.create"), GetWorkflow, Body, CreateWorkflowExecution,
    GetWorkflowExecution>>
getExecution    == <<Body, Require("workflows.executions.get")>> \o AdvanceWorkflowExecutionDeepen
cancelExecution == <<Require("workflows.executions.cancel")>> \o CancelWorkflowExecutionDeepen
listExecutions  ==
  <<Require("workflows.executions.list"), GetWorkflow, Body, ListWorkflowExecutionsPageDeepen>>

Workflows ==
  [rows |-> [workflow |-> {}, execution |-> {"workflow"}],
   states |-> [execution |-> {"ACTIVE", "SUCCEEDED", "CANCELLED"}],
   ops  |-> <<createWorkflow, getWorkflow, patchWorkflow, listWorkflows, deleteWorkflow,
              createExecution, getExecution, cancelExecution, listExecutions>>]
=============================================================================
