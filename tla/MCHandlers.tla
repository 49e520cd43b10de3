----------------------------- MODULE MCHandlers -----------------------------
(* The operations of the control plane, by the tables they share.          *)
EXTENDS Handlers

Artifact  == INSTANCE ArtifactOps
Analytics == INSTANCE AnalyticsOps
Compute   == INSTANCE ComputeOps
Database  == INSTANCE DatabaseOps
Iam       == INSTANCE IamOps
Messaging == INSTANCE MessagingOps
Network   == INSTANCE NetworkOps
Observe   == INSTANCE ObservabilityOps
Resource  == INSTANCE ResourceOps
Security  == INSTANCE SecurityOps
Storage   == INSTANCE StorageOps
Server    == INSTANCE ServerlessOps

MCInfrastructure ==
  [instances     |-> Compute!Instances,     networks      |-> Compute!Networks,
   firewalls     |-> Compute!Firewalls,     dns           |-> Network!Dns,
   backends      |-> Network!Backends,      routes        |-> Network!Routes,
   edge          |-> Network!Edge,          cdn           |-> Network!Cdn,
   armor         |-> Network!Armor,         certificates  |-> Network!Certificates]
MCData ==
  [sqlInstances  |-> Database!CloudSqlInstances, sqlContents   |-> Database!CloudSqlContents,
   kafkaClusters |-> Database!KafkaClusters,     kafkaContents |-> Database!KafkaContents,
   memorystore   |-> Database!Memorystore,       bigtable      |-> Database!Bigtable,
   filestore     |-> Database!Filestore,         dataflow      |-> Analytics!Dataflow,
   datasets      |-> Analytics!Datasets,         queries       |-> Analytics!Queries,
   datastore     |-> Analytics!Datastore,        spanner       |-> Analytics!SpannerDatabases,
   sessions      |-> Analytics!SpannerSessions,  workflows     |-> Analytics!Workflows]
MCServing ==
  [runServices   |-> Server!RunServices,    runJobs       |-> Server!RunJobs,
   knative       |-> Server!Knative,        functions     |-> Server!Functions,
   appEngine     |-> Server!AppEngine,      gke           |-> Server!Gke,
   repositories  |-> Artifact!Repositories, packages      |-> Artifact!Packages,
   registry      |-> Artifact!Registry]
MCGovernance ==
  [kmsKeys       |-> Security!KmsKeys,      kmsVersions   |-> Security!KmsVersions,
   attestation   |-> Security!Attestation,  findings      |-> Security!SecurityCenter,
   accessContext |-> Security!AccessContext, policies     |-> Security!Governance,
   projects      |-> Resource!Projects,     folders       |-> Resource!Folders,
   tags          |-> Resource!Tags,         assets        |-> Resource!CloudAsset,
   accounts      |-> Iam!ServiceAccounts,   accountKeys   |-> Iam!ServiceAccountKeys,
   roles         |-> Iam!Roles,             federation    |-> Iam!WorkloadIdentity,
   users         |-> Iam!Users,             userAdmin     |-> Iam!UserAdministration,
   logs          |-> Observe!Logs,          logRouting    |-> Observe!LogRouting,
   monitoring    |-> Observe!Monitoring]
MCMessaging ==
  [topics        |-> Messaging!Topics,      subscriptions |-> Messaging!Subscriptions,
   named         |-> Messaging!SubscriptionsByName, tasks |-> Messaging!Tasks,
   jobs          |-> Messaging!Jobs,        builds        |-> Messaging!Builds,
   triggers      |-> Messaging!LocationTriggers]
MCStorage ==
  [secrets       |-> Storage!Secrets,       secretNames   |-> Storage!SecretsByName,
   buckets       |-> Storage!Buckets,       objects       |-> Storage!Objects,
   documents     |-> Storage!Documents]
MCGroups == MCInfrastructure @@ MCData @@ MCServing @@ MCGovernance @@ MCMessaging @@ MCStorage

\* Requests differ only in their marks, so the first may as well be the one of the
\* earlier operation; and two that only read have nothing to do with each other.
First == CHOOSE h \in Handler : TRUE
Stores(h) == \E s \in Statements(Program(h)) :
  s.do \in {"insert", "insertOr", "foreign", "claim", "ensure", "put", "write", "change", "writeOr", "delete", "drop", "take", "when"}
\* A table that neither request touches is empty, but for the rows others live under.
Touched ==
  [g \in DOMAIN Groups |-> [i \in DOMAIN Groups[g].ops |->
     UNION {TablesOf(x) \cup UNION {TablesOf(y) \cup UNION {TablesOf(z) : z \in Range(y.sub)} : y \in Range(x.sub)} :
              x \in Range(Groups[g].ops[i])}]]
Plain(t) ==
  start[t] # Missing =>
    /\ \E c \in Tables : t \in Rows[c] /\ start[c] # Missing
    /\ start[t] = CHOOSE row \in Starts(t) : row # Missing
MCInit ==
  /\ Init
  /\ \A t \in Tables \ UNION {Touched[group][reg[h].op] : h \in Handler} : Plain(t)
  /\ \A h \in Handler : reg[First].op <= reg[h].op
  /\ \E h \in Handler : Stores(h)

\* A check looks at its own request and at nothing that the others store, so it
\* commutes with every step of theirs: it goes first.
Checking == {h \in Handler : Running(h) /\ Program(h)[reg[h].at].do \in Checks}
MCNext   == \E h \in Handler : (Checking # {} => h = CHOOSE g \in Checking : TRUE) /\ Perform(h)
MCSpec   == MCInit /\ [][MCNext]_vars
=============================================================================
