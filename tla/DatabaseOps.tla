---------------------------- MODULE DatabaseOps ----------------------------
(***************************************************************************)
(* Cloud SQL, Managed Kafka, Memorystore, Bigtable and Filestore           *)
(* (internal/services/cloudsql, managedkafka, memorystore, bigtable and    *)
(* filestore, internal/store/cloudsql.go, kafka.go, bigtable_memorystore.go *)
(* and lab_extras.go).  The first three may back an instance with a nested *)
(* container, which is a row of no table: the handlers start and remove it *)
(* themselves.                                                             *)
(***************************************************************************)
EXTENDS Steps

\* The state of an instance with the id of its container; a row just inserted has none.
Backed == "backed"

-----------------------------------------------------------------------------
(* Cloud SQL.  Users and databases refer to their instance by a FOREIGN    *)
(* KEY that cascades.                                                      *)

CreateCloudSQLInstance == Insert("instance")
GetCloudSQLInstance    == Get("instance")
ListCloudSQLInstances  == List("instance")
UpdateCloudSQLInstanceNested == Write("instance", [state |-> Backed])

\* Mutant: a statement each.
DeleteCloudSQLInstanceByParts ==
  <<Get("instance"), Delete("instance"), Drop("user"), Drop("database")>>

DeleteCloudSQLInstance == <<Get("instance"), Atomic(<<Delete("instance"), Drop("user"), Drop("database")>>)>>
CreateCloudSQLUser     == InsertUnder("user", "instance")
GetCloudSQLUser        == Get("user")
ListCloudSQLUsers      == List("user")
DeleteCloudSQLUser     == Delete("user")
CreateCloudSQLDatabase == InsertUnder("database", "instance")
GetCloudSQLDatabase    == Get("database")
ListCloudSQLDatabases  == List("database")
DeleteCloudSQLDatabase == Delete("database")

\* The container starts and its id is written to the row.  nested says whether
\* there is an engine at all; when starting must not fail, the row is taken back.
tryStartNested == <<Fallible("engine", Drop("instance")), Ensure("container"), UpdateCloudSQLInstanceNested>>

sqlCreateInstance(nested) ==
  <<Require("cloudsql.instances.create"), Gates, Body, CreateCloudSQLInstance>>
  \o (IF nested THEN tryStartNested ELSE <<>>) \o <<Reload("instance")>>
sqlGetInstance   == <<Require("cloudsql.instances.get"), GetCloudSQLInstance>>
sqlListInstances == <<Require("cloudsql.instances.list"), ListCloudSQLInstances>>
sqlDeleteInstance ==
  <<Require("cloudsql.instances.delete")>> \o DeleteCloudSQLInstance
  \o <<When("instance", "state", Backed, Drop("container"))>>
createUser == <<Require("cloudsql.users.create"), GetCloudSQLInstance, Body, CreateCloudSQLUser>>
getUser    == <<Require("cloudsql.users.get"), GetCloudSQLInstance, GetCloudSQLUser>>
listUsers  == <<Require("cloudsql.users.list"), GetCloudSQLInstance, ListCloudSQLUsers>>
deleteUser == <<Require("cloudsql.users.delete"), Body, GetCloudSQLInstance, DeleteCloudSQLUser>>
createDatabase == <<Require("cloudsql.databases.create"), GetCloudSQLInstance, Body, CreateCloudSQLDatabase>>
getDatabase    == <<Require("cloudsql.databases.get"), GetCloudSQLInstance, GetCloudSQLDatabase>>
listDatabases  == <<Require("cloudsql.databases.list"), GetCloudSQLInstance, ListCloudSQLDatabases>>
deleteDatabase == <<Require("cloudsql.databases.delete"), GetCloudSQLInstance, DeleteCloudSQLDatabase>>

CloudSqlInstances ==
  [rows |-> [instance |-> {}, user |-> {"instance"}, database |-> {"instance"}, container |-> {"instance"}],
   states |-> [instance |-> {"plain", Backed}],
   ops  |-> <<sqlCreateInstance(TRUE), sqlGetInstance, sqlListInstances, sqlDeleteInstance>>]
CloudSqlContents ==
  [rows |-> [instance |-> {}, user |-> {"instance"}, database |-> {"instance"}, container |-> {"instance"}],
   states |-> [instance |-> {"plain", Backed}],
   ops  |-> <<sqlCreateInstance(FALSE), sqlDeleteInstance, createUser, getUser, listUsers, deleteUser,
             createDatabase, getDatabase, listDatabases, deleteDatabase>>]

-----------------------------------------------------------------------------
(* Managed Kafka.                                                          *)

CreateKafkaCluster == Insert("cluster")
GetKafkaCluster    == Get("cluster")
ListKafkaClusters  == List("cluster")
UpdateKafkaClusterNested == Write("cluster", [state |-> Backed])
DeleteKafkaCluster == <<Get("cluster"), Atomic(<<Drop("topic"), Drop("acl"), Delete("cluster")>>)>>
CreateKafkaTopic   == Insert("topic")
GetKafkaTopic      == Get("topic")
ListKafkaTopics    == List("topic")
DeleteKafkaTopic   == <<Get("topic"), Delete("topic")>>
CreateKafkaACL     == Insert("acl")
GetKafkaACL        == Get("acl")
ListKafkaACLs      == List("acl")
DeleteKafkaACL     == <<Get("acl"), Delete("acl")>>

\* A delete names the container by its id or, lacking one, by its cluster.
tryNestedRedpanda    == <<Fallible("engine", Drop("cluster")), Ensure("container"), UpdateKafkaClusterNested>>
removeNestedRedpanda == Drop("container")

createCluster(nested) ==
  <<Require("managedkafka.clusters.create"), Gates, Body, CreateKafkaCluster>>
  \o (IF nested THEN tryNestedRedpanda ELSE <<>>) \o <<Reload("cluster")>>
getCluster    == <<Require("managedkafka.clusters.get"), GetKafkaCluster>>
listClusters  == <<Require("managedkafka.clusters.list"), ListKafkaClusters>>
deleteCluster == <<Require("managedkafka.clusters.delete")>> \o DeleteKafkaCluster \o <<removeNestedRedpanda>>
createTopic == <<Require("managedkafka.topics.create"), Gates, GetKafkaCluster, Body, CreateKafkaTopic, Reload("topic")>>
getTopic    == <<Require("managedkafka.topics.get"), GetKafkaTopic>>
listTopics  == <<Require("managedkafka.topics.list"), GetKafkaCluster, ListKafkaTopics>>
deleteTopic == <<Require("managedkafka.topics.delete")>> \o DeleteKafkaTopic
createACL == <<Require("managedkafka.acls.create"), Gates, GetKafkaCluster, Body, CreateKafkaACL, Reload("acl")>>
getACL    == <<Require("managedkafka.acls.get"), GetKafkaACL>>
listACLs  == <<Require("managedkafka.acls.list"), GetKafkaCluster, ListKafkaACLs>>
deleteACL == <<Require("managedkafka.acls.delete")>> \o DeleteKafkaACL
\* operations.get of a cluster's create or delete: asks the cluster before the caller.
tryLocationOperationGet(action) ==
  <<IF action = "create" THEN Get("cluster") ELSE Lacks("cluster"), Require("managedkafka.operations.get")>>
  \o (IF action = "create" THEN <<Peek("cluster")>> ELSE <<>>)

KafkaClusters ==
  [rows |-> [cluster |-> {}, topic |-> {"cluster"}, acl |-> {"cluster"}, container |-> {"cluster"}],
   ops  |-> <<createCluster(TRUE), getCluster, listClusters, deleteCluster,
             tryLocationOperationGet("create"), tryLocationOperationGet("delete")>>]
KafkaContents ==
  [rows |-> [cluster |-> {}, topic |-> {"cluster"}, acl |-> {"cluster"}, container |-> {"cluster"}],
   ops  |-> <<createCluster(FALSE), deleteCluster, createTopic, getTopic, listTopics, deleteTopic,
             createACL, getACL, listACLs, deleteACL>>]

-----------------------------------------------------------------------------
(* Memorystore.  The container goes before the row.                        *)

CreateMemorystoreRedisInstance == Insert("redis")
GetMemorystoreRedisInstance    == Get("redis")
ListMemorystoreRedisInstances  == List("redis")
SetMemorystoreRedisRuntime     == Write("redis", [state |-> Backed])
DeleteMemorystoreRedisInstance == Delete("redis")

tryNestedRedisOnCreate == <<Fallible("engine", Drop("redis")), Ensure("container"), SetMemorystoreRedisRuntime>>
tryNestedRedisOnDelete == Drop("container")

redisCreateInstance(nested) ==
  <<Require("redis.instances.create"), Gates, Body, CreateMemorystoreRedisInstance>>
  \o (IF nested THEN tryNestedRedisOnCreate ELSE <<>>) \o <<Reload("redis")>>
redisGetInstance   == <<Require("redis.instances.get"), GetMemorystoreRedisInstance>>
getAuthString      == <<Require("redis.instances.getAuthString"), GetMemorystoreRedisInstance, Body>>
redisListInstances == <<Require("redis.instances.list"), ListMemorystoreRedisInstances>>
redisDeleteInstance ==
  <<Require("redis.instances.delete"), GetMemorystoreRedisInstance, tryNestedRedisOnDelete,
    DeleteMemorystoreRedisInstance>>

Memorystore ==
  [rows |-> [redis |-> {}, container |-> {"redis"}],
   ops  |-> <<redisCreateInstance(TRUE), redisCreateInstance(FALSE), redisGetInstance, getAuthString,
             redisListInstances, redisDeleteInstance>>]

-----------------------------------------------------------------------------
(* Bigtable: the REST handlers and the gRPC ones of the instance admin     *)
(* service, which parse the name before they ask for the permission.       *)

CreateBigtableInstance == Insert("bigtable")
GetBigtableInstance    == Get("bigtable")
ListBigtableInstances  == List("bigtable")
DeleteBigtableInstance == Atomic(<<Drop("bttable"), Delete("bigtable")>>)
CreateBigtableTable    == Insert("bttable")
GetBigtableTable       == Get("bttable")
ListBigtableTables     == List("bttable")
DeleteBigtableTable    == Delete("bttable")

btCreateInstance == <<Require("bigtable.instances.create"), Gates, Body, CreateBigtableInstance, Peek("bigtable")>>
btGetInstance    == <<Require("bigtable.instances.get"), GetBigtableInstance>>
btListInstances  == <<Require("bigtable.instances.list"), ListBigtableInstances>>
btDeleteInstance == <<Require("bigtable.instances.delete"), DeleteBigtableInstance>>
createTable == <<Require("bigtable.tables.create"), GetBigtableInstance, Body, CreateBigtableTable, Peek("bttable")>>
getTable    == <<Require("bigtable.tables.get"), GetBigtableTable>>
listTables  == <<Require("bigtable.tables.list"), ListBigtableTables>>
deleteTable == <<Require("bigtable.tables.delete"), DeleteBigtableTable>>

CreateInstance == <<Body, Require("bigtable.instances.create"), Body, CreateBigtableInstance, Reload("bigtable")>>
GetInstance    == <<Body>> \o btGetInstance
ListInstances  == <<Body>> \o btListInstances
DeleteInstance == <<Body>> \o btDeleteInstance

Bigtable ==
  [rows |-> [bigtable |-> {}, bttable |-> {"bigtable"}],
   ops  |-> <<btCreateInstance, btGetInstance, btListInstances, btDeleteInstance, createTable, getTable,
             listTables, deleteTable, CreateInstance, GetInstance, ListInstances, DeleteInstance>>]

-----------------------------------------------------------------------------
(* Filestore.                                                              *)

CreateFilestoreInstance == Insert("filestore")
GetFilestoreInstance    == Get("filestore")
ListFilestoreInstances  == List("filestore")
DeleteFilestoreInstance == Delete("filestore")

fileCreateInstance == <<Require("file.instances.create"), Gates, Body, CreateFilestoreInstance, Reload("filestore")>>
fileGetInstance    == <<Require("file.instances.get"), GetFilestoreInstance>>
fileListInstances  == <<Require("file.instances.list"), ListFilestoreInstances>>
fileDeleteInstance == <<Require("file.instances.delete"), DeleteFilestoreInstance>>
fileGetOperation   == <<Require("file.operations.get")>>

Filestore ==
  [rows |-> [filestore |-> {}],
   ops  |-> <<fileCreateInstance, fileGetInstance, fileListInstances, fileDeleteInstance, fileGetOperation>>]
=============================================================================
