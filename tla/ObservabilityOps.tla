-------------------------- MODULE ObservabilityOps --------------------------
(***************************************************************************)
(* Cloud Logging and Cloud Monitoring (internal/services/logging and       *)
(* monitoring, internal/store/logging.go, logging_routing.go, cloudaudit.go *)
(* and monitoring_metrics.go).  The entries of a log, and the points of a  *)
(* metric, are one row.                                                    *)
(***************************************************************************)
EXTENDS Steps

-----------------------------------------------------------------------------
(* Log entries.  Those of a request are written in one transaction and an  *)
(* insert id seen before is passed over; the audit logs have a table of    *)
(* their own.                                                              *)

WriteLogEntries        == Atomic(<<Ensure("entry")>>)
ListLogEntries         == List("entry")
DeleteLogEntries       == Drop("entry")
ListLogNames           == List("entry")
WriteCloudAuditEntries == Atomic(<<Ensure("audit")>>)
ListCloudAuditAsLogEntries == List("audit")
ListCloudAuditLogNames == List("audit")

CreateLogExclusion == Insert("exclusion")
GetLogExclusion    == Get("exclusion")
ListLogExclusions  == List("exclusion")
DeleteLogExclusion == Delete("exclusion")

\* Entries of both tables, then the exclusions that hide some of them.
applyExclusions == ListLogExclusions
queryEntries    == <<ListLogEntries, ListCloudAuditAsLogEntries, applyExclusions>>

writeEntries == <<Body, Require("logging.logEntries.create"), WriteLogEntries>>
listEntries  == <<Body, Require("logging.logEntries.list"), Body>> \o queryEntries
tailEntries  == <<Body, Require("logging.logEntries.list"), Body>> \o queryEntries
copyEntries  == <<Body, Require("logging.entries.copy")>>
deleteLog    == <<Body, Require("logging.logs.delete"), DeleteLogEntries>>
listLogs     == <<Body, Require("logging.logs.list"), ListLogNames, ListCloudAuditLogNames>>
\* The lab's own way in, of root alone.
injectAuditLogs  == <<Require("root"), Body, WriteCloudAuditEntries>>
injectLogEntries == <<Require("root"), Body, WriteLogEntries>>

listExclusions  == <<Require("logging.exclusions.list"), ListLogExclusions>>
createExclusion == <<Require("logging.exclusions.create"), Body, CreateLogExclusion>>
getExclusion    == <<Require("logging.exclusions.get"), GetLogExclusion>>
deleteExclusion == <<Require("logging.exclusions.delete"), DeleteLogExclusion>>

Logs ==
  [rows |-> [entry |-> {}, audit |-> {}, exclusion |-> {}],
   ops  |-> <<writeEntries, listEntries, tailEntries, copyEntries, deleteLog, listLogs, injectAuditLogs,
             injectLogEntries, listExclusions, createExclusion, getExclusion, deleteExclusion>>]

-----------------------------------------------------------------------------
(* Where entries go.  The two buckets a project has are made when somebody *)
(* first looks; a view is of a bucket that nobody looks up.                *)

CreateLogSink == Insert("sink")
GetLogSink    == Get("sink")
ListLogSinks  == List("sink")
UpdateLogSink == <<Change("sink", [body |-> "merge", disabled |-> "merge"]), GetLogSink>>
DeleteLogSink == Delete("sink")
EnsureDefaultLogRouting == <<Ensure("requiredBucket"), Ensure("defaultBucket")>>
ListLogBuckets == List("defaultBucket")
GetLogBucket   == Get("defaultBucket")
CreateLogView  == Insert("view")
GetLogView     == Get("view")
ListLogViews   == List("view")

\* The _Required sink is out of reach of both.
createSink == <<Require("logging.sinks.create"), Gates, Body, CreateLogSink>>
getSink    == <<Require("logging.sinks.get"), GetLogSink>>
listSinks  == <<Require("logging.sinks.list"), ListLogSinks>>
updateSink == <<Body, Require("logging.sinks.update"), GetLogSink>> \o UpdateLogSink
deleteSink == <<Body, Require("logging.sinks.delete"), DeleteLogSink>>
listBuckets == <<Require("logging.buckets.list")>> \o EnsureDefaultLogRouting \o <<ListLogBuckets>>
getBucket   == <<Require("logging.buckets.get")>> \o EnsureDefaultLogRouting \o <<GetLogBucket>>
listViews   == <<Require("logging.views.list"), ListLogViews>>
createView  == <<Require("logging.views.create"), Body, CreateLogView>>
getView     == <<Require("logging.views.get"), GetLogView>>

LogRouting ==
  [rows |-> [sink |-> {}, requiredBucket |-> {}, defaultBucket |-> {}, view |-> {}],
   ops  |-> <<createSink, getSink, listSinks, updateSink, deleteSink, listBuckets, getBucket, listViews, createView,
             getView>>]

-----------------------------------------------------------------------------
(* Cloud Monitoring.                                                       *)

CreateMetricDescriptor == Insert("descriptor")
GetMetricDescriptor    == Get("descriptor")
ListMetricDescriptors  == List("descriptor")
CreateTimeSeriesPoints == Atomic(<<Generate("point")>>)
ListTimeSeriesPoints   == List("point")
DeleteTimeSeriesPoints == Drop("point")
CreateAlertPolicy == Insert("alert")
GetAlertPolicy    == Get("alert")
ListAlertPolicies == List("alert")
UpdateAlertPolicy == <<Change("alert", [body |-> "merge"]), GetAlertPolicy>>
DeleteAlertPolicy == Delete("alert")

createDescriptor == <<Require("monitoring.metricDescriptors.create"), Body, CreateMetricDescriptor>>
\* By the whole name and, failing that, by the type.
getDescriptor    == <<Require("monitoring.metricDescriptors.get"), Peek("descriptor"), IfMissing("descriptor", GetMetricDescriptor)>>
listDescriptors  == <<Require("monitoring.metricDescriptors.list"), ListMetricDescriptors>>
createTimeSeries == <<Require("monitoring.timeSeries.create"), Body, CreateTimeSeriesPoints>>
listTimeSeries   == <<Require("monitoring.timeSeries.list"), ListTimeSeriesPoints>>
deleteTimeSeries == <<Require("monitoring.timeSeries.delete"), Body, DeleteTimeSeriesPoints>>
createAlertPolicy == <<Require("monitoring.alertPolicies.create"), Gates, Body, CreateAlertPolicy>>
getAlertPolicy    == <<Require("monitoring.alertPolicies.get"), GetAlertPolicy>>
listAlertPolicies == <<Require("monitoring.alertPolicies.list"), ListAlertPolicies>>
patchAlertPolicy  ==
  <<Require("monitoring.alertPolicies.update"), GetAlertPolicy, Body>> \o UpdateAlertPolicy
deleteAlertPolicy == <<Require("monitoring.alertPolicies.delete"), DeleteAlertPolicy>>

Monitoring ==
  [rows |-> [descriptor |-> {}, point |-> {}, alert |-> {}],
   ops  |-> <<createDescriptor, getDescriptor, listDescriptors, createTimeSeries, listTimeSeries, deleteTimeSeries,
             createAlertPolicy, getAlertPolicy, listAlertPolicies, patchAlertPolicy, deleteAlertPolicy>>]
=============================================================================
