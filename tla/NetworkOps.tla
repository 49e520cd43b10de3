----------------------------- MODULE NetworkOps -----------------------------
(***************************************************************************)
(* Cloud DNS, load balancing, CDN, Cloud Armor and Certificate Manager     *)
(* (internal/services/dns, loadbalancing, cdn, cloudarmor and              *)
(* certificatemanager; internal/store/dns_dataflow.go, gke_lb_cdn.go and   *)
(* security.go).                                                           *)
(***************************************************************************)
EXTENDS Steps

-----------------------------------------------------------------------------
(* Cloud DNS.  Changes are kept in a map of the process, not in a table.   *)

CreateDNSManagedZone == Insert("zone")
GetDNSManagedZone    == Reload("zone")
GetDNSManagedZoneByProjectID == Get("zone")
ListDNSManagedZones  == List("zone")
DeleteDNSManagedZone == Atomic(<<Drop("rrset"), Drop("soa"), Delete("zone")>>)
CreateDNSRrset == Insert("rrset")
GetDNSRrset    == Get("rrset")
ListDNSRrsets  == List("rrset")
DeleteDNSRrset == Delete("rrset")
UpsertDNSRrset == Put("rrset")

resolveZone == GetDNSManagedZoneByProjectID

\* Nobody asks whether the NS and SOA records were stored.
createZone ==
  <<Require("dns.managedZones.create"), Gates, Body, CreateDNSManagedZone, Ensure("soa"),
    GetDNSManagedZone>>
getZone    == <<Body, Require("dns.managedZones.get"), resolveZone>>
listZones  == <<Require("dns.managedZones.list"), ListDNSManagedZones>>
deleteZone == <<Require("dns.managedZones.delete"), resolveZone, DeleteDNSManagedZone>>
createRrset ==
  <<Require("dns.resourceRecordSets.create"), resolveZone, Body, CreateDNSRrset, Peek("rrset")>>
getRrset    == <<Require("dns.resourceRecordSets.get"), resolveZone, Body, GetDNSRrset>>
listRrsets  == <<Require("dns.resourceRecordSets.list"), resolveZone, ListDNSRrsets>>
deleteRrset == <<Require("dns.resourceRecordSets.delete"), resolveZone, DeleteDNSRrset>>
createChange ==
  <<Require("dns.changes.create"), resolveZone, Drop("rrset"), UpsertDNSRrset, Put("change")>>
getChange   == <<Require("dns.changes.get"), resolveZone, Get("change")>>
listChanges == <<Require("dns.changes.list"), resolveZone, List("change")>>

Dns ==
  [rows |-> [zone |-> {}, rrset |-> {"zone"}, soa |-> {"zone"}, change |-> {}],
   ops  |-> <<createZone, getZone, listZones, deleteZone, createRrset, getRrset, listRrsets,
              deleteRrset, createChange, getChange, listChanges>>]

-----------------------------------------------------------------------------
(* Load balancing: rows name each other in their bodies, and nothing checks*)
(* those names until a request is routed.                                  *)

CreateLBBackendService == Insert("backend")
GetLBBackendService    == Get("backend")
ListLBBackendServices  == List("backend")
UpdateLBBackendServiceSecurityPolicy == Change("backend", [policy |-> "own"])
DeleteLBBackendService == Delete("backend")

insertBackendService == <<Require("compute.backendServices.create"), Body, CreateLBBackendService>>
\* A patch without a policy writes back the one it read.
patchBackendService ==
  <<Require("compute.backendServices.update"), Body, GetLBBackendService,
    UpdateLBBackendServiceSecurityPolicy>>
setBackendServiceSecurityPolicy ==
  <<Require("compute.backendServices.update"), Body, GetLBBackendService,
    UpdateLBBackendServiceSecurityPolicy>>
getBackendService    == <<Require("compute.backendServices.get"), GetLBBackendService>>
listBackendServices  == <<Require("compute.backendServices.list"), ListLBBackendServices>>
deleteBackendService == <<Require("compute.backendServices.delete"), DeleteLBBackendService>>

CreateLBTargetHTTPSProxy == Insert("proxy")
GetLBTargetHTTPSProxy    == Get("proxy")
ListLBTargetHTTPSProxies == List("proxy")
UpdateLBTargetHTTPSProxy == Change("proxy", [body |-> "merge", policy |-> "merge"])
DeleteLBTargetHTTPSProxy == Delete("proxy")

insertTargetHTTPSProxy == <<Require("compute.targetHttpsProxies.create"), Body, CreateLBTargetHTTPSProxy>>
getTargetHTTPSProxy    == <<Require("compute.targetHttpsProxies.get"), GetLBTargetHTTPSProxy>>
listTargetHTTPSProxies == <<Require("compute.targetHttpsProxies.list"), ListLBTargetHTTPSProxies>>
patchTargetHTTPSProxy  ==
  <<Require("compute.targetHttpsProxies.update"), Body, GetLBTargetHTTPSProxy, UpdateLBTargetHTTPSProxy>>
deleteTargetHTTPSProxy == <<Require("compute.targetHttpsProxies.delete"), DeleteLBTargetHTTPSProxy>>

CreateLBURLMap == Insert("urlMap")
GetLBURLMap    == Get("urlMap")
ListLBURLMaps  == List("urlMap")
DeleteLBURLMap == Delete("urlMap")

insertURLMap == <<Require("compute.urlMaps.create"), Body, CreateLBURLMap, Reload("urlMap")>>
getURLMap    == <<Require("compute.urlMaps.get"), GetLBURLMap>>
listURLMaps  == <<Require("compute.urlMaps.list"), ListLBURLMaps>>
deleteURLMap == <<Require("compute.urlMaps.delete"), DeleteLBURLMap>>

CreateLBForwardingRule  == Insert("rule")
GetLBForwardingRule     == Get("rule")
GetLBForwardingRuleByID == Get("rule")
ListLBForwardingRules   == List("rule")
DeleteLBForwardingRule  == Delete("rule")

insertForwardingRule ==
  <<Require("compute.forwardingRules.create"), Body, CreateLBForwardingRule, Reload("rule")>>
getForwardingRule    == <<Require("compute.forwardingRules.get"), GetLBForwardingRule>>
listForwardingRules  == <<Require("compute.forwardingRules.list"), ListLBForwardingRules>>
deleteForwardingRule == <<Require("compute.forwardingRules.delete"), DeleteLBForwardingRule>>

\* The data path follows the names, then reads the object its caller may read.
serveGCSBackend == <<Body, Peek("bucket"), Require("storage.objects.get"), Get("object")>>
resolveBackendService == <<GetLBTargetHTTPSProxy, GetLBURLMap>>
handleLBInvoke ==
  <<GetLBForwardingRuleByID>> \o resolveBackendService \o <<GetLBBackendService>> \o serveGCSBackend

Backends ==
  [rows |-> [backend |-> {}, proxy |-> {}],
   ops  |-> <<insertBackendService, patchBackendService, setBackendServiceSecurityPolicy,
              getBackendService, listBackendServices, deleteBackendService, insertTargetHTTPSProxy,
              getTargetHTTPSProxy, listTargetHTTPSProxies, patchTargetHTTPSProxy,
              deleteTargetHTTPSProxy>>]
Routes ==
  [rows |-> [urlMap |-> {}, rule |-> {}],
   ops  |-> <<insertURLMap, getURLMap, listURLMaps, deleteURLMap, insertForwardingRule,
              getForwardingRule, listForwardingRules, deleteForwardingRule>>]

-----------------------------------------------------------------------------
(* CDN.                                                                    *)

CreateCDNDistribution == Insert("distribution")
GetCDNDistribution    == Reload("distribution")
GetCDNDistributionByID == Get("distribution")
ListCDNDistributions  == List("distribution")
DeleteCDNDistribution == Delete("distribution")

createDistribution ==
  <<Require("compute.backendBuckets.create"), Body, CreateCDNDistribution, GetCDNDistribution>>
getDistribution    == <<Require("compute.backendBuckets.get"), GetCDNDistributionByID>>
listDistributions  == <<Require("compute.backendBuckets.list"), ListCDNDistributions>>
deleteDistribution == <<Require("compute.backendBuckets.delete"), DeleteCDNDistribution>>

serveGCSFromCDN == serveGCSBackend
lbSvcResolveBackend == resolveBackendService
handleEdge(origin) ==
  <<GetCDNDistributionByID, Body>>
  \o (IF origin = "lb"
      THEN <<GetLBForwardingRuleByID>> \o lbSvcResolveBackend \o <<GetLBBackendService>> ELSE <<>>)
  \o serveGCSFromCDN

Edge ==
  [rows |-> [distribution |-> {}, rule |-> {}, proxy |-> {}, urlMap |-> {}, backend |-> {},
             bucket |-> {}, object |-> {"bucket"}],
   ops  |-> <<handleLBInvoke, handleEdge("lb"), deleteForwardingRule, deleteBackendService>>]
Cdn ==
  [rows |-> [distribution |-> {}, bucket |-> {}, object |-> {"bucket"}],
   ops  |-> <<createDistribution, getDistribution, listDistributions, deleteDistribution,
              handleEdge("gcs")>>]

-----------------------------------------------------------------------------
(* Cloud Armor.  The rules of a policy are one list in its row.            *)

CreateCloudArmorSecurityPolicy == Insert("policy")
GetCloudArmorSecurityPolicy    == Get("policy")
GetCloudArmorSecurityPolicyByProjectID == Get("policy")
ListCloudArmorSecurityPolicies == List("policy")
UpdateCloudArmorSecurityPolicyRules == <<Change("policy", [policy |-> "merge", state |-> "back"]), Exists("policy")>>
UpdateCloudArmorSecurityPolicyBody  == <<Change("policy", [body |-> "merge"]), Exists("policy")>>
DeleteCloudArmorSecurityPolicy == Delete("policy")

insertPolicy == <<Require("compute.securityPolicies.create"), Gates, Body, CreateCloudArmorSecurityPolicy>>
listPolicies == <<Require("compute.securityPolicies.list"), ListCloudArmorSecurityPolicies>>
getPolicy    == <<Body, Require("compute.securityPolicies.get"), GetCloudArmorSecurityPolicyByProjectID>>
deletePolicy == <<Require("compute.securityPolicies.delete"), DeleteCloudArmorSecurityPolicy>>
addRule ==
  <<Require("compute.securityPolicies.update"), GetCloudArmorSecurityPolicy, Body>>
  \o UpdateCloudArmorSecurityPolicyRules
removeRule ==
  <<Require("compute.securityPolicies.update"), Body, GetCloudArmorSecurityPolicy, Body>>
  \o UpdateCloudArmorSecurityPolicyRules
setLabels ==
  <<Require("compute.securityPolicies.update"), GetCloudArmorSecurityPolicy, Body>>
  \o UpdateCloudArmorSecurityPolicyBody
validatePolicy ==
  <<Require("compute.securityPolicies.get"), GetCloudArmorSecurityPolicyByProjectID, Body>>

Armor ==
  [rows |-> [policy |-> {}],
   ops  |-> <<insertPolicy, listPolicies, getPolicy, deletePolicy, addRule, removeRule, setLabels,
              validatePolicy>>]

-----------------------------------------------------------------------------
(* Certificate Manager.                                                    *)

CreateCertManagerCertificate == Insert("cert")
GetCertManagerCertificate    == Get("cert")
ListCertManagerCertificates  == List("cert")
DeleteCertManagerCertificate == Delete("cert")
CreateCertManagerCertificateMap == Insert("map")
GetCertManagerCertificateMap    == Get("map")
ListCertManagerCertificateMaps  == List("map")
DeleteCertManagerCertificateMap == Delete("map")

createCertificate ==
  <<Require("certificatemanager.certs.create"), Gates, Body, CreateCertManagerCertificate, Reload("cert")>>
getCertificate    == <<Body, Require("certificatemanager.certs.get"), GetCertManagerCertificate>>
listCertificates  == <<Require("certificatemanager.certs.list"), ListCertManagerCertificates>>
deleteCertificate == <<Require("certificatemanager.certs.delete"), DeleteCertManagerCertificate>>
createCertificateMap ==
  <<Require("certificatemanager.certmaps.create"), Body, CreateCertManagerCertificateMap, Reload("map")>>
getCertificateMap    == <<Body, Require("certificatemanager.certmaps.get"), GetCertManagerCertificateMap>>
listCertificateMaps  == <<Require("certificatemanager.certmaps.list"), ListCertManagerCertificateMaps>>
deleteCertificateMap == <<Require("certificatemanager.certmaps.delete"), DeleteCertManagerCertificateMap>>
getOperation == <<Require("certificatemanager.operations.get")>>

Certificates ==
  [rows |-> [cert |-> {}, map |-> {}],
   ops  |-> <<createCertificate, getCertificate, listCertificates, deleteCertificate,
              createCertificateMap, getCertificateMap, listCertificateMaps, deleteCertificateMap,
              getOperation>>]
=============================================================================
