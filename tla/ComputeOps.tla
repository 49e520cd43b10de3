----------------------------- MODULE ComputeOps -----------------------------
(***************************************************************************)
(* Compute Engine (internal/services/compute/service.go and                *)
(* internal/store/compute_engine.go): instances, networks, subnetworks,    *)
(* firewalls.  A patch merges its body with the row it read; an instance's *)
(* network and a subnetwork's are names that nothing looks up.             *)
(***************************************************************************)
EXTENDS Steps

CreateGCEInstance     == Insert("instance")
GetGCEInstance        == Get("instance")
ListGCEInstances      == List("instance")
SetGCEInstanceStatus(to) == <<Change("instance", [state |-> to]), Get("instance")>>
UpdateGCEInstanceBody == <<Exists("instance"), Write("instance", [body |-> "merge"])>>
DeleteGCEInstance     == Delete("instance")

insertInstance == <<Require("compute.instances.create"), Body, CreateGCEInstance>>
listInstances  == <<Require("compute.instances.list"), ListGCEInstances>>
getInstance    == <<Require("compute.instances.get"), GetGCEInstance>>
deleteInstance == <<Require("compute.instances.delete"), DeleteGCEInstance>>
patchInstance  == <<Require("compute.instances.update"), Body, GetGCEInstance>> \o UpdateGCEInstanceBody
instancePOSTAction(verb, to) ==
  <<Body, Require("compute.instances." \o verb), GetGCEInstance>> \o SetGCEInstanceStatus(to)
getZoneOperation ==
  <<RequireEither("compute.zoneOperations.get", "compute.instances.get")>>

Instances ==
  [rows |-> [instance |-> {}],
   ops  |-> <<insertInstance, listInstances, getInstance, deleteInstance, patchInstance,
              instancePOSTAction("start", "RUNNING"), instancePOSTAction("reset", "RUNNING"),
              instancePOSTAction("stop", "TERMINATED"), getZoneOperation>>]

-----------------------------------------------------------------------------
CreateGCENetwork     == Insert("network")
GetGCENetwork        == Get("network")
ListGCENetworks      == List("network")
UpdateGCENetworkBody == <<Change("network", [body |-> "merge"]), Get("network")>>
DeleteGCENetwork     == Delete("network")

insertNetwork == <<Require("compute.networks.create"), Body, CreateGCENetwork>>
listNetworks  == <<Require("compute.networks.list"), ListGCENetworks>>
getNetwork    == <<Require("compute.networks.get"), GetGCENetwork>>
deleteNetwork == <<Require("compute.networks.delete"), DeleteGCENetwork>>
patchNetwork  == <<Require("compute.networks.update"), Body, GetGCENetwork>> \o UpdateGCENetworkBody
getGlobalOperation ==
  <<RequireEither("compute.globalOperations.get", "compute.networks.get")>>

CreateGCESubnetwork     == Insert("subnetwork")
GetGCESubnetwork        == Get("subnetwork")
ListGCESubnetworks      == List("subnetwork")
UpdateGCESubnetworkBody == <<Exists("subnetwork"), Write("subnetwork", [body |-> "merge"])>>
DeleteGCESubnetwork     == Delete("subnetwork")

insertSubnetwork == <<Require("compute.subnetworks.create"), Body, CreateGCESubnetwork>>
listSubnetworks  == <<Require("compute.subnetworks.list"), ListGCESubnetworks>>
getSubnetwork    == <<Require("compute.subnetworks.get"), GetGCESubnetwork>>
deleteSubnetwork == <<Require("compute.subnetworks.delete"), DeleteGCESubnetwork>>
patchSubnetwork  ==
  <<Require("compute.subnetworks.update"), Body, GetGCESubnetwork>> \o UpdateGCESubnetworkBody
getRegionOperation ==
  <<RequireEither("compute.regionOperations.get", "compute.subnetworks.get")>>

Networks ==
  [rows |-> [network |-> {}, subnetwork |-> {}],
   ops  |-> <<insertNetwork, listNetworks, getNetwork, deleteNetwork, patchNetwork, getGlobalOperation,
              insertSubnetwork, listSubnetworks, getSubnetwork, deleteSubnetwork, patchSubnetwork,
              getRegionOperation>>]

-----------------------------------------------------------------------------
CreateGCEFirewall     == Insert("firewall")
GetGCEFirewall        == Get("firewall")
ListGCEFirewalls      == List("firewall")
UpdateGCEFirewallBody == <<Exists("firewall"), Write("firewall", [body |-> "merge"])>>
DeleteGCEFirewall     == Delete("firewall")

insertFirewall   == <<Require("compute.firewalls.create"), Body, CreateGCEFirewall>>
listFirewalls    == <<Require("compute.firewalls.list"), ListGCEFirewalls>>
getFirewallOrValidate == <<Require("compute.firewalls.get"), GetGCEFirewall>>
validateFirewall == <<Require("compute.firewalls.get"), GetGCEFirewall, Body>>
testFirewallIamPermissions == <<Require("compute.firewalls.get"), GetGCEFirewall, Body>>
deleteFirewall   == <<Require("compute.firewalls.delete"), DeleteGCEFirewall>>
patchFirewall    ==
  <<Require("compute.firewalls.update"), Body, GetGCEFirewall>> \o UpdateGCEFirewallBody

\* Images and regions are fixed lists.
listImages         == <<Require("compute.images.list")>>
getImage           == <<Require("compute.images.get"), Body>>
getImageFromFamily == <<Require("compute.images.get"), Body>>
listRegions        == <<Require("compute.regions.list")>>

Firewalls ==
  [rows |-> [firewall |-> {}],
   ops  |-> <<insertFirewall, listFirewalls, getFirewallOrValidate, validateFirewall,
              testFirewallIamPermissions, deleteFirewall, patchFirewall, listImages, getImage,
              getImageFromFamily, listRegions>>]
=============================================================================
