---------------------------- MODULE ResourceOps ----------------------------
(***************************************************************************)
(* Resource Manager with its tags, and Cloud Asset Inventory               *)
(* (internal/services/resourcemanager and cloudasset,                      *)
(* internal/store/identity.go, appengine_crm.go, crm_tags.go,              *)
(* cloudasset.go).                                                         *)
(***************************************************************************)
EXTENDS Steps

-----------------------------------------------------------------------------
(* Projects and organizations.  Nothing deletes either.                    *)

CreateProject  == <<Insert("project"), Reload("project")>>
GetProject     == Get("project")
ListProjects   == List("project")
SearchProjects == List("project")
UpdateProject  == <<Get("project"), Change("project", [body |-> "merge"]), Get("project")>>
GetOrganization == Get("org")

handleListProjects   == <<Require("resourcemanager.projects.list"), ListProjects>>
handleListProjectsV1 == <<Require("resourcemanager.projects.list"), ListProjects>>
handleProjectsCollectionPost == <<Body, Require("resourcemanager.projects.search"), Body, SearchProjects>>
handleCreateProject  == <<Body, Require("resourcemanager.projects.create"), Body>> \o CreateProject
handleGetProject     == <<Body, Require("resourcemanager.projects.get"), GetProject>>
handlePatchProject   == <<Body, Require("resourcemanager.projects.update"), Body>> \o UpdateProject
handleProjectV1Post  == <<Body, Require("resourcemanager.projects.get"), GetProject>>
handleGetOrganization == <<Body, Require("resourcemanager.organizations.get"), GetOrganization>>
\* Of a project, a folder or an organization, which need not exist.
getResourceIamPolicy == <<Body, Require("resourcemanager.projects.getIamPolicy"), Peek("iamPolicy")>>
setResourceIamPolicy == <<Body, Require("resourcemanager.projects.setIamPolicy"), Body, Put("iamPolicy")>>
testIamPermissions   == <<Body, Peek("iamPolicy")>>

Projects ==
  [rows |-> [project |-> {}, org |-> {}, iamPolicy |-> {}],
   ops  |-> <<handleListProjects, handleListProjectsV1, handleProjectsCollectionPost, handleCreateProject,
             handleGetProject, handlePatchProject, handleProjectV1Post, handleGetOrganization,
             getResourceIamPolicy, setResourceIamPolicy, testIamPermissions>>]

-----------------------------------------------------------------------------
(* Folders: a delete marks the folder, an undelete takes the mark away.    *)
(* The folder of a request and the one it is made or moved under are two.  *)

Deleted      == "DELETE_REQUESTED"
NotActive(f) == Hidden(f, "state", Deleted)
CreateFolder == <<InsertAs("folder", [state |-> "ACTIVE"]), Reload("folder")>>
GetFolder    == Get("folder")
ListFolders  == List("folder")
SearchFolders == List("folder")
\* The state is read, then UPDATE ... WHERE state = 'ACTIVE'.
UpdateActive(f, cols) == <<Get(f), NotActive(f), ChangeUnless(f, Deleted, cols), Get(f)>>
UpdateFolderDisplayName == UpdateActive("folder", [body |-> "own"])
MoveFolder              == UpdateActive("folder", [parent |-> "own"])
DeleteFolder(f) ==
  <<Get(f), Unless(f, "state", Deleted), Change(f, [state |-> Deleted]), Get(f)>>
UndeleteFolder(f) ==
  <<Get(f), Unless(f, "state", "ACTIVE"), Change(f, [state |-> "ACTIVE"]), Get(f)>>

handleFoldersCollectionGet == <<Body, Require("resourcemanager.folders.get"), SearchFolders>>
handleListFolders  == <<Body, Require("resourcemanager.folders.list"), ListFolders>>
handleCreateFolder ==
  <<Body, Require("resourcemanager.folders.create"), Get("above"), NotActive("above")>> \o CreateFolder
handleGetFolder    == <<Body, Require("resourcemanager.folders.get"), GetFolder>>
handlePatchFolder  == <<Body, Require("resourcemanager.folders.update"), Body>> \o UpdateFolderDisplayName
handleDeleteFolder(f) == <<Body, Require("resourcemanager.folders.delete")>> \o DeleteFolder(f)
\* On the folder and, since it joins its children, on the destination.
moveFolder ==
  <<Body, Require("resourcemanager.folders.move"), Require("resourcemanager.folders.move"), Get("above"),
    NotActive("above")>> \o MoveFolder
undeleteFolder(f) == <<Require("resourcemanager.folders.undelete")>> \o UndeleteFolder(f)

Folders ==
  [rows |-> [folder |-> {}, above |-> {}],
   states |-> [folder |-> {"ACTIVE", Deleted}, above |-> {"ACTIVE", Deleted}],
   ops  |-> <<handleFoldersCollectionGet, handleListFolders, handleCreateFolder, handleGetFolder,
             handlePatchFolder, handleDeleteFolder("folder"), handleDeleteFolder("above"), moveFolder,
             undeleteFolder("folder"), undeleteFolder("above")>>]

-----------------------------------------------------------------------------
(* Tags.  A key has a generated id; its short name is UNIQUE.              *)

CreateTagKey     == Insert("tagKey")
GetTagKey        == Get("tagKey")
ListTagKeys      == List("tagKey")
DeleteTagKey     == Delete("tagKey")
CreateTagBinding == Generate("tagBinding")
GetTagBinding    == Get("tagBinding")
ListTagBindings  == List("tagBinding")
DeleteTagBinding == Delete("tagBinding")

handleCreateTagKey == <<Body, Require("resourcemanager.tagKeys.create"), CreateTagKey>>
handleListTagKeys  == <<Body, Require("resourcemanager.tagKeys.list"), ListTagKeys>>
handleGetTagKey    == <<Require("resourcemanager.tagKeys.get"), GetTagKey>>
handleDeleteTagKey == <<Require("resourcemanager.tagKeys.delete"), DeleteTagKey>>
handleCreateTagBinding == <<Body, Require("resourcemanager.tagBindings.create"), Body, CreateTagBinding>>
handleListTagBindings  == <<Body, Require("resourcemanager.tagBindings.list"), ListTagBindings>>
handleGetTagBinding    == <<Require("resourcemanager.tagBindings.get"), GetTagBinding>>
handleDeleteTagBinding == <<Require("resourcemanager.tagBindings.delete"), DeleteTagBinding>>

Tags ==
  [rows |-> [tagKey |-> {}, tagBinding |-> {}],
   ops  |-> <<handleCreateTagKey, handleListTagKeys, handleGetTagKey, handleDeleteTagKey, handleCreateTagBinding,
             handleListTagBindings, handleGetTagBinding, handleDeleteTagBinding>>]

-----------------------------------------------------------------------------
(* Cloud Asset Inventory.  The assets are read off the tables of the other *)
(* services, one query each; "asset" stands for them.                      *)

ListInventoryAssets     == List("asset")
CreateCloudAssetFeed    == Insert("feed")
GetCloudAssetFeed       == Get("feed")
ListCloudAssetFeeds     == List("feed")
DeleteCloudAssetFeed    == Delete("feed")
InsertCloudAssetHistory == Generate("history")
ListCloudAssetHistory   == List("history")

\* The projects under a folder or an organization, then the assets of each.
inventoryForScope    == <<Peek("project"), ListInventoryAssets>>
searchAllResources   == <<Require("cloudasset.assets.searchAllResources")>> \o inventoryForScope
listAssetsForParent  == <<Require("cloudasset.assets.listResource")>> \o inventoryForScope
exportAssets ==
  <<Require("cloudasset.assets.exportResource"), Body>> \o inventoryForScope
  \o <<IfFound("asset", InsertCloudAssetHistory)>>
batchGetAssetsHistory == <<Require("cloudasset.assets.exportResource"), ListCloudAssetHistory>>
createFeed == <<Require("cloudasset.feeds.create"), Gates, Body, CreateCloudAssetFeed>>
listFeeds  == <<Require("cloudasset.feeds.list"), ListCloudAssetFeeds>>
getFeed    == <<Require("cloudasset.feeds.get"), GetCloudAssetFeed>>
deleteFeed == <<Require("cloudasset.feeds.delete"), DeleteCloudAssetFeed>>

CloudAsset ==
  [rows |-> [project |-> {}, asset |-> {"project"}, history |-> {}, feed |-> {}],
   ops  |-> <<searchAllResources, listAssetsForParent, exportAssets, batchGetAssetsHistory, createFeed, listFeeds,
             getFeed, deleteFeed>>]
=============================================================================
