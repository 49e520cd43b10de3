----------------------------- MODULE ArtifactOps -----------------------------
(***************************************************************************)
(* Artifact Registry: repositories, packages and versions, the Docker      *)
(* registry that pushes into them (internal/services/artifactregistry,     *)
(* internal/store/artifact_cloudbuild.go and artifact_registry_v2.go), and *)
(* the canned answers of Vertex AI (internal/services/vertexai).           *)
(***************************************************************************)
EXTENDS Steps

-----------------------------------------------------------------------------
(* Repositories hold packages, packages versions.  A permission may be on  *)
(* the repository or on its project.  The state of a package is when it    *)
(* was last pushed to.                                                     *)

CreateArRepository    == Insert("repository")
GetArRepository       == Get("repository")
ListArRepositories    == List("repository")
PatchArRepositoryDeepen == <<Get("repository"), Write("repository", [body |-> "merge"])>>
DeleteArRepository ==
  Atomic(<<Peek("package"), IfFound("package", Drop("version")), Drop("package"), Delete("repository")>>)
CreateArPackage       == Insert("package")
GetArPackage          == Get("package")
ListArPackages        == List("package")
DeleteArPackage       == Atomic(<<Drop("version"), Delete("package")>>)
CreateArVersion       == <<Insert("version"), Write("package", [state |-> "own"])>>
GetArVersion          == Get("version")
ListArVersions        == List("version")
DeleteArVersion       == Delete("version")
ListArTagsTheatreDeepen  == ListArVersions
ListArRegistryBlobLinksForRepo == List("link")
\* Of every package its versions, of every version its blob; then what was pushed
\* to the repository, if it is still there.
ListArFilesTheatreDeepen ==
  <<ListArPackages, IfFound("package", ListArVersions), Peek("blob"), Peek("repository"),
    IfFound("repository", ListArRegistryBlobLinksForRepo)>>

createRepository ==
  <<Require("artifactregistry.repositories.create"), Gates, Body, CreateArRepository, Peek("repository")>>
listRepositories == <<Require("artifactregistry.repositories.list"), ListArRepositories>>
getRepository    == <<Body, Require("artifactregistry.repositories.get"), GetArRepository>>
getIamPolicy     ==
  <<Require("artifactregistry.repositories.getIamPolicy"), Exists("repository"), Peek("iamPolicy")>>
setIamPolicy     ==
  <<Require("artifactregistry.repositories.setIamPolicy"), Exists("repository"), Body, Put("iamPolicy")>>
patchRepository  == <<Require("artifactregistry.repositories.update")>> \o PatchArRepositoryDeepen
deleteRepository == <<Require("artifactregistry.repositories.delete"), DeleteArRepository>>
listFiles == <<Require("artifactregistry.files.list"), Exists("repository")>> \o ListArFilesTheatreDeepen
listTags  == <<Require("artifactregistry.tags.list"), Exists("package"), ListArTagsTheatreDeepen>>

createPackage ==
  <<Require("artifactregistry.packages.create"), Exists("repository"), Body, CreateArPackage, Peek("package")>>
listPackages  == <<Require("artifactregistry.packages.list"), ListArPackages>>
getPackage    == <<Require("artifactregistry.packages.get"), GetArPackage>>
deletePackage == <<Require("artifactregistry.packages.delete"), DeleteArPackage>>
createVersion ==
  <<Require("artifactregistry.versions.create"), Exists("package"), Body>> \o CreateArVersion \o <<Peek("version")>>
listVersions  == <<Require("artifactregistry.versions.list"), ListArVersions>>
getVersion    == <<Require("artifactregistry.versions.get"), GetArVersion>>
deleteVersion == <<Require("artifactregistry.versions.delete"), DeleteArVersion>>

RepositoryTables == [repository |-> {}, package |-> {"repository"}, version |-> {"package"}]
Repositories ==
  [rows |-> RepositoryTables @@ [iamPolicy |-> {}],
   ops  |-> <<createRepository, listRepositories, getRepository, getIamPolicy, setIamPolicy, patchRepository,
             deleteRepository, createPackage, listPackages, deletePackage>>]
Packages ==
  [rows |-> RepositoryTables @@ [blob |-> {}, link |-> {"blob"}],
   ops  |-> <<deleteRepository, listFiles, listTags, createPackage, getPackage, deletePackage,
             createVersion, listVersions, getVersion, deleteVersion>>]

-----------------------------------------------------------------------------
(* The Docker registry.  A push stores the layers, then the manifest under *)
(* its tag and its digest, then makes the repository, the package and the  *)
(* version that stand for it.  An upload lives in memory, under a mutex    *)
(* that is released between finding it and dropping it.                    *)

PutArRegistryBlob     == Put("blob")
GetArRegistryBlob     == Get("blob")
LinkArRegistryBlob    == Ensure("link")
PutArRegistryManifest(reference) == Put(reference)
GetArRegistryManifest == Get("tag")
UpsertArPackage       == Put("package")
UpsertArVersion       == <<Put("version"), Write("package", [state |-> "own"])>>

\* The project is the one the image's name starts with, if there is such a project.
requireRegistry    == <<RequireEither("repository", "project")>>
registryV2Ping     == requireRegistry
registryV2Post     == <<Body>> \o requireRegistry \o <<Generate("upload")>>
registryPutBlob    ==
  requireRegistry \o <<Get("upload"), Body, PutArRegistryBlob, LinkArRegistryBlob, Drop("upload")>>
upsertRegistryMetadata == <<Ensure("repository"), UpsertArPackage>> \o UpsertArVersion
registryPutManifest ==
  requireRegistry
  \o <<Body, PutArRegistryBlob, LinkArRegistryBlob, PutArRegistryManifest("tag"), PutArRegistryManifest("digest")>>
  \o upsertRegistryMetadata
registryGetBlob     == requireRegistry \o <<GetArRegistryBlob>>
registryGetManifest == requireRegistry \o <<GetArRegistryManifest>>

\* Vertex AI keeps nothing.
modelPost == <<Require("aiplatform.endpoints.predict"), Gates, Body>>

Registry ==
  [rows |-> RepositoryTables @@
            [upload |-> {}, blob |-> {}, link |-> {"blob"}, tag |-> {"link"}, digest |-> {"link"}],
   ops  |-> <<registryV2Ping, registryV2Post, registryPutBlob, registryPutManifest, registryGetBlob,
             registryGetManifest, deleteRepository, deletePackage, deleteVersion, modelPost>>]
=============================================================================
