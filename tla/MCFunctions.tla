---------------------------- MODULE MCFunctions ----------------------------
(***************************************************************************)
(* Two requests about a Cloud Function and the upload of its source, from  *)
(* a location that has neither.                                            *)
(***************************************************************************)
EXTENDS Handlers

Server == INSTANCE ServerlessOps
MCGroups == [functions |-> Server!Functions]

MCInit == Init /\ db = [t \in Tables |-> Missing]
MCSpec == MCInit /\ [][Next]_vars

\* docs/services/cloud-functions.md: "Create with `buildConfig.source.storageSource`
\* starts `DEPLOYING` until the generateUploadUrl path accepts a source zip, then
\* flips to `ACTIVE`": once the requests are answered no function whose source has
\* been accepted is still DEPLOYING.
AcceptedSourceDeploys ==
  (\A h \in Handler : ~Running(h)) /\ db["function"] # Missing /\ db["upload"] # Missing
    => db["function"].state # {"DEPLOYING"}
=============================================================================
