---------------------------- MODULE MCCloudBuild ----------------------------
(***************************************************************************)
(* Instances of CloudBuild for TLC.                                        *)
(***************************************************************************)
EXTENDS CloudBuild
=============================================================================
