---------------------------- MODULE MCArtifactRegistry ----------------------------
(***************************************************************************)
(* Two digests, an alias and a lease.                                      *)
(***************************************************************************)
EXTENDS ArtifactRegistry
===================================================================================
