---------------------------- MODULE MCInstances ----------------------------
(***************************************************************************)
(* The instances are interchangeable, but for those that may be killed; so *)
(* are the files.  No symmetry: a liveness property is checked.            *)
(***************************************************************************)
EXTENDS Instances
=============================================================================
