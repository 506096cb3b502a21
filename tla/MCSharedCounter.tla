-------------------------- MODULE MCSharedCounter --------------------------
(***************************************************************************)
(* Instances of SharedCounter: four rounds give each process a first, two  *)
(* middle ones and a last one, in every interleaving with the other's.     *)
(***************************************************************************)
EXTENDS SharedCounter
=============================================================================
