----------------------------- MODULE MCSegment -----------------------------
(***************************************************************************)
(* Two servers, the second started before or after the end of the first,   *)
(* and two clients.                                                        *)
(***************************************************************************)
EXTENDS Segment
=============================================================================
