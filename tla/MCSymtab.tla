------------------------------ MODULE MCSymtab ------------------------------
(***************************************************************************)
(* Three names, as many cells: enough for a removal at the head, in the    *)
(* middle and at the tail, and for an address to be allocated again.       *)
(***************************************************************************)
EXTENDS Symtab

CONSTANTS PATH, PS1, exit, v1, v2, halt, c1, c2, c3

AllNames  == {PATH, PS1, exit}
AllValues == {v1, v2}
AllFuncs  == {halt}
AllAddr   == {c1, c2, c3}
=============================================================================
