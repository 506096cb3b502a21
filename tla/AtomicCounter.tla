--------------------------- MODULE AtomicCounter ---------------------------
(***************************************************************************)
(* What the programs of lab4 are to do: processes that share one counter   *)
(* print its value and increment it, in one step.                          *)
(***************************************************************************)
EXTENDS Integers, Sequences

CONSTANT Procs
VARIABLE output   \* the lines printed, <<process, value>>

Init == output = <<>>

Count(p) == output' = Append(output, <<p, Len(output)>>)

Next == \E p \in Procs : Count(p)

Spec == Init /\ [][Next]_output
=============================================================================
