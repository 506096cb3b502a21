---------------------------- MODULE Descriptors ----------------------------
(***************************************************************************)
(* The descriptor table of a process, as the kernel keeps it: a function   *)
(* from the open descriptors to what they refer to.  External to src/: the *)
(* calls are those of the programs in assignment1/examples.                *)
(***************************************************************************)
EXTENDS Integers, FiniteSets, FiniteSetsExt

Stdin  == <<"stdin", 0>>
Stdout == <<"stdout", 0>>
Stderr == <<"stderr", 0>>

NoFds    == [fd \in {} |-> Stdin]
Standard == [fd \in 0..2 |-> IF fd = 0 THEN Stdin ELSE IF fd = 1 THEN Stdout ELSE Stderr]

Refers(t, fd, e) == fd \in DOMAIN t /\ t[fd] = e

\* EBADF leaves the table as it is.
Close(t, fd) == [d \in DOMAIN t \ {fd} |-> t[d]]

Dup2(t, old, new) ==
  IF old \notin DOMAIN t THEN t
  ELSE [d \in DOMAIN t \cup {new} |-> IF d = new THEN t[old] ELSE t[d]]

\* The descriptor the next call that opens something returns.
LowestFree(t) == Min(0..Cardinality(DOMAIN t) \ DOMAIN t)

Opened(t, e) ==
  [d \in DOMAIN t \cup {LowestFree(t)} |-> IF d \in DOMAIN t THEN t[d] ELSE e]
=============================================================================
