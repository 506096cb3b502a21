-------------------------- MODULE PipelinesProofs --------------------------
(***************************************************************************)
(* Proofs about both pipeline programs, for any number of commands and     *)
(* items and pipes of any capacity, started with any of the standard       *)
(* descriptors open.                                                       *)
(***************************************************************************)
EXTENDS MCPipelines, FiniteSetTheorems, TLAPS

-----------------------------------------------------------------------------
(* Descriptor tables. *)

TableOK(t) == IsFiniteSet(DOMAIN t) /\ DOMAIN t \subseteq Nat

\* A set of numbers has a least one.
LEMMA Least ==
  ASSUME NEW S \in SUBSET Nat, S # {}
  PROVE  Min(S) \in S /\ \A y \in S : Min(S) <= y
<1> DEFINE R == {p \in Nat \X Nat : p[1] < p[2]}
<1>1. IsWellFoundedOn(R, Nat)
  BY NatLessThanWellFounded DEF OpToRel
<1>2. PICK x \in S : \A y \in S : <<y, x>> \notin R
  BY <1>1, WFMin
<1>3. ASSUME NEW y \in S PROVE x <= y
  <2>1. <<y, x>> \notin R /\ x \in Nat /\ y \in Nat
    BY <1>2
  <2>2. y < x => <<y, x>> \in R
    BY <2>1
  <2> HIDE DEF R
  <2> QED BY <2>1, <2>2
<1> QED BY <1>3 DEF Min

\* open() and its like find a descriptor that is not in use.
LEMMA FreeFd ==
  ASSUME NEW t, TableOK(t)
  PROVE  /\ LowestFree(t) \in Nat \ DOMAIN t
         /\ \A m \in Nat : m < LowestFree(t) => m \in DOMAIN t
<1> DEFINE n == Cardinality(DOMAIN t)
<1>1. n \in Nat /\ IsFiniteSet(DOMAIN t)
  BY FS_CardinalityType DEF TableOK
<1>2. Cardinality(0..n) = n + 1
  BY <1>1, FS_Interval
<1>3. ~(0..n \subseteq DOMAIN t)
  BY <1>1, <1>2, FS_Subset
<1> HIDE DEF n
<1>4. 0..n \ DOMAIN t \in SUBSET Nat /\ 0..n \ DOMAIN t # {}
  BY <1>1, <1>3
<1> DEFINE a == Min(0..n \ DOMAIN t)
<1>5. a \in 0..n \ DOMAIN t /\ \A y \in 0..n \ DOMAIN t : a <= y
  BY <1>4, Least
<1> HIDE DEF a
<1>6. ASSUME NEW m \in Nat, m < a PROVE m \in DOMAIN t
  BY <1>1, <1>5, <1>6
<1>7. LowestFree(t) = a
  BY DEF LowestFree, a, n
<1> QED BY <1>1, <1>5, <1>6, <1>7

LEMMA OpenedTable ==
  ASSUME NEW t, TableOK(t), NEW e
  PROVE  /\ TableOK(Opened(t, e))
         /\ DOMAIN Opened(t, e) = DOMAIN t \cup {LowestFree(t)}
         /\ Opened(t, e)[LowestFree(t)] = e
         /\ \A d \in DOMAIN t : Opened(t, e)[d] = t[d]
  BY FreeFd, FS_AddElement DEF TableOK, Opened

LEMMA ClosedTable ==
  ASSUME NEW t, TableOK(t), NEW fd
  PROVE  /\ TableOK(Close(t, fd))
         /\ DOMAIN Close(t, fd) = DOMAIN t \ {fd}
         /\ \A d \in DOMAIN t \ {fd} : Close(t, fd)[d] = t[d]
  BY FS_RemoveElement DEF TableOK, Close

\* What a redirection of a descriptor that is open leaves.
LEMMA RedirectedTable ==
  ASSUME NEW t, TableOK(t), NEW old \in DOMAIN t, NEW new \in Nat, old # new
  PROVE  /\ TableOK(Redirect(t, old, new))
         /\ DOMAIN Redirect(t, old, new) = (DOMAIN t \cup {new}) \ {old}
         /\ Redirect(t, old, new)[new] = t[old]
         /\ \A d \in DOMAIN t \ {old, new} : Redirect(t, old, new)[d] = t[d]
<1> DEFINE u == Dup2(t, old, new)
<1>1. /\ DOMAIN u = DOMAIN t \cup {new} /\ u[new] = t[old]
      /\ \A d \in DOMAIN t \ {new} : u[d] = t[d]
  BY DEF Dup2
<1>2. TableOK(u)
  BY <1>1, FS_AddElement DEF TableOK
<1> HIDE DEF u
<1>3. /\ TableOK(Close(u, old)) /\ DOMAIN Close(u, old) = DOMAIN u \ {old}
      /\ \A d \in DOMAIN u \ {old} : Close(u, old)[d] = u[d]
  BY <1>2, ClosedTable
<1>4. Redirect(t, old, new) = Close(u, old)
  BY DEF Redirect, u
<1> QED BY <1>1, <1>3, <1>4

\* Different ends are different.
LEMMA EndsDiffer ==
  /\ \A j, k : ReadEnd(j) = ReadEnd(k) => j = k
  /\ \A j, k : WriteEnd(j) = WriteEnd(k) => j = k
  /\ \A j, k : ReadEnd(j) # WriteEnd(k)
  /\ \A k : {ReadEnd(k), WriteEnd(k)} \cap {Stdin, Stdout, Stderr} = {}
  /\ Stdin # Stdout /\ Stdin # Stderr /\ Stdout # Stderr
  BY DEF ReadEnd, WriteEnd, Stdin, Stdout, Stderr

-----------------------------------------------------------------------------
(* Who has what open. *)

\* Any of the standard descriptors, and no other.
StandardOnly(t) == DOMAIN t \subseteq 0..2 /\ \A d \in DOMAIN t : t[d] = Standard[d]

StandardStart == \A t \in Started : StandardOnly(t)

Reads(k)  == pipefds[k][1]
Writes(k) == pipefds[k][2]

\* pipe() returns the lowest descriptors, in this order.
PipeOK(k) == Reads(k) \in 0..5 /\ Writes(k) \in 0..5 /\ Reads(k) < Writes(k)

\* The table of the parent, and then of child c, at the fork of c: the read end
\* of the pipe before c, and, if there is one, both ends of the pipe after it.
Handed(t, c, both) ==
  /\ DOMAIN t \subseteq 0..5
  /\ c > 1 => PipeOK(c-1) /\ Refers(t, Reads(c-1), ReadEnd(c-1))
  /\ c > 1 /\ ~both => Writes(c-1) \notin DOMAIN t
  /\ both => PipeOK(c) /\ Refers(t, Reads(c), ReadEnd(c)) /\ Refers(t, Writes(c), WriteEnd(c))
  /\ \A d \in DOMAIN t : \/ d \in 0..2 /\ t[d] = Standard[d]
                         \/ c > 1 /\ d = Reads(c-1)
                         \/ both /\ d \in {Reads(c), Writes(c)}

\* The table of child c once it is wired.
WiredTable(t, c) ==
  /\ DOMAIN t \subseteq 0..2
  /\ \A d \in DOMAIN t :
       t[d] = CASE d = 0 -> IF c = 1 THEN Stdin ELSE ReadEnd(c - 1)
                [] d = 1 -> IF c = Count THEN Stdout ELSE WriteEnd(c)
                [] OTHER -> Stderr
  /\ c > 1 => 0 \in DOMAIN t
  /\ c < Count => 1 \in DOMAIN t

LEMMA CountOK == Count \in Nat /\ Count >= 2 /\ 1 \in Commands /\ Count \in Commands
  BY PipelineOK DEF Commands

LEMMA StandardEnds ==
  /\ Standard[0] = Stdin /\ Standard[1] = Stdout /\ Standard[2] = Stderr
  BY DEF Standard

LEMMA SmallTable == ASSUME NEW t, DOMAIN t \subseteq 0..5 PROVE TableOK(t)
<1>1. 0 \in Int /\ 5 \in Int
  OBVIOUS
<1>2. IsFiniteSet(0..5)
  BY <1>1, FS_Interval
<1> QED BY <1>2, FS_Subset DEF TableOK

\* The first redirection, of standard input: w is the descriptor that is to
\* become standard output.
LEMMA WiresInput ==
  ASSUME NEW c \in Commands, NEW t, DOMAIN t \subseteq 0..5, NEW w, w # 0,
         c > 1 => Reads(c-1) \in Nat /\ Refers(t, Reads(c-1), ReadEnd(c-1)) /\ w # Reads(c-1),
         \A d \in DOMAIN t : \/ d \in 0..2 /\ t[d] = Standard[d]
                             \/ c > 1 /\ d = Reads(c-1)
                             \/ d = w
  PROVE  LET u == Redirect(t, ReadFd(c), 0)
         IN /\ DOMAIN u \subseteq 0..5
            /\ c > 1 => 0 \in DOMAIN u
            /\ 0 \in DOMAIN u => u[0] = IF c = 1 THEN Stdin ELSE ReadEnd(c-1)
            /\ \A d \in DOMAIN u \ {0} : d = w \/ (d \in 1..2 /\ u[d] = Standard[d])
            /\ w \in DOMAIN t => w \in DOMAIN u /\ u[w] = t[w]
<1> DEFINE u == Redirect(t, ReadFd(c), 0)
           r == Reads(c-1)
<1>1. CASE c = 1
  <2>1. u = t
    BY <1>1 DEF Redirect, ReadFd
  <2>2. 0 \in DOMAIN t => t[0] = Stdin
    BY <1>1, StandardEnds
  <2>3. \A d \in DOMAIN t \ {0} : d = w \/ (d \in 1..2 /\ t[d] = Standard[d])
    BY <1>1
  <2> QED BY <1>1, <2>1, <2>2, <2>3
<1>2. CASE c > 1 /\ r = 0
  <2>1. u = t
    BY <1>2 DEF Redirect, ReadFd, Reads
  <2>2. 0 \in DOMAIN t /\ t[0] = ReadEnd(c-1)
    BY <1>2 DEF Refers
  <2>3. \A d \in DOMAIN t \ {0} : d = w \/ (d \in 1..2 /\ t[d] = Standard[d])
    BY <1>2
  <2> QED BY <1>2, <2>1, <2>2, <2>3
<1>3. CASE c > 1 /\ r # 0
  <2>1. r \in DOMAIN t /\ t[r] = ReadEnd(c-1) /\ r \in Nat \ {0} /\ ReadFd(c) = r /\ w # r
    BY <1>3 DEF Refers, ReadFd, Reads
  <2> HIDE DEF r
  <2>2. /\ DOMAIN u = (DOMAIN t \cup {0}) \ {r} /\ u[0] = t[r]
        /\ \A d \in DOMAIN t \ {r, 0} : u[d] = t[d]
    <3> DEFINE x == Redirect(t, r, 0)
    <3>1. TableOK(t) /\ 0 \in Nat /\ r # 0 /\ r \in DOMAIN t
      BY <2>1, SmallTable
    <3>2. /\ DOMAIN x = (DOMAIN t \cup {0}) \ {r} /\ x[0] = t[r]
          /\ \A d \in DOMAIN t \ {r, 0} : x[d] = t[d]
      BY <3>1, RedirectedTable
    <3>3. u = x
      BY <2>1
    <3> HIDE DEF u, x
    <3> QED BY <3>2, <3>3
  <2> HIDE DEF u
  <2>3. DOMAIN u \subseteq 0..5 /\ 0 \in DOMAIN u /\ u[0] = ReadEnd(c-1)
    BY <2>1, <2>2
  <2>4. \A d \in DOMAIN u \ {0} : d = w \/ (d \in 1..2 /\ u[d] = Standard[d])
    <3> SUFFICES ASSUME NEW d \in DOMAIN u \ {0}, d # w PROVE d \in 1..2 /\ u[d] = Standard[d]
      OBVIOUS
    <3>1. d \in DOMAIN t /\ d # r /\ u[d] = t[d]
      BY <2>2
    <3>2. d \in 0..2 /\ t[d] = Standard[d]
      BY <3>1 DEF r
    <3> QED BY <3>1, <3>2
  <2>5. w \in DOMAIN t => w \in DOMAIN u /\ u[w] = t[w]
    BY <2>1, <2>2
  <2> QED BY <1>3, <2>3, <2>4, <2>5 DEF u
<1> QED BY <1>1, <1>2, <1>3, CountOK DEF Commands

\* close(), dup2() and close() again leave a child its own ends only.
LEMMA Wires ==
  ASSUME NEW c \in Commands, NEW t, Handed(t, c, c < Count)
  PROVE  WiredTable(Wired(t, c), c)
<1> DEFINE v == Close(t, CloseFd(c))
           u == Redirect(v, ReadFd(c), 0)
           w == IF c < Count THEN Writes(c) ELSE -1
<1>1. /\ DOMAIN t \subseteq 0..5
      /\ c > 1 => PipeOK(c-1) /\ Refers(t, Reads(c-1), ReadEnd(c-1))
      /\ c = Count => Writes(c-1) \notin DOMAIN t
      /\ c < Count => PipeOK(c) /\ Refers(t, Reads(c), ReadEnd(c)) /\ Refers(t, Writes(c), WriteEnd(c))
      /\ \A d \in DOMAIN t : \/ d \in 0..2 /\ t[d] = Standard[d]
                             \/ c > 1 /\ d = Reads(c-1)
                             \/ c < Count /\ d \in {Reads(c), Writes(c)}
  BY CountOK DEF Handed
<1>2. CloseFd(c) = IF c = Count THEN Writes(c-1) ELSE Reads(c)
  BY DEF CloseFd, Reads, Writes
<1>3. c > 1 => /\ Reads(c-1) \in Nat /\ Reads(c-1) \in DOMAIN t /\ t[Reads(c-1)] = ReadEnd(c-1)
               /\ CloseFd(c) # Reads(c-1) /\ w # Reads(c-1)
  <2> SUFFICES ASSUME c > 1
               PROVE  /\ Reads(c-1) \in Nat /\ Reads(c-1) \in DOMAIN t
                      /\ t[Reads(c-1)] = ReadEnd(c-1)
                      /\ CloseFd(c) # Reads(c-1) /\ w # Reads(c-1)
    OBVIOUS
  <2>1. /\ Reads(c-1) \in Nat /\ Reads(c-1) < Writes(c-1) /\ Writes(c-1) \in Nat
        /\ Reads(c-1) \in DOMAIN t /\ t[Reads(c-1)] = ReadEnd(c-1)
    BY <1>1 DEF PipeOK, Refers
  <2>2. CASE c = Count
    <3>1. w = -1 /\ CloseFd(c) = Writes(c-1)
      BY <1>2, <2>2, CountOK
    <3> QED BY <2>1, <3>1
  <2>3. CASE c < Count
    <3>1. t[Reads(c)] = ReadEnd(c) /\ t[Writes(c)] = WriteEnd(c)
      BY <1>1, <2>3 DEF Refers
    <3>2. ReadEnd(c) # ReadEnd(c-1) /\ WriteEnd(c) # ReadEnd(c-1)
      BY EndsDiffer DEF Commands
    <3>3. CloseFd(c) = Reads(c) /\ w = Writes(c)
      BY <1>2, <2>3, CountOK DEF Commands
    <3> QED BY <2>1, <3>1, <3>2, <3>3
  <2> QED BY <2>2, <2>3, CountOK DEF Commands
<1>4. /\ DOMAIN v = DOMAIN t \ {CloseFd(c)} /\ \A d \in DOMAIN v : v[d] = t[d]
  BY <1>1, SmallTable, ClosedTable
<1>5. /\ w # 0
      /\ c < Count => /\ w = Writes(c) /\ w \in Nat /\ w # CloseFd(c)
                      /\ w \in DOMAIN t /\ t[w] = WriteEnd(c) /\ CloseFd(c) = Reads(c)
      /\ c = Count => CloseFd(c) \notin DOMAIN t
  BY <1>1, <1>2, CountOK DEF PipeOK, Refers, Commands
<1> HIDE DEF v, w
<1>6. /\ DOMAIN v \subseteq 0..5
      /\ c > 1 => Reads(c-1) \in Nat /\ Refers(v, Reads(c-1), ReadEnd(c-1)) /\ w # Reads(c-1)
      /\ \A d \in DOMAIN v : \/ d \in 0..2 /\ v[d] = Standard[d]
                             \/ c > 1 /\ d = Reads(c-1)
                             \/ d = w
      /\ c < Count => w \in DOMAIN v /\ v[w] = WriteEnd(c)
  <2>1. DOMAIN v \subseteq 0..5 /\ (c < Count => w \in DOMAIN v /\ v[w] = WriteEnd(c))
    BY <1>1, <1>4, <1>5
  <2>2. c > 1 => Reads(c-1) \in Nat /\ Refers(v, Reads(c-1), ReadEnd(c-1)) /\ w # Reads(c-1)
    BY <1>3, <1>4 DEF Refers
  <2>3. ASSUME NEW d \in DOMAIN v
        PROVE  (d \in 0..2 /\ v[d] = Standard[d]) \/ (c > 1 /\ d = Reads(c-1)) \/ d = w
    <3>1. v[d] = t[d] /\ d \in DOMAIN t /\ d # CloseFd(c)
      BY <1>4
    <3> QED BY <1>1, <1>5, <3>1
  <2> QED BY <2>1, <2>2, <2>3
<1>7. /\ DOMAIN u \subseteq 0..5
      /\ c > 1 => 0 \in DOMAIN u
      /\ 0 \in DOMAIN u => u[0] = IF c = 1 THEN Stdin ELSE ReadEnd(c-1)
      /\ \A d \in DOMAIN u \ {0} : d = w \/ (d \in 1..2 /\ u[d] = Standard[d])
      /\ c < Count => w \in DOMAIN u /\ u[w] = WriteEnd(c)
  BY <1>5, <1>6, WiresInput
<1>8. Wired(t, c) = Redirect(u, WriteFd(c), 1)
  BY DEF Wired, u, v
<1> HIDE DEF u
<1>9. CASE c = Count
  <2>1. Wired(t, c) = u
    BY <1>8, <1>9 DEF Redirect, WriteFd
  <2>2. \A d \in DOMAIN u : d \in 0..2 /\ (d # 0 => u[d] = Standard[d])
    <3>1. \A d \in DOMAIN u : d \in 0..5 /\ d # w
      BY <1>7, <1>9, CountOK DEF w
    <3> QED BY <1>7, <3>1
  <2>3. \A d \in DOMAIN u :
          u[d] = CASE d = 0 -> IF c = 1 THEN Stdin ELSE ReadEnd(c - 1)
                   [] d = 1 -> IF c = Count THEN Stdout ELSE WriteEnd(c)
                   [] OTHER -> Stderr
    BY <1>7, <1>9, <2>2, StandardEnds
  <2> QED BY <1>7, <1>9, <2>1, <2>2, <2>3, CountOK DEF WiredTable
<1>10. CASE c < Count
  <2> DEFINE x == Redirect(u, w, 1)
  <2>1. Wired(t, c) = x /\ w \in DOMAIN u /\ u[w] = WriteEnd(c) /\ w \in Nat \ {0}
    BY <1>5, <1>7, <1>8, <1>10, CountOK DEF WriteFd, Writes
  <2>2. /\ 1 \in DOMAIN x /\ x[1] = WriteEnd(c)
        /\ \A d \in DOMAIN x \ {1} : d \in DOMAIN u /\ x[d] = u[d] /\ d # w
        /\ 0 \in DOMAIN u => 0 \in DOMAIN x
    <3>1. CASE w = 1
      <4>1. x = u
        BY <3>1 DEF Redirect
      <4> QED BY <2>1, <3>1, <4>1
    <3>2. CASE w # 1
      <4>1. /\ DOMAIN x = (DOMAIN u \cup {1}) \ {w} /\ x[1] = u[w]
            /\ \A d \in DOMAIN u \ {w, 1} : x[d] = u[d]
        <5>1. TableOK(u) /\ 1 \in Nat /\ w # 1 /\ w \in DOMAIN u
          BY <1>7, <2>1, <3>2, SmallTable
        <5> QED BY <5>1, RedirectedTable
      <4> HIDE DEF x
      <4> QED BY <2>1, <3>2, <4>1
    <3> QED BY <3>1, <3>2
  <2> HIDE DEF x
  <2>3. \A d \in DOMAIN x : d \in 0..2 /\ (d \notin {0, 1} => x[d] = Stderr)
    <3> SUFFICES ASSUME NEW d \in DOMAIN x, d \notin {0, 1} PROVE d = 2 /\ x[d] = Stderr
      OBVIOUS
    <3>1. d \in DOMAIN u \ {0} /\ x[d] = u[d] /\ d # w
      BY <2>2
    <3>2. d = 2 /\ u[d] = Standard[2]
      BY <1>7, <3>1
    <3> QED BY <3>1, <3>2, StandardEnds
  <2>4. 0 \in DOMAIN x => 0 \in DOMAIN u /\ x[0] = u[0]
    BY <2>2
  <2>5. \A d \in DOMAIN x :
          x[d] = CASE d = 0 -> IF c = 1 THEN Stdin ELSE ReadEnd(c - 1)
                   [] d = 1 -> IF c = Count THEN Stdout ELSE WriteEnd(c)
                   [] OTHER -> Stderr
    <3> SUFFICES ASSUME NEW d \in DOMAIN x
                 PROVE  x[d] = CASE d = 0 -> IF c = 1 THEN Stdin ELSE ReadEnd(c - 1)
                                 [] d = 1 -> IF c = Count THEN Stdout ELSE WriteEnd(c)
                                 [] OTHER -> Stderr
      OBVIOUS
    <3>1. CASE d = 0
      <4>1. x[d] = IF c = 1 THEN Stdin ELSE ReadEnd(c - 1)
        BY <1>7, <2>4, <3>1
      <4> QED BY <3>1, <4>1
    <3>2. CASE d = 1
      <4>1. x[d] = WriteEnd(c) /\ c # Count
        BY <1>10, <2>2, <3>2, CountOK DEF Commands
      <4> QED BY <3>2, <4>1
    <3>3. CASE d \notin {0, 1}
      <4>1. x[d] = Stderr
        BY <2>3, <3>3
      <4> QED BY <3>3, <4>1
    <3> QED BY <3>1, <3>2, <3>3
  <2> QED BY <1>7, <1>10, <2>1, <2>2, <2>3, <2>5, CountOK DEF WiredTable
<1> QED BY <1>9, <1>10, CountOK DEF Commands

-----------------------------------------------------------------------------
(* The processes. *)

ProcTypes ==
  /\ pc \in {"pipe", "fork", "setpgid", "close", "wait", "exited", "failed"}
  /\ i \in Commands
  /\ proc \in [Commands -> {"none", "wire", "exec", "run", "zombie", "reaped"}]
  /\ pidlist \in [Commands -> -1..Count]
  /\ ran \subseteq Commands

\* The commands are forked in their order.
Forked ==
  /\ pc \in {"pipe", "fork"} => \A c \in Commands : proc[c] = "none" <=> c >= i
  /\ pc \in {"setpgid", "close"} => \A c \in Commands : proc[c] = "none" <=> c > i
  /\ pc \in {"wait", "exited"} => \A c \in Commands : proc[c] # "none"
  /\ pc = "pipe" => i < Count
  /\ \A c \in Commands : c > 1 /\ proc[c] # "none" => proc[c-1] # "none"

NotRunYet == \A c \in Commands : proc[c] \in {"none", "wire", "exec"} => c \notin ran

\* What was waited for is reaped.
WaitedFor ==
  /\ pc = "wait" => \A c \in Commands : c < i /\ pidlist[c] = c => proc[c] = "reaped"
  /\ ReapsKnown

ProcInv == ProcTypes /\ Forked /\ NotRunYet /\ WaitedFor

\* What a child does to the processes and to the tables.
ChildStep(c) ==
  /\ UNCHANGED parent
  /\ \/ /\ proc[c] = "wire" /\ proc' = [proc EXCEPT ![c] = "exec"]
        /\ fds' = [fds EXCEPT ![c] = Wired(@, c)] /\ UNCHANGED ran
     \/ /\ proc[c] = "exec" /\ proc' = [proc EXCEPT ![c] = "run"]
        /\ ran' = ran \cup {c} /\ UNCHANGED fds
     \/ proc[c] \in {"exec", "run"} /\ Exit(c) /\ UNCHANGED ran
     \/ UNCHANGED <<proc, fds, ran>>

LEMMA ChildSteps ==
  ASSUME NEW c \in Commands,
         Child(c) \/ ((Command(c) \/ Quit(c)) /\ UNCHANGED <<i, pidlist>>)
  PROVE  ChildStep(c)
<1>1. CASE Child(c)
  BY <1>1 DEF Child, Wire, Exec, ExecFails, ChildStep, parent
<1>2. CASE Command(c) /\ UNCHANGED <<i, pidlist>>
  <2>1. Command(c) /\ UNCHANGED <<i, pidlist>>
    BY <1>2
  <2>2. CASE ReadStdin(c) \/ WriteStdout(c) \/ \E k \in Pipes : ReadPipe(c, k) \/ WritePipe(c, k)
    BY <2>1, <2>2 DEF ReadStdin, WriteStdout, ReadPipe, WritePipe, ChildStep, parent
  <2>3. CASE Finish(c) \/ Die(c)
    BY <2>1, <2>3 DEF Finish, Die, EndsEarly, ChildStep, parent
  <2> QED BY <2>1, <2>2, <2>3 DEF Command
<1>3. CASE Quit(c) /\ UNCHANGED <<i, pidlist>>
  BY <1>3 DEF Quit, EndsEarly, ChildStep, parent
<1> QED BY <1>1, <1>2, <1>3

LEMMA StepCases ==
  ASSUME [Next]_vars
  PROVE  \/ OpenPipe \/ Fork \/ CallFails \/ Setpgid \/ CloseEnds \/ Wait
         \/ \E c \in Commands : ChildStep(c)
         \/ UNCHANGED vars
  BY ChildSteps DEF Next, Parent

LEMMA ProcInvInit == Init => ProcInv
  BY CountOK DEF Init, CommandsInit, ProcInv, ProcTypes, Forked, NotRunYet, WaitedFor,
                 ReapsKnown, Commands

LEMMA ProcInvNext == ProcInv /\ [Next]_vars => ProcInv'
<1> SUFFICES ASSUME ProcTypes, Forked, NotRunYet, WaitedFor, [Next]_vars
             PROVE  ProcInv'
  BY DEF ProcInv
<1> USE CountOK DEF Commands
<1>1. CASE OpenPipe
  BY <1>1 DEF OpenPipe, ProcTypes, Forked, NotRunYet, WaitedFor, ReapsKnown, ProcInv
<1>2. CASE Fork
  <2>1. ProcTypes'
    BY <1>2 DEF Fork, ProcTypes
  <2>2. \A c \in Commands : proc'[c] = IF c = i THEN "wire" ELSE proc[c]
    BY <1>2 DEF Fork, ProcTypes
  <2>3. proc[i] = "none"
    BY <1>2 DEF Fork, ProcTypes, Forked
  <2>4. Forked'
    BY <1>2, <2>2 DEF Fork, ProcTypes, Forked
  <2>5. NotRunYet' /\ WaitedFor'
    BY <1>2, <2>2, <2>3 DEF Fork, NotRunYet, WaitedFor, ReapsKnown
  <2> QED BY <2>1, <2>4, <2>5 DEF ProcInv
<1>3. CASE CallFails
  BY <1>3 DEF CallFails, ParentExits, ProcTypes, Forked, NotRunYet, WaitedFor, ReapsKnown, ProcInv
<1>4. CASE Setpgid
  <2>1. ProcTypes'
    BY <1>4 DEF Setpgid, ProcTypes
  <2> QED BY <1>4, <2>1 DEF Setpgid, ProcTypes, Forked, NotRunYet, WaitedFor, ReapsKnown, ProcInv
<1>5. CASE CloseEnds
  <2>1. ProcTypes'
    BY <1>5 DEF CloseEnds, ProcTypes
  <2>2. Forked'
    <3>1. \A c \in Commands : proc[c] = "none" <=> c > i
      BY <1>5 DEF CloseEnds, Forked
    <3>2. CASE i = Count
      BY <1>5, <3>1, <3>2 DEF CloseEnds, ProcTypes, Forked
    <3>3. CASE i # Count
      BY <1>5, <3>1, <3>3 DEF CloseEnds, ProcTypes, Forked
    <3> QED BY <3>2, <3>3
  <2>3. NotRunYet' /\ WaitedFor'
    BY <1>5 DEF CloseEnds, ProcTypes, NotRunYet, WaitedFor, ReapsKnown
  <2> QED BY <2>1, <2>2, <2>3 DEF ProcInv
<1>6. CASE Wait
  <2>1. /\ pc = "wait" /\ UNCHANGED <<pidlist, ran>>
        /\ \/ i < Count /\ i' = i + 1 /\ pc' = "wait"
           \/ i = Count /\ i' = i /\ pc' = "exited"
    BY <1>6 DEF Wait, WaitsOn, ParentExits, ProcTypes
  <2>2. \A c \in Commands : \/ proc'[c] = proc[c]
                            \/ proc[c] = "zombie" /\ proc'[c] = "reaped"
    BY <1>6 DEF Wait, Waitpid, ProcTypes
  <2>3. pidlist[i] = i => proc'[i] = "reaped"
    <3>1. SUFFICES ASSUME pidlist[i] = i PROVE proc'[i] = "reaped"
      OBVIOUS
    <3>2. Awaited = {i} /\ proc[i] # "none" /\ i \in Commands
      BY <2>1, <3>1 DEF Awaited, Forked, ProcTypes
    <3> QED BY <1>6, <3>2 DEF Wait, Waitpid, ProcTypes
  <2>4. ProcTypes'
    <3>1. \/ UNCHANGED proc
          \/ \E c : proc' = [proc EXCEPT ![c] = "reaped"]
      BY <1>6 DEF Wait, Waitpid
    <3>2. proc' \in [Commands -> {"none", "wire", "exec", "run", "zombie", "reaped"}]
      BY <3>1 DEF ProcTypes
    <3>3. i' \in Commands
      BY <2>1 DEF ProcTypes
    <3> QED BY <2>1, <3>2, <3>3 DEF ProcTypes
  <2>5. Forked' /\ NotRunYet'
    BY <2>1, <2>2 DEF ProcTypes, Forked, NotRunYet
  <2>6. WaitedFor'
    BY <2>1, <2>2, <2>3 DEF ProcTypes, WaitedFor, ReapsKnown
  <2> QED BY <2>4, <2>5, <2>6 DEF ProcInv
<1>7. ASSUME NEW c \in Commands, ChildStep(c) PROVE ProcInv'
  <2>1. UNCHANGED <<pc, i, pidlist>>
    BY <1>7 DEF ChildStep, parent
  <2>2. ProcTypes'
    BY <1>7, <2>1 DEF ChildStep, ProcTypes, Exit
  <2>3. \A d \in Commands : d # c => proc'[d] = proc[d]
    BY <1>7 DEF ChildStep, Exit, ProcTypes
  <2>4. \/ proc'[c] = proc[c]
        \/ proc[c] \in {"wire", "exec", "run"} /\ proc'[c] \in {"exec", "run", "zombie"}
    BY <1>7 DEF ChildStep, Exit, ProcTypes
  <2>5. \A d \in Commands : /\ proc'[d] = "none" <=> proc[d] = "none"
                            /\ proc[d] = "reaped" => proc'[d] = "reaped"
    BY <2>3, <2>4
  <2>6. Forked' /\ WaitedFor'
    BY <2>1, <2>5 DEF ProcTypes, Forked, WaitedFor, ReapsKnown
  <2>7. NotRunYet'
    BY <1>7, <2>3 DEF ChildStep, Exit, ProcTypes, NotRunYet
  <2> QED BY <2>2, <2>6, <2>7 DEF ProcInv
<1>8. CASE UNCHANGED vars
  BY <1>8 DEF vars, parent, commands, ProcTypes, Forked, NotRunYet, WaitedFor, ReapsKnown, ProcInv
<1> QED BY <1>1, <1>2, <1>3, <1>4, <1>5, <1>6, <1>7, <1>8, StepCases

\* No child whose pid the parent got is left unreaped, whoever exits first and
\* whichever children waitpid(-1) took (pipeline2.c:174).
THEOREM ReapsKnownHolds == Spec => []ReapsKnown
<1>1. ProcInv => ReapsKnown
  BY DEF ProcInv, WaitedFor
<1> QED BY ProcInvInit, ProcInvNext, <1>1, PTL DEF Spec

-----------------------------------------------------------------------------
(* The tables. *)

\* The parent hands on to its next child the read end of the last pipe, and,
\* once pipe() was called, both ends of the next.
ParentTable ==
  /\ pc = "pipe" => Handed(fds[0], i, FALSE)
  /\ pc \in {"fork", "setpgid", "close"} => Handed(fds[0], i, i < Count)

ChildTables ==
  \A c \in Commands :
    /\ proc[c] = "wire" => Handed(fds[c], c, c < Count)
    /\ proc[c] \in {"exec", "run"} => WiredTable(fds[c], c)

TableInv == /\ DOMAIN fds = 0..Count /\ DOMAIN pipefds = Pipes
            /\ ParentTable /\ ChildTables

\* pipe() puts the next pipe on two more descriptors.
LEMMA HandsPipe ==
  ASSUME NEW c \in Commands, c < Count, NEW t, Handed(t, c, FALSE),
         DOMAIN pipefds = Pipes,
         pipefds' = [pipefds EXCEPT ![c] =
                       <<LowestFree(t), LowestFree(Opened(t, ReadEnd(c)))>>]
  PROVE  Handed(Opened(Opened(t, ReadEnd(c)), WriteEnd(c)), c, TRUE)'
<1> DEFINE a == LowestFree(t)
           u == Opened(t, ReadEnd(c))
           b == LowestFree(u)
           x == Opened(u, WriteEnd(c))
<1>1. /\ DOMAIN t \subseteq 0..5 /\ TableOK(t)
      /\ c > 1 => PipeOK(c-1) /\ Refers(t, Reads(c-1), ReadEnd(c-1))
      /\ \A d \in DOMAIN t : (d \in 0..2 /\ t[d] = Standard[d]) \/ (c > 1 /\ d = Reads(c-1))
  BY SmallTable DEF Handed
<1>2. /\ TableOK(u) /\ DOMAIN u = DOMAIN t \cup {a} /\ u[a] = ReadEnd(c)
      /\ \A d \in DOMAIN t : u[d] = t[d]
  BY <1>1, OpenedTable
<1>3. a \in Nat \ DOMAIN t /\ \A m \in Nat : m < a => m \in DOMAIN t
  BY <1>1, FreeFd
<1> HIDE DEF a, u
<1>4. /\ TableOK(x) /\ DOMAIN x = DOMAIN u \cup {b} /\ x[b] = WriteEnd(c)
      /\ \A d \in DOMAIN u : x[d] = u[d]
  BY <1>2, OpenedTable
<1>5. b \in Nat \ DOMAIN u /\ \A m \in Nat : m < b => m \in DOMAIN u
  BY <1>2, FreeFd
<1>6. pipefds'[c] = <<a, b>> /\ (c > 1 => pipefds'[c-1] = pipefds[c-1])
  BY CountOK DEF a, u, Commands, Pipes
<1> HIDE DEF b, x
\* Four descriptors at most are in use when pipe() is called.
<1>7. a <= 4 /\ b <= 5 /\ a < b
  <2>1. \A d \in DOMAIN t : d \in {0, 1, 2, Reads(c-1)}
    BY <1>1
  <2>2. ~(a > 4)
    <3>1. SUFFICES ASSUME a > 4 PROVE FALSE
      OBVIOUS
    <3>2. 3 \in DOMAIN t /\ 4 \in DOMAIN t
      BY <1>3, <3>1
    <3> QED BY <2>1, <3>2
  <2>3. ~(b > 5)
    <3>1. SUFFICES ASSUME b > 5 PROVE FALSE
      OBVIOUS
    <3>2. 3 \in DOMAIN u /\ 4 \in DOMAIN u /\ 5 \in DOMAIN u
      BY <1>5, <3>1
    <3>3. \A d \in DOMAIN u : d \in {0, 1, 2, Reads(c-1), a}
      BY <1>2, <2>1
    <3> QED BY <3>2, <3>3
  <2>4. ~(b < a)
    BY <1>2, <1>3, <1>5
  <2>5. b # a
    BY <1>2, <1>5
  <2> QED BY <1>3, <1>5, <2>2, <2>3, <2>4, <2>5
<1>8. /\ DOMAIN x = DOMAIN t \cup {a, b} /\ a \in 0..5 /\ b \in 0..5
      /\ x[a] = ReadEnd(c) /\ x[b] = WriteEnd(c) /\ \A d \in DOMAIN t : x[d] = t[d]
  BY <1>2, <1>3, <1>4, <1>5, <1>7
<1>9. pipefds'[c][1] = a /\ pipefds'[c][2] = b
  BY <1>6
<1>10. (c > 1 => PipeOK(c-1) /\ Refers(x, Reads(c-1), ReadEnd(c-1)))'
  BY <1>1, <1>6, <1>8 DEF PipeOK, Refers, Reads, Writes
<1>11. (PipeOK(c) /\ Refers(x, Reads(c), ReadEnd(c)) /\ Refers(x, Writes(c), WriteEnd(c)))'
  BY <1>7, <1>8, <1>9 DEF PipeOK, Refers, Reads, Writes
<1>12. ASSUME NEW d \in DOMAIN x
       PROVE  (\/ d \in 0..2 /\ x[d] = Standard[d]
               \/ c > 1 /\ d = Reads(c-1)
               \/ d \in {Reads(c), Writes(c)})'
  BY <1>1, <1>6, <1>8, <1>9 DEF Reads, Writes
<1>13. DOMAIN x \subseteq 0..5
  BY <1>1, <1>8
<1>14. Handed(x, c, TRUE)'
  BY <1>10, <1>11, <1>12, <1>13 DEF Handed
<1> QED BY <1>14 DEF x, u

\* The parent keeps, of the ends it handed on, the read end only.
LEMMA HandsOn ==
  ASSUME NEW c \in Commands, c < Count, NEW t, Handed(t, c, TRUE)
  PROVE  LET u == Close(t, Writes(c))
         IN Handed(IF c > 1 THEN Close(u, Reads(c-1)) ELSE u, c + 1, FALSE)
<1> DEFINE r == Reads(c-1)
           u == Close(t, Writes(c))
           v == IF c > 1 THEN Close(u, r) ELSE u
<1>1. /\ DOMAIN t \subseteq 0..5 /\ TableOK(t)
      /\ c > 1 => Refers(t, r, ReadEnd(c-1))
      /\ PipeOK(c) /\ Refers(t, Reads(c), ReadEnd(c)) /\ Refers(t, Writes(c), WriteEnd(c))
      /\ \A d \in DOMAIN t : \/ d \in 0..2 /\ t[d] = Standard[d]
                             \/ c > 1 /\ d = r
                             \/ d \in {Reads(c), Writes(c)}
  BY SmallTable DEF Handed
<1>2. /\ TableOK(u) /\ DOMAIN u = DOMAIN t \ {Writes(c)} /\ \A d \in DOMAIN u : u[d] = t[d]
  BY <1>1, ClosedTable
<1>3. c > 1 => r # Reads(c)
  <2>1. ReadEnd(c) # ReadEnd(c-1)
    BY EndsDiffer DEF Commands
  <2> QED BY <1>1, <2>1 DEF Refers
<1> HIDE DEF r, u
<1>4. /\ \A d \in DOMAIN v : d \in DOMAIN t /\ v[d] = t[d] /\ d # Writes(c)
      /\ c > 1 => r \notin DOMAIN v
      /\ \A d \in DOMAIN t : d \in DOMAIN v \/ d = Writes(c) \/ (c > 1 /\ d = r)
  <2>1. CASE c > 1
    <3>1. /\ DOMAIN Close(u, r) = DOMAIN u \ {r}
          /\ \A d \in DOMAIN u \ {r} : Close(u, r)[d] = u[d]
      BY <1>2, ClosedTable
    <3>2. v = Close(u, r)
      BY <2>1
    <3> HIDE DEF v
    <3> QED BY <1>2, <2>1, <3>1, <3>2
  <2>2. CASE ~(c > 1)
    BY <1>2, <2>2
  <2> QED BY <2>1, <2>2
<1> HIDE DEF v
<1>5. Refers(v, Reads(c), ReadEnd(c))
  BY <1>1, <1>3, <1>4 DEF Refers, PipeOK
<1>6. \A d \in DOMAIN v : (d \in 0..2 /\ v[d] = Standard[d]) \/ d = Reads(c)
  BY <1>1, <1>4
<1>7. c + 1 > 1 /\ (c + 1) - 1 = c
  BY DEF Commands
<1>8. DOMAIN v \subseteq 0..5 /\ Writes(c) \notin DOMAIN v
  BY <1>1, <1>4
<1>9. Handed(v, c + 1, FALSE)
  BY <1>1, <1>5, <1>6, <1>7, <1>8 DEF Handed
<1> QED BY <1>9 DEF v, u, r

LEMMA TableInvInit == StandardStart /\ Init => TableInv
<1> SUFFICES ASSUME StandardStart, Init PROVE TableInv
  OBVIOUS
<1>1. PICK t \in Started : fds = [p \in 0..Count |-> IF p = 0 THEN t ELSE NoFds]
  BY DEF Init, CommandsInit
<1>2. Handed(fds[0], i, FALSE)
  BY <1>1, CountOK DEF StandardStart, StandardOnly, Handed, Init
<1> QED BY <1>1, <1>2 DEF TableInv, ParentTable, ChildTables, Init, CommandsInit

\* The table of a child that was forked does not depend on later pipes.
LEMMA HandedKept ==
  ASSUME NEW c \in Commands, NEW t, NEW both, Handed(t, c, both),
         c > 1 => pipefds'[c-1] = pipefds[c-1], both => pipefds'[c] = pipefds[c]
  PROVE  Handed(t, c, both)'
  BY DEF Handed, PipeOK, Reads, Writes

LEMMA TableInvNext == ProcInv /\ TableInv /\ [Next]_vars => TableInv'
<1> SUFFICES ASSUME ProcTypes, Forked, TableInv, [Next]_vars PROVE TableInv'
  BY DEF ProcInv
<1>1. /\ DOMAIN fds = 0..Count /\ DOMAIN pipefds = Pipes /\ ParentTable /\ ChildTables
      /\ \A c \in Commands : c \in 0..Count /\ c # 0
      /\ 0 \in 0..Count /\ i \in Commands
  BY CountOK DEF TableInv, Commands, ProcTypes
<1>2. ASSUME NEW c \in Commands, proc'[c] = proc[c] \/ proc'[c] \notin {"wire", "exec", "run"},
             fds'[c] = fds[c], pipefds' = pipefds
      PROVE  /\ proc'[c] = "wire" => Handed(fds[c], c, c < Count)'
             /\ proc'[c] \in {"exec", "run"} => WiredTable(fds[c], c)'
  <2>1. PICK t : t = fds[c]
    OBVIOUS
  <2>2. proc'[c] = "wire" => Handed(t, c, c < Count)'
    BY <1>1, <1>2, <2>1, HandedKept DEF ChildTables
  <2>3. proc'[c] \in {"exec", "run"} => WiredTable(t, c)'
    BY <1>1, <1>2, <2>1 DEF ChildTables, WiredTable
  <2> QED BY <1>2, <2>1, <2>2, <2>3 DEF Handed, WiredTable
<1>3. CASE OpenPipe
  <2>1. PICK t : t = fds[0]
    OBVIOUS
  <2>2. /\ pc = "pipe" /\ i < Count /\ Handed(t, i, FALSE) /\ i' = i /\ pc' = "fork"
        /\ \A c \in Commands : proc[c] = "none" <=> c >= i
    BY <1>1, <1>3, <2>1 DEF OpenPipe, ParentTable, Forked
  <2>3. /\ pipefds' = [pipefds EXCEPT ![i] = <<LowestFree(t), LowestFree(Opened(t, ReadEnd(i)))>>]
        /\ fds' = [fds EXCEPT ![0] = Opened(Opened(t, ReadEnd(i)), WriteEnd(i))]
        /\ UNCHANGED proc
    BY <1>3, <2>1 DEF OpenPipe, OpensPipe
  <2>4. PICK j \in Commands : j = i
    BY <1>1
  <2>5. Handed(Opened(Opened(t, ReadEnd(j)), WriteEnd(j)), j, TRUE)'
    BY <1>1, <2>2, <2>3, <2>4, HandsPipe
  <2>6. ParentTable'
    BY <1>1, <2>2, <2>3, <2>4, <2>5 DEF ParentTable, Handed
  <2>7. ASSUME NEW c \in Commands
        PROVE  /\ proc'[c] = "wire" => Handed(fds[c], c, c < Count)'
               /\ proc'[c] \in {"exec", "run"} => WiredTable(fds[c], c)'
    <3>1. fds'[c] = fds[c]
      BY <1>1, <2>3
    <3>2. PICK u : u = fds[c]
      OBVIOUS
    <3>3. ASSUME proc'[c] = "wire" PROVE Handed(u, c, c < Count)'
      <4>1. c < i /\ Handed(u, c, c < Count)
        BY <1>1, <2>2, <2>3, <3>2, <3>3 DEF ChildTables, Commands
      <4>2. pipefds'[c] = pipefds[c] /\ (c > 1 => pipefds'[c-1] = pipefds[c-1])
        BY <1>1, <2>2, <2>3, <4>1 DEF Commands, Pipes
      <4> QED BY <4>1, <4>2, HandedKept
    <3>4. proc'[c] \in {"exec", "run"} => WiredTable(u, c)'
      BY <1>1, <2>3, <3>2 DEF ChildTables, WiredTable
    <3> QED BY <3>1, <3>2, <3>3, <3>4 DEF Handed, WiredTable
  <2> QED BY <1>1, <2>3, <2>6, <2>7 DEF TableInv, ChildTables
<1>4. CASE Fork
  <2>1. /\ pc = "fork" /\ pc' = "setpgid" /\ i' = i /\ pipefds' = pipefds
        /\ fds' = [fds EXCEPT ![i] = fds[0]] /\ proc' = [proc EXCEPT ![i] = "wire"]
    BY <1>4 DEF Fork
  <2>2. PICK t : t = fds[0]
    OBVIOUS
  <2>3. Handed(t, i, i < Count)
    BY <1>1, <2>1, <2>2 DEF ParentTable
  <2>4. PICK j \in Commands : j = i
    BY <1>1
  <2>5. Handed(t, j, j < Count)'
    BY <2>1, <2>3, <2>4, HandedKept
  <2>6. fds'[0] = t /\ fds'[j] = t /\ proc'[j] = "wire"
    BY <1>1, <2>1, <2>2, <2>4 DEF ProcTypes
  <2>7. ParentTable'
    BY <2>1, <2>4, <2>5, <2>6 DEF ParentTable, Handed
  <2>8. ASSUME NEW c \in Commands
        PROVE  /\ proc'[c] = "wire" => Handed(fds[c], c, c < Count)'
               /\ proc'[c] \in {"exec", "run"} => WiredTable(fds[c], c)'
    <3>1. CASE c = j
      BY <2>5, <2>6, <3>1 DEF Handed
    <3>2. CASE c # j
      <4>1. fds'[c] = fds[c] /\ proc'[c] = proc[c] /\ pipefds' = pipefds
        BY <1>1, <2>1, <2>4, <3>2 DEF ProcTypes
      <4> QED BY <4>1, <1>2
    <3> QED BY <3>1, <3>2
  <2> QED BY <1>1, <2>1, <2>7, <2>8 DEF TableInv, ChildTables
<1>5. CASE CallFails
  <2>1. /\ pc' = "failed" /\ fds' = [fds EXCEPT ![0] = NoFds]
        /\ UNCHANGED <<pipefds, proc>>
    BY <1>5 DEF CallFails, ParentExits
  <2>2. \A c \in Commands : fds'[c] = fds[c]
    BY <1>1, <2>1
  <2>3. ChildTables'
    BY <1>2, <2>1, <2>2 DEF ChildTables
  <2> QED BY <1>1, <2>1, <2>3 DEF TableInv, ParentTable
<1>6. CASE Setpgid
  <2>1. pc = "setpgid" /\ pc' = "close" /\ UNCHANGED <<i, pipefds, fds, proc>>
    BY <1>6 DEF Setpgid
  <2>2. ChildTables'
    BY <1>2, <2>1 DEF ChildTables
  <2>3. Handed(fds[0], i, i < Count)'
    BY <1>1, <2>1 DEF ParentTable, Handed, PipeOK, Reads, Writes
  <2>4. ParentTable'
    BY <2>1, <2>3 DEF ParentTable
  <2> QED BY <1>1, <2>1, <2>2, <2>4 DEF TableInv
<1>7. CASE CloseEnds
  <2>1. /\ pc = "close" /\ fds' = [fds EXCEPT ![0] = ClosedEnds(@)]
        /\ UNCHANGED <<pipefds, proc>>
        /\ IF i = Count THEN pc' = "wait" ELSE i' = i + 1 /\ pc' \in {"fork", "pipe"}
        /\ i = Count - 1 => pc' = "fork"
        /\ i < Count - 1 => pc' = "pipe"
    BY <1>1, <1>7, CountOK DEF CloseEnds, Commands
  <2>2. \A c \in Commands : fds'[c] = fds[c]
    BY <1>1, <2>1
  <2>3. ChildTables'
    BY <1>2, <2>1, <2>2 DEF ChildTables
  <2>4. ParentTable'
    <3>1. CASE i = Count
      BY <2>1, <3>1 DEF ParentTable
    <3>2. CASE i < Count
      <4>1. PICK t : t = fds[0]
        OBVIOUS
      <4>2. PICK j \in Commands : j = i
        BY <1>1
      <4>3. Handed(t, j, TRUE) /\ j < Count
        BY <1>1, <2>1, <3>2, <4>1, <4>2 DEF ParentTable
      <4> DEFINE x == IF j > 1 THEN Close(Close(t, Writes(j)), Reads(j-1)) ELSE Close(t, Writes(j))
      <4>4. Handed(x, j + 1, FALSE)
        BY <4>3, HandsOn
      <4>5. fds'[0] = x
        BY <1>1, <2>1, <3>2, <4>1, <4>2 DEF ClosedEnds, Writes, Reads
      <4> HIDE DEF x
      <4>6. PICK y : y = x
        OBVIOUS
      <4>7. j + 1 \in Commands
        BY <4>3, CountOK DEF Commands
      <4>8. Handed(y, j + 1, FALSE)'
        BY <2>1, <4>4, <4>6, <4>7, HandedKept
      <4>9. i' = j + 1 /\ fds'[0] = y
        BY <2>1, <3>2, <4>2, <4>5, <4>6, CountOK DEF Commands
      <4>10. Handed(fds[0], i, FALSE)'
        BY <4>8, <4>9 DEF Handed
      <4>11. pc' = "fork" => j + 1 = Count
        BY <2>1, <4>2, <4>3, CountOK DEF Commands
      <4>12. pc' \in {"fork", "pipe"}
        BY <2>1, <3>2, CountOK DEF Commands
      <4>13. pc' = "fork" => Handed(fds[0], i, i < Count)'
        BY <4>9, <4>10, <4>11, CountOK DEF Handed
      <4> QED BY <4>10, <4>12, <4>13 DEF ParentTable
    <3> QED BY <1>1, <3>1, <3>2, CountOK DEF Commands
  <2> QED BY <1>1, <2>1, <2>3, <2>4 DEF TableInv
<1>8. CASE Wait
  <2>1. /\ pc' \in {"wait", "exited"} /\ UNCHANGED pipefds
        /\ DOMAIN fds' = 0..Count /\ \A c \in Commands : fds'[c] = fds[c]
    BY <1>1, <1>8 DEF Wait, ParentExits
  <2>2. \A c \in Commands : proc'[c] = proc[c] \/ proc'[c] = "reaped"
    BY <1>8 DEF Wait, Waitpid, ProcTypes
  <2>3. ChildTables'
    BY <1>2, <2>1, <2>2 DEF ChildTables
  <2> QED BY <1>1, <2>1, <2>3 DEF TableInv, ParentTable
<1>9. ASSUME NEW c \in Commands, ChildStep(c) PROVE TableInv'
  <2>1. UNCHANGED <<pc, i, pipefds>>
    BY <1>9 DEF ChildStep, parent
  <2>2. /\ DOMAIN fds' = 0..Count /\ fds'[0] = fds[0]
        /\ \A d \in Commands : d # c => fds'[d] = fds[d] /\ proc'[d] = proc[d]
    BY <1>1, <1>9 DEF ChildStep, Exit, ProcTypes
  <2>3. ParentTable'
    BY <1>1, <2>1, <2>2 DEF ParentTable, Handed, PipeOK, Reads, Writes
  <2>4. ASSUME NEW d \in Commands, d # c
        PROVE  /\ proc'[d] = "wire" => Handed(fds[d], d, d < Count)'
               /\ proc'[d] \in {"exec", "run"} => WiredTable(fds[d], d)'
    BY <1>2, <2>1, <2>2, <2>4
  <2>5. /\ proc'[c] = "wire" => Handed(fds[c], c, c < Count)'
        /\ proc'[c] \in {"exec", "run"} => WiredTable(fds[c], c)'
    <3>1. CASE /\ proc[c] = "wire" /\ proc' = [proc EXCEPT ![c] = "exec"]
               /\ fds' = [fds EXCEPT ![c] = Wired(@, c)]
      <4>1. PICK t : t = fds[c]
        OBVIOUS
      <4>2. Handed(t, c, c < Count)
        BY <1>1, <3>1, <4>1 DEF ChildTables
      <4>3. WiredTable(Wired(t, c), c)
        BY <4>2, Wires
      <4>4. PICK x : x = Wired(t, c)
        OBVIOUS
      <4>5. WiredTable(x, c)'
        BY <4>3, <4>4 DEF WiredTable
      <4>6. fds'[c] = x /\ proc'[c] = "exec"
        BY <1>1, <3>1, <4>1, <4>4 DEF ProcTypes
      <4> QED BY <4>5, <4>6 DEF WiredTable
    <3>2. CASE proc[c] = "exec" /\ proc' = [proc EXCEPT ![c] = "run"] /\ UNCHANGED fds
      BY <1>1, <3>2 DEF ChildTables, WiredTable, ProcTypes
    <3>3. CASE Exit(c)
      BY <3>3 DEF Exit, ProcTypes
    <3>4. CASE UNCHANGED <<proc, fds>>
      BY <1>2, <2>1, <3>4
    <3> QED BY <1>9, <3>1, <3>2, <3>3, <3>4 DEF ChildStep
  <2>6. ChildTables'
    BY <2>4, <2>5 DEF ChildTables
  <2> QED BY <1>1, <2>1, <2>2, <2>3, <2>6 DEF TableInv
<1>10. CASE UNCHANGED vars
  <2>1. UNCHANGED <<pc, i, pipefds, fds, proc>>
    BY <1>10 DEF vars, parent
  <2>2. ChildTables'
    BY <1>2, <2>1 DEF ChildTables
  <2>3. ParentTable'
    BY <1>1, <2>1 DEF ParentTable, Handed, PipeOK, Reads, Writes
  <2> QED BY <1>1, <2>1, <2>2, <2>3 DEF TableInv
<1> QED BY <1>3, <1>4, <1>5, <1>6, <1>7, <1>8, <1>9, <1>10, StepCases

\* Whichever of the standard descriptors the program was started with, a command
\* runs with the ends it is to use and with no other end of any pipe open
\* (pipeline2.c:68-94).
THEOREM WiredUpHolds == StandardStart /\ Spec => []WiredUp
<1>1. TableInv => WiredUp
  BY CountOK DEF TableInv, ChildTables, WiredTable, WiredUp
<1> QED BY ProcInvInit, ProcInvNext, TableInvInit, TableInvNext, <1>1, PTL DEF Spec

-----------------------------------------------------------------------------
(* What flows through the pipes. *)

FlowTypes ==
  /\ queue \in [Pipes -> Seq(Nat)] /\ hold \in [Commands -> Nat]
  /\ taken \in Nat /\ output \in Seq(Nat)

\* Command c has read the items up to r[c] and written those up to w[c]; what
\* lies between is in its hands, or in the pipe to the next command.
Flow(r, w) ==
  /\ taken = r[1]
  /\ \A c \in Commands : IF hold[c] = 0 THEN w[c] = r[c]
                         ELSE hold[c] = r[c] /\ r[c] = w[c] + 1
  /\ \A k \in Pipes : /\ Len(queue[k]) = w[k] - r[k+1]
                      /\ \A j \in 1..Len(queue[k]) : queue[k][j] = r[k+1] + j
  /\ Len(output) = w[Count] /\ InOrder

FlowInv == FlowTypes /\ \E r, w \in [Commands -> Nat] : Flow(r, w)

Over(c)  == proc[c] \in {"zombie", "reaped"}
Clean(c) == c \in ran /\ Over(c) /\ c \notin died

\* A command that ran to the end of its input left nothing behind, and whoever
\* could have written more to it has ended.
CleanInv ==
  \A c \in Commands : Clean(c) =>
    /\ hold[c] = 0
    /\ IF c = 1 THEN taken = Items ELSE Over(c-1) /\ queue[c-1] = <<>>

LEMMA FlowInvInit == CommandsInit => FlowInv /\ CleanInv
<1> SUFFICES ASSUME CommandsInit PROVE FlowInv /\ CleanInv
  OBVIOUS
<1> DEFINE z == [c \in Commands |-> 0]
<1>1. FlowTypes
  BY DEF CommandsInit, FlowTypes
<1>2. z \in [Commands -> Nat]
  OBVIOUS
<1>3. Flow(z, z)
  BY CountOK DEF CommandsInit, Flow, InOrder, Pipes, Commands
<1>4. CleanInv
  BY DEF CommandsInit, CleanInv, Clean
<1> QED BY <1>1, <1>2, <1>3, <1>4 DEF FlowInv

RunsWired == \A c \in Commands : proc[c] = "run" => WiredTable(fds[c], c)

\* A command reads and writes its own pipes only.
LEMMA Connections ==
  ASSUME RunsWired, NEW c \in Commands
  PROVE  /\ ReadStdin(c) => c = 1
         /\ WriteStdout(c) => c = Count
         /\ \A k \in Pipes : ReadPipe(c, k) => c = k + 1
         /\ \A k \in Pipes : WritePipe(c, k) => c = k
         /\ proc[c] = "run" /\ EndOfFile(c) =>
              IF c = 1 THEN taken = Items
              ELSE queue[c-1] = <<>> /\ Holders(WriteEnd(c-1)) = {}
<1>1. proc[c] = "run" =>
        /\ \A e : Refers(fds[c], 0, e) => e = IF c = 1 THEN Stdin ELSE ReadEnd(c-1)
        /\ \A e : Refers(fds[c], 1, e) => e = IF c = Count THEN Stdout ELSE WriteEnd(c)
  BY DEF RunsWired, WiredTable, Refers
<1>2. /\ \A k : ReadEnd(k) # Stdin /\ WriteEnd(k) # Stdout
      /\ \A j, k : (ReadEnd(j) = ReadEnd(k) => j = k) /\ (WriteEnd(j) = WriteEnd(k) => j = k)
  BY EndsDiffer
<1>3. ReadStdin(c) => c = 1
  BY <1>1, <1>2 DEF ReadStdin
<1>4. WriteStdout(c) => c = Count
  BY <1>1, <1>2 DEF WriteStdout
<1>5. ASSUME NEW k \in Pipes, ReadPipe(c, k) PROVE c = k + 1
  <2>1. ReadEnd(k) = ReadEnd(c-1)
    BY <1>1, <1>2, <1>5 DEF ReadPipe
  <2> QED BY <1>2, <2>1, CountOK DEF Commands, Pipes
<1>6. ASSUME NEW k \in Pipes, WritePipe(c, k) PROVE c = k
  <2>1. WriteEnd(k) = WriteEnd(c)
    BY <1>1, <1>2, <1>6 DEF WritePipe
  <2> QED BY <1>2, <2>1
<1>7. ASSUME proc[c] = "run", EndOfFile(c)
      PROVE  IF c = 1 THEN taken = Items
             ELSE queue[c-1] = <<>> /\ Holders(WriteEnd(c-1)) = {}
  <2>1. CASE Refers(fds[c], 0, Stdin) /\ taken = Items
    BY <1>1, <1>2, <1>7, <2>1
  <2>2. ASSUME NEW k \in Pipes, Refers(fds[c], 0, ReadEnd(k)),
               queue[k] = <<>>, Holders(WriteEnd(k)) = {}
        PROVE  c # 1 /\ queue[c-1] = <<>> /\ Holders(WriteEnd(c-1)) = {}
    <3>1. c # 1 /\ k = c-1
      BY <1>1, <1>2, <1>7, <2>2
    <3> QED BY <2>2, <3>1
  <2> QED BY <1>7, <2>1, <2>2 DEF EndOfFile
<1> QED BY <1>3, <1>4, <1>5, <1>6, <1>7

\* Nobody can write to a pipe only when its writer has ended.
LEMMA WriterEnded ==
  ASSUME ProcInv, TableInv, NEW c \in Commands, c > 1, proc[c] # "none",
         Holders(WriteEnd(c-1)) = {}
  PROVE  Over(c-1)
<1>1. PICK b : b = c-1
  OBVIOUS
<1>2. b \in Commands /\ b < Count /\ b \in 0..Count /\ proc[b] # "none"
  BY <1>1, CountOK DEF ProcInv, Forked, Commands
<1>3. ASSUME proc[b] = "wire" PROVE FALSE
  <2>1. Refers(fds[b], Writes(b), WriteEnd(b))
    BY <1>2, <1>3 DEF TableInv, ChildTables, Handed
  <2> QED BY <1>1, <1>2, <2>1 DEF Holders, Refers
<1>4. ASSUME proc[b] \in {"exec", "run"} PROVE FALSE
  <2>1. Refers(fds[b], 1, WriteEnd(b))
    BY <1>2, <1>4, CountOK DEF TableInv, ChildTables, WiredTable, Refers
  <2> QED BY <1>1, <1>2, <2>1 DEF Holders, Refers
<1> QED BY <1>1, <1>2, <1>3, <1>4 DEF ProcInv, ProcTypes, Over

\* What is in the pipes and in the commands' hands stays as it is.
LEMMA FlowKept ==
  ASSUME FlowInv, UNCHANGED <<queue, hold, taken, output>>
  PROVE  FlowInv'
<1>1. PICK r \in [Commands -> Nat], w \in [Commands -> Nat] : Flow(r, w)
  BY DEF FlowInv
<1>2. Flow(r, w)'
  BY <1>1 DEF Flow, InOrder
<1>3. FlowTypes'
  BY DEF FlowInv, FlowTypes
<1> QED BY <1>2, <1>3 DEF FlowInv

LEMMA CleanKept ==
  ASSUME CleanInv, UNCHANGED commands,
         \A c \in Commands : (Over(c) => Over(c)') /\ (Clean(c)' => Clean(c))
  PROVE  CleanInv'
<1> SUFFICES ASSUME NEW c \in Commands, Clean(c)'
             PROVE  (/\ hold[c] = 0
                     /\ IF c = 1 THEN taken = Items ELSE Over(c-1) /\ queue[c-1] = <<>>)'
  BY DEF CleanInv
<1>1. /\ hold[c] = 0
      /\ IF c = 1 THEN taken = Items ELSE Over(c-1) /\ queue[c-1] = <<>>
  BY DEF CleanInv
<1>2. c # 1 => c-1 \in Commands
  BY CountOK DEF Commands
<1> QED BY <1>1, <1>2 DEF commands

\* A command that reads or writes disturbs none that ended, and no pipe to one.
LEMMA CleanMoves ==
  ASSUME CleanInv, NEW c \in Commands, proc[c] = "run", UNCHANGED <<proc, ran, died>>,
         \A d \in Commands : d # c => hold'[d] = hold[d],
         c # 1 => taken' = taken,
         \A k \in Pipes : k # c /\ k # c-1 => queue'[k] = queue[k]
  PROVE  CleanInv'
<1> SUFFICES ASSUME NEW d \in Commands, Clean(d)'
             PROVE  (/\ hold[d] = 0
                     /\ IF d = 1 THEN taken = Items ELSE Over(d-1) /\ queue[d-1] = <<>>)'
  BY DEF CleanInv
<1>1. Clean(d) /\ d # c
  BY DEF Clean, Over
<1>2. /\ hold[d] = 0
      /\ IF d = 1 THEN taken = Items ELSE Over(d-1) /\ queue[d-1] = <<>>
  BY <1>1 DEF CleanInv
<1>3. CASE d = 1
  BY <1>1, <1>2, <1>3
<1>4. CASE d # 1
  <2>1. Over(d-1) /\ queue[d-1] = <<>> /\ d-1 # c
    BY <1>2, <1>4 DEF Over
  <2>2. d-1 \in Pipes /\ d-1 # c-1
    BY <1>1, <1>4, CountOK DEF Commands, Pipes
  <2> QED BY <1>1, <1>2, <1>4, <2>1, <2>2 DEF Over
<1> QED BY <1>3, <1>4

LEMMA ReadsStdin ==
  ASSUME FlowInv, NEW c \in Commands, ReadStdin(c), c = 1
  PROVE  FlowInv'
<1>1. PICK r \in [Commands -> Nat], w \in [Commands -> Nat] : Flow(r, w)
  BY DEF FlowInv
<1> DEFINE x == [r EXCEPT ![1] = r[1] + 1]
<1>2. /\ hold[1] = 0 /\ taken' = taken + 1 /\ hold' = [hold EXCEPT ![1] = taken + 1]
      /\ UNCHANGED <<queue, output>>
  BY DEF ReadStdin
<1>3. FlowTypes' /\ x \in [Commands -> Nat]
  BY <1>2, CountOK DEF FlowInv, FlowTypes
<1>4. \A d \in Commands : x[d] = IF d = 1 THEN taken + 1 ELSE r[d]
  BY <1>1 DEF Flow
<1>5. taken' = x[1]
  BY <1>2, <1>4, CountOK
<1>6. ASSUME NEW d \in Commands
      PROVE  IF hold'[d] = 0 THEN w[d] = x[d] ELSE hold'[d] = x[d] /\ x[d] = w[d] + 1
  BY <1>1, <1>2, <1>4 DEF Flow, FlowInv, FlowTypes
<1>7. ASSUME NEW k \in Pipes
      PROVE  /\ Len(queue'[k]) = w[k] - x[k+1]
             /\ \A j \in 1..Len(queue'[k]) : queue'[k][j] = x[k+1] + j
  <2>1. x[k+1] = r[k+1]
    BY <1>4, CountOK DEF Pipes, Commands
  <2> QED BY <1>1, <1>2, <2>1 DEF Flow
<1>8. Len(output') = w[Count] /\ InOrder'
  BY <1>1, <1>2 DEF Flow, InOrder
<1> HIDE DEF x
<1>9. Flow(x, w)'
  BY <1>5, <1>6, <1>7, <1>8 DEF Flow
<1> QED BY <1>3, <1>9 DEF FlowInv

LEMMA ReadsPipe ==
  ASSUME FlowInv, NEW c \in Commands, NEW k \in Pipes, ReadPipe(c, k), c = k + 1
  PROVE  FlowInv'
<1>1. PICK r \in [Commands -> Nat], w \in [Commands -> Nat] : Flow(r, w)
  BY DEF FlowInv
<1> DEFINE x == [r EXCEPT ![c] = r[c] + 1]
<1>2. /\ hold[c] = 0 /\ queue[k] # <<>> /\ hold' = [hold EXCEPT ![c] = Head(queue[k])]
      /\ queue' = [queue EXCEPT ![k] = Tail(@)] /\ UNCHANGED <<taken, output>>
  BY DEF ReadPipe
<1>3. queue[k] \in Seq(Nat) /\ Head(queue[k]) \in Nat /\ Tail(queue[k]) \in Seq(Nat)
  BY <1>2 DEF FlowInv, FlowTypes
<1>4. FlowTypes' /\ x \in [Commands -> Nat]
  BY <1>2, <1>3 DEF FlowInv, FlowTypes
<1>5. \A d \in Commands : x[d] = IF d = c THEN r[c] + 1 ELSE r[d]
  OBVIOUS
<1>6. taken' = x[1]
  BY <1>1, <1>2, <1>5, CountOK DEF Flow, Pipes
<1>7. Len(queue[k]) \in Nat /\ Len(queue[k]) # 0 /\ Head(queue[k]) = queue[k][1]
  BY <1>2, <1>3
<1>8. Head(queue[k]) = r[c] + 1
  BY <1>1, <1>7 DEF Flow
<1>9. ASSUME NEW d \in Commands
      PROVE  IF hold'[d] = 0 THEN w[d] = x[d] ELSE hold'[d] = x[d] /\ x[d] = w[d] + 1
  <2>1. CASE d = c
    <3>1. r[c] \in Nat /\ w[c] = r[c]
      BY <1>1, <1>2 DEF Flow
    <3>2. hold'[c] = r[c] + 1 /\ x[c] = r[c] + 1
      BY <1>2, <1>5, <1>8 DEF FlowInv, FlowTypes
    <3> QED BY <2>1, <3>1, <3>2
  <2>2. CASE d # c
    <3>1. hold'[d] = hold[d] /\ x[d] = r[d]
      BY <1>2, <1>5, <2>2 DEF FlowInv, FlowTypes
    <3> QED BY <1>1, <3>1 DEF Flow
  <2> QED BY <2>1, <2>2
<1>10. ASSUME NEW m \in Pipes
       PROVE  /\ Len(queue'[m]) = w[m] - x[m+1]
              /\ \A j \in 1..Len(queue'[m]) : queue'[m][j] = x[m+1] + j
  <2>1. CASE m = k
    <3>1. queue'[m] = Tail(queue[k]) /\ x[m+1] = r[c] + 1
      BY <1>2, <1>5, <2>1 DEF FlowInv, FlowTypes
    <3>2. /\ Len(Tail(queue[k])) = Len(queue[k]) - 1
          /\ \A j \in 1..Len(Tail(queue[k])) : Tail(queue[k])[j] = queue[k][j+1]
      BY <1>2, <1>3
    <3>3. Len(queue[k]) = w[k] - r[c] /\ \A j \in 1..Len(queue[k]) : queue[k][j] = r[c] + j
      BY <1>1 DEF Flow
    <3>4. Len(queue'[m]) = w[m] - x[m+1]
      <4>1. k \in Commands /\ r[c] \in Nat /\ w[k] \in Nat
        BY CountOK DEF Pipes, Commands
      <4>2. Len(queue'[m]) = Len(queue[k]) - 1
        BY <3>1, <3>2
      <4> QED BY <1>7, <2>1, <3>1, <3>3, <4>1, <4>2
    <3>5. ASSUME NEW j \in 1..Len(Tail(queue[k]))
          PROVE  Tail(queue[k])[j] = (r[c] + 1) + j
      <4>1. j + 1 \in 1..Len(queue[k]) /\ j \in Nat
        BY <1>7, <3>2
      <4>2. Tail(queue[k])[j] = r[c] + (j + 1)
        BY <3>2, <3>3, <4>1
      <4> QED BY <4>1, <4>2
    <3> QED BY <3>1, <3>4, <3>5
  <2>2. CASE m # k
    <3>1. queue'[m] = queue[m]
      BY <1>2, <2>2 DEF FlowInv, FlowTypes
    <3>2. x[m+1] = r[m+1]
      BY <1>5, <2>2, CountOK DEF Pipes, Commands
    <3> QED BY <1>1, <3>1, <3>2 DEF Flow
  <2> QED BY <2>1, <2>2
<1>11. Len(output') = w[Count] /\ InOrder'
  BY <1>1, <1>2 DEF Flow, InOrder
<1> HIDE DEF x
<1>12. Flow(x, w)'
  BY <1>6, <1>9, <1>10, <1>11 DEF Flow
<1> QED BY <1>4, <1>12 DEF FlowInv

LEMMA WritesStdout ==
  ASSUME FlowInv, NEW c \in Commands, WriteStdout(c), c = Count
  PROVE  FlowInv'
<1>1. PICK r \in [Commands -> Nat], w \in [Commands -> Nat] : Flow(r, w)
  BY DEF FlowInv
<1> DEFINE x == [w EXCEPT ![Count] = w[Count] + 1]
<1>2. /\ hold[Count] # 0 /\ hold' = [hold EXCEPT ![Count] = 0]
      /\ output' = Append(output, hold[Count]) /\ UNCHANGED <<queue, taken>>
  BY DEF WriteStdout
<1>3. FlowTypes' /\ x \in [Commands -> Nat]
  BY <1>2, CountOK DEF FlowInv, FlowTypes
<1>4. \A d \in Commands : x[d] = IF d = Count THEN w[Count] + 1 ELSE w[d]
  OBVIOUS
<1>5. hold[Count] = r[Count] /\ r[Count] = w[Count] + 1
  BY <1>1, <1>2, CountOK DEF Flow
<1>6. ASSUME NEW d \in Commands
      PROVE  IF hold'[d] = 0 THEN x[d] = r[d] ELSE hold'[d] = r[d] /\ r[d] = x[d] + 1
  BY <1>1, <1>2, <1>4, <1>5 DEF Flow, FlowInv, FlowTypes
<1>7. ASSUME NEW k \in Pipes PROVE x[k] = w[k]
  BY <1>4, CountOK DEF Pipes, Commands
<1>8. Len(output') = x[Count] /\ InOrder'
  <2>1. /\ output \in Seq(Nat) /\ Len(output) = w[Count] /\ hold[Count] = Len(output) + 1
        /\ \A j \in 1..Len(output) : output[j] = j
    BY <1>1, <1>5 DEF Flow, FlowInv, FlowTypes, InOrder
  <2>2. /\ Len(output') = Len(output) + 1 /\ output'[Len(output) + 1] = Len(output) + 1
        /\ \A j \in 1..Len(output) : output'[j] = j
    BY <1>2, <2>1
  <2>3. InOrder'
    BY <2>1, <2>2 DEF InOrder
  <2> QED BY <1>4, <2>1, <2>2, <2>3, CountOK
<1> HIDE DEF x
<1>9. Flow(r, x)'
  <2>1. taken' = r[1]
    BY <1>1, <1>2 DEF Flow
  <2>2. \A k \in Pipes : /\ Len(queue'[k]) = x[k] - r[k+1]
                         /\ \A j \in 1..Len(queue'[k]) : queue'[k][j] = r[k+1] + j
    BY <1>1, <1>2, <1>7 DEF Flow
  <2> QED BY <1>6, <1>8, <2>1, <2>2 DEF Flow
<1> QED BY <1>3, <1>9 DEF FlowInv

LEMMA WritesPipe ==
  ASSUME FlowInv, NEW c \in Commands, c \in Pipes, WritePipe(c, c)
  PROVE  FlowInv'
<1>1. PICK r \in [Commands -> Nat], w \in [Commands -> Nat] : Flow(r, w)
  BY DEF FlowInv
<1> DEFINE x == [w EXCEPT ![c] = w[c] + 1]
<1>2. /\ hold[c] # 0 /\ hold' = [hold EXCEPT ![c] = 0]
      /\ queue' = [queue EXCEPT ![c] = Append(@, hold[c])] /\ UNCHANGED <<taken, output>>
  BY DEF WritePipe
<1>3. queue[c] \in Seq(Nat) /\ hold[c] \in Nat
  BY DEF FlowInv, FlowTypes
<1>4. FlowTypes' /\ x \in [Commands -> Nat]
  BY <1>2, <1>3 DEF FlowInv, FlowTypes
<1>5. \A d \in Commands : x[d] = IF d = c THEN w[c] + 1 ELSE w[d]
  OBVIOUS
<1>6. hold[c] = r[c] /\ r[c] = w[c] + 1
  BY <1>1, <1>2 DEF Flow
<1>7. ASSUME NEW d \in Commands
      PROVE  IF hold'[d] = 0 THEN x[d] = r[d] ELSE hold'[d] = r[d] /\ r[d] = x[d] + 1
  BY <1>1, <1>2, <1>5, <1>6 DEF Flow, FlowInv, FlowTypes
<1>8. ASSUME NEW m \in Pipes
      PROVE  /\ Len(queue'[m]) = x[m] - r[m+1]
             /\ \A j \in 1..Len(queue'[m]) : queue'[m][j] = r[m+1] + j
  <2>1. CASE m = c
    <3>1. queue'[m] = Append(queue[c], hold[c]) /\ x[m] = w[c] + 1
      BY <1>2, <1>5, <2>1 DEF FlowInv, FlowTypes
    <3>2. Len(queue[c]) = w[c] - r[c+1] /\ \A j \in 1..Len(queue[c]) : queue[c][j] = r[c+1] + j
      BY <1>1 DEF Flow
    <3>3. /\ Len(queue'[m]) = Len(queue[c]) + 1 /\ queue'[m][Len(queue[c]) + 1] = hold[c]
          /\ \A j \in 1..Len(queue[c]) : queue'[m][j] = queue[c][j]
      BY <1>3, <3>1
    <3>4. c + 1 \in Commands /\ r[c+1] \in Nat /\ w[c] \in Nat /\ Len(queue[c]) \in Nat
      BY <1>3, CountOK DEF Pipes, Commands
    <3>5. hold[c] = r[c+1] + (Len(queue[c]) + 1)
      BY <1>6, <3>2, <3>4
    <3>6. ASSUME NEW j \in 1..Len(queue'[m]) PROVE queue'[m][j] = r[c+1] + j
      <4>1. j \in 1..Len(queue[c]) \/ j = Len(queue[c]) + 1
        BY <3>3, <3>4
      <4> QED BY <3>2, <3>3, <3>5, <4>1
    <3>7. Len(queue'[m]) = x[m] - r[c+1]
      BY <3>1, <3>2, <3>3, <3>4
    <3> QED BY <2>1, <3>6, <3>7
  <2>2. CASE m # c
    <3>1. queue'[m] = queue[m]
      BY <1>2, <2>2 DEF FlowInv, FlowTypes
    <3>2. x[m] = w[m]
      BY <1>5, <2>2, CountOK DEF Pipes, Commands
    <3> QED BY <1>1, <3>1, <3>2 DEF Flow
  <2> QED BY <2>1, <2>2
<1>9. Len(output') = x[Count] /\ InOrder'
  BY <1>1, <1>2, <1>5, CountOK DEF Flow, InOrder, Pipes, Commands
<1> HIDE DEF x
<1>10. Flow(r, x)'
  <2>1. taken' = r[1]
    BY <1>1, <1>2 DEF Flow
  <2> QED BY <1>7, <1>8, <1>9, <2>1 DEF Flow
<1> QED BY <1>4, <1>10 DEF FlowInv

\* What a command does keeps both, if whoever could have written to a pipe that
\* has no writer left has ended.
LEMMA CommandKeeps ==
  ASSUME DOMAIN proc = Commands, RunsWired, FlowInv, CleanInv,
         \A b \in Commands : b > 1 /\ proc[b] # "none" /\ Holders(WriteEnd(b-1)) = {} => Over(b-1),
         NEW c \in Commands, Command(c) \/ Quit(c)
  PROVE  FlowInv' /\ CleanInv'
<1>1. CASE ReadStdin(c)
  <2>1. c = 1
    BY <1>1, Connections
  <2>2. FlowInv'
    BY <1>1, <2>1, ReadsStdin
  <2>3. /\ proc[c] = "run" /\ UNCHANGED <<proc, ran, died, queue>>
        /\ \A d \in Commands : d # c => hold'[d] = hold[d]
    BY <1>1 DEF ReadStdin, FlowInv, FlowTypes
  <2>4. CleanInv'
    BY <2>1, <2>3, CleanMoves
  <2> QED BY <2>2, <2>4
<1>2. ASSUME NEW k \in Pipes, ReadPipe(c, k) PROVE FlowInv' /\ CleanInv'
  <2>1. c = k + 1 /\ k = c - 1
    BY <1>2, Connections DEF Pipes
  <2>2. FlowInv'
    BY <1>2, <2>1, ReadsPipe
  <2>3. /\ proc[c] = "run" /\ UNCHANGED <<proc, ran, died, taken>>
        /\ \A d \in Commands : d # c => hold'[d] = hold[d]
        /\ \A m \in Pipes : m # k => queue'[m] = queue[m]
    BY <1>2 DEF ReadPipe, FlowInv, FlowTypes
  <2>4. CleanInv'
    BY <2>1, <2>3, CleanMoves
  <2> QED BY <2>2, <2>4
<1>3. CASE WriteStdout(c)
  <2>1. FlowInv'
    BY <1>3, Connections, WritesStdout
  <2>2. /\ proc[c] = "run" /\ UNCHANGED <<proc, ran, died, taken, queue>>
        /\ \A d \in Commands : d # c => hold'[d] = hold[d]
    BY <1>3 DEF WriteStdout, FlowInv, FlowTypes
  <2>3. CleanInv'
    BY <2>2, CleanMoves
  <2> QED BY <2>1, <2>3
<1>4. ASSUME NEW k \in Pipes, WritePipe(c, k) PROVE FlowInv' /\ CleanInv'
  <2>1. c = k
    BY <1>4, Connections
  <2>2. FlowInv'
    BY <1>4, <2>1, WritesPipe
  <2>3. /\ proc[c] = "run" /\ UNCHANGED <<proc, ran, died, taken>>
        /\ \A d \in Commands : d # c => hold'[d] = hold[d]
        /\ \A m \in Pipes : m # c => queue'[m] = queue[m]
    BY <1>4, <2>1 DEF WritePipe, FlowInv, FlowTypes
  <2>4. CleanInv'
    BY <2>3, CleanMoves
  <2> QED BY <2>2, <2>4
<1>5. CASE Finish(c)
  <2>1. /\ proc[c] = "run" /\ hold[c] = 0 /\ EndOfFile(c)
        /\ proc' = [proc EXCEPT ![c] = "zombie"] /\ UNCHANGED <<ran, commands>>
    BY <1>5 DEF Finish, Exit
  <2>2. \A d \in Commands : proc'[d] = IF d = c THEN "zombie" ELSE proc[d]
    BY <2>1
  <2>3. \A d \in Commands : Over(d) => Over(d)'
    BY <2>2 DEF Over
  <2>4. IF c = 1 THEN taken = Items ELSE Over(c-1) /\ queue[c-1] = <<>>
    <3>1. IF c = 1 THEN taken = Items ELSE queue[c-1] = <<>> /\ Holders(WriteEnd(c-1)) = {}
      BY <2>1, Connections
    <3>2. c # 1 => c > 1
      BY CountOK DEF Commands
    <3> QED BY <2>1, <3>1, <3>2
  <2>5. ASSUME NEW d \in Commands, Clean(d)'
        PROVE  (/\ hold[d] = 0
                /\ IF d = 1 THEN taken = Items ELSE Over(d-1) /\ queue[d-1] = <<>>)'
    <3>1. /\ hold[d] = 0
          /\ IF d = 1 THEN taken = Items ELSE Over(d-1) /\ queue[d-1] = <<>>
      BY <2>1, <2>2, <2>4, <2>5 DEF CleanInv, Clean, Over, commands
    <3>2. d # 1 => d-1 \in Commands
      BY CountOK DEF Commands
    <3> QED BY <2>1, <2>3, <3>1, <3>2 DEF commands
  <2>6. CleanInv'
    BY <2>5 DEF CleanInv
  <2> QED BY <2>1, <2>6, FlowKept DEF commands
<1>6. CASE EndsEarly(c)
  <2>1. /\ proc[c] = "run" /\ proc' = [proc EXCEPT ![c] = "zombie"]
        /\ UNCHANGED <<ran, queue, hold, taken, output>> /\ died' = died \cup {c}
    BY <1>6 DEF EndsEarly, Exit
  <2>2. \A d \in Commands : proc'[d] = IF d = c THEN "zombie" ELSE proc[d]
    BY <2>1
  <2>3. \A d \in Commands : (Over(d) => Over(d)') /\ (Clean(d)' => Clean(d))
    BY <2>1, <2>2 DEF Over, Clean
  <2>4. ASSUME NEW d \in Commands, Clean(d)'
        PROVE  (/\ hold[d] = 0
                /\ IF d = 1 THEN taken = Items ELSE Over(d-1) /\ queue[d-1] = <<>>)'
    <3>1. d # 1 => d-1 \in Commands
      BY CountOK DEF Commands
    <3> QED BY <2>1, <2>3, <2>4, <3>1 DEF CleanInv
  <2>5. CleanInv'
    BY <2>4 DEF CleanInv
  <2> QED BY <2>1, <2>5, FlowKept
<1> QED BY <1>1, <1>2, <1>3, <1>4, <1>5, <1>6 DEF Command, Die, Quit

LEMMA DeliveryInvNext ==
  ProcInv /\ TableInv /\ FlowInv /\ CleanInv /\ [Next]_vars => FlowInv' /\ CleanInv'
<1> SUFFICES ASSUME ProcInv, TableInv, FlowInv, CleanInv, [Next]_vars
             PROVE  FlowInv' /\ CleanInv'
  OBVIOUS
<1>1. ProcTypes /\ NotRunYet
  BY DEF ProcInv
\* The parent touches no data, and only reaps whoever has ended.
<1>2. CASE OpenPipe \/ Fork \/ Setpgid \/ CloseEnds \/ CallFails \/ Wait \/ UNCHANGED vars
  <2>1. UNCHANGED <<ran, commands>>
    BY <1>2 DEF OpenPipe, Fork, Setpgid, CloseEnds, CallFails, Wait, vars
  <2>2. \A c \in Commands : \/ proc'[c] = proc[c]
                            \/ proc[c] = "zombie" /\ proc'[c] = "reaped"
                            \/ proc[c] = "none" /\ proc'[c] = "wire"
    <3>1. CASE Fork
      <4>1. proc[i] = "none" /\ proc' = [proc EXCEPT ![i] = "wire"]
        BY <1>1, <3>1 DEF ProcInv, Forked, Fork, ProcTypes, Commands
      <4> QED BY <1>1, <4>1 DEF ProcTypes
    <3>2. CASE Wait
      BY <1>1, <3>2 DEF Wait, Waitpid, ProcTypes
    <3>3. CASE OpenPipe \/ Setpgid \/ CloseEnds \/ CallFails \/ UNCHANGED vars
      BY <3>3 DEF OpenPipe, Setpgid, CloseEnds, CallFails, vars
    <3> QED BY <1>2, <3>1, <3>2, <3>3
  <2>3. \A c \in Commands : (Over(c) => Over(c)') /\ (Clean(c)' => Clean(c))
    BY <2>1, <2>2 DEF Over, Clean, commands
  <2>4. CleanInv'
    BY <2>1, <2>3, CleanKept
  <2> QED BY <2>1, <2>4, FlowKept DEF commands
<1>3. ASSUME NEW c \in Commands, Child(c) PROVE FlowInv' /\ CleanInv'
  <2>1. UNCHANGED commands
    BY <1>3 DEF Child, Wire, Exec, ExecFails
  <2>2. ASSUME NEW d \in Commands PROVE (Over(d) => Over(d)') /\ (Clean(d)' => Clean(d))
    <3>1. CASE Wire(c)
      BY <1>1, <2>1, <3>1 DEF Wire, Over, Clean, ProcTypes, commands
    <3>2. CASE Exec(c)
      BY <1>1, <2>1, <3>2 DEF Exec, Over, Clean, ProcTypes, commands
    <3>3. CASE ExecFails(c)
      BY <1>1, <2>1, <3>3 DEF ExecFails, Exit, Over, Clean, ProcTypes, NotRunYet, commands
    <3> QED BY <1>3, <3>1, <3>2, <3>3 DEF Child
  <2>3. CleanInv'
    BY <2>1, <2>2, CleanKept
  <2> QED BY <2>1, <2>3, FlowKept DEF commands
<1>4. ASSUME NEW c \in Commands, Command(c) \/ Quit(c) PROVE FlowInv' /\ CleanInv'
  <2>1. RunsWired /\ DOMAIN proc = Commands
    BY <1>1 DEF TableInv, ChildTables, RunsWired, ProcTypes
  <2>2. \A b \in Commands : b > 1 /\ proc[b] # "none" /\ Holders(WriteEnd(b-1)) = {} => Over(b-1)
    BY WriterEnded
  <2> QED BY <1>4, <2>1, <2>2, CommandKeeps
<1> QED BY <1>2, <1>3, <1>4 DEF Next, Parent

\* A chain of commands that all ran to the end passes all of the input on.
LEMMA Passed ==
  ASSUME \A c \in Commands : proc[c] = "none" => c \notin ran, FlowInv, CleanInv
  PROVE  Delivered
<1>1. PICK r \in [Commands -> Nat], w \in [Commands -> Nat] : Flow(r, w)
  BY DEF FlowInv
<1>2. ASSUME Ended, ran = Commands, died = {} PROVE Len(output) = Items
  <2>1. \A c \in Commands : Clean(c)
    BY <1>2 DEF Ended, Clean, Over
  <2>2. \A c \in Commands : hold[c] = 0 /\ w[c] = r[c]
    BY <1>1, <2>1 DEF CleanInv, Flow
  <2>3. ASSUME NEW c \in Commands, c # 1 PROVE r[c] = r[c-1]
    <3>1. c-1 \in Pipes /\ c-1 \in Commands /\ (c-1) + 1 = c
      BY <2>3, CountOK DEF Pipes, Commands
    <3>2. queue[c-1] = <<>>
      BY <2>1, <2>3 DEF CleanInv
    <3>3. Len(queue[c-1]) = w[c-1] - r[c]
      BY <1>1, <3>1 DEF Flow
    <3>4. w[c-1] - r[c] = 0
      BY <3>2, <3>3
    <3> QED BY <2>2, <3>1, <3>4
  <2>4. r[1] = Items
    BY <1>1, <2>1, CountOK DEF CleanInv, Flow
  <2> DEFINE S == {c \in Commands : r[c] # Items}
  <2>5. S = {}
    <3>1. SUFFICES ASSUME S # {} PROVE FALSE
      OBVIOUS
    <3>2. S \in SUBSET Nat
      BY DEF Commands
    <3> HIDE DEF S
    <3>3. PICK m : m \in S /\ \A y \in S : m <= y
      BY <3>1, <3>2, Least
    <3>4. m \in Commands /\ r[m] # Items /\ m # 1
      BY <2>4, <3>3 DEF S
    <3>5. m-1 \in Commands /\ ~(m <= m-1)
      BY <3>4, CountOK DEF Commands
    <3>6. r[m-1] = Items
      BY <3>3, <3>5 DEF S
    <3> QED BY <2>3, <3>4, <3>6
  <2>6. r[Count] = Items
    BY <2>5, CountOK
  <2> QED BY <1>1, <2>2, <2>6, CountOK DEF Flow
<1>3. InOrder
  BY <1>1 DEF Flow
<1> QED BY <1>2, <1>3 DEF Delivered, AllDelivered

\* Whichever of the standard descriptors the program was started with, what
\* comes out is what went in, in order, and all of it when every command ran to
\* the end of its input (pipeline2.c:140-167).
THEOREM DeliveredHolds == StandardStart /\ Spec => []Delivered
<1>1. ProcInv /\ FlowInv /\ CleanInv => Delivered
  BY Passed DEF ProcInv, NotRunYet
<1>2. Init => FlowInv /\ CleanInv
  BY FlowInvInit DEF Init
<1> QED BY ProcInvInit, ProcInvNext, TableInvInit, TableInvNext, DeliveryInvNext,
           <1>1, <1>2, PTL DEF Spec

-----------------------------------------------------------------------------
(* The types. *)

Typed(t) == DOMAIN t \subseteq 0..5 /\ \A d \in DOMAIN t : t[d] \in Ends

TableTypes == /\ \A p \in 0..Count : Typed(fds[p])
              /\ pipefds \in [Pipes -> (0..5) \X (0..5)]

DataTypes ==
  /\ queue \in [Pipes -> Seq(0..Items)] /\ \A k \in Pipes : Len(queue[k]) <= Capacity
  /\ hold \in [Commands -> 0..Items] /\ taken \in 0..Items /\ died \subseteq Commands

LEMMA HeadTail ==
  ASSUME NEW S, NEW q \in Seq(S), q # <<>>
  PROVE  Head(q) \in S /\ Tail(q) \in Seq(S) /\ Len(Tail(q)) = Len(q) - 1
  OBVIOUS

LEMMA StandardTyped == \A d \in 0..2 : Standard[d] \in Ends
  BY DEF Standard, Ends

LEMMA NoFdsTyped == Typed(NoFds)
  BY DEF NoFds, Typed

LEMMA ClosedTyped == ASSUME NEW t, Typed(t), NEW fd PROVE Typed(Close(t, fd))
  BY DEF Typed, Close

\* pipe() on a table that stays within six descriptors.
LEMMA PipeTyped ==
  ASSUME NEW t, Typed(t), NEW k \in Pipes,
         NEW u, u = Opened(t, ReadEnd(k)),
         NEW v, v = Opened(u, WriteEnd(k)), DOMAIN v \subseteq 0..5
  PROVE  Typed(v) /\ LowestFree(t) \in 0..5 /\ LowestFree(u) \in 0..5
<1>1. TableOK(t)
  BY SmallTable DEF Typed
<1>2. /\ TableOK(u) /\ DOMAIN u = DOMAIN t \cup {LowestFree(t)}
      /\ u[LowestFree(t)] = ReadEnd(k) /\ \A d \in DOMAIN t : u[d] = t[d]
  BY <1>1, OpenedTable
<1>3. /\ DOMAIN v = DOMAIN u \cup {LowestFree(u)}
      /\ v[LowestFree(u)] = WriteEnd(k) /\ \A d \in DOMAIN u : v[d] = u[d]
  BY <1>2, OpenedTable
<1>4. ReadEnd(k) \in Ends /\ WriteEnd(k) \in Ends
  BY DEF Ends
<1>5. LowestFree(t) \in 0..5 /\ LowestFree(u) \in 0..5
  BY <1>2, <1>3
<1>6. \A d \in DOMAIN u : u[d] \in Ends
  BY <1>2, <1>4 DEF Typed
<1>7. \A d \in DOMAIN v : v[d] \in Ends
  BY <1>3, <1>4, <1>6
<1> QED BY <1>5, <1>7 DEF Typed

LEMMA WiredTyped ==
  ASSUME NEW c \in Commands, NEW t, WiredTable(t, c)
  PROVE  Typed(t)
<1>1. DOMAIN t \subseteq 0..5
  BY DEF WiredTable
<1>2. ASSUME NEW d \in DOMAIN t PROVE t[d] \in Ends
  <2>1. /\ c # 1 => ReadEnd(c-1) \in Ends
        /\ c # Count => WriteEnd(c) \in Ends
        /\ {Stdin, Stdout, Stderr} \subseteq Ends
    <3>1. (c # 1 => c-1 \in Pipes) /\ (c # Count => c \in Pipes)
      BY CountOK DEF Commands, Pipes
    <3> QED BY <3>1 DEF Ends
  <2>2. CASE d = 0
    <3>1. t[d] = IF c = 1 THEN Stdin ELSE ReadEnd(c-1)
      BY <2>2 DEF WiredTable
    <3> QED BY <2>1, <3>1
  <2>3. CASE d = 1
    <3>1. t[d] = IF c = Count THEN Stdout ELSE WriteEnd(c)
      BY <2>3 DEF WiredTable
    <3> QED BY <2>1, <3>1
  <2>4. CASE d \notin {0, 1}
    <3>1. t[d] = Stderr
      BY <2>4 DEF WiredTable
    <3> QED BY <2>1, <3>1
  <2> QED BY <2>2, <2>3, <2>4
<1> QED BY <1>1, <1>2 DEF Typed

LEMMA TypesInit == StandardStart /\ CommandsInit => TableTypes /\ DataTypes
<1> SUFFICES ASSUME StandardStart, CommandsInit PROVE TableTypes /\ DataTypes
  OBVIOUS
<1>1. PICK t \in Started : fds = [p \in 0..Count |-> IF p = 0 THEN t ELSE NoFds]
  BY DEF CommandsInit
<1>2. Typed(t)
  BY StandardTyped DEF StandardStart, StandardOnly, Typed
<1>3. \A p \in 0..Count : Typed(fds[p])
  BY <1>1, <1>2, NoFdsTyped
<1>4. pipefds \in [Pipes -> (0..5) \X (0..5)]
  BY DEF CommandsInit
<1>5. DataTypes
  BY PipelineOK DEF CommandsInit, DataTypes
<1> QED BY <1>3, <1>4, <1>5 DEF TableTypes

\* A step that replaces one table, and opens no pipe.
LEMMA TableReplaced ==
  ASSUME TableTypes, DOMAIN fds = 0..Count, NEW q \in 0..Count, NEW t, Typed(t),
         fds' = [fds EXCEPT ![q] = t], pipefds' = pipefds
  PROVE  TableTypes'
<1>1. \A p \in 0..Count : fds'[p] = IF p = q THEN t ELSE fds[p]
  OBVIOUS
<1>2. \A p \in 0..Count : Typed(fds'[p])
  BY <1>1 DEF TableTypes
<1>3. \A p \in 0..Count : Typed(fds[p])'
  BY <1>2 DEF Typed, Ends
<1> QED BY <1>3 DEF TableTypes

\* One that opens pipe k, within six descriptors.
LEMMA TablePiped ==
  ASSUME TableTypes, DOMAIN fds = 0..Count, NEW q \in 0..Count, NEW k \in Pipes,
         NEW t, t = fds[q], NEW u, u = Opened(t, ReadEnd(k)),
         NEW v, v = Opened(u, WriteEnd(k)), DOMAIN v \subseteq 0..5,
         fds' = [fds EXCEPT ![q] = v],
         pipefds' = [pipefds EXCEPT ![k] = <<LowestFree(t), LowestFree(u)>>]
  PROVE  TableTypes'
<1>1. Typed(t)
  BY DEF TableTypes
<1>2. Typed(v) /\ LowestFree(t) \in 0..5 /\ LowestFree(u) \in 0..5
  BY <1>1, PipeTyped
<1>3. pipefds' \in [Pipes -> (0..5) \X (0..5)]
  BY <1>2 DEF TableTypes
<1>4. \A p \in 0..Count : fds'[p] = IF p = q THEN v ELSE fds[p]
  OBVIOUS
<1>5. \A p \in 0..Count : Typed(fds'[p])
  BY <1>2, <1>4 DEF TableTypes
<1>6. \A p \in 0..Count : Typed(fds[p])'
  BY <1>5 DEF Typed, Ends
<1> QED BY <1>3, <1>6 DEF TableTypes

LEMMA TableTypesNext ==
  ProcInv /\ TableInv /\ TableInv' /\ TableTypes /\ [Next]_vars => TableTypes'
<1> SUFFICES ASSUME ProcTypes, Forked, TableInv, TableInv', TableTypes, [Next]_vars
             PROVE  TableTypes'
  BY DEF ProcInv
<1>1. /\ DOMAIN fds = 0..Count /\ \A p \in 0..Count : Typed(fds[p])
      /\ 0 \in 0..Count /\ i \in Commands /\ Commands \subseteq 0..Count /\ 0 \notin Commands
  BY CountOK DEF TableInv, TableTypes, ProcTypes, Commands
<1>2. ASSUME NEW q \in 0..Count, NEW t, Typed(t),
             fds' = [fds EXCEPT ![q] = t], pipefds' = pipefds
      PROVE  TableTypes'
  BY <1>1, <1>2, TableReplaced
<1>3. ASSUME UNCHANGED <<fds, pipefds>> PROVE TableTypes'
  BY <1>3 DEF TableTypes, Typed, Ends
<1>4. CASE OpenPipe
  <2>1. pc = "pipe" /\ pc' = "fork" /\ i' = i /\ i < Count
    BY <1>4 DEF OpenPipe, Forked
  <2>2. PICK k \in Pipes : k = i
    BY <1>1, <2>1, CountOK DEF Pipes, Commands
  <2>3. PICK t, u, v : /\ t = fds[0] /\ u = Opened(t, ReadEnd(k)) /\ v = Opened(u, WriteEnd(k))
    OBVIOUS
  <2>4. /\ fds' = [fds EXCEPT ![0] = v]
        /\ pipefds' = [pipefds EXCEPT ![k] = <<LowestFree(t), LowestFree(u)>>]
    BY <1>4, <2>2, <2>3 DEF OpenPipe, OpensPipe
  <2>5. fds'[0] = v /\ \A p \in 0..Count : p # 0 => fds'[p] = fds[p]
    BY <1>1, <2>4
  <2>6. DOMAIN v \subseteq 0..5
    BY <2>1, <2>5 DEF TableInv, ParentTable, Handed
  <2> QED BY <1>1, <2>3, <2>4, <2>6, TablePiped
<1>5. CASE Fork
  <2>1. fds' = [fds EXCEPT ![i] = fds[0]] /\ pipefds' = pipefds
    BY <1>5 DEF Fork
  <2>2. PICK q, t : q \in 0..Count /\ q = i /\ t = fds[0]
    BY <1>1
  <2> QED BY <1>1, <1>2, <2>1, <2>2
<1>6. CASE CallFails \/ (Wait /\ ParentExits("exited"))
  <2>1. fds' = [fds EXCEPT ![0] = NoFds] /\ pipefds' = pipefds
    BY <1>6 DEF CallFails, Wait, ParentExits
  <2> QED BY <1>1, <1>2, <2>1, NoFdsTyped
<1>7. CASE Setpgid \/ (Wait /\ UNCHANGED fds) \/ UNCHANGED vars
  BY <1>3, <1>7 DEF Setpgid, Wait, vars, parent
<1>8. CASE CloseEnds
  <2>1. fds' = [fds EXCEPT ![0] = ClosedEnds(fds[0])] /\ pipefds' = pipefds
    BY <1>8 DEF CloseEnds
  <2>2. PICK t, u : t = fds[0] /\ u = ClosedEnds(t)
    OBVIOUS
  <2>3. \A fd : Typed(Close(t, fd)) /\ \A gd : Typed(Close(Close(t, fd), gd))
    BY <1>1, <2>2, ClosedTyped
  <2>4. Typed(u)
    BY <2>2, <2>3 DEF ClosedEnds
  <2> QED BY <1>1, <1>2, <2>1, <2>2, <2>4
<1>9. ASSUME NEW c \in Commands, ChildStep(c) PROVE TableTypes'
  <2>1. pipefds' = pipefds /\ c \in 0..Count
    BY <1>1, <1>9 DEF ChildStep, parent
  <2>2. CASE proc[c] = "wire" /\ fds' = [fds EXCEPT ![c] = Wired(@, c)]
    <3>1. PICK t, u : t = fds[c] /\ u = Wired(t, c)
      OBVIOUS
    <3>2. Handed(t, c, c < Count)
      BY <2>2, <3>1 DEF TableInv, ChildTables
    <3>3. WiredTable(u, c)
      BY <3>1, <3>2, Wires
    <3>4. Typed(u)
      BY <3>3, WiredTyped
    <3>5. fds' = [fds EXCEPT ![c] = u]
      BY <2>2, <3>1
    <3> QED BY <1>2, <2>1, <3>4, <3>5
  <2>3. CASE Exit(c)
    BY <1>2, <2>1, <2>3, NoFdsTyped DEF Exit
  <2>4. CASE UNCHANGED fds
    BY <1>3, <2>1, <2>4
  <2> QED BY <1>9, <2>2, <2>3, <2>4 DEF ChildStep
<1>10. Wait => UNCHANGED fds \/ ParentExits("exited")
  BY DEF Wait
<1> QED BY <1>4, <1>5, <1>6, <1>7, <1>8, <1>9, <1>10, StepCases

LEMMA DataTypesKept ==
  ASSUME DataTypes, UNCHANGED commands \/ \E c \in Commands : Command(c) \/ Quit(c)
  PROVE  DataTypes'
<1>1. CASE UNCHANGED commands
  BY <1>1 DEF DataTypes, commands
<1>3. ASSUME NEW c \in Commands, ReadStdin(c) PROVE DataTypes'
  <2>1. taken + 1 \in 0..Items
    BY <1>3, PipelineOK DEF ReadStdin, DataTypes
  <2> QED BY <1>3, <2>1 DEF ReadStdin, DataTypes
<1>4. ASSUME NEW c \in Commands, NEW k \in Pipes, ReadPipe(c, k) PROVE DataTypes'
  <2>1. PICK q \in Seq(0..Items) : q = queue[k] /\ q # <<>> /\ Len(q) <= Capacity
    BY <1>4 DEF ReadPipe, DataTypes
  <2>2. Head(q) \in 0..Items /\ Tail(q) \in Seq(0..Items) /\ Len(Tail(q)) = Len(q) - 1
    BY <2>1, HeadTail
  <2>3. Len(Tail(q)) <= Capacity
    BY <2>1, <2>2, PipelineOK
  <2>4. queue' = [queue EXCEPT ![k] = Tail(q)] /\ hold' = [hold EXCEPT ![c] = Head(q)]
    BY <1>4, <2>1 DEF ReadPipe
  <2>5. \A m \in Pipes : Len(queue'[m]) <= Capacity
    BY <2>3, <2>4 DEF DataTypes
  <2> QED BY <1>4, <2>2, <2>4, <2>5 DEF ReadPipe, DataTypes
<1>5. ASSUME NEW c \in Commands, WriteStdout(c) PROVE DataTypes'
  BY <1>5, PipelineOK DEF WriteStdout, DataTypes
<1>6. ASSUME NEW c \in Commands, NEW k \in Pipes, WritePipe(c, k) PROVE DataTypes'
  <2>1. PICK q \in Seq(0..Items) : q = queue[k] /\ Len(q) < Capacity
    BY <1>6 DEF WritePipe, DataTypes
  <2>2. PICK x \in 0..Items : x = hold[c]
    BY DEF DataTypes
  <2>3. Append(q, x) \in Seq(0..Items) /\ Len(Append(q, x)) = Len(q) + 1
    OBVIOUS
  <2>4. Len(Append(q, x)) <= Capacity
    BY <2>1, <2>3, PipelineOK
  <2>5. queue' = [queue EXCEPT ![k] = Append(q, x)] /\ hold' = [hold EXCEPT ![c] = 0]
    BY <1>6, <2>1, <2>2 DEF WritePipe
  <2>6. \A m \in Pipes : Len(queue'[m]) <= Capacity
    BY <2>4, <2>5 DEF DataTypes
  <2> QED BY <1>6, <2>3, <2>5, <2>6, PipelineOK DEF WritePipe, DataTypes
<1>7. ASSUME NEW c \in Commands, Finish(c) \/ EndsEarly(c) PROVE DataTypes'
  BY <1>7 DEF Finish, EndsEarly, DataTypes, commands
<1> QED BY <1>1, <1>3, <1>4, <1>5, <1>6, <1>7 DEF Command, Die, Quit

LEMMA DataTypesNext == DataTypes /\ [Next]_vars => DataTypes'
<1>1. Parent \/ CallFails \/ UNCHANGED vars \/ (\E c \in Commands : Child(c)) => UNCHANGED commands
  BY DEF Parent, OpenPipe, Fork, Setpgid, CloseEnds, Wait, CallFails, vars,
         Child, Wire, Exec, ExecFails
<1> QED BY <1>1, DataTypesKept DEF Next

\* Whichever of the standard descriptors the program was started with, no
\* process ever has one above 5 or anything open that is neither a standard
\* stream nor an end of a pipe, and no pipe holds more than it can
\* (pipeline2.c:60-94, 140-167).
THEOREM TypeCorrect == StandardStart /\ Spec => []TypeOK
<1>1. ProcTypes /\ TableTypes /\ DataTypes => TypeOK
  <2> SUFFICES ASSUME ProcTypes, TableTypes, DataTypes PROVE TypeOK
    OBVIOUS
  <2>1. \A p \in 0..Count : DOMAIN fds[p] \subseteq 0..5 /\ Range(fds[p]) \subseteq Ends
    BY DEF TableTypes, Typed, Range
  <2>2. CommandsTypeOK
    BY <2>1 DEF CommandsTypeOK, ProcTypes, TableTypes, DataTypes
  <2> QED BY <2>2 DEF TypeOK, ProcTypes
<1>2. ProcInv => ProcTypes
  BY DEF ProcInv
<1>3. StandardStart /\ Init => TableTypes /\ DataTypes
  BY TypesInit DEF Init
<1> QED BY ProcInvInit, ProcInvNext, TableInvInit, TableInvNext, TableTypesNext,
           DataTypesNext, <1>1, <1>2, <1>3, PTL DEF Spec

-----------------------------------------------------------------------------
(* The recursive program: each command opens the pipe to the next one,      *)
(* forks it, and then the two take one end each.                            *)

\* Both programs call the same functions on the same tables.
LEMMA SameTables ==
  /\ \A t, fd : Recursive!Close(t, fd) = Close(t, fd)
  /\ \A t, old, new : Recursive!Dup2(t, old, new) = Dup2(t, old, new)
  /\ \A t, e : Recursive!Opened(t, e) = Opened(t, e)
  /\ \A t : Recursive!LowestFree(t) = LowestFree(t)
  /\ Recursive!NoFds = NoFds
<1>1. \A S : Recursive!Cardinality(S) = Cardinality(S)
  BY DEF Recursive!Cardinality, Cardinality
<1>2. \A S : Recursive!Min(S) = Min(S)
  BY DEF Recursive!Min, Min
<1>3. \A t : Recursive!LowestFree(t) = LowestFree(t)
  BY <1>1, <1>2 DEF Recursive!LowestFree, LowestFree
<1>4. \A t, e : Recursive!Opened(t, e) = Opened(t, e)
  BY <1>3 DEF Recursive!Opened, Opened
<1>5. \A t, fd : Recursive!Close(t, fd) = Close(t, fd)
  BY DEF Recursive!Close, Close
<1>6. \A t, old, new : Recursive!Dup2(t, old, new) = Dup2(t, old, new)
  BY DEF Recursive!Dup2, Dup2
<1>7. Recursive!NoFds = NoFds
  BY DEF Recursive!NoFds, NoFds, Recursive!Stdin, Stdin
<1> QED BY <1>3, <1>4, <1>5, <1>6, <1>7

LEMMA SameEnds ==
  /\ Recursive!Commands = Commands /\ Recursive!Pipes = Pipes
  /\ \A k : Recursive!ReadEnd(k) = ReadEnd(k) /\ Recursive!WriteEnd(k) = WriteEnd(k)
  /\ Recursive!Stdin = Stdin /\ Recursive!Stdout = Stdout
  /\ \A t, fd, e : Recursive!Refers(t, fd, e) = Refers(t, fd, e)
  /\ \A e : Recursive!Holders(e) = Holders(e)
  BY DEF Recursive!Commands, Commands, Recursive!Pipes, Pipes, Recursive!ReadEnd, ReadEnd,
         Recursive!WriteEnd, WriteEnd, Recursive!Stdin, Stdin, Recursive!Stdout, Stdout,
         Recursive!Refers, Refers, Recursive!Holders, Holders

\* A command does the same in both.
LEMMA SameCommands ==
  ASSUME NEW c
  PROVE  /\ Recursive!Exit(c) <=> Exit(c)
         /\ Recursive!Exec(c) <=> Exec(c)
         /\ Recursive!ExecFails(c) <=> ExecFails(c)
         /\ Recursive!Command(c) <=> Command(c)
         /\ Recursive!Quit(c) <=> Quit(c)
<1> USE SameEnds
<1>1. Recursive!Exit(c) <=> Exit(c)
  BY SameTables DEF Recursive!Exit, Exit
<1>2. Recursive!Exec(c) <=> Exec(c)
  BY DEF Recursive!Exec, Exec, Recursive!commands, commands
<1>3. Recursive!ExecFails(c) <=> ExecFails(c)
  BY <1>1 DEF Recursive!ExecFails, ExecFails, Recursive!commands, commands
<1>4. Recursive!EndsEarly(c) <=> EndsEarly(c)
  BY <1>1 DEF Recursive!EndsEarly, EndsEarly
<1>5. Recursive!Quit(c) <=> Quit(c)
  BY <1>4 DEF Recursive!Quit, Quit
<1>6. Recursive!Die(c) <=> Die(c)
  BY <1>4 DEF Recursive!Die, Die, Recursive!Broken, Broken
<1>7. Recursive!Finish(c) <=> Finish(c)
  <2>1. Recursive!EndOfFile(c) <=> EndOfFile(c)
    BY DEF Recursive!EndOfFile, EndOfFile
  <2> QED BY <1>1, <2>1 DEF Recursive!Finish, Finish, Recursive!commands, commands
<1>8. /\ Recursive!ReadStdin(c) <=> ReadStdin(c)
      /\ Recursive!WriteStdout(c) <=> WriteStdout(c)
  BY DEF Recursive!ReadStdin, ReadStdin, Recursive!WriteStdout, WriteStdout
<1>9. ASSUME NEW k
       PROVE  /\ Recursive!ReadPipe(c, k) <=> ReadPipe(c, k)
              /\ Recursive!WritePipe(c, k) <=> WritePipe(c, k)
  BY DEF Recursive!ReadPipe, ReadPipe, Recursive!WritePipe, WritePipe
<1>10. Recursive!Command(c) <=> Command(c)
  BY <1>6, <1>7, <1>8, <1>9 DEF Recursive!Command, Command
<1> QED BY <1>1, <1>2, <1>3, <1>5, <1>10

\* The table of the process of command c before it opens a pipe ...
Own(t, c) ==
  /\ DOMAIN t \subseteq 0..2 /\ 0 \in DOMAIN t
  /\ t[0] = IF c = 1 THEN Stdin ELSE ReadEnd(c-1)
  /\ \A d \in DOMAIN t \ {0} : t[d] = Standard[d]

\* ... and when it has opened pipe c.  Descriptor 0 is in use, so that pipe()
\* returns none that dup2() is to make.
Piped(t, c) ==
  /\ DOMAIN t \subseteq 0..5
  /\ Reads(c) \in 1..5 /\ Writes(c) \in 1..5 /\ Reads(c) < Writes(c)
  /\ Refers(t, 0, IF c = 1 THEN Stdin ELSE ReadEnd(c-1))
  /\ Refers(t, Reads(c), ReadEnd(c)) /\ Refers(t, Writes(c), WriteEnd(c))
  /\ \A d \in DOMAIN t \ {0} : \/ d \in 1..2 /\ t[d] = Standard[d]
                               \/ d \in {Reads(c), Writes(c)}

LEMMA OpensOwn ==
  ASSUME NEW c \in Commands, c < Count, NEW t, Own(t, c), DOMAIN pipefds = Pipes,
         pipefds' = [pipefds EXCEPT ![c] =
                       <<LowestFree(t), LowestFree(Opened(t, ReadEnd(c)))>>]
  PROVE  Piped(Opened(Opened(t, ReadEnd(c)), WriteEnd(c)), c)'
<1> DEFINE a == LowestFree(t)
           u == Opened(t, ReadEnd(c))
           b == LowestFree(u)
           x == Opened(u, WriteEnd(c))
<1>1. DOMAIN t \subseteq 0..2 /\ 0 \in DOMAIN t /\ TableOK(t)
  <2>1. DOMAIN t \subseteq 0..5
    BY DEF Own
  <2> QED BY <2>1, SmallTable DEF Own
<1>2. /\ TableOK(u) /\ DOMAIN u = DOMAIN t \cup {a} /\ u[a] = ReadEnd(c)
      /\ \A d \in DOMAIN t : u[d] = t[d]
  BY <1>1, OpenedTable
<1>3. a \in Nat \ DOMAIN t /\ \A m \in Nat : m < a => m \in DOMAIN t
  BY <1>1, FreeFd
<1> HIDE DEF a, u
<1>4. /\ TableOK(x) /\ DOMAIN x = DOMAIN u \cup {b} /\ x[b] = WriteEnd(c)
      /\ \A d \in DOMAIN u : x[d] = u[d]
  BY <1>2, OpenedTable
<1>5. b \in Nat \ DOMAIN u /\ \A m \in Nat : m < b => m \in DOMAIN u
  BY <1>2, FreeFd
<1>6. c \in Pipes
  BY CountOK DEF Commands, Pipes
<1>7. pipefds'[c] = <<a, b>>
  BY <1>6 DEF a, u
<1> HIDE DEF b, x
<1>8. a \in 1..3 /\ b \in 1..4 /\ a < b
  <2>1. ~(a > 3)
    <3>1. SUFFICES ASSUME a > 3 PROVE FALSE
      OBVIOUS
    <3>2. 3 \in DOMAIN t
      BY <1>3, <3>1
    <3> QED BY <1>1, <3>2
  <2>2. ~(b > 4)
    <3>1. SUFFICES ASSUME b > 4 PROVE FALSE
      OBVIOUS
    <3>2. 3 \in DOMAIN u /\ 4 \in DOMAIN u
      BY <1>5, <3>1
    <3> QED BY <1>1, <1>2, <3>2
  <2>3. a # 0 /\ b # 0
    BY <1>1, <1>2, <1>3, <1>5
  <2>4. ~(b < a)
    BY <1>2, <1>3, <1>5
  <2>5. b # a
    BY <1>2, <1>5
  <2> QED BY <1>3, <1>5, <2>1, <2>2, <2>3, <2>4, <2>5
<1>9. /\ DOMAIN x = DOMAIN t \cup {a, b}
      /\ x[a] = ReadEnd(c) /\ x[b] = WriteEnd(c) /\ \A d \in DOMAIN t : x[d] = t[d]
  BY <1>2, <1>3, <1>4, <1>5, <1>8
<1>10. Reads(c)' = a /\ Writes(c)' = b
  BY <1>7 DEF Reads, Writes
<1>11. DOMAIN x \subseteq 0..5
  BY <1>1, <1>8, <1>9
<1>12. Refers(x, 0, IF c = 1 THEN Stdin ELSE ReadEnd(c-1))
  BY <1>1, <1>9 DEF Own, Refers
<1>13. Refers(x, a, ReadEnd(c)) /\ Refers(x, b, WriteEnd(c))
  BY <1>9 DEF Refers
<1>14. \A d \in DOMAIN x \ {0} : (d \in 1..2 /\ x[d] = Standard[d]) \/ d \in {a, b}
  BY <1>1, <1>9 DEF Own
<1>15. Reads(c)' \in 1..5 /\ Writes(c)' \in 1..5 /\ Reads(c)' < Writes(c)'
  BY <1>8, <1>10
<1>16. Piped(x, c)'
  BY <1>10, <1>11, <1>12, <1>13, <1>14, <1>15 DEF Piped, Refers
<1> QED BY <1>16 DEF x, u

\* The child of command c keeps the read end only, as its standard input.
LEMMA TakesReadEnd ==
  ASSUME NEW c \in Commands, c < Count, NEW t, Piped(t, c)
  PROVE  Own(Recursive!ChildFds(t, pipefds[c]), c + 1)
<1> DEFINE r == Reads(c)
           v == Close(t, Writes(c))
           x == Redirect(v, r, 0)
<1>1. /\ DOMAIN t \subseteq 0..5 /\ r \in 1..5 /\ Writes(c) \in 1..5 /\ r < Writes(c)
      /\ 0 \in DOMAIN t /\ r \in DOMAIN t /\ t[r] = ReadEnd(c)
      /\ \A d \in DOMAIN t \ {0} : \/ d \in 1..2 /\ t[d] = Standard[d]
                                   \/ d \in {r, Writes(c)}
  BY DEF Piped, Refers
<1>2. /\ TableOK(v) /\ DOMAIN v = DOMAIN t \ {Writes(c)} /\ \A d \in DOMAIN v : v[d] = t[d]
  BY <1>1, SmallTable, ClosedTable
<1>3. Recursive!ChildFds(t, pipefds[c]) = x
  <2>1. x = Close(Dup2(v, r, 0), r)
    BY <1>1 DEF Redirect
  <2> QED BY <2>1, SameTables DEF Recursive!ChildFds, Reads, Writes
<1> HIDE DEF r, v
<1>4. r \in DOMAIN v /\ r # 0 /\ 0 \in Nat
  BY <1>1, <1>2
<1>5. /\ DOMAIN x = (DOMAIN v \cup {0}) \ {r} /\ x[0] = v[r]
      /\ \A d \in DOMAIN v \ {r, 0} : x[d] = v[d]
  <2>1. TableOK(v) /\ r \in DOMAIN v /\ r # 0 /\ 0 \in Nat
    BY <1>2, <1>4
  <2> QED BY <2>1, RedirectedTable
<1> HIDE DEF x
<1>6. ASSUME NEW d \in DOMAIN x \ {0} PROVE d \in 1..2 /\ x[d] = Standard[d]
  <2>1. d \in DOMAIN t \ {0} /\ d # r /\ d # Writes(c) /\ x[d] = t[d]
    BY <1>2, <1>5
  <2> QED BY <1>1, <2>1
<1>7. 0 \in DOMAIN x /\ x[0] = ReadEnd(c)
  BY <1>1, <1>2, <1>4, <1>5
<1>8. c + 1 # 1 /\ (c + 1) - 1 = c
  BY DEF Commands
<1>9. DOMAIN x \subseteq 0..2
  BY <1>6
<1>10. Own(x, c + 1)
  BY <1>6, <1>7, <1>8, <1>9 DEF Own
<1> QED BY <1>3, <1>10

\* Its own process keeps the write end only, as its standard output.
LEMMA TakesWriteEnd ==
  ASSUME NEW c \in Commands, c < Count, NEW t, Piped(t, c)
  PROVE  WiredTable(Recursive!ParentFds(t, pipefds[c]), c)
<1> DEFINE w == Writes(c)
           v == Close(t, Reads(c))
           x == Redirect(v, w, 1)
<1>1. /\ DOMAIN t \subseteq 0..5 /\ w \in 1..5 /\ Reads(c) \in 1..5 /\ Reads(c) < w
      /\ w \in DOMAIN t /\ t[w] = WriteEnd(c)
      /\ 0 \in DOMAIN t /\ t[0] = IF c = 1 THEN Stdin ELSE ReadEnd(c-1)
      /\ \A d \in DOMAIN t \ {0} : \/ d \in 1..2 /\ t[d] = Standard[d]
                                   \/ d \in {Reads(c), w}
  BY DEF Piped, Refers
<1>2. /\ TableOK(v) /\ DOMAIN v = DOMAIN t \ {Reads(c)} /\ \A d \in DOMAIN v : v[d] = t[d]
  BY <1>1, SmallTable, ClosedTable
<1>3. Recursive!ParentFds(t, pipefds[c]) = x
  <2>1. x = Close(Dup2(v, w, 1), w)
    BY <1>1 DEF Redirect
  <2> QED BY <2>1, SameTables DEF Recursive!ParentFds, Reads, Writes
<1> HIDE DEF w, v
<1>4. w \in DOMAIN v /\ w # 1 /\ 1 \in Nat
  BY <1>1, <1>2
<1>5. /\ DOMAIN x = (DOMAIN v \cup {1}) \ {w} /\ x[1] = v[w]
      /\ \A d \in DOMAIN v \ {w, 1} : x[d] = v[d]
  BY <1>2, <1>4, RedirectedTable
<1> HIDE DEF x
<1>6. ASSUME NEW d \in DOMAIN x \ {0, 1} PROVE d = 2 /\ x[d] = Stderr
  <2>1. d \in DOMAIN t \ {0} /\ d # 1 /\ d # w /\ d # Reads(c) /\ x[d] = t[d]
    BY <1>2, <1>5
  <2>2. d = 2 /\ x[d] = Standard[2]
    BY <1>1, <2>1
  <2> QED BY <2>2, StandardEnds
<1>7. 0 \in DOMAIN x /\ x[0] = IF c = 1 THEN Stdin ELSE ReadEnd(c-1)
  BY <1>1, <1>2, <1>5
<1>8. 1 \in DOMAIN x /\ x[1] = WriteEnd(c) /\ c # Count
  BY <1>1, <1>2, <1>4, <1>5, CountOK DEF Commands
<1>9. DOMAIN x \subseteq 0..2
  BY <1>6
<1>10. \A d \in DOMAIN x :
         x[d] = CASE d = 0 -> IF c = 1 THEN Stdin ELSE ReadEnd(c - 1)
                  [] d = 1 -> IF c = Count THEN Stdout ELSE WriteEnd(c)
                  [] OTHER -> Stderr
  <2> SUFFICES ASSUME NEW d \in DOMAIN x
               PROVE  x[d] = CASE d = 0 -> IF c = 1 THEN Stdin ELSE ReadEnd(c - 1)
                               [] d = 1 -> IF c = Count THEN Stdout ELSE WriteEnd(c)
                               [] OTHER -> Stderr
    OBVIOUS
  <2>1. CASE d = 0
    BY <1>7, <2>1
  <2>2. CASE d = 1
    BY <1>8, <2>2
  <2>3. CASE d \notin {0, 1}
    BY <1>6, <2>3
  <2> QED BY <2>1, <2>2, <2>3
<1>11. WiredTable(x, c)
  BY <1>7, <1>8, <1>9, <1>10 DEF WiredTable
<1> QED BY <1>3, <1>11

\* The last command opens no pipe.
LEMMA LastIsWired == ASSUME NEW t, Own(t, Count) PROVE WiredTable(t, Count)
<1>1. ASSUME NEW d \in DOMAIN t
      PROVE  t[d] = CASE d = 0 -> IF Count = 1 THEN Stdin ELSE ReadEnd(Count - 1)
                      [] d = 1 -> IF Count = Count THEN Stdout ELSE WriteEnd(Count)
                      [] OTHER -> Stderr
  <2>1. CASE d = 0
    BY <2>1 DEF Own
  <2>2. CASE d = 1
    BY <2>2, StandardEnds DEF Own
  <2>3. CASE d = 2
    BY <2>3, StandardEnds DEF Own
  <2> QED BY <2>1, <2>2, <2>3 DEF Own
<1>2. DOMAIN t \subseteq 0..2 /\ 0 \in DOMAIN t /\ ~(Count < Count)
  BY CountOK DEF Own
<1> QED BY <1>1, <1>2 DEF WiredTable

ChainTypes ==
  /\ pc \in {"fork", "exit", "exited", "failed"}
  /\ proc \in [Commands -> {"none", "wire", "pipe", "fork", "redirect", "exec", "run", "zombie"}]
  /\ ran \subseteq Commands
  /\ DOMAIN fds = 0..Count /\ DOMAIN pipefds = Pipes

\* A command is forked once, by the one before it.
ChainForked ==
  /\ pc = "fork" => \A c \in Commands : proc[c] = "none"
  /\ \A c \in Commands : /\ c < Count /\ proc[c] \in {"none", "wire", "pipe", "fork"}
                              => proc[c+1] = "none"
                         /\ c = Count => proc[c] \notin {"pipe", "fork", "redirect"}
                         /\ c = 1 => proc[c] # "wire"
                         /\ proc[c] \notin {"run", "zombie"} => c \notin ran

ChainTable(c) ==
  /\ proc[c] = "pipe" => Own(fds[c], c)
  /\ proc[c] \in {"fork", "redirect"} => Piped(fds[c], c)
  /\ proc[c] = "wire" => Piped(fds[c], c-1)
  /\ proc[c] \in {"exec", "run"} => WiredTable(fds[c], c)

ChainTables == /\ pc = "fork" => Own(fds[0], 1)
               /\ \A c \in Commands : ChainTable(c)

ChainInv == ChainTypes /\ ChainForked /\ ChainTables

\* What the process of command c does to the processes and their tables.
ChainStep(c) ==
  /\ pc' = pc
  /\ \/ /\ proc[c] = "pipe" /\ proc' = [proc EXCEPT ![c] = "fork"] /\ UNCHANGED ran
        /\ pipefds' = [pipefds EXCEPT ![c] =
                         <<LowestFree(fds[c]), LowestFree(Opened(fds[c], ReadEnd(c)))>>]
        /\ fds' = [fds EXCEPT ![c] = Opened(Opened(fds[c], ReadEnd(c)), WriteEnd(c))]
     \/ /\ proc[c] = "fork" /\ proc' = [proc EXCEPT ![c] = "redirect", ![c+1] = "wire"]
        /\ fds' = [fds EXCEPT ![c+1] = fds[c]] /\ UNCHANGED <<pipefds, ran>>
     \/ /\ proc[c] = "wire" /\ UNCHANGED <<pipefds, ran>>
        /\ proc' = [proc EXCEPT ![c] = IF c = Count THEN "exec" ELSE "pipe"]
        /\ fds' = [fds EXCEPT ![c] = Recursive!ChildFds(fds[c], pipefds[c-1])]
     \/ /\ proc[c] = "redirect" /\ UNCHANGED <<pipefds, ran>>
        /\ proc' = [proc EXCEPT ![c] = "exec"]
        /\ fds' = [fds EXCEPT ![c] = Recursive!ParentFds(fds[c], pipefds[c])]
     \/ /\ proc[c] = "exec" /\ proc' = [proc EXCEPT ![c] = "run"]
        /\ ran' = ran \cup {c} /\ UNCHANGED <<pipefds, fds>>
     \/ proc[c] \in {"pipe", "fork", "exec", "run"} /\ Exit(c) /\ UNCHANGED <<pipefds, ran>>
     \/ UNCHANGED <<pipefds, fds, proc, ran>>

\* What the process that the user started does.
StartStep ==
  /\ UNCHANGED <<pipefds, ran>>
  /\ \/ /\ pc = "fork" /\ pc' = "exit" /\ fds' = [fds EXCEPT ![1] = fds[0]]
        /\ proc' = [proc EXCEPT ![1] = "pipe"]
     \/ /\ pc' \in {"failed", "exited"} /\ UNCHANGED proc
        /\ fds' \in {fds, [fds EXCEPT ![0] = NoFds]}

LEMMA CommandSteps ==
  ASSUME NEW c \in Commands, Command(c) \/ Quit(c)
  PROVE  /\ UNCHANGED <<pc, pipefds, ran>> /\ proc[c] = "run"
         /\ Exit(c) \/ UNCHANGED <<proc, fds>>
<1>1. CASE ReadStdin(c) \/ WriteStdout(c) \/ \E k \in Pipes : ReadPipe(c, k) \/ WritePipe(c, k)
  BY <1>1 DEF ReadStdin, WriteStdout, ReadPipe, WritePipe
<1>2. CASE Finish(c) \/ EndsEarly(c)
  BY <1>2 DEF Finish, EndsEarly
<1> QED BY <1>1, <1>2 DEF Command, Die, Quit

LEMMA ChainSteps ==
  ASSUME Recursive!Next
  PROVE  \/ UNCHANGED commands /\ StartStep
         \/ \E c \in Commands : /\ ChainStep(c)
                                /\ \/ UNCHANGED commands /\ proc[c] # "run"
                                   \/ Command(c) \/ Quit(c)
<1>1. UNCHANGED Recursive!commands => UNCHANGED commands
  BY DEF Recursive!commands, commands
<1>2. CASE Recursive!Start
  BY <1>1, <1>2 DEF Recursive!Start, StartStep
<1>3. CASE Recursive!StartFails
  BY <1>1, <1>3 DEF Recursive!StartFails, StartStep
<1>4. CASE Recursive!Leave
  BY <1>1, <1>4, SameTables DEF Recursive!Leave, StartStep
<1>5. ASSUME NEW c \in Commands, Recursive!Child(c)
      PROVE  ChainStep(c) /\ UNCHANGED commands /\ proc[c] # "run"
  <2>1. CASE Recursive!OpenPipe(c)
    <3>1. proc[c] = "pipe" /\ proc' = [proc EXCEPT ![c] = "fork"] /\ pc' = pc /\ UNCHANGED ran
      BY <2>1 DEF Recursive!OpenPipe
    <3>2. /\ pipefds' = [pipefds EXCEPT ![c] =
                           <<LowestFree(fds[c]), LowestFree(Opened(fds[c], ReadEnd(c)))>>]
          /\ fds' = [fds EXCEPT ![c] = Opened(Opened(fds[c], ReadEnd(c)), WriteEnd(c))]
      BY <2>1, SameTables, SameEnds DEF Recursive!OpenPipe, Recursive!OpensPipe
    <3>3. UNCHANGED commands
      BY <1>1, <2>1 DEF Recursive!OpenPipe
    <3> QED BY <3>1, <3>2, <3>3 DEF ChainStep
  <2>2. CASE Recursive!Fork(c)
    BY <1>1, <2>2 DEF Recursive!Fork, ChainStep
  <2>3. CASE Recursive!Wire(c)
    BY <1>1, <2>3 DEF Recursive!Wire, ChainStep
  <2>4. CASE Recursive!Redirect(c)
    BY <1>1, <2>4 DEF Recursive!Redirect, ChainStep
  <2>5. CASE Recursive!Exec(c)
    <3>1. Exec(c)
      BY <2>5, SameCommands
    <3> QED BY <3>1 DEF Exec, ChainStep
  <2>6. CASE Recursive!ExecFails(c)
    <3>1. ExecFails(c)
      BY <2>6, SameCommands
    <3> QED BY <3>1 DEF ExecFails, ChainStep
  <2> QED BY <1>5, <2>1, <2>2, <2>3, <2>4, <2>5, <2>6 DEF Recursive!Child
<1>6. ASSUME NEW c \in Commands, Recursive!CallFails(c)
      PROVE  ChainStep(c) /\ UNCHANGED commands /\ proc[c] # "run"
  <2>1. Exit(c)
    BY <1>6, SameCommands DEF Recursive!CallFails
  <2> QED BY <1>1, <1>6, <2>1 DEF Recursive!CallFails, ChainStep
<1>7. ASSUME NEW c \in Commands, Recursive!Command(c) \/ Recursive!Quit(c)
      PROVE  ChainStep(c) /\ (Command(c) \/ Quit(c))
  <2>1. Command(c) \/ Quit(c)
    BY <1>7, SameCommands
  <2> QED BY <2>1, CommandSteps DEF ChainStep
<1> QED BY <1>2, <1>3, <1>4, <1>5, <1>6, <1>7, SameEnds DEF Recursive!Next

LEMMA ChainProcsInit ==
  ASSUME StandardStart, Recursive!Init
  PROVE  /\ ChainTypes /\ ChainForked /\ StandardOnly(fds[0]) /\ pc = "fork" /\ ran = {}
         /\ \A c \in Commands : proc[c] = "none" /\ hold[c] = 0
         /\ output = <<>>
<1>1. /\ pc = "fork" /\ proc = [c \in Commands |-> "none"] /\ ran = {}
      /\ pipefds = [k \in Pipes |-> <<0, 0>>]
      /\ \E t \in Started : fds = [p \in 0..Count |-> IF p = 0 THEN t ELSE NoFds]
      /\ hold = [c \in Commands |-> 0] /\ output = <<>>
  BY SameEnds, SameTables DEF Recursive!Init, Recursive!CommandsInit
<1>2. PICK t \in Started : fds = [p \in 0..Count |-> IF p = 0 THEN t ELSE NoFds]
  BY <1>1
<1>3. fds[0] = t
  BY <1>2, CountOK
<1>4. StandardOnly(fds[0])
  BY <1>3 DEF StandardStart
<1>5. ChainTypes
  BY <1>1, <1>2 DEF ChainTypes
<1>6. \A c \in Commands : c < Count => c + 1 \in Commands
  BY CountOK DEF Commands
<1>7. ChainForked
  BY <1>1, <1>6 DEF ChainForked
<1> QED BY <1>1, <1>4, <1>5, <1>7

LEMMA ChainInvInit ==
  StandardStart /\ Recursive!Init /\ 0 \in DOMAIN fds[0] => ChainInv
<1> SUFFICES ASSUME StandardStart, Recursive!Init, 0 \in DOMAIN fds[0] PROVE ChainInv
  OBVIOUS
<1>1. Own(fds[0], 1)
  BY ChainProcsInit, StandardEnds DEF StandardOnly, Own
<1> QED BY <1>1, ChainProcsInit DEF ChainInv, ChainTables, ChainTable

\* What does not change for a command leaves its table as it is to be.
LEMMA ChainTableKept ==
  ASSUME NEW c \in Commands, ChainTable(c), fds'[c] = fds[c],
         proc'[c] = proc[c] \/ proc'[c] \in {"none", "zombie"},
         proc[c] \in {"fork", "redirect"} => pipefds'[c] = pipefds[c],
         proc[c] = "wire" => pipefds'[c-1] = pipefds[c-1]
  PROVE  ChainTable(c)'
<1>1. PICK t : t = fds[c]
  OBVIOUS
<1>2. proc'[c] = "pipe" => Own(t, c)
  BY <1>1 DEF ChainTable
<1>3. ASSUME proc'[c] \in {"fork", "redirect"} PROVE Piped(t, c)'
  <2>1. Piped(t, c) /\ pipefds'[c] = pipefds[c]
    BY <1>1, <1>3 DEF ChainTable
  <2> QED BY <2>1 DEF Piped, Reads, Writes
<1>4. ASSUME proc'[c] = "wire" PROVE Piped(t, c-1)'
  <2>1. Piped(t, c-1) /\ pipefds'[c-1] = pipefds[c-1]
    BY <1>1, <1>4 DEF ChainTable
  <2> QED BY <2>1 DEF Piped, Reads, Writes
<1>5. proc'[c] \in {"exec", "run"} => WiredTable(t, c)
  BY <1>1 DEF ChainTable
<1> QED BY <1>1, <1>2, <1>3, <1>4, <1>5 DEF ChainTable, Own, Piped, WiredTable

\* It disturbs no process but its own, and, by fork(), that of the next command.
LEMMA ChainFrame ==
  ASSUME ChainTypes, ChainForked, NEW c \in Commands, ChainStep(c)
  PROVE  /\ ChainTypes'
         /\ \A d \in Commands \ {c} : (proc[c] = "fork" /\ d = c+1) \/ proc'[d] = proc[d]
         /\ \A p \in 0..Count \ {c} : (proc[c] = "fork" /\ p = c+1) \/ fds'[p] = fds[p]
         /\ \A k \in Pipes \ {c} : pipefds'[k] = pipefds[k]
         /\ proc[c] # "pipe" => pipefds' = pipefds
<1>1. /\ DOMAIN proc = Commands /\ DOMAIN fds = 0..Count /\ Commands \subseteq 0..Count
      /\ proc[c] = "fork" => c < Count
  BY CountOK DEF ChainTypes, ChainForked, Commands
<1>2. proc[c] = "fork" => c+1 \in Commands
  BY <1>1, CountOK DEF Commands
<1>3. \/ \E s \in {"pipe", "fork", "exec", "run", "zombie"} : proc' = [proc EXCEPT ![c] = s]
      \/ proc[c] = "fork" /\ proc' = [proc EXCEPT ![c] = "redirect", ![c+1] = "wire"]
      \/ proc' = proc
  BY DEF ChainStep, Exit
<1>4. \/ \E t : fds' = [fds EXCEPT ![c] = t]
      \/ proc[c] = "fork" /\ fds' = [fds EXCEPT ![c+1] = fds[c]]
      \/ fds' = fds
  BY DEF ChainStep, Exit
<1>5. /\ pc' = pc /\ ran' \in {ran, ran \cup {c}}
      /\ \/ pipefds' = pipefds
         \/ proc[c] = "pipe" /\ \E f : pipefds' = [pipefds EXCEPT ![c] = f]
  BY DEF ChainStep
<1>6. proc' \in [Commands -> {"none", "wire", "pipe", "fork", "redirect", "exec", "run", "zombie"}]
  BY <1>3 DEF ChainTypes
<1>7. DOMAIN fds' = 0..Count /\ DOMAIN pipefds' = Pipes
  BY <1>4, <1>5 DEF ChainTypes
<1>8. ChainTypes'
  BY <1>5, <1>6, <1>7 DEF ChainTypes
<1>9. \A d \in Commands \ {c} : (proc[c] = "fork" /\ d = c+1) \/ proc'[d] = proc[d]
  BY <1>1, <1>3
<1>10. \A p \in 0..Count \ {c} : (proc[c] = "fork" /\ p = c+1) \/ fds'[p] = fds[p]
  BY <1>1, <1>4
<1>11. \A k \in Pipes \ {c} : pipefds'[k] = pipefds[k]
  BY <1>5 DEF ChainTypes
<1> QED BY <1>5, <1>8, <1>9, <1>10, <1>11

LEMMA ChainForkedNext ==
  ASSUME ChainTypes, ChainForked, NEW c \in Commands, ChainStep(c)
  PROVE  ChainForked'
<1>1. /\ \A d \in Commands \ {c} : (proc[c] = "fork" /\ d = c+1) \/ proc'[d] = proc[d]
      /\ pc' = pc /\ proc \in [Commands -> {"none", "wire", "pipe", "fork", "redirect", "exec", "run", "zombie"}]
  BY ChainFrame DEF ChainStep, ChainTypes
<1>2. /\ pc = "fork" => \A d \in Commands : proc[d] = "none"
      /\ \A d \in Commands : /\ d < Count /\ proc[d] \in {"none", "wire", "pipe", "fork"} => proc[d+1] = "none"
                             /\ d = Count => proc[d] \notin {"pipe", "fork", "redirect"}
                             /\ d = 1 => proc[d] # "wire"
                             /\ proc[d] \notin {"run", "zombie"} => d \notin ran
  BY DEF ChainForked
<1>3. CASE proc' = proc /\ ran' = ran
  BY <1>2, <1>3, <1>1 DEF ChainForked
<1>4. CASE /\ proc[c] = "fork" /\ proc' = [proc EXCEPT ![c] = "redirect", ![c+1] = "wire"]
           /\ ran' = ran
  <2>1. c < Count /\ c+1 \in Commands /\ c+1 # 1 /\ c+1 # c
    BY <1>2, <1>4, CountOK DEF Commands
  <2>2. /\ proc[c+1] = "none" /\ proc'[c+1] = "wire" /\ proc'[c] = "redirect"
        /\ \A d \in Commands \ {c, c+1} : proc'[d] = proc[d]
    BY <1>1, <1>2, <1>4, <2>1
  <2>3. c+1 < Count => proc'[c+2] = "none"
    <3>1. c+1 < Count => (c+1)+1 \in Commands \ {c, c+1} /\ proc[(c+1)+1] = "none"
      BY <1>2, <2>1, <2>2, CountOK DEF Commands
    <3> QED BY <2>2, <3>1 DEF Commands
  <2>4. ASSUME NEW d \in Commands, d < Count, proc'[d] \in {"none", "wire", "pipe", "fork"}
        PROVE  proc'[d+1] = "none"
    <3>1. d # c
      BY <2>2, <2>4
    <3>2. CASE d = c+1
      BY <2>3, <2>4, <3>2 DEF Commands
    <3>3. CASE d # c+1
      <4>1. proc[d+1] = "none" /\ d+1 \in Commands /\ d+1 # c+1
        BY <1>2, <2>2, <2>4, <3>1, <3>3, CountOK DEF Commands
      <4> QED BY <1>4, <2>2, <4>1
    <3> QED BY <3>2, <3>3
  <2>5. ASSUME NEW d \in Commands
        PROVE  /\ d = Count => proc'[d] \notin {"pipe", "fork", "redirect"}
               /\ d = 1 => proc'[d] # "wire"
               /\ proc'[d] \notin {"run", "zombie"} => d \notin ran'
    BY <1>2, <1>4, <2>1, <2>2
  <2>6. pc' # "fork"
    BY <1>1, <1>2, <1>4
  <2> QED BY <2>4, <2>5, <2>6 DEF ChainForked
<1>5. ASSUME NEW s \in {"pipe", "fork", "exec", "run", "zombie"}, proc' = [proc EXCEPT ![c] = s],
             proc[c] # "none",
             s \in {"pipe", "fork"} => c < Count /\ proc[c] \in {"wire", "pipe"},
             \/ s \in {"run", "zombie"} /\ ran' \in {ran, ran \cup {c}}
             \/ ran' = ran /\ proc[c] \notin {"run", "zombie"}
      PROVE  ChainForked'
  <2>1. proc'[c] = s /\ \A d \in Commands \ {c} : proc'[d] = proc[d]
    BY <1>1, <1>5
  <2>2. \A d \in Commands : d < Count => d+1 \in Commands /\ d+1 # d
    BY CountOK DEF Commands
  <2>3. ASSUME NEW d \in Commands, d < Count, proc'[d] \in {"none", "wire", "pipe", "fork"}
        PROVE  proc'[d+1] = "none"
    <3>1. proc[d] \in {"none", "wire", "pipe", "fork"}
      BY <1>5, <2>1, <2>3
    <3>2. proc[d+1] = "none"
      BY <1>2, <2>3, <3>1
    <3>3. d+1 # c
      BY <1>5, <3>2
    <3> QED BY <2>1, <2>2, <2>3, <3>2, <3>3
  <2>4. ASSUME NEW d \in Commands
        PROVE  /\ d = Count => proc'[d] \notin {"pipe", "fork", "redirect"}
               /\ d = 1 => proc'[d] # "wire"
               /\ proc'[d] \notin {"run", "zombie"} => d \notin ran'
    <3>1. CASE d = c
      <4>1. s \in {"pipe", "fork"} => c # Count
        BY <1>5, CountOK DEF Commands
      <4>2. proc'[c] = s /\ s \notin {"redirect", "wire"}
        BY <2>1
      <4>3. s \notin {"run", "zombie"} => c \notin ran'
        BY <1>2, <1>5
      <4> QED BY <3>1, <4>1, <4>2, <4>3
    <3>2. CASE d # c
      BY <1>2, <1>5, <2>1, <3>2
    <3> QED BY <3>1, <3>2
  <2>5. pc' # "fork"
    BY <1>1, <1>2, <1>5
  <2> QED BY <2>3, <2>4, <2>5 DEF ChainForked
<1>6. proc[c] = "pipe" => c < Count
  BY <1>2, CountOK DEF Commands
<1>7. CASE proc[c] = "pipe" /\ proc' = [proc EXCEPT ![c] = "fork"] /\ UNCHANGED ran
  BY <1>5, <1>6, <1>7
<1>8. CASE proc[c] = "wire" /\ UNCHANGED ran /\ proc' = [proc EXCEPT ![c] = IF c = Count THEN "exec" ELSE "pipe"]
  <2>1. CASE c = Count
    BY <1>5, <1>8, <2>1
  <2>2. CASE c # Count
    <3>1. c < Count
      BY <2>2, CountOK DEF Commands
    <3> QED BY <1>5, <1>8, <2>2, <3>1
  <2> QED BY <2>1, <2>2
<1>9. CASE proc[c] = "redirect" /\ UNCHANGED ran /\ proc' = [proc EXCEPT ![c] = "exec"]
  BY <1>5, <1>9
<1>10. CASE proc[c] = "exec" /\ proc' = [proc EXCEPT ![c] = "run"] /\ ran' = ran \cup {c}
  BY <1>5, <1>10
<1>11. CASE proc[c] \in {"pipe", "fork", "exec", "run"} /\ proc' = [proc EXCEPT ![c] = "zombie"] /\ UNCHANGED ran
  <2>1. proc[c] # "none" /\ "zombie" \notin {"pipe", "fork"} /\ ran' \in {ran, ran \cup {c}}
    BY <1>11
  <2> QED BY <1>5, <1>11, <2>1
<1> QED BY <1>3, <1>4, <1>7, <1>8, <1>9, <1>10, <1>11 DEF ChainStep, Exit

LEMMA ChainTablesNext ==
  ASSUME ChainTypes, ChainForked, ChainTables, NEW c \in Commands, ChainStep(c)
  PROVE  ChainTables'
<1>1. /\ ChainForked' /\ DOMAIN proc = Commands /\ DOMAIN fds = 0..Count /\ DOMAIN pipefds = Pipes
      /\ \A d \in Commands \ {c} : (proc[c] = "fork" /\ d = c+1) \/ proc'[d] = proc[d]
      /\ \A p \in 0..Count \ {c} : (proc[c] = "fork" /\ p = c+1) \/ fds'[p] = fds[p]
      /\ \A k \in Pipes \ {c} : pipefds'[k] = pipefds[k]
      /\ proc[c] # "pipe" => pipefds' = pipefds
  BY ChainFrame, ChainForkedNext DEF ChainTypes
<1>2. /\ \A d \in Commands : /\ d < Count /\ proc[d] \in {"none", "wire", "pipe", "fork"} => proc[d+1] = "none"
                             /\ d = Count => proc[d] \notin {"pipe", "fork", "redirect"}
                             /\ d = 1 => proc[d] # "wire"
  BY DEF ChainForked
<1>3. Commands \subseteq 0..Count /\ 0 \notin Commands
  BY CountOK DEF Commands
<1>4. pc' = "fork" => proc' = proc /\ fds' = fds
  <2>1. pc' = pc /\ (pc = "fork" => proc[c] = "none")
    BY DEF ChainStep, ChainForked
  <2> QED BY <2>1 DEF ChainStep
<1>5. (pc = "fork" => Own(fds[0], 1))'
  <2>1. pc' = "fork" => Own(fds[0], 1) /\ fds'[0] = fds[0]
    BY <1>4 DEF ChainTables, ChainStep
  <2> QED BY <2>1 DEF Own
\* The other commands' tables.
<1>6. ASSUME NEW d \in Commands, d # c, ~(proc[c] = "fork" /\ d = c+1) PROVE ChainTable(d)'
  <2>1. ChainTable(d) /\ fds'[d] = fds[d] /\ proc'[d] = proc[d]
    BY <1>1, <1>3, <1>6 DEF ChainTables
  <2>2. ASSUME proc[d] \in {"fork", "redirect"} PROVE pipefds'[d] = pipefds[d]
    <3>1. d \in Pipes
      BY <1>2, <2>2, CountOK DEF Commands, Pipes
    <3> QED BY <1>1, <1>6, <3>1
  <2>3. ASSUME proc[d] = "wire" PROVE pipefds'[d-1] = pipefds[d-1]
    <3>1. d-1 \in Pipes /\ d-1 \in Commands /\ (d-1)+1 = d /\ d-1 < Count
      BY <1>2, <2>3, CountOK DEF Commands, Pipes
    <3>2. proc[d-1] # "pipe"
      BY <1>2, <2>3, <3>1
    <3> QED BY <1>1, <3>1, <3>2
  <2> QED BY <2>1, <2>2, <2>3, ChainTableKept
\* Its own, and that of the child it forks.
<1>7. PICK t : t = fds[c]
  OBVIOUS
<1>8. CASE UNCHANGED <<pipefds, fds, proc>>
  <2>1. ChainTable(c)'
    BY <1>8, ChainTableKept DEF ChainTables
  <2>2. proc[c] = "fork" => c+1 \in Commands
    BY <1>2, CountOK DEF Commands
  <2>3. proc[c] = "fork" => ChainTable(c+1)'
    BY <1>8, <2>2, ChainTableKept DEF ChainTables
  <2> QED BY <1>5, <1>6, <2>1, <2>3 DEF ChainTables
<1>9. CASE /\ proc[c] = "pipe" /\ proc' = [proc EXCEPT ![c] = "fork"]
           /\ pipefds' = [pipefds EXCEPT ![c] = <<LowestFree(t), LowestFree(Opened(t, ReadEnd(c)))>>]
           /\ fds' = [fds EXCEPT ![c] = Opened(Opened(t, ReadEnd(c)), WriteEnd(c))]
  <2>1. c < Count /\ Own(t, c)
    BY <1>2, <1>7, <1>9, CountOK DEF ChainTables, ChainTable, Commands
  <2>2. PICK x : x = Opened(Opened(t, ReadEnd(c)), WriteEnd(c))
    OBVIOUS
  <2>3. Piped(Opened(Opened(t, ReadEnd(c)), WriteEnd(c)), c)'
    BY <1>1, <1>9, <2>1, OpensOwn
  <2>4. fds'[c] = x /\ proc'[c] = "fork"
    BY <1>1, <1>3, <1>9, <2>2
  <2>5. ChainTable(c)'
    BY <2>2, <2>3, <2>4 DEF ChainTable, Piped
  <2> QED BY <1>5, <1>6, <1>9, <2>5 DEF ChainTables
<1>10. CASE /\ proc[c] = "fork" /\ proc' = [proc EXCEPT ![c] = "redirect", ![c+1] = "wire"]
            /\ fds' = [fds EXCEPT ![c+1] = fds[c]] /\ UNCHANGED pipefds
  <2>1. c < Count /\ c+1 \in Commands /\ c+1 # c /\ (c+1)-1 = c /\ c+1 \in 0..Count
    BY <1>2, <1>10, CountOK DEF Commands
  <2>2. Piped(t, c)
    BY <1>7, <1>10 DEF ChainTables, ChainTable
  <2>3. Piped(t, c)'
    BY <1>10, <2>2 DEF Piped, Reads, Writes
  <2>4. /\ fds'[c] = t /\ proc'[c] = "redirect" /\ fds'[c+1] = t /\ proc'[c+1] = "wire"
    BY <1>1, <1>3, <1>7, <1>10, <2>1
  <2>5. ChainTable(c)'
    BY <2>3, <2>4 DEF ChainTable, Piped
  <2>6. PICK e \in Commands : e = c+1
    BY <2>1
  <2>7. fds'[e] = t /\ proc'[e] = "wire" /\ e-1 = c
    BY <2>1, <2>4, <2>6
  <2>8. Piped(fds[e], e-1)'
    BY <2>3, <2>7 DEF Piped
  <2>9. ChainTable(e)'
    BY <2>7, <2>8 DEF ChainTable
  <2> QED BY <1>5, <1>6, <2>5, <2>6, <2>9 DEF ChainTables
<1>11. CASE /\ proc[c] = "wire" /\ UNCHANGED pipefds
            /\ proc' = [proc EXCEPT ![c] = IF c = Count THEN "exec" ELSE "pipe"]
            /\ fds' = [fds EXCEPT ![c] = Recursive!ChildFds(t, pipefds[c-1])]
  <2>1. PICK b \in Commands : b = c-1 /\ b < Count /\ b+1 = c
    BY <1>2, <1>11, CountOK DEF Commands
  <2>2. Piped(t, b)
    BY <1>7, <1>11, <2>1 DEF ChainTables, ChainTable
  <2>3. PICK x : x = Recursive!ChildFds(t, pipefds[b])
    OBVIOUS
  <2>4. Own(x, c)
    BY <2>1, <2>2, <2>3, TakesReadEnd
  <2>5. fds'[c] = x /\ proc'[c] = IF c = Count THEN "exec" ELSE "pipe"
    BY <1>1, <1>3, <1>11, <2>1, <2>3
  <2>6. c = Count => WiredTable(x, c)
    BY <2>4, LastIsWired
  <2>7. ChainTable(c)'
    BY <2>4, <2>5, <2>6 DEF ChainTable, Own, WiredTable
  <2> QED BY <1>5, <1>6, <1>11, <2>7 DEF ChainTables
<1>12. CASE /\ proc[c] = "redirect" /\ UNCHANGED pipefds
            /\ proc' = [proc EXCEPT ![c] = "exec"]
            /\ fds' = [fds EXCEPT ![c] = Recursive!ParentFds(t, pipefds[c])]
  <2>1. c < Count
    BY <1>2, <1>12, CountOK DEF Commands
  <2>2. Piped(t, c)
    BY <1>7, <1>12 DEF ChainTables, ChainTable
  <2>3. PICK x : x = Recursive!ParentFds(t, pipefds[c])
    OBVIOUS
  <2>4. WiredTable(x, c)
    BY <2>1, <2>2, <2>3, TakesWriteEnd
  <2>5. fds'[c] = x /\ proc'[c] = "exec"
    BY <1>1, <1>3, <1>12, <2>3
  <2>6. ChainTable(c)'
    BY <2>4, <2>5 DEF ChainTable, WiredTable
  <2> QED BY <1>5, <1>6, <1>12, <2>6 DEF ChainTables
<1>13. CASE proc[c] = "exec" /\ proc' = [proc EXCEPT ![c] = "run"] /\ UNCHANGED <<pipefds, fds>>
  <2>1. WiredTable(t, c) /\ fds'[c] = t /\ proc'[c] = "run"
    BY <1>1, <1>7, <1>13 DEF ChainTables, ChainTable
  <2>2. ChainTable(c)'
    BY <2>1 DEF ChainTable, WiredTable
  <2> QED BY <1>5, <1>6, <1>13, <2>2 DEF ChainTables
<1>14. CASE Exit(c) /\ UNCHANGED pipefds
  <2>1. proc'[c] = "zombie" /\ \A d \in Commands \ {c} : proc'[d] = proc[d] /\ fds'[d] = fds[d]
    BY <1>1, <1>3, <1>14 DEF Exit
  <2>2. ChainTable(c)'
    BY <2>1 DEF ChainTable
  <2>3. ASSUME NEW d \in Commands, d # c PROVE ChainTable(d)'
    BY <1>14, <2>1, <2>3, ChainTableKept DEF ChainTables
  <2> QED BY <1>5, <2>2, <2>3 DEF ChainTables
<1> QED BY <1>7, <1>8, <1>9, <1>10, <1>11, <1>12, <1>13, <1>14 DEF ChainStep

\* Which processes there are does not depend on their tables.
LEMMA ChainProcsNext ==
  ChainTypes /\ ChainForked /\ [Recursive!Next]_Recursive!vars => ChainTypes' /\ ChainForked'
<1> SUFFICES ASSUME ChainTypes, ChainForked, [Recursive!Next]_Recursive!vars
             PROVE  ChainTypes' /\ ChainForked'
  OBVIOUS
<1>1. ASSUME NEW c \in Commands, ChainStep(c) PROVE ChainTypes' /\ ChainForked'
  BY <1>1, ChainFrame, ChainForkedNext
<1>2. CASE StartStep
  <2>1. CASE /\ pc = "fork" /\ pc' = "exit" /\ fds' = [fds EXCEPT ![1] = fds[0]]
             /\ proc' = [proc EXCEPT ![1] = "pipe"]
    <3>1. /\ proc'[1] = "pipe" /\ \A d \in Commands : d # 1 => proc'[d] = "none"
          /\ \A d \in Commands : d \notin ran /\ ran' = ran /\ pipefds' = pipefds
      BY <1>2, <2>1, CountOK DEF ChainTypes, ChainForked, StartStep
    <3>2. ChainTypes'
      BY <1>2, <2>1, <3>1 DEF ChainTypes, StartStep
    <3>3. \A d \in Commands : d < Count => d+1 \in Commands /\ d+1 # 1
      BY CountOK DEF Commands
    <3>4. ChainForked'
      BY <2>1, <3>1, <3>3, CountOK DEF ChainForked
    <3> QED BY <3>2, <3>4
  <2>2. CASE pc' \in {"failed", "exited"} /\ UNCHANGED proc /\ fds' \in {fds, [fds EXCEPT ![0] = NoFds]}
    BY <1>2, <2>2 DEF StartStep, ChainTypes, ChainForked
  <2> QED BY <1>2, <2>1, <2>2 DEF StartStep
<1>3. CASE UNCHANGED Recursive!vars
  BY <1>3 DEF Recursive!vars, ChainTypes, ChainForked
<1> QED BY <1>1, <1>2, <1>3, ChainSteps

\* What a step of the process that the user started leaves of the tables.
LEMMA StartTables ==
  ASSUME ChainTypes, ChainForked, StartStep
  PROVE  /\ pipefds' = pipefds
         /\ \/ /\ pc = "fork" /\ pc' = "exit" /\ fds'[1] = fds[0] /\ proc'[1] = "pipe"
               /\ \A d \in Commands : d # 1 => proc'[d] = "none"
            \/ pc' # "fork" /\ proc' = proc /\ \A d \in Commands : fds'[d] = fds[d]
<1>1. DOMAIN fds = 0..Count /\ \A d \in Commands : d \in 0..Count /\ d # 0
  BY CountOK DEF ChainTypes, Commands
<1>2. CASE /\ pc = "fork" /\ pc' = "exit" /\ fds' = [fds EXCEPT ![1] = fds[0]]
           /\ proc' = [proc EXCEPT ![1] = "pipe"]
  BY <1>1, <1>2, CountOK DEF ChainTypes, ChainForked, StartStep
<1>3. CASE pc' \in {"failed", "exited"} /\ UNCHANGED proc /\ fds' \in {fds, [fds EXCEPT ![0] = NoFds]}
  BY <1>1, <1>3 DEF StartStep
<1> QED BY <1>2, <1>3 DEF StartStep

LEMMA ChainInvNext == ChainInv /\ [Recursive!Next]_Recursive!vars => ChainInv'
<1> SUFFICES ASSUME ChainTypes, ChainForked, ChainTables, [Recursive!Next]_Recursive!vars
             PROVE  ChainTables'
  BY ChainProcsNext DEF ChainInv
<1>1. ASSUME NEW c \in Commands, ChainStep(c) PROVE ChainTables'
  BY <1>1, ChainTablesNext
<1>2. CASE StartStep
  <2>1. CASE /\ pc = "fork" /\ pc' = "exit" /\ fds'[1] = fds[0] /\ proc'[1] = "pipe"
             /\ \A d \in Commands : d # 1 => proc'[d] = "none"
    <3>1. PICK t : t = fds[0]
      OBVIOUS
    <3>2. Own(t, 1) /\ fds'[1] = t
      BY <2>1, <3>1 DEF ChainTables
    <3>3. ChainTable(1)'
      BY <2>1, <3>2 DEF ChainTable, Own
    <3>4. \A d \in Commands : d # 1 => ChainTable(d)'
      BY <2>1 DEF ChainTable
    <3> QED BY <2>1, <3>3, <3>4 DEF ChainTables
  <2>2. CASE /\ pc' # "fork" /\ proc' = proc /\ pipefds' = pipefds
             /\ \A d \in Commands : fds'[d] = fds[d]
    <3>1. \A d \in Commands : ChainTable(d)'
      BY <2>2, ChainTableKept DEF ChainTables
    <3> QED BY <2>2, <3>1 DEF ChainTables
  <2> QED BY <1>2, <2>1, <2>2, StartTables
<1>3. CASE UNCHANGED Recursive!vars
  <2>1. UNCHANGED <<pc, pipefds, fds, proc, ran>>
    BY <1>3 DEF Recursive!vars
  <2>3. \A d \in Commands : ChainTable(d)'
    BY <2>1, ChainTableKept DEF ChainTables
  <2>4. (pc = "fork" => Own(fds[0], 1))'
    BY <2>1 DEF ChainTables, Own
  <2> QED BY <2>3, <2>4 DEF ChainTables
<1> QED BY <1>1, <1>2, <1>3, ChainSteps

LEMMA SameInit == Recursive!CommandsInit <=> CommandsInit
  BY SameTables, SameEnds DEF Recursive!CommandsInit, CommandsInit

\* Nobody can write to a pipe only when its writer has ended.
LEMMA ChainWriterEnded ==
  ASSUME ChainInv, NEW b \in Commands, b > 1, proc[b] # "none", Holders(WriteEnd(b-1)) = {}
  PROVE  Over(b-1)
<1>1. PICK a \in Commands : a = b-1 /\ a < Count /\ a \in 0..Count /\ a+1 = b
  BY CountOK DEF Commands
<1>2. proc[a] \in {"redirect", "exec", "run", "zombie"}
  BY <1>1 DEF ChainInv, ChainForked, ChainTypes
<1>3. ASSUME proc[a] = "redirect" PROVE FALSE
  <2>1. Refers(fds[a], Writes(a), WriteEnd(a))
    BY <1>3 DEF ChainInv, ChainTables, ChainTable, Piped
  <2> QED BY <1>1, <2>1 DEF Holders, Refers
<1>4. ASSUME proc[a] \in {"exec", "run"} PROVE FALSE
  <2>1. Refers(fds[a], 1, WriteEnd(a))
    BY <1>1, <1>4, CountOK DEF ChainInv, ChainTables, ChainTable, WiredTable, Refers
  <2> QED BY <1>1, <2>1 DEF Holders, Refers
<1> QED BY <1>1, <1>2, <1>3, <1>4 DEF Over

LEMMA ChainDeliveryNext ==
  ChainInv /\ FlowInv /\ CleanInv /\ [Recursive!Next]_Recursive!vars => FlowInv' /\ CleanInv'
<1> SUFFICES ASSUME ChainInv, FlowInv, CleanInv, [Recursive!Next]_Recursive!vars
             PROVE  FlowInv' /\ CleanInv'
  OBVIOUS
<1>1. /\ DOMAIN proc = Commands
      /\ \A c \in Commands : proc[c] \notin {"run", "zombie"} => c \notin ran
      /\ pc = "fork" => \A c \in Commands : proc[c] = "none"
  BY DEF ChainInv, ChainTypes, ChainForked
<1>2. ASSUME UNCHANGED commands,
             \A c \in Commands : (Over(c) => Over(c)') /\ (Clean(c)' => Clean(c))
      PROVE  FlowInv' /\ CleanInv'
  BY <1>2, FlowKept, CleanKept DEF commands
<1>3. CASE UNCHANGED commands /\ StartStep
  <2>1. /\ UNCHANGED <<ran, died>>
        /\ \A c \in Commands : proc'[c] = proc[c] \/ (proc[c] = "none" /\ proc'[c] = "pipe")
    BY <1>1, <1>3 DEF StartStep, commands
  <2>2. \A c \in Commands : (Over(c) => Over(c)') /\ (Clean(c)' => Clean(c))
    BY <2>1 DEF Over, Clean
  <2> QED BY <1>2, <1>3, <2>2
<1>4. ASSUME NEW c \in Commands, ChainStep(c), UNCHANGED commands, proc[c] # "run"
      PROVE  FlowInv' /\ CleanInv'
  <2>1. /\ \A d \in Commands \ {c} : (proc[c] = "fork" /\ d = c+1) \/ proc'[d] = proc[d]
        /\ died' = died
    BY <1>4, ChainFrame DEF ChainInv, commands
  <2>2. \A d \in Commands : proc[c] = "fork" /\ d = c+1 => proc[d] = "none"
    <3>1. proc[c] = "fork" => c < Count
      BY CountOK DEF ChainInv, ChainForked, Commands
    <3> QED BY <3>1 DEF ChainInv, ChainForked
  <2>3. proc[c] # "zombie" \/ UNCHANGED <<proc, ran>>
    BY <1>4 DEF ChainStep
  <2>4. \A d \in Commands : d # c => (d \in ran <=> d \in ran')
    BY <1>4 DEF ChainStep
  <2>5. ASSUME NEW d \in Commands, d # c
        PROVE  (Over(d) => Over(d)') /\ (Clean(d)' => Clean(d))
    <3>1. CASE proc'[d] = proc[d]
      BY <2>1, <2>4, <2>5, <3>1 DEF Over, Clean
    <3>2. CASE proc[c] = "fork" /\ d = c+1
      <4>1. proc[d] = "none" /\ d \notin ran'
        BY <1>1, <2>2, <2>4, <2>5, <3>2
      <4> QED BY <4>1 DEF Over, Clean
    <3> QED BY <2>1, <2>5, <3>1, <3>2
  <2>6. (Over(c) => Over(c)') /\ (Clean(c)' => Clean(c))
    <3>1. CASE UNCHANGED <<proc, ran>>
      BY <2>1, <3>1 DEF Over, Clean
    <3>2. CASE proc[c] = "exec" /\ proc' = [proc EXCEPT ![c] = "run"]
      BY <1>1, <3>2 DEF Over, Clean
    <3>3. CASE proc[c] # "zombie" /\ ran' = ran
      <4>1. c \notin ran'
        BY <1>1, <1>4, <3>3
      <4>2. ~Over(c)
        BY <2>3, <3>3, <1>4 DEF Over, ChainInv, ChainTypes
      <4> QED BY <4>1, <4>2 DEF Clean
    <3> QED BY <1>4, <2>3, <3>1, <3>2, <3>3 DEF ChainStep
  <2> QED BY <1>2, <1>4, <2>5, <2>6
<1>5. ASSUME NEW c \in Commands, Command(c) \/ Quit(c) PROVE FlowInv' /\ CleanInv'
  <2>1. RunsWired
    BY DEF ChainInv, ChainTables, ChainTable, RunsWired
  <2>2. \A b \in Commands : b > 1 /\ proc[b] # "none" /\ Holders(WriteEnd(b-1)) = {} => Over(b-1)
    BY ChainWriterEnded
  <2> QED BY <1>1, <1>5, <2>1, <2>2, CommandKeeps
<1>6. CASE UNCHANGED Recursive!vars
  <2>1. UNCHANGED <<proc, ran, commands>>
    BY <1>6 DEF Recursive!vars, Recursive!commands, commands
  <2>2. \A c \in Commands : (Over(c) => Over(c)') /\ (Clean(c)' => Clean(c))
    BY <2>1 DEF Over, Clean, commands
  <2> QED BY <1>2, <2>1, <2>2
<1> QED BY <1>3, <1>4, <1>5, <1>6, ChainSteps

\* dup2() makes nothing that was not there.
LEMMA DupTyped ==
  ASSUME NEW t, Typed(t), NEW old, NEW new \in 0..5
  PROVE  Typed(Dup2(t, old, new))
<1>1. CASE old \notin DOMAIN t
  BY <1>1 DEF Dup2
<1>2. CASE old \in DOMAIN t
  <2>1. /\ DOMAIN Dup2(t, old, new) = DOMAIN t \cup {new}
        /\ \A d \in DOMAIN t \cup {new} : Dup2(t, old, new)[d] \in {t[old], t[d]}
        /\ \A d \in DOMAIN t \cup {new} : d \notin DOMAIN t => Dup2(t, old, new)[d] = t[old]
    BY <1>2 DEF Dup2
  <2> QED BY <1>2, <2>1 DEF Typed
<1> QED BY <1>1, <1>2

LEMMA SidesTyped ==
  ASSUME NEW t, Typed(t), NEW fd
  PROVE  Typed(Recursive!ChildFds(t, fd)) /\ Typed(Recursive!ParentFds(t, fd))
<1>1. /\ Recursive!ChildFds(t, fd) = Close(Dup2(Close(t, fd[2]), fd[1], 0), fd[1])
      /\ Recursive!ParentFds(t, fd) = Close(Dup2(Close(t, fd[1]), fd[2], 1), fd[2])
  BY SameTables DEF Recursive!ChildFds, Recursive!ParentFds
<1>2. PICK u, v : u = Close(t, fd[2]) /\ v = Close(t, fd[1])
  OBVIOUS
<1>3. Typed(u) /\ Typed(v)
  BY <1>2, ClosedTyped
<1>4. PICK x, y : x = Dup2(u, fd[1], 0) /\ y = Dup2(v, fd[2], 1)
  OBVIOUS
<1>5. Typed(x) /\ Typed(y)
  BY <1>3, <1>4, DupTyped
<1>6. Typed(Close(x, fd[1])) /\ Typed(Close(y, fd[2]))
  BY <1>5, ClosedTyped
<1> QED BY <1>1, <1>2, <1>4, <1>6

LEMMA ChainTypesKept ==
  ASSUME ChainTypes, ChainForked, TableTypes, [Recursive!Next]_Recursive!vars,
         \A c \in Commands : proc'[c] = "fork" => DOMAIN fds'[c] \subseteq 0..5
  PROVE  TableTypes'
<1>1. /\ DOMAIN fds = 0..Count /\ \A p \in 0..Count : Typed(fds[p])
      /\ 0 \in 0..Count /\ Commands \subseteq 0..Count /\ DOMAIN proc = Commands
  BY CountOK DEF ChainTypes, TableTypes, Commands
<1>2. ASSUME NEW q \in 0..Count, NEW t, Typed(t),
             fds' = [fds EXCEPT ![q] = t], pipefds' = pipefds
      PROVE  TableTypes'
  BY <1>1, <1>2, TableReplaced
<1>3. ASSUME UNCHANGED <<fds, pipefds>> PROVE TableTypes'
  BY <1>3 DEF TableTypes, Typed, Ends
<1>4. CASE StartStep
  <2>1. CASE fds' = [fds EXCEPT ![1] = fds[0]] /\ pipefds' = pipefds
    <3>1. PICK t : t = fds[0]
      OBVIOUS
    <3>2. 1 \in 0..Count
      BY <1>1, CountOK
    <3> QED BY <1>1, <1>2, <2>1, <3>1, <3>2
  <2>2. CASE fds' = [fds EXCEPT ![0] = NoFds] /\ pipefds' = pipefds
    BY <1>1, <1>2, <2>2, NoFdsTyped
  <2> QED BY <1>3, <1>4, <2>1, <2>2 DEF StartStep
<1>5. ASSUME NEW c \in Commands, ChainStep(c) PROVE TableTypes'
  <2>1. PICK t : t = fds[c]
    OBVIOUS
  <2>2. Typed(t)
    BY <1>1, <2>1
  <2>3. proc[c] \in {"pipe", "fork"} => c \in Pipes /\ c+1 \in 0..Count
    BY CountOK DEF ChainForked, Commands, Pipes
  <2>4. CASE /\ proc[c] = "pipe" /\ proc' = [proc EXCEPT ![c] = "fork"]
             /\ pipefds' = [pipefds EXCEPT ![c] = <<LowestFree(t), LowestFree(Opened(t, ReadEnd(c)))>>]
             /\ fds' = [fds EXCEPT ![c] = Opened(Opened(t, ReadEnd(c)), WriteEnd(c))]
    <3>1. PICK u, v : u = Opened(t, ReadEnd(c)) /\ v = Opened(u, WriteEnd(c))
      OBVIOUS
    <3>2. fds' = [fds EXCEPT ![c] = v] /\ pipefds' = [pipefds EXCEPT ![c] = <<LowestFree(t), LowestFree(u)>>]
      BY <2>4, <3>1
    <3>3. DOMAIN v \subseteq 0..5
      <4>1. fds'[c] = v /\ proc'[c] = "fork"
        BY <1>1, <2>4, <3>2
      <4> QED BY <4>1
    <3>4. PICK q \in 0..Count, k \in Pipes : q = c /\ k = c
      BY <1>1, <2>3, <2>4
    <3>5. /\ t = fds[q] /\ u = Opened(t, ReadEnd(k)) /\ v = Opened(u, WriteEnd(k))
          /\ fds' = [fds EXCEPT ![q] = v]
          /\ pipefds' = [pipefds EXCEPT ![k] = <<LowestFree(t), LowestFree(u)>>]
      BY <2>1, <3>1, <3>2, <3>4
    <3>6. DOMAIN fds = 0..Count
      BY <1>1
    <3> QED BY <3>3, <3>5, <3>6, TablePiped
  <2>5. CASE proc[c] = "fork" /\ fds' = [fds EXCEPT ![c+1] = t] /\ UNCHANGED pipefds
    <3>1. PICK e \in 0..Count : e = c+1
      BY <2>3, <2>5
    <3> QED BY <1>1, <1>2, <2>1, <2>5, <3>1
  <2>6. ASSUME NEW u, fds' = [fds EXCEPT ![c] = u], UNCHANGED pipefds, Typed(u)
        PROVE  TableTypes'
    BY <1>1, <1>2, <2>6
  <2>7. CASE /\ proc[c] = "wire" /\ UNCHANGED pipefds
             /\ proc' = [proc EXCEPT ![c] = IF c = Count THEN "exec" ELSE "pipe"]
             /\ fds' = [fds EXCEPT ![c] = Recursive!ChildFds(t, pipefds[c-1])]
    BY <2>2, <2>6, <2>7, SidesTyped
  <2>8. CASE /\ proc[c] = "redirect" /\ UNCHANGED pipefds
             /\ proc' = [proc EXCEPT ![c] = "exec"]
             /\ fds' = [fds EXCEPT ![c] = Recursive!ParentFds(t, pipefds[c])]
    BY <2>2, <2>6, <2>8, SidesTyped
  <2>9. CASE Exit(c) /\ UNCHANGED pipefds
    BY <1>1, <1>2, <2>9, NoFdsTyped DEF Exit
  <2> QED BY <1>3, <1>5, <2>1, <2>4, <2>5, <2>7, <2>8, <2>9 DEF ChainStep
<1>6. CASE UNCHANGED Recursive!vars
  BY <1>3, <1>6 DEF Recursive!vars
<1> QED BY <1>4, <1>5, <1>6, ChainSteps

\* The recursive program is started with standard input.
InputOpen == \A t \in Started : 0 \in DOMAIN t

LEMMA ChainStarts ==
  StandardStart /\ Recursive!Init /\ 0 \in DOMAIN fds[0]
    => ChainInv /\ FlowInv /\ CleanInv /\ TableTypes /\ DataTypes
  BY ChainInvInit, SameInit, FlowInvInit, TypesInit DEF Recursive!Init

LEMMA InputStarts == InputOpen /\ Recursive!Init => 0 \in DOMAIN fds[0]
<1> SUFFICES ASSUME InputOpen, Recursive!Init PROVE 0 \in DOMAIN fds[0]
  OBVIOUS
<1>1. PICK t \in Started : fds = [p \in 0..Count |-> IF p = 0 THEN t ELSE NoFds]
  BY SameInit DEF Recursive!Init, CommandsInit
<1>2. fds[0] = t
  BY <1>1, CountOK
<1> QED BY <1>1, <1>2 DEF InputOpen

LEMMA ChainWired == ChainInv => WiredUp
  BY CountOK DEF ChainInv, ChainTables, ChainTable, WiredTable, WiredUp

LEMMA ChainPassed == ChainInv /\ FlowInv /\ CleanInv => Delivered
  BY Passed DEF ChainInv, ChainForked

\* Started with standard input, and with or without the other two, the recursive
\* program too runs each command with its own ends only (pipeline.c:55-104, 122-135).
THEOREM ChainWiredUp == StandardStart /\ InputOpen /\ Recursive!Spec => []WiredUp
  BY ChainStarts, InputStarts, ChainInvNext, ChainWired, PTL DEF Recursive!Spec

\* What comes out of it is what went in, in order, and all of it when every
\* command ran to the end of its input (pipeline.c:55-115).
THEOREM ChainDelivered == StandardStart /\ InputOpen /\ Recursive!Spec => []Delivered
  BY ChainStarts, InputStarts, ChainInvNext, ChainDeliveryNext, ChainPassed, PTL
  DEF Recursive!Spec

-----------------------------------------------------------------------------
(* The recursive program without standard input: every pipe it opens starts *)
(* at descriptor 0, and no command is left with a standard input            *)
(* (pipeline.c:89-90).                                                      *)

Bare(t) == DOMAIN t \subseteq 1..2

\* The table of a process that has opened pipe k.
Half(t, k) == /\ Reads(k) = 0 /\ Writes(k) \in 1..5
              /\ DOMAIN t \subseteq {0, 1, 2, Writes(k)}

MuteTable(c) ==
  /\ proc[c] \in {"pipe", "exec", "run"} => Bare(fds[c])
  /\ proc[c] \in {"fork", "redirect"} => Half(fds[c], c)
  /\ proc[c] = "wire" => Half(fds[c], c-1)

MuteTables == /\ pc = "fork" => Bare(fds[0])
              /\ \A c \in Commands : MuteTable(c)

\* So none of them ever reads, or comes to an end of its input.
MuteData == /\ \A c \in Commands : hold[c] = 0
            /\ output = <<>>
            /\ \A c \in ran : proc[c] = "run" \/ c \in died

MuteInv == ChainTypes /\ ChainForked /\ MuteTables /\ MuteData

LEMMA MuteInit ==
  ASSUME StandardStart, Recursive!Init, 0 \notin DOMAIN fds[0]
  PROVE  MuteInv
<1>1. Bare(fds[0])
  BY ChainProcsInit DEF StandardOnly, Bare
<1> QED BY <1>1, ChainProcsInit DEF MuteInv, MuteTables, MuteTable, MuteData

LEMMA OpensBare ==
  ASSUME NEW c \in Pipes, NEW t, Bare(t), DOMAIN pipefds = Pipes,
         pipefds' = [pipefds EXCEPT ![c] =
                       <<LowestFree(t), LowestFree(Opened(t, ReadEnd(c)))>>]
  PROVE  Half(Opened(Opened(t, ReadEnd(c)), WriteEnd(c)), c)'
<1> DEFINE a == LowestFree(t)
           u == Opened(t, ReadEnd(c))
           b == LowestFree(u)
           x == Opened(u, WriteEnd(c))
<1>1. TableOK(t)
  <2>1. DOMAIN t \subseteq 0..5
    BY DEF Bare
  <2> QED BY <2>1, SmallTable
<1>2. TableOK(u) /\ DOMAIN u = DOMAIN t \cup {a}
  BY <1>1, OpenedTable
<1>3. a \in Nat /\ \A m \in Nat : m < a => m \in DOMAIN t
  BY <1>1, FreeFd
<1> HIDE DEF a, u
<1>4. DOMAIN x = DOMAIN u \cup {b}
  BY <1>2, OpenedTable
<1>5. b \in Nat \ DOMAIN u /\ \A m \in Nat : m < b => m \in DOMAIN u
  BY <1>2, FreeFd
<1>6. pipefds'[c] = <<a, b>>
  BY DEF a, u
<1> HIDE DEF b, x
<1>7. a = 0
  BY <1>3 DEF Bare
<1>8. b \in 1..5
  <2>1. SUFFICES ASSUME b > 5 PROVE FALSE
    BY <1>2, <1>5, <1>7
  <2>2. 3 \in DOMAIN u
    BY <1>5, <2>1
  <2> QED BY <1>2, <1>7, <2>2 DEF Bare
<1>9. DOMAIN x \subseteq {0, 1, 2, b}
  BY <1>2, <1>4, <1>7 DEF Bare
<1>10. Half(x, c)'
  BY <1>6, <1>7, <1>8, <1>9 DEF Half, Reads, Writes
<1> QED BY <1>10 DEF x, u

\* dup2(0, 0); close(0), after or before the write end.
LEMMA SidesBare ==
  ASSUME NEW k \in Pipes, NEW t, Half(t, k)
  PROVE  Bare(Recursive!ChildFds(t, pipefds[k])) /\ Bare(Recursive!ParentFds(t, pipefds[k]))
<1> DEFINE w == Writes(k)
<1>1. /\ Recursive!ChildFds(t, pipefds[k]) = Close(Dup2(Close(t, w), 0, 0), 0)
      /\ Recursive!ParentFds(t, pipefds[k]) = Close(Dup2(Close(t, 0), w, 1), w)
  BY SameTables DEF Recursive!ChildFds, Recursive!ParentFds, Half, Reads, Writes
<1>2. w \in 1..5 /\ DOMAIN t \subseteq {0, 1, 2, w}
  BY DEF Half
<1> HIDE DEF w
<1>3. \A u, d : DOMAIN Close(u, d) = DOMAIN u \ {d}
  BY DEF Close
<1>4. \A u, d, e : DOMAIN Dup2(u, d, e) \subseteq DOMAIN u \cup {e}
  BY DEF Dup2
<1>5. PICK u, v, x, y : u = Close(t, w) /\ v = Dup2(u, 0, 0) /\ x = Close(t, 0) /\ y = Dup2(x, w, 1)
  OBVIOUS
<1>6. /\ DOMAIN u = DOMAIN t \ {w} /\ DOMAIN v \subseteq DOMAIN u \cup {0}
      /\ DOMAIN x = DOMAIN t \ {0} /\ DOMAIN y \subseteq DOMAIN x \cup {1}
  BY <1>3, <1>4, <1>5
<1>7. DOMAIN Close(v, 0) \subseteq 1..2 /\ DOMAIN Close(y, w) \subseteq 1..2
  <2>1. DOMAIN v \ {0} \subseteq 1..2 /\ DOMAIN y \ {w} \subseteq 1..2
    BY <1>2, <1>6
  <2> QED BY <1>3, <2>1
<1> QED BY <1>1, <1>5, <1>7 DEF Bare

LEMMA MuteTableKept ==
  ASSUME NEW c \in Commands, MuteTable(c), fds'[c] = fds[c],
         \/ proc'[c] = proc[c] \/ proc'[c] \in {"none", "zombie"}
         \/ proc[c] = "exec" /\ proc'[c] = "run",
         proc[c] \in {"fork", "redirect"} => pipefds'[c] = pipefds[c],
         proc[c] = "wire" => pipefds'[c-1] = pipefds[c-1]
  PROVE  MuteTable(c)'
  BY DEF MuteTable, Bare, Half, Reads, Writes

LEMMA MuteTablesNext ==
  ASSUME ChainTypes, ChainForked, MuteTables, NEW c \in Commands, ChainStep(c)
  PROVE  MuteTables'
<1>1. /\ DOMAIN proc = Commands /\ DOMAIN fds = 0..Count /\ DOMAIN pipefds = Pipes
      /\ \A d \in Commands \ {c} : (proc[c] = "fork" /\ d = c+1) \/ proc'[d] = proc[d]
      /\ \A p \in 0..Count \ {c} : (proc[c] = "fork" /\ p = c+1) \/ fds'[p] = fds[p]
      /\ \A k \in Pipes \ {c} : pipefds'[k] = pipefds[k]
      /\ proc[c] # "pipe" => pipefds' = pipefds
  BY ChainFrame DEF ChainTypes
<1>2. /\ \A d \in Commands : /\ d < Count /\ proc[d] \in {"none", "wire", "pipe", "fork"} => proc[d+1] = "none"
                             /\ d = Count => proc[d] \notin {"pipe", "fork", "redirect"}
                             /\ d = 1 => proc[d] # "wire"
  BY DEF ChainForked
<1>3. Commands \subseteq 0..Count /\ 0 \notin Commands
  BY CountOK DEF Commands
<1>4. (pc = "fork" => Bare(fds[0]))'
  <2>1. pc' = pc /\ (pc = "fork" => proc[c] = "none")
    BY DEF ChainStep, ChainForked
  <2>2. pc' = "fork" => fds' = fds
    BY <2>1 DEF ChainStep
  <2> QED BY <2>1, <2>2 DEF MuteTables, Bare
\* The other commands' tables.
<1>5. ASSUME NEW d \in Commands, d # c, ~(proc[c] = "fork" /\ d = c+1) PROVE MuteTable(d)'
  <2>1. MuteTable(d) /\ fds'[d] = fds[d] /\ proc'[d] = proc[d]
    BY <1>1, <1>3, <1>5 DEF MuteTables
  <2>2. ASSUME proc[d] \in {"fork", "redirect"} PROVE pipefds'[d] = pipefds[d]
    <3>1. d \in Pipes
      BY <1>2, <2>2, CountOK DEF Commands, Pipes
    <3> QED BY <1>1, <1>5, <3>1
  <2>3. ASSUME proc[d] = "wire" PROVE pipefds'[d-1] = pipefds[d-1]
    <3>1. d-1 \in Pipes /\ d-1 \in Commands /\ (d-1)+1 = d /\ d-1 < Count
      BY <1>2, <2>3, CountOK DEF Commands, Pipes
    <3>2. proc[d-1] # "pipe"
      BY <1>2, <2>3, <3>1
    <3> QED BY <1>1, <3>1, <3>2
  <2> QED BY <2>1, <2>2, <2>3, MuteTableKept
\* Its own, and that of the child it forks.
<1>6. PICK t : t = fds[c]
  OBVIOUS
<1>7. CASE UNCHANGED <<pipefds, fds, proc>>
  <2>1. \A d \in Commands : MuteTable(d)'
    BY <1>7, MuteTableKept DEF MuteTables
  <2> QED BY <1>4, <2>1 DEF MuteTables
<1>8. CASE /\ proc[c] = "pipe" /\ proc' = [proc EXCEPT ![c] = "fork"]
           /\ pipefds' = [pipefds EXCEPT ![c] = <<LowestFree(t), LowestFree(Opened(t, ReadEnd(c)))>>]
           /\ fds' = [fds EXCEPT ![c] = Opened(Opened(t, ReadEnd(c)), WriteEnd(c))]
  <2>1. c \in Pipes /\ Bare(t)
    BY <1>2, <1>6, <1>8, CountOK DEF MuteTables, MuteTable, Commands, Pipes
  <2>2. PICK x : x = Opened(Opened(t, ReadEnd(c)), WriteEnd(c))
    OBVIOUS
  <2>3. Half(Opened(Opened(t, ReadEnd(c)), WriteEnd(c)), c)'
    BY <1>1, <1>8, <2>1, OpensBare
  <2>4. fds'[c] = x /\ proc'[c] = "fork"
    BY <1>1, <1>3, <1>8, <2>2
  <2>5. MuteTable(c)'
    BY <2>2, <2>3, <2>4 DEF MuteTable, Half
  <2> QED BY <1>4, <1>5, <1>8, <2>5 DEF MuteTables
<1>9. CASE /\ proc[c] = "fork" /\ proc' = [proc EXCEPT ![c] = "redirect", ![c+1] = "wire"]
           /\ fds' = [fds EXCEPT ![c+1] = fds[c]] /\ UNCHANGED pipefds
  <2>1. c < Count /\ c+1 \in Commands /\ c+1 # c /\ (c+1)-1 = c /\ c+1 \in 0..Count
    BY <1>2, <1>9, CountOK DEF Commands
  <2>2. Half(t, c)
    BY <1>6, <1>9 DEF MuteTables, MuteTable
  <2>3. Half(t, c)'
    BY <1>9, <2>2 DEF Half, Reads, Writes
  <2>4. fds'[c] = t /\ proc'[c] = "redirect"
    BY <1>1, <1>3, <1>6, <1>9, <2>1
  <2>5. MuteTable(c)'
    BY <2>3, <2>4 DEF MuteTable, Half
  <2>6. PICK e \in Commands : e = c+1
    BY <2>1
  <2>7. fds'[e] = t /\ proc'[e] = "wire" /\ e-1 = c
    BY <1>1, <1>3, <1>6, <1>9, <2>1, <2>6
  <2>8. Half(fds[e], e-1)'
    BY <2>3, <2>7 DEF Half
  <2>9. MuteTable(e)'
    BY <2>7, <2>8 DEF MuteTable
  <2> QED BY <1>4, <1>5, <2>5, <2>6, <2>9 DEF MuteTables
<1>10. ASSUME NEW x, Bare(x), fds' = [fds EXCEPT ![c] = x], UNCHANGED pipefds, proc[c] # "fork",
              proc'[c] \in {"pipe", "exec"}
       PROVE  MuteTables'
  <2>1. fds'[c] = x
    BY <1>1, <1>3, <1>10
  <2>2. MuteTable(c)'
    BY <1>10, <2>1 DEF MuteTable, Bare
  <2> QED BY <1>4, <1>5, <1>10, <2>2 DEF MuteTables
<1>11. CASE /\ proc[c] = "wire" /\ UNCHANGED pipefds
            /\ proc' = [proc EXCEPT ![c] = IF c = Count THEN "exec" ELSE "pipe"]
            /\ fds' = [fds EXCEPT ![c] = Recursive!ChildFds(t, pipefds[c-1])]
  <2>1. PICK b \in Pipes : b = c-1
    BY <1>2, <1>11, CountOK DEF Commands, Pipes
  <2>2. Half(t, b)
    BY <1>6, <1>11, <2>1 DEF MuteTables, MuteTable
  <2>3. Bare(Recursive!ChildFds(t, pipefds[b]))
    BY <2>2, SidesBare
  <2> QED BY <1>1, <1>10, <1>11, <2>1, <2>3
<1>12. CASE /\ proc[c] = "redirect" /\ UNCHANGED pipefds
            /\ proc' = [proc EXCEPT ![c] = "exec"]
            /\ fds' = [fds EXCEPT ![c] = Recursive!ParentFds(t, pipefds[c])]
  <2>1. c \in Pipes
    BY <1>2, <1>12, CountOK DEF Commands, Pipes
  <2>2. Half(t, c)
    BY <1>6, <1>12 DEF MuteTables, MuteTable
  <2>3. Bare(Recursive!ParentFds(t, pipefds[c]))
    BY <2>1, <2>2, SidesBare
  <2> QED BY <1>1, <1>10, <1>12, <2>3
<1>13. CASE proc[c] = "exec" /\ proc' = [proc EXCEPT ![c] = "run"] /\ UNCHANGED <<pipefds, fds>>
  <2>1. MuteTable(c)'
    BY <1>1, <1>13, MuteTableKept DEF MuteTables
  <2> QED BY <1>4, <1>5, <1>13, <2>1 DEF MuteTables
<1>14. CASE Exit(c) /\ UNCHANGED pipefds
  <2>1. proc'[c] = "zombie" /\ \A d \in Commands \ {c} : proc'[d] = proc[d] /\ fds'[d] = fds[d]
    BY <1>1, <1>3, <1>14 DEF Exit
  <2>2. MuteTable(c)'
    BY <2>1 DEF MuteTable
  <2>3. ASSUME NEW d \in Commands, d # c PROVE MuteTable(d)'
    BY <1>14, <2>1, <2>3, MuteTableKept DEF MuteTables
  <2> QED BY <1>4, <2>2, <2>3 DEF MuteTables
<1> QED BY <1>6, <1>7, <1>8, <1>9, <1>11, <1>12, <1>13, <1>14 DEF ChainStep

\* A command without standard input only ever ends by the error it makes.
LEMMA MuteCommand ==
  ASSUME MuteTables, MuteData, DOMAIN proc = Commands, ran \subseteq Commands,
         NEW c \in Commands, Command(c) \/ Quit(c)
  PROVE  MuteData'
<1>1. proc[c] = "run" /\ 0 \notin DOMAIN fds[c] /\ hold[c] = 0
  BY CommandSteps DEF MuteTables, MuteTable, MuteData, Bare
<1>2. ~ReadStdin(c) /\ ~WriteStdout(c)
  BY <1>1 DEF ReadStdin, WriteStdout, Refers
<1>3. \A k \in Pipes : ~ReadPipe(c, k) /\ ~WritePipe(c, k)
  BY <1>1 DEF ReadPipe, WritePipe, Refers
<1>4. ~Finish(c)
  BY <1>1 DEF Finish, EndOfFile, Refers
<1>5. EndsEarly(c)
  BY <1>2, <1>3, <1>4 DEF Command, Die, Quit
<1>6. /\ proc' = [proc EXCEPT ![c] = "zombie"] /\ died' = died \cup {c}
      /\ UNCHANGED <<ran, hold, output>>
  BY <1>5 DEF EndsEarly, Exit
<1> QED BY <1>6 DEF MuteData

LEMMA MuteDataNext ==
  ASSUME ChainTypes, ChainForked, MuteTables, MuteData, [Recursive!Next]_Recursive!vars
  PROVE  MuteData'
<1>1. DOMAIN proc = Commands /\ ran \subseteq Commands
  BY DEF ChainTypes
<1>2. CASE UNCHANGED commands /\ StartStep
  <2>1. \A c \in Commands : proc[c] = "run" => proc'[c] = "run"
    BY <1>1, <1>2, StartTables DEF ChainForked
  <2> QED BY <1>1, <1>2, <2>1 DEF StartStep, commands, MuteData
<1>3. ASSUME NEW c \in Commands, ChainStep(c), UNCHANGED commands, proc[c] # "run"
      PROVE  MuteData'
  <2>1. /\ \A d \in Commands \ {c} : (proc[c] = "fork" /\ d = c+1) \/ proc'[d] = proc[d]
        /\ UNCHANGED <<died, hold, output>>
    BY <1>3, ChainFrame DEF commands
  <2>2. proc[c] = "fork" /\ c+1 \in Commands => proc[c+1] = "none"
    <3>1. proc[c] = "fork" => c < Count
      BY CountOK DEF ChainForked, Commands
    <3> QED BY <3>1 DEF ChainForked
  <2>3. \A d \in Commands : d # c /\ proc[d] = "run" => proc'[d] = "run"
    BY <2>1, <2>2
  <2>4. /\ c \in ran => c \in died
        /\ c \notin ran' \/ ran' = ran \/ proc'[c] = "run"
        /\ ran' \subseteq ran \cup {c}
    BY <1>1, <1>3 DEF ChainStep, MuteData
  <2> QED BY <1>1, <2>1, <2>3, <2>4 DEF MuteData
<1>4. ASSUME NEW c \in Commands, Command(c) \/ Quit(c) PROVE MuteData'
  BY <1>1, <1>4, MuteCommand
<1>5. CASE UNCHANGED Recursive!vars
  BY <1>5 DEF Recursive!vars, Recursive!commands, MuteData
<1> QED BY <1>2, <1>3, <1>4, <1>5, ChainSteps

LEMMA MuteInvNext == MuteInv /\ [Recursive!Next]_Recursive!vars => MuteInv'
<1> SUFFICES ASSUME ChainTypes, ChainForked, MuteTables, MuteData,
                    [Recursive!Next]_Recursive!vars
             PROVE  MuteTables'
  BY ChainProcsNext, MuteDataNext DEF MuteInv
<1>1. CASE StartStep
  <2>1. CASE /\ pc = "fork" /\ pc' = "exit" /\ fds'[1] = fds[0] /\ proc'[1] = "pipe"
             /\ \A d \in Commands : d # 1 => proc'[d] = "none"
    <3>1. Bare(fds[1])'
      BY <2>1 DEF MuteTables, Bare
    <3>2. \A d \in Commands : MuteTable(d)'
      BY <2>1, <3>1 DEF MuteTable
    <3> QED BY <2>1, <3>2 DEF MuteTables
  <2>2. CASE /\ pc' # "fork" /\ proc' = proc /\ pipefds' = pipefds
             /\ \A d \in Commands : fds'[d] = fds[d]
    <3>1. \A d \in Commands : MuteTable(d)'
      BY <2>2, MuteTableKept DEF MuteTables
    <3> QED BY <2>2, <3>1 DEF MuteTables
  <2> QED BY <1>1, <2>1, <2>2, StartTables
<1>2. CASE UNCHANGED Recursive!vars
  <2>1. UNCHANGED <<pc, pipefds, fds, proc>>
    BY <1>2 DEF Recursive!vars
  <2>2. \A d \in Commands : MuteTable(d)'
    BY <2>1, MuteTableKept DEF MuteTables
  <2> QED BY <2>1, <2>2 DEF MuteTables, Bare
<1> QED BY <1>1, <1>2, MuteTablesNext, ChainSteps

\* Nothing comes out; and every command that ran died before its input ended.
LEMMA MuteDelivers == MuteInv => Delivered
<1> SUFFICES ASSUME MuteInv PROVE Delivered
  OBVIOUS
<1>1. InOrder
  BY DEF MuteInv, MuteData, InOrder
<1>2. ASSUME Ended, ran = Commands, died = {} PROVE FALSE
  BY <1>2, CountOK DEF Ended, MuteInv, MuteData
<1> QED BY <1>1, <1>2 DEF Delivered, AllDelivered

-----------------------------------------------------------------------------
(* Whichever of the two is started. *)

OneInv ==
  /\ TableTypes /\ DataTypes
  /\ \/ program = "pipeline2" /\ ProcInv /\ TableInv /\ FlowInv /\ CleanInv
     \/ /\ program = "pipeline" /\ i \in Commands /\ pidlist = [c \in Commands |-> 0]
        /\ \/ ChainInv /\ FlowInv /\ CleanInv
           \/ MuteInv /\ 0 \notin DOMAIN started

LEMMA OneInvInit == StandardStart /\ OneInit => OneInv
<1> SUFFICES ASSUME StandardStart, OneInit PROVE OneInv
  OBVIOUS
<1>1. CASE program = "pipeline2" /\ Init
  BY <1>1, ProcInvInit, TableInvInit, FlowInvInit, TypesInit DEF Init, OneInv
<1>2. CASE /\ program = "pipeline" /\ Recursive!Init /\ started = fds[0]
           /\ i = 1 /\ pidlist = [c \in Commands |-> 0]
  <2>1. CASE 0 \in DOMAIN fds[0]
    BY <1>2, <2>1, ChainStarts, CountOK DEF OneInv
  <2>2. CASE 0 \notin DOMAIN fds[0]
    BY <1>2, <2>2, MuteInit, SameInit, TypesInit, CountOK DEF OneInv, Recursive!Init
  <2> QED BY <2>1, <2>2
<1> QED BY <1>1, <1>2 DEF OneInit

LEMMA OneInvNext == OneInv /\ [OneNext]_<<vars, program, started>> => OneInv'
<1> SUFFICES ASSUME OneInv, [OneNext]_<<vars, program, started>> PROVE OneInv'
  OBVIOUS
<1>1. CASE program = "pipeline2"
  <2>1. ProcInv /\ TableInv /\ FlowInv /\ CleanInv /\ TableTypes /\ DataTypes
    BY <1>1 DEF OneInv
  <2>2. [Next]_vars /\ program' = program
    BY <1>1 DEF OneNext, Of2, Of1
  <2> QED BY <1>1, <2>1, <2>2, ProcInvNext, TableInvNext, DeliveryInvNext, TableTypesNext,
             DataTypesNext DEF OneInv
<1>2. CASE program = "pipeline"
  <2>1. /\ (ChainInv /\ FlowInv /\ CleanInv) \/ (MuteInv /\ 0 \notin DOMAIN started)
        /\ TableTypes /\ DataTypes /\ i \in Commands /\ pidlist = [c \in Commands |-> 0]
    BY <1>2 DEF OneInv
  <2>2. UNCHANGED <<program, started, i, pidlist>>
    BY <1>2 DEF OneNext, Of2, Of1, vars, parent
  <2>3. Recursive!Next \/ UNCHANGED vars
    BY <1>2 DEF OneNext, Of2, Of1
  <2>4. UNCHANGED vars => UNCHANGED Recursive!vars /\ UNCHANGED commands
    BY DEF vars, parent, commands, Recursive!vars, Recursive!commands
  <2>5. ChainInv /\ FlowInv /\ CleanInv => ChainInv' /\ FlowInv' /\ CleanInv'
    BY <2>3, <2>4, ChainInvNext, ChainDeliveryNext
  <2>6. MuteInv => MuteInv'
    BY <2>3, <2>4, MuteInvNext
  <2>7. ChainTypes /\ ChainForked
    BY <2>1 DEF ChainInv, MuteInv
  <2>8. \A c \in Commands : proc'[c] = "fork" => DOMAIN fds'[c] \subseteq 0..5
    <3>1. ChainInv' => \A c \in Commands : proc'[c] = "fork" => DOMAIN fds'[c] \subseteq 0..5
      BY DEF ChainInv, ChainTables, ChainTable, Piped
    <3>2. MuteInv' => \A c \in Commands : proc'[c] = "fork" => DOMAIN fds'[c] \subseteq 0..5
      BY DEF MuteInv, MuteTables, MuteTable, Half
    <3> QED BY <2>1, <2>5, <2>6, <3>1, <3>2
  <2>9. TableTypes'
    BY <2>1, <2>3, <2>4, <2>7, <2>8, ChainTypesKept
  <2>10. DataTypes'
    BY <2>1, <2>3, <2>4, ChainSteps, DataTypesKept
  <2> QED BY <1>2, <2>1, <2>2, <2>5, <2>6, <2>9, <2>10 DEF OneInv
<1> QED BY <1>1, <1>2 DEF OneInv

\* Whichever program is started, with whichever of the standard descriptors: no
\* descriptor above 5 is ever in use and no pipe holds more than it can; and a
\* command runs with its own ends only, unless it is pipeline.c that was started
\* without standard input.
THEOREM BothWiredHolds == StandardStart /\ OneSpec => []BothWired
<1>1. OneInv => BothWired
  <2> SUFFICES ASSUME OneInv PROVE BothWired
    OBVIOUS
  <2>1. TableTypes /\ DataTypes
    BY DEF OneInv
  <2>2. \A p \in 0..Count : DOMAIN fds[p] \subseteq 0..5 /\ Range(fds[p]) \subseteq Ends
    BY <2>1 DEF TableTypes, Typed, Range
  <2>3. CASE ProcInv /\ TableInv
    <3>1. WiredUp
      BY <2>3, CountOK DEF TableInv, ChildTables, WiredTable, WiredUp
    <3>2. CommandsTypeOK
      BY <2>1, <2>2, <2>3 DEF CommandsTypeOK, ProcInv, ProcTypes, TableTypes, DataTypes
    <3> QED BY <2>3, <3>1, <3>2 DEF BothWired, TypeOK, ProcInv, ProcTypes
  <2>4. CASE /\ program = "pipeline" /\ i \in Commands /\ pidlist = [c \in Commands |-> 0]
             /\ ChainInv \/ (MuteInv /\ 0 \notin DOMAIN started)
    <3>1. ChainTypes
      BY <2>4 DEF ChainInv, MuteInv
    <3>2. CommandsTypeOK
      BY <2>1, <2>2, <3>1 DEF CommandsTypeOK, ChainTypes, TableTypes, DataTypes
    <3>3. pidlist \in [Commands -> -1..Count]
      BY <2>4, CountOK
    <3>4. KeepsInput => WiredUp
      BY <2>4, ChainWired DEF KeepsInput
    <3> QED BY <2>4, <3>2, <3>3, <3>4 DEF BothWired, TypeOK
  <2> QED BY <2>3, <2>4 DEF OneInv
<1> QED BY OneInvInit, OneInvNext, <1>1, PTL DEF OneSpec

\* Whichever program is started, with whichever of the standard descriptors, its
\* output is its input, in order, and all of it when every command ran to the
\* end of its input.
THEOREM BothDeliver == StandardStart /\ OneSpec => []Delivered
<1>1. OneInv => Delivered
  BY ChainPassed, Passed, MuteDelivers DEF OneInv, ProcInv, NotRunYet
<1> QED BY OneInvInit, OneInvNext, <1>1, PTL DEF OneSpec
=============================================================================
