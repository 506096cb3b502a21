----------------------------- MODULE Instances -----------------------------
(***************************************************************************)
(* Several instances of lab4/shared_counter_works_1, 2 and 3, started at   *)
(* any time.  They meet in the name of the semaphore of works_1, which is  *)
(* there from sem_open(O_CREAT|O_EXCL) to sem_unlink(), and in the file on *)
(* the command line, where works_1 keeps its counter and works_2 its       *)
(* counter and its semaphore.  works_3 maps /dev/zero and shares nothing.  *)
(* (shared_counter_doesnt_work sets its semaphore up as works_1 does.)     *)
(*                                                                         *)
(* A signal may end an instance while it sets up; kills in the rounds, and *)
(* a round step by step, are in SharedCounter.                             *)
(***************************************************************************)
EXTENDS Integers, Sequences, FiniteSets

CONSTANTS
  Instance,  \* the instances
  Path,      \* the files they may be given
  None,      \* no semaphore: SEM_FAILED, which is a null pointer
  N,         \* the number of loops
  MayDie     \* the instances that may be killed

ASSUME InstancesOK == /\ N \in Nat
                      /\ None \notin Instance \cup Path
                      /\ Instance \cap Path = {}
                      /\ MayDie \subseteq Instance

VARIABLES
  prog,      \* which program each instance is
  path,      \* the file it is given
  name,      \* the instance whose semaphore "/mysem" names, or None
  opened,    \* what sem_open() returned: the instance that made it, or None
  mutex,     \* the semaphores, by the instance or the file they are of
  count,     \* the counters, likewise
  at,        \* where each process is
  left,      \* the rounds it still has to do
  reg,       \* what it loaded
  printed,   \* the values each instance printed
  forgetful, \* the semaphores that lost count of processes sleeping on them
  disturbed  \* history: two instances that were alive on one file

vars == <<prog, path, name, opened, mutex, count, at, left, reg, printed,
          forgetful, disturbed>>
setup == <<prog, path, name, opened, forgetful, disturbed>>

Role == {"parent", "child"}
Gone == {"unborn", "exited", "crashed", "killed", "killed_cleared"}
States == {"write", "sem_open", "sem_unlink", "sem_init", "fork", "loop", "load",
           "print", "post", "waitpid"} \cup Gone

\* Where an instance finds its counter and its semaphore.
Cell(x) == IF prog[x] = "works_3" THEN x ELSE path[x]
Sem(x)  == CASE prog[x] = "works_1" -> opened[x]
             [] prog[x] = "works_2" -> path[x]
             [] prog[x] = "works_3" -> x

Init ==
  /\ prog \in [Instance -> {"works_1", "works_2", "works_3"}]
  /\ path \in [Instance -> Path]
  /\ name = None /\ opened = [x \in Instance |-> None]
  /\ mutex = [s \in Instance \cup Path |-> 0]
  /\ count = [c \in Instance \cup Path |-> 0]
  /\ at = [x \in Instance |-> [r \in Role |-> IF r = "parent" THEN "write" ELSE "unborn"]]
  /\ left = [x \in Instance |-> [r \in Role |-> N]]
  /\ reg = [x \in Instance |-> [r \in Role |-> 0]]
  /\ printed = [x \in Instance |-> <<>>]
  /\ forgetful = {} /\ disturbed = {}

Goes(x, r, from, to) == at[x][r] = from /\ at' = [at EXCEPT ![x][r] = to]

-----------------------------------------------------------------------------
(* Setting up. *)

\* The instances that have mapped the same file and are alive.
Rivals(x) ==
  {y \in Instance \ {x} :
     /\ prog[x] # "works_3" /\ prog[y] # "works_3" /\ path[x] = path[y]
     /\ at[y]["parent"] \notin Gone \cup {"write"} \/ at[y]["child"] \notin Gone}

\* Mutant: the file is opened, and what it holds is kept.
ClearedNever(x) == count

Cleared(x) == [count EXCEPT ![Cell(x)] = 0]

Waits(x, r) == at[x][r] = "loop" /\ left[x][r] > 0

\* How many processes sleep on a semaphore is kept in it.  Whoever writes over
\* it wakes none of them, and sem_post() will see nobody to wake.
Forgets(s) ==
  IF (mutex[s] = 0 \/ s \in forgetful)
     /\ \E x \in Instance, r \in Role : Waits(x, r) /\ Sem(x) = s
  THEN forgetful \cup {s} ELSE forgetful \ {s}

\* write() clears the counter, and in works_2 the semaphore; then mmap().
Write(x) ==
  /\ Goes(x, "parent", "write", IF prog[x] = "works_1" THEN "sem_open" ELSE "sem_init")
  /\ count' = Cleared(x)
  /\ IF prog[x] = "works_2"
     THEN mutex' = [mutex EXCEPT ![path[x]] = 0] /\ forgetful' = Forgets(path[x])
     ELSE UNCHANGED <<mutex, forgetful>>
  /\ disturbed' = disturbed \cup Rivals(x) \cup (IF Rivals(x) = {} THEN {} ELSE {x})
  /\ UNCHANGED <<prog, path, name, opened, left, reg, printed>>

\* O_CREAT|O_EXCL: a name that is there is an error.
SemOpen(x) ==
  /\ Goes(x, "parent", "sem_open", "sem_unlink")
  /\ IF name = None
     THEN /\ name' = x
          /\ opened' = [opened EXCEPT ![x] = x]
          /\ mutex' = [mutex EXCEPT ![x] = 1]
     ELSE opened' = [opened EXCEPT ![x] = None] /\ UNCHANGED <<name, mutex>>
  /\ UNCHANGED <<prog, path, count, left, reg, printed, forgetful, disturbed>>

\* Mutant: no sem_unlink().
UnlinkedNever == name

\* The name goes, whoever made it.
Unlinked == None

SemUnlink(x) ==
  /\ Goes(x, "parent", "sem_unlink", "fork")
  /\ name' = Unlinked
  /\ UNCHANGED <<prog, path, opened, forgetful, disturbed, mutex, count, left, reg, printed>>

\* Mutant: sem_init() with a value of 0.
InitialZero == 0

InitialValue == 1

SemInit(x) ==
  /\ Goes(x, "parent", "sem_init", "fork")
  /\ mutex' = [mutex EXCEPT ![Sem(x)] = InitialValue]
  /\ forgetful' = Forgets(Sem(x))
  /\ UNCHANGED <<prog, path, name, opened, disturbed, count, left, reg, printed>>

Fork(x) ==
  /\ at[x]["parent"] = "fork"
  /\ at' = [at EXCEPT ![x] = [r \in Role |-> "loop"]]
  /\ UNCHANGED <<setup, mutex, count, left, reg, printed>>

\* The parent does not notice.
ForkFails(x) ==
  /\ Goes(x, "parent", "fork", "loop")
  /\ UNCHANGED <<setup, mutex, count, left, reg, printed>>

Killed(x) ==
  /\ x \in MayDie
  /\ \/ \E from \in {"write", "sem_open", "sem_unlink", "fork"} :
          Goes(x, "parent", from, "killed")
     \/ Goes(x, "parent", "sem_init", "killed_cleared")
  /\ UNCHANGED <<setup, mutex, count, left, reg, printed>>

-----------------------------------------------------------------------------
(* The rounds. *)

\* sem_wait(NULL) is a segmentation fault.
WaitCrashes(x, r) ==
  /\ left[x][r] > 0 /\ Sem(x) = None
  /\ Goes(x, r, "loop", "crashed")
  /\ UNCHANGED <<setup, mutex, count, left, reg, printed>>

GoesOn(x, r) == left[x][r] > 0

Wait(x, r) ==
  /\ GoesOn(x, r) /\ Sem(x) # None
  /\ mutex[Sem(x)] > 0
  /\ Goes(x, r, "loop", "load")
  /\ mutex' = [mutex EXCEPT ![Sem(x)] = @ - 1]
  /\ UNCHANGED <<setup, count, left, reg, printed>>

Load(x, r) ==
  /\ Goes(x, r, "load", "print")
  /\ reg' = [reg EXCEPT ![x][r] = count[Cell(x)]]
  /\ UNCHANGED <<setup, mutex, count, left, printed>>

PrintCount(x, r) ==
  /\ Goes(x, r, "print", "post")
  /\ count' = [count EXCEPT ![Cell(x)] = reg[x][r] + 1]
  /\ printed' = [printed EXCEPT ![x] = Append(@, reg[x][r])]
  /\ UNCHANGED <<setup, mutex, left, reg>>

Post(x, r) ==
  /\ Goes(x, r, "post", "loop")
  /\ mutex' = [mutex EXCEPT ![Sem(x)] = @ + 1]
  /\ left' = [left EXCEPT ![x][r] = @ - 1]
  /\ UNCHANGED <<setup, count, reg, printed>>

LoopEnds(x, r) ==
  /\ left[x][r] = 0
  /\ Goes(x, r, "loop", IF r = "parent" THEN "waitpid" ELSE "exited")
  /\ UNCHANGED <<setup, mutex, count, left, reg, printed>>

Waitpid(x) ==
  /\ at[x]["child"] \in Gone
  /\ Goes(x, "parent", "waitpid", "exited")
  /\ UNCHANGED <<setup, mutex, count, left, reg, printed>>

SetUp(x) == Write(x) \/ SemOpen(x) \/ SemUnlink(x) \/ SemInit(x) \/ Fork(x)
Round(x, r) == \/ WaitCrashes(x, r) \/ Wait(x, r) \/ Load(x, r) \/ PrintCount(x, r)
               \/ Post(x, r) \/ LoopEnds(x, r)

Next == \E x \in Instance :
          \/ SetUp(x) \/ ForkFails(x) \/ Killed(x) \/ Waitpid(x)
          \/ \E r \in Role : Round(x, r)

Spec == Init /\ [][Next]_vars

\* It sleeps, and its semaphore may never wake it.
Forgotten(x, r) == Waits(x, r) /\ Sem(x) \in forgetful

\* The kernel schedules every process that is not asleep.
FairSpec ==
  /\ Spec
  /\ \A x \in Instance :
       /\ WF_vars(SetUp(x) \/ Waitpid(x))
       /\ \A r \in Role : WF_vars(Round(x, r) /\ ~Forgotten(x, r))

-----------------------------------------------------------------------------
\* Every variable keeps its type, and an instance that has set up has the
\* semaphore that its program makes, or is works_1 and has none.
TypeOK ==
  /\ prog \in [Instance -> {"works_1", "works_2", "works_3"}]
  /\ path \in [Instance -> Path]
  /\ name \in Instance \cup {None}
  /\ opened \in [Instance -> Instance \cup {None}]
  /\ mutex \in [Instance \cup Path -> Nat]
  /\ count \in [Instance \cup Path -> Nat]
  /\ at \in [Instance -> [Role -> States]]
  /\ left \in [Instance -> [Role -> 0..N]]
  /\ reg \in [Instance -> [Role -> Nat]]
  /\ printed \in [Instance -> Seq(Nat)]
  /\ forgetful \subseteq Instance \cup Path /\ disturbed \subseteq Instance
  /\ \A x \in Instance : opened[x] # None => prog[x] = "works_1"

\* The name is there only while the instance that made its semaphore is about
\* to remove it, or was killed just then: that is when sem_open() can fail.
NameHeld ==
  name # None => /\ at[name]["parent"] \in {"sem_unlink", "killed"}
                 /\ opened[name] = name

Working(x) == {r \in Role : at[x][r] \in {"load", "print", "post"}}

\* An instance that did not meet another one on its file excludes its two
\* processes from each other, and prints 0, 1, 2, ..., also on a file that
\* another has left with a count, or with its semaphore held.
CountsFromZero ==
  \A x \in Instance \ disturbed :
    /\ Cardinality(Working(x)) <= 1
    /\ \A k \in 1..Len(printed[x]) : printed[x][k] = k - 1

Over(x) == \A r \in Role : at[x][r] \in Gone

\* A process for which nobody will post, or which no sem_post() will wake.
Stranded(x, r) ==
  /\ Waits(x, r)
  /\ \/ Sem(x) \in forgetful
     \/ \E y \in Instance : /\ prog[y] = "works_2" /\ path[y] = Sem(x)
                            /\ at[y]["parent"] = "killed_cleared"
                            /\ mutex[path[y]] = 0

\* Every instance comes to its end, but for the processes that works_2 strands
\* by its use of the file (shared_counter_works_2.c:64-73): those that sleep on
\* the semaphore while it is written over, and those that find it cleared by
\* an instance that was killed before it initialised it.
AllOver ==
  <>[]\A x \in Instance : Over(x) \/ \E r \in Role : Stranded(x, r)
=============================================================================
