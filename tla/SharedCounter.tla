--------------------------- MODULE SharedCounter ---------------------------
(***************************************************************************)
(* The programs lab4/shared_counter_*.c: a parent and the child it forks   *)
(* each print and increment a counter N times, between sem_wait() and      *)
(* sem_post() of one semaphore.  In the three that work the counter is in  *)
(* a shared mapping; in the naive one it is a static variable, of which    *)
(* fork() gives the child a copy.                                          *)
(*                                                                         *)
(* "printf(..., count++)" is a load, a store and a write, as compiled.     *)
(* Setting up (open, mmap, sem_open or sem_init) is done by one instance   *)
(* of the program, alone, and succeeds.                                    *)
(***************************************************************************)
EXTENDS Integers, Sequences, FiniteSets

CONSTANTS
  N,        \* the number of loops
  INT_MAX,  \* the greatest int
  Builds,   \* the programs: TRUE for those with the counter in shared memory
  MayDie    \* the processes that may be killed

Procs == {"parent", "child"}

\* The counter is an int, and is not made to overflow.
ASSUME CounterOK == /\ N \in Nat /\ INT_MAX \in Nat /\ 2 * N <= INT_MAX
                    /\ Builds \subseteq BOOLEAN
                    /\ MayDie \subseteq Procs

VARIABLES
  shared,   \* which program runs
  mutex,    \* the value of the semaphore
  count,    \* the counter, in the memory of each process
  reg,      \* what each process loaded
  i,        \* the loop variable of each process
  pc,
  output    \* the lines printed, <<process, value>>

vars == <<shared, mutex, count, reg, i, pc, output>>

-----------------------------------------------------------------------------
\* Mutant: the variable that is not in a mapping is shared.
HomeParent(p) == "parent"

\* Whose memory a process finds the counter in.
Home(p) == IF shared THEN "parent" ELSE p

Init == /\ shared \in Builds
        /\ mutex = 1
        /\ count = [p \in Procs |-> 0]
        /\ reg = [p \in Procs |-> 0]
        /\ i = [p \in Procs |-> 0]
        /\ pc = [p \in Procs |-> IF p = "parent" THEN "fork" ELSE "unborn"]
        /\ output = <<>>

GoTo(p, from, to) == pc[p] = from /\ pc' = [pc EXCEPT ![p] = to]

\* The parent's writes before the fork are in the child's copy.
Fork ==
  /\ pc["parent"] = "fork"
  /\ pc' = [p \in Procs |-> "loop"]
  /\ count' = [p \in Procs |-> count["parent"]]
  /\ UNCHANGED <<shared, mutex, reg, i, output>>

\* pid is -1: there is no child, and the parent does not notice.
ForkFails ==
  /\ GoTo("parent", "fork", "loop")
  /\ UNCHANGED <<shared, mutex, count, reg, i, output>>

\* Mutants: one round too many; sem_trywait(), its result not looked at.
GoesOnOnce(p) == i[p] <= N
AvailableAlways == TRUE

GoesOn(p) == i[p] < N

Available == mutex > 0

SemWait(p) ==
  /\ GoesOn(p) /\ Available
  /\ GoTo(p, "loop", "load")
  /\ mutex' = mutex - 1
  /\ UNCHANGED <<shared, count, reg, i, output>>

Load(p) ==
  /\ GoTo(p, "load", "store")
  /\ reg' = [reg EXCEPT ![p] = count[Home(p)]]
  /\ UNCHANGED <<shared, mutex, count, i, output>>

Store(p) ==
  /\ GoTo(p, "store", "write")
  /\ count' = [count EXCEPT ![Home(p)] = reg[p] + 1]
  /\ UNCHANGED <<shared, mutex, reg, i, output>>

\* Mutant: printf() is given ++count.
PrintedIncremented(p) == reg[p] + 1

Printed(p) == reg[p]

\* stdout is not buffered.
Write(p) ==
  /\ GoTo(p, "write", "post")
  /\ output' = Append(output, <<p, Printed(p)>>)
  /\ UNCHANGED <<shared, mutex, count, reg, i>>

\* Mutant: the loop goes on without sem_post().
SemPostForgotten(p) ==
  /\ GoTo(p, "post", "loop")
  /\ i' = [i EXCEPT ![p] = @ + 1]
  /\ UNCHANGED <<shared, mutex, count, reg, output>>

SemPost(p) ==
  /\ GoTo(p, "post", "loop")
  /\ mutex' = mutex + 1
  /\ i' = [i EXCEPT ![p] = @ + 1]
  /\ UNCHANGED <<shared, count, reg, output>>

\* Mutant: the loop may end a round early.
FinishedEarly(p) == i[p] >= N - 1

Finished(p) == i[p] >= N

LoopEnds(p) ==
  /\ Finished(p)
  /\ GoTo(p, "loop", IF p = "parent" THEN "reap" ELSE "exited")
  /\ UNCHANGED <<shared, mutex, count, reg, i, output>>

Gone == {"exited", "killed", "killed_inside"}

Waitable == pc["child"] \in Gone \cup {"unborn"}

\* waitpid(): with no child it returns at once.
Reap ==
  /\ Waitable
  /\ GoTo("parent", "reap", "exited")
  /\ UNCHANGED <<shared, mutex, count, reg, i, output>>

Inside(p) == pc[p] \in {"load", "store", "write", "post"}

\* A signal ends a process; a semaphore it holds is never posted.
Kill(p) ==
  /\ p \in MayDie
  /\ pc[p] \notin Gone \cup {"unborn"}
  /\ pc' = [pc EXCEPT ![p] = IF Inside(p) THEN "killed_inside" ELSE "killed"]
  /\ UNCHANGED <<shared, mutex, count, reg, i, output>>

Run(p) == \/ SemWait(p) \/ Load(p) \/ Store(p) \/ Write(p) \/ SemPost(p)
          \/ LoopEnds(p)

Next == \/ Fork \/ ForkFails
        \/ \E p \in Procs : Run(p) \/ Kill(p)
        \/ Reap

Spec == Init /\ [][Next]_vars

\* The kernel schedules both processes.  The semaphore need not be fair: a
\* process that holds it leaves the loop after N rounds.
FairSpec == /\ Spec
            /\ WF_vars(Fork \/ ForkFails) /\ WF_vars(Reap)
            /\ \A p \in Procs : WF_vars(Run(p))

-----------------------------------------------------------------------------
\* Every variable keeps its type; the counter never passes 2 * N, so the int
\* that holds it does not overflow.
TypeOK ==
  /\ shared \in Builds
  /\ mutex \in {0, 1}
  /\ count \in [Procs -> 0..(2 * N)]
  /\ reg \in [Procs -> 0..(2 * N)]
  /\ i \in [Procs -> 0..N]
  /\ pc \in [Procs -> {"fork", "unborn", "loop", "load", "store", "write",
                       "post", "reap", "exited", "killed", "killed_inside"}]
  /\ output \in Seq(Procs \X (0..(2 * N)))

\* A process between sem_wait and sem_post, killed there or not.
Holds(p) == Inside(p) \/ pc[p] = "killed_inside"

\* The semaphore excludes: it is free exactly when nobody holds it, and the
\* two processes never hold it both, even when one of them is killed.
MutualExclusion ==
  /\ mutex = 1 <=> \A p \in Procs : ~Holds(p)
  /\ ~(Holds("parent") /\ Holds("child"))

\* The values printed are 0, 1, 2, ... : no increment is lost and no value is
\* printed twice ("Working implementation of a shared counter").
Serial == shared => \A k \in 1..Len(output) : output[k][2] = k - 1

\* When both processes have run to their end, every loop was counted.
AllCounted ==
  shared /\ (\A p \in Procs : pc[p] = "exited")
    => count["parent"] = 2 * N /\ Len(output) = 2 * N

\* How many of the first k lines process p printed.
PrintedBy(p, k) == Cardinality({j \in 1..k : output[j][1] = p})

\* The naive program: each process counts for itself from 0, whatever the
\* order in which they hold the semaphore.
CountsAlone ==
  ~shared => \A k \in 1..Len(output) :
               output[k][2] = PrintedBy(output[k][1], k - 1)

\* In shared memory, it is the counter of AtomicCounter: Write is its step.
SharedOutput == IF shared THEN output ELSE <<>>

Atomic == INSTANCE AtomicCounter WITH output <- SharedOutput
ImplementsAtomic == Atomic!Spec

\* Both processes end, unless one was killed while it held the semaphore.
Ends == <>( \/ pc["parent"] \in Gone /\ pc["child"] \in Gone \cup {"unborn"}
            \/ \E p \in Procs : pc[p] = "killed_inside" )
=============================================================================
