------------------------ MODULE SharedCounterProofs ------------------------
(***************************************************************************)
(* Proofs about the counter programs of lab4 for every number of rounds    *)
(* that an int can count, with any of the processes killed at any point.   *)
(***************************************************************************)
EXTENDS SharedCounter, FiniteSetTheorems, TLAPS

\* Before the fork nothing has happened, and only the parent forks or reaps.
ForkingInv ==
  /\ pc["child"] \notin {"fork", "reap"}
  /\ pc["parent"] # "unborn"
  /\ pc["parent"] = "fork" =>
       /\ pc["child"] = "unborn"
       /\ output = <<>>
       /\ \A p \in Procs : count[p] = 0 /\ i[p] = 0

\* A process inside has a round to finish, and one past the loop has none.
RoundInv ==
  \A p \in Procs : /\ Inside(p) => i[p] < N
                   /\ pc[p] \in {"reap", "exited"} => i[p] = N

\* Whoever is between sem_wait and the write holds the next value to print.
SharedInv ==
  shared =>
    /\ (\A p \in Procs : pc[p] \notin {"store", "write", "killed_inside"})
         => count["parent"] = Len(output)
    /\ \A p \in Procs :
         /\ pc[p] = "store" => reg[p] = Len(output) /\ count["parent"] = Len(output)
         /\ pc[p] = "write" => reg[p] = Len(output) /\ count["parent"] = Len(output) + 1

\* Each round prints one line, unless a process died within one.
LinesInv ==
  shared /\ (\A p \in Procs : pc[p] # "killed_inside") =>
    Len(output) = i["parent"] + i["child"]
                    + (IF \E p \in Procs : pc[p] = "post" THEN 1 ELSE 0)

\* In private memory the counter is the number of the round.
PrivateInv ==
  ~shared =>
    \A p \in Procs :
      /\ pc[p] \in {"fork", "unborn", "loop", "load"} => count[p] = i[p]
      /\ pc[p] = "store" => count[p] = i[p] /\ reg[p] = i[p]
      /\ pc[p] = "write" => count[p] = i[p] + 1 /\ reg[p] = i[p]
      /\ pc[p] = "post" => count[p] = i[p] + 1

IInv == /\ TypeOK /\ MutualExclusion /\ ForkingInv /\ RoundInv
        /\ SharedInv /\ LinesInv /\ PrivateInv /\ Serial

-----------------------------------------------------------------------------
LEMMA InitInv == Init => IInv
  BY CounterOK
  DEF Init, IInv, TypeOK, MutualExclusion, ForkingInv, RoundInv, SharedInv,
      LinesInv, PrivateInv, Serial, Procs, Holds, Inside

\* The fork starts both processes on the same counter.
LEMMA ForkInv ==
  ASSUME IInv, Fork
  PROVE  IInv'
  <1>0. TypeOK /\ MutualExclusion /\ ForkingInv /\ RoundInv
        /\ SharedInv /\ LinesInv /\ PrivateInv /\ Serial
    BY DEF IInv
  <1>1. TypeOK'
    BY <1>0 DEF TypeOK, Procs, Fork
  <1>2. MutualExclusion'
    BY <1>0 DEF MutualExclusion, ForkingInv, Holds, Inside, Procs, Fork
  <1>3. ForkingInv'
    BY DEF ForkingInv, Procs, Fork
  <1>4. RoundInv'
    BY DEF RoundInv, Inside, Fork
  <1>5. SharedInv'
    BY <1>0 DEF SharedInv, ForkingInv, Procs, Fork
  <1>6. LinesInv'
    BY <1>0 DEF LinesInv, ForkingInv, Procs, Fork
  <1>7. PrivateInv'
    BY <1>0 DEF PrivateInv, ForkingInv, Procs, Fork
  <1>8. Serial'
    BY <1>0 DEF Serial, Fork
  <1> QED BY <1>1, <1>2, <1>3, <1>4, <1>5, <1>6, <1>7, <1>8 DEF IInv

\* Without a child the parent counts alone.
LEMMA ForkFailsInv ==
  ASSUME IInv, ForkFails
  PROVE  IInv'
  <1>0. TypeOK /\ MutualExclusion /\ ForkingInv /\ RoundInv
        /\ SharedInv /\ LinesInv /\ PrivateInv /\ Serial
    BY DEF IInv
  <1>1. TypeOK'
    BY <1>0 DEF TypeOK, ForkFails, GoTo
  <1>2. MutualExclusion'
    BY <1>0 DEF MutualExclusion, Holds, Inside, ForkFails, GoTo
  <1>3. ForkingInv'
    BY <1>0 DEF ForkingInv, ForkFails, GoTo
  <1>4. RoundInv'
    BY <1>0 DEF RoundInv, Inside, ForkFails, GoTo
  <1>5. SharedInv'
    BY <1>0 DEF SharedInv, ForkFails, GoTo
  <1>6. LinesInv'
    BY <1>0 DEF LinesInv, ForkFails, GoTo
  <1>7. PrivateInv'
    BY <1>0 DEF PrivateInv, ForkFails, GoTo
  <1>8. Serial'
    BY <1>0 DEF Serial, ForkFails
  <1> QED BY <1>1, <1>2, <1>3, <1>4, <1>5, <1>6, <1>7, <1>8 DEF IInv

\* Entering needs the semaphore, so nobody holds it.
LEMMA SemWaitInv ==
  ASSUME IInv, NEW p \in Procs, SemWait(p)
  PROVE  IInv'
  <1>0. TypeOK /\ MutualExclusion /\ ForkingInv /\ RoundInv
        /\ SharedInv /\ LinesInv /\ PrivateInv /\ Serial
    BY DEF IInv
  <1>1. TypeOK'
    BY <1>0 DEF TypeOK, SemWait, GoesOn, Available, GoTo
  <1>2. MutualExclusion'
    BY <1>0 DEF TypeOK, MutualExclusion, Holds, Inside, Procs, SemWait, GoesOn, Available, GoTo
  <1>3. ForkingInv'
    BY <1>0 DEF ForkingInv, SemWait, GoesOn, Available, GoTo
  <1>4. RoundInv'
    BY <1>0 DEF RoundInv, Inside, SemWait, GoesOn, Available, GoTo
  <1>5. SharedInv'
    BY <1>0 DEF SharedInv, SemWait, GoesOn, Available, GoTo
  <1>6. LinesInv'
    BY <1>0 DEF LinesInv, SemWait, GoesOn, Available, GoTo
  <1>7. PrivateInv'
    BY <1>0 DEF PrivateInv, SemWait, GoesOn, Available, GoTo
  <1>8. Serial'
    BY <1>0 DEF Serial, SemWait, GoesOn, Available
  <1> QED BY <1>1, <1>2, <1>3, <1>4, <1>5, <1>6, <1>7, <1>8 DEF IInv

\* The value loaded is the next one to print.
LEMMA LoadInv ==
  ASSUME IInv, NEW p \in Procs, Load(p)
  PROVE  IInv'
  <1>0. TypeOK /\ MutualExclusion /\ ForkingInv /\ RoundInv
        /\ SharedInv /\ LinesInv /\ PrivateInv /\ Serial
    BY DEF IInv
  <1>1. TypeOK'
    BY <1>0 DEF TypeOK, Home, Procs, Load, GoTo
  <1>2. MutualExclusion'
    BY <1>0 DEF MutualExclusion, Holds, Inside, Load, GoTo
  <1>3. ForkingInv'
    BY <1>0 DEF ForkingInv, Load, GoTo
  <1>4. RoundInv'
    BY <1>0 DEF RoundInv, Inside, Load, GoTo
  <1>5. SharedInv'
    BY <1>0 DEF TypeOK, SharedInv, MutualExclusion, Holds, Inside, Home, Procs, Load, GoTo
  <1>6. LinesInv'
    BY <1>0 DEF LinesInv, Load, GoTo
  <1>7. PrivateInv'
    BY <1>0 DEF TypeOK, PrivateInv, Home, Load, GoTo
  <1>8. Serial'
    BY <1>0 DEF Serial, Load
  <1> QED BY <1>1, <1>2, <1>3, <1>4, <1>5, <1>6, <1>7, <1>8 DEF IInv

\* The counter runs ahead of the output by one.
LEMMA StoreInv ==
  ASSUME IInv, NEW p \in Procs, Store(p)
  PROVE  IInv'
  <1>0. TypeOK /\ MutualExclusion /\ ForkingInv /\ RoundInv
        /\ SharedInv /\ LinesInv /\ PrivateInv /\ Serial
    BY DEF IInv
  <1>1. TypeOK'
    <2>1. pc[p] = "store" /\ i[p] < N /\ reg[p] \in Nat
      BY <1>0 DEF Store, GoTo, RoundInv, Inside, TypeOK
    <2>2. \A q \in Procs : q # p => ~Holds(q)
      BY <1>0, <2>1 DEF MutualExclusion, Holds, Inside, Procs
    <2>3. CASE shared
      <3>1. \A q \in Procs : pc[q] \notin {"killed_inside", "post"}
        BY <2>1, <2>2 DEF Holds, Inside
      <3>2. Len(output) = i["parent"] + i["child"]
        BY <1>0, <2>3, <3>1 DEF LinesInv, TypeOK, Procs
      <3>3. reg[p] = Len(output)
        BY <1>0, <2>1, <2>3 DEF SharedInv
      <3>4. reg[p] + 1 \in 0..(2 * N)
        BY <1>0, <2>1, <3>2, <3>3, CounterOK DEF TypeOK, Procs
      <3> QED BY <1>0, <3>4 DEF TypeOK, Store, GoTo
    <2>4. CASE ~shared
      <3>1. reg[p] + 1 \in 0..(2 * N)
        BY <1>0, <2>1, <2>4, CounterOK DEF PrivateInv
      <3> QED BY <1>0, <3>1 DEF TypeOK, Store, GoTo
    <2> QED BY <2>3, <2>4
  <1>2. MutualExclusion'
    BY <1>0 DEF MutualExclusion, Holds, Inside, Store, GoTo
  <1>3. ForkingInv'
    BY <1>0 DEF ForkingInv, Procs, Store, GoTo
  <1>4. RoundInv'
    BY <1>0 DEF RoundInv, Inside, Store, GoTo
  <1>5. SharedInv'
    BY <1>0 DEF TypeOK, SharedInv, MutualExclusion, Holds, Inside, Home, Procs, Store, GoTo
  <1>6. LinesInv'
    BY <1>0 DEF LinesInv, Store, GoTo
  <1>7. PrivateInv'
    BY <1>0 DEF TypeOK, PrivateInv, Home, Store, GoTo
  <1>8. Serial'
    BY <1>0 DEF Serial, Store
  <1> QED BY <1>1, <1>2, <1>3, <1>4, <1>5, <1>6, <1>7, <1>8 DEF IInv

\* The output catches up with the counter.
LEMMA WriteInv ==
  ASSUME IInv, NEW p \in Procs, Write(p)
  PROVE  IInv'
  <1>0. TypeOK /\ MutualExclusion /\ ForkingInv /\ RoundInv
        /\ SharedInv /\ LinesInv /\ PrivateInv /\ Serial
    BY DEF IInv
  <1>p. /\ Len(output') = Len(output) + 1 /\ Len(output) \in Nat
        /\ output'[Len(output) + 1] = <<p, reg[p]>>
        /\ \A k \in 1..Len(output) : output'[k] = output[k]
    BY <1>0 DEF Write, Printed, TypeOK
  <1>1. TypeOK'
    BY <1>0 DEF TypeOK, SharedInv, Write, Printed, GoTo
  <1>2. MutualExclusion'
    BY <1>0 DEF MutualExclusion, Holds, Inside, Write, Printed, GoTo
  <1>3. ForkingInv'
    BY <1>0 DEF ForkingInv, Procs, Write, Printed, GoTo
  <1>4. RoundInv'
    BY <1>0 DEF RoundInv, Inside, Write, Printed, GoTo
  <1>5. SharedInv'
    BY <1>0 DEF TypeOK, SharedInv, MutualExclusion, Holds, Inside, Procs, Write, Printed, GoTo
  <1>6. LinesInv'
    <2> SUFFICES ASSUME shared, \A q \in Procs : pc'[q] # "killed_inside"
                 PROVE  Len(output') = i["parent"] + i["child"] + 1
      BY <1>0 DEF LinesInv, Write, Printed, GoTo, TypeOK
    <2>1. pc[p] = "write"
      BY DEF Write, Printed, GoTo
    <2>2. \A q \in Procs : pc[q] \notin {"killed_inside", "post"}
      BY <1>0, <2>1 DEF MutualExclusion, Holds, Inside, Procs
    <2>3. Len(output) = i["parent"] + i["child"]
      BY <1>0, <2>2 DEF LinesInv, TypeOK, Procs
    <2> QED BY <1>p, <2>3
  <1>7. PrivateInv'
    BY <1>0 DEF PrivateInv, Write, Printed, GoTo
  <1>8. Serial'
    <2> SUFFICES ASSUME shared, NEW k \in 1..Len(output')
                 PROVE  output'[k][2] = k - 1
      BY DEF Serial, Write, Printed
    <2>1. CASE k \in 1..Len(output)
      BY <1>0, <1>p, <2>1 DEF Serial
    <2>2. CASE k = Len(output) + 1
      <3>1. reg[p] = Len(output)
        BY <1>0 DEF SharedInv, Write, Printed, GoTo
      <3> QED BY <1>p, <2>2, <3>1
    <2> QED BY <1>p, <2>1, <2>2
  <1> QED BY <1>1, <1>2, <1>3, <1>4, <1>5, <1>6, <1>7, <1>8 DEF IInv

\* Leaving frees the semaphore and ends the round.
LEMMA SemPostInv ==
  ASSUME IInv, NEW p \in Procs, SemPost(p)
  PROVE  IInv'
  <1>0. TypeOK /\ MutualExclusion /\ ForkingInv /\ RoundInv
        /\ SharedInv /\ LinesInv /\ PrivateInv /\ Serial
    BY DEF IInv
  <1>1. TypeOK'
    <2>1. mutex + 1 = 1
      BY <1>0 DEF TypeOK, MutualExclusion, Holds, Inside, SemPost, GoTo
    <2>2. i[p] + 1 \in 0..N
      BY <1>0, CounterOK DEF TypeOK, RoundInv, Inside, SemPost, GoTo
    <2> QED BY <1>0, <2>1, <2>2 DEF TypeOK, SemPost, GoTo
  <1>2. MutualExclusion'
    BY <1>0 DEF TypeOK, MutualExclusion, Holds, Inside, Procs, SemPost, GoTo
  <1>3. ForkingInv'
    BY <1>0 DEF ForkingInv, Procs, SemPost, GoTo
  <1>4. RoundInv'
    BY <1>0 DEF TypeOK, RoundInv, Inside, SemPost, GoTo
  <1>5. SharedInv'
    BY <1>0 DEF SharedInv, SemPost, GoTo
  <1>6. LinesInv'
    <2> SUFFICES ASSUME shared, \A q \in Procs : pc'[q] # "killed_inside"
                 PROVE  /\ Len(output') = i'["parent"] + i'["child"]
                        /\ \A q \in Procs : pc'[q] # "post"
      BY <1>0 DEF LinesInv, TypeOK, SemPost, GoTo, Procs
    <2>1. pc[p] = "post"
      BY DEF SemPost, GoTo
    <2>2. \A q \in Procs : pc[q] # "killed_inside" /\ (q # p => pc[q] # "post")
      BY <1>0, <2>1 DEF MutualExclusion, Holds, Inside, Procs
    <2>3. Len(output) = i["parent"] + i["child"] + 1
      BY <1>0, <2>1, <2>2 DEF LinesInv
    <2> QED BY <1>0, <2>2, <2>3 DEF TypeOK, SemPost, GoTo, Procs
  <1>7. PrivateInv'
    BY <1>0 DEF TypeOK, PrivateInv, SemPost, GoTo
  <1>8. Serial'
    BY <1>0 DEF Serial, SemPost
  <1> QED BY <1>1, <1>2, <1>3, <1>4, <1>5, <1>6, <1>7, <1>8 DEF IInv

\* A process leaves the loop after N rounds.
LEMMA LoopEndsInv ==
  ASSUME IInv, NEW p \in Procs, LoopEnds(p)
  PROVE  IInv'
  <1>0. TypeOK /\ MutualExclusion /\ ForkingInv /\ RoundInv
        /\ SharedInv /\ LinesInv /\ PrivateInv /\ Serial
    BY DEF IInv
  <1>1. TypeOK'
    BY <1>0 DEF TypeOK, LoopEnds, Finished, GoTo
  <1>2. MutualExclusion'
    BY <1>0 DEF MutualExclusion, Holds, Inside, LoopEnds, Finished, GoTo
  <1>3. ForkingInv'
    BY <1>0 DEF ForkingInv, LoopEnds, Finished, GoTo
  <1>4. RoundInv'
    BY <1>0, CounterOK DEF TypeOK, RoundInv, Inside, LoopEnds, Finished, GoTo
  <1>5. SharedInv'
    BY <1>0 DEF SharedInv, LoopEnds, Finished, GoTo
  <1>6. LinesInv'
    BY <1>0 DEF LinesInv, LoopEnds, Finished, GoTo
  <1>7. PrivateInv'
    BY <1>0 DEF PrivateInv, LoopEnds, Finished, GoTo
  <1>8. Serial'
    BY <1>0 DEF Serial, LoopEnds, Finished
  <1> QED BY <1>1, <1>2, <1>3, <1>4, <1>5, <1>6, <1>7, <1>8 DEF IInv

\* A kill leaves the memory, and a semaphore held, as they are.
LEMMA KillInv ==
  ASSUME IInv, NEW p \in Procs, Kill(p)
  PROVE  IInv'
  <1>0. TypeOK /\ MutualExclusion /\ ForkingInv /\ RoundInv
        /\ SharedInv /\ LinesInv /\ PrivateInv /\ Serial
    BY DEF IInv
  <1>1. TypeOK'
    BY <1>0 DEF TypeOK, Kill
  <1>2. MutualExclusion'
    BY <1>0 DEF MutualExclusion, Holds, Inside, Gone, Kill
  <1>3. ForkingInv'
    BY <1>0 DEF ForkingInv, Kill
  <1>4. RoundInv'
    BY <1>0 DEF RoundInv, Inside, Kill
  <1>5. SharedInv'
    BY <1>0 DEF SharedInv, Inside, Gone, Kill
  <1>6. LinesInv'
    BY <1>0 DEF LinesInv, Inside, Gone, Kill
  <1>7. PrivateInv'
    BY <1>0 DEF PrivateInv, Kill
  <1>8. Serial'
    BY <1>0 DEF Serial, Kill
  <1> QED BY <1>1, <1>2, <1>3, <1>4, <1>5, <1>6, <1>7, <1>8 DEF IInv

\* The parent ends after the child.
LEMMA ReapInv ==
  ASSUME IInv, Reap
  PROVE  IInv'
  <1>0. TypeOK /\ MutualExclusion /\ ForkingInv /\ RoundInv
        /\ SharedInv /\ LinesInv /\ PrivateInv /\ Serial
    BY DEF IInv
  <1>1. TypeOK'
    BY <1>0 DEF TypeOK, Reap, Waitable, GoTo
  <1>2. MutualExclusion'
    BY <1>0 DEF MutualExclusion, Holds, Inside, Reap, Waitable, GoTo
  <1>3. ForkingInv'
    BY <1>0 DEF ForkingInv, Reap, Waitable, GoTo
  <1>4. RoundInv'
    BY <1>0 DEF RoundInv, Inside, Reap, Waitable, GoTo
  <1>5. SharedInv'
    BY <1>0 DEF SharedInv, Reap, Waitable, GoTo
  <1>6. LinesInv'
    BY <1>0 DEF LinesInv, Reap, Waitable, GoTo
  <1>7. PrivateInv'
    BY <1>0 DEF PrivateInv, Reap, Waitable, GoTo
  <1>8. Serial'
    BY <1>0 DEF Serial, Reap, Waitable
  <1> QED BY <1>1, <1>2, <1>3, <1>4, <1>5, <1>6, <1>7, <1>8 DEF IInv

LEMMA NextInv == IInv /\ [Next]_vars => IInv'
  <1> SUFFICES ASSUME IInv, [Next]_vars PROVE IInv'
    OBVIOUS
  <1>1. CASE Fork \/ ForkFails \/ Reap
    BY <1>1, ForkInv, ForkFailsInv, ReapInv
  <1>2. ASSUME NEW p \in Procs, Run(p)
        PROVE  IInv'
    BY <1>2, SemWaitInv, LoadInv, StoreInv, WriteInv, SemPostInv, LoopEndsInv
       DEF Run
  <1>3. ASSUME NEW p \in Procs, Kill(p)
        PROVE  IInv'
    BY <1>3, KillInv
  <1>4. CASE UNCHANGED vars
    BY <1>4 DEF vars, IInv, TypeOK, MutualExclusion, ForkingInv, RoundInv,
                SharedInv, LinesInv, PrivateInv, Serial, Holds, Inside
  <1> QED BY <1>1, <1>2, <1>3, <1>4 DEF Next

LEMMA CounterInvariant == Spec => []IInv
  BY InitInv, NextInv, PTL DEF Spec

-----------------------------------------------------------------------------
\* Every variable keeps its type, and the counter never overflows.
THEOREM TypeCorrect == Spec => []TypeOK
  <1>1. IInv => TypeOK
    BY DEF IInv
  <1> QED BY <1>1, CounterInvariant, PTL

\* The two processes never hold the semaphore both, whoever is killed where.
THEOREM Excludes == Spec => []MutualExclusion
  <1>1. IInv => MutualExclusion
    BY DEF IInv
  <1> QED BY <1>1, CounterInvariant, PTL

\* The values printed are 0, 1, 2, ... without a gap, whoever is killed where.
THEOREM PrintsInOrder == Spec => []Serial
  <1>1. IInv => Serial
    BY DEF IInv
  <1> QED BY <1>1, CounterInvariant, PTL

\* Two processes that end by themselves have counted every round of both.
THEOREM CountsAll == Spec => []AllCounted
  <1>1. IInv => AllCounted
    BY CounterOK DEF IInv, AllCounted, TypeOK, RoundInv, SharedInv, LinesInv, Procs
  <1> QED BY <1>1, CounterInvariant, PTL

\* The shared counter implements the atomic one: each Write is its step, and
\* all the rest is invisible to it.
THEOREM Refines == Spec => ImplementsAtomic
  <1>1. Init => Atomic!Init
    BY DEF Init, Atomic!Init, SharedOutput
  <1>2. IInv /\ [Next]_vars => [Atomic!Next]_SharedOutput
    <2> SUFFICES ASSUME IInv, [Next]_vars
                 PROVE  [Atomic!Next]_SharedOutput
      OBVIOUS
    <2>1. ASSUME NEW p \in Procs, Write(p), shared
          PROVE  Atomic!Next
      <3>1. reg[p] = Len(output)
        BY <2>1 DEF IInv, SharedInv, Write, Printed, GoTo
      <3> QED BY <2>1, <3>1 DEF Write, Printed, SharedOutput, Atomic!Next, Atomic!Count
    <2>2. ASSUME NEW p \in Procs, Write(p), ~shared
          PROVE  UNCHANGED SharedOutput
      BY <2>2 DEF Write, Printed, SharedOutput
    <2>3. CASE Fork \/ ForkFails \/ Reap
      BY <2>3 DEF Fork, ForkFails, Reap, Waitable, SharedOutput
    <2>4. ASSUME NEW p \in Procs, (Run(p) /\ ~Write(p)) \/ Kill(p)
          PROVE  UNCHANGED SharedOutput
      BY <2>4 DEF Run, SemWait, GoesOn, Available, Load, Store, SemPost, LoopEnds, Finished, Kill, SharedOutput
    <2>5. CASE UNCHANGED vars
      BY <2>5 DEF vars, SharedOutput
    <2> QED BY <2>1, <2>2, <2>3, <2>4, <2>5 DEF Next
  <1> QED BY <1>1, <1>2, CounterInvariant, PTL DEF Spec, Atomic!Spec, ImplementsAtomic

-----------------------------------------------------------------------------
(* The naive program. *)

\* Without shared memory, who is still in its loop has printed a line in each
\* of its rounds.
AloneInv ==
  ~shared => \A p \in Procs : pc[p] \notin Gone =>
    PrintedBy(p, Len(output)) = i[p] + (IF pc[p] = "post" THEN 1 ELSE 0)

\* A line more is one of one process; those before it are as they were.
LEMMA PrintsOneMore ==
  ASSUME NEW p \in Procs, NEW v, output \in Seq(Procs \X Nat),
         output' = Append(output, <<p, v>>)
  PROVE  /\ \A q, k : k \in 0..Len(output) => PrintedBy(q, k)' = PrintedBy(q, k)
         /\ PrintedBy(p, Len(output))' = PrintedBy(p, Len(output)) + 1
         /\ \A q \in Procs \ {p} : PrintedBy(q, Len(output))' = PrintedBy(q, Len(output))
<1> DEFINE n == Len(output)
           By(o, q, k) == {j \in 1..k : o[j][1] = q}
<1>1. /\ n \in Nat /\ Len(output') = n + 1 /\ output'[n + 1] = <<p, v>>
      /\ \A j \in 1..n : output'[j] = output[j]
  OBVIOUS
<1>2. \A q, k : k \in 0..n => By(output', q, k) = By(output, q, k)
  BY <1>1
<1>3. \A q : IsFiniteSet(By(output, q, n)) /\ Cardinality(By(output, q, n)) \in Nat
  <2>1. \A q : By(output, q, n) \subseteq 1..n
    OBVIOUS
  <2>2. IsFiniteSet(1..n)
    BY <1>1, FS_Interval
  <2> QED BY <2>1, <2>2, FS_Subset, FS_CardinalityType
<1>4. By(output', p, n + 1) = By(output, p, n) \cup {n + 1}
  <2>1. (n + 1) \in 1..(n + 1) /\ output'[n + 1][1] = p
    BY <1>1
  <2>2. \A j \in 1..(n + 1) : j = n + 1 \/ j \in 1..n
    BY <1>1
  <2> QED BY <1>1, <2>1, <2>2
<1>5. \A q : q # p => By(output', q, n + 1) = By(output, q, n)
  <2>1. output'[n + 1][1] = p
    BY <1>1
  <2> QED BY <1>1, <2>1
<1>6. n + 1 \notin By(output, p, n)
  BY <1>1
<1> HIDE DEF By
<1>7. Cardinality(By(output', p, n + 1)) = Cardinality(By(output, p, n)) + 1
  BY <1>3, <1>4, <1>6, FS_AddElement
<1> QED BY <1>1, <1>2, <1>5, <1>7 DEF PrintedBy, By

LEMMA AloneInit == Init => AloneInv /\ CountsAlone
<1> SUFFICES ASSUME Init PROVE AloneInv /\ CountsAlone
  OBVIOUS
<1>1. output = <<>> /\ Len(output) = 0 /\ i = [p \in Procs |-> 0]
      /\ \A p \in Procs : pc[p] # "post"
  BY DEF Init
<1>2. \A p : PrintedBy(p, Len(output)) = 0
  <2>1. \A p : {j \in 1..Len(output) : output[j][1] = p} = {}
    BY <1>1
  <2> QED BY <2>1, FS_EmptySet DEF PrintedBy
<1> QED BY <1>1, <1>2 DEF AloneInv, CountsAlone

LEMMA AloneNext == IInv /\ AloneInv /\ CountsAlone /\ [Next]_vars => AloneInv' /\ CountsAlone'
<1> SUFFICES ASSUME IInv, AloneInv, CountsAlone, [Next]_vars
             PROVE  AloneInv' /\ CountsAlone'
  OBVIOUS
<1>0. /\ TypeOK /\ PrivateInv
      /\ \A p \in Procs : i[p] \in Nat
  BY DEF IInv, TypeOK
<1>1. ASSUME UNCHANGED <<shared, output, i>>,
             \A p \in Procs : pc'[p] \notin Gone =>
               pc[p] \notin Gone /\ (pc'[p] = "post" <=> pc[p] = "post")
      PROVE  AloneInv' /\ CountsAlone'
  BY <1>1 DEF AloneInv, CountsAlone, PrintedBy
<1>2. CASE Fork
  BY <1>0, <1>1, <1>2 DEF Fork, Gone, Procs, TypeOK, IInv, ForkingInv
<1>3. CASE ForkFails \/ Reap
  BY <1>0, <1>1, <1>3 DEF ForkFails, Reap, GoTo, Gone, Procs, TypeOK
<1>4. ASSUME NEW p \in Procs, SemWait(p) \/ Load(p) \/ Store(p) \/ LoopEnds(p) \/ Kill(p)
      PROVE  AloneInv' /\ CountsAlone'
  <2>1. /\ UNCHANGED <<shared, output, i>>
        /\ \A q \in Procs : pc'[q] \notin Gone =>
             pc[q] \notin Gone /\ (pc'[q] = "post" <=> pc[q] = "post")
    BY <1>0, <1>4 DEF SemWait, Load, Store, LoopEnds, Kill, GoTo, Gone, Procs, TypeOK, Inside
  <2> QED BY <1>1, <2>1
<1>5. ASSUME NEW p \in Procs, Write(p)
      PROVE  AloneInv' /\ CountsAlone'
  <2>1. /\ pc[p] = "write" /\ pc' = [pc EXCEPT ![p] = "post"]
        /\ output' = Append(output, <<p, reg[p]>>) /\ UNCHANGED <<shared, i>>
    BY <1>5 DEF Write, GoTo, Printed
  <2>2. output \in Seq(Procs \X Nat)
    BY <1>0 DEF TypeOK
  <2>3. /\ \A q, k : k \in 0..Len(output) => PrintedBy(q, k)' = PrintedBy(q, k)
        /\ PrintedBy(p, Len(output))' = PrintedBy(p, Len(output)) + 1
        /\ \A q \in Procs \ {p} : PrintedBy(q, Len(output))' = PrintedBy(q, Len(output))
    BY <2>1, <2>2, PrintsOneMore
  <2>4. ~shared => PrintedBy(p, Len(output)) = i[p] /\ reg[p] = i[p]
    BY <1>0, <2>1 DEF AloneInv, PrivateInv, Gone
  <2>5. AloneInv'
    BY <1>0, <2>1, <2>3, <2>4 DEF AloneInv, TypeOK
  <2>6. CountsAlone'
    <3>1. SUFFICES ASSUME ~shared, NEW k \in 1..Len(output')
                   PROVE  output'[k][2] = PrintedBy(output[k][1], k - 1)'
      BY <2>1 DEF CountsAlone
    <3>2. /\ Len(output') = Len(output) + 1 /\ Len(output) \in Nat
          /\ output'[Len(output) + 1] = <<p, reg[p]>>
          /\ \A j \in 1..Len(output) : output'[j] = output[j]
      BY <2>1, <2>2
    <3>3. PICK q : q = output'[k][1]
      OBVIOUS
    <3>4. output'[k][2] = PrintedBy(q, k - 1)
      <4>1. CASE k = Len(output) + 1
        BY <2>4, <3>1, <3>2, <3>3, <4>1
      <4>2. CASE k \in 1..Len(output)
        BY <3>1, <3>2, <3>3, <4>2 DEF CountsAlone
      <4> QED BY <3>2, <4>1, <4>2
    <3>5. PrintedBy(q, k - 1)' = PrintedBy(q, k - 1)
      BY <2>3, <3>2
    <3> QED BY <3>3, <3>4, <3>5 DEF PrintedBy
  <2> QED BY <2>5, <2>6
<1>6. ASSUME NEW p \in Procs, SemPost(p)
      PROVE  AloneInv' /\ CountsAlone'
  <2>1. /\ pc[p] = "post" /\ pc' = [pc EXCEPT ![p] = "loop"]
        /\ i' = [i EXCEPT ![p] = @ + 1] /\ UNCHANGED <<shared, output>>
    BY <1>6 DEF SemPost, GoTo
  <2>2. \A q : PrintedBy(q, Len(output))' = PrintedBy(q, Len(output))
    BY <2>1 DEF PrintedBy
  <2>3. AloneInv'
    BY <1>0, <2>1, <2>2 DEF AloneInv, TypeOK, Gone
  <2>4. CountsAlone'
    BY <2>1 DEF CountsAlone, PrintedBy
  <2> QED BY <2>3, <2>4
<1>7. CASE UNCHANGED vars
  BY <1>1, <1>7 DEF vars
<1> QED BY <1>2, <1>3, <1>4, <1>5, <1>6, <1>7 DEF Next, Run

\* In the naive program each process prints 0, 1, 2, ... for itself, in
\* whichever order they hold the semaphore and whoever is killed where.
THEOREM CountsForItself == Spec => []CountsAlone
<1> QED BY AloneInit, AloneNext, InitInv, NextInv, PTL DEF Spec
=============================================================================
