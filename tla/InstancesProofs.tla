-------------------------- MODULE InstancesProofs --------------------------
(***************************************************************************)
(* Proofs about Instances, for any number of instances, files and rounds.  *)
(***************************************************************************)
EXTENDS Instances, FiniteSetTheorems, TLAPS

-----------------------------------------------------------------------------
(* The inductive invariant. *)

Early   == {"write", "sem_open", "sem_unlink", "sem_init", "fork"}
Inside  == {"load", "print", "post"}

\* An instance opens no semaphore but its own; only works_1 opens one, and only
\* the others initialise theirs.
OwnInv ==
  \A x \in Instance :
    /\ opened[x] \in {None, x}
    /\ at[x]["parent"] \in {"sem_open", "sem_unlink"} => prog[x] = "works_1"
    /\ at[x]["parent"] = "sem_init" => prog[x] # "works_1"

\* Before the fork there is no child, and nothing was printed.
PhaseInv(x) ==
  /\ at[x]["parent"] \in Early => at[x]["child"] = "unborn" /\ printed[x] = <<>>
  /\ at[x]["child"] \notin Early \cup {"waitpid"}

Mapped(x) == at[x]["parent"] \notin Gone \cup {"write"} \/ at[x]["child"] \notin Gone

\* Instances that are alive on one file are known to be disturbed.
AloneInv == \A x \in Instance : Mapped(x) /\ Rivals(x) # {} => x \in disturbed

\* The counter is what was printed, and nobody changes it from load to store.
CellInv(x) ==
  /\ count[Cell(x)] = Len(printed[x])
  /\ \A r \in Role : at[x][r] = "print" => reg[x][r] = count[Cell(x)]

\* The semaphore is free when nobody is inside, and one process at most is.
MutexInv(x) ==
  /\ at[x]["parent"] \notin {"write", "sem_open", "sem_init"} /\ Sem(x) # None =>
       \/ mutex[Sem(x)] = 1 /\ \A r \in Role : at[x][r] \notin Inside
       \/ mutex[Sem(x)] = 0 /\ \E r \in Role : at[x][r] \in Inside
  /\ \A q, r \in Role : at[x][q] \in Inside /\ at[x][r] \in Inside => q = r
  /\ (\E r \in Role : at[x][r] \in Inside) => Sem(x) # None

PrintedInv(x) == \A k \in 1..Len(printed[x]) : printed[x][k] = k - 1

Counted(x) ==
  /\ PhaseInv(x)
  /\ x \notin disturbed => PrintedInv(x)
  /\ x \notin disturbed /\ Mapped(x) => CellInv(x) /\ MutexInv(x)

CountInv == AloneInv /\ \A x \in Instance : Counted(x)

\* A process that is in a round has a round to do.
RoundInv == \A x \in Instance, r \in Role : at[x][r] \in Inside => left[x][r] > 0

BaseInv == TypeOK /\ OwnInv /\ NameHeld /\ RoundInv

-----------------------------------------------------------------------------
(* What the steps have in common. *)

\* What one process does to the places of all.
LEMMA GoesEffect ==
  ASSUME TypeOK, NEW x \in Instance, NEW r \in Role, NEW from, NEW to \in States,
         Goes(x, r, from, to)
  PROVE  /\ at' \in [Instance -> [Role -> States]]
         /\ at[x][r] = from /\ at'[x][r] = to
         /\ \A q \in Role \ {r} : at'[x][q] = at[x][q]
         /\ \A y \in Instance \ {x} : at'[y] = at[y]
  BY DEF Goes, TypeOK

\* Where an instance finds its counter and its semaphore.
LEMMA SemType ==
  ASSUME TypeOK, OwnInv, NEW x \in Instance
  PROVE  /\ Cell(x) \in Instance \cup Path
         /\ Sem(x) \in Instance \cup Path \cup {None}
         /\ Sem(x) \in {x, path[x], None}
         /\ None \notin Instance \cup Path
  BY InstancesOK DEF TypeOK, OwnInv, Cell, Sem

\* Writing over a semaphore forgets no other one.
LEMMA ForgetsType ==
  ASSUME TypeOK, NEW s \in Instance \cup Path
  PROVE  Forgets(s) \subseteq Instance \cup Path
  BY DEF TypeOK, Forgets

\* A step that leaves the set-up alone keeps what is known of the semaphores.
LEMMA SetupKept ==
  ASSUME BaseInv, NEW x \in Instance, NEW r \in Role, NEW from, NEW to \in States,
         Goes(x, r, from, to), UNCHANGED <<prog, name, opened>>,
         to \notin {"sem_open", "sem_unlink", "sem_init"}, from # "sem_unlink" \/ to = "killed",
         from # "killed"
  PROVE  OwnInv' /\ NameHeld'
<1>1. TypeOK /\ OwnInv /\ NameHeld
  BY DEF BaseInv
<1>2. /\ at[x][r] = from /\ at'[x][r] = to
      /\ \A q \in Role \ {r} : at'[x][q] = at[x][q]
      /\ \A y \in Instance \ {x} : at'[y] = at[y]
  BY <1>1, GoesEffect
<1>3. "parent" \in Role
  BY DEF Role
<1>4. OwnInv'
  BY <1>1, <1>2, <1>3 DEF OwnInv
<1>5. NameHeld'
  BY <1>1, <1>2, <1>3 DEF NameHeld, TypeOK
<1> QED BY <1>4, <1>5

\* A step that leaves the rounds to do alone keeps that there are some.
LEMMA RoundKept ==
  ASSUME BaseInv, NEW x \in Instance, NEW r \in Role, NEW from, NEW to \in States,
         Goes(x, r, from, to), UNCHANGED left, to \in Inside => left[x][r] > 0
  PROVE  RoundInv'
<1>1. TypeOK /\ RoundInv
  BY DEF BaseInv
<1>2. /\ at'[x][r] = to /\ \A q \in Role \ {r} : at'[x][q] = at[x][q]
      /\ \A y \in Instance \ {x} : at'[y] = at[y]
  BY <1>1, GoesEffect
<1> QED BY <1>1, <1>2 DEF RoundInv

-----------------------------------------------------------------------------
(* The steps keep the types, and what is known of the named semaphores. *)

LEMMA InitBase == Init => BaseInv
  BY InstancesOK DEF Init, BaseInv, TypeOK, OwnInv, NameHeld, RoundInv, Inside, States, Gone, Role

LEMMA SetupBase ==
  ASSUME BaseInv, NEW x \in Instance, SetUp(x)
  PROVE  BaseInv'
<1>0. TypeOK /\ OwnInv /\ NameHeld /\ RoundInv /\ "parent" \in Role
  BY DEF BaseInv, Role
<1>1. CASE Write(x)
  <2>1. PICK to \in {"sem_open", "sem_init"} :
           /\ Goes(x, "parent", "write", to)
           /\ to = "sem_open" <=> prog[x] = "works_1"
    BY <1>1 DEF Write
  <2>2. to \in States /\ to \notin Inside
    BY DEF States, Inside
  <2>3. /\ at' \in [Instance -> [Role -> States]]
        /\ at[x]["parent"] = "write" /\ at'[x]["parent"] = to
        /\ \A y \in Instance \ {x} : at'[y] = at[y]
    BY <1>0, <2>1, <2>2, GoesEffect
  <2>4. count' \in [Instance \cup Path -> Nat]
    BY <1>0, <1>1, SemType DEF Write, Cleared, TypeOK
  <2>5. /\ mutex' \in [Instance \cup Path -> Nat] /\ disturbed' \subseteq Instance
        /\ forgetful' \subseteq Instance \cup Path
    <3>1. path[x] \in Instance \cup Path
      BY <1>0 DEF TypeOK
    <3>2. forgetful' = Forgets(path[x]) \/ forgetful' = forgetful
      BY <1>1 DEF Write
    <3>3. forgetful' \subseteq Instance \cup Path
      BY <1>0, <3>1, <3>2, ForgetsType DEF TypeOK
    <3>4. mutex' \in [Instance \cup Path -> Nat] /\ disturbed' \subseteq Instance
      <4>1. UNCHANGED mutex \/ mutex' = [mutex EXCEPT ![path[x]] = 0]
        BY <1>1 DEF Write
      <4>2. Rivals(x) \subseteq Instance /\ disturbed \subseteq Instance
            /\ mutex \in [Instance \cup Path -> Nat]
        BY <1>0 DEF Rivals, TypeOK
      <4> QED BY <1>1, <4>1, <4>2 DEF Write
    <3> QED BY <3>3, <3>4
  <2>6. TypeOK'
    BY <1>0, <1>1, <2>3, <2>4, <2>5 DEF Write, TypeOK
  <2>7. OwnInv'
    BY <1>0, <1>1, <2>1, <2>3 DEF Write, OwnInv
  <2>8. NameHeld'
    BY <1>0, <1>1, <2>3 DEF Write, NameHeld, TypeOK
  <2>9. RoundInv'
    BY <1>0, <1>1, <2>1, <2>2, RoundKept DEF Write
  <2> QED BY <2>6, <2>7, <2>8, <2>9 DEF BaseInv
<1>2. CASE SemOpen(x)
  <2>1. Goes(x, "parent", "sem_open", "sem_unlink")
    BY <1>2 DEF SemOpen
  <2>2. "sem_unlink" \in States /\ "sem_unlink" \notin Inside
    BY DEF States, Inside
  <2>3. /\ at' \in [Instance -> [Role -> States]]
        /\ at[x]["parent"] = "sem_open" /\ at'[x]["parent"] = "sem_unlink"
        /\ \A y \in Instance \ {x} : at'[y] = at[y]
    BY <1>0, <2>1, <2>2, GoesEffect
  <2>4. prog[x] = "works_1"
    BY <1>0, <2>3 DEF OwnInv
  <2>5. /\ name' \in Instance \cup {None} /\ mutex' \in [Instance \cup Path -> Nat]
        /\ opened' \in [Instance -> Instance \cup {None}]
        /\ opened'[x] \in {None, x}
        /\ \A y \in Instance \ {x} : opened'[y] = opened[y]
    <3>1. CASE name = None
      <4>1. name' = x /\ opened' = [opened EXCEPT ![x] = x] /\ mutex' = [mutex EXCEPT ![x] = 1]
        BY <1>2, <3>1 DEF SemOpen
      <4> QED BY <1>0, <4>1 DEF TypeOK
    <3>2. CASE name # None
      <4>1. name' = name /\ opened' = [opened EXCEPT ![x] = None] /\ mutex' = mutex
        BY <1>2, <3>2 DEF SemOpen
      <4> QED BY <1>0, <4>1 DEF TypeOK
    <3> QED BY <3>1, <3>2
  <2>6. TypeOK'
    BY <1>0, <1>2, <2>3, <2>4, <2>5 DEF SemOpen, TypeOK
  <2>7. OwnInv'
    BY <1>0, <1>2, <2>3, <2>4, <2>5 DEF SemOpen, OwnInv
  <2>8. NameHeld'
    BY <1>0, <1>2, <2>3, <2>5 DEF SemOpen, NameHeld, TypeOK
  <2>9. RoundInv'
    BY <1>0, <1>2, <2>1, <2>2, RoundKept DEF SemOpen
  <2> QED BY <2>6, <2>7, <2>8, <2>9 DEF BaseInv
<1>3. CASE SemUnlink(x)
  <2>1. Goes(x, "parent", "sem_unlink", "fork")
    BY <1>3 DEF SemUnlink
  <2>2. "fork" \in States /\ "fork" \notin Inside
    BY DEF States, Inside
  <2>3. /\ at' \in [Instance -> [Role -> States]]
        /\ at'[x]["parent"] = "fork"
        /\ \A y \in Instance \ {x} : at'[y] = at[y]
    BY <1>0, <2>1, <2>2, GoesEffect
  <2>4. TypeOK'
    BY <1>0, <1>3, <2>3 DEF SemUnlink, Unlinked, TypeOK
  <2>5. OwnInv' /\ NameHeld'
    BY <1>0, <1>3, <2>3 DEF SemUnlink, Unlinked, OwnInv, NameHeld
  <2>6. RoundInv'
    BY <1>0, <1>3, <2>1, <2>2, RoundKept DEF SemUnlink
  <2> QED BY <2>4, <2>5, <2>6 DEF BaseInv
<1>4. CASE SemInit(x)
  <2>1. /\ Goes(x, "parent", "sem_init", "fork")
        /\ UNCHANGED <<prog, path, name, opened, disturbed, left>>
    BY <1>4 DEF SemInit
  <2>2. "fork" \in States /\ "fork" \notin Inside
    BY DEF States, Inside
  <2>3. at' \in [Instance -> [Role -> States]]
    BY <1>0, <2>1, <2>2, GoesEffect
  <2>4. mutex' \in [Instance \cup Path -> Nat]
    BY <1>0, <1>4 DEF SemInit, InitialValue, TypeOK
  <2>5. Sem(x) \in Instance \cup Path
    BY <1>0, <2>1 DEF Goes, OwnInv, Sem, TypeOK
  <2>6. forgetful' \subseteq Instance \cup Path
    BY <1>0, <1>4, <2>5, ForgetsType DEF SemInit
  <2>7. TypeOK'
    BY <1>0, <1>4, <2>3, <2>4, <2>6 DEF SemInit, TypeOK
  <2>8. OwnInv' /\ NameHeld'
    BY <1>0, <2>1, <2>2, SetupKept
  <2>9. RoundInv'
    BY <1>0, <2>1, <2>2, RoundKept
  <2> QED BY <2>7, <2>8, <2>9 DEF BaseInv
<1>5. CASE Fork(x)
  <2>1. /\ at[x]["parent"] = "fork"
        /\ at' = [at EXCEPT ![x] = [r \in Role |-> "loop"]]
        /\ UNCHANGED setup /\ UNCHANGED <<mutex, count, left, reg, printed>>
    BY <1>5 DEF Fork
  <2>2. "loop" \in States /\ "loop" \notin Inside
    BY DEF States, Inside
  <2>3. TypeOK'
    BY <1>0, <2>1, <2>2 DEF setup, TypeOK
  <2>4. OwnInv' /\ NameHeld'
    BY <1>0, <2>1 DEF setup, OwnInv, NameHeld, TypeOK
  <2>5. RoundInv'
    BY <1>0, <2>1, <2>2 DEF RoundInv, TypeOK
  <2> QED BY <2>3, <2>4, <2>5 DEF BaseInv
<1> QED BY <1>1, <1>2, <1>3, <1>4, <1>5 DEF SetUp

\* The steps that change nothing but a place.
LEMMA QuietBase ==
  ASSUME BaseInv, NEW x \in Instance, NEW r \in Role, NEW from, NEW to \in States,
         Goes(x, r, from, to), UNCHANGED setup, UNCHANGED <<mutex, count, left, reg, printed>>,
         to \notin Inside \cup {"sem_open", "sem_unlink", "sem_init"},
         from # "sem_unlink" \/ to = "killed", from # "killed"
  PROVE  BaseInv'
<1>0. TypeOK
  BY DEF BaseInv
<1>1. at' \in [Instance -> [Role -> States]]
  BY <1>0, GoesEffect
<1>2. TypeOK'
  BY <1>0, <1>1 DEF TypeOK, setup
<1>3. UNCHANGED <<prog, name, opened>>
  BY DEF setup
<1>4. OwnInv' /\ NameHeld'
  BY <1>3, SetupKept
<1>5. RoundInv'
  BY RoundKept
<1> QED BY <1>2, <1>4, <1>5 DEF BaseInv

LEMMA RoundBase ==
  ASSUME BaseInv, NEW x \in Instance, NEW r \in Role, Round(x, r)
  PROVE  BaseInv'
<1>0. TypeOK /\ OwnInv /\ RoundInv
  BY DEF BaseInv
<1>1. CASE WaitCrashes(x, r)
  BY <1>1, QuietBase DEF WaitCrashes, States, Gone, Inside
<1>2. CASE Wait(x, r)
  <2>1. Goes(x, r, "loop", "load") /\ UNCHANGED setup /\ left' = left /\ left[x][r] > 0
    BY <1>2 DEF Wait, GoesOn
  <2>2. "load" \in States
    BY DEF States
  <2>3. at' \in [Instance -> [Role -> States]]
    BY <1>0, <2>1, <2>2, GoesEffect
  <2>4. mutex' \in [Instance \cup Path -> Nat]
    <3>1. mutex' = [mutex EXCEPT ![Sem(x)] = mutex[Sem(x)] - 1] /\ mutex[Sem(x)] > 0
          /\ Sem(x) # None
      BY <1>2 DEF Wait
    <3>2. mutex \in [Instance \cup Path -> Nat] /\ Sem(x) \in Instance \cup Path
      BY <1>0, <3>1, SemType DEF TypeOK
    <3>3. mutex[Sem(x)] - 1 \in Nat
      BY <3>1, <3>2
    <3> QED BY <3>1, <3>2, <3>3
  <2>5. TypeOK'
    BY <1>0, <1>2, <2>3, <2>4 DEF Wait, setup, TypeOK
  <2>6. OwnInv' /\ NameHeld'
    BY <2>1, <2>2, SetupKept DEF setup
  <2>7. RoundInv'
    BY <2>1, <2>2, RoundKept
  <2> QED BY <2>5, <2>6, <2>7 DEF BaseInv
<1>3. CASE Load(x, r)
  <2>1. Goes(x, r, "load", "print") /\ UNCHANGED setup /\ left' = left
    BY <1>3 DEF Load
  <2>2. "print" \in States
    BY DEF States
  <2>3. at' \in [Instance -> [Role -> States]] /\ left[x][r] > 0
    BY <1>0, <2>1, <2>2, GoesEffect DEF RoundInv, Inside
  <2>4. reg' \in [Instance -> [Role -> Nat]]
    BY <1>0, <1>3, SemType DEF Load, TypeOK
  <2>5. TypeOK'
    BY <1>0, <1>3, <2>3, <2>4 DEF Load, setup, TypeOK
  <2>6. OwnInv' /\ NameHeld'
    BY <2>1, <2>2, SetupKept DEF setup
  <2>7. RoundInv'
    BY <2>1, <2>2, <2>3, RoundKept
  <2> QED BY <2>5, <2>6, <2>7 DEF BaseInv
<1>4. CASE PrintCount(x, r)
  <2>1. Goes(x, r, "print", "post") /\ UNCHANGED setup /\ left' = left
    BY <1>4 DEF PrintCount
  <2>2. "post" \in States
    BY DEF States
  <2>3. at' \in [Instance -> [Role -> States]] /\ left[x][r] > 0
    BY <1>0, <2>1, <2>2, GoesEffect DEF RoundInv, Inside
  <2>4. reg[x][r] \in Nat
    BY <1>0 DEF TypeOK
  <2>5. count' \in [Instance \cup Path -> Nat]
    <3>1. count' = [count EXCEPT ![Cell(x)] = reg[x][r] + 1] /\ reg[x][r] + 1 \in Nat
      BY <1>4, <2>4 DEF PrintCount
    <3> QED BY <1>0, <3>1 DEF TypeOK
  <2>6. Append(printed[x], reg[x][r]) \in Seq(Nat)
    BY <1>0, <2>4 DEF TypeOK
  <2>7. printed' \in [Instance -> Seq(Nat)]
    BY <1>0, <1>4, <2>6 DEF PrintCount, TypeOK
  <2>8. TypeOK'
    BY <1>0, <1>4, <2>3, <2>5, <2>7 DEF PrintCount, setup, TypeOK
  <2>9. OwnInv' /\ NameHeld'
    BY <2>1, <2>2, SetupKept DEF setup
  <2>10. RoundInv'
    BY <2>1, <2>2, <2>3, RoundKept
  <2> QED BY <2>8, <2>9, <2>10 DEF BaseInv
<1>5. CASE Post(x, r)
  <2>1. Goes(x, r, "post", "loop") /\ UNCHANGED setup
    BY <1>5 DEF Post
  <2>2. "loop" \in States /\ "loop" \notin Inside
    BY DEF States, Inside
  <2>3. /\ at' \in [Instance -> [Role -> States]] /\ at[x][r] = "post" /\ at'[x][r] = "loop"
        /\ \A q \in Role \ {r} : at'[x][q] = at[x][q]
        /\ \A y \in Instance \ {x} : at'[y] = at[y]
    BY <1>0, <2>1, <2>2, GoesEffect
  <2>4. left[x][r] \in 0..N /\ left[x][r] > 0 /\ N \in Nat
    BY <1>0, <2>3, InstancesOK DEF TypeOK, RoundInv, Inside
  <2>5. left' = [left EXCEPT ![x][r] = @ - 1] /\ left[x][r] - 1 \in 0..N
    BY <1>5, <2>4 DEF Post
  <2>6. left' \in [Instance -> [Role -> 0..N]]
    BY <1>0, <2>5 DEF TypeOK
  <2>7. mutex' \in [Instance \cup Path -> Nat]
    <3>1. mutex' = [mutex EXCEPT ![Sem(x)] = mutex[Sem(x)] + 1]
      BY <1>5 DEF Post
    <3>2. mutex \in [Instance \cup Path -> Nat]
      BY <1>0 DEF TypeOK
    <3>3. \A s \in Instance \cup Path : mutex[s] + 1 \in Nat
      BY <3>2
    <3> QED BY <3>1, <3>2, <3>3
  <2>8. TypeOK'
    BY <1>0, <1>5, <2>3, <2>6, <2>7 DEF Post, setup, TypeOK
  <2>9. OwnInv' /\ NameHeld'
    BY <2>1, <2>2, SetupKept DEF setup
  <2>10. RoundInv'
    BY <1>0, <2>2, <2>3, <2>5 DEF RoundInv, TypeOK
  <2> QED BY <2>8, <2>9, <2>10 DEF BaseInv
<1>6. CASE LoopEnds(x, r)
  BY <1>6, QuietBase DEF LoopEnds, States, Gone, Inside
<1> QED BY <1>1, <1>2, <1>3, <1>4, <1>5, <1>6 DEF Round

LEMMA StepBase == BaseInv /\ [Next]_vars => BaseInv'
<1> SUFFICES ASSUME BaseInv, [Next]_vars PROVE BaseInv'
  OBVIOUS
<1>1. CASE UNCHANGED vars
  BY <1>1 DEF vars, BaseInv, TypeOK, OwnInv, NameHeld, RoundInv
<1>2. ASSUME NEW x \in Instance, SetUp(x) PROVE BaseInv'
  BY <1>2, SetupBase
<1>3. ASSUME NEW x \in Instance, ForkFails(x) PROVE BaseInv'
  BY <1>3, QuietBase DEF ForkFails, Role, States, Inside
<1>4. ASSUME NEW x \in Instance, Killed(x) PROVE BaseInv'
  <2>1. UNCHANGED setup /\ UNCHANGED <<mutex, count, left, reg, printed>>
    BY <1>4 DEF Killed
  <2>2. ASSUME NEW from \in Early, Goes(x, "parent", from, "killed") PROVE BaseInv'
    <3>1. "parent" \in Role /\ "killed" \in States /\ from # "killed"
          /\ "killed" \notin Inside \cup {"sem_open", "sem_unlink", "sem_init"}
      BY DEF Role, States, Gone, Inside, Early
    <3> QED BY <2>1, <2>2, <3>1, QuietBase
  <2>3. CASE Goes(x, "parent", "sem_init", "killed_cleared")
    <3>1. "parent" \in Role /\ "killed_cleared" \in States
          /\ "killed_cleared" \notin Inside \cup {"sem_open", "sem_unlink", "sem_init"}
      BY DEF Role, States, Gone, Inside
    <3> QED BY <2>1, <2>3, <3>1, QuietBase
  <2> QED BY <1>4, <2>2, <2>3 DEF Killed, Early
<1>5. ASSUME NEW x \in Instance, Waitpid(x) PROVE BaseInv'
  BY <1>5, QuietBase DEF Waitpid, Role, States, Gone, Inside
<1>6. ASSUME NEW x \in Instance, NEW r \in Role, Round(x, r) PROVE BaseInv'
  BY <1>6, RoundBase
<1> QED
  BY <1>1, <1>2, <1>3, <1>4, <1>5, <1>6 DEF Next

LEMMA AlwaysBase == Spec => []BaseInv
  BY InitBase, StepBase, PTL DEF Spec

-----------------------------------------------------------------------------
(* What is always true. *)

\* Every variable has its type, and only works_1 has a named semaphore.
THEOREM TypeCorrect == Spec => []TypeOK
<1>1. BaseInv => TypeOK
  BY DEF BaseInv
<1> QED BY <1>1, AlwaysBase, PTL

\* sem_open() finds the name taken only while the instance that made it is about
\* to remove it, or was killed just then.
THEOREM NameIsHeld == Spec => []NameHeld
<1>1. BaseInv => NameHeld
  BY DEF BaseInv
<1> QED BY <1>1, AlwaysBase, PTL

-----------------------------------------------------------------------------
(* What a step of one instance leaves to the others. *)

Acts(x) == SetUp(x) \/ ForkFails(x) \/ Killed(x) \/ Waitpid(x) \/ \E r \in Role : Round(x, r)

\* The semaphores that are an instance's own.
Own(x) == {x} \cup (IF prog[x] = "works_2" THEN {path[x]} ELSE {})

\* Only the step's own counter and semaphores change, and its own places.
Frame(x) ==
  /\ UNCHANGED <<prog, path>> /\ disturbed \subseteq disturbed'
  /\ \A y \in Instance \ {x} : /\ at'[y] = at[y] /\ reg'[y] = reg[y]
                               /\ printed'[y] = printed[y] /\ opened'[y] = opened[y]
  /\ \A c \in (Instance \cup Path) \ {Cell(x)} : count'[c] = count[c]
  /\ \A s \in (Instance \cup Path) \ Own(x) : mutex'[s] = mutex[s]

\* Two instances that have no counter and no semaphore in common.
Apart(x, y) == prog[x] = "works_3" \/ prog[y] = "works_3" \/ path[x] # path[y]

LEMMA ApartCells ==
  ASSUME TypeOK, OwnInv, NEW x \in Instance, NEW y \in Instance \ {x}, Apart(x, y)
  PROVE  /\ Cell(y) \in (Instance \cup Path) \ {Cell(x)}
         /\ Sem(y) # None => Sem(y) \in (Instance \cup Path) \ Own(x)
<1>1. /\ path[x] \in Path /\ path[y] \in Path /\ Instance \cap Path = {}
      /\ prog[x] \in {"works_1", "works_2", "works_3"}
      /\ prog[y] \in {"works_1", "works_2", "works_3"}
      /\ opened[y] \in {None, y}
  BY InstancesOK DEF TypeOK, OwnInv
<1>2. Cell(y) \in (Instance \cup Path) \ {Cell(x)}
  BY <1>1 DEF Apart, Cell
<1>3. Sem(y) # None => Sem(y) \in (Instance \cup Path) \ Own(x)
  BY <1>1 DEF Apart, Sem, Own
<1> QED BY <1>2, <1>3

LEMMA SemOwn ==
  ASSUME TypeOK, OwnInv, NEW x \in Instance
  PROVE  Sem(x) # None => Sem(x) \in Own(x)
  BY DEF TypeOK, OwnInv, Sem, Own

\* Instances on one file are apart unless they are disturbed.
LEMMA Undisturbed ==
  ASSUME AloneInv, NEW x \in Instance, NEW y \in Instance \ {x},
         Mapped(x), Mapped(y), y \notin disturbed
  PROVE  Apart(x, y)
<1>1. Rivals(y) = {}
  BY DEF AloneInv
<1>2. x \in Instance \ {y} /\ x \notin Rivals(y)
  BY <1>1
<1> QED BY <1>2 DEF Rivals, Mapped, Apart

\* The steps keep to their own, and an instance is mapped, or maps its file, when
\* it changes a counter or a semaphore.
LEMMA StepFrame ==
  ASSUME BaseInv, CountInv, NEW x \in Instance, Acts(x)
  PROVE  /\ Frame(x)
         /\ \/ Write(x)
            \/ disturbed' = disturbed /\ Mapped(x)
            \/ UNCHANGED <<count, mutex, disturbed>> /\ ~Mapped(x)'
<1>0. /\ TypeOK /\ OwnInv /\ PhaseInv(x) /\ "parent" \in Role
      /\ Sem(x) # None => Sem(x) \in Own(x)
      /\ Own(x) \subseteq Instance \cup Path
      /\ None \notin Instance \cup Path /\ Cell(x) \in Instance \cup Path
  <2>1. TypeOK /\ OwnInv /\ PhaseInv(x) /\ "parent" \in Role
    BY DEF BaseInv, CountInv, Counted, Role
  <2>2. Own(x) \subseteq Instance \cup Path
    BY <2>1 DEF Own, TypeOK
  <2> QED BY <2>1, <2>2, SemOwn, SemType
<1>1. CASE Write(x)
  <2>1. at' = [at EXCEPT ![x]["parent"] = at'[x]["parent"]]
    BY <1>0, <1>1 DEF Write, Goes, TypeOK
  <2>2. count' = [count EXCEPT ![Cell(x)] = 0]
    BY <1>1 DEF Write, Cleared
  <2>3. \A s \in (Instance \cup Path) \ Own(x) : mutex'[s] = mutex[s]
    BY <1>0, <1>1 DEF Write, Own, TypeOK
  <2> QED BY <1>0, <1>1, <2>1, <2>2, <2>3 DEF Write, Frame, TypeOK
<1>2. CASE SemOpen(x)
  <2>1. /\ at[x]["parent"] = "sem_open" /\ at' = [at EXCEPT ![x]["parent"] = "sem_unlink"]
        /\ UNCHANGED <<prog, path, count, reg, printed, disturbed>>
    BY <1>2 DEF SemOpen, Goes
  <2>2. \A s \in (Instance \cup Path) \ Own(x) : mutex'[s] = mutex[s]
    BY <1>0, <1>2 DEF SemOpen, Own, TypeOK
  <2>3. \A y \in Instance \ {x} : opened'[y] = opened[y]
    BY <1>0, <1>2 DEF SemOpen, TypeOK
  <2>4. Frame(x)
    BY <1>0, <2>1, <2>2, <2>3 DEF Frame, TypeOK
  <2> QED BY <2>1, <2>4 DEF Mapped, Gone
<1>3. CASE SemUnlink(x)
  BY <1>0, <1>3 DEF SemUnlink, Goes, Frame, TypeOK, Mapped, Gone
<1>4. CASE SemInit(x)
  <2>1. /\ at[x]["parent"] = "sem_init" /\ at' = [at EXCEPT ![x]["parent"] = "fork"]
        /\ UNCHANGED <<prog, path, opened, disturbed, count, reg, printed>>
        /\ mutex' = [mutex EXCEPT ![Sem(x)] = 1]
    BY <1>4 DEF SemInit, Goes, InitialValue
  <2>2. \A s \in (Instance \cup Path) \ Own(x) : mutex'[s] = mutex[s]
    BY <1>0, <2>1 DEF TypeOK
  <2>3. Frame(x)
    BY <1>0, <2>1, <2>2 DEF Frame, TypeOK
  <2> QED BY <2>1, <2>3 DEF Mapped, Gone
<1>5. CASE Fork(x)
  BY <1>0, <1>5 DEF Fork, setup, Frame, TypeOK, Mapped, Gone
<1>6. CASE ForkFails(x)
  BY <1>0, <1>6 DEF ForkFails, Goes, setup, Frame, TypeOK, Mapped, Gone
<1>7. CASE Killed(x)
  <2>1. PICK from \in Early, to \in {"killed", "killed_cleared"} : Goes(x, "parent", from, to)
    BY <1>7 DEF Killed, Early
  <2>2. at[x]["parent"] \in Early /\ at' = [at EXCEPT ![x]["parent"] = to]
    BY <2>1 DEF Goes
  <2>3. UNCHANGED setup /\ UNCHANGED <<mutex, count, left, reg, printed>>
    BY <1>7 DEF Killed
  <2>4. at[x]["child"] = "unborn"
    BY <1>0, <2>2 DEF PhaseInv
  <2>5. at'[x]["parent"] = to /\ at'[x]["child"] = "unborn"
    BY <1>0, <2>2, <2>4 DEF TypeOK, Role
  <2>6. ~Mapped(x)'
    BY <2>5 DEF Mapped, Gone
  <2>7. Frame(x)
    BY <1>0, <2>2, <2>3 DEF Frame, setup, TypeOK
  <2> QED BY <2>3, <2>6, <2>7 DEF setup
<1>8. CASE Waitpid(x)
  BY <1>0, <1>8 DEF Waitpid, Goes, setup, Frame, TypeOK, Mapped, Gone
<1>9. ASSUME NEW r \in Role, Round(x, r)
      PROVE  Frame(x) /\ disturbed' = disturbed /\ Mapped(x)
  <2>1. PICK from \in {"loop", "load", "print", "post"}, to \in States : Goes(x, r, from, to)
    BY <1>9 DEF Round, WaitCrashes, Wait, Load, PrintCount, Post, LoopEnds, States, Gone
  <2>2. UNCHANGED setup /\ at[x][r] = from /\ at' = [at EXCEPT ![x][r] = to]
    BY <1>9, <2>1 DEF Round, WaitCrashes, Wait, Load, PrintCount, Post, LoopEnds, Goes
  <2>3. Mapped(x)
    BY <2>1, <2>2 DEF Mapped, Gone, Role
  <2>4. \A c \in (Instance \cup Path) \ {Cell(x)} : count'[c] = count[c]
    BY <1>0, <1>9 DEF Round, WaitCrashes, Wait, Load, PrintCount, Post, LoopEnds, TypeOK
  <2>5. \A s \in (Instance \cup Path) \ Own(x) : mutex'[s] = mutex[s]
    <3>1. \/ mutex' = mutex
          \/ mutex' = [mutex EXCEPT ![Sem(x)] = mutex[Sem(x)] - 1]
          \/ mutex' = [mutex EXCEPT ![Sem(x)] = mutex[Sem(x)] + 1]
      BY <1>9 DEF Round, WaitCrashes, Wait, Load, PrintCount, Post, LoopEnds
    <3>2. \A s \in (Instance \cup Path) \ Own(x) : s # Sem(x)
      BY <1>0
    <3> QED BY <1>0, <3>1, <3>2 DEF TypeOK
  <2>6. \A y \in Instance \ {x} : reg'[y] = reg[y] /\ printed'[y] = printed[y]
    BY <1>0, <1>9 DEF Round, WaitCrashes, Wait, Load, PrintCount, Post, LoopEnds, TypeOK
  <2>7. Frame(x)
    BY <1>0, <2>2, <2>4, <2>5, <2>6 DEF Frame, setup, TypeOK
  <2> QED BY <2>2, <2>3, <2>7 DEF setup
<1> QED BY <1>1, <1>2, <1>3, <1>4, <1>5, <1>6, <1>7, <1>8, <1>9 DEF Acts, SetUp

LEMMA OthersCounted ==
  ASSUME BaseInv, CountInv, NEW x \in Instance, Acts(x), NEW y \in Instance \ {x}
  PROVE  Counted(y)'
<1>0. /\ TypeOK /\ OwnInv /\ AloneInv /\ Counted(y) /\ Frame(x)
      /\ \/ Write(x)
         \/ disturbed' = disturbed /\ Mapped(x)
         \/ UNCHANGED <<count, mutex, disturbed>> /\ ~Mapped(x)'
  BY StepFrame DEF BaseInv, CountInv
<1>1. /\ UNCHANGED <<prog, path>> /\ disturbed \subseteq disturbed'
      /\ at'[y] = at[y] /\ reg'[y] = reg[y] /\ printed'[y] = printed[y]
      /\ opened'[y] = opened[y]
  BY <1>0 DEF Frame
<1>2. Cell(y)' = Cell(y) /\ Sem(y)' = Sem(y)
  BY <1>1 DEF Cell, Sem
<1>3. Mapped(y)' = Mapped(y)
  BY <1>1 DEF Mapped
<1>4. PhaseInv(y)' /\ (y \notin disturbed' => PrintedInv(y)')
  BY <1>0, <1>1 DEF Counted, PhaseInv, PrintedInv
<1>5. ASSUME y \notin disturbed', Mapped(y)
      PROVE  count'[Cell(y)] = count[Cell(y)] /\ (Sem(y) # None => mutex'[Sem(y)] = mutex[Sem(y)])
  <2>1. CASE Apart(x, y)
    BY <1>0, <2>1, ApartCells DEF Frame
  <2>2. CASE UNCHANGED <<count, mutex>>
    BY <2>2
  <2>3. CASE Write(x)
    <3>1. y \notin Rivals(x)
      BY <1>5, <2>3 DEF Write
    <3>2. Apart(x, y)
      BY <1>5, <3>1 DEF Rivals, Mapped, Apart
    <3> QED BY <2>1, <3>2
  <2>4. CASE disturbed' = disturbed /\ Mapped(x)
    BY <1>0, <1>5, <2>1, <2>4, Undisturbed
  <2> QED BY <1>0, <2>2, <2>3, <2>4
<1>6. ASSUME y \notin disturbed', Mapped(y)
      PROVE  CellInv(y)' /\ MutexInv(y)'
  <2>1. CellInv(y) /\ MutexInv(y)
    BY <1>0, <1>1, <1>6 DEF Counted
  <2>2. CellInv(y)'
    BY <1>1, <1>2, <1>5, <1>6, <2>1 DEF CellInv
  <2>3. MutexInv(y)'
    BY <1>1, <1>2, <1>5, <1>6, <2>1 DEF MutexInv
  <2> QED BY <2>2, <2>3
<1> QED BY <1>3, <1>4, <1>6 DEF Counted

LEMMA StepAlone ==
  ASSUME BaseInv, CountInv, NEW x \in Instance, Acts(x)
  PROVE  AloneInv'
<1>0. /\ TypeOK /\ AloneInv /\ Frame(x)
      /\ \/ Write(x)
         \/ disturbed' = disturbed /\ Mapped(x)
         \/ UNCHANGED <<count, mutex, disturbed>> /\ ~Mapped(x)'
  BY StepFrame DEF BaseInv, CountInv
<1>1. SUFFICES ASSUME NEW y \in Instance, NEW z \in Instance \ {y},
                      Mapped(y)', Mapped(z)', ~Apart(y, z)'
               PROVE  y \in disturbed'
  BY DEF AloneInv, Rivals, Mapped, Apart
<1>2. /\ UNCHANGED <<prog, path>> /\ disturbed \subseteq disturbed'
      /\ \A w \in Instance \ {x} : at'[w] = at[w]
  BY <1>0 DEF Frame
<1>3. \A w \in Instance \ {x} : Mapped(w)' = Mapped(w)
  BY <1>2 DEF Mapped
<1>4. ~Apart(y, z)
  BY <1>1, <1>2 DEF Apart
<1>5. CASE Mapped(y) /\ Mapped(z)
  BY <1>0, <1>2, <1>4, <1>5, Undisturbed DEF Apart
<1>6. CASE Write(x) /\ y = x
  <2>1. z \in Rivals(x)
    BY <1>1, <1>3, <1>4, <1>6 DEF Rivals, Mapped, Apart
  <2> QED BY <1>6, <2>1 DEF Write
<1>7. CASE Write(x) /\ z = x
  <2>1. y \in Rivals(x)
    BY <1>1, <1>3, <1>4, <1>7 DEF Rivals, Mapped, Apart
  <2> QED BY <1>7, <2>1 DEF Write
<1> QED BY <1>0, <1>1, <1>3, <1>5, <1>6, <1>7

-----------------------------------------------------------------------------
(* What a step does to its own instance. *)

\* Only the place of one process changes, outside of the rounds.
LEMMA QuietCounted ==
  ASSUME BaseInv, NEW x \in Instance, Counted(x), NEW r \in Role, NEW from, NEW to \in States,
         Goes(x, r, from, to), UNCHANGED <<prog, path, opened, disturbed>>,
         UNCHANGED <<mutex, count, reg, printed>>,
         from \notin Inside, to \notin Inside, Mapped(x)' => Mapped(x),
         r = "child" => from # "unborn" /\ to \notin Early \cup {"waitpid"},
         r = "parent" => (to \in Early => from \in Early),
         r = "parent" => from \notin {"write", "sem_open", "sem_init"} \/ ~Mapped(x)'
  PROVE  Counted(x)'
<1>0. TypeOK
  BY DEF BaseInv
<1>1. /\ at[x][r] = from /\ at'[x][r] = to
      /\ \A q \in Role \ {r} : at'[x][q] = at[x][q]
      /\ "parent" \in Role /\ "child" \in Role /\ r \in {"parent", "child"}
  BY <1>0, GoesEffect DEF Role
<1>2. Cell(x)' = Cell(x) /\ Sem(x)' = Sem(x)
  BY DEF Cell, Sem
<1>3. PhaseInv(x)'
  <2>1. PhaseInv(x)
    BY DEF Counted
  <2>2. CASE r = "parent"
    BY <1>1, <2>1, <2>2 DEF PhaseInv
  <2>3. CASE r = "child"
    BY <1>1, <2>1, <2>3 DEF PhaseInv
  <2> QED BY <1>1, <2>2, <2>3
<1>4. x \notin disturbed' => PrintedInv(x)'
  BY DEF Counted, PrintedInv
<1>5. ASSUME x \notin disturbed', Mapped(x)' PROVE CellInv(x)' /\ MutexInv(x)'
  <2>1. CellInv(x) /\ MutexInv(x)
    BY <1>5 DEF Counted
  <2>2. CellInv(x)'
    BY <1>1, <1>2, <2>1 DEF CellInv, Inside
  <2>3. \A q \in Role : at'[x][q] \in Inside <=> at[x][q] \in Inside
    BY <1>1
  <2>4. at'[x]["parent"] \notin {"write", "sem_open", "sem_init"} =>
          at[x]["parent"] \notin {"write", "sem_open", "sem_init"}
    BY <1>1, <1>5
  <2>5. MutexInv(x)'
    BY <1>2, <2>1, <2>3, <2>4 DEF MutexInv
  <2> QED BY <2>2, <2>5
<1> QED BY <1>3, <1>4, <1>5 DEF Counted

LEMMA SetupCounted ==
  ASSUME BaseInv, NEW x \in Instance, Counted(x), SetUp(x)
  PROVE  Counted(x)'
<1>0. /\ TypeOK /\ OwnInv /\ PhaseInv(x)
      /\ "parent" \in Role /\ "child" \in Role /\ \A r \in Role : r \in {"parent", "child"}
      /\ Cell(x) \in Instance \cup Path /\ Sem(x) \in Instance \cup Path \cup {None}
      /\ None \notin Instance \cup Path
  BY SemType DEF BaseInv, Counted, Role
<1>1. CASE Write(x)
  <2>1. at[x]["parent"] = "write" /\ at[x]["child"] = "unborn" /\ printed[x] = <<>>
    BY <1>0, <1>1 DEF Write, Goes, PhaseInv, Early
  <2>2. at'[x]["parent"] \in {"sem_open", "sem_init"} /\ at'[x]["child"] = "unborn"
    BY <1>0, <1>1, <2>1 DEF Write, Goes, TypeOK
  <2>3. count'[Cell(x)'] = 0 /\ printed'[x] = <<>>
    BY <1>0, <1>1, <2>1 DEF Write, Cleared, TypeOK, Cell
  <2>4. PhaseInv(x)' /\ PrintedInv(x)'
    BY <2>2, <2>3 DEF PhaseInv, PrintedInv, Early
  <2>5. CellInv(x)'
    BY <1>0, <2>2, <2>3 DEF CellInv
  <2>6. MutexInv(x)'
    BY <1>0, <2>2 DEF MutexInv, Inside
  <2> QED BY <2>4, <2>5, <2>6 DEF Counted
<1>2. CASE SemOpen(x)
  <2>1. at[x]["parent"] = "sem_open" /\ at[x]["child"] = "unborn" /\ printed[x] = <<>>
    BY <1>0, <1>2 DEF SemOpen, Goes, PhaseInv, Early
  <2>2. at'[x]["parent"] = "sem_unlink" /\ at'[x]["child"] = "unborn" /\ Mapped(x)
    BY <1>0, <1>2, <2>1 DEF SemOpen, Goes, TypeOK, Mapped, Gone
  <2>3. UNCHANGED <<prog, path, count, left, reg, printed, disturbed>>
    BY <1>2 DEF SemOpen
  <2>4. PhaseInv(x)' /\ (x \notin disturbed' => PrintedInv(x)')
    BY <2>1, <2>2, <2>3 DEF Counted, PhaseInv, PrintedInv, Early
  <2>5. x \notin disturbed' => CellInv(x)'
    BY <1>0, <2>2, <2>3 DEF Counted, CellInv, Cell
  <2>6. Sem(x)' # None => mutex'[Sem(x)'] = 1
    <3>1. prog[x] = "works_1"
      BY <1>0, <2>1 DEF OwnInv
    <3>2. Sem(x)' = opened'[x]
      BY <2>3, <3>1 DEF Sem
    <3>3. CASE name = None
      BY <1>0, <1>2, <3>2, <3>3 DEF SemOpen, TypeOK
    <3>4. CASE name # None
      BY <1>0, <1>2, <3>2, <3>4 DEF SemOpen, TypeOK
    <3> QED BY <3>3, <3>4
  <2>7. MutexInv(x)'
    BY <1>0, <2>2, <2>6 DEF MutexInv, Inside
  <2> QED BY <2>4, <2>5, <2>7 DEF Counted
<1>3. CASE SemUnlink(x)
  <2>1. /\ Goes(x, "parent", "sem_unlink", "fork") /\ Mapped(x)
        /\ UNCHANGED <<prog, path, opened, disturbed, mutex, count, reg, printed>>
    BY <1>0, <1>3 DEF SemUnlink, Goes, Mapped, Gone
  <2> QED BY <1>0, <2>1, QuietCounted DEF States, Inside, Early
<1>4. CASE SemInit(x)
  <2>1. /\ Goes(x, "parent", "sem_init", "fork")
        /\ UNCHANGED <<prog, path, opened, disturbed, count, reg, printed>>
        /\ mutex' = [mutex EXCEPT ![Sem(x)] = 1]
    BY <1>4 DEF SemInit, InitialValue
  <2>2. /\ at'[x]["parent"] = "fork" /\ at'[x]["child"] = "unborn"
        /\ Mapped(x) /\ printed[x] = <<>>
    BY <1>0, <2>1 DEF Goes, TypeOK, Mapped, Gone, PhaseInv, Early
  <2>3. PhaseInv(x)' /\ PrintedInv(x)'
    BY <2>1, <2>2 DEF PhaseInv, PrintedInv, Early
  <2>4. x \notin disturbed' => CellInv(x)'
    BY <1>0, <2>1, <2>2 DEF Counted, CellInv, Cell
  <2>5. Sem(x)' = Sem(x) /\ (Sem(x) # None => mutex'[Sem(x)] = 1)
    BY <1>0, <2>1 DEF Sem, TypeOK
  <2>6. MutexInv(x)'
    BY <1>0, <2>2, <2>5 DEF MutexInv, Inside
  <2> QED BY <2>3, <2>4, <2>6 DEF Counted
<1>5. CASE Fork(x)
  <2>1. /\ at[x]["parent"] = "fork" /\ at'[x] = [r \in Role |-> "loop"]
        /\ UNCHANGED <<prog, path, opened, disturbed, mutex, count, reg, printed>>
    BY <1>0, <1>5 DEF Fork, setup, TypeOK
  <2>2. at[x]["child"] = "unborn" /\ Mapped(x) /\ \A r \in Role : at'[x][r] = "loop"
    BY <1>0, <2>1 DEF PhaseInv, Early, Mapped, Gone
  <2>3. Cell(x)' = Cell(x) /\ Sem(x)' = Sem(x)
    BY <2>1 DEF Cell, Sem
  <2>4. PhaseInv(x)' /\ (x \notin disturbed' => PrintedInv(x)')
    BY <1>0, <2>1, <2>2 DEF Counted, PhaseInv, PrintedInv, Early
  <2>5. x \notin disturbed' => CellInv(x)' /\ MutexInv(x)'
    <3> SUFFICES ASSUME x \notin disturbed' PROVE CellInv(x)' /\ MutexInv(x)'
      OBVIOUS
    <3>1. CellInv(x) /\ MutexInv(x)
      BY <2>1, <2>2 DEF Counted
    <3>2. CellInv(x)'
      BY <2>1, <2>2, <2>3, <3>1 DEF CellInv
    <3>3. Sem(x) # None => mutex[Sem(x)] = 1
      BY <1>0, <2>1, <2>2, <3>1 DEF MutexInv, Inside
    <3>4. MutexInv(x)'
      BY <2>1, <2>2, <2>3, <3>3 DEF MutexInv, Inside
    <3> QED BY <3>2, <3>4
  <2> QED BY <2>4, <2>5 DEF Counted
<1> QED BY <1>1, <1>2, <1>3, <1>4, <1>5 DEF SetUp

LEMMA RoundCounted ==
  ASSUME BaseInv, NEW x \in Instance, Counted(x), NEW r \in Role, Round(x, r)
  PROVE  Counted(x)'
<1>0. /\ TypeOK /\ OwnInv /\ PhaseInv(x) /\ r \in {"parent", "child"}
      /\ "parent" \in Role /\ "child" \in Role
      /\ Cell(x) \in Instance \cup Path /\ Sem(x) \in Instance \cup Path \cup {None}
      /\ None \notin Instance \cup Path
  BY SemType DEF BaseInv, Counted, Role
<1>1. ASSUME NEW to \in {"crashed", "waitpid", "exited"},
             Goes(x, r, "loop", to), r = "child" => to # "waitpid",
             UNCHANGED setup, UNCHANGED <<mutex, count, left, reg, printed>>
      PROVE  Counted(x)'
  <2>1. Mapped(x)
    BY <1>0, <1>1 DEF Goes, Mapped, Gone
  <2>2. UNCHANGED <<prog, path, opened, disturbed>>
    BY <1>1 DEF setup
  <2> QED BY <1>0, <1>1, <2>1, <2>2, QuietCounted DEF States, Gone, Inside, Early
<1>2. CASE WaitCrashes(x, r)
  BY <1>1, <1>2 DEF WaitCrashes
<1>3. CASE LoopEnds(x, r)
  BY <1>0, <1>1, <1>3 DEF LoopEnds
<1>4. ASSUME NEW from \in Inside \cup {"loop"}, NEW to \in Inside \cup {"loop"},
             Goes(x, r, from, to), UNCHANGED setup,
             Wait(x, r) \/ Load(x, r) \/ PrintCount(x, r) \/ Post(x, r)
      PROVE  /\ at[x][r] = from /\ at'[x][r] = to
             /\ \A q \in Role \ {r} : at'[x][q] = at[x][q]
             /\ Cell(x)' = Cell(x) /\ Sem(x)' = Sem(x) /\ disturbed' = disturbed
             /\ Mapped(x) /\ PhaseInv(x)'
             /\ x \notin disturbed => CellInv(x) /\ MutexInv(x) /\ PrintedInv(x)
             /\ at[x]["parent"] \notin {"write", "sem_open", "sem_init"}
  <2>1. /\ at[x][r] = from /\ at'[x][r] = to
        /\ \A q \in Role \ {r} : at'[x][q] = at[x][q]
    BY <1>0, <1>4, GoesEffect DEF States, Inside
  <2>2. Mapped(x) /\ at[x]["parent"] \notin Early /\ at'[x]["parent"] \notin Early
    BY <1>0, <2>1 DEF Mapped, Gone, Inside, PhaseInv, Early
  <2>3. at'[x]["child"] \notin Early \cup {"waitpid"}
    BY <1>0, <2>1 DEF PhaseInv, Early, Inside
  <2>4. PhaseInv(x)'
    BY <2>2, <2>3 DEF PhaseInv
  <2>5. Cell(x)' = Cell(x) /\ Sem(x)' = Sem(x) /\ disturbed' = disturbed
    BY <1>4 DEF Cell, Sem, setup
  <2> QED BY <2>1, <2>2, <2>4, <2>5 DEF Counted, Early
<1>5. CASE Wait(x, r)
  <2>1. /\ Goes(x, r, "loop", "load") /\ UNCHANGED setup /\ UNCHANGED <<count, reg, printed>>
        /\ mutex[Sem(x)] > 0 /\ Sem(x) # None
        /\ mutex' = [mutex EXCEPT ![Sem(x)] = mutex[Sem(x)] - 1]
    BY <1>5 DEF Wait
  <2>2. /\ at[x][r] = "loop" /\ at'[x][r] = "load"
        /\ \A q \in Role \ {r} : at'[x][q] = at[x][q]
        /\ Cell(x)' = Cell(x) /\ Sem(x)' = Sem(x) /\ disturbed' = disturbed
        /\ Mapped(x) /\ PhaseInv(x)'
        /\ x \notin disturbed => CellInv(x) /\ MutexInv(x) /\ PrintedInv(x)
        /\ at[x]["parent"] \notin {"write", "sem_open", "sem_init"}
    BY <1>4, <1>5, <2>1 DEF Inside
  <2> SUFFICES ASSUME x \notin disturbed PROVE PrintedInv(x)' /\ CellInv(x)' /\ MutexInv(x)'
    BY <2>2 DEF Counted
  <2>3. PrintedInv(x)' /\ CellInv(x)'
    BY <2>1, <2>2 DEF PrintedInv, CellInv
  <2>4. mutex[Sem(x)] = 1 /\ \A q \in Role : at[x][q] \notin Inside
    BY <2>1, <2>2 DEF MutexInv
  <2>5. mutex'[Sem(x)'] = 0
    BY <1>0, <2>1, <2>2, <2>4 DEF TypeOK
  <2>6. at'[x][r] \in Inside /\ \A q \in Role : at'[x][q] \in Inside => q = r
    BY <2>2, <2>4 DEF Inside
  <2>7. MutexInv(x)'
    BY <2>1, <2>2, <2>5, <2>6 DEF MutexInv
  <2> QED BY <2>3, <2>7
<1>6. CASE Load(x, r)
  <2>1. /\ Goes(x, r, "load", "print") /\ UNCHANGED setup /\ UNCHANGED <<mutex, count, printed>>
        /\ reg' = [reg EXCEPT ![x][r] = count[Cell(x)]]
    BY <1>6 DEF Load
  <2>2. /\ at[x][r] = "load" /\ at'[x][r] = "print"
        /\ \A q \in Role \ {r} : at'[x][q] = at[x][q]
        /\ Cell(x)' = Cell(x) /\ Sem(x)' = Sem(x) /\ disturbed' = disturbed
        /\ Mapped(x) /\ PhaseInv(x)'
        /\ x \notin disturbed => CellInv(x) /\ MutexInv(x) /\ PrintedInv(x)
        /\ at[x]["parent"] \notin {"write", "sem_open", "sem_init"}
    BY <1>4, <1>6, <2>1 DEF Inside
  <2> SUFFICES ASSUME x \notin disturbed PROVE PrintedInv(x)' /\ CellInv(x)' /\ MutexInv(x)'
    BY <2>2 DEF Counted
  <2>3. reg'[x][r] = count[Cell(x)] /\ \A q \in Role \ {r} : reg'[x][q] = reg[x][q]
    BY <1>0, <2>1 DEF TypeOK
  <2>4. PrintedInv(x)' /\ CellInv(x)'
    BY <2>1, <2>2, <2>3 DEF PrintedInv, CellInv
  <2>5. \A q \in Role : at'[x][q] \in Inside <=> at[x][q] \in Inside
    BY <2>2 DEF Inside
  <2>6. MutexInv(x)'
    BY <2>1, <2>2, <2>5 DEF MutexInv
  <2> QED BY <2>4, <2>6
<1>7. CASE PrintCount(x, r)
  <2>1. /\ Goes(x, r, "print", "post") /\ UNCHANGED setup /\ UNCHANGED <<mutex, reg>>
        /\ count' = [count EXCEPT ![Cell(x)] = reg[x][r] + 1]
        /\ printed' = [printed EXCEPT ![x] = Append(printed[x], reg[x][r])]
    BY <1>7 DEF PrintCount
  <2>2. /\ at[x][r] = "print" /\ at'[x][r] = "post"
        /\ \A q \in Role \ {r} : at'[x][q] = at[x][q]
        /\ Cell(x)' = Cell(x) /\ Sem(x)' = Sem(x) /\ disturbed' = disturbed
        /\ Mapped(x) /\ PhaseInv(x)'
        /\ x \notin disturbed => CellInv(x) /\ MutexInv(x) /\ PrintedInv(x)
        /\ at[x]["parent"] \notin {"write", "sem_open", "sem_init"}
    BY <1>4, <1>7, <2>1 DEF Inside
  <2> SUFFICES ASSUME x \notin disturbed PROVE PrintedInv(x)' /\ CellInv(x)' /\ MutexInv(x)'
    BY <2>2 DEF Counted
  <2>3. reg[x][r] = Len(printed[x]) /\ printed[x] \in Seq(Nat) /\ reg[x][r] \in Nat
    BY <1>0, <2>2 DEF CellInv, TypeOK
  <2>4. printed'[x] = Append(printed[x], Len(printed[x])) /\ count'[Cell(x)'] = Len(printed[x]) + 1
    BY <1>0, <2>1, <2>2, <2>3 DEF TypeOK
  <2>5. PrintedInv(x)'
    BY <2>2, <2>3, <2>4 DEF PrintedInv
  <2>6. \A q \in Role : at'[x][q] # "print"
    BY <2>2 DEF MutexInv, Inside
  <2>7. CellInv(x)'
    BY <2>3, <2>4, <2>6 DEF CellInv
  <2>8. \A q \in Role : at'[x][q] \in Inside <=> at[x][q] \in Inside
    BY <2>2 DEF Inside
  <2>9. MutexInv(x)'
    BY <2>1, <2>2, <2>8 DEF MutexInv
  <2> QED BY <2>5, <2>7, <2>9
<1>8. CASE Post(x, r)
  <2>1. /\ Goes(x, r, "post", "loop") /\ UNCHANGED setup /\ UNCHANGED <<count, reg, printed>>
        /\ mutex' = [mutex EXCEPT ![Sem(x)] = mutex[Sem(x)] + 1]
    BY <1>8 DEF Post
  <2>2. /\ at[x][r] = "post" /\ at'[x][r] = "loop"
        /\ \A q \in Role \ {r} : at'[x][q] = at[x][q]
        /\ Cell(x)' = Cell(x) /\ Sem(x)' = Sem(x) /\ disturbed' = disturbed
        /\ Mapped(x) /\ PhaseInv(x)'
        /\ x \notin disturbed => CellInv(x) /\ MutexInv(x) /\ PrintedInv(x)
        /\ at[x]["parent"] \notin {"write", "sem_open", "sem_init"}
    BY <1>4, <1>8, <2>1 DEF Inside
  <2> SUFFICES ASSUME x \notin disturbed PROVE PrintedInv(x)' /\ CellInv(x)' /\ MutexInv(x)'
    BY <2>2 DEF Counted
  <2>3. PrintedInv(x)' /\ CellInv(x)'
    BY <2>1, <2>2 DEF PrintedInv, CellInv
  <2>4. Sem(x) # None /\ mutex[Sem(x)] = 0 /\ at[x][r] \in Inside
    BY <2>2 DEF MutexInv, Inside
  <2>5. mutex'[Sem(x)'] = 1
    BY <1>0, <2>1, <2>2, <2>4 DEF TypeOK
  <2>6. \A q \in Role : at'[x][q] \notin Inside
    BY <2>2, <2>4 DEF MutexInv, Inside
  <2>7. MutexInv(x)'
    BY <2>2, <2>4, <2>5, <2>6 DEF MutexInv
  <2> QED BY <2>3, <2>7
<1> QED BY <1>2, <1>3, <1>5, <1>6, <1>7, <1>8 DEF Round

LEMMA OwnCounted ==
  ASSUME BaseInv, NEW x \in Instance, Counted(x), Acts(x)
  PROVE  Counted(x)'
<1>0. TypeOK /\ PhaseInv(x) /\ "parent" \in Role /\ "child" \in Role
  BY DEF BaseInv, Counted, Role
<1>1. CASE ForkFails(x)
  <2>1. /\ Goes(x, "parent", "fork", "loop") /\ Mapped(x)
        /\ UNCHANGED <<prog, path, opened, disturbed>>
        /\ UNCHANGED <<mutex, count, reg, printed>>
    BY <1>1 DEF ForkFails, Goes, Mapped, Gone, setup
  <2> QED BY <1>0, <2>1, QuietCounted DEF States, Inside, Early
<1>2. CASE Waitpid(x)
  <2>1. /\ Goes(x, "parent", "waitpid", "exited") /\ Mapped(x)
        /\ UNCHANGED <<prog, path, opened, disturbed>>
        /\ UNCHANGED <<mutex, count, reg, printed>>
    BY <1>2 DEF Waitpid, Goes, Mapped, Gone, setup
  <2> QED BY <1>0, <2>1, QuietCounted DEF States, Gone, Inside, Early
<1>3. CASE Killed(x)
  <2>1. PICK from \in Early, to \in {"killed", "killed_cleared"} : Goes(x, "parent", from, to)
    BY <1>3 DEF Killed, Early
  <2>2. at'[x]["parent"] = to /\ at'[x]["child"] = "unborn"
    BY <1>0, <2>1 DEF Goes, TypeOK, PhaseInv
  <2>3. ~Mapped(x)'
    BY <2>2 DEF Mapped, Gone
  <2>4. UNCHANGED <<prog, path, opened, disturbed>> /\ UNCHANGED <<mutex, count, reg, printed>>
    BY <1>3 DEF Killed, setup
  <2> QED BY <1>0, <2>1, <2>3, <2>4, QuietCounted DEF States, Gone, Inside, Early
<1> QED BY <1>1, <1>2, <1>3, SetupCounted, RoundCounted DEF Acts

-----------------------------------------------------------------------------
(* Instances that are alone count from 0. *)

LEMMA InitCount == Init => CountInv
<1> SUFFICES ASSUME Init PROVE CountInv
  OBVIOUS
<1>1. \A x \in Instance : /\ at[x]["parent"] = "write" /\ at[x]["child"] = "unborn"
                          /\ printed[x] = <<>> /\ ~Mapped(x)
  BY DEF Init, Role, Mapped, Gone
<1> QED BY <1>1 DEF CountInv, AloneInv, Counted, PhaseInv, PrintedInv, Early

LEMMA StepCount == BaseInv /\ CountInv /\ [Next]_vars => CountInv'
<1> SUFFICES ASSUME BaseInv, CountInv, [Next]_vars PROVE CountInv'
  OBVIOUS
<1>1. CASE UNCHANGED vars
  <2>1. UNCHANGED <<prog, path, opened, mutex, count, at, reg, printed, disturbed>>
    BY <1>1 DEF vars
  <2>2. AloneInv'
    BY <2>1 DEF CountInv, AloneInv, Rivals, Mapped
  <2>3. ASSUME NEW x \in Instance PROVE Counted(x)'
    <3>1. Counted(x) /\ Cell(x)' = Cell(x) /\ Sem(x)' = Sem(x) /\ Mapped(x)' = Mapped(x)
      BY <2>1 DEF CountInv, Cell, Sem, Mapped
    <3>2. PhaseInv(x)' = PhaseInv(x) /\ PrintedInv(x)' = PrintedInv(x)
      BY <2>1 DEF PhaseInv, PrintedInv
    <3>3. CellInv(x)' = CellInv(x)
      BY <2>1, <3>1 DEF CellInv
    <3>4. MutexInv(x)' = MutexInv(x)
      BY <2>1, <3>1 DEF MutexInv
    <3> QED BY <2>1, <3>1, <3>2, <3>3, <3>4 DEF Counted
  <2> QED BY <2>2, <2>3 DEF CountInv
<1>2. ASSUME NEW x \in Instance, Acts(x) PROVE CountInv'
  <2>1. AloneInv'
    BY <1>2, StepAlone
  <2>2. ASSUME NEW y \in Instance PROVE Counted(y)'
    <3>1. CASE y = x
      BY <1>2, <3>1, OwnCounted DEF CountInv
    <3>2. CASE y # x
      BY <1>2, <3>2, OthersCounted
    <3> QED BY <3>1, <3>2
  <2> QED BY <2>1, <2>2 DEF CountInv
<1> QED BY <1>1, <1>2 DEF Next, Acts

\* An instance that met no other one on its file excludes its two processes from
\* each other, and prints 0, 1, 2, ...
THEOREM CountsAlone == Spec => []CountsFromZero
<1>1. BaseInv /\ CountInv => CountsFromZero
  <2> SUFFICES ASSUME BaseInv, CountInv, NEW x \in Instance, x \notin disturbed
               PROVE  /\ Cardinality(Working(x)) <= 1
                      /\ \A k \in 1..Len(printed[x]) : printed[x][k] = k - 1
    BY DEF CountsFromZero
  <2>1. Counted(x) /\ PrintedInv(x)
    BY DEF CountInv, Counted
  <2>2. \A q, r \in Working(x) : q = r
    <3>1. CASE Mapped(x)
      BY <2>1, <3>1 DEF Counted, MutexInv, Working, Inside
    <3>2. CASE ~Mapped(x)
      BY <3>2 DEF Mapped, Working, Role, Gone
    <3> QED BY <3>1, <3>2
  <2>3. Working(x) = {} \/ \E r \in Role : Working(x) = {r}
    BY <2>2 DEF Working
  <2>4. Cardinality(Working(x)) <= 1
    <3>1. CASE Working(x) = {}
      <4>1. Cardinality({}) = 0
        BY FS_EmptySet
      <4> QED BY <3>1, <4>1
    <3>2. ASSUME NEW r \in Role, Working(x) = {r} PROVE Cardinality(Working(x)) <= 1
      <4>1. Cardinality({r}) = 1
        BY FS_Singleton
      <4> QED BY <3>2, <4>1
    <3> QED BY <2>3, <3>1, <3>2
  <2> QED BY <2>1, <2>4 DEF PrintedInv
<1>2. Init => BaseInv /\ CountInv
  BY InitBase, InitCount
<1>3. BaseInv /\ CountInv /\ [Next]_vars => (BaseInv /\ CountInv)'
  BY StepBase, StepCount
<1> QED BY <1>1, <1>2, <1>3, PTL DEF Spec
=============================================================================
