---------------------------- MODULE DemosProofs ----------------------------
(***************************************************************************)
(* Proofs about the small programs, for any number of stops, children,     *)
(* characters and lines.                                                   *)
(***************************************************************************)
EXTENDS MCDemos, Sequences, FiniteSetTheorems, TLAPS

vars == <<demo, bVars, rVars, fVars, sVars>>

\* A step of one program is none of the others.
LEMMA DemoSteps ==
  ASSUME [Next]_vars
  PROVE  /\ B!Next \/ UNCHANGED bVars
         /\ R!Next \/ UNCHANGED rVars
         /\ F!Next \/ UNCHANGED fVars
         /\ S!Next \/ UNCHANGED sVars
  BY DEF Next, InBackground, InRedirect, InFork, InSkeleton, vars

-----------------------------------------------------------------------------
(* background.c *)

\* There is no command before the fork, and no signal before its handler.
EarlyInv ==
  /\ at \in {"sigaction", "fork"} => child["cmd"] = "none"
  /\ at = "sigaction" => handler = "idle" /\ ~pending
  /\ at = "failed" => child["cmd"] = "none"
  /\ \A c \in B!Children : child[c] = "stopped" => stops > 0

\* No stop and no other child has raised a signal.
Quiet == stops = 0 /\ \A c \in Others : child[c] \in {"none", "running"}

\* Then every signal is about the end of the command.
QuietInv ==
  Quiet => /\ pending \/ handler = "waitpid" => child["cmd"] \in {"zombie", "reaped"}
           /\ handler = "return" \/ terminated => child["cmd"] = "reaped"
           /\ at = "exited" => terminated

BackgroundInv == B!TypeOK /\ EarlyInv /\ B!ZombieReported /\ QuietInv

LEMMA BackgroundInit == Init => BackgroundInv
<1> SUFFICES ASSUME Init PROVE BackgroundInv
  OBVIOUS
<1>1. /\ at = "sigaction" /\ child \in [B!Children -> {"none", "running"}]
      /\ child["cmd"] = "none" /\ pending = FALSE /\ handler = "idle"
      /\ terminated = FALSE /\ stops = 0
  BY DEF Init, B!Init
<1>2. child \in [B!Children -> {"none", "forked", "running", "stopped", "zombie", "reaped"}]
  BY <1>1
<1>3. 0 \in 0..StopMax
  BY DemosOK
<1>4. B!TypeOK
  BY <1>1, <1>2, <1>3 DEF B!TypeOK
<1>5. EarlyInv /\ B!ZombieReported /\ QuietInv
  BY <1>1 DEF EarlyInv, B!ZombieReported, QuietInv
<1> QED BY <1>4, <1>5 DEF BackgroundInv

LEMMA BackgroundNext == BackgroundInv /\ (B!Next \/ UNCHANGED bVars) => BackgroundInv'
<1> SUFFICES ASSUME B!TypeOK, EarlyInv, B!ZombieReported, QuietInv,
                    B!Next \/ UNCHANGED bVars
             PROVE  BackgroundInv'
  BY DEF BackgroundInv
<1> USE DemosOK DEF B!TypeOK, B!Children, BackgroundInv
<1>1. CASE B!MainSteps \/ B!SigactionFails \/ B!ForkFails
  <2>1. CASE B!SigchldSetup \/ B!SigactionFails
    BY <2>1 DEF B!SigchldSetup, B!SigactionFails, B!Main, EarlyInv, B!ZombieReported, Quiet,
                QuietInv
  <2>2. CASE B!Fork
    <3>1. /\ child' = [child EXCEPT !["cmd"] = "forked"] /\ at = "fork" /\ at' = "sleep"
          /\ handler = "idle" /\ UNCHANGED <<pending, handler, terminated, stops>>
          /\ child["cmd"] = "none"
      BY <2>2 DEF B!Fork, B!Main, EarlyInv
    <3>2. /\ child'["cmd"] = "forked" /\ \A c \in Others : child'[c] = child[c]
          /\ \A c \in B!Children : c = "cmd" \/ child'[c] = child[c]
      BY <3>1
    <3>3. B!TypeOK'
      BY <3>1
    <3>4. EarlyInv' /\ B!ZombieReported'
      BY <3>1, <3>2 DEF EarlyInv, B!ZombieReported
    <3>5. QuietInv'
      BY <3>1, <3>2 DEF Quiet, QuietInv
    <3> QED BY <3>3, <3>4, <3>5
  <2>5. CASE B!ForkFails
    BY <2>5 DEF B!ForkFails, B!Main, EarlyInv, B!ZombieReported, Quiet, QuietInv
  <2>3. CASE B!SleepBegins \/ B!SleepEnds
    BY <2>3 DEF B!SleepBegins, B!SleepEnds, B!Main, EarlyInv, B!ZombieReported, Quiet, QuietInv
  <2>4. CASE B!Test
    BY <2>4 DEF B!Test, B!Main, EarlyInv, B!ZombieReported, Quiet, QuietInv
  <2> QED BY <1>1, <2>1, <2>2, <2>3, <2>4, <2>5 DEF B!MainSteps
<1>2. CASE B!Deliver
  BY <1>2 DEF B!Deliver, EarlyInv, B!ZombieReported, Quiet, QuietInv
<1>3. CASE B!Waitpid
  <2>1. CASE B!Reapable = {} /\ handler' = "return" /\ UNCHANGED child
    <3>1. child["cmd"] # "zombie"
      BY <2>1 DEF B!Reapable
    <3> QED BY <1>3, <2>1, <3>1 DEF B!Waitpid, EarlyInv, B!ZombieReported, Quiet, QuietInv
  <2>2. ASSUME NEW c \in B!Reapable, child' = [child EXCEPT ![c] = "reaped"],
               handler' = "waitpid"
        PROVE  BackgroundInv'
    BY <1>3, <2>2 DEF B!Waitpid, B!Reapable, EarlyInv, B!ZombieReported, Quiet, QuietInv
  <2> QED BY <1>3, <2>1, <2>2 DEF B!Waitpid, B!AfterWaitpid
<1>4. CASE B!HandlerReturns
  BY <1>4 DEF B!HandlerReturns, EarlyInv, B!ZombieReported, Quiet, QuietInv
<1>5. CASE B!Exec
  BY <1>5 DEF B!Exec, B!Becomes, EarlyInv, B!ZombieReported, Quiet, QuietInv
<1>6. ASSUME NEW c \in B!Children, B!ChildExits(c) PROVE BackgroundInv'
  BY <1>6 DEF B!ChildExits, B!Becomes, B!Raise, EarlyInv, B!ZombieReported, Quiet, QuietInv
<1>7. ASSUME NEW c \in B!Children, B!ChildStops(c) PROVE BackgroundInv'
  BY <1>7 DEF B!ChildStops, B!Becomes, B!Raise, EarlyInv, B!ZombieReported, Quiet, QuietInv
<1>8. ASSUME NEW c \in B!Children, B!ChildContinues(c) PROVE BackgroundInv'
  BY <1>8 DEF B!ChildContinues, B!Becomes, B!Raise, EarlyInv, B!ZombieReported, Quiet, QuietInv
<1>9. CASE UNCHANGED bVars
  BY <1>9 DEF bVars, EarlyInv, B!ZombieReported, Quiet, QuietInv
<1> QED BY <1>1, <1>2, <1>3, <1>4, <1>5, <1>6, <1>7, <1>8, <1>9
        DEF B!Next, B!Handler, B!ChildSteps

LEMMA BackgroundAlways == Spec => []BackgroundInv
<1>1. BackgroundInv /\ [Next]_vars => BackgroundInv'
  BY DemoSteps, BackgroundNext
<1> QED BY BackgroundInit, <1>1, PTL DEF Spec, vars

\* background.c: no zombie is forgotten, however many children there are whose
\* signals are merged into one, and wherever the handler interrupts main().
THEOREM NoZombieForgotten == Spec => []ZombieReported
<1>1. BackgroundInv => ZombieReported
  BY DEF BackgroundInv, ZombieReported
<1> QED BY BackgroundAlways, <1>1, PTL

\* background.c: main() leaves with its child cleaned up, unless a stop or
\* another child misled it.
THEOREM CleansUp == Spec => []CleanedUp
<1>1. BackgroundInv => CleanedUp
  BY DEF BackgroundInv, QuietInv, Quiet, CleanedUp, B!CleanedUp
<1> QED BY BackgroundAlways, <1>1, PTL

-----------------------------------------------------------------------------
(* redirectto.c and redirectfrom.c *)

\* A set of numbers has a least one.
LEMMA Least ==
  ASSUME NEW T \in SUBSET Nat, T # {}
  PROVE  R!Min(T) \in T
<1> DEFINE L == {p \in Nat \X Nat : p[1] < p[2]}
<1>1. IsWellFoundedOn(L, Nat)
  BY NatLessThanWellFounded DEF OpToRel
<1>2. PICK x \in T : \A y \in T : <<y, x>> \notin L
  BY <1>1, WFMin
<1>3. ASSUME NEW y \in T PROVE x <= y
  <2>1. <<y, x>> \notin L /\ x \in Nat /\ y \in Nat
    BY <1>2
  <2>2. y < x => <<y, x>> \in L
    BY <2>1
  <2> HIDE DEF L
  <2> QED BY <2>1, <2>2
<1> QED BY <1>3 DEF R!Min

\* open() returns a descriptor that is not in use.
LEMMA FreeFd ==
  ASSUME NEW t \in Tables
  PROVE  /\ R!LowestFree(t) \in Nat \ DOMAIN t
         /\ t = [d \in DOMAIN t |-> t[d]] /\ DOMAIN t \subseteq 0..2
<1>1. t = [d \in DOMAIN t |-> t[d]] /\ DOMAIN t \subseteq 0..2
  BY DEF Tables, Standard
<1> DEFINE n == Cardinality(DOMAIN t)
<1>2. IsFiniteSet(DOMAIN t) /\ n \in Nat
  <2>1. 0 \in Int /\ 2 \in Int
    OBVIOUS
  <2>2. IsFiniteSet(0..2)
    BY <2>1, FS_Interval
  <2> QED BY <1>1, <2>2, FS_Subset, FS_CardinalityType
<1>3. Cardinality(0..n) = n + 1
  BY <1>2, FS_Interval
<1>4. ~(0..n \subseteq DOMAIN t)
  BY <1>2, <1>3, FS_Subset
<1> HIDE DEF n
<1>5. 0..n \ DOMAIN t \in SUBSET Nat /\ 0..n \ DOMAIN t # {}
  BY <1>2, <1>4
<1>6. R!Min(0..n \ DOMAIN t) \in 0..n \ DOMAIN t
  BY <1>5, Least
<1>7. R!Cardinality(DOMAIN t) = n
  BY DEF R!Cardinality, Cardinality, n
<1> QED BY <1>1, <1>2, <1>6, <1>7 DEF R!LowestFree

\* A table with a descriptor redirected.
Moved(t, target, e) == [d \in DOMAIN t \cup {target} |-> IF d = target THEN e ELSE t[d]]

\* What dup2() and close() leave of the descriptor that was opened.
LEMMA MovedFd ==
  ASSUME NEW t \in Tables, NEW target \in {0, 1}, NEW e, NEW f, f = R!LowestFree(t)
  PROVE  /\ f # target => R!Close(R!Dup2(R!Opened(t, e), f, target), f)
                            = Moved(t, target, e)
         /\ f = target => R!Close(R!Dup2(R!Opened(t, e), f, target), f) = t
<1> DEFINE u == R!Opened(t, e)
           v == R!Dup2(u, f, target)
<1>1. f \notin DOMAIN t /\ t = [d \in DOMAIN t |-> t[d]]
  BY FreeFd
<1>2. /\ DOMAIN u = DOMAIN t \cup {f} /\ u[f] = e
      /\ \A d \in DOMAIN t : u[d] = t[d]
  BY <1>1 DEF R!Opened
<1> HIDE DEF u
<1>3. /\ DOMAIN v = DOMAIN t \cup {f, target}
      /\ \A d \in DOMAIN t \cup {target} : v[d] = IF d = target THEN e ELSE t[d]
  BY <1>2 DEF R!Dup2
<1> HIDE DEF v
<1>4. R!Close(v, f) = [d \in (DOMAIN t \cup {f, target}) \ {f} |-> v[d]]
  BY <1>3 DEF R!Close
<1>5. CASE f # target
  <2>1. (DOMAIN t \cup {f, target}) \ {f} = DOMAIN t \cup {target}
    BY <1>1, <1>5
  <2>2. R!Close(v, f) = [d \in DOMAIN t \cup {target} |-> IF d = target THEN e ELSE t[d]]
    BY <1>3, <1>4, <2>1
  <2> QED BY <1>5, <2>2 DEF v, u, Moved
<1>6. CASE f = target
  <2>1. (DOMAIN t \cup {f, target}) \ {f} = DOMAIN t
    BY <1>1, <1>6
  <2>2. \A d \in DOMAIN t : v[d] = t[d]
    BY <1>1, <1>3, <1>6
  <2>3. R!Close(v, f) = [d \in DOMAIN t |-> t[d]]
    BY <1>4, <2>1, <2>2
  <2> QED BY <1>1, <1>6, <2>3 DEF v, u
<1> QED BY <1>5, <1>6

\* The first n characters of the file.
Chars(n) == [k \in 1..n |-> <<"file", k>>]

LEMMA CharsSeq ==
  ASSUME NEW n \in Nat
  PROVE  /\ Chars(n) \in Seq({"file"} \X Nat) /\ Len(Chars(n)) = n
         /\ Append(Chars(n), <<"file", n + 1>>) = Chars(n + 1)
         /\ <<>> \o Chars(n) = Chars(n)
<1>1. Chars(n) \in Seq({"file"} \X Nat) /\ Len(Chars(n)) = n
  BY DEF Chars
<1>2. /\ Append(Chars(n), <<"file", n + 1>>) \in Seq({"file"} \X Nat)
      /\ Len(Append(Chars(n), <<"file", n + 1>>)) = n + 1
      /\ \A k \in 1..(n + 1) : Append(Chars(n), <<"file", n + 1>>)[k] = <<"file", k>>
  BY <1>1 DEF Chars
<1>3. Append(Chars(n), <<"file", n + 1>>) = Chars(n + 1)
  BY <1>2 DEF Chars
<1> QED BY <1>1, <1>3

\* The table that main() works with, from call to call.
TableInv ==
  /\ which \in {"to", "from"} /\ given \in Tables
  /\ step \in {"open", "failed", "dup2", "close", "copy", "exit", "exited"}
  /\ step \in {"dup2", "close"} => fd = R!LowestFree(given)
  /\ step = "open" => table = given
  /\ step = "dup2" => table = R!Opened(given, R!File)
  /\ step = "close" => table = R!Dup2(R!Opened(given, R!File), fd, R!Target)
  /\ R!Redirected

\* What is in the buffer of stdout: of a file, only what was redirected.
GotInv ==
  /\ step # "exited" => written = [e \in {R!File, R!Stdout} |-> <<>>]
  /\ which = "to" /\ step \in {"exit", "exited"} => got = <<<<"message", 1>>>>
  /\ which = "from" => \E n \in 0..Length :
       /\ got = Chars(n)
       /\ ~R!Redirects => n = 0
       /\ R!Redirects /\ step \in {"exit", "exited"} => n = Length
  /\ step \in {"open", "failed", "dup2", "close"} => got = <<>>

RedirectInv == TableInv /\ GotInv /\ R!Delivered

LEMMA RedirectInit == Init => RedirectInv
<1> SUFFICES ASSUME Init PROVE RedirectInv
  OBVIOUS
<1>1. /\ which \in {"to", "from"} /\ given \in Tables /\ table = given /\ step = "open"
      /\ got = <<>> /\ written = [e \in {R!File, R!Stdout} |-> <<>>]
  BY DEF Init, R!Init
<1>2. TableInv
  BY <1>1 DEF TableInv, R!Redirected
<1>3. got = Chars(0) /\ 0 \in 0..Length
  BY <1>1, DemosOK DEF Chars
<1>4. GotInv
  BY <1>1, <1>3 DEF GotInv
<1> QED BY <1>1, <1>2, <1>4 DEF RedirectInv, R!Delivered

LEMMA TableNext == TableInv /\ (R!Next \/ UNCHANGED rVars) => TableInv'
<1> SUFFICES ASSUME TableInv, R!Next \/ UNCHANGED rVars PROVE TableInv'
  OBVIOUS
<1> USE DEF TableInv, R!Redirected
<1>1. CASE R!Open
  BY <1>1 DEF R!Open, R!Target, R!File
<1>2. CASE R!DupOnto \/ R!DupFails
  BY <1>2 DEF R!DupOnto, R!DupFails, R!Target, R!File
<1>3. CASE R!CloseFd
  <2>1. /\ table' = R!Close(R!Dup2(R!Opened(given, R!File), fd, R!Target), fd)
        /\ fd = R!LowestFree(given) /\ given \in Tables
        /\ step' = "copy" /\ UNCHANGED <<which, given, fd>>
    BY <1>3 DEF R!CloseFd
  <2>2. table' = IF R!Redirects
                 THEN [d \in DOMAIN given \cup {R!Target} |->
                         IF d = R!Target THEN R!File ELSE given[d]]
                 ELSE given
    <3>1. PICK target, e, t, f : target = R!Target /\ e = R!File /\ t = given /\ f = fd
      OBVIOUS
    <3> HIDE DEF TableInv, R!Redirected
    <3>2. t \in Tables /\ f = R!LowestFree(t) /\ target \in {0, 1}
      BY <2>1, <3>1 DEF R!Target
    <3>4. /\ f # target => R!Close(R!Dup2(R!Opened(t, e), f, target), f)
                              = Moved(t, target, e)
          /\ f = target => R!Close(R!Dup2(R!Opened(t, e), f, target), f) = t
      BY <3>2, MovedFd
    <3>3. R!Redirects <=> fd # target
      BY <2>1, <3>1 DEF R!Redirects
    <3> QED BY <2>1, <3>1, <3>3, <3>4 DEF Moved
  <2> QED BY <2>1, <2>2 DEF R!Target, R!File, R!Redirects
<1>4. CASE R!OpenFails \/ R!PrintMessage \/ R!GetChar \/ R!Exit \/ UNCHANGED rVars
  BY <1>4 DEF R!OpenFails, R!PrintMessage, R!GetChar, R!Exit, rVars, R!Target, R!File,
              R!Redirects
<1> QED BY <1>1, <1>2, <1>3, <1>4 DEF R!Next

LEMMA GotNext == TableInv /\ GotInv /\ (R!Next \/ UNCHANGED rVars) => GotInv'
<1> SUFFICES ASSUME TableInv, GotInv, R!Next \/ UNCHANGED rVars PROVE GotInv'
  OBVIOUS
<1> USE DEF GotInv
<1>1. CASE \/ R!Open \/ R!OpenFails \/ R!DupOnto \/ R!DupFails \/ R!CloseFd
           \/ UNCHANGED rVars
  BY <1>1 DEF R!Open, R!OpenFails, R!DupOnto, R!DupFails, R!CloseFd, rVars, R!Target, R!File,
              R!Redirects
<1>2. CASE R!PrintMessage
  BY <1>2 DEF R!PrintMessage, R!File
<1>3. CASE R!GetChar
  <2>1. /\ which = "from" /\ step = "copy" /\ UNCHANGED <<which, given, table, fd, written>>
        /\ R!Target = 0 /\ R!Target' = 0
    BY <1>3 DEF R!GetChar, R!Target
  <2>2. PICK n \in 0..Length : got = Chars(n) /\ (~R!Redirects => n = 0)
    BY <2>1
  <2>3. n \in Nat
    BY <2>2, DemosOK
  <2>4. Len(got) = n /\ Append(got, <<"file", n + 1>>) = Chars(n + 1)
    BY <2>2, <2>3, CharsSeq
  <2>5. CASE ~R!Redirects
    <3>1. 0 \notin DOMAIN table
      BY <2>1, <2>5, FreeFd DEF TableInv, R!Redirected, R!Redirects
    <3>2. got' = got /\ step' = "exit"
      BY <1>3, <3>1 DEF R!GetChar
    <3> QED BY <2>1, <2>2, <2>5, <3>2, DemosOK DEF R!File, R!Redirects
  <2>6. CASE R!Redirects
    <3>1. 0 \in DOMAIN table /\ table[0] = R!File
      BY <2>1, <2>6 DEF TableInv, R!Redirected
    <3>2. table[0][1] = "file"
      BY <3>1 DEF R!File
    <3>3. CASE n < Length
      <4>1. got' = Chars(n + 1) /\ step' = "copy" /\ n + 1 \in 0..Length
        BY <1>3, <2>1, <2>2, <2>3, <2>4, <3>1, <3>2, <3>3, DemosOK DEF R!GetChar
      <4> QED BY <2>1, <2>6, <4>1 DEF R!File, R!Redirects
    <3>4. CASE n = Length
      <4>1. got' = Chars(Length) /\ step' = "exit" /\ Length \in 0..Length
        BY <1>3, <2>1, <2>2, <2>4, <3>4, DemosOK DEF R!GetChar
      <4> QED BY <2>1, <2>6, <4>1 DEF R!File, R!Redirects
    <3> QED BY <2>2, <3>3, <3>4, DemosOK
  <2> QED BY <2>5, <2>6
<1>4. CASE R!Exit
  BY <1>4 DEF R!Exit, R!Target, R!File, R!Redirects
<1> QED BY <1>1, <1>2, <1>3, <1>4 DEF R!Next

LEMMA DeliveredNext == RedirectInv /\ (R!Next \/ UNCHANGED rVars) => R!Delivered'
<1> SUFFICES ASSUME TableInv, GotInv, R!Delivered, R!Next \/ UNCHANGED rVars
             PROVE  R!Delivered'
  BY DEF RedirectInv
<1>1. CASE R!Exit
  <2>1. /\ step = "exit" /\ which \in {"to", "from"} /\ given \in Tables
        /\ written = [e \in {R!File, R!Stdout} |-> <<>>]
        /\ written' = [e \in DOMAIN written |->
                         IF R!Refers(table, 1, e) THEN written[e] \o got ELSE written[e]]
        /\ UNCHANGED <<which, given>>
    BY <1>1 DEF R!Exit, TableInv, GotInv
  <2>2. table = IF R!Redirects
                THEN [d \in DOMAIN given \cup {R!Target} |->
                        IF d = R!Target THEN R!File ELSE given[d]]
                ELSE given
    BY <2>1 DEF TableInv, R!Redirected
  <2>3. got = IF which = "to" THEN <<<<"message", 1>>>>
              ELSE IF R!Redirects THEN Chars(Length) ELSE Chars(0)
    BY <2>1 DEF GotInv
  <2>4. R!File # R!Stdout /\ Chars(0) = <<>> /\ <<>> \o got = got
    BY <2>3, CharsSeq, DemosOK DEF R!File, R!Stdout, Chars
  <2>5. 1 \in DOMAIN given => given[1] = R!Stdout
    <3>1. PICK t \in SUBSET DOMAIN Standard : given = [d \in t |-> Standard[d]]
      BY <2>1 DEF Tables
    <3>2. Standard[1] = R!Stdout
      BY DEF Standard, Stdout, R!Stdout
    <3> QED BY <3>1, <3>2
  <2>6. written' = [e \in {R!File, R!Stdout} |->
                     IF R!Refers(table, 1, e) THEN got ELSE <<>>]
    BY <2>1, <2>4
  <2>7. CASE which = "to"
    <3>1. \A e \in {R!File, R!Stdout} : R!Refers(table, 1, e) <=> R!Redirects /\ e = R!File
      <4>1. CASE R!Redirects
        BY <2>2, <2>4, <2>7, <4>1 DEF R!Refers, R!Target
      <4>2. CASE ~R!Redirects
        <5>1. 1 \notin DOMAIN table
          BY <2>1, <2>2, <2>7, <4>2, FreeFd DEF R!Redirects, R!Target
        <5> QED BY <4>2, <5>1 DEF R!Refers
      <4> QED BY <4>1, <4>2
    <3> QED BY <2>1, <2>3, <2>4, <2>6, <2>7, <3>1
            DEF R!Delivered, R!Redirects, R!Target, R!File, R!Stdout
  <2>8. CASE which = "from"
    <3>1. \A e \in {R!File, R!Stdout} :
            R!Redirects => (R!Refers(table, 1, e) <=> 1 \in DOMAIN given /\ e = R!Stdout)
      BY <2>2, <2>4, <2>5, <2>8 DEF R!Refers, R!Target
    <3>2. got = IF R!Redirects THEN Chars(Length) ELSE <<>>
      BY <2>3, <2>4, <2>8
    <3>3. written' = [e \in {R!File, R!Stdout} |->
                       IF R!Redirects /\ e = R!Stdout /\ 1 \in DOMAIN given
                       THEN Chars(Length) ELSE <<>>]
      BY <2>6, <3>1, <3>2
    <3> QED BY <2>1, <2>8, <3>3
            DEF R!Delivered, R!Redirects, R!Target, R!File, R!Stdout, Chars
  <2> QED BY <2>1, <2>7, <2>8
<1>2. CASE R!Open \/ R!OpenFails \/ R!DupOnto \/ R!DupFails \/ R!CloseFd \/ R!PrintMessage
  BY <1>2 DEF R!Open, R!OpenFails, R!DupOnto, R!DupFails, R!CloseFd, R!PrintMessage,
              R!Delivered
<1>3. CASE R!GetChar
  BY <1>3 DEF R!GetChar, R!Delivered
<1>4. CASE UNCHANGED rVars
  BY <1>4 DEF rVars, R!Delivered, R!Redirects, R!Target, R!File
<1> QED BY <1>1, <1>2, <1>3, <1>4 DEF R!Next

\* redirectto.c, redirectfrom.c: whichever of the standard descriptors were
\* closed, the redirected one is the file, the others are what was given, and
\* what is to reach the file, or come from it, does - but if open() returns the
\* descriptor to redirect, the table ends as it was given and nothing is copied.
THEOREM RedirectsTheFile == Spec => []Redirected
<1>1. RedirectInv /\ [Next]_vars => RedirectInv'
  BY DemoSteps, TableNext, GotNext, DeliveredNext DEF RedirectInv
<1>2. RedirectInv => Redirected
  BY DEF RedirectInv, TableInv, Redirected
<1> QED BY RedirectInit, <1>1, <1>2, PTL DEF Spec, vars

-----------------------------------------------------------------------------
(* fork.c *)

Texts == {"before", "after", "reaped", "after in child", "sleeping", "exiting"}

\* Where both processes are, and what each is still to print.
ForkControl ==
  /\ doing = [p \in F!Both |-> doing[p]] /\ todo = [p \in F!Both |-> todo[p]]
  /\ buffer = [p \in F!Both |-> buffer[p]] /\ screen \in Seq(Texts) /\ tty \in BOOLEAN
  /\ \/ /\ doing["parent"] = "fork" /\ doing["child"] = "none"
        /\ todo["parent"] \in {<<"before">>, <<>>}
     \/ /\ doing["parent"] = "waitpid" /\ doing["child"] \in {"exit", "exited", "killed"}
        /\ todo["parent"] \in {<<"after">>, <<>>}
     \/ /\ doing["parent"] = "exit" /\ doing["child"] \in {"exited", "killed"}
        /\ todo["parent"] \in {<<"reaped">>, <<>>}
     \/ /\ doing["parent"] = "exited" /\ doing["child"] \in {"exited", "killed"}
        /\ todo["parent"] = <<>>
     \/ /\ doing["parent"] \in {"exit", "exited"} /\ doing["child"] = "none"
        /\ todo["parent"] = <<>>
  /\ doing["child"] \in {"exit", "killed"} =>
       todo["child"] \in {<<"after in child", "sleeping", "exiting">>,
                          <<"sleeping", "exiting">>, <<"exiting">>, <<>>}
  /\ doing["child"] \in {"none", "exited"} => todo["child"] = <<>>

\* The lines that were printed.
ParentSaid ==
  IF doing["parent"] = "fork" THEN IF todo["parent"] = <<>> THEN {"before"} ELSE {}
  ELSE IF doing["child"] = "none" THEN {"before"}
  ELSE IF todo["parent"] = <<"after">> THEN {"before"}
  ELSE IF doing["parent"] = "waitpid" \/ todo["parent"] = <<"reaped">> THEN {"before", "after"}
  ELSE {"before", "after", "reaped"}

ChildSaid ==
  IF doing["child"] = "none" THEN {}
  ELSE IF todo["child"] = <<"exiting">> THEN {"after in child", "sleeping"}
  ELSE IF todo["child"] = <<"sleeping", "exiting">> THEN {"after in child"}
  ELSE IF todo["child"] = <<>> THEN {"after in child", "sleeping", "exiting"}
  ELSE {}

Said == ParentSaid \cup ChildSaid

\* In sequence s every line x comes before a line y.
Precedes(s, x, y) == \A k \in 1..Len(s) : s[k] = y => \E j \in 1..(k - 1) : s[j] = x

\* On a terminal the lines that were printed are on the screen, once.
OnTerminal ==
  /\ \A p \in F!Both : buffer[p] = <<>>
  /\ \A k \in 1..Len(screen) : screen[k] \in Said
  /\ \A x \in Said : \E k \in 1..Len(screen) : screen[k] = x
  /\ \A j, k \in 1..Len(screen) : screen[j] = screen[k] => j = k
  /\ F!ChildFirst
  /\ Precedes(screen, "before", "after") /\ Precedes(screen, "after", "reaped")
  /\ Precedes(screen, "before", "after in child")
  /\ Precedes(screen, "after in child", "sleeping") /\ Precedes(screen, "sleeping", "exiting")

OfChild  == <<"before", "after in child", "sleeping", "exiting">>
OfParent == <<"before", "after", "reaped">>
OfBoth   == <<"before", "after in child", "sleeping", "exiting", "before", "after", "reaped">>

\* Otherwise they are in the buffers, the child's with a copy of what the
\* parent had printed, until each exits.
InBuffers ==
  /\ doing["parent"] = "fork" =>
       buffer["parent"] = IF todo["parent"] = <<>> THEN <<"before">> ELSE <<>>
  /\ doing["parent"] = "waitpid" =>
       buffer["parent"] = IF todo["parent"] = <<>> THEN <<"before", "after">> ELSE <<"before">>
  /\ doing["parent"] = "exit" =>
       buffer["parent"] = IF doing["child"] = "none" THEN <<"before">>
                          ELSE IF todo["parent"] = <<>> THEN OfParent ELSE <<"before", "after">>
  /\ doing["child"] = "exit" =>
       buffer["child"] = IF todo["child"] = <<>> THEN OfChild
                         ELSE IF todo["child"] = <<"exiting">>
                              THEN <<"before", "after in child", "sleeping">>
                         ELSE IF todo["child"] = <<"sleeping", "exiting">>
                              THEN <<"before", "after in child">>
                         ELSE <<"before">>
  /\ screen = CASE doing["parent"] # "exited" /\ doing["child"] # "exited" -> <<>>
                [] doing["parent"] # "exited" /\ doing["child"] = "exited" -> OfChild
                [] doing["parent"] = "exited" /\ doing["child"] = "exited" -> OfBoth
                [] doing["parent"] = "exited" /\ doing["child"] = "killed" -> OfParent
                [] doing["parent"] = "exited" /\ doing["child"] = "none" -> <<"before">>
                [] OTHER -> <<>>

ForkInv == ForkControl /\ (tty => OnTerminal) /\ (~tty => InBuffers)

LEMMA ForkInit == Init => ForkInv
<1> SUFFICES ASSUME Init PROVE ForkInv
  OBVIOUS
<1>1. /\ tty \in BOOLEAN /\ screen = <<>>
      /\ doing = [p \in F!Both |-> IF p = "parent" THEN "fork" ELSE "none"]
      /\ todo = [p \in F!Both |-> IF p = "parent" THEN <<"before">> ELSE <<>>]
      /\ buffer = [p \in F!Both |-> <<>>]
  BY DEF Init, F!Init
<1>2. /\ doing["parent"] = "fork" /\ doing["child"] = "none"
      /\ todo["parent"] = <<"before">> /\ todo["child"] = <<>>
      /\ \A p \in F!Both : buffer[p] = <<>>
      /\ Len(screen) = 0 /\ <<"before">> # <<>>
  BY <1>1 DEF F!Both
<1>3. ForkControl
  <2>1. /\ doing = [p \in F!Both |-> doing[p]] /\ todo = [p \in F!Both |-> todo[p]]
        /\ buffer = [p \in F!Both |-> buffer[p]] /\ screen \in Seq(Texts)
    BY <1>1
  <2> QED BY <1>1, <1>2, <2>1 DEF ForkControl
<1>4. Said = {}
  BY <1>2 DEF Said, ParentSaid, ChildSaid
<1>5. OnTerminal
  BY <1>2, <1>4 DEF OnTerminal, Precedes, F!ChildFirst
<1>6. InBuffers
  BY <1>1, <1>2 DEF InBuffers, F!Both
<1> QED BY <1>3, <1>5, <1>6 DEF ForkInv

\* What is left of a text when its first line is printed.
LEMMA Printing ==
  /\ Head(<<"before">>) = "before" /\ Tail(<<"before">>) = <<>>
  /\ Head(<<"after">>) = "after" /\ Tail(<<"after">>) = <<>>
  /\ Head(<<"reaped">>) = "reaped" /\ Tail(<<"reaped">>) = <<>>
  /\ Head(<<"after in child", "sleeping", "exiting">>) = "after in child"
  /\ Tail(<<"after in child", "sleeping", "exiting">>) = <<"sleeping", "exiting">>
  /\ Head(<<"sleeping", "exiting">>) = "sleeping"
  /\ Tail(<<"sleeping", "exiting">>) = <<"exiting">>
  /\ Head(<<"exiting">>) = "exiting" /\ Tail(<<"exiting">>) = <<>>
  OBVIOUS

LEMMA Different ==
  /\ <<"before">> # <<>> /\ <<"after">> # <<>> /\ <<"reaped">> # <<>> /\ <<"exiting">> # <<>>
  /\ <<"sleeping", "exiting">> # <<>> /\ <<"sleeping", "exiting">> # <<"exiting">>
  /\ <<"after in child", "sleeping", "exiting">> # <<>>
  /\ <<"after in child", "sleeping", "exiting">> # <<"exiting">>
  /\ <<"after in child", "sleeping", "exiting">> # <<"sleeping", "exiting">>
  OBVIOUS

LEMMA Appended ==
  ASSUME NEW T, NEW s \in Seq(T), NEW x \in T
  PROVE  /\ Append(s, x) \in Seq(T) /\ Len(s) \in Nat /\ Len(Append(s, x)) = Len(s) + 1
         /\ Append(s, x)[Len(s) + 1] = x /\ \A k \in 1..Len(s) : Append(s, x)[k] = s[k]
         /\ \A k \in 1..Len(Append(s, x)) : k \in 1..Len(s) \/ k = Len(s) + 1
  OBVIOUS

LEMMA Elements ==
  ASSUME NEW T, NEW s \in Seq(T)
  PROVE  \A k \in 1..Len(s) : s[k] \in T
  OBVIOUS

LEMMA SameText ==
  ASSUME NEW s \in Seq(Texts), NEW x \in Texts, NEW t \in Seq(Texts), Len(t) = Len(s) + 1,
         t[Len(s) + 1] = x, \A k \in 1..Len(s) : s[k] = t[k]
  PROVE  Append(s, x) = t
<1> DEFINE z == Append(s, x)
<1>1. z \in Seq(Texts) /\ Len(z) = Len(t) /\ Len(t) \in Nat /\ \A k \in 1..Len(t) : z[k] = t[k]
  BY Appended
<1> HIDE DEF z
<1>2. z = t
  BY <1>1
<1> QED BY <1>2 DEF z

\* The buffers, a line later.
LEMMA Buffering ==
  /\ Append(<<>>, "before") = <<"before">>
  /\ Append(<<"before">>, "after") = <<"before", "after">>
  /\ Append(<<"before", "after">>, "reaped") = OfParent
  /\ Append(<<"before">>, "after in child") = <<"before", "after in child">>
  /\ Append(<<"before", "after in child">>, "sleeping")
       = <<"before", "after in child", "sleeping">>
  /\ Append(<<"before", "after in child", "sleeping">>, "exiting") = OfChild
<1> DEFINE one == <<"before">>
           two == <<"before", "after in child">>
           three == <<"before", "after in child", "sleeping">>
           both == <<"before", "after">>
<1>1. /\ {one, two, three, both, OfChild, OfParent} \subseteq Seq(Texts)
      /\ {"before", "after", "reaped", "after in child", "sleeping", "exiting"} = Texts
  BY DEF Texts, OfChild, OfParent
<1>2. Append(<<>>, "before") = <<"before">>
  OBVIOUS
<1>3. Append(one, "after") = both
  <2>1. Len(one) = 1 /\ Len(both) = 2 /\ one[1] = both[1] /\ both[2] = "after"
    OBVIOUS
  <2> HIDE DEF one, two, three, both
  <2>2. \A k \in 1..Len(one) : one[k] = both[k]
    BY <2>1
  <2>3. one \in Seq(Texts) /\ "after" \in Texts /\ both \in Seq(Texts)
    BY <1>1
  <2>4. Len(both) = Len(one) + 1 /\ both[Len(one) + 1] = "after"
    BY <2>1
  <2> QED BY <2>2, <2>3, <2>4, SameText
<1>4. Append(both, "reaped") = OfParent
  <2>1. /\ Len(both) = 2 /\ Len(OfParent) = 3 /\ both[1] = OfParent[1] /\ both[2] = OfParent[2]
        /\ OfParent[3] = "reaped"
    BY DEF OfParent
  <2> HIDE DEF one, two, three, both
  <2>2. \A k \in 1..Len(both) : both[k] = OfParent[k]
    BY <2>1
  <2>3. both \in Seq(Texts) /\ "reaped" \in Texts /\ OfParent \in Seq(Texts)
    BY <1>1
  <2>4. Len(OfParent) = Len(both) + 1 /\ OfParent[Len(both) + 1] = "reaped"
    BY <2>1
  <2> QED BY <2>2, <2>3, <2>4, SameText
<1>5. Append(one, "after in child") = two
  <2>1. Len(one) = 1 /\ Len(two) = 2 /\ one[1] = two[1]
    OBVIOUS
  <2>5. two[2] = "after in child"
    OBVIOUS
  <2> HIDE DEF one, two, three, both
  <2>2. \A k \in 1..Len(one) : one[k] = two[k]
    BY <2>1
  <2>3. one \in Seq(Texts) /\ "after in child" \in Texts /\ two \in Seq(Texts)
    BY <1>1
  <2>4. Len(two) = Len(one) + 1 /\ Len(one) + 1 = 2
    BY <2>1
  <2>6. two[Len(one) + 1] = "after in child"
    BY <2>4, <2>5
  <2> QED BY <2>2, <2>3, <2>4, <2>6, SameText
<1>6. Append(two, "sleeping") = three
  <2>1. /\ Len(two) = 2 /\ Len(three) = 3 /\ two[1] = three[1] /\ two[2] = three[2] /\ three[3] = "sleeping"
    OBVIOUS
  <2> HIDE DEF one, two, three, both
  <2>2. \A k \in 1..Len(two) : two[k] = three[k]
    BY <2>1
  <2>3. two \in Seq(Texts) /\ "sleeping" \in Texts /\ three \in Seq(Texts)
    BY <1>1
  <2>4. Len(three) = Len(two) + 1 /\ three[Len(two) + 1] = "sleeping"
    BY <2>1
  <2> QED BY <2>2, <2>3, <2>4, SameText
<1>7. Append(three, "exiting") = OfChild
  <2>1. /\ Len(three) = 3 /\ Len(OfChild) = 4 /\ OfChild[4] = "exiting"
        /\ three[1] = OfChild[1] /\ three[2] = OfChild[2] /\ three[3] = OfChild[3]
    BY DEF OfChild
  <2> HIDE DEF one, two, three, both
  <2>2. \A k \in 1..Len(three) : three[k] = OfChild[k]
    BY <2>1
  <2>3. three \in Seq(Texts) /\ "exiting" \in Texts /\ OfChild \in Seq(Texts)
    BY <1>1
  <2>4. Len(OfChild) = Len(three) + 1 /\ OfChild[Len(three) + 1] = "exiting"
    BY <2>1
  <2> QED BY <2>2, <2>3, <2>4, SameText
<1> QED BY <1>2, <1>3, <1>4, <1>5, <1>6, <1>7

\* What follows from the printing of a line, wherever the process is.
LEMMA PrintStep ==
  ASSUME NEW p \in F!Both, ForkControl, F!Printf(p), NEW x, x = Head(todo[p])
  PROVE  /\ ForkControl'
         /\ x \in Texts \ Said /\ Said' = Said \cup {x} /\ "reaped" \notin Said
         /\ x \in {"after", "after in child"} => "before" \in Said
         /\ x = "reaped" => "after" \in Said
         /\ x = "sleeping" => "after in child" \in Said
         /\ x = "exiting" => "sleeping" \in Said
         /\ InBuffers /\ ~tty => InBuffers'
<1>1. /\ todo' = [todo EXCEPT ![p] = Tail(@)] /\ UNCHANGED <<tty, doing>>
      /\ doing[p] \in {"fork", "waitpid", "exit"} /\ todo[p] # <<>>
      /\ p \in {"parent", "child"} /\ F!Both = {"parent", "child"}
      /\ todo = [q \in F!Both |-> todo[q]] /\ buffer = [q \in F!Both |-> buffer[q]]
      /\ screen \in Seq(Texts)
  BY DEF F!Printf, F!Running, F!Both, ForkControl
<1>2. /\ todo'[p] = Tail(todo[p]) /\ todo' = [q \in F!Both |-> todo'[q]]
      /\ \A q \in F!Both \ {p} : todo'[q] = todo[q]
  BY <1>1
<1>3. IF tty THEN screen' = Append(screen, x) /\ UNCHANGED buffer
             ELSE buffer' = [buffer EXCEPT ![p] = Append(@, x)] /\ UNCHANGED screen
  BY DEF F!Printf
<1>4. /\ buffer' = [q \in F!Both |-> buffer'[q]]
      /\ ~tty => /\ buffer'[p] = Append(buffer[p], x) /\ screen' = screen
                 /\ \A q \in F!Both \ {p} : buffer'[q] = buffer[q]
  BY <1>1, <1>3
<1>5. x \in Texts => screen' \in Seq(Texts)
  <2>1. CASE tty
    <3>1. screen' = Append(screen, x)
      BY <1>3, <2>1
    <3> QED BY <1>1, <3>1, Appended
  <2>2. CASE ~tty
    BY <1>1, <1>3, <2>2
  <2> QED BY <2>1, <2>2
<1>6. /\ \/ doing["parent"] = "fork" /\ todo["parent"] = <<"before">> /\ p = "parent"
            /\ doing["child"] = "none"
         \/ doing["parent"] = "waitpid" /\ todo["parent"] = <<"after">> /\ p = "parent"
         \/ doing["parent"] = "exit" /\ todo["parent"] = <<"reaped">> /\ p = "parent"
         \/ doing["child"] = "exit" /\ p = "child" /\ doing["parent"] = "waitpid"
            /\ todo["child"] = <<"after in child", "sleeping", "exiting">>
         \/ doing["child"] = "exit" /\ p = "child" /\ doing["parent"] = "waitpid"
            /\ todo["child"] = <<"sleeping", "exiting">>
         \/ doing["child"] = "exit" /\ p = "child" /\ doing["parent"] = "waitpid"
            /\ todo["child"] = <<"exiting">>
  BY <1>1 DEF ForkControl
<1> USE <1>1, <1>2, <1>5, Different, Printing
<1>7. CASE p = "parent"
  <2>1. x \in Texts /\ ForkControl'
    BY <1>4, <1>6, <1>7 DEF ForkControl, Texts
  <2>2. x \in Texts \ Said /\ Said' = Said \cup {x} /\ "reaped" \notin Said
    <3>1. ChildSaid' = ChildSaid
      BY <1>6, <1>7 DEF ForkControl, ChildSaid
    <3>2. x \notin ParentSaid /\ ParentSaid' = ParentSaid \cup {x} /\ "reaped" \notin ParentSaid
      <4>1. CASE doing["parent"] = "fork"
        <5>1. ParentSaid = {} /\ x = "before"
          BY <1>6, <1>7, <4>1 DEF ForkControl, ParentSaid
        <5>2. ParentSaid' = {"before"}
          BY <1>6, <1>7, <4>1 DEF ForkControl, ParentSaid
        <5> QED BY <5>1, <5>2
      <4>2. CASE doing["parent"] = "waitpid"
        <5>1. ParentSaid = {"before"} /\ x = "after"
          BY <1>6, <1>7, <4>2 DEF ForkControl, ParentSaid
        <5>2. ParentSaid' = {"before", "after"}
          BY <1>6, <1>7, <4>2 DEF ForkControl, ParentSaid
        <5> QED BY <5>1, <5>2
      <4>3. CASE doing["parent"] = "exit"
        <5>1. ParentSaid = {"before", "after"} /\ x = "reaped"
          BY <1>6, <1>7, <4>3 DEF ForkControl, ParentSaid
        <5>2. ParentSaid' = {"before", "after", "reaped"}
          BY <1>6, <1>7, <4>3 DEF ForkControl, ParentSaid
        <5> QED BY <5>1, <5>2
      <4> QED BY <1>6, <1>7, <4>1, <4>2, <4>3
    <3>3. x \notin ChildSaid /\ "reaped" \notin ChildSaid
      BY <1>6, <1>7 DEF ForkControl, ChildSaid
    <3> QED BY <2>1, <3>1, <3>2, <3>3 DEF Said
  <2>3. x = "after" => "before" \in Said
    BY <1>6, <1>7 DEF Said, ParentSaid, ChildSaid
  <2>4. x = "reaped" => "after" \in Said
    BY <1>6, <1>7 DEF Said, ParentSaid, ChildSaid, ForkControl
  <2>5. x \in {"before", "after", "reaped"}
    BY <1>6, <1>7
  <2>6. ASSUME InBuffers, ~tty PROVE InBuffers'
    <3>1. /\ UNCHANGED <<screen, doing>> /\ todo'["parent"] = <<>> /\ todo'["child"] = todo["child"]
          /\ buffer'["parent"] = Append(buffer["parent"], x) /\ buffer'["child"] = buffer["child"]
      BY <1>4, <1>6, <1>7, <2>6
    <3>2. buffer'["parent"] = IF doing["parent"] = "fork" THEN <<"before">>
                              ELSE IF doing["parent"] = "waitpid" THEN <<"before", "after">>
                              ELSE OfParent
      <4>1. CASE doing["parent"] = "fork"
        <5>1. x = "before" /\ todo["parent"] # <<>> /\ (doing["parent"] = "exit" => doing["child"] # "none")
          BY <1>6, <1>7, <4>1 DEF ForkControl
        <5>2. buffer["parent"] = <<>>
          BY <2>6, <4>1, <5>1 DEF InBuffers
        <5> QED BY <3>1, <4>1, <5>1, <5>2, Buffering
      <4>2. CASE doing["parent"] = "waitpid"
        <5>1. x = "after" /\ todo["parent"] # <<>> /\ (doing["parent"] = "exit" => doing["child"] # "none")
          BY <1>6, <1>7, <4>2 DEF ForkControl
        <5>2. buffer["parent"] = <<"before">>
          BY <2>6, <4>2, <5>1 DEF InBuffers
        <5> QED BY <3>1, <4>2, <5>1, <5>2, Buffering
      <4>3. CASE doing["parent"] = "exit"
        <5>1. x = "reaped" /\ todo["parent"] # <<>> /\ (doing["parent"] = "exit" => doing["child"] # "none")
          BY <1>6, <1>7, <4>3 DEF ForkControl
        <5>2. buffer["parent"] = <<"before", "after">>
          BY <2>6, <4>3, <5>1 DEF InBuffers
        <5> QED BY <3>1, <4>3, <5>1, <5>2, Buffering
      <4> QED BY <1>6, <1>7, <4>1, <4>2, <4>3
    <3>3. doing["parent"] = "exit" => doing["child"] # "none"
      BY <1>6, <1>7 DEF ForkControl
    <3> QED BY <2>6, <3>1, <3>2, <3>3 DEF InBuffers
  <2> QED BY <2>1, <2>2, <2>3, <2>4, <2>5, <2>6
<1>8. CASE p = "child"
  <2>1. x \in Texts /\ ForkControl'
    BY <1>4, <1>6, <1>8 DEF ForkControl, Texts
  <2>2. x \in Texts \ Said /\ Said' = Said \cup {x} /\ "reaped" \notin Said
    <3>1. ParentSaid' = ParentSaid
      BY <1>6, <1>8 DEF ForkControl, ParentSaid
    <3>2. x \notin ChildSaid /\ ChildSaid' = ChildSaid \cup {x} /\ "reaped" \notin ChildSaid
      <4>1. CASE todo["child"] = <<"after in child", "sleeping", "exiting">>
        <5>1. ChildSaid = {} /\ x = "after in child"
          BY <1>6, <1>8, <4>1 DEF ForkControl, ChildSaid
        <5>2. ChildSaid' = {"after in child"}
          BY <1>6, <1>8, <4>1 DEF ForkControl, ChildSaid
        <5> QED BY <5>1, <5>2
      <4>2. CASE todo["child"] = <<"sleeping", "exiting">>
        <5>1. ChildSaid = {"after in child"} /\ x = "sleeping"
          BY <1>6, <1>8, <4>2 DEF ForkControl, ChildSaid
        <5>2. ChildSaid' = {"after in child", "sleeping"}
          BY <1>6, <1>8, <4>2 DEF ForkControl, ChildSaid
        <5> QED BY <5>1, <5>2
      <4>3. CASE todo["child"] = <<"exiting">>
        <5>1. ChildSaid = {"after in child", "sleeping"} /\ x = "exiting"
          BY <1>6, <1>8, <4>3 DEF ForkControl, ChildSaid
        <5>2. ChildSaid' = {"after in child", "sleeping", "exiting"}
          BY <1>6, <1>8, <4>3 DEF ForkControl, ChildSaid
        <5> QED BY <5>1, <5>2
      <4> QED BY <1>6, <1>8, <4>1, <4>2, <4>3
    <3>3. x \notin ParentSaid /\ "reaped" \notin ParentSaid
      BY <1>6, <1>8 DEF ForkControl, ParentSaid
    <3> QED BY <2>1, <3>1, <3>2, <3>3 DEF Said
  <2>3. x = "after in child" => "before" \in Said
    BY <1>6, <1>8 DEF Said, ParentSaid, ChildSaid
  <2>4. x = "sleeping" => "after in child" \in Said
    BY <1>6, <1>8 DEF Said, ParentSaid, ChildSaid
  <2>5. x = "exiting" => "sleeping" \in Said
    BY <1>6, <1>8 DEF Said, ParentSaid, ChildSaid
  <2>6. x \in {"after in child", "sleeping", "exiting"}
    BY <1>6, <1>8
  <2>7. ASSUME InBuffers, ~tty PROVE InBuffers'
    <3>1. /\ UNCHANGED <<screen, doing>> /\ todo'["parent"] = todo["parent"]
          /\ todo'["child"] = Tail(todo["child"])
          /\ buffer'["child"] = Append(buffer["child"], x) /\ buffer'["parent"] = buffer["parent"]
      BY <1>4, <1>6, <1>8, <2>7
    <3>2. buffer'["child"] = IF todo'["child"] = <<>> THEN OfChild
                             ELSE IF todo'["child"] = <<"exiting">>
                                  THEN <<"before", "after in child", "sleeping">>
                             ELSE IF todo'["child"] = <<"sleeping", "exiting">>
                                  THEN <<"before", "after in child">>
                             ELSE <<"before">>
      <4>1. CASE todo["child"] = <<"after in child", "sleeping", "exiting">>
        <5>1. x = "after in child" /\ doing["child"] = "exit"
          BY <1>6, <1>8, <4>1
        <5>2. buffer["child"] = <<"before">>
          BY <2>7, <4>1, <5>1 DEF InBuffers
        <5>3. todo'["child"] = <<"sleeping", "exiting">>
          BY <3>1, <4>1
        <5>4. buffer'["child"] = <<"before", "after in child">>
          BY <3>1, <5>1, <5>2, Buffering
        <5> QED BY <5>3, <5>4
      <4>2. CASE todo["child"] = <<"sleeping", "exiting">>
        <5>1. x = "sleeping" /\ doing["child"] = "exit"
          BY <1>6, <1>8, <4>2
        <5>2. buffer["child"] = <<"before", "after in child">>
          BY <2>7, <4>2, <5>1 DEF InBuffers
        <5>3. todo'["child"] = <<"exiting">>
          BY <3>1, <4>2
        <5>4. buffer'["child"] = <<"before", "after in child", "sleeping">>
          BY <3>1, <5>1, <5>2, Buffering
        <5> QED BY <5>3, <5>4
      <4>3. CASE todo["child"] = <<"exiting">>
        <5>1. x = "exiting" /\ doing["child"] = "exit"
          BY <1>6, <1>8, <4>3
        <5>2. buffer["child"] = <<"before", "after in child", "sleeping">>
          BY <2>7, <4>3, <5>1 DEF InBuffers
        <5>3. todo'["child"] = <<>>
          BY <3>1, <4>3
        <5>4. buffer'["child"] = OfChild
          BY <3>1, <5>1, <5>2, Buffering
        <5> QED BY <5>3, <5>4
      <4> QED BY <1>6, <1>8, <4>1, <4>2, <4>3
    <3> QED BY <2>7, <3>1, <3>2 DEF InBuffers
  <2> QED BY <2>1, <2>2, <2>3, <2>4, <2>5, <2>6, <2>7
<1> QED BY <1>7, <1>8

\* A line is put at the end of the screen.
LEMMA AppendPrecedes ==
  ASSUME NEW s \in Seq(Texts), NEW x \in Texts, NEW a, NEW b, Precedes(s, a, b),
         x = b => \E k \in 1..Len(s) : s[k] = a
  PROVE  Precedes(Append(s, x), a, b)
<1> DEFINE z == Append(s, x)
<1>1. /\ Len(s) \in Nat /\ Len(z) = Len(s) + 1 /\ z[Len(s) + 1] = x
      /\ \A k \in 1..Len(s) : z[k] = s[k]
  OBVIOUS
<1> HIDE DEF z
<1>2. ASSUME NEW k \in 1..Len(z), z[k] = b PROVE \E j \in 1..(k - 1) : z[j] = a
  <2>1. CASE k \in 1..Len(s)
    <3>1. PICK j \in 1..(k - 1) : s[j] = a
      BY <1>1, <1>2, <2>1 DEF Precedes
    <3> QED BY <1>1, <2>1, <3>1
  <2>2. CASE k = Len(s) + 1
    <3>1. PICK j \in 1..Len(s) : s[j] = a
      BY <1>1, <1>2, <2>2
    <3> QED BY <1>1, <2>2, <3>1
  <2> QED BY <1>1, <2>1, <2>2
<1> QED BY <1>2 DEF Precedes, z

LEMMA PrintOnTerminal ==
  ASSUME NEW p \in F!Both, ForkControl, OnTerminal, tty, F!Printf(p)
  PROVE  OnTerminal'
<1> DEFINE x == Head(todo[p])
<1>1. /\ x \in Texts \ Said /\ Said' = Said \cup {x} /\ "reaped" \notin Said
      /\ x \in {"after", "after in child"} => "before" \in Said
      /\ x = "reaped" => "after" \in Said
      /\ x = "sleeping" => "after in child" \in Said
      /\ x = "exiting" => "sleeping" \in Said
  BY PrintStep
<1>2. screen' = Append(screen, x) /\ UNCHANGED buffer /\ screen \in Seq(Texts)
  BY DEF F!Printf, ForkControl
<1> HIDE DEF x
<1>3. /\ Len(screen) \in Nat /\ Len(screen') = Len(screen) + 1 /\ screen'[Len(screen) + 1] = x
      /\ \A k \in 1..Len(screen) : screen'[k] = screen[k]
  <2>1. screen \in Seq(Texts) /\ x \in Texts
    BY <1>1, <1>2
  <2>2. /\ Len(screen) \in Nat /\ Len(Append(screen, x)) = Len(screen) + 1
        /\ Append(screen, x)[Len(screen) + 1] = x
        /\ \A k \in 1..Len(screen) : Append(screen, x)[k] = screen[k]
    BY <2>1, Appended
  <2> QED BY <1>2, <2>2
<1>10. \A k \in 1..Len(screen') : k \in 1..Len(screen) \/ k = Len(screen')
  BY <1>3
<1>4. \A y \in Said : \E k \in 1..Len(screen) : screen[k] = y
  BY DEF OnTerminal
<1>5. /\ Precedes(screen', "before", "after") /\ Precedes(screen', "after", "reaped")
      /\ Precedes(screen', "before", "after in child")
      /\ Precedes(screen', "after in child", "sleeping") /\ Precedes(screen', "sleeping", "exiting")
  BY <1>1, <1>2, <1>4, AppendPrecedes DEF OnTerminal
<1>6. \A k \in 1..Len(screen') : screen'[k] \in Said'
  BY <1>1, <1>3, <1>10 DEF OnTerminal
<1>7. \A y \in Said' : \E k \in 1..Len(screen') : screen'[k] = y
  <2> SUFFICES ASSUME NEW y \in Said' PROVE \E k \in 1..Len(screen') : screen'[k] = y
    OBVIOUS
  <2>1. CASE y = x
    BY <1>3, <2>1
  <2>2. CASE y \in Said
    <3>1. PICK k \in 1..Len(screen) : screen[k] = y
      BY <1>4, <2>2
    <3> QED BY <1>3, <3>1
  <2> QED BY <1>1, <2>1, <2>2
<1>8. \A j, k \in 1..Len(screen') : screen'[j] = screen'[k] => j = k
  <2>1. \A k \in 1..Len(screen) : screen'[k] # x
    BY <1>1, <1>3 DEF OnTerminal
  <2>2. \A j, k \in 1..Len(screen) : screen'[j] = screen'[k] => j = k
    BY <1>3 DEF OnTerminal
  <2> QED BY <1>3, <1>10, <2>1, <2>2
<1>9. \A k \in 1..Len(screen') : screen'[k] = "reaped" => k = Len(screen')
  <2>1. \A k \in 1..Len(screen) : screen'[k] # "reaped"
    <3>1. \A k \in 1..Len(screen) : screen[k] \in Said
      BY DEF OnTerminal
    <3> QED BY <1>1, <1>3, <3>1
  <2> QED BY <1>3, <1>10, <2>1
<1> QED BY <1>2, <1>5, <1>6, <1>7, <1>8, <1>9 DEF OnTerminal, F!ChildFirst

\* The other steps print nothing.
LEMMA SilentStep ==
  ASSUME ForkControl, ForkControl', Said' = Said, UNCHANGED screen, OnTerminal,
         \A p \in F!Both : buffer'[p] = <<>>
  PROVE  OnTerminal'
<1>1. \A p \in F!Both : buffer'[p] = <<>>
  OBVIOUS
<1>2. /\ \A k \in 1..Len(screen) : screen[k] \in Said
      /\ \A x \in Said : \E k \in 1..Len(screen) : screen[k] = x
      /\ \A j, k \in 1..Len(screen) : screen[j] = screen[k] => j = k
      /\ F!ChildFirst
  BY DEF OnTerminal
<1>3. /\ Precedes(screen, "before", "after") /\ Precedes(screen, "after", "reaped")
      /\ Precedes(screen, "before", "after in child")
      /\ Precedes(screen, "after in child", "sleeping") /\ Precedes(screen, "sleeping", "exiting")
  BY DEF OnTerminal
<1>4. /\ \A k \in 1..Len(screen') : screen'[k] \in Said'
      /\ \A x \in Said' : \E k \in 1..Len(screen') : screen'[k] = x
      /\ \A j, k \in 1..Len(screen') : screen'[j] = screen'[k] => j = k
  BY <1>2
<1>5. F!ChildFirst'
  BY <1>2 DEF F!ChildFirst
<1>6. /\ Precedes(screen', "before", "after") /\ Precedes(screen', "after", "reaped")
      /\ Precedes(screen', "before", "after in child")
      /\ Precedes(screen', "after in child", "sleeping") /\ Precedes(screen', "sleeping", "exiting")
  BY <1>3
<1> QED BY <1>1, <1>4, <1>5, <1>6 DEF OnTerminal

LEMMA ForkStep == ForkInv /\ F!Fork => ForkInv'
<1> SUFFICES ASSUME ForkInv, F!Fork PROVE ForkInv'
  OBVIOUS
<1>1. /\ doing["parent"] = "fork" /\ todo["parent"] = <<>> /\ doing["child"] = "none"
      /\ todo["child"] = <<>> /\ UNCHANGED <<tty, screen>> /\ screen \in Seq(Texts) /\ tty \in BOOLEAN
      /\ buffer = [q \in F!Both |-> buffer[q]] /\ F!Both = {"parent", "child"}
  BY DEF F!Fork, F!Calls, ForkInv, ForkControl, F!Both
<1>2. /\ doing'["parent"] = "waitpid" /\ doing'["child"] = "exit"
      /\ doing' = [q \in F!Both |-> doing'[q]]
  BY DEF F!Fork, F!Both
<1>3. /\ todo'["parent"] = <<"after">>
      /\ todo'["child"] = <<"after in child", "sleeping", "exiting">>
      /\ todo' = [q \in F!Both |-> todo'[q]]
  BY DEF F!Fork, F!Both, F!ChildPrints
<1>4. /\ buffer'["parent"] = buffer["parent"] /\ buffer'["child"] = buffer["parent"]
      /\ buffer' = [q \in F!Both |-> buffer'[q]]
  BY <1>1 DEF F!Fork
<1>5. ForkControl'
  BY <1>1, <1>2, <1>3, <1>4 DEF ForkControl
<1>6. Said' = Said
  BY <1>1, <1>2, <1>3, Different DEF Said, ParentSaid, ChildSaid
<1>7. ASSUME tty PROVE OnTerminal'
  <2>1. \A p \in F!Both : buffer'[p] = <<>>
    BY <1>1, <1>4, <1>7 DEF ForkInv, OnTerminal
  <2> QED BY <1>1, <1>5, <1>6, <1>7, <2>1, SilentStep DEF ForkInv
<1>8. ASSUME ~tty PROVE InBuffers'
  <2>1. screen = <<>> /\ buffer["parent"] = <<"before">>
    BY <1>1, <1>8 DEF ForkInv, InBuffers
  <2>2. screen' = <<>> /\ buffer'["parent"] = <<"before">> /\ buffer'["child"] = <<"before">>
    BY <1>1, <1>4, <2>1
  <2> QED BY <1>2, <1>3, <2>2, Different DEF InBuffers
<1> QED BY <1>1, <1>5, <1>7, <1>8 DEF ForkInv

LEMMA CallStep == ForkInv /\ (F!ForkFails \/ F!Waitpid \/ F!KillChild) => ForkInv'
<1> SUFFICES ASSUME ForkInv, F!ForkFails \/ F!Waitpid \/ F!KillChild PROVE ForkInv'
  OBVIOUS
<1>1. /\ UNCHANGED <<tty, buffer, screen>> /\ screen \in Seq(Texts) /\ tty \in BOOLEAN
      /\ doing = [q \in F!Both |-> doing[q]] /\ todo = [q \in F!Both |-> todo[q]]
      /\ buffer = [q \in F!Both |-> buffer[q]] /\ F!Both = {"parent", "child"}
  BY DEF F!ForkFails, F!Waitpid, F!KillChild, ForkInv, ForkControl, F!Both
<1>2. ASSUME ForkControl', Said' = Said, ~tty => InBuffers' PROVE ForkInv'
  <2>1. tty => OnTerminal'
    BY <1>1, <1>2, SilentStep DEF ForkInv, OnTerminal
  <2> QED BY <1>1, <1>2, <2>1 DEF ForkInv
<1>3. CASE F!ForkFails
  <2>1. /\ doing["parent"] = "fork" /\ todo["parent"] = <<>> /\ doing["child"] = "none"
        /\ todo["child"] = <<>> /\ UNCHANGED todo /\ doing'["parent"] = "exit"
        /\ doing'["child"] = "none" /\ doing' = [q \in F!Both |-> doing'[q]]
    BY <1>1, <1>3 DEF F!ForkFails, F!Calls, ForkInv, ForkControl
  <2>2. ForkControl'
    BY <1>1, <2>1 DEF ForkControl
  <2>3. Said' = Said
    BY <2>1, Different DEF Said, ParentSaid, ChildSaid
  <2>4. ~tty => InBuffers'
    BY <1>1, <2>1 DEF ForkInv, InBuffers
  <2> QED BY <1>2, <2>2, <2>3, <2>4
<1>4. CASE F!Waitpid
  <2>1. /\ doing["parent"] = "waitpid" /\ todo["parent"] = <<>>
        /\ doing["child"] \in {"exited", "killed"} /\ UNCHANGED buffer
        /\ doing'["parent"] = "exit" /\ doing'["child"] = doing["child"]
        /\ doing' = [q \in F!Both |-> doing'[q]]
    BY <1>1, <1>4 DEF F!Waitpid, F!Calls, F!Waitable
  <2>2. /\ todo'["parent"] = <<"reaped">> /\ todo'["child"] = todo["child"]
        /\ todo' = [q \in F!Both |-> todo'[q]]
    BY <1>1, <1>4 DEF F!Waitpid
  <2>3. ForkControl'
    BY <1>1, <2>1, <2>2 DEF ForkControl, ForkInv
  <2>4. Said' = Said
    BY <2>1, <2>2, Different DEF Said, ParentSaid, ChildSaid
  <2>5. ~tty => InBuffers'
    BY <1>1, <2>1, <2>2, Different DEF ForkInv, InBuffers
  <2> QED BY <1>2, <2>3, <2>4, <2>5
<1>5. CASE F!KillChild
  <2>1. /\ doing["child"] = "exit" /\ UNCHANGED todo /\ doing'["child"] = "killed"
        /\ doing'["parent"] = doing["parent"] /\ doing' = [q \in F!Both |-> doing'[q]]
        /\ doing["parent"] = "waitpid"
    BY <1>1, <1>5 DEF F!KillChild, ForkInv, ForkControl
  <2>2. ForkControl'
    BY <1>1, <2>1 DEF ForkControl, ForkInv
  <2>3. Said' = Said
    BY <2>1 DEF Said, ParentSaid, ChildSaid
  <2>4. ~tty => InBuffers'
    BY <1>1, <2>1 DEF ForkInv, InBuffers
  <2> QED BY <1>2, <2>2, <2>3, <2>4
<1> QED BY <1>3, <1>4, <1>5

LEMMA Joined ==
  ASSUME NEW s \in Seq(Texts), NEW t \in Seq(Texts)
  PROVE  /\ s \o t \in Seq(Texts) /\ Len(s \o t) = Len(s) + Len(t)
         /\ \A k \in 1..Len(s) : (s \o t)[k] = s[k]
         /\ \A k \in 1..Len(t) : (s \o t)[Len(s) + k] = t[k]
  OBVIOUS

\* exit() of either process, after the lines that were on the screen.
LEMMA Flushing ==
  /\ \A s \in Seq(Texts) : s \o <<>> = s /\ <<>> \o s = s
  /\ OfChild \o OfParent = OfBoth
  /\ OfChild \in Seq(Texts) /\ OfParent \in Seq(Texts) /\ OfBoth \in Seq(Texts)
  /\ <<"before">> \in Seq(Texts) /\ <<>> \in Seq(Texts)
<1>1. \A s \in Seq(Texts) : s \o <<>> = s /\ <<>> \o s = s
  OBVIOUS
<1>2. /\ OfChild \in Seq(Texts) /\ OfParent \in Seq(Texts) /\ OfBoth \in Seq(Texts)
      /\ <<"before">> \in Seq(Texts) /\ <<>> \in Seq(Texts)
  BY DEF OfChild, OfParent, OfBoth, Texts
<1>3. /\ Len(OfChild) = 4 /\ Len(OfParent) = 3 /\ Len(OfBoth) = 7
      /\ OfChild[1] = OfBoth[1] /\ OfChild[2] = OfBoth[2] /\ OfChild[3] = OfBoth[3]
      /\ OfChild[4] = OfBoth[4] /\ OfParent[1] = OfBoth[5] /\ OfParent[2] = OfBoth[6]
      /\ OfParent[3] = OfBoth[7]
  BY DEF OfChild, OfParent, OfBoth
<1> DEFINE z == OfChild \o OfParent
<1>4. /\ z \in Seq(Texts) /\ Len(z) = 7 /\ \A k \in 1..4 : z[k] = OfChild[k]
      /\ z[5] = OfParent[1] /\ z[6] = OfParent[2] /\ z[7] = OfParent[3]
  <2>1. /\ z \in Seq(Texts) /\ Len(z) = Len(OfChild) + Len(OfParent)
        /\ \A k \in 1..Len(OfChild) : z[k] = OfChild[k]
        /\ \A k \in 1..Len(OfParent) : z[Len(OfChild) + k] = OfParent[k]
    BY <1>2, Joined
  <2> HIDE DEF z
  <2>2. z[4 + 1] = OfParent[1] /\ z[4 + 2] = OfParent[2] /\ z[4 + 3] = OfParent[3]
    BY <1>3, <2>1
  <2> QED BY <1>3, <2>1, <2>2
<1> HIDE DEF z
<1>5. \A k \in 1..7 : z[k] = OfBoth[k]
  BY <1>3, <1>4
<1>6. z = OfBoth
  BY <1>2, <1>3, <1>4, <1>5
<1> QED BY <1>1, <1>2, <1>6 DEF z

LEMMA ExitStep == ForkInv /\ (F!Exit("parent") \/ F!Exit("child")) => ForkInv'
<1> SUFFICES ASSUME NEW p \in F!Both, ForkInv, F!Exit(p) PROVE ForkInv'
  BY DEF F!Both
<1>1. /\ UNCHANGED <<tty, todo>> /\ screen \in Seq(Texts) /\ tty \in BOOLEAN
      /\ doing = [q \in F!Both |-> doing[q]] /\ todo = [q \in F!Both |-> todo[q]]
      /\ buffer = [q \in F!Both |-> buffer[q]] /\ p \in {"parent", "child"}
      /\ F!Both = {"parent", "child"} /\ doing[p] = "exit" /\ todo[p] = <<>>
  BY DEF F!Exit, F!Calls, ForkInv, ForkControl, F!Both
<1>2. /\ doing'[p] = "exited" /\ doing' = [q \in F!Both |-> doing'[q]]
      /\ \A q \in F!Both \ {p} : doing'[q] = doing[q]
      /\ buffer'[p] = <<>> /\ buffer' = [q \in F!Both |-> buffer'[q]]
      /\ \A q \in F!Both \ {p} : buffer'[q] = buffer[q]
      /\ screen' = screen \o buffer[p]
  BY <1>1 DEF F!Exit, F!Flushed
<1>3. ForkControl /\ (tty => OnTerminal) /\ (~tty => InBuffers)
  BY DEF ForkInv
<1>4. /\ p = "parent" => doing["child"] \in {"none", "exited", "killed"}
      /\ p = "child" => doing["parent"] = "waitpid"
  BY <1>1, <1>3 DEF ForkControl
<1>5. screen' \in Seq(Texts) /\ (tty => screen' = screen)
  <2>1. CASE tty
    BY <1>1, <1>2, <1>3, <2>1, Flushing DEF OnTerminal
  <2>2. CASE ~tty
    <3>1. buffer[p] \in {OfChild, OfParent, <<"before">>}
      BY <1>1, <1>3, <1>4, <2>2 DEF InBuffers
    <3>2. buffer[p] \in Seq(Texts)
      BY <3>1, Flushing
    <3>3. screen \o buffer[p] \in Seq(Texts)
      BY <1>1, <3>2
    <3> QED BY <1>2, <2>2, <3>3
  <2> QED BY <2>1, <2>2
<1>6. ForkControl'
  <2>1. CASE p = "parent"
    BY <1>1, <1>2, <1>3, <1>4, <1>5, <2>1 DEF ForkControl
  <2>2. CASE p = "child"
    BY <1>1, <1>2, <1>3, <1>4, <1>5, <2>2 DEF ForkControl
  <2> QED BY <1>1, <2>1, <2>2
<1>7. Said' = Said
  <2>1. CASE p = "parent"
    BY <1>1, <1>2, <1>4, <2>1 DEF Said, ParentSaid, ChildSaid
  <2>2. CASE p = "child"
    BY <1>1, <1>2, <1>4, <2>2 DEF Said, ParentSaid, ChildSaid
  <2> QED BY <1>1, <2>1, <2>2
<1>8. tty => OnTerminal'
  BY <1>1, <1>2, <1>3, <1>5, <1>6, <1>7, SilentStep DEF OnTerminal
<1>9. ASSUME ~tty PROVE InBuffers'
  <2>1. CASE p = "parent" /\ doing["child"] = "none"
    <3>1. buffer[p] = <<"before">> /\ screen = <<>>
      BY <1>1, <1>3, <1>9, <2>1 DEF InBuffers
    <3>2. screen' = <<"before">>
      BY <1>2, <3>1, Flushing
    <3> QED BY <1>1, <1>2, <2>1, <3>2 DEF InBuffers
  <2>2. CASE p = "parent" /\ doing["child"] = "killed"
    <3>1. buffer[p] = OfParent /\ screen = <<>>
      BY <1>1, <1>3, <1>9, <2>2 DEF InBuffers
    <3>2. screen' = OfParent
      BY <1>2, <3>1, Flushing
    <3> QED BY <1>1, <1>2, <2>2, <3>2 DEF InBuffers
  <2>3. CASE p = "parent" /\ doing["child"] = "exited"
    <3>1. buffer[p] = OfParent /\ screen = OfChild
      BY <1>1, <1>3, <1>9, <2>3 DEF InBuffers
    <3>2. screen' = OfBoth
      BY <1>2, <3>1, Flushing
    <3> QED BY <1>1, <1>2, <2>3, <3>2 DEF InBuffers
  <2>4. CASE p = "child"
    <3>1. buffer[p] = OfChild /\ screen = <<>>
      BY <1>1, <1>3, <1>4, <1>9, <2>4 DEF InBuffers
    <3>2. screen' = OfChild
      BY <1>2, <3>1, Flushing
    <3>3. buffer'["parent"] = buffer["parent"] /\ doing'["parent"] = "waitpid"
      BY <1>1, <1>2, <1>4, <2>4
    <3> QED BY <1>1, <1>2, <1>3, <1>9, <2>4, <3>2, <3>3, <1>4 DEF InBuffers
  <2> QED BY <1>1, <1>4, <2>1, <2>2, <2>3, <2>4
<1> QED BY <1>1, <1>6, <1>8, <1>9 DEF ForkInv

LEMMA ForkNext == ForkInv /\ (F!Next \/ UNCHANGED fVars) => ForkInv'
<1> SUFFICES ASSUME ForkInv, F!Next \/ UNCHANGED fVars PROVE ForkInv'
  OBVIOUS
<1>1. ForkControl /\ (tty => OnTerminal) /\ (~tty => InBuffers)
  BY DEF ForkInv
<1>2. ASSUME NEW p \in F!Both, F!Printf(p) PROVE ForkInv'
  <2>1. UNCHANGED tty
    BY <1>2 DEF F!Printf
  <2> QED BY <1>1, <1>2, <2>1, PrintStep, PrintOnTerminal DEF ForkInv
<1>3. CASE UNCHANGED fVars
  <2>1. UNCHANGED <<tty, doing, todo, buffer, screen>>
    BY <1>3 DEF fVars
  <2>2. ForkControl'
    BY <1>1, <2>1 DEF ForkControl
  <2>3. Said' = Said
    BY <2>1 DEF Said, ParentSaid, ChildSaid
  <2>4. tty => OnTerminal'
    BY <1>1, <2>1, <2>2, <2>3, SilentStep DEF OnTerminal
  <2>5. ~tty => InBuffers'
    BY <1>1, <2>1 DEF InBuffers
  <2> QED BY <2>1, <2>2, <2>4, <2>5 DEF ForkInv
<1> QED BY <1>2, <1>3, ForkStep, CallStep, ExitStep
        DEF F!Next, F!Parent, F!Process, F!Both

\* What is written when standard output is not a terminal.
Files == {<<>>, <<"before">>, OfChild, OfParent, OfBoth}

\* None but the line from before the fork is there twice.
LEMMA InFiles ==
  ASSUME NEW s \in Files
  PROVE  /\ \A j, k \in 1..Len(s) : s[j] = s[k] => j = k \/ s[j] = "before"
         /\ \A k \in 1..Len(s) : s[k] = "before" => k \in {1, 5}
         /\ \A k \in 1..Len(s) : s[k] = "reaped" => k = Len(s)
<1>1. CASE s = <<>>
  BY <1>1
<1>2. CASE s = <<"before">>
  BY <1>2
<1>6. PICK c : c = "after in child"
  OBVIOUS
<1>7. c \notin {"before", "after", "reaped", "sleeping", "exiting"}
  BY <1>6
<1>3. CASE s = OfChild
  <2>1. s[2] = c
    BY <1>3, <1>6 DEF OfChild
  <2>2. Len(s) = 4 /\ s[1] = "before" /\ s[3] = "sleeping" /\ s[4] = "exiting"
    BY <1>3 DEF OfChild
  <2>3. \A k \in 1..Len(s) : k = 1 \/ k = 2 \/ k = 3 \/ k = 4
    BY <2>2
  <2> QED BY <1>7, <2>1, <2>2, <2>3
<1>4. CASE s = OfParent
  BY <1>4 DEF OfParent
<1>5. CASE s = OfBoth
  <2>1. s[2] = c
    BY <1>5, <1>6 DEF OfBoth
  <2>2. /\ Len(s) = 7 /\ s[1] = "before" /\ s[3] = "sleeping" /\ s[4] = "exiting"
        /\ s[5] = "before" /\ s[6] = "after" /\ s[7] = "reaped"
    BY <1>5 DEF OfBoth
  <2>3. \A k \in 1..Len(s) : k = 1 \/ k = 2 \/ k = 3 \/ k = 4 \/ k = 5 \/ k = 6 \/ k = 7
    BY <2>2
  <2> QED BY <1>7, <2>1, <2>2, <2>3
<1> QED BY <1>1, <1>2, <1>3, <1>4, <1>5 DEF Files

LEMMA Pair ==
  ASSUME NEW a, NEW b, a # b
  PROVE  IsFiniteSet({a, b}) /\ Cardinality({a, b}) = 2
<1>1. {a, b} = {a} \cup {b} /\ b \notin {a}
  OBVIOUS
<1>2. IsFiniteSet({a}) /\ Cardinality({a}) = 1
  BY FS_Singleton
<1>3. IsFiniteSet({a} \cup {b}) /\ Cardinality({a} \cup {b}) = Cardinality({a}) + 1
  BY <1>1, <1>2, FS_AddElement
<1> QED BY <1>1, <1>2, <1>3

LEMMA Echoes ==
  ASSUME NEW s \in Seq(Texts), NEW k \in 1..Len(s),
         \A j \in 1..Len(s) : s[j] = s[k] => j = k \/ s[j] = "before",
         \A j \in 1..Len(s) : s[j] = "before" => j \in {1, 5}
  PROVE  /\ s[k] = "before" => Cardinality({j \in 1..Len(s) : s[j] = s[k]}) <= 2
         /\ s[k] # "before" => Cardinality({j \in 1..Len(s) : s[j] = s[k]}) <= 1
<1> DEFINE T == {j \in 1..Len(s) : s[j] = s[k]}
<1>1. IsFiniteSet({k}) /\ Cardinality({k}) = 1
  BY FS_Singleton
<1>2. IsFiniteSet({1, 5}) /\ Cardinality({1, 5}) = 2
  <2>1. 1 # 5
    OBVIOUS
  <2> QED BY <2>1, Pair
<1>3. s[k] = "before" => T \subseteq {1, 5}
  OBVIOUS
<1>4. s[k] # "before" => T \subseteq {k}
  OBVIOUS
<1> HIDE DEF T
<1>5. /\ T \subseteq {1, 5} => Cardinality(T) <= 2
      /\ T \subseteq {k} => Cardinality(T) <= 1
  BY <1>1, <1>2, FS_Subset
<1> QED BY <1>3, <1>4, <1>5 DEF T

LEMMA NoEchoes == ForkInv => F!NoEcho
<1> SUFFICES ASSUME ForkInv, NEW k \in 1..Len(screen)
             PROVE  F!Times(screen[k]) <= IF ~tty /\ screen[k] = "before" THEN 2 ELSE 1
  BY DEF F!NoEcho
<1>1. F!Times(screen[k]) = Cardinality({j \in 1..Len(screen) : screen[j] = screen[k]})
  BY DEF F!Times, F!Cardinality, Cardinality
<1>2. screen \in Seq(Texts) /\ tty \in BOOLEAN
  BY DEF ForkInv, ForkControl
<1>3. CASE tty
  <2> DEFINE T == {j \in 1..Len(screen) : screen[j] = screen[k]}
  <2>1. T \subseteq {k}
    BY <1>3 DEF ForkInv, OnTerminal
  <2> HIDE DEF T
  <2>3. IsFiniteSet({k}) /\ Cardinality({k}) = 1
    BY FS_Singleton
  <2>2. Cardinality(T) <= 1
    BY <2>1, <2>3, FS_Subset
  <2> QED BY <1>1, <1>3, <2>2 DEF T
<1>4. CASE ~tty
  <2>1. screen \in Files
    BY <1>4 DEF ForkInv, InBuffers, Files
  <2>2. /\ \A j \in 1..Len(screen) : screen[j] = screen[k] => j = k \/ screen[j] = "before"
        /\ \A j \in 1..Len(screen) : screen[j] = "before" => j \in {1, 5}
    BY <2>1, InFiles
  <2> QED BY <1>1, <1>2, <1>4, <2>2, Echoes
<1> QED BY <1>2, <1>3, <1>4

LEMMA ChildIsFirst == ForkInv => F!ChildFirst
<1> SUFFICES ASSUME ForkInv PROVE F!ChildFirst
  OBVIOUS
<1>1. CASE tty
  BY <1>1 DEF ForkInv, OnTerminal
<1>2. CASE ~tty
  <2>1. screen \in Files
    BY <1>2 DEF ForkInv, InBuffers, Files
  <2> QED BY <2>1, InFiles DEF F!ChildFirst
<1> QED BY <1>1, <1>2 DEF ForkInv, ForkControl

\* Two lines of which the first precedes the second.
Follows(x, y) == \E j, k \in 1..Len(screen) : j < k /\ screen[j] = x /\ screen[k] = y

LEMMA IsComplete == ForkInv => F!Complete
<1> SUFFICES ASSUME ForkInv, doing = [p \in F!Both |-> "exited"]
             PROVE  F!InOrder(<<"before", "after", "reaped">>)
                      /\ F!InOrder(<<"before">> \o F!ChildPrints)
  BY DEF F!Complete
<1>1. /\ doing["parent"] = "exited" /\ doing["child"] = "exited"
      /\ todo["parent"] = <<>> /\ todo["child"] = <<>>
  BY DEF ForkInv, ForkControl, F!Both
<1>2. /\ Follows("before", "after") /\ Follows("after", "reaped")
      /\ Follows("before", "after in child")
      /\ Follows("after in child", "sleeping") /\ Follows("sleeping", "exiting")
  <2>1. CASE tty
    <3>1. OnTerminal /\ Len(screen) \in Nat
      <4>1. OnTerminal /\ screen \in Seq(Texts)
        BY <2>1 DEF ForkInv, ForkControl
      <4> QED BY <4>1
    <3>2. {"after", "reaped", "after in child", "sleeping", "exiting"} \subseteq Said
      BY <1>1 DEF Said, ParentSaid, ChildSaid
    <3>3. ASSUME NEW x, NEW y \in Said, Precedes(screen, x, y) PROVE Follows(x, y)
      <4>1. PICK k \in 1..Len(screen) : screen[k] = y
        BY <3>1 DEF OnTerminal
      <4>2. PICK j \in 1..(k - 1) : screen[j] = x
        BY <3>3, <4>1 DEF Precedes
      <4>3. j \in 1..Len(screen) /\ j < k
        BY <3>1, <4>1, <4>2
      <4> QED BY <4>1, <4>2, <4>3 DEF Follows
    <3> QED BY <3>1, <3>2, <3>3 DEF OnTerminal
  <2>2. CASE ~tty
    <3>1. screen = OfBoth
      BY <1>1, <2>2 DEF ForkInv, InBuffers
    <3>2. /\ Len(screen) = 7 /\ screen[1] = "before" /\ screen[2] = "after in child"
          /\ screen[3] = "sleeping" /\ screen[4] = "exiting" /\ screen[5] = "before"
          /\ screen[6] = "after" /\ screen[7] = "reaped"
      BY <3>1 DEF OfBoth
    <3>3. {1, 2, 3, 4, 5, 6, 7} \subseteq 1..Len(screen)
      <4>1. Len(screen) = 7
        BY <3>2
      <4> QED BY <4>1
    <3>4. 1 < 2 /\ 2 < 3 /\ 3 < 4 /\ 5 < 6 /\ 6 < 7
      OBVIOUS
    <3> QED BY <3>2, <3>3, <3>4 DEF Follows
  <2> QED BY <2>1, <2>2 DEF ForkInv, ForkControl
<1>3. F!InOrder(<<"before", "after", "reaped">>)
  <2> DEFINE l == <<"before", "after", "reaped">>
  <2>1. Len(l) = 3 /\ l[1] = "before" /\ l[2] = "after" /\ l[3] = "reaped"
    OBVIOUS
  <2> HIDE DEF l
  <2>2. ASSUME NEW n \in 1..(Len(l) - 1) PROVE Follows(l[n], l[n + 1])
    <3>1. (n = 1 /\ n + 1 = 2) \/ (n = 2 /\ n + 1 = 3)
      BY <2>1
    <3> QED BY <1>2, <2>1, <3>1
  <2>3. F!InOrder(l)
    BY <2>2 DEF F!InOrder, Follows
  <2> QED BY <2>3 DEF l
<1>4. F!InOrder(<<"before">> \o F!ChildPrints)
  <2> DEFINE l == <<"before">> \o F!ChildPrints
  <2>1. Len(l) = 4 /\ l[1] = "before" /\ l[2] = F!ChildPrints[1] /\ l[3] = F!ChildPrints[2]
        /\ l[4] = F!ChildPrints[3]
    <3>1. Len(<<"before">>) = 1 /\ Len(F!ChildPrints) = 3
      BY DEF F!ChildPrints
    <3>2. <<"before">> \in Seq(Texts) /\ F!ChildPrints \in Seq(Texts)
      BY DEF F!ChildPrints, Texts
    <3>3. /\ Len(l) = 4 /\ l[1] = <<"before">>[1] /\ l[1 + 1] = F!ChildPrints[1]
          /\ l[1 + 2] = F!ChildPrints[2] /\ l[1 + 3] = F!ChildPrints[3]
      BY <3>1, <3>2, Joined
    <3> QED BY <3>3
  <2>2. /\ F!ChildPrints[1] = "after in child" /\ F!ChildPrints[2] = "sleeping"
        /\ F!ChildPrints[3] = "exiting"
    BY DEF F!ChildPrints
  <2> HIDE DEF l
  <2>3. ASSUME NEW n \in 1..(Len(l) - 1) PROVE Follows(l[n], l[n + 1])
    <3>1. (n = 1 /\ n + 1 = 2) \/ (n = 2 /\ n + 1 = 3) \/ (n = 3 /\ n + 1 = 4)
      BY <2>1
    <3> QED BY <1>2, <2>1, <2>2, <3>1
  <2>4. F!InOrder(l)
    BY <2>3 DEF F!InOrder, Follows
  <2> QED BY <2>4 DEF l
<1> QED BY <1>3, <1>4

\* fork.c: every line is written, in the order in which its process printed it,
\* the child's before the parent's last, and none twice but the one that was
\* in the buffer when the parent forked.
THEOREM ForkWritesInOrder == Spec => []ForkOutput
<1>1. ForkInv /\ [Next]_vars => ForkInv'
  BY DemoSteps, ForkNext
<1>2. ForkInv => ForkOutput
  BY NoEchoes, ChildIsFirst, IsComplete DEF ForkOutput
<1> QED BY ForkInit, <1>1, <1>2, PTL DEF Spec, vars

-----------------------------------------------------------------------------
(* lab2/lsh.c *)

\* The last line that the shell took from stdio.
Taken == IF runs = 0 THEN offset - unread ELSE runs

SkeletonType ==
  /\ block \in {1, Block} /\ kinds \in [1..Lines -> {"assignment", "program", "neither"}]
  /\ offset \in 0..Lines /\ unread \in 0..offset /\ runs \in 0..(offset - unread)
  /\ tried \in Seq(1..Lines) /\ mode \in {"shell", "program", "exited"}

\* It tried the commands among the lines it took, and these only, in order.
TriedInv ==
  /\ \A n \in 1..Len(tried) : kinds[tried[n]] # "assignment" /\ tried[n] <= Taken
  /\ \A k \in 1..Taken : kinds[k] # "assignment" => \E n \in 1..Len(tried) : tried[n] = k
  /\ \A m, n \in 1..Len(tried) : m < n => tried[m] < tried[n]

\* The program that took its place was the last of them, and reads on after
\* what stdio had read.
RunsInv ==
  /\ mode = "shell" => runs = 0
  /\ mode = "program" => runs # 0
  /\ mode = "exited" /\ runs = 0 => offset = Lines /\ unread = 0
  /\ \A k \in 1..Taken : kinds[k] = "program" => k = runs
  /\ runs # 0 => /\ kinds[runs] = "program" /\ Len(tried) # 0 /\ tried[Len(tried)] = runs
                 /\ passed = (runs + unread + 1)..offset
  /\ runs = 0 => passed = {}
  /\ unread <= (IF runs = 0 THEN block ELSE block - 1)

SkeletonInv == SkeletonType /\ TriedInv /\ RunsInv

LEMMA SkeletonInit == Init => SkeletonInv
<1> SUFFICES ASSUME Init PROVE SkeletonInv
  OBVIOUS
<1>1. /\ block \in {1, Block} /\ kinds \in [1..Lines -> {"assignment", "program", "neither"}]
      /\ offset = 0 /\ unread = 0 /\ tried = <<>> /\ runs = 0 /\ passed = {} /\ mode = "shell"
  BY DEF Init, S!Init
<1>2. SkeletonType
  BY <1>1, DemosOK DEF SkeletonType
<1>3. Taken = 0 /\ Len(tried) = 0
  BY <1>1 DEF Taken
<1> QED BY <1>1, <1>2, <1>3, DemosOK DEF SkeletonInv, TriedInv, RunsInv

\* A command is tried after the others.
LEMMA TriedNext ==
  ASSUME SkeletonType, TriedInv, runs = 0, unread > 0, NEW kind \in {"program", "neither"},
         kinds[offset - unread + 1] = kind, UNCHANGED kinds,
         tried' = Append(tried, offset - unread + 1), Taken' = offset - unread + 1
  PROVE  /\ TriedInv' /\ tried' \in Seq(1..Lines)
         /\ Len(tried') # 0 /\ tried'[Len(tried')] = offset - unread + 1
<1>1. PICK c \in 1..Lines : c = offset - unread + 1
  BY DemosOK DEF SkeletonType
<1>0. tried \in Seq(1..Lines) /\ tried' = Append(tried, c)
  BY <1>1 DEF SkeletonType
<1>2. PICK z \in Seq(1..Lines) : z = tried' /\ z = Append(tried, c)
  BY <1>0, <1>1, Appended
<1>3. /\ Len(tried) \in Nat /\ Len(z) = Len(tried) + 1 /\ z[Len(tried) + 1] = c
      /\ \A k \in 1..Len(tried) : z[k] = tried[k] /\ tried[k] \in 1..Lines
      /\ \A k \in 1..Len(z) : k \in 1..Len(tried) \/ k = Len(tried) + 1
  <2>1. /\ Len(tried) \in Nat /\ Len(Append(tried, c)) = Len(tried) + 1
        /\ Append(tried, c)[Len(tried) + 1] = c
        /\ \A k \in 1..Len(tried) : Append(tried, c)[k] = tried[k]
        /\ \A k \in 1..Len(Append(tried, c)) : k \in 1..Len(tried) \/ k = Len(tried) + 1
    BY <1>0, <1>1, Appended
  <2>2. \A k \in 1..Len(tried) : tried[k] \in 1..Lines
    <3>1. tried \in Seq(1..Lines)
      BY <1>0
    <3> QED BY <3>1, Elements
  <2> QED BY <1>2, <2>1, <2>2
<1>4. Taken = c - 1 /\ c \in Nat \ {0} /\ kinds[c] # "assignment" /\ Taken' = c
  BY <1>1, DemosOK DEF Taken, SkeletonType
<1>5. /\ \A n \in 1..Len(tried) : kinds[tried[n]] # "assignment" /\ tried[n] < c
      /\ \A k \in 1..(c - 1) : kinds[k] # "assignment" => \E n \in 1..Len(tried) : tried[n] = k
      /\ \A m, n \in 1..Len(tried) : m < n => tried[m] < tried[n]
  <2>1. \A n \in 1..Len(tried) : tried[n] <= c - 1 /\ tried[n] \in Nat
    BY <1>3, <1>4, DemosOK DEF TriedInv
  <2>2. \A n \in 1..Len(tried) : tried[n] < c
    BY <1>4, <2>1
  <2> QED BY <1>4, <2>2 DEF TriedInv
<1>6. \A n \in 1..Len(z) : kinds[z[n]] # "assignment" /\ z[n] <= c
  <2> SUFFICES ASSUME NEW n \in 1..Len(z) PROVE kinds[z[n]] # "assignment" /\ z[n] <= c
    OBVIOUS
  <2>1. CASE n \in 1..Len(tried)
    <3>1. z[n] = tried[n] /\ tried[n] \in Nat /\ tried[n] < c /\ kinds[tried[n]] # "assignment"
      BY <1>3, <1>5, <2>1, DemosOK
    <3> QED BY <1>4, <3>1
  <2>2. CASE n = Len(tried) + 1
    BY <1>3, <1>4, <2>2
  <2> QED BY <1>3, <2>1, <2>2
<1>7. \A k \in 1..c : kinds[k] # "assignment" => \E n \in 1..Len(z) : z[n] = k
  <2> SUFFICES ASSUME NEW k \in 1..c, kinds[k] # "assignment" PROVE \E n \in 1..Len(z) : z[n] = k
    OBVIOUS
  <2>1. CASE k = c
    <3>1. Len(tried) + 1 \in 1..Len(z)
      BY <1>3
    <3> QED BY <1>3, <2>1, <3>1
  <2>2. CASE k \in 1..(c - 1)
    <3>1. PICK n \in 1..Len(tried) : tried[n] = k
      BY <1>5, <2>2
    <3> QED BY <1>3, <3>1
  <2> QED BY <1>4, <2>1, <2>2
<1>8. \A m, n \in 1..Len(z) : m < n => z[m] < z[n]
  <2> SUFFICES ASSUME NEW m \in 1..Len(z), NEW n \in 1..Len(z), m < n PROVE z[m] < z[n]
    OBVIOUS
  <2>1. m \in 1..Len(tried)
    BY <1>3
  <2>2. CASE n \in 1..Len(tried)
    BY <1>3, <1>5, <2>1, <2>2
  <2>3. CASE n = Len(tried) + 1
    BY <1>3, <1>5, <2>1, <2>3
  <2> QED BY <1>3, <2>2, <2>3
<1>9. TriedInv'
  BY <1>2, <1>4, <1>6, <1>7, <1>8 DEF TriedInv
<1> QED BY <1>1, <1>2, <1>3, <1>9

LEMMA SkeletonNext == SkeletonInv /\ (S!Next \/ UNCHANGED sVars) => SkeletonInv'
<1> SUFFICES ASSUME SkeletonType, TriedInv, RunsInv, S!Next \/ UNCHANGED sVars
             PROVE  SkeletonInv'
  BY DEF SkeletonInv
<1>1. /\ offset \in Nat /\ unread \in Nat /\ runs \in Nat /\ Lines \in Nat /\ Block \in Nat \ {0}
      /\ unread <= offset /\ offset <= Lines /\ runs <= offset - unread
      /\ block \in Nat \ {0} /\ S!Current = offset - unread + 1
  BY DemosOK DEF SkeletonType, S!Current
<1>2. CASE S!Fill
  <2>1. PICK n \in 1..block : n <= Lines - offset /\ offset' = offset + n /\ unread' = n
    BY <1>2 DEF S!Fill
  <2>2. /\ unread = 0 /\ runs = 0 /\ UNCHANGED <<block, kinds, tried, runs, passed, mode>>
        /\ mode = "shell"
    BY <1>2 DEF S!Fill, RunsInv
  <2>3. Taken' = Taken
    BY <1>1, <2>1, <2>2 DEF Taken
  <2>4. SkeletonType'
    BY <1>1, <2>1, <2>2 DEF SkeletonType
  <2>5. TriedInv'
    BY <2>2, <2>3 DEF TriedInv
  <2>6. RunsInv'
    BY <1>1, <2>1, <2>2, <2>3 DEF RunsInv
  <2> QED BY <2>4, <2>5, <2>6 DEF SkeletonInv
<1>3. CASE S!Assignment
  <2>1. /\ unread' = unread - 1 /\ UNCHANGED <<block, kinds, offset, tried, runs, passed, mode>>
        /\ mode = "shell" /\ runs = 0 /\ unread > 0 /\ kinds[offset - unread + 1] = "assignment"
    BY <1>1, <1>3 DEF S!Assignment, RunsInv
  <2>2. Taken = offset - unread /\ Taken' = offset - unread + 1
    BY <1>1, <2>1 DEF Taken
  <2>3. SkeletonType'
    BY <1>1, <2>1 DEF SkeletonType
  <2>4. \A k \in 1..Taken' : k \in 1..Taken \/ k = offset - unread + 1
    BY <1>1, <2>2
  <2>5. TriedInv'
    <3>1. \A n \in 1..Len(tried) : tried[n] \in Nat /\ tried[n] <= Taken /\ tried[n] <= Taken'
      BY <1>1, <2>2 DEF TriedInv, SkeletonType
    <3> QED BY <2>1, <2>4, <3>1 DEF TriedInv
  <2>6. RunsInv'
    BY <1>1, <2>1, <2>4 DEF RunsInv
  <2> QED BY <2>3, <2>5, <2>6 DEF SkeletonInv
<1>4. CASE S!ExecvFails
  <2>1. /\ unread' = unread - 1 /\ UNCHANGED <<block, kinds, offset, runs, passed, mode>>
        /\ tried' = Append(tried, offset - unread + 1)
        /\ mode = "shell" /\ runs = 0 /\ unread > 0 /\ kinds[offset - unread + 1] = "neither"
    BY <1>1, <1>4 DEF S!ExecvFails, RunsInv
  <2>2. Taken = offset - unread /\ Taken' = offset - unread + 1
    BY <1>1, <2>1 DEF Taken
  <2>3. TriedInv' /\ tried' \in Seq(1..Lines)
    BY <2>1, <2>2, TriedNext
  <2>4. SkeletonType'
    BY <1>1, <2>1, <2>3 DEF SkeletonType
  <2>5. \A k \in 1..Taken' : k \in 1..Taken \/ k = offset - unread + 1
    BY <1>1, <2>2
  <2>6. RunsInv'
    BY <1>1, <2>1, <2>5 DEF RunsInv
  <2> QED BY <2>3, <2>4, <2>6 DEF SkeletonInv
<1>5. CASE S!Execv
  <2>1. /\ unread' = unread - 1 /\ UNCHANGED <<block, kinds, offset, passed>>
        /\ tried' = Append(tried, offset - unread + 1) /\ mode' = "program"
        /\ runs' = offset - unread + 1
        /\ mode = "shell" /\ runs = 0 /\ unread > 0 /\ kinds[offset - unread + 1] = "program"
    BY <1>1, <1>5 DEF S!Execv, RunsInv
  <2>2. Taken = offset - unread /\ Taken' = offset - unread + 1 /\ runs' # 0
    BY <1>1, <2>1 DEF Taken
  <2>3. /\ TriedInv' /\ tried' \in Seq(1..Lines)
        /\ Len(tried') # 0 /\ tried'[Len(tried')] = runs'
    BY <2>1, <2>2, TriedNext
  <2>4. SkeletonType'
    BY <1>1, <2>1, <2>3 DEF SkeletonType
  <2>5. \A k \in 1..Taken' : k \in 1..Taken \/ k = runs'
    BY <1>1, <2>1, <2>2
  <2>6. \A k \in 1..Taken' : kinds'[k] = "program" => k = runs'
    BY <1>1, <2>1, <2>2, <2>5 DEF RunsInv
  <2>7. passed' = (runs' + unread' + 1)..offset'
    <3>1. passed' = {} /\ runs' + unread' + 1 = offset + 1 /\ offset' = offset
      BY <1>1, <2>1 DEF RunsInv
    <3>2. (offset + 1)..offset = {}
      BY <1>1
    <3> QED BY <3>1, <3>2
  <2>8. unread' <= block' - 1
    BY <1>1, <2>1 DEF RunsInv
  <2>9. kinds'[runs'] = "program"
    BY <2>1
  <2>10. RunsInv'
    BY <2>1, <2>2, <2>3, <2>6, <2>7, <2>8, <2>9 DEF RunsInv
  <2> QED BY <2>3, <2>4, <2>10 DEF SkeletonInv
<1>6. CASE S!ProgramReads
  <2>1. /\ mode = "program" /\ runs # 0 /\ offset < Lines /\ offset' = offset + 1
        /\ passed' = passed \cup {offset + 1}
        /\ UNCHANGED <<block, kinds, unread, tried, runs, mode>>
    BY <1>6 DEF S!ProgramReads, RunsInv
  <2>2. Taken' = Taken
    BY <2>1 DEF Taken
  <2>3. SkeletonType'
    BY <1>1, <2>1 DEF SkeletonType
  <2>4. TriedInv'
    BY <2>1, <2>2 DEF TriedInv
  <2>5. passed' = (runs + unread + 1)..(offset + 1)
    BY <1>1, <2>1 DEF RunsInv
  <2>6. RunsInv'
    BY <1>1, <2>1, <2>2, <2>5 DEF RunsInv
  <2> QED BY <2>3, <2>4, <2>6 DEF SkeletonInv
<1>7. CASE S!Exit
  <2>1. /\ UNCHANGED <<block, kinds, offset, unread, tried, runs, passed>> /\ mode' = "exited"
        /\ runs = 0 => offset = Lines /\ unread = 0
    BY <1>7 DEF S!Exit, RunsInv
  <2>2. Taken' = Taken
    BY <2>1 DEF Taken
  <2> QED BY <2>1, <2>2 DEF SkeletonInv, SkeletonType, TriedInv, RunsInv
<1>8. CASE UNCHANGED sVars
  BY <1>8 DEF sVars, SkeletonInv, SkeletonType, TriedInv, RunsInv, Taken
<1> QED BY <1>2, <1>3, <1>4, <1>5, <1>6, <1>7, <1>8 DEF S!Next

\* lab2/lsh.c: the shell has tried every command it came to, in order and each
\* once, and all there are when it ends by itself; the program that took its
\* place misses the lines just behind its own that stdio had read, which are
\* fewer than one read() brings, and no others.
THEOREM OnlyTheBufferIsLost == Spec => []BufferLost
<1>1. SkeletonInv /\ [Next]_vars => SkeletonInv'
  BY DemoSteps, SkeletonNext
<1>2. ASSUME SkeletonInv
      PROVE  /\ S!Done = 1..Taken /\ Taken \in Nat /\ Taken <= Lines /\ Lines \in Nat
             /\ offset \in Nat /\ unread \in Nat /\ runs \in Nat /\ block \in Nat \ {0}
             /\ runs + unread <= offset /\ offset <= Lines
             /\ \A n \in 1..Len(tried) : tried[n] \in 1..Lines
  <2>1. /\ offset \in 0..Lines /\ unread \in 0..offset /\ runs \in 0..(offset - unread)
        /\ Lines \in Nat /\ block \in Nat \ {0} /\ tried \in Seq(1..Lines)
    BY <1>2, DemosOK DEF SkeletonInv, SkeletonType
  <2> QED BY <2>1, Elements DEF S!Done, Taken
<1>3. ASSUME SkeletonInv PROVE S!HandledInOrder
  <2>1. {tried[n] : n \in 1..Len(tried)} = {k \in S!Done : kinds[k] # "assignment"}
    <3>1. ASSUME NEW n \in 1..Len(tried)
          PROVE  tried[n] \in 1..Taken /\ kinds[tried[n]] # "assignment"
      BY <1>2, <1>3 DEF SkeletonInv, TriedInv
    <3>2. ASSUME NEW k \in 1..Taken, kinds[k] # "assignment"
          PROVE  \E n \in 1..Len(tried) : tried[n] = k
      BY <1>3, <3>2 DEF SkeletonInv, TriedInv
    <3>3. S!Done = 1..Taken
      BY <1>2, <1>3
    <3> HIDE DEF Taken
    <3> QED BY <3>1, <3>2, <3>3
  <2>2. \A m, n \in 1..Len(tried) : m < n => tried[m] < tried[n]
    BY <1>3 DEF SkeletonInv, TriedInv
  <2>3. \A k \in S!Done : kinds[k] = "program" => k = runs
    BY <1>2, <1>3 DEF SkeletonInv, RunsInv
  <2>4. mode = "exited" /\ runs = 0 => S!Done = 1..Lines
    BY <1>2, <1>3 DEF SkeletonInv, RunsInv, Taken
  <2> QED BY <2>1, <2>2, <2>3, <2>4 DEF S!HandledInOrder
<1>4. ASSUME SkeletonInv PROVE S!OnlyBufferLost
  <2> SUFFICES ASSUME runs # 0
               PROVE  \E n \in 0..(block - 1) :
                        (1..offset) \ (S!Done \cup passed) = (runs + 1)..(runs + n)
    BY DEF S!OnlyBufferLost
  <2>1. S!Done = 1..runs /\ passed = (runs + unread + 1)..offset /\ unread <= block - 1
    BY <1>4, <1>2 DEF SkeletonInv, RunsInv, Taken
  <2>2. unread \in 0..(block - 1)
    BY <1>2, <1>4, <2>1
  <2>3. (1..offset) \ (S!Done \cup passed) = (runs + 1)..(runs + unread)
    <3>1. \A k : k \in 1..offset /\ k \notin 1..runs /\ k \notin (runs + unread + 1)..offset
                 <=> k \in (runs + 1)..(runs + unread)
      BY <1>2, <1>4
    <3> QED BY <2>1, <3>1
  <2> QED BY <2>2, <2>3
<1>5. SkeletonInv => BufferLost
  BY <1>3, <1>4 DEF BufferLost
<1> QED BY SkeletonInit, <1>1, <1>5, PTL DEF Spec, vars
=============================================================================
