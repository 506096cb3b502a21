----------------------------- MODULE LshProofs -----------------------------
(***************************************************************************)
(* Proofs about Lsh, for any input, words, PATH, files and buffer.         *)
(***************************************************************************)
EXTENDS Lsh, TLAPS

-----------------------------------------------------------------------------
(* The inductive invariant. *)

\* The names that init() binds keep their types.
NamesStay ==
  \A n \in DOMAIN InitialSymtab :
    n \in DOMAIN symtab /\ symtab[n].type = InitialSymtab[n].type

BaseInv ==
  /\ input \in Inputs
  /\ changes \in Nat
  /\ pc = "parse" => line \in 1..Len(input.lines)
  /\ TypeOK /\ NamesStay /\ Foreground

\* Of the directories of PATH, dirs are left, and the others do not have it.
Searched(dirs) ==
  \E m \in 0..Len(SearchPath) :
    /\ Len(dirs) = Len(SearchPath) - m
    /\ \A i \in 1..Len(dirs) : dirs[i] = SearchPath[m + i]
    /\ \A j \in 1..m : ~FoundIn(SearchPath[j])

\* path is the first of them, if it was looked up.
FirstOf(path) ==
  Len(path) = 2 =>
    \E i \in 1..Len(SearchPath) :
      /\ path = <<SearchPath[i], tokens[1]>>
      /\ \A j \in 1..(i-1) : ~FoundIn(SearchPath[j])

\* How far path_lookup is, and what the child executes.
ChildInv ==
  /\ child.pc = "lookup" =>
       /\ child \in [pc : {"lookup"}, name : Words, dirs : Seq(STRING)]
       /\ child.name = tokens[1]
       /\ changes = 0 => Searched(child.dirs)
  /\ child.pc \in {"exec", "running"} /\ changes = 0 => FirstOf(child.path)

\* Whatever was handed out is in the buffer or was read, once.
SharedOut ==
  LET held == next..filled
  IN /\ ran \cap eaten = {} /\ (ran \cup eaten) \cap held = {}
     /\ ran \cup eaten \cup held = 1..off

LinesInv == pc # "exited" => SharedOut

\* On a pipe nothing that was handed out is taken back.
PipeInv == input.from = "pipe" => LinesInv

LshInv == BaseInv /\ ChildInv /\ PipeInv

-----------------------------------------------------------------------------
(* What the steps are about. *)

LEMMA InputTypes ==
  ASSUME input \in Inputs
  PROVE  /\ input.from \in {"file", "pipe"} /\ input.lines \in Seq(Seq(Words))
         /\ Len(input.lines) \in Nat
  BY LshOK

\* The line that is parsed is one of the input.
LEMMA TokenTypes ==
  ASSUME BaseInv, pc = "parse"
  PROVE  tokens \in Seq(Words)
  BY InputTypes DEF BaseInv, tokens, cmd

LEMMA ChunkTypes ==
  ASSUME input \in Inputs, Unread \in Nat, Unread > 0, NEW k \in Chunks
  PROVE  k \in 1..Unread
<1>1. Buffered \in Nat \ {0}
  BY LshOK
<1> DEFINE most == Min({Buffered, Unread})
<1>2. most \in {Buffered, Unread} /\ most <= Unread
  BY <1>1 DEF Min
<1>3. most \in 1..Unread
  BY <1>1, <1>2
<1> HIDE DEF most
<1>4. k \in {most} \/ k \in 1..most
  BY DEF Chunks, most
<1> QED BY <1>3, <1>4

LEMMA RewoundTypes ==
  ASSUME BaseInv
  PROVE  Rewound \in 0..Len(input.lines) /\ (input.from = "pipe" => Rewound = off)
  BY InputTypes DEF BaseInv, TypeOK, Rewound

LEMMA PathTypes ==
  ASSUME BaseInv
  PROVE  SearchPath \in Seq(STRING) /\ symtab["PATH"].value \in Words
<1>1. "PATH" \in DOMAIN InitialSymtab /\ InitialSymtab["PATH"].type = "SYM_VAR"
  BY DEF InitialSymtab, SymVar
<1>2. symtab["PATH"] \in Dict!Entry /\ symtab["PATH"].type = "SYM_VAR"
  BY <1>1 DEF BaseInv, TypeOK, NamesStay
<1>3. symtab["PATH"].value \in Words
  BY <1>2 DEF Dict!Entry
<1> QED BY <1>3, LshOK DEF SearchPath

-----------------------------------------------------------------------------
(* The steps keep the types, the foreground and the names. *)

LEMMA InitBase == Init => BaseInv
<1> SUFFICES ASSUME Init PROVE BaseInv
  OBVIOUS
<1>1. Len(input.lines) \in Nat
  BY InputTypes DEF Init
<1>2. \A n \in DOMAIN symtab : n \in Words /\ symtab[n] \in Dict!Entry
  BY LshOK DEF Init, InitialSymtab, ExitEntry, SymVar, SymInternal, Dict!Entry
<1>3. TypeOK
  BY <1>1, <1>2 DEF Init, TypeOK, NoChild
<1> QED BY <1>3 DEF Init, BaseInv, NamesStay, Foreground, NoChild

LEMMA ReadBase ==
  ASSUME BaseInv, Fill \/ ReadLine \/ EndOfInput
  PROVE  BaseInv'
<1>0. /\ input \in Inputs /\ Len(input.lines) \in Nat
      /\ off \in 0..Len(input.lines) /\ filled \in 0..Len(input.lines)
      /\ next \in 1..(filled + 1) /\ line \in 0..Len(input.lines) /\ pc = "read"
      /\ child.pc = "none"
  BY InputTypes DEF BaseInv, TypeOK, Foreground, Fill, ReadLine, EndOfInput
<1>1. /\ UNCHANGED <<input, child, files, changes, symtab, eaten>>
      /\ pc' \in {"read", "parse", "exited"}
  BY <1>0 DEF Fill, ReadLine, EndOfInput, world
<1>2. /\ off' \in 0..Len(input.lines) /\ filled' \in 0..Len(input.lines)
      /\ next' \in 1..(filled' + 1) /\ line' \in 0..Len(input.lines)
      /\ ran' \subseteq 1..Len(input.lines) /\ (pc' = "parse" => line' >= 1)
  <2>1. CASE Fill
    <3>1. Unread \in Nat /\ Unread > 0 /\ Unread = Len(input.lines) - off
      BY <1>0, <2>1 DEF Fill, Unread
    <3>2. PICK k \in Chunks : next' = off + 1 /\ filled' = off + k /\ off' = off + k
      BY <2>1 DEF Fill
    <3>3. k \in 1..Unread
      BY <1>0, <3>1, ChunkTypes
    <3>4. UNCHANGED <<line, ran, pc>>
      BY <2>1 DEF Fill
    <3> QED BY <1>0, <3>1, <3>2, <3>3, <3>4 DEF BaseInv, TypeOK
  <2>2. CASE ReadLine
    BY <1>0, <2>2 DEF ReadLine, BaseInv, TypeOK
  <2>3. CASE EndOfInput
    BY <1>0, <2>3 DEF EndOfInput, BaseInv, TypeOK
  <2> QED BY <2>1, <2>2, <2>3
<1>3. TypeOK'
  BY <1>1, <1>2 DEF BaseInv, TypeOK
<1>4. NamesStay' /\ Foreground'
  BY <1>0, <1>1 DEF BaseInv, NamesStay, Foreground
<1> QED BY <1>1, <1>2, <1>3, <1>4 DEF BaseInv

\* Steps of the shell that keep to pc, cwd and off, or fork and reap.
LEMMA DispatchBase ==
  ASSUME BaseInv, ParseBlank \/ NoCommand \/ Halt \/ ChangeDir \/ Fork \/ ForkFails \/ Reap
  PROVE  BaseInv'
<1>1. UNCHANGED <<input, next, filled, line, symtab, ran, eaten, files, changes>>
  BY DEF ParseBlank, NoCommand, Halt, ChangeDir, Fork, ForkFails, Reap, world
<1>2. off' \in {off, Rewound}
  BY DEF ParseBlank, NoCommand, Halt, ChangeDir, Fork, ForkFails, Reap
<1>3. Foreground' /\ pc' \in {"read", "exited", "wait", "crashed"}
      /\ child'.pc \in {"none", "lookup", "exec", "running", "zombie"}
  <2>1. CASE ParseBlank \/ NoCommand \/ Halt \/ ChangeDir \/ ForkFails
    BY <2>1 DEF ParseBlank, NoCommand, Halt, ChangeDir, ForkFails, Dispatching, Parsing, BaseInv, Foreground, TypeOK
  <2>2. CASE Fork
    <3>1. pc' = "wait" /\ child'.pc \in {"lookup", "exec"}
      BY <2>2 DEF Fork, AfterFork
    <3> QED BY <3>1 DEF Foreground
  <2>3. CASE Reap
    BY <2>3 DEF Reap, NoChild, Foreground
  <2> QED BY <2>1, <2>2, <2>3
<1>4. TypeOK'
  BY <1>1, <1>2, <1>3, RewoundTypes DEF BaseInv, TypeOK
<1>5. NamesStay'
  BY <1>1 DEF BaseInv, NamesStay
<1> QED BY <1>1, <1>3, <1>4, <1>5 DEF BaseInv

\* An assignment binds a name that is not an internal command.
LEMMA AssignBase ==
  ASSUME BaseInv, Assign
  PROVE  BaseInv'
<1>1. /\ UNCHANGED <<input, off, next, filled, line, cwd, ran, child, files, changes, eaten>>
      /\ pc = "parse" /\ pc' \in {"read", "crashed"}
  BY DEF Assign, Parsing, world
<1>2. /\ \A n \in DOMAIN symtab' : n \in Words /\ symtab'[n] \in Dict!Entry
      /\ NamesStay'
  <2>1. CASE UNCHANGED symtab
    BY <2>1 DEF BaseInv, TypeOK, NamesStay
  <2>2. CASE \E v \in IF Len(tokens) >= 3 THEN {tokens[3]} ELSE Words :
               Settable(tokens[1]) /\ symtab' = Dict!Bind(tokens[1], SymVar(v))
    <3>1. tokens \in Seq(Words) /\ IsAssignment
      BY <1>1, TokenTypes DEF Assign
    <3>2. tokens[1] \in Words /\ (Len(tokens) >= 3 => tokens[3] \in Words)
      BY <3>1 DEF IsAssignment
    <3> DEFINE n1 == tokens[1]
    <3>3. PICK v \in Words : ~IsInternal(n1) /\ symtab' = Dict!Bind(n1, SymVar(v))
      BY <2>2, <3>2 DEF Settable
    <3> HIDE DEF n1
    <3>4. /\ DOMAIN symtab' = DOMAIN symtab \cup {n1}
          /\ symtab'[n1] = SymVar(v)
          /\ \A n \in DOMAIN symtab : n # n1 => symtab'[n] = symtab[n]
      BY <3>3 DEF Dict!Bind
    <3>5. SymVar(v) \in Dict!Entry /\ SymVar(v).type = "SYM_VAR"
      BY DEF SymVar, Dict!Entry
    <3>6. \A n \in DOMAIN symtab' : n \in Words /\ symtab'[n] \in Dict!Entry
      BY <3>2, <3>4, <3>5 DEF BaseInv, TypeOK, n1
    <3>7. ASSUME NEW n \in DOMAIN InitialSymtab
          PROVE  n \in DOMAIN symtab' /\ symtab'[n].type = InitialSymtab[n].type
      <4>1. n \in DOMAIN symtab /\ symtab[n].type = InitialSymtab[n].type
        BY <3>7 DEF BaseInv, NamesStay
      <4>2. CASE n = n1
        <5>1. symtab[n] \in Dict!Entry /\ symtab[n].type # "SYM_INTERNAL"
          BY <3>3, <4>1, <4>2 DEF BaseInv, TypeOK, IsInternal
        <5>2. symtab[n].type = "SYM_VAR"
          BY <5>1 DEF Dict!Entry
        <5> QED BY <3>4, <3>5, <4>1, <4>2, <5>2
      <4>3. CASE n # n1
        BY <3>4, <4>1, <4>3
      <4> QED BY <4>2, <4>3
    <3>8. NamesStay'
      BY <3>7 DEF NamesStay, InitialSymtab, ExitEntry, SymVar, SymInternal
    <3> QED BY <3>6, <3>8
  <2> QED BY <2>1, <2>2 DEF Assign
<1>3. TypeOK'
  BY <1>1, <1>2 DEF BaseInv, TypeOK
<1>4. Foreground'
  BY <1>1 DEF BaseInv, Foreground
<1> QED BY <1>1, <1>2, <1>3, <1>4 DEF BaseInv

\* Steps that are not the shell's.
LEMMA OthersBase ==
  ASSUME BaseInv, ChildInv, Child \/ ProgramReads \/ ProgramEnds \/ FileChanges
  PROVE  BaseInv'
<1>1. UNCHANGED <<input, next, filled, line, pc, symtab, ran>>
  BY DEF Child, Stat, LookupFails, Exec, ExecFails, ProgramReads, ProgramEnds, FileChanges,
         shell
<1>2. /\ off' \in 0..Len(input.lines) /\ eaten' \subseteq 1..Len(input.lines)
      /\ files' \subseteq Files /\ changes' \in Nat
  <2>1. CASE Stat \/ LookupFails \/ Exec \/ ProgramEnds
    BY <2>1 DEF Stat, LookupFails, Exec, ProgramEnds, world, BaseInv, TypeOK
  <2>2. CASE ExecFails
    BY <2>2, RewoundTypes DEF ExecFails, AlsoReads, world, BaseInv, TypeOK
  <2>3. CASE ProgramReads
    <3>1. /\ Len(input.lines) \in Nat /\ off \in 0..Len(input.lines)
          /\ eaten \subseteq 1..Len(input.lines)
      BY InputTypes DEF BaseInv, TypeOK
    <3>2. PICK k \in 1..Unread : off' = off + k /\ eaten' = eaten \cup (off + 1)..(off + k)
      BY <2>3 DEF ProgramReads
    <3>3. off + k \in 0..Len(input.lines) /\ (off + 1)..(off + k) \subseteq 1..Len(input.lines)
      BY <3>1, <3>2 DEF Unread
    <3>4. UNCHANGED <<files, changes>>
      BY <2>3 DEF ProgramReads, world
    <3> QED BY <3>1, <3>2, <3>3, <3>4 DEF BaseInv, TypeOK
  <2>4. CASE FileChanges
    <3>1. PICK f \in Files : files' = SymDiff(files, {f})
      BY <2>4 DEF FileChanges
    <3>2. files' \subseteq Files
      BY <3>1 DEF SymDiff, BaseInv, TypeOK
    <3>3. changes' = changes + 1 /\ UNCHANGED <<off, eaten>>
      BY <2>4 DEF FileChanges
    <3> QED BY <3>2, <3>3 DEF BaseInv, TypeOK
  <2> QED BY <2>1, <2>2, <2>3, <2>4 DEF Child
<1>3. \/ child.pc # "none" /\ child'.pc \in {"lookup", "exec", "running", "zombie"}
      \/ UNCHANGED child
  <2>1. CASE Stat
    <3>1. child.pc = "lookup" /\ child \in [pc : {"lookup"}, name : Words, dirs : Seq(STRING)]
      BY <2>1 DEF Stat, ChildInv
    <3> QED BY <2>1, <3>1 DEF Stat
  <2>2. CASE LookupFails \/ Exec \/ ExecFails \/ ProgramEnds
    BY <2>2 DEF LookupFails, Exec, ExecFails, ProgramEnds
  <2>3. CASE ProgramReads \/ FileChanges
    BY <2>3 DEF ProgramReads, FileChanges
  <2> QED BY <2>1, <2>2, <2>3 DEF Child
<1>4. TypeOK'
  BY <1>1, <1>2, <1>3 DEF BaseInv, TypeOK
<1>5. Foreground' /\ NamesStay'
  BY <1>1, <1>3 DEF BaseInv, Foreground, NamesStay
<1> QED BY <1>1, <1>2, <1>4, <1>5 DEF BaseInv

-----------------------------------------------------------------------------
(* The steps keep to the search of PATH. *)

\* What the child looks for, and where, does not change while it runs.
Searching == <<SearchPath, tokens, changes, files>>

LEMMA SearchFrame ==
  ASSUME UNCHANGED Searching
  PROVE  /\ \A dirs : Searched(dirs)' <=> Searched(dirs)
         /\ \A path : FirstOf(path)' <=> FirstOf(path)
  BY DEF Searching, Searched, FirstOf, FoundIn

\* A step of the shell with no child, or one that ends it.
LEMMA ShellChild ==
  ASSUME BaseInv, child'.pc \in {"none", "zombie"}
  PROVE  ChildInv'
  BY DEF ChildInv

LEMMA ForkChild ==
  ASSUME BaseInv, Fork
  PROVE  ChildInv'
<1>1. /\ pc = "parse" /\ tokens # <<>> /\ UNCHANGED <<symtab, input, line, files, changes>>
  BY DEF Fork, Dispatching, Parsing, world
<1>2. tokens[1] \in Words
  BY <1>1, TokenTypes
<1>3. UNCHANGED Searching
  BY <1>1 DEF Searching, SearchPath, tokens, cmd
<1>4. CASE child' = [pc |-> "exec", path |-> <<tokens[1]>>]
  <2>1. child'.pc = "exec" /\ Len(child'.path) = 1
    BY <1>4
  <2> QED BY <2>1 DEF ChildInv, FirstOf
<1>5. CASE child' = [pc |-> "lookup", name |-> tokens[1], dirs |-> SearchPath]
  <2>1. SearchPath \in Seq(STRING)
    BY PathTypes
  <2>2. Searched(SearchPath)
    <3>1. Len(SearchPath) \in Nat
      BY <2>1
    <3>2. /\ 0 \in 0..Len(SearchPath) /\ Len(SearchPath) = Len(SearchPath) - 0
          /\ \A i \in 1..Len(SearchPath) : SearchPath[i] = SearchPath[0 + i]
          /\ \A j \in 1..0 : ~FoundIn(SearchPath[j])
      BY <3>1
    <3> QED BY <3>2 DEF Searched
  <2>3. Searched(SearchPath)'
    BY <1>3, <2>2 DEF Searching, Searched, FoundIn
  <2>4. /\ child'.pc = "lookup" /\ child'.name = tokens[1]' /\ child'.dirs = SearchPath'
    BY <1>3, <1>5 DEF Searching
  <2> QED BY <1>2, <1>3, <1>5, <2>1, <2>3, <2>4 DEF ChildInv, Searching
<1> QED BY <1>4, <1>5 DEF Fork, SearchPath

\* One stat() of path_lookup.
LEMMA StatChild ==
  ASSUME BaseInv, ChildInv, Stat
  PROVE  ChildInv'
<1>1. /\ child.pc = "lookup" /\ child.dirs # <<>>
      /\ child \in [pc : {"lookup"}, name : Words, dirs : Seq(STRING)]
      /\ child.name = tokens[1]
  BY DEF Stat, ChildInv
<1>2. UNCHANGED <<input, line, symtab, files, changes>>
  BY DEF Stat, shell, world
<1>3. UNCHANGED Searching
  BY <1>2 DEF Searching, SearchPath, tokens, cmd
<1> DEFINE d == child.dirs
           sp == SearchPath
<1>4. d \in Seq(STRING) /\ Len(d) \in Nat \ {0} /\ sp \in Seq(STRING) /\ Len(sp) \in Nat
  BY <1>1, PathTypes
<1>5. ASSUME changes = 0
      PROVE  \E m \in 0..(Len(sp) - 1) :
               /\ Len(d) = Len(sp) - m /\ \A i \in 1..Len(d) : d[i] = sp[m + i]
               /\ \A j \in 1..m : ~FoundIn(sp[j])
  <2>1. PICK m \in 0..Len(sp) :
               /\ Len(d) = Len(sp) - m /\ \A i \in 1..Len(d) : d[i] = sp[m + i]
               /\ \A j \in 1..m : ~FoundIn(sp[j])
    BY <1>1, <1>5 DEF ChildInv, Searched
  <2>2. m \in 0..(Len(sp) - 1)
    BY <1>4, <2>1
  <2> QED BY <2>1, <2>2
<1>6. CASE <<Head(d), tokens[1]>> \in files /\ child' = [pc |-> "exec", path |-> <<Head(d), tokens[1]>>]
  <2>1. ASSUME changes = 0 PROVE FirstOf(child'.path)
    <3>1. PICK m \in 0..(Len(sp) - 1) :
               /\ Len(d) = Len(sp) - m /\ \A i \in 1..Len(d) : d[i] = sp[m + i]
               /\ \A j \in 1..m : ~FoundIn(sp[j])
      BY <1>5, <2>1
    <3>2. Head(d) = sp[m + 1] /\ m + 1 \in 1..Len(sp) /\ (m + 1) - 1 = m
      BY <1>4, <3>1
    <3>3. child'.path = <<SearchPath[m + 1], tokens[1]>>
      BY <1>6, <3>2
    <3>4. \A j \in 1..((m + 1) - 1) : ~FoundIn(SearchPath[j])
      BY <3>1, <3>2
    <3> QED BY <3>2, <3>3, <3>4 DEF FirstOf
  <2>2. changes' = 0 => FirstOf(child.path)'
    BY <1>2, <1>3, <2>1, SearchFrame
  <2> QED BY <1>6, <2>2 DEF ChildInv
<1>7. CASE <<Head(d), tokens[1]>> \notin files /\ child' = [child EXCEPT !.dirs = Tail(d)]
  <2>1. /\ child' \in [pc : {"lookup"}, name : Words, dirs : Seq(STRING)]
        /\ child'.pc = "lookup" /\ child'.name = child.name /\ child'.dirs = Tail(d)
    <3>1. Tail(d) \in Seq(STRING)
      BY <1>1, <1>4
    <3> HIDE DEF d
    <3> QED BY <1>1, <1>7, <3>1
  <2>2. ASSUME changes = 0 PROVE Searched(Tail(d))
    <3>1. PICK m \in 0..(Len(sp) - 1) :
               /\ Len(d) = Len(sp) - m /\ \A i \in 1..Len(d) : d[i] = sp[m + i]
               /\ \A j \in 1..m : ~FoundIn(sp[j])
      BY <1>5, <2>2
    <3>2. Head(d) = sp[m + 1] /\ m + 1 \in 0..Len(sp)
      BY <1>4, <3>1
    <3>3. /\ Len(Tail(d)) = Len(sp) - (m + 1)
          /\ \A i \in 1..Len(Tail(d)) : Tail(d)[i] = d[i + 1] /\ i + 1 \in 1..Len(d)
      BY <1>4, <3>1
    <3>4. \A i \in 1..Len(Tail(d)) : Tail(d)[i] = sp[(m + 1) + i]
      <4>1. ASSUME NEW i \in 1..Len(Tail(d)) PROVE m + (i + 1) = (m + 1) + i
        BY <3>1
      <4> QED BY <3>1, <3>3, <4>1
    <3>5. \A j \in 1..(m + 1) : ~FoundIn(sp[j])
      <4>1. ~FoundIn(sp[m + 1])
        BY <1>7, <3>2 DEF FoundIn
      <4>2. \A j \in 1..(m + 1) : j \in 1..m \/ j = m + 1
        BY <3>1
      <4> QED BY <3>1, <4>1, <4>2
    <3> QED BY <3>2, <3>3, <3>4, <3>5 DEF Searched
  <2>3. changes' = 0 => Searched(child.dirs)'
    BY <1>2, <1>3, <2>1, <2>2, SearchFrame
  <2>4. child'.name = tokens[1]'
    BY <1>1, <1>3, <2>1 DEF Searching
  <2> QED BY <2>1, <2>3, <2>4 DEF ChildInv
<1> QED BY <1>1, <1>6, <1>7 DEF Stat, Dir, Left

LEMMA NextChild ==
  ASSUME BaseInv, ChildInv, [Next]_vars
  PROVE  ChildInv'
<1>1. CASE Fill \/ ReadLine \/ EndOfInput \/ ParseBlank \/ NoCommand \/ Assign \/ Halt \/ ChangeDir
             \/ ForkFails \/ Reap
  <2>1. child'.pc = "none"
    BY <1>1 DEF Fill, ReadLine, EndOfInput, ParseBlank, NoCommand, Assign, Halt, ChangeDir, ForkFails,
                Reap, Dispatching, Parsing, NoChild, BaseInv, Foreground, TypeOK
  <2> QED BY <2>1, ShellChild
<1>2. CASE ExecFails \/ ProgramEnds
  <2>1. child'.pc = "zombie"
    BY <1>2 DEF ExecFails, ProgramEnds
  <2> QED BY <2>1, ShellChild
<1>3. CASE LookupFails
  <2>1. child'.pc = "exec" /\ Len(child'.path) = 1
    BY <1>3 DEF LookupFails
  <2> QED BY <2>1 DEF ChildInv, FirstOf
<1>4. CASE Exec \/ ProgramReads \/ UNCHANGED vars
  <2>1. UNCHANGED <<input, line, symtab, files, changes>>
    BY <1>4 DEF Exec, ProgramReads, vars, shell, world
  <2>2. UNCHANGED Searching
    BY <2>1 DEF Searching, SearchPath, tokens, cmd
  <2>3. \/ child.pc = "exec" /\ child'.pc = "running" /\ child'.path = child.path
        \/ UNCHANGED child
    BY <1>4 DEF Exec, ProgramReads, vars
  <2>4. CASE child.pc = "exec" /\ child'.pc = "running" /\ child'.path = child.path
    <3>1. changes' = 0 => FirstOf(child.path)'
      BY <2>1, <2>2, <2>4, SearchFrame DEF ChildInv
    <3> QED BY <2>4, <3>1 DEF ChildInv
  <2>5. CASE UNCHANGED child
    <3>1. child'.pc = "lookup" /\ changes' = 0 => Searched(child.dirs)'
      BY <2>1, <2>2, <2>5, SearchFrame DEF ChildInv
    <3>2. child'.pc \in {"exec", "running"} /\ changes' = 0 => FirstOf(child.path)'
      BY <2>1, <2>2, <2>5, SearchFrame DEF ChildInv
    <3>3. tokens' = tokens
      BY <2>2 DEF Searching
    <3> QED BY <2>5, <3>1, <3>2, <3>3 DEF ChildInv
  <2> QED BY <2>3, <2>4, <2>5
<1>5. CASE FileChanges
  <2>1. changes' # 0 /\ UNCHANGED <<child, input, line>>
    BY <1>5 DEF FileChanges, BaseInv, shell
  <2>2. tokens' = tokens
    BY <2>1 DEF tokens, cmd
  <2> QED BY <2>1, <2>2 DEF ChildInv
<1> QED BY <1>1, <1>2, <1>3, <1>4, <1>5, ForkChild, StatChild DEF Next, Shell, Child

-----------------------------------------------------------------------------
(* The steps hand out each line once. *)

LEMMA NextInput ==
  ASSUME [Next]_vars
  PROVE  UNCHANGED input
  BY DEF Next, vars, Shell, Fill, ReadLine, EndOfInput, ParseBlank, NoCommand, Assign, Halt, ChangeDir,
         Fork, ForkFails, Reap, Child, Stat, LookupFails, Exec, ExecFails, ProgramReads,
         ProgramEnds, FileChanges

\* Only a child that cannot execute its command takes anything back.
LEMMA NextLines ==
  ASSUME BaseInv, LinesInv, [Next]_vars, input.from = "pipe" \/ ~ExecFails
  PROVE  LinesInv'
<1> SUFFICES ASSUME pc' # "exited" PROVE SharedOut'
  BY DEF LinesInv
<1>0. pc # "exited"
  BY DEF Next, vars, shell, Shell, Fill, ReadLine, EndOfInput, ParseBlank, NoCommand, Assign, Halt,
         ChangeDir, Fork, ForkFails, Reap, Parsing, Dispatching, Child, Stat, LookupFails, Exec,
         ExecFails, ProgramReads, ProgramEnds, FileChanges
<1>1. /\ ran \cap eaten = {} /\ (ran \cup eaten) \cap (next..filled) = {}
      /\ ran \cup eaten \cup (next..filled) = 1..off
  BY <1>0 DEF LinesInv, SharedOut
<1>2. /\ off \in Nat /\ filled \in Nat /\ next \in 1..(filled + 1)
      /\ Len(input.lines) \in Nat /\ off \in 0..Len(input.lines)
  BY InputTypes DEF BaseInv, TypeOK
<1>3. CASE Fill
  <2>1. Unread \in Nat /\ Unread > 0 /\ next > filled /\ UNCHANGED <<ran, eaten>>
    BY <1>2, <1>3 DEF Fill, Unread
  <2>2. PICK k \in Chunks : next' = off + 1 /\ filled' = off + k /\ off' = off + k
    BY <1>3 DEF Fill
  <2>3. k \in 1..Unread
    BY <2>1, ChunkTypes DEF BaseInv
  <2>4. ran \cup eaten = 1..off
    <3>1. next..filled = {}
      BY <1>2, <2>1
    <3> QED BY <1>1, <3>1
  <2>5. /\ (1..off) \cap ((off + 1)..(off + k)) = {}
        /\ 1..off \cup (off + 1)..(off + k) = 1..(off + k)
    BY <1>2, <2>1, <2>3
  <2> QED BY <1>1, <2>1, <2>2, <2>4, <2>5 DEF SharedOut
<1>4. CASE ReadLine
  <2>1. /\ next <= filled /\ next' = next + 1 /\ ran' = ran \cup {next}
        /\ UNCHANGED <<off, filled, eaten>>
    BY <1>4 DEF ReadLine
  <2>2. next..filled = {next} \cup ((next + 1)..filled) /\ next \notin (next + 1)..filled
    BY <1>2, <2>1
  <2>3. /\ ran' \cap eaten' = {} /\ (ran' \cup eaten') \cap (next'..filled') = {}
        /\ ran' \cup eaten' \cup (next'..filled') = 1..off'
    BY <1>1, <2>1, <2>2
  <2> QED BY <2>3 DEF SharedOut
<1>5. CASE ProgramReads
  <2>1. UNCHANGED <<next, filled, ran>>
    BY <1>5 DEF ProgramReads, shell
  <2>2. PICK k \in 1..Unread : off' = off + k /\ eaten' = eaten \cup (off + 1)..(off + k)
    BY <1>5 DEF ProgramReads
  <2>3. /\ (1..off) \cap ((off + 1)..(off + k)) = {}
        /\ 1..off \cup (off + 1)..(off + k) = 1..(off + k)
    BY <1>2, <2>2 DEF Unread
  <2>4. /\ ran' \cap eaten' = {} /\ (ran' \cup eaten') \cap (next'..filled') = {}
        /\ ran' \cup eaten' \cup (next'..filled') = 1..off'
    BY <1>1, <2>1, <2>2, <2>3
  <2> QED BY <2>4 DEF SharedOut
<1>6. CASE Halt \/ ExecFails
  <2>1. input.from = "pipe" /\ ExecFails
    BY <1>6 DEF Halt
  <2>2. off' = off /\ UNCHANGED <<next, filled, ran, eaten>>
    BY <2>1, RewoundTypes DEF ExecFails, AlsoReads, shell
  <2> QED BY <2>2, <1>1 DEF SharedOut
<1>7. CASE \/ EndOfInput \/ ParseBlank \/ NoCommand \/ Assign \/ ChangeDir \/ Fork \/ ForkFails \/ Reap
           \/ Stat \/ LookupFails \/ Exec \/ ProgramEnds \/ FileChanges \/ UNCHANGED vars
  <2>1. UNCHANGED <<off, next, filled, ran, eaten>>
    BY <1>7 DEF EndOfInput, ParseBlank, NoCommand, Assign, ChangeDir, Fork, ForkFails, Reap, Stat,
                LookupFails, Exec, ProgramEnds, FileChanges, vars, shell
  <2> QED BY <2>1, <1>1 DEF SharedOut
<1> QED BY <1>3, <1>4, <1>5, <1>6, <1>7 DEF Next, Shell, Child

LEMMA NextPipe ==
  ASSUME BaseInv, PipeInv, [Next]_vars
  PROVE  PipeInv'
  BY NextInput, NextLines DEF PipeInv

-----------------------------------------------------------------------------
(* What is always true. *)

LEMMA NextBase ==
  ASSUME BaseInv, ChildInv, [Next]_vars
  PROVE  BaseInv'
<1>1. CASE UNCHANGED vars
  <2>1. UNCHANGED <<input, off, next, filled, line, pc, symtab, ran, child, files, changes, eaten>>
    BY <1>1 DEF vars, shell, world
  <2>2. TypeOK' /\ NamesStay' /\ Foreground'
    BY <2>1 DEF BaseInv, TypeOK, NamesStay, Foreground
  <2> QED BY <2>1, <2>2 DEF BaseInv
<1> QED BY <1>1, ReadBase, DispatchBase, AssignBase, OthersBase DEF Next, Shell

LEMMA InitInv == Init => LshInv
<1> SUFFICES ASSUME Init PROVE LshInv
  OBVIOUS
<1>1. ChildInv
  BY DEF Init, ChildInv, NoChild
<1>2. next..filled = {} /\ 1..off = {}
  BY DEF Init
<1>3. PipeInv
  BY <1>2 DEF Init, PipeInv, LinesInv, SharedOut
<1> QED BY <1>1, <1>3, InitBase DEF LshInv

LEMMA AlwaysInv == Spec => []LshInv
<1>1. LshInv /\ [Next]_vars => LshInv'
  BY NextBase, NextChild, NextPipe DEF LshInv
<1> QED BY <1>1, InitInv, PTL DEF Spec

\* main waits for each command it forks, and reads no line meanwhile.
THEOREM WaitsForItsChild == Spec => []Foreground
<1>1. LshInv => Foreground
  BY DEF LshInv, BaseInv
<1> QED BY <1>1, AlwaysInv, PTL

\* No line of input makes dispatch and path_lookup lose what init() has bound.
THEOREM InternalsAreKept == Spec => []InternalsStay
<1>1. LshInv => InternalsStay
  BY DEF LshInv, BaseInv, NamesStay, InternalsStay
<1> QED BY <1>1, AlwaysInv, PTL

\* path_lookup finds the first directory of PATH that has the command.
THEOREM FindsTheFirst == Spec => []FirstInPath
<1>1. LshInv => FirstInPath
  BY DEF LshInv, ChildInv, FirstOf, FirstInPath
<1> QED BY <1>1, AlwaysInv, PTL

\* On a pipe the shell and the programs it runs share out the lines, although
\* a child that cannot execute its command exits with a copy of the buffer.
THEOREM PipesAreReadOnce == Spec => [](input.from = "pipe" => EachLineOnce)
<1>1. LshInv => (input.from = "pipe" => EachLineOnce)
  BY DEF LshInv, PipeInv, LinesInv, SharedOut, EachLineOnce
<1> QED BY <1>1, AlwaysInv, PTL

\* So they do on a file, for as long as every command that is tried can be
\* executed: it is only the exit() after execve that seeks the offset back.
THEOREM FilesAreReadOnce ==
  Spec /\ [][input.from = "pipe" \/ ~ExecFails]_vars => []EachLineOnce
<1>1. Init => LinesInv
  <2>1. Init => next..filled = {} /\ 1..off = {}
    BY DEF Init
  <2> QED BY <2>1 DEF Init, LinesInv, SharedOut
<1>2. LshInv /\ LinesInv /\ [Next]_vars /\ [input.from = "pipe" \/ ~ExecFails]_vars => LinesInv'
  <2> SUFFICES ASSUME BaseInv, LinesInv, [Next]_vars, [input.from = "pipe" \/ ~ExecFails]_vars
               PROVE  LinesInv'
    BY DEF LshInv
  <2>1. CASE UNCHANGED vars
    BY <2>1 DEF vars, shell, LinesInv, SharedOut
  <2> QED BY <2>1, NextLines
<1>3. LinesInv => EachLineOnce
  BY DEF LinesInv, SharedOut, EachLineOnce
<1> QED BY <1>1, <1>2, <1>3, AlwaysInv, PTL DEF Spec

-----------------------------------------------------------------------------
(* Scripts in a file whose commands are there. *)

\* Of dirs, the first that has the command has one that can be executed.
FoundAhead(dirs, name) ==
  \E i \in 1..Len(dirs) :
    /\ <<dirs[i], name>> \in Files \ NotExec
    /\ \A j \in 1..(i-1) : <<dirs[j], name>> \notin Files

Runnable(name) ==
  IF name \in Slashed THEN <<name>> \in Files \ NotExec
                      ELSE name \in {"exit", "cd"} \/ FoundAhead(Dirs["PATH"], name)

Assigns(t) == \/ \E i \in 1..(Len(t) - 1) : t[i] \in NameLike /\ t[i+1] = "="
              \/ \E i \in 1..Len(t) : t[i] \in Quoted

\* Every line of a script is blank or a backslash, sets a variable other than
\* PATH, or names a command that is there.
ScriptsRun ==
  \A x \in Inputs : x.from = "file" =>
    \A i \in 1..Len(x.lines) :
      x.lines[i] \notin {<<>>, <<"\\">>} =>
        IF Assigns(x.lines[i]) THEN x.lines[i][1] # "PATH" ELSE Runnable(x.lines[i][1])

\* PATH stays what it was, and the child is on its way to the command.
ScriptInv ==
  input.from = "file" /\ changes = 0 =>
    /\ symtab["PATH"] = SymVar("PATH")
    /\ files = Files
    /\ child.pc = "lookup" => FoundAhead(child.dirs, child.name)
    /\ child.pc = "exec" => child.path \in Files \ NotExec

\* Looking in one directory more, path_lookup finds the command or comes closer.
LEMMA AheadStep ==
  ASSUME NEW dirs \in Seq(STRING), NEW name, FoundAhead(dirs, name)
  PROVE  /\ dirs # <<>>
         /\ \/ <<Head(dirs), name>> \in Files \ NotExec
            \/ <<Head(dirs), name>> \notin Files /\ FoundAhead(Tail(dirs), name)
<1>1. PICK i \in 1..Len(dirs) : /\ <<dirs[i], name>> \in Files \ NotExec
                               /\ \A j \in 1..(i-1) : <<dirs[j], name>> \notin Files
  BY DEF FoundAhead
<1>2. dirs # <<>> /\ Head(dirs) = dirs[1]
  BY <1>1
<1>3. CASE i = 1
  BY <1>1, <1>2, <1>3
<1>4. CASE i # 1
  <2>1. <<dirs[1], name>> \notin Files
    BY <1>1, <1>4
  <2>2. /\ Tail(dirs) \in Seq(STRING) /\ Len(Tail(dirs)) = Len(dirs) - 1
        /\ \A j \in 1..Len(Tail(dirs)) : Tail(dirs)[j] = dirs[j+1]
    BY <1>2
  <2>3. i - 1 \in 1..Len(Tail(dirs)) /\ Tail(dirs)[i-1] = dirs[i]
    BY <1>1, <1>4, <2>2
  <2>4. ASSUME NEW j \in 1..((i-1)-1) PROVE <<Tail(dirs)[j], name>> \notin Files
    <3>1. j + 1 \in 1..(i-1) /\ Tail(dirs)[j] = dirs[j+1]
      BY <1>1, <2>2, <2>4
    <3> QED BY <1>1, <3>1
  <2>5. FoundAhead(Tail(dirs), name)
    BY <1>1, <2>3, <2>4 DEF FoundAhead
  <2> QED BY <1>2, <2>1, <2>5
<1> QED BY <1>3, <1>4

\* What the line says, when it is parsed.
LEMMA ScriptLine ==
  ASSUME ScriptsRun, BaseInv, input.from = "file", pc = "parse", tokens # <<>>
  PROVE  IF IsAssignment THEN tokens[1] # "PATH" ELSE Runnable(tokens[1])
<1>1. line \in 1..Len(input.lines) /\ input \in Inputs
  BY DEF BaseInv
<1>2. cmd \notin {<<>>, <<"\\">>} /\ tokens = cmd
  BY DEF tokens
<1>3. IsAssignment <=> Assigns(cmd)
  BY <1>2 DEF IsAssignment, Assigns
<1>4. IF Assigns(cmd) THEN cmd[1] # "PATH" ELSE Runnable(cmd[1])
  BY <1>1, <1>2 DEF ScriptsRun, cmd
<1> QED BY <1>2, <1>3, <1>4

LEMMA NextScript ==
  ASSUME ScriptsRun, BaseInv, ChildInv, ScriptInv, [Next]_vars
  PROVE  ScriptInv'
<1> SUFFICES ASSUME input.from = "file", changes' = 0 PROVE ScriptInv'
  BY NextInput DEF ScriptInv
<1>1. changes = 0 /\ UNCHANGED files
  BY DEF BaseInv, Next, vars, world, Shell, Fill, ReadLine, EndOfInput, ParseBlank, NoCommand, Assign,
         Halt, ChangeDir, Fork, ForkFails, Reap, Child, Stat, LookupFails, Exec, ExecFails,
         ProgramReads, ProgramEnds, FileChanges
<1>2. /\ symtab["PATH"] = SymVar("PATH") /\ files = Files
      /\ child.pc = "lookup" => FoundAhead(child.dirs, child.name)
      /\ child.pc = "exec" => child.path \in Files \ NotExec
  BY <1>1 DEF ScriptInv
<1>3. CASE Assign
  <2>1. pc = "parse" /\ IsAssignment /\ UNCHANGED child
    BY <1>3 DEF Assign, Parsing
  <2>2. tokens # <<>>
    BY <2>1 DEF IsAssignment
  <2>3. tokens[1] # "PATH"
    BY <2>1, <2>2, ScriptLine
  <2>4. symtab'["PATH"] = symtab["PATH"]
    <3>1. "PATH" \in DOMAIN symtab
      BY DEF BaseInv, NamesStay, InitialSymtab
    <3> QED BY <1>3, <2>3, <3>1 DEF Assign, Dict!Bind
  <2> QED BY <1>1, <1>2, <2>1, <2>4 DEF ScriptInv
<1>4. CASE Fork
  <2>1. /\ pc = "parse" /\ tokens # <<>> /\ ~IsAssignment /\ ~IsInternal(tokens[1])
        /\ UNCHANGED symtab
    BY <1>4 DEF Fork, Dispatching, Parsing
  <2>2. Runnable(tokens[1])
    BY <2>1, ScriptLine
  <2>3. tokens[1] \notin {"exit", "cd"}
    BY <2>1 DEF IsInternal, BaseInv, NamesStay, InitialSymtab, ExitEntry, SymInternal
  <2>4. symtab["PATH"].value = "PATH"
    BY <1>2 DEF SymVar
  <2>5. CASE tokens[1] \in Slashed
    <3>1. child' = [pc |-> "exec", path |-> <<tokens[1]>>]
      BY <1>4, <2>5 DEF Fork
    <3> QED BY <1>1, <1>2, <2>1, <2>2, <2>5, <3>1 DEF ScriptInv, Runnable
  <2>6. CASE tokens[1] \notin Slashed
    <3>1. child' = [pc |-> "lookup", name |-> tokens[1], dirs |-> Dirs["PATH"]]
      BY <1>4, <2>4, <2>6 DEF Fork
    <3>2. FoundAhead(Dirs["PATH"], tokens[1])
      BY <2>2, <2>3, <2>6 DEF Runnable
    <3>3. /\ child'.pc = "lookup" /\ child'.dirs = Dirs["PATH"]
          /\ child'.name = tokens[1]
      BY <3>1
    <3>4. FoundAhead(child'.dirs, child'.name)
      BY <3>2, <3>3
    <3> QED BY <1>1, <1>2, <2>1, <3>3, <3>4 DEF ScriptInv, FoundAhead
  <2> QED BY <2>5, <2>6
<1>5. CASE Stat
  <2>1. /\ child.pc = "lookup" /\ child.dirs \in Seq(STRING)
        /\ child \in [pc : {"lookup"}, name : Words, dirs : Seq(STRING)]
        /\ UNCHANGED symtab
    BY <1>5 DEF Stat, ChildInv, shell
  <2>2. \/ <<Head(child.dirs), child.name>> \in Files \ NotExec
        \/ /\ <<Head(child.dirs), child.name>> \notin Files
           /\ FoundAhead(Tail(child.dirs), child.name)
    BY <1>2, <2>1, AheadStep
  <2>3. CASE <<Head(child.dirs), child.name>> \in Files
    <3>1. child' = [pc |-> "exec", path |-> <<Head(child.dirs), child.name>>]
      BY <1>2, <1>5, <2>3 DEF Stat, Dir
    <3> QED BY <1>1, <1>2, <2>1, <2>2, <2>3, <3>1 DEF ScriptInv
  <2>4. CASE <<Head(child.dirs), child.name>> \notin Files
    <3>1. child' = [child EXCEPT !.dirs = Tail(child.dirs)]
      BY <1>2, <1>5, <2>4 DEF Stat, Dir, Left
    <3>2. child'.pc = "lookup" /\ child'.dirs = Tail(child.dirs) /\ child'.name = child.name
      BY <2>1, <3>1
    <3>3. FoundAhead(child'.dirs, child'.name)
      BY <2>2, <2>4, <3>2
    <3> QED BY <1>1, <1>2, <2>1, <3>2, <3>3 DEF ScriptInv, FoundAhead
  <2> QED BY <2>3, <2>4
<1>6. CASE LookupFails
  <2>1. child.dirs = <<>> /\ child.pc = "lookup"
    BY <1>6 DEF LookupFails
  <2>2. FoundAhead(<<>>, child.name)
    BY <1>2, <2>1
  <2> QED BY <2>2 DEF FoundAhead
<1>7. CASE \/ Fill \/ ReadLine \/ EndOfInput \/ ParseBlank \/ NoCommand \/ Halt \/ ChangeDir \/ ForkFails
           \/ Reap \/ Exec \/ ExecFails \/ ProgramReads \/ ProgramEnds \/ UNCHANGED vars
  <2>1. /\ UNCHANGED symtab
        /\ UNCHANGED child \/ child'.pc \in {"none", "running", "zombie"}
    BY <1>7 DEF Fill, ReadLine, EndOfInput, ParseBlank, NoCommand, Halt, ChangeDir, ForkFails, Reap, Exec,
                ExecFails, ProgramReads, ProgramEnds, vars, shell, NoChild
  <2>2. CASE UNCHANGED child
    BY <1>1, <1>2, <2>1, <2>2 DEF ScriptInv, FoundAhead
  <2>3. CASE child'.pc \in {"none", "running", "zombie"}
    BY <1>1, <1>2, <2>1, <2>3 DEF ScriptInv
  <2> QED BY <2>1, <2>2, <2>3
<1>8. CASE FileChanges
  <2>1. changes' = changes + 1 /\ changes \in Nat
    BY <1>8 DEF FileChanges, BaseInv
  <2> QED BY <2>1
<1> QED BY <1>3, <1>4, <1>5, <1>6, <1>7, <1>8 DEF Next, Shell, Child

\* When the scripts read from files name commands that are there, the shell
\* and the programs it runs share out every line of any input.
THEOREM LinesAreReadOnce == ScriptsRun /\ Spec => []EachLineOnce
<1> SUFFICES ASSUME ScriptsRun PROVE Spec => []EachLineOnce
  OBVIOUS
<1> DEFINE Kept == ScriptInv /\ (Undisturbed => LinesInv)
<1>1. Init => Kept
  <2>1. Init => next..filled = {} /\ 1..off = {}
    BY DEF Init
  <2>2. Init => symtab["PATH"] = SymVar("PATH")
    BY DEF Init, InitialSymtab
  <2> QED BY <2>1, <2>2 DEF Init, NoChild, ScriptInv, LinesInv, SharedOut
<1>2. LshInv /\ Kept /\ [Next]_vars => Kept'
  <2> SUFFICES ASSUME BaseInv, ChildInv, Kept, [Next]_vars PROVE Kept'
    BY DEF LshInv
  <2>1. ScriptInv'
    BY NextScript
  <2>2. ASSUME Undisturbed' PROVE LinesInv'
    <3>1. Undisturbed
      BY <2>2, NextInput DEF Undisturbed, BaseInv, Next, vars, world, Shell, Fill, ReadLine,
         EndOfInput, ParseBlank, NoCommand, Assign, Halt, ChangeDir, Fork, ForkFails, Reap, Child, Stat,
         LookupFails, Exec, ExecFails, ProgramReads, ProgramEnds, FileChanges
    <3>2. input.from = "pipe" \/ ~ExecFails
      BY <3>1, InputTypes DEF Undisturbed, ScriptInv, ExecFails, BaseInv
    <3> QED BY <3>1, <3>2, NextLines
  <2> QED BY <2>1, <2>2
<1>3. Kept => EachLineOnce
  BY DEF LinesInv, SharedOut, EachLineOnce
<1> QED BY <1>1, <1>2, <1>3, AlwaysInv, PTL DEF Spec
=============================================================================
