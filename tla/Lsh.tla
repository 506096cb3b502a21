-------------------------------- MODULE Lsh --------------------------------
(***************************************************************************)
(* The shell of assignment1: lsh.c with internal.c, over the dictionary    *)
(* that symtab.c implements (module Symtab) and the tokens that tokenise.c *)
(* cuts (module Tokenise), built with the features of the Makefile.        *)
(*                                                                         *)
(* The shell process and the child it forks share one open file, standard  *)
(* input: "off" counts the lines the kernel has handed out, while the      *)
(* shell's stdio buffer holds lines next..filled of what it was handed.    *)
(* Lines are taken to be of one length, and to fit the buffer whole.       *)
(***************************************************************************)
EXTENDS Integers, Sequences, FiniteSets, FiniteSetsExt, SequencesExt

CONSTANTS
  Words,      \* the words of the lines, and the values of the variables
  NameLike,   \* those that end in [a-zA-Z][a-zA-Z0-9]*
  Quoted,     \* those in quotes that have <name>= in them
  Slashed,    \* those with a '/': a path rather than a name
  Dirs,       \* the directories a word lists when it is the value of PATH
  Inputs,     \* what standard input may be: [from, lines]
  Buffered,   \* how many lines one read() may return
  Files,      \* the files there are at first: <<directory, name>> or <<path>>
  NotExec,    \* those that execve refuses
  MaxChanges  \* how often another process creates or removes a file

\* Standard input is a file or a pipe (a terminal is a pipe written line by
\* line).  A line is the sequence of its tokens: blanks stand between its
\* words, and neither a blank nor a quote before a "=".  Only one line has a
\* backslash, that of nothing else: Tokenise shows what others may do.
ASSUME LshOK ==
  /\ {"PS1", "PATH", "exit", "cd", "="} \subseteq Words
  /\ NameLike \cup Quoted \cup Slashed \subseteq Words \ {"="}
  /\ Dirs \in [Words -> Seq(STRING)]
  /\ \A x \in Inputs : x.from \in {"file", "pipe"} /\ x.lines \in Seq(Seq(Words))
  /\ \A x \in Inputs : \A l \in Range(x.lines) : "\\" \in Range(l) => l = <<"\\">>
  /\ Buffered \in Nat \ {0}

VARIABLES
  input,    \* what standard input is
  off,      \* offset of the open file, in lines
  next,     \* the line fgets returns next
  filled,   \* the last line in the buffer
  line,     \* the number of the line that is in cmd
  pc,       \* where the shell is
  symtab,   \* the symbol table, as a dictionary
  cwd,      \* the shell's working directory
  child,    \* the process forked last, until it is reaped
  files,    \* the files there are
  changes,  \* how often files changed
  ran,      \* history: the lines the shell has read
  eaten     \* history: the lines other programs have read

shell == <<next, filled, line, pc, symtab, cwd, ran>>
world == <<files, changes>>
vars  == <<input, off, shell, child, world, eaten>>

NoChild == [pc |-> "none"]

Dict == INSTANCE Dictionary WITH
          Names <- Words, Values <- Words, Funcs <- {"halt", "lsh_cd"},
          dict <- symtab, call <- [op |-> "none"], result <- <<"void">>

SymVar(v)      == [type |-> "SYM_VAR", value |-> v]
SymInternal(f) == [type |-> "SYM_INTERNAL", value |-> f]

ExitEntry == SymInternal("halt")

\* symtab once init() has run: "PS1" and "PATH" spell their default values.
InitialSymtab ==
  [n \in {"PS1", "PATH", "exit", "cd"} |->
     CASE n = "exit" -> ExitEntry
       [] n = "cd"   -> SymInternal("lsh_cd")
       [] OTHER      -> SymVar(n)]

Init == /\ input \in Inputs
        /\ off = 0
        /\ next = 1
        /\ filled = 0
        /\ line = 0
        /\ pc = "read"
        /\ symtab = InitialSymtab
        /\ cwd = "."
        /\ child = NoChild
        /\ files = Files
        /\ changes = 0
        /\ ran = {}
        /\ eaten = {}

-----------------------------------------------------------------------------
(* What lsh.c makes of a line. *)

\* cmd, the line read last.
cmd == input.lines[line]

Blank == cmd = <<>>

\* What tokenise_fetch makes of it: of a backslash alone, nothing.
tokens == IF cmd = <<"\\">> THEN <<>> ELSE cmd

\* regexec: the expression is not anchored, and it is the line that it looks
\* at and not the tokens, so <name>= may stand anywhere, also in quotes.
IsAssignment ==
  \/ \E i \in 1..(Len(tokens) - 1) : tokens[i] \in NameLike /\ tokens[i+1] = "="
  \/ \E i \in 1..Len(tokens) : tokens[i] \in Quoted

\* The function internal() calls, if argv[0] names one.
IsInternal(w) == w \in DOMAIN symtab /\ symtab[w].type = "SYM_INTERNAL"

-----------------------------------------------------------------------------
(* READ: fgets on the stream stdin. *)

\* The lines the kernel has not handed out.
Unread == Len(input.lines) - off

\* read(): a file fills the buffer, a pipe returns what its writer happens to
\* have written.
Chunks ==
  LET most == Min({Buffered, Unread})
  IN IF input.from = "file" THEN {most} ELSE 1..most

Fill ==
  /\ pc = "read" /\ next > filled /\ Unread > 0
  /\ \E k \in Chunks : /\ next' = off + 1
                       /\ filled' = off + k
                       /\ off' = off + k
  /\ UNCHANGED <<input, line, pc, symtab, cwd, ran, child, world, eaten>>

ReadLine ==
  /\ pc = "read" /\ next <= filled
  /\ line' = next
  /\ next' = next + 1
  /\ ran' = ran \cup {next}
  /\ pc' = "parse"
  /\ UNCHANGED <<input, off, filled, symtab, cwd, child, world, eaten>>

\* fgets returns NULL: main cleans up and exits.
EndOfInput ==
  /\ pc = "read" /\ next > filled /\ Unread = 0
  /\ pc' = "exited"
  /\ UNCHANGED <<input, off, next, filled, line, symtab, cwd, ran, child,
                 world, eaten>>

\* exit() flushes stdin: on a file it seeks back, relative to the shared
\* offset, over what this process's copy of the buffer still holds.  A seek
\* before the start of the file, or on a pipe, fails.
Rewound ==
  LET back == off - (filled - next + 1)
  IN IF input.from = "file" /\ back >= 0 THEN back ELSE off

-----------------------------------------------------------------------------
(* parse() and dispatch(). *)

Parsing == pc = "parse"

\* trim() looks for the end of a blank line before the start of the buffer, and
\* goes on as far as what it finds there is white space: undefined behaviour.
ParseBlank ==
  /\ Parsing /\ Blank
  /\ pc' \in {"read", "crashed"}
  /\ UNCHANGED <<input, off, next, filled, line, symtab, cwd, ran, child,
                 world, eaten>>

\* Mutant: symtab_set overwrites an internal command.
SettableAny(n) == TRUE

\* free() aborts the shell on the function that an internal command holds.
Settable(n) == ~IsInternal(n)

\* tokens[2] is read without looking at the count: beyond the array there may
\* be a bad pointer, or one to some string.
Assign ==
  /\ Parsing /\ IsAssignment
  /\ \/ \E v \in IF Len(tokens) >= 3 THEN {tokens[3]} ELSE Words :
          /\ Settable(tokens[1])
          /\ symtab' = Dict!Bind(tokens[1], SymVar(v))
          /\ pc' = "read"
     \/ /\ Len(tokens) < 3 \/ IsInternal(tokens[1])
        /\ pc' = "crashed"
        /\ UNCHANGED symtab
  /\ UNCHANGED <<input, off, next, filled, line, cwd, ran, child, world, eaten>>

\* A line of no token has no argv[0]: symtab_lookup() calls strcmp() with NULL.
NoCommand ==
  /\ Parsing /\ ~Blank /\ tokens = <<>>
  /\ pc' = "crashed"
  /\ UNCHANGED <<input, off, next, filled, line, symtab, cwd, ran, child,
                 world, eaten>>

Dispatching == Parsing /\ tokens # <<>> /\ ~IsAssignment

Halt ==
  /\ Dispatching
  /\ IsInternal(tokens[1]) /\ symtab[tokens[1]].value = "halt"
  /\ off' = Rewound
  /\ pc' = "exited"
  /\ UNCHANGED <<input, next, filled, line, symtab, cwd, ran, child, world, eaten>>

\* chdir() may fail; with no argument the directory is $HOME.
ChangeDir ==
  /\ Dispatching
  /\ IsInternal(tokens[1]) /\ symtab[tokens[1]].value = "lsh_cd"
  /\ cwd' \in {cwd, IF Len(tokens) >= 2 THEN tokens[2] ELSE "HOME"}
  /\ pc' = "read"
  /\ UNCHANGED <<input, off, next, filled, line, symtab, ran, child, world, eaten>>

\* Mutant: the shell does not wait for the child.
AfterForkRead == "read"

AfterFork == "wait"

\* external(): path_lookup is skipped for a name with a '/'.
Fork ==
  LET name == tokens[1]
  IN /\ Dispatching
     /\ ~IsInternal(name)
     /\ child' = IF name \in Slashed
                 THEN [pc |-> "exec", path |-> <<name>>]
                 ELSE [pc |-> "lookup", name |-> name,
                       dirs |-> Dirs[symtab["PATH"].value]]
     /\ pc' = AfterFork
     /\ UNCHANGED <<input, off, next, filled, line, symtab, cwd, ran, world, eaten>>

ForkFails ==
  /\ Dispatching
  /\ ~IsInternal(tokens[1])
  /\ pc' = "read"
  /\ UNCHANGED <<input, off, next, filled, line, symtab, cwd, ran, child,
                 world, eaten>>

\* waitpid() returns, and the status is dropped.
Reap ==
  /\ pc = "wait" /\ child.pc = "zombie"
  /\ child' = NoChild
  /\ pc' = "read"
  /\ UNCHANGED <<input, off, next, filled, line, symtab, cwd, ran, world, eaten>>

Shell == \/ Fill \/ ReadLine \/ EndOfInput
         \/ ParseBlank \/ NoCommand \/ Assign \/ Halt \/ ChangeDir
         \/ Fork \/ ForkFails \/ Reap

-----------------------------------------------------------------------------
(* The child, up to execve() and after it. *)

\* Mutants: the last match counts; strtok_r() is given the whole of PATH again.
DirLast(dirs) == Last(dirs)
LeftAll(dirs) == dirs

\* What strtok_r() returns, and what it leaves.
Dir(dirs)  == Head(dirs)
Left(dirs) == Tail(dirs)

\* One stat() of the loop of path_lookup.
Stat ==
  /\ child.pc = "lookup" /\ child.dirs # <<>>
  /\ LET execpath == <<Dir(child.dirs), child.name>>
     IN child' = IF execpath \in files
                 THEN [pc |-> "exec", path |-> execpath]
                 ELSE [child EXCEPT !.dirs = Left(@)]
  /\ UNCHANGED <<input, off, shell, world, eaten>>

\* Nothing was found: which is still the value of PATH itself.
LookupFails ==
  /\ child.pc = "lookup" /\ child.dirs = <<>>
  /\ child' = [pc |-> "exec", path |-> <<symtab["PATH"].value>>]
  /\ UNCHANGED <<input, off, shell, world, eaten>>

Exec ==
  /\ child.pc = "exec" /\ child.path \in files \ NotExec
  /\ child' = [pc |-> "running", path |-> child.path]
  /\ UNCHANGED <<input, off, shell, world, eaten>>

\* Mutant: the exit() after execve is missing, and the child goes on with the
\* lines of its copy of the buffer.
AlsoReadsOn == next..filled

\* The lines that a child reads when execve has returned.
AlsoReads == {}

\* execve returns, and the child calls exit() with its copy of the buffer.
ExecFails ==
  /\ child.pc = "exec" /\ child.path \notin files \ NotExec
  /\ off' = Rewound /\ eaten' = eaten \cup AlsoReads
  /\ child' = [pc |-> "zombie"]
  /\ UNCHANGED <<input, shell, world>>

Child == Stat \/ LookupFails \/ Exec \/ ExecFails

\* The program shares standard input with the shell that waits for it.
ProgramReads ==
  /\ child.pc = "running" /\ Unread > 0
  /\ \E k \in 1..Unread : /\ off' = off + k
                          /\ eaten' = eaten \cup (off + 1)..(off + k)
  /\ UNCHANGED <<input, shell, child, world>>

ProgramEnds ==
  /\ child.pc = "running"
  /\ child' = [pc |-> "zombie"]
  /\ UNCHANGED <<input, off, shell, world, eaten>>

\* Another process creates or removes a file: "it is not a guarantee, if
\* found, that it will still exist".
FileChanges ==
  /\ changes < MaxChanges
  /\ changes' = changes + 1
  /\ \E f \in Files : files' = SymDiff(files, {f})
  /\ UNCHANGED <<input, off, shell, child, eaten>>

Next == Shell \/ Child \/ ProgramReads \/ ProgramEnds \/ FileChanges

Spec == Init /\ [][Next]_vars

\* The kernel schedules both processes, and every program run ends at last.
FairSpec == Spec /\ WF_vars(Shell) /\ WF_vars(Child) /\ WF_vars(ProgramEnds)

-----------------------------------------------------------------------------
\* Every variable keeps its type, and no index leaves the input.
TypeOK ==
  /\ off \in 0..Len(input.lines)
  /\ filled \in 0..Len(input.lines) /\ next \in 1..(filled + 1)
  /\ line \in 0..Len(input.lines)
  /\ pc \in {"read", "parse", "wait", "exited", "crashed"}
  /\ \A n \in DOMAIN symtab : n \in Words /\ symtab[n] \in Dict!Entry
  /\ child.pc \in {"none", "lookup", "exec", "running", "zombie"}
  /\ files \subseteq Files
  /\ ran \cup eaten \subseteq 1..Len(input.lines)

\* Every command runs in the foreground, one with a "&" at its end too: the
\* shell waits as long as its child is not reaped, so it never reads a line
\* beside a program that reads too, and leaves no zombie behind when it exits.
\* It is the code of external() that says so (lsh.c:238-240).  What the tests
\* ask for is another shell: tests/test_runner.rb:82 ("Check if command
\* backgrounding is implemented") wants the prompt back before its command,
\* `tests/sleep.sh &`, has ended; this one hands "&" to it as an argument.
Foreground == pc = "wait" <=> child.pc # "none"

\* A script in a file is only vouched for while no command of it vanishes.
Undisturbed == input.from = "pipe" \/ changes = 0

\* Each line the kernel hands out is read by the shell, waits in its buffer,
\* or was read by a program it ran: no line is lost and none is acted on
\* twice, although both processes read the same open file and the child
\* carries a copy of the buffer.
EachLineOnce ==
  LET held == next..filled
  IN pc # "exited" /\ Undisturbed =>
       /\ ran \cap eaten = {} /\ (ran \cup eaten) \cap held = {}
       /\ ran \cup eaten \cup held = 1..off

\* Whatever is assigned, the names that init() binds keep their types: "exit"
\* and "cd" stay commands, and path_lookup finds a value for PATH.  So does
\* every variable of the shell.
InternalsStay ==
  /\ TypeOK
  /\ \A n \in DOMAIN InitialSymtab :
       n \in DOMAIN symtab /\ symtab[n].type = InitialSymtab[n].type

\* The directories path_lookup searches for the command on the line.
SearchPath == Dirs[symtab["PATH"].value]

FoundIn(d) == <<d, tokens[1]>> \in files

\* With no file created or removed meanwhile, a command found by name is the
\* one in the first directory of PATH, as the lines before it left PATH.
FirstInPath ==
  changes = 0 /\ child.pc = "running" /\ Len(child.path) = 2 =>
    \E i \in 1..Len(SearchPath) :
      /\ child.path = <<SearchPath[i], tokens[1]>>
      /\ \A j \in 1..(i-1) : ~FoundIn(SearchPath[j])

\* A name without a '/' that is in no directory of PATH is not run
\* (tests/test_runner.rb:78: "Command not in PATH but expected error not
\* thrown").
NotInPathNotRun ==
  child.pc = "running" /\ tokens[1] \notin Slashed =>
    child.path \in {<<d, tokens[1]>> : d \in Range(SearchPath)}

\* At the end of its input the shell exits, whatever commands are missing,
\* vanish between stat() and execve(), or swallow part of the input.
ShellEnds == []Undisturbed => <>(pc \in {"exited", "crashed"})
=============================================================================
