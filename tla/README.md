# A TLA+ verification of the dt228 Operating Systems 2 programs

The repository holds the C programs of an operating systems course: a learning
shell (`src/assignment1`), small demonstrations of pipelines, background jobs
and redirection, a shared memory server and client (`src/assignment2`), and
processes that share a counter (`src/lab4`). This directory models the parts
that carry logic of their own, checks the models with TLC and proves the most
important properties with TLAPS.

    tlc -config MCLsh_shell.cfg MCLsh        # one run
    tlapm SharedCounterProofs.tla            # one proof

`PROJECT.json` lists the runs, the source lines every definition translates,
the hazards of the code, and for each property a mutant of the code that
breaks it (the definitions headed "Mutant:").

## 1. The system

| Part | Source | State | Operations | Modelled in |
|---|---|---|---|---|
| Tokeniser | `assignment1/tokenise.c` (older copy in `lab2`) | `cp`, `sp`, `ep`, `state`, the token array | `tokenise_fetch`, one loop over the line | `Tokenise`, `TokenGrammar`, `TokeniseProofs` |
| Symbol table | `assignment1/symtab.c` (same file in `lab2`) | a singly linked list of `symbol_t` | set, lookup, fetch, remove, size, free | `Symtab`, `Dictionary`, `SymtabProofs` |
| Shell | `assignment1/lsh.c`, `internal.c` | the stdio buffer of stdin, the symbol table, the working directory, the child | read, parse, dispatch, assign, `halt`, `lsh_cd`, fork, look up, execve, waitpid | `Lsh`, `LshProofs` |
| Shared counter | `lab4/shared_counter_*.c` | a file, a named or unnamed semaphore, an int, two loop variables | open, write, mmap, sem_open, sem_unlink, sem_init, fork, sem_wait, `count++`, printf, sem_post, waitpid | `SharedCounter`, `AtomicCounter`, `SharedCounterProofs`; `Instances`, `InstancesProofs` |
| Pipelines | `assignment1/examples/pipeline.c`, `pipeline2.c` | descriptor tables, the parent's list of pids | pipe, fork, setpgid, dup2, close, execl, waitpid | `Pipeline`, `Pipeline2`, `PipeCommands`, `Descriptors`, `PipelinesProofs` |
| Background job | `examples/background.c` | a flag set by a handler, the pending signal, the children | sigaction, fork, SIGCHLD, waitpid in the handler, poll | `Background`, `DemosProofs` |
| Redirection | `examples/redirectto.c`, `redirectfrom.c` | a descriptor table, the stdio buffer | open, dup2, close, printf or getchar and putchar, exit | `Redirect`, `DemosProofs` |
| Shared memory | `assignment2/shm_server.c`, `shm_client.c` | a named segment with a size and a magic number, a flag set by a handler | unlink, create, size, map, check, signal | `Segment`, `SegmentProofs` |
| fork demonstration | `lab2/fork.c` | a stdio buffer copied by fork | printf, fork, sleep, waitpid, exit | `ForkDemo`, `DemosProofs` |
| Shell skeleton | `lab2/lsh.c` | the stdio buffer of stdin | read, parse, execv in its own process | `Skeleton`, `DemosProofs` |
| Test runners, makefiles | `tests/*.rb`, `submit/*.rb` | - | - | no |

How they interact:

* The shell hands every line to the tokeniser and gets an array of typed
  tokens; it never passes two lines at once, so the call is a function.
* The shell owns one symbol table. `init` binds `PS1`, `PATH` and the internal
  commands; assignments bind variables; `internal`, `path_lookup` and the
  prompt read it. Only the shell process writes it; a child has a copy.
* A command that is not internal runs in a forked child. Shell and child share
  the open file of standard input, with its offset, and each has a copy of the
  shell's stdio buffer of it. That sharing is where the shell is hard: `exit`
  in a child may move the offset under the shell's feet, and the program may
  read the lines that the shell has not.
* The counter processes of one instance share a mapping and a semaphore, and
  nothing else. Two instances meet in the file on the command line, which each
  clears, and in the semaphore name, which each creates and removes. A semaphore
  in a file is cleared with it, and with it the number of processes that sleep
  on it, which the C library keeps there.
* The commands of a pipeline share pipes. Who has which end open decides when a
  reader sees its end of file, so every process's table matters to all others.
* The background program and its handler share a flag and the kernel's one
  pending SIGCHLD; the handler may interrupt the program at any statement.
* The skeleton shell and the program that takes its place share standard input,
  but not the buffer that stdio had of it.
* Servers and clients of assignment 2 meet at a name. The segment behind it may
  be replaced by another server while somebody has the old one open.

What makes each part hard, and what makes it correct:

* *Tokeniser.* Words end at a special character, which is pushed back; the
  increment after that must neither lose nor repeat a character. Strings may be
  empty or unterminated. An escape changes when a word ends. Correct: no
  position leaves the line; tokens are disjoint, ordered and cover all but
  delimiters; they are those of the grammar; the function returns.
* *Symbol table.* Only a sequence of calls can leave a duplicate, a lost cell
  or a cycle. A value is freed whatever its type. Correct: the list is whole
  and duplicate free, no walk touches a freed cell, callers see a dictionary.
* *Shell.* The file may vanish between `stat` and `execve`; the lookup reports
  a failure as a path; a failed child exits with a copied buffer; assignments
  may hit the names the shell needs. Correct: each line of the input is read
  once, commands run in the foreground, from the first directory of `PATH` that
  has them, internal commands survive, and the shell ends at end of file.
* *Shared counter.* A load and a store from two processes, either of which may
  be killed anywhere. Correct: mutual exclusion, the values printed are
  0, 1, 2, ..., nothing is lost, and both processes end. And an instance that
  meets another one, or what one that was killed has left: correct is that the
  name is never held longer than it takes to remove it, that each counts from 0
  when it is alone, and that all end but those that works_2 strands (section 4).
* *Pipelines.* `pipe` returns whatever descriptors are free, so an end may be
  descriptor 0 or 1 itself; `setpgid` fails on a child that was faster; any
  command may not start or may end early. Correct: every command has its own
  ends and no others, the input arrives whole and in order, the parent reaps
  its children, and everybody ends.
* *Background job.* A signal stands for any number of ended children, may come
  between the test of the flag and the sleep, and is also sent when a child is
  stopped. Correct: no zombie is forgotten, and the program learns of it.
* *Redirection.* `open` may return the very descriptor that is to be redirected.
  Correct: exactly the file on exactly that descriptor.
* *fork demonstration, skeleton.* What is in a stdio buffer is there twice after
  a fork, and not at all after an execv. Correct: nothing is written twice that
  was printed once after the fork; commands are tried in order, and no line is
  lost that stdio had not read ahead.
* *Shared memory.* A segment exists before it is sized and before its magic
  number is written; servers are killed and started again. Correct: a client
  maps only a segment that is whole, a client is refused only if it came too
  early, and a server that is asked to end does, whenever the signal comes.

## 2. The modules

**`Tokenise`** is `tokenise_fetch`. One action is one iteration of its `while`
loop, in one case of its `switch` (`SkipSpace`, `Escape`, `OpenQuote`,
`BeginToken` are the branches of `S_START`; `CloseQuote` and `InQuote` those of
the two string states; `EndToken`, `InToken` and `EndSpecial` the rest). A
character is the class the code tells it apart by; a token is the slice of the
line that `strndup` copies, with its type. `UserVars` is the compile-time
switch `LSH_ENABLE_USERVARS`; with it set this is also lab2's copy.

**`TokenGrammar`** says what the tokens of a line are without scanning it with
`cp`, `sp` and a state: a reader's mode at every character, and the maximal
words, strings and operators. `MatchesGrammar` compares the two.

**`Dictionary`** is the abstract specification of the symbol table: a finite
map; operations are called, take effect at once, and return. **`Symtab`** is
`symtab.c`: a heap of cells, the caller's head, and for the operation running
the local variables of its loop; each iteration of a walk is a step, and in
`symtab_free` two: `FreeNext` reads `next`, `FreeCell` frees the cell it was
read from. Done the other way round, the walk would stand on a freed cell.
`ImplementsDictionary` maps the cells to the map they spell. `Lsh` uses the
same `Dictionary` for its table.

**`Lsh`** is the shell. `pc` says where the shell process is: `read`, `parse`,
`wait`, `exited`, `crashed`. Standard input is a sequence of lines behind one
shared offset `off`; `next..filled` is the shell's stdio buffer. A line is the
sequence of its `tokens`, since the shell looks at nothing else of it but
whether `<name>=` is anywhere in the raw line: as a word that touches a `=`
(`NameLike`), or within quotes (`Quoted`). Two lines have no tokens. On a blank
one `trim` runs off the front of the buffer (`lsh.c:143`), which may be harmless
or not (`ParseBlank`); one of only a backslash gives an empty `argv`, and
`strcmp(NULL)` (`NoCommand`). `Fill` is the
`read(2)` under `fgets`; `ReadLine` is `fgets` from the buffer; the actions
from `ParseBlank` to `ForkFails` are `parse` and `dispatch` on one line, by the
branch taken; `Reap` is `waitpid`. The child steps through `path_lookup` one
`stat` at a time (`Stat`, `LookupFails`), then `Exec` or `ExecFails`. A program
reads any part of the input the kernel has not handed out (`ProgramReads`), or
none. Another process may create and remove files (`FileChanges`). `Rewound` is
what `exit` of the C library does to an input stream: on a file it seeks back
over the unread buffer, relative to the shared offset. This was taken from how
the built program behaves; it is external to `src/`.

**`SharedCounter`** is the loop of the lab 4 programs. `count++` inside
`printf` is `Load`, `Store`, `Write`; `Kill` ends a process anywhere. `Home`
says whose memory the counter is in: one mapping (`shared`, the three programs
that work) or the copy fork makes of a static variable (`~shared`, the one that
does not); `Init` chooses among `Builds`. **`AtomicCounter`** is what they are
to do; its step is `Write`.

**`Instances`** is the set-up of the lab 4 programs by several instances, each
any of works_1, 2 and 3, started at any time on any of the files. `Write` is
`open`, `write` and `mmap`, up to the semaphore: it clears the counter, and in
works_2 the semaphore behind it. `SemOpen` is `sem_open(O_CREAT|O_EXCL)`, which
fails if the name is there; `SemUnlink` removes the name whoever made it;
`SemInit` is works_2's and works_3's `sem_init`. When `Write` or `SemInit` write
over a semaphore on which processes sleep, nobody wakes them, and since the
number of sleepers is in the semaphore, no later `sem_post` sees that there is
anybody to wake: such a semaphore is in `forgetful` (`Forgets`), and those who
sleep on it may do so for ever. `Killed` ends an instance
between any two of these. The rounds are `Wait`, `Load`, `PrintCount`, `Post`;
`WaitCrashes` is `sem_wait` on the null pointer of a failed `sem_open`. Where a
counter or semaphore is (`Cell`, `Sem`) is the instance itself or its file, so
two instances on one file share them. `disturbed` is a history variable: the
instances that were alive on one file with another.

**`Descriptors`** is the kernel's descriptor table (`close`, `dup2`, the lowest
free descriptor), used by the pipelines and the redirections.

**`PipeCommands`** is what both pipelines have in common: the tables, pipes and
commands, `execl` and its failure, and the commands themselves, which are
external. A command copies items from descriptor 0 to descriptor 1, blocks on a
full or empty pipe, ends at end of file, dies of a closed descriptor or of
SIGPIPE, or quits early. **`Pipeline2`** is `pipeline2.c`. The parent is a loop
with `pc` and `i`: `OpenPipe`, `Fork`, `Setpgid`, `CloseEnds`, then `Wait`;
`CallFails` is its exit when `pipe` or `fork` fails. A child is `Wire` (close,
dup2 and close again, in one step, since they touch only its own table), then
`Exec` or `ExecFails`. `setpgid` fails exactly when the child has executed its
command (`EACCES`), `run` then returns -1, and `Waitpid` on -1 takes any child.
**`Pipeline`** is `pipeline.c`: the process of each command opens a pipe, forks
the process of the next (`OpenPipe`, `Fork`, `CallFails`), closes and duplicates
on both sides of the fork (`Wire`, `Redirect`), and executes its own command;
the process the user started forks the first and leaves.

**`Background`** is `background.c`. `MainSteps` are its statements, `Deliver`,
`Waitpid` and `HandlerReturns` the handler, which may come between any two of
them; `pending` is the one SIGCHLD the kernel keeps. Besides the command there
may be any children of the shell whose place the program took (`Others`).
**`Redirect`** is both redirection programs, `Target` saying which descriptor is
meant, started with any of the standard descriptors closed; `open` and `dup2`
may fail (`OpenFails`, `DupFails`). **`ForkDemo`** is `fork.c` with a stdio
buffer per process, on a terminal or not. **`Skeleton`** is `lab2/lsh.c`: lines
are assignments, commands that cannot be executed, or programs; stdio reads a
line or a block at a time. `tried` and `passed` are history: what the shell gave
to `execv`, and what the program read that took its place.

**`Segment`** is the life of the segment of assignment 2. A segment is named by
the server that created it; `name` is what `SHM_NAME` stands for. A server goes
through `Unlink`, `Create` (`O_EXCL`), `Truncate` (whose failure the program
ignores), `WriteMagic` (whose failure it ignores, too), `SetHandler` and
`Loop`; `Sigusr1` and `Kill` come at any moment. A client goes through `Open`,
the two halves of `check` (`CheckSize`, `CheckMagic`), `Map` and `Leave`. A
server started again is another member of `Servers`.

`MC*` modules give the constants their values; `*Proofs` modules hold theorems.
`MCPipelines` starts either of the two pipelines, `MCDemos` any one of the four
small programs, so that one run checks them.

## 3. What is checked

| Run | Instance | Shows |
|---|---|---|
| `tokens` | all lines of at most 5 of 7 classes and of at most 4 of 8 classes | `TypeOK` (no read beyond the NUL), `SlicesOrdered`, `NothingLost`, `AssertTypeDefined` (the assertion at `tokenise.c:144`), `MatchesGrammar`, `TerminatesUnlessEscaped` |
| `tokens_escape` | lines of at most 4 characters | **violated:** `Terminates` |
| `symtab` | 3 names, 2 strings, 1 function, 3 cells | `NoDanglingWalk`, `ListSound` (`TypeOK`, `UniqueNames`, `WholeHeapListed`), `ImplementsDictionary`, `CallsReturn` |
| `shell` | up to 2 lines of every kind (quoted, blank, a backslash, a `&`) or 3 of some, from a pipe; 3 commands from a file; one change of a file | `Foreground`, `EachLineOnce`, `InternalsStay` (with `TypeOK`), `FirstInPath`, `ShellEnds` |
| `shell_reruns` | scripts with a command that cannot be executed | **violated:** `EachLineOnce` |
| `shell_path` | `PATH` set to the name of a program | **violated:** `NotInPathNotRun` |
| `counter` | both kinds of program, 4 rounds, either process may be killed anywhere | `TypeOK`, `MutualExclusion`, `AllCounted`, `CountsAlone`, `ImplementsAtomic`, `Ends` |
| `instances` | 2 instances of any of three programs, 2 files, 1 round each; one may be killed anywhere in its set-up | `NameHeld`, `CountsFromZero`, `AllOver` |
| `pipelines` | both programs, 3 commands, pipes of capacity 1, 3 items, started with any of the standard descriptors closed (8 tables); the second command may not start, any may quit | `BothWired` (`TypeOK`; `WiredUp`, except of `pipeline.c` started without descriptor 0), `Delivered` (`InOrder`, `AllDelivered`), `ReapsKnown`, `AllEnd` |
| `pipelines_waits` | `pipeline2`, 2 commands, the second may quit | **violated:** `WaitsForAll` |
| `demos` | a background job with up to 2 stops and two more children; both redirections from all 8 tables; fork on a terminal and not; a skeleton shell with 4 lines of any kind, in blocks of 1 or of up to 3 | of `background.c`: `ZombieReported`, `CleanedUp`; of the redirections: `Redirected`; of `fork.c`: `ForkOutput`; of the skeleton: `BufferLost`; of the first and the third: `ProgramsLeave` |
| `segment` | 2 servers, 2 clients | `MapsWhole`, `RefusesOnlyEarly`, `EndsWhenAsked` |

*Bounds.* The tokeniser's behaviour at a position depends on its state and on
one character of look-ahead, so five characters reach every state, every way
out of it and every way back into it, an operator glued to a word on each side
included. Seven classes keep one of each that the code distinguishes; the
second set has the operators the first leaves out. Three cells are a head, a
middle and a tail, and with three names and three cells a freed address is
allocated again. Three lines are one that was run, one in the buffer and one
not yet read, the case in which the offset and the buffer disagree. `Buffered`
is how many lines fit a buffer: with 2 a script of three is read in two parts.
`MaxChanges` bounds what other processes do to the files. Four rounds give both
processes a first, a last and middle rounds; the theorems do away with that
bound. Three commands are the least with one in the middle, which reads one
pipe and writes another; with three items and pipes that hold one, a writer
blocks and a reader waits; the theorems do away with these bounds. Two servers
are a server and the one that replaces it or races it; the theorems do away
with that bound, too. Two instances are one and the one it meets; two files let
them miss each other; one round shows the counter left behind, and the theorems
do away with all three. Two stops are one before the command is waited for and
one after; two more children are two ends that one signal stands for, beside
that of the command. Four lines in blocks of three are one tried in the same
block as the program, the program, one lost behind it, and one in the next
block, which is not.

*Fairness.* `Tokenise` and `Symtab` are sequential code that waits for nothing:
weak fairness of their steps (for `Symtab`, not of the calls its user makes).
`Lsh`: the kernel schedules both processes (weak fairness of the shell's and of
the child's steps), and every program run ends at last; whether it reads is its
own affair. `SharedCounter`: weak fairness of each process and of reaping. A
semaphore that is not fair is enough: a process leaves its loop after `N`
rounds, so the other one is not passed over for ever. `Pipeline2`: weak
fairness of the parent and of each command; quitting early, and a call that
fails, are not forced by fairness. `Pipeline`: the same. `Instances`: weak
fairness of every process, whether it sets up, is in a round or waits; no kill
is forced. A process asleep on a semaphore that has forgotten it (`Forgotten`)
is not fair, for no `sem_post` need wake it. `Background`: weak fairness of
`main` and of the delivery of signals, not of the children's ends. `ForkDemo`:
weak fairness of both processes. `Segment`: weak fairness of each server and
client; no signal need ever come.

*Deadlock* is not checked where it is off, since each of these programs stops.
That it stops where it should is what `TerminatesUnlessEscaped`, `CallsReturn`,
`ShellEnds`, `Ends`, `AllOver`, `AllEnd`, `ProgramsLeave` and
`EndsWhenAsked` say.

`Serial` of the counter and the type invariants of `Segment` and `Instances`
are in no run: they are theorems (section 5).

*On a script in a file* `EachLineOnce` and `ShellEnds` are stated for runs in
which no command vanishes, `Undisturbed`: a command that cannot be executed is
the subject of `shell_reruns`.

## 4. What the code does otherwise

1. **An escaped line hangs the shell** (`tokens_escape`). `ep` is set at a
   backslash outside a word (`tokenise.c:74`) and never cleared, so no word
   after it ends, and the loop spins on the NUL. `\a` does it.
2. **Lines of a script run again after an unknown command** (`shell_reruns`).
   The child's `exit(errno)` (`lsh.c:237`) seeks the shared offset back. With
   three equally long unknown commands the shell never ends. From a pipe, or at
   a terminal, nothing of the kind happens.
3. **An unknown command may run the value of PATH** (`shell_path`).
   `path_lookup` returns `PATH` itself when nothing is found (`lsh.c:176`), and
   with `PATH=./a` any unknown command runs `./a`.
4. **The parent of a pipeline may leave a child running** (`pipelines_waits`).
   `run` returns -1 when `setpgid` fails (`pipeline2.c:88`), which it does when
   the child has already executed its command. `waitpid(-1)` then takes some
   other child, and the parent exits while one still runs, against "Wait for
   all child processes to terminate" (`pipeline2.c:170`).

Others were met while modelling; no run is spent on them, and where a property
would not hold because of them it says so in its condition:

* An argument `x=x` turns a command into an assignment, also when it is quoted:
  the expression at `lsh.c:309` is not anchored and is matched with the raw
  line. In quotes there is no third token either, and `tokens[2]` is out of
  bounds (`lsh.c:314`). The model's lines of that form behave so.
* A blank line makes `trim` write before its buffer as long as it finds white
  space there (`lsh.c:143-144`), and a line of only a backslash crashes the shell
  (`lsh.c:152`, by `argv[0]`). `ParseBlank` and `NoCommand` do so; `ShellEnds`
  counts a crash as an end.
* *Backgrounding is not implemented.* `assignment1/tests/test_runner.rb:82`
  ("Check if command backgrounding is implemented") runs `tests/sleep.sh &` and
  wants the prompt back before the command ends. `external` hands `&` to the
  command as an argument and always waits (`lsh.c:238-240`). `Foreground` states
  what the code does, and that holds; the test asks for something else.
* *The skeleton does not fork.* `lab2/lsh.c:4` calls it "a functioning learning
  shell (lsh) with fork()", and `lab2/tests/test_runner.rb:37` ("Check if fork()
  is implemented") expects the shell to go on after a command. `external` calls
  `execv` in the shell's own process (`lab2/lsh.c:100-111`). `BufferLost` is about
  the program as it is: it says what becomes of the input when a program takes the
  shell's place, not that this is how it should be.
* `exit=x` aborts the shell: `symtab_set` frees the function the symbol holds
  (`symtab.c:47`). `InternalsStay` is about shells that go on.
* "The child process has been cleaned up" (`background.c:127`) is not so when a
  child was merely stopped, or when a child of which the program does not know
  has ended: the handler sets its flag on every SIGCHLD. See `CleanedUp`.
* A redirection closes the descriptor it has just redirected when that one was
  closed at the start (`redirectto.c:76`, `redirectfrom.c:73`), since `open`
  then returns it. `Redirected` says of that start that everything is undone, and
  of all others that the redirection is as it should be.
* `pipeline.c` started without descriptor 0 gets it from `pipe`, duplicates it
  onto itself and closes it (`pipeline.c:89-90`), so that its commands have no
  input. `BothWired` excepts `WiredUp` there (`KeepsInput`); `Delivered` and
  `AllEnd` are checked of it, too. `pipeline2.c` compares the two descriptors
  first.
* `execv` in the skeleton loses the lines that are in the stdio buffer of a file
  (`lab2/lsh.c:104`); they go neither to the shell nor to the program.
* A `sem_open` that fails is not looked at (`shared_counter_works_1.c:68`): the
  first `sem_wait` is a segmentation fault.
* works_2 sets up its semaphore in a file that others may use
  (`shared_counter_works_2.c:64-73`). It forgets the processes of a first instance
  that sleep on it, which then may sleep for ever, with nobody killed; and one
  killed between the write and `sem_init` leaves a semaphore of 0 to those that
  wait. `AllOver` excepts exactly those two (`Stranded`).
* "Working implementation" is said of works_2, but a second instance on the same
  file may put the counter back to 0 under the first one. `CountsFromZero` is
  about instances that met no other.
* The branch for `T_ENDSTMT` (`tokenise.c:136`) is dead, since `SPECIAL_CHARS`
  does not list `;`.

## 5. What is proved

Everything in this section is checked by TLAPS for all values of the constants.

`TokeniseProofs`, for lines of any length and both settings of
`LSH_ENABLE_USERVARS`, from `ConstantsOK`: `TypeCorrect`, `TokensOrdered`
(`SlicesOrdered`), `TokensComplete` (`NothingLost`), `AssertionHolds`
(`AssertTypeDefined`) and `CutsByTheGrammar` (`MatchesGrammar`). The inductive
invariant is `ScanInv`: the three properties alone do not survive the step that
emits a token, since they do not say where the slice being read starts.
`ReadingInv` adds that: in a word `sp` is before `cp`, and in an operator it is
the one character before `cp`, and special. `EmitOrdered` and `EmitCovers` are
the two lemmas every emitting action uses.

For `CutsByTheGrammar`, `GrammarInv` adds, of lines with no backslash, what the
scanner's state says of the grammar's modes before `cp` (`ModeInv`), and that
the tokens cut so far are those that the grammar has before the text still to
be cut (`CutInv`). The modes are a recursive function; that one exists for every
line (`ModesExist`) is not shown by induction but by a least counterexample:
were there lines without one, a shortest of them would be one character longer
than a line that has one. What follows from it (`ModeFacts`) is the equation of
each mode in terms of the one before. A step then cuts a word (`WordCut`), a
string (`StringCut`) or an operator, or nothing (`NothingCut`): each lemma says
that between where the text to be cut began and where it begins now the grammar
has that token and no other.

`SharedCounterProofs`, for every number of rounds `N` with `2 * N <= INT_MAX`
(assumption `CounterOK`), a shared or a static counter, and any set of
processes that may be killed: `TypeCorrect` (the int does not overflow),
`Excludes` (`MutualExclusion`), `PrintsInOrder` (`Serial`), `CountsAll`
(`AllCounted`), `Refines` (`ImplementsAtomic`) and `CountsForItself`
(`CountsAlone`). The inductive invariant `IInv` relates the counter to the
length of the output at each point of the loop (`SharedInv`), the output to the
rounds done (`LinesInv`), the rounds to the program counter (`RoundInv`), and
says what holds before the fork (`ForkingInv`); `PrivateInv` bounds the static
counter. There is one lemma per action. For `CountsForItself`, `AloneInv` says
that the lines a process has printed so far are as many as the rounds it has
done, and `PrintsOneMore` what one more line does to those numbers.

`SegmentProofs`, for any number of servers and clients, from `ProcsOK`:
`TypeCorrect`, `MapsOnlyWhole` (`MapsWhole`) and `RefusedEarly`
(`RefusesOnlyEarly`). The inductive invariant `SegInv` adds to the types what
makes the others stable: what a client has checked of its segment so far
(`CheckedInv`), and that a client that came in time finds the segment set up
(`EarlyInv`). The
argument has two halves: what a server does only makes segments grow
(`ServerStep`, `Grows`), and what a client knows survives growth (`GrowthInv`).

`InstancesProofs`, for any number of instances, files and rounds, and whoever
may be killed, from `InstancesOK`: `TypeCorrect`, `NameIsHeld` (`NameHeld`) and
`CountsAlone` (`CountsFromZero`). The first two follow from `BaseInv`: an
instance opens no semaphore but its own (`OwnInv`), and one in a round has a
round to do (`RoundInv`). The third is
about what instances do not do to each other. `CountInv` says that instances
alive on one file are known to be disturbed (`AloneInv`), and of each instance
(`Counted`) that nothing was printed before the fork (`PhaseInv`), that what was
printed is 0, 1, 2, ... (`PrintedInv`), that the counter is the number of values
printed and does not change between a load and a store (`CellInv`), and that
the semaphore is 0 exactly when one process is inside (`MutexInv`); the last
three only of those not disturbed. The argument has two halves. A step changes
only its own instance's counter and semaphore (`StepFrame`), and those of an
undisturbed instance are nobody else's (`Undisturbed`, `ApartCells`), so the
others' `Counted` is kept (`OthersCounted`). A step keeps its own by the
argument for one semaphore (`SetupCounted`, `RoundCounted`).

`SymtabProofs`, for any names, values and number of cells, from `AddrOK`:
`ListIsSound` (`ListSound`) and `WalksAreSafe` (`NoDanglingWalk`). `ListSound`
says that there is some order of the cells; the inductive invariant `SymtabInv`
has to say where in that order the operation that runs is. `Listed` is the
order, and `Walk` the place `k` of the walk in it: `symbol` is the `k`-th cell
and `prev` the one before, the names passed by are not the one sought (so that
a set which reaches the end pushes no duplicate), and symtab_free has given
back what is before `symbol`. `NextRead` says that what `symtab_free` has read
is the next cell. What an operation does to the list is in three lemmas that
know of no operation: a cell pushed in front (`Pushed`), one taken out anywhere
(`Dropped`), and entries changed (`SameLinks`).

`Refines` (`ImplementsDictionary`) is there as well. `TableOf` is
the map that a set of cells spells; `TableAt`, `TableIs` and `TableCounts` say
that it is well defined because names are distinct. From `SymtabInv`, an
operation that has found its cell sees what the map binds the name to, and one
at the end of the list knows the name is not bound (`Sought`); so each step is
one of the dictionary (one lemma each) or changes nothing that a caller sees.

`LshProofs`, for any input, words, `PATH`, files and size of the buffer, and
any number of changes of the files, from `LshOK`: `WaitsForItsChild`
(`Foreground`), `InternalsAreKept` (`InternalsStay`, the types included),
`FindsTheFirst` (`FirstInPath`), and of `EachLineOnce`, which is false of files
in general (section 4): `PipesAreReadOnce` when the input is a pipe,
`FilesAreReadOnce` as long as no `execve` fails, whatever happens to the files
and to `PATH`, and `LinesAreReadOnce` of every input, if the scripts in files
set no `PATH` and name commands that are there (`ScriptsRun`, a condition on
the constants that the `shell` run's values meet and those of `shell_reruns` do
not). The inductive invariant has three parts. `BaseInv` is the types with the
names that stay. `ChildInv` says how far `path_lookup` is: what is left of
`PATH` is its end, and no directory before that has the command (`Searched`).
`PipeInv` says that shell, programs and buffer share out what the kernel has
handed out (`SharedOut`); that the `exit` of a child does not disturb this is
`RewoundTypes`. For files, `NextLines` says that only `ExecFails` can disturb
it, and `ScriptInv` that it does not occur: the child is on its way to a
command that is there (`FoundAhead`, `AheadStep`).

`PipelinesProofs`, for any number of commands and items and pipes of any
capacity, from `PipelineOK`, is about both pipeline programs. Of `pipeline2.c`:
`ReapsKnownHolds` (`ReapsKnown`) without any further condition, and, from
`StandardStart`, `WiredUpHolds` (`WiredUp`), `DeliveredHolds` (`Delivered`) and
`TypeCorrect` (`TypeOK`). `StandardStart` says that the program is
started with any of the standard descriptors, none and all included, and with no
other. Of `pipeline.c`, if standard input is one of them (`InputOpen`; see
section 4 for what happens when it is not): `ChainWiredUp` and `ChainDelivered`.
`BothWiredHolds` (`BothWired`) and `BothDeliver` (`Delivered`) put the two
together for the specification that the runs check, and for every start:
`MuteInv` says that without standard input nothing in `pipeline.c` has an end to
read from, so no command reads anything or comes to an end of its input, and
nothing is delivered that would have to be in order or whole.

The invariant of `pipeline2.c` has four parts.
`ProcInv` says which commands are forked at each point of the parent's loop, and
that whoever was waited for is reaped. `TableInv` says what the parent has open
when it forks (`Handed`: the read end of the pipe before, both ends of the pipe
after), and so what a child has before and after it is wired. Whatever was
closed, `pipe` returns the lowest descriptors that are free (`FreeFd`), the read
end below the write end, and none above 5; `HandsPipe`,
`HandsOn` and `Wires` are the lemmas about `pipe`, the parent's `close` and the
child's `dup2` and `close`. `FlowInv` says that there are numbers of items
read and written by each command (`Flow`) which account for what every pipe and
every command holds; the item written last is the one read last, so nothing is
reordered. `CleanInv` says that a command which ended at an end of file left its
pipe empty, and that its writer had ended: as long as the writer lives it holds
the write end (`WriterEnded`), and nobody else does. From the last command back
to the first, all that was read has then been passed on (`Passed`).

The last two parts are about commands that are wired as they should be, and do
not depend on which program did it (`CommandKeeps`). For `pipeline.c`, `ChainInv`
takes the place of the first two. A command is forked only by the one before
it (`ChainForked`), which then still has its pipe to take. Its process has its
own input and nothing else but standard descriptors (`Own`) before it opens the
pipe to the next, both ends of that pipe besides (`Piped`) at the fork, and then
each of the two keeps one end (`TakesReadEnd`, `TakesWriteEnd`). Descriptor 0 is
in use all the time, which is why `dup2` there may be called without comparing
its arguments first.

`DemosProofs`, for any number of stops, characters and lines and any size of a
block, from `DemosOK`: `NoZombieForgotten` (`ZombieReported`), `CleansUp`
(`CleanedUp`), `RedirectsTheFile` (`Redirected`), `ForkWritesInOrder`
(`ForkOutput`) and `OnlyTheBufferIsLost` (`BufferLost`). `BackgroundInv` adds
that while nothing was stopped and no other child has ended (`Quiet`), the flag
is set only when the command has been reaped, and the handler runs only because
it ended. `RedirectInv` follows the table through open, dup2 and close: `open`
returns the lowest descriptor that is free, and if that is the one to be
redirected, `dup2` changes nothing and `close` undoes it (`TableInv`,
`MovedFd`); and what has been copied so far is a beginning of the file
(`GotInv`). `ForkInv` says which lines each process has printed (`Said`), and
where they are: on a terminal once each on the screen, in an order in which the
parent's last follows all of the child's (`OnTerminal`); otherwise in two
buffers that share a beginning, until each process exits (`InBuffers`).
`SkeletonInv` says that the shell has tried the commands of the lines it took
from stdio and no others, and that a program that took its place was the last
of them, which reads on where stdio had stopped reading (`TriedInv`,
`RunsInv`).

*Only model-checked.* The liveness properties, which need fairness and
`ENABLED`: `TerminatesUnlessEscaped`, `CallsReturn`, `ShellEnds`, `Ends`,
`EndsWhenAsked`, `AllOver`, `AllEnd` and `ProgramsLeave`.

## 6. What is not modelled

* *Printing and releasing* (`symtab_print`, `tokenise_print`, `tokenise_free`,
  the prompt): no property is about them.
* *Memory exhaustion*: the code does not handle it.
* *Signals in the shell*: `lsh.c` installs no handlers.
* *Long lines* (beyond `LINE_MAX`) and lines of unequal length: `Lsh` counts in
  lines. On a file with lines of unequal length the rewind of item 2 may
  land within a line; the model shows only the aligned case.
* *Values of `$PS1`*, which only the prompt shows.
* *Failures of open and mmap in lab 4*: the programs print a message and stop.
  Kills in the rounds of several instances at once are not modelled, either;
  `SharedCounter` has those of one instance.
* *Terminals in pipelines*: a command in its own process group that reads the
  terminal is stopped by SIGTTIN; the model's standard input is a file or pipe.
* *Clients that are killed*: a client changes nothing that others see.
* *assignment2's protocol*: server and client contain a TODO where it would be.

## 7. Plan

Done: a module and a run for every part of the table in section 1 but the test
runners, and a proof of every safety property the runs check. Left: a
byte stream from the first command to the last, as an abstract specification
that both pipelines implement (`Flow` is the refinement mapping, `FlowInv` the
invariant it needs).
