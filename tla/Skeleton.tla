------------------------------ MODULE Skeleton ------------------------------
(***************************************************************************)
(* lab2/lsh.c, the shell to start from: every line that is not an          *)
(* assignment is given to execv() in the shell's own process.  A program   *)
(* so run takes the shell's place; it reads on from standard input where   *)
(* the kernel's offset is, and what stdio had already read is gone.        *)
(***************************************************************************)
EXTENDS Naturals, Sequences

CONSTANTS
  Lines,   \* how many lines standard input holds
  Block    \* how many of them one read() of a file may bring

VARIABLES
  block,    \* how many of them one read() may bring: 1 from a terminal
  kinds,    \* what each line is: an assignment, a program, or neither
  offset,   \* how many lines were read from standard input
  unread,   \* how many of them are still in stdio's buffer
  tried,    \* the lines that were given to execv(), in order
  runs,     \* the line of the program that took the shell's place, or 0
  passed,   \* the lines that program reads
  mode      \* "shell", "program" or "exited"

vars == <<block, kinds, offset, unread, tried, runs, passed, mode>>

Init == /\ block \in {1, Block}
        /\ kinds \in [1..Lines -> {"assignment", "program", "neither"}]
        /\ offset = 0 /\ unread = 0 /\ tried = <<>>
        /\ runs = 0 /\ passed = {} /\ mode = "shell"

\* The line that fgets() is to return.
Current == offset - unread + 1

\* Mutant: one line is always read ahead of the one that is run.
FillAhead ==
  /\ mode = "shell" /\ unread <= 1
  /\ \E n \in 1..block : /\ n <= Lines - offset
                         /\ offset' = offset + n /\ unread' = unread + n
  /\ UNCHANGED <<block, kinds, tried, runs, passed, mode>>

\* fgets() finds the buffer empty: read() brings one or more lines.
Fill ==
  /\ mode = "shell" /\ unread = 0
  /\ \E n \in 1..block : n <= Lines - offset /\ offset' = offset + n /\ unread' = n
  /\ UNCHANGED <<block, kinds, tried, runs, passed, mode>>

Assignment ==
  /\ mode = "shell" /\ unread > 0 /\ kinds[Current] = "assignment"
  /\ unread' = unread - 1
  /\ UNCHANGED <<block, kinds, offset, tried, runs, passed, mode>>

Execv ==
  /\ mode = "shell" /\ unread > 0 /\ kinds[Current] = "program"
  /\ unread' = unread - 1 /\ tried' = Append(tried, Current)
  /\ runs' = Current /\ mode' = "program"
  /\ UNCHANGED <<block, kinds, offset, passed>>

ExecvFails ==
  /\ mode = "shell" /\ unread > 0 /\ kinds[Current] = "neither"
  /\ unread' = unread - 1 /\ tried' = Append(tried, Current)
  /\ UNCHANGED <<block, kinds, offset, runs, passed, mode>>

\* The program reads a line that the shell did not.
ProgramReads ==
  /\ mode = "program" /\ offset < Lines
  /\ offset' = offset + 1 /\ passed' = passed \cup {offset + 1}
  /\ UNCHANGED <<block, kinds, unread, tried, runs, mode>>

\* The program ends when it likes, the shell at the end of its input.
Exit ==
  /\ mode = "program" \/ (mode = "shell" /\ offset = Lines /\ unread = 0)
  /\ mode' = "exited"
  /\ UNCHANGED <<block, kinds, offset, unread, tried, runs, passed>>

Next == Fill \/ Assignment \/ Execv \/ ExecvFails \/ ProgramReads \/ Exit

-----------------------------------------------------------------------------
\* The lines that the shell has dealt with.
Done == 1..(IF runs = 0 THEN offset - unread ELSE runs)

\* Every command that it came to was tried, in order, and nothing else; when it
\* ends by itself it came to all of them.  None of them runs beside it: the
\* first that can be run ends the shell.  The program is called "a functioning
\* learning shell (lsh) with fork()" (lab2/lsh.c:4), and its tests ask for one
\* (lab2/tests/test_runner.rb:37, "Check if fork() is implemented"), but there
\* is none in external() (lab2/lsh.c:100-111).
HandledInOrder ==
  /\ {tried[n] : n \in 1..Len(tried)} = {k \in Done : kinds[k] # "assignment"}
  /\ \A m, n \in 1..Len(tried) : m < n => tried[m] < tried[n]
  /\ \A k \in Done : kinds[k] = "program" => k = runs
  /\ mode = "exited" /\ runs = 0 => Done = 1..Lines

\* What stdio had read beyond the line of the program that is run is lost, as
\* execv() replaces the buffer too: the lines just behind it, fewer than a
\* read() brings, and none when lines come from a terminal.  The program reads
\* on after them and misses no other line.
OnlyBufferLost ==
  LET lost == (1..offset) \ (Done \cup passed)
  IN runs # 0 => \E n \in 0..(block - 1) : lost = (runs + 1)..(runs + n)
=============================================================================
