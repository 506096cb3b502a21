------------------------------ MODULE Redirect ------------------------------
(***************************************************************************)
(* assignment1/examples/redirectto.c and redirectfrom.c: a file is opened, *)
(* duplicated onto standard output (input), and the descriptor that open() *)
(* returned is closed.  The one then prints its message with printf(), the *)
(* other copies getchar() to putchar(); stdio writes at exit().            *)
(***************************************************************************)
EXTENDS Naturals, Sequences, Descriptors

CONSTANTS
  Tables,   \* the descriptor tables a program may be started with
  Length    \* how many characters the file to read, and standard input, hold

VARIABLES
  which,    \* "to" or "from"
  given,    \* the descriptor table it was started with
  table,    \* its descriptor table
  fd,       \* what open() returned
  step,     \* where main() is
  got,      \* the characters in the buffer of stdout, <<what they came from, number>>
  written   \* what reached the file and the old standard output

vars == <<which, given, table, fd, step, got, written>>

File == <<"file", 0>>
Target == IF which = "to" THEN 1 ELSE 0

Init == /\ which \in {"to", "from"}
        /\ given \in Tables /\ table = given
        /\ fd = 0 /\ step = "open"
        /\ got = <<>>
        /\ written = [e \in {File, Stdout} |-> <<>>]

Open ==
  /\ step = "open" /\ step' = "dup2"
  /\ fd' = LowestFree(table) /\ table' = Opened(table, File)
  /\ UNCHANGED <<which, given, got, written>>

OpenFails ==
  /\ step = "open" /\ step' = "failed"
  /\ UNCHANGED <<which, given, table, fd, got, written>>

DupOnto ==
  /\ step = "dup2" /\ step' = "close"
  /\ table' = Dup2(table, fd, Target)
  /\ UNCHANGED <<which, given, fd, got, written>>

DupFails ==
  /\ step = "dup2" /\ step' = "failed"
  /\ UNCHANGED <<which, given, table, fd, got, written>>

\* Mutant: the descriptor just redirected is closed.
CloseTarget ==
  /\ step = "close" /\ step' = "copy"
  /\ table' = Close(table, Target)
  /\ UNCHANGED <<which, given, fd, got, written>>

CloseFd ==
  /\ step = "close" /\ step' = "copy"
  /\ table' = Close(table, fd)
  /\ UNCHANGED <<which, given, fd, got, written>>

PrintMessage ==
  /\ which = "to" /\ step = "copy" /\ step' = "exit"
  /\ got' = <<<<"message", 1>>>>
  /\ UNCHANGED <<which, given, table, fd, written>>

\* getchar() fails at once when descriptor 0 is not open.
GetChar ==
  /\ which = "from" /\ step = "copy"
  /\ IF 0 \in DOMAIN table /\ Len(got) < Length
     THEN got' = Append(got, <<table[0][1], Len(got) + 1>>) /\ UNCHANGED step
     ELSE step' = "exit" /\ UNCHANGED got
  /\ UNCHANGED <<which, given, table, fd, written>>

\* What stdio writes to a descriptor that is not open is lost.
Exit ==
  /\ step = "exit" /\ step' = "exited"
  /\ written' = [e \in DOMAIN written |->
                   IF Refers(table, 1, e) THEN written[e] \o got ELSE written[e]]
  /\ UNCHANGED <<which, given, table, fd, got>>

Next == \/ Open \/ OpenFails \/ DupOnto \/ DupFails \/ CloseFd
        \/ PrintMessage \/ GetChar \/ Exit

Spec == Init /\ [][Next]_vars

-----------------------------------------------------------------------------
\* open() returns another descriptor than the one to redirect.
Redirects == LowestFree(given) # Target

\* Whatever was closed at the start, the program works with the file on the
\* descriptor it redirects, with the others as they were given, and with no
\* descriptor more - but when open() itself returns the one to redirect, it is
\* the file that CloseFd closes, and the program works with what it was given.
Redirected ==
  step \in {"copy", "exit", "exited"} =>
    table = IF Redirects
            THEN [d \in DOMAIN given \cup {Target} |-> IF d = Target THEN File ELSE given[d]]
            ELSE given

\* The message goes to the file "rather than the screen" (redirectto.c:79), or
\* the file to standard output, if there is one (redirectfrom.c:76), whenever
\* the descriptor was redirected; otherwise nothing is written anywhere.
Delivered ==
  step = "exited" =>
    written = [e \in {File, Stdout} |->
                 CASE Redirects /\ which = "to" /\ e = File -> <<<<"message", 1>>>>
                   [] Redirects /\ which = "from" /\ e = Stdout /\ 1 \in DOMAIN given
                        -> [k \in 1..Length |-> <<"file", k>>]
                   [] OTHER -> <<>>]
=============================================================================
