---------------------------- MODULE MCPipelines ----------------------------
(***************************************************************************)
(* Both pipeline programs, started with any of the standard descriptors    *)
(* closed.                                                                 *)
(***************************************************************************)
EXTENDS Pipeline2

CONSTANT Programs  \* which of the two may be started

VARIABLES
  program,  \* which one it is
  started   \* the descriptor table it was started with

Recursive == INSTANCE Pipeline

Usual  == {Standard}
Tables == {[d \in s |-> Standard[d]] : s \in SUBSET DOMAIN Standard}

OneInit ==
  /\ program \in Programs
  /\ \/ program = "pipeline2" /\ Init
     \/ /\ program = "pipeline" /\ Recursive!Init
        /\ i = 1 /\ pidlist = [c \in Commands |-> 0]
  /\ started = fds[0]

\* Steps of one program only.
Of2(step) == program = "pipeline2" /\ step /\ UNCHANGED <<program, started>>
Of1(step) == program = "pipeline" /\ step /\ UNCHANGED <<program, started, i, pidlist>>

OneNext == Of2(Next) \/ Of1(Recursive!Next)

\* The kernel schedules every process; no command ends early, and no call
\* fails, by fairness.
OneSpec ==
  /\ OneInit /\ [][OneNext]_<<vars, program, started>>
  /\ WF_vars(Of2(Parent)) /\ WF_vars(Of1(Recursive!Start \/ Recursive!Leave))
  /\ \A c \in Commands : WF_vars(Of2(Child(c))) /\ WF_vars(Of1(Recursive!Child(c)))
  /\ \A c \in Commands :
       WF_vars(Command(c) /\ UNCHANGED <<program, started, i, pidlist>>)

-----------------------------------------------------------------------------
\* pipeline2.c does not move a descriptor to itself, as pipeline.c does where
\* it was started without standard input: the read end of every pipe is then
\* descriptor 0, and dup2(0, 0); close(0) closes it (pipeline.c:89-90).
KeepsInput == program = "pipeline2" \/ 0 \in DOMAIN started

\* Every table is one; and a command runs with the ends of its own pipes on
\* descriptors 0 and 1 and no other end, whichever of the standard descriptors
\* were closed at the start - but for pipeline.c without standard input.
BothWired == TypeOK /\ (KeepsInput => WiredUp)
=============================================================================
