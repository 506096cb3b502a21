------------------------------ MODULE MCDemos ------------------------------
(***************************************************************************)
(* The small programs, of which one runs.  They share nothing: the         *)
(* variables of the others keep one of their initial values.               *)
(***************************************************************************)
EXTENDS Descriptors

CONSTANTS StopMax, Others, Length, Lines, Block

ASSUME DemosOK == /\ StopMax \in Nat /\ "cmd" \notin Others /\ Length \in Nat
                  /\ Lines \in Nat /\ Block \in Nat \ {0}

VARIABLES
  demo,                                                      \* which one
  at, child, pending, handler, terminated, stops,            \* Background
  which, given, table, fd, step, got, written,               \* Redirect
  tty, doing, todo, buffer, screen,                          \* ForkDemo
  block, kinds, offset, unread, tried, runs, passed, mode    \* Skeleton

\* Any of the standard descriptors may be closed.
Tables == {[d \in s |-> Standard[d]] : s \in SUBSET DOMAIN Standard}

B == INSTANCE Background
R == INSTANCE Redirect
F == INSTANCE ForkDemo
S == INSTANCE Skeleton

bVars == <<at, child, pending, handler, terminated, stops>>
rVars == <<which, given, table, fd, step, got, written>>
fVars == <<tty, doing, todo, buffer, screen>>
sVars == <<block, kinds, offset, unread, tried, runs, passed, mode>>

Init ==
  /\ demo \in {"background", "redirect", "fork", "skeleton"}
  /\ B!Init /\ R!Init /\ F!Init /\ S!Init
  /\ demo # "background" => \A c \in Others : child[c] = "none"
  /\ demo # "redirect" => which = "to" /\ given = Standard
  /\ demo # "fork" => tty
  /\ demo # "skeleton" => block = 1 /\ kinds = [k \in 1..Lines |-> "neither"]

InBackground(a) == demo = "background" /\ a /\ UNCHANGED <<demo, rVars, fVars, sVars>>
InRedirect(a)   == demo = "redirect"   /\ a /\ UNCHANGED <<demo, bVars, fVars, sVars>>
InFork(a)       == demo = "fork"       /\ a /\ UNCHANGED <<demo, bVars, rVars, sVars>>
InSkeleton(a)   == demo = "skeleton"   /\ a /\ UNCHANGED <<demo, bVars, rVars, fVars>>

Next == InBackground(B!Next) \/ InRedirect(R!Next) \/ InFork(F!Next) \/ InSkeleton(S!Next)

\* The kernel schedules the processes and delivers the signals.
Spec ==
  /\ Init /\ [][Next]_<<demo, bVars, rVars, fVars, sVars>>
  /\ WF_bVars(InBackground(B!MainSteps)) /\ WF_bVars(InBackground(B!Handler))
  /\ WF_fVars(InFork(F!Parent)) /\ WF_fVars(InFork(F!Process("child")))

-----------------------------------------------------------------------------
\* background.c: while the command is a zombie, a signal or the handler will
\* still reap it.  (And every variable keeps its type.)
ZombieReported == B!TypeOK /\ B!ZombieReported

\* background.c: main() leaves with its child cleaned up, unless a stop or
\* another child misled it.
CleanedUp == B!CleanedUp

\* redirect*.c: the redirected descriptor is the file and the others are what
\* they were; the message is in the file, or the file on standard output -
\* unless open() returned that descriptor itself, which undoes all of it.
Redirected == R!Redirected /\ R!Delivered

\* fork.c: every line is written, those of a process in their order, the
\* child's before the parent's last, and none twice but the one from before
\* the fork.
ForkOutput == F!NoEcho /\ F!ChildFirst /\ F!Complete

\* lab2/lsh.c: the shell has tried every command it came to, in order, and the
\* program that took its place reads on behind the lines that were lost with
\* the buffer of stdio, which are the next ones and less than a block.
BufferLost == S!HandledInOrder /\ S!OnlyBufferLost

\* background.c: when the command has ended, main() leaves.  fork.c: the parent
\* leaves, after its child.
ProgramsLeave ==
  /\ demo = "background" /\ child["cmd"] = "zombie" ~> at = "exited"
  /\ demo = "fork" ~> doing["parent"] = "exited" /\ ~F!Running("child")
=============================================================================
