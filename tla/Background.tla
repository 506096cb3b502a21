----------------------------- MODULE Background -----------------------------
(***************************************************************************)
(* assignment1/examples/background.c: a program that runs a command in the *)
(* background, goes on (here: sleeps, a second at a time), and learns from *)
(* SIGCHLD that the command has terminated.                                *)
(*                                                                         *)
(* Besides the command the program may have children that it does not know *)
(* of: those of the shell that was overlaid with it ("job & exec           *)
(* background cmd").  waitpid(-1) waits for these too.  sigaction() is     *)
(* given no SA_NOCLDSTOP, so SIGCHLD also reports a child that stops or    *)
(* goes on; while its handler runs it is blocked, and any number of them   *)
(* are one.                                                                *)
(***************************************************************************)
EXTENDS Naturals

CONSTANTS
  StopMax,  \* how many times a child may be stopped
  Others    \* the children that the program does not know of

VARIABLES
  at,          \* where main() is
  child,       \* the state of each child
  pending,     \* SIGCHLD was raised and not yet delivered
  handler,     \* where sigchld_hdl() is
  terminated,  \* the flag
  stops        \* how many times a child was stopped

vars == <<at, child, pending, handler, terminated, stops>>

Children == {"cmd"} \cup Others

Init ==
  /\ at = "sigaction"
  /\ child \in [Children -> {"none", "running"}] /\ child["cmd"] = "none"
  /\ pending = FALSE /\ handler = "idle" /\ terminated = FALSE
  /\ stops = 0

\* Without a handler SIGCHLD is ignored.
Raise == pending' = (at # "sigaction")

-----------------------------------------------------------------------------
(* main(): the handler interrupts it anywhere. *)

Main(from, to) == handler = "idle" /\ at = from /\ at' = to

SigchldSetup ==
  /\ Main("sigaction", "fork")
  /\ UNCHANGED <<child, pending, handler, terminated, stops>>

SigactionFails ==
  /\ Main("sigaction", "failed")
  /\ UNCHANGED <<child, pending, handler, terminated, stops>>

Fork ==
  /\ Main("fork", "sleep")
  /\ child' = [child EXCEPT !["cmd"] = "forked"]
  /\ UNCHANGED <<pending, handler, terminated, stops>>

ForkFails ==
  /\ Main("fork", "failed")
  /\ UNCHANGED <<child, pending, handler, terminated, stops>>

SleepBegins ==
  /\ Main("sleep", "asleep")
  /\ UNCHANGED <<child, pending, handler, terminated, stops>>

\* Mutant: pause(), which no time ends.
PauseEnds == FALSE

\* The second is over.
SleepEnds ==
  /\ Main("asleep", "test")
  /\ UNCHANGED <<child, pending, handler, terminated, stops>>

\* Mutant: the sense of the test is the wrong one.
TestInverted ==
  /\ Main("test", IF terminated THEN "sleep" ELSE "exited")
  /\ UNCHANGED <<child, pending, handler, terminated, stops>>

Test ==
  /\ Main("test", IF terminated THEN "exited" ELSE "sleep")
  /\ UNCHANGED <<child, pending, handler, terminated, stops>>

MainSteps == SigchldSetup \/ Fork \/ SleepBegins \/ SleepEnds \/ Test

-----------------------------------------------------------------------------
(* sigchld_hdl(). *)

Deliver ==
  /\ pending /\ handler = "idle" /\ at \notin {"exited", "failed"}
  /\ pending' = FALSE /\ handler' = "waitpid"
  /\ UNCHANGED <<at, child, terminated, stops>>

\* Mutants: one waitpid() for one signal; a handler that only sets the flag.
AfterWaitpidOnce == "return"
ReapableNone == {}

AfterWaitpid == "waitpid"

Reapable == {c \in Children : child[c] = "zombie"}

Waitpid ==
  /\ handler = "waitpid"
  /\ \/ \E c \in Reapable : /\ child' = [child EXCEPT ![c] = "reaped"]
                            /\ handler' = AfterWaitpid
     \/ Reapable = {} /\ handler' = "return" /\ UNCHANGED child
  /\ UNCHANGED <<at, pending, terminated, stops>>

\* The flag is set, and a sleep() that was interrupted returns.
HandlerReturns ==
  /\ handler = "return"
  /\ handler' = "idle" /\ terminated' = TRUE
  /\ at' = IF at = "asleep" THEN "test" ELSE at
  /\ UNCHANGED <<child, pending, stops>>

Handler == Deliver \/ Waitpid \/ HandlerReturns

-----------------------------------------------------------------------------
(* The children, as long as the program is there. *)

Becomes(c, from, to) ==
  /\ at \notin {"exited", "failed"}
  /\ child[c] = from /\ child' = [child EXCEPT ![c] = to]

Exec ==
  /\ Becomes("cmd", "forked", "running")
  /\ UNCHANGED <<at, pending, handler, terminated, stops>>

\* The command ends, or execl() failed and it calls _exit().
ChildExits(c) ==
  /\ \E from \in {"forked", "running"} : Becomes(c, from, "zombie")
  /\ Raise
  /\ UNCHANGED <<at, handler, terminated, stops>>

ChildStops(c) ==
  /\ stops < StopMax
  /\ Becomes(c, "running", "stopped")
  /\ Raise /\ stops' = stops + 1
  /\ UNCHANGED <<at, handler, terminated>>

ChildContinues(c) ==
  /\ Becomes(c, "stopped", "running")
  /\ Raise
  /\ UNCHANGED <<at, handler, terminated, stops>>

ChildSteps(c) == ChildExits(c) \/ ChildStops(c) \/ ChildContinues(c)

Next == \/ MainSteps \/ SigactionFails \/ ForkFails \/ Handler \/ Exec
        \/ \E c \in Children : ChildSteps(c)

Spec == Init /\ [][Next]_vars

\* The kernel schedules the program and delivers its signals; whether and when
\* a child ends is its own matter.
Fairness == WF_vars(MainSteps) /\ WF_vars(Handler)

-----------------------------------------------------------------------------
\* Every variable keeps its type, and main() only sleeps when it has a child.
TypeOK ==
  /\ at \in {"sigaction", "fork", "sleep", "asleep", "test", "exited", "failed"}
  /\ child \in [Children -> {"none", "forked", "running", "stopped", "zombie", "reaped"}]
  /\ handler \in {"idle", "waitpid", "return"}
  /\ pending \in BOOLEAN /\ terminated \in BOOLEAN
  /\ stops \in 0..StopMax
  /\ at \in {"sleep", "asleep", "test"} => child["cmd"] # "none"

\* No zombie is forgotten: while the command is one, its signal is still to be
\* delivered or the handler still to ask, also when one signal stands for the
\* ends of several children.
ZombieReported ==
  child["cmd"] = "zombie" /\ at # "exited" => pending \/ handler = "waitpid"

\* "The child process has been cleaned up" (background.c:127) when main()
\* leaves - provided that no child was stopped, and that none of which main()
\* does not know has ended.
CleanedUp ==
  at = "exited" /\ stops = 0 /\ (\A c \in Others : child[c] \in {"none", "running"})
    => child["cmd"] = "reaped"

\* When the command has ended main() leaves: the signal may come before the
\* sleep, in it, or between the test and the sleep.
Leaves == child["cmd"] = "zombie" ~> at = "exited"
=============================================================================
