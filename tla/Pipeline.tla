------------------------------ MODULE Pipeline ------------------------------
(***************************************************************************)
(* assignment1/examples/pipeline.c: the process of every command forks     *)
(* that of the next before it executes its own ("recursively").  The       *)
(* process the user started forks the first, and exits at once.            *)
(***************************************************************************)
EXTENDS PipeCommands

vars == <<pc, pipefds, fds, proc, ran, commands>>

Init == pc = "fork" /\ CommandsInit

\* run(), called by main(): no pipe leads to the first command.
Start ==
  /\ pc = "fork"
  /\ pc' = "exit"
  /\ fds' = [fds EXCEPT ![1] = fds[0]]
  /\ proc' = [proc EXCEPT ![1] = "pipe"]
  /\ UNCHANGED <<pipefds, ran, commands>>

StartFails ==
  /\ pc = "fork"
  /\ pc' = "failed"
  /\ UNCHANGED <<pipefds, fds, proc, ran, commands>>

\* main() waits for nobody.
Leave ==
  /\ pc = "exit"
  /\ pc' = "exited"
  /\ fds' = [fds EXCEPT ![0] = NoFds]
  /\ UNCHANGED <<pipefds, proc, ran, commands>>

-----------------------------------------------------------------------------
(* run(), called by the process of command c for command c + 1. *)

OpenPipe(c) ==
  /\ proc[c] = "pipe"
  /\ OpensPipe(c, c)
  /\ proc' = [proc EXCEPT ![c] = "fork"]
  /\ UNCHANGED <<pc, ran, commands>>

Fork(c) ==
  /\ proc[c] = "fork"
  /\ fds' = [fds EXCEPT ![c+1] = fds[c]]
  /\ proc' = [proc EXCEPT ![c] = "redirect", ![c+1] = "wire"]
  /\ UNCHANGED <<pc, pipefds, ran, commands>>

\* pipe() or fork() fails: this command, and those after it, never run.
CallFails(c) ==
  /\ proc[c] \in {"pipe", "fork"}
  /\ Exit(c)
  /\ UNCHANGED <<pc, pipefds, ran, commands>>

\* Mutant: the write end is not closed in the child.
ChildFdsUnclosed(t, fd) == Close(Dup2(t, fd[1], 0), fd[1])

ChildFds(t, fd)  == Close(Dup2(Close(t, fd[2]), fd[1], 0), fd[1])
ParentFds(t, fd) == Close(Dup2(Close(t, fd[1]), fd[2], 1), fd[2])

\* The child's side of the pipe; the last command has none to open.
Wire(c) ==
  /\ proc[c] = "wire"
  /\ fds' = [fds EXCEPT ![c] = ChildFds(@, pipefds[c-1])]
  /\ proc' = [proc EXCEPT ![c] = IF c = Count THEN "exec" ELSE "pipe"]
  /\ UNCHANGED <<pc, pipefds, ran, commands>>

\* The parent's side.
Redirect(c) ==
  /\ proc[c] = "redirect"
  /\ fds' = [fds EXCEPT ![c] = ParentFds(@, pipefds[c])]
  /\ proc' = [proc EXCEPT ![c] = "exec"]
  /\ UNCHANGED <<pc, pipefds, ran, commands>>

Child(c) == \/ OpenPipe(c) \/ Fork(c) \/ Wire(c) \/ Redirect(c)
            \/ Exec(c) \/ ExecFails(c)

Next == \/ Start \/ StartFails \/ Leave
        \/ \E c \in Commands : Child(c) \/ CallFails(c) \/ Command(c) \/ Quit(c)

Spec == Init /\ [][Next]_vars
=============================================================================
