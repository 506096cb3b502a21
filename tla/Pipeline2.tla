----------------------------- MODULE Pipeline2 -----------------------------
(***************************************************************************)
(* assignment1/examples/pipeline2.c: all commands are direct children of   *)
(* the parent, which waits for them.                                       *)
(***************************************************************************)
EXTENDS PipeCommands

VARIABLES
  i,        \* the parent's loop variable
  pidlist   \* the children to wait for: -1 where setpgid() failed

parent == <<pc, i, pipefds, pidlist>>
vars   == <<parent, fds, proc, ran, commands>>

Init == /\ pc = "pipe"
        /\ i = 1
        /\ pidlist = [c \in Commands |-> 0]
        /\ CommandsInit

-----------------------------------------------------------------------------
(* The parent. *)

OpenPipe ==
  /\ pc = "pipe"
  /\ OpensPipe(0, i)
  /\ pc' = "fork"
  /\ UNCHANGED <<i, pidlist, proc, ran, commands>>

Fork ==
  /\ pc = "fork"
  /\ fds' = [fds EXCEPT ![i] = fds[0]]
  /\ proc' = [proc EXCEPT ![i] = "wire"]
  /\ pc' = "setpgid"
  /\ UNCHANGED <<i, pipefds, pidlist, ran, commands>>

ParentExits(how) ==
  /\ pc' = how
  /\ fds' = [fds EXCEPT ![0] = NoFds]
  /\ UNCHANGED i

\* pipe() or fork() fails: the parent exits, and waits for nobody.
CallFails ==
  /\ pc \in {"pipe", "fork"}
  /\ ParentExits("failed")
  /\ UNCHANGED <<pipefds, pidlist, proc, ran, commands>>

\* setpgid() fails on a child that has executed its command already, and run()
\* then does not return its pid.
Setpgid ==
  /\ pc = "setpgid"
  /\ pidlist' = [pidlist EXCEPT ![i] = IF i \in ran THEN -1 ELSE i]
  /\ pc' = "close"
  /\ UNCHANGED <<i, pipefds, fds, proc, ran, commands>>

\* Mutant: the parent keeps the write ends open.
ClosedWriteEnds(t) == Close(t, pipefds[IF i = Count THEN i-1 ELSE i][2])

\* The parent's ends of the pipes it has handed on are closed.
ClosedEnds(t) ==
  IF i = Count THEN Close(Close(t, pipefds[i-1][1]), pipefds[i-1][2])
  ELSE LET u == Close(t, pipefds[i][2])
       IN IF i > 1 THEN Close(u, pipefds[i-1][1]) ELSE u

\* The last command needs no pipe of its own.
CloseEnds ==
  /\ pc = "close"
  /\ fds' = [fds EXCEPT ![0] = ClosedEnds(@)]
  /\ i' = IF i = Count THEN 1 ELSE i + 1
  /\ pc' = CASE i = Count     -> "wait"
             [] i = Count - 1 -> "fork"
             [] OTHER         -> "pipe"
  /\ UNCHANGED <<pipefds, pidlist, proc, ran, commands>>

\* The children waitpid(pidlist[i]) is about: -1 means any.
Awaited == IF pidlist[i] = -1 THEN Commands ELSE {pidlist[i]}

\* waitpid() reaps a child, or finds that none is left to wait for.
Waitpid ==
  \/ \E c \in Awaited : /\ proc[c] = "zombie"
                        /\ proc' = [proc EXCEPT ![c] = "reaped"]
  \/ /\ \A c \in Awaited : proc[c] \in {"none", "reaped"}
     /\ UNCHANGED proc

\* Mutant: only the first child is waited for.
WaitsFirst == i < 1

WaitsOn == i < Count

Wait ==
  /\ pc = "wait" /\ Waitpid
  /\ \/ WaitsOn /\ i' = i + 1 /\ UNCHANGED <<pc, fds>>
     \/ ~WaitsOn /\ ParentExits("exited")
  /\ UNCHANGED <<pipefds, pidlist, ran, commands>>

Parent == OpenPipe \/ Fork \/ Setpgid \/ CloseEnds \/ Wait

-----------------------------------------------------------------------------
(* A child up to execl(). *)

\* Mutant: every command is run with the parent's standard input.
ReadFdStdin(c) == 0

ReadFd(c)  == IF c = 1 THEN 0 ELSE pipefds[c-1][1]
WriteFd(c) == IF c = Count THEN 1 ELSE pipefds[c][2]
CloseFd(c) == IF c = Count THEN pipefds[c-1][2] ELSE pipefds[c][1]

\* Move descriptor old to new, unless it is there already.
Redirect(t, old, new) ==
  IF old = new THEN t ELSE Close(Dup2(t, old, new), old)

\* Mutant: close(closefd) is missing.
WiredUnclosed(t, c) == Redirect(Redirect(t, ReadFd(c), 0), WriteFd(c), 1)

Wired(t, c) ==
  Redirect(Redirect(Close(t, CloseFd(c)), ReadFd(c), 0), WriteFd(c), 1)

\* The calls change this process's table only, and come in this order.
Wire(c) ==
  /\ proc[c] = "wire"
  /\ fds' = [fds EXCEPT ![c] = Wired(@, c)]
  /\ proc' = [proc EXCEPT ![c] = "exec"]
  /\ UNCHANGED <<parent, ran, commands>>

Child(c) == \/ Wire(c)
            \/ (Exec(c) \/ ExecFails(c)) /\ UNCHANGED <<i, pidlist>>

Next == \/ Parent \/ CallFails
        \/ \E c \in Commands : \/ Child(c)
                               \/ (Command(c) \/ Quit(c)) /\ UNCHANGED <<i, pidlist>>

Spec == Init /\ [][Next]_vars

-----------------------------------------------------------------------------
\* Every variable keeps its type.
TypeOK ==
  /\ CommandsTypeOK
  /\ i \in Commands
  /\ pidlist \in [Commands -> -1..Count]

\* A child whose pid the parent got is reaped when the parent exits, also if
\* waitpid(-1), called for another one, took it first.
ReapsKnown ==
  pc = "exited" => \A c \in Commands : pidlist[c] = c => proc[c] = "reaped"

\* "Wait for all child processes to terminate" (pipeline2.c:170).
WaitsForAll == pc = "exited" => Ended
=============================================================================
