------------------------------ MODULE ForkDemo ------------------------------
(***************************************************************************)
(* lab2/fork.c: a parent prints, forks, prints, waits for its child and    *)
(* prints again; the child prints three lines.  On a terminal stdio writes *)
(* every line; otherwise lines stay in the buffer, of which fork() gives   *)
(* the child a copy, until exit() writes it.                               *)
(***************************************************************************)
EXTENDS Naturals, Sequences, FiniteSets

VARIABLES
  tty,      \* whether standard output is a terminal
  doing,    \* where each process is
  todo,     \* the lines each is to print before its next call
  buffer,   \* what stdio has not written, in each process
  screen    \* what was written

vars == <<tty, doing, todo, buffer, screen>>

Both == {"parent", "child"}

Init == /\ tty \in BOOLEAN
        /\ doing = [p \in Both |-> IF p = "parent" THEN "fork" ELSE "none"]
        /\ todo = [p \in Both |-> IF p = "parent" THEN <<"before">> ELSE <<>>]
        /\ buffer = [p \in Both |-> <<>>]
        /\ screen = <<>>

Running(p) == doing[p] \in {"fork", "waitpid", "exit"}

Printf(p) ==
  /\ Running(p) /\ todo[p] # <<>>
  /\ todo' = [todo EXCEPT ![p] = Tail(@)]
  /\ IF tty THEN screen' = Append(screen, Head(todo[p])) /\ UNCHANGED buffer
            ELSE buffer' = [buffer EXCEPT ![p] = Append(@, Head(todo[p]))] /\ UNCHANGED screen
  /\ UNCHANGED <<tty, doing>>

\* A process makes its next call when it has printed.
Calls(p, call) == doing[p] = call /\ todo[p] = <<>>

\* Mutant: the child goes on into the branch of the parent.
ChildPrintsOn == <<"after in child", "sleeping", "exiting", "after">>

ChildPrints == <<"after in child", "sleeping", "exiting">>

Fork ==
  /\ Calls("parent", "fork")
  /\ doing' = [parent |-> "waitpid", child |-> "exit"]
  /\ todo' = [parent |-> <<"after">>, child |-> ChildPrints]
  /\ buffer' = [buffer EXCEPT !["child"] = buffer["parent"]]
  /\ UNCHANGED <<tty, screen>>

ForkFails ==
  /\ Calls("parent", "fork")
  /\ doing' = [doing EXCEPT !["parent"] = "exit"]
  /\ UNCHANGED <<tty, todo, buffer, screen>>

Waitable == doing["child"] \in {"exited", "killed"}

Waitpid ==
  /\ Calls("parent", "waitpid") /\ Waitable
  /\ doing' = [doing EXCEPT !["parent"] = "exit"]
  /\ todo' = [todo EXCEPT !["parent"] = <<"reaped">>]
  /\ UNCHANGED <<tty, buffer, screen>>

\* exit() writes what is in the buffer.
Flushed(p) == buffer[p]

Exit(p) ==
  /\ Calls(p, "exit")
  /\ doing' = [doing EXCEPT ![p] = "exited"]
  /\ screen' = screen \o Flushed(p) /\ buffer' = [buffer EXCEPT ![p] = <<>>]
  /\ UNCHANGED <<tty, todo>>

\* The child sleeps for ten seconds, in which a signal may end it.
KillChild ==
  /\ doing["child"] = "exit"
  /\ doing' = [doing EXCEPT !["child"] = "killed"]
  /\ UNCHANGED <<tty, todo, buffer, screen>>

Process(p) == Printf(p) \/ Exit(p)
Parent     == Fork \/ Waitpid \/ Process("parent")

Next == Parent \/ Process("child") \/ ForkFails \/ KillChild

\* The kernel schedules both processes.
Fairness == WF_vars(Parent) /\ WF_vars(Process("child"))

-----------------------------------------------------------------------------
\* How often a line was written.
Times(line) == Cardinality({k \in 1..Len(screen) : screen[k] = line})

\* No line is written twice - but the one printed before the fork is, when
\* standard output is not a terminal and the child has a copy of the buffer.
NoEcho ==
  \A k \in 1..Len(screen) :
    Times(screen[k]) <= IF ~tty /\ screen[k] = "before" THEN 2 ELSE 1

\* When the parent writes that it has waited for the child, nothing that the
\* child wrote comes after it.
ChildFirst ==
  \A k \in 1..Len(screen) :
    screen[k] = "reaped" => k = Len(screen)

\* Lines that were all written, in this order.
InOrder(lines) ==
  \A n \in 1..(Len(lines) - 1) : \E j, k \in 1..Len(screen) :
    j < k /\ screen[j] = lines[n] /\ screen[k] = lines[n + 1]

\* Both ran to their ends: every line is there, the lines of each process in
\* the order in which it printed them.
Complete ==
  doing = [p \in Both |-> "exited"] =>
    InOrder(<<"before", "after", "reaped">>) /\ InOrder(<<"before">> \o ChildPrints)
=============================================================================
