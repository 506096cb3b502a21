---------------------------- MODULE PipeCommands ----------------------------
(***************************************************************************)
(* What assignment1/examples/pipeline.c and pipeline2.c have in common:    *)
(* Count commands, connected by pipes.  Command c (from 1) is to write to  *)
(* pipe c and to read from pipe c - 1.                                     *)
(*                                                                         *)
(* What a command does once execl() has run it is external: it copies what *)
(* it reads to what it writes, and may end earlier.                        *)
(***************************************************************************)
EXTENDS Integers, Sequences, FiniteSets, SequencesExt, Descriptors

CONSTANTS
  Count,       \* the number of commands
  Started,     \* the descriptor tables the program may be started with
  MayFail,     \* the commands that execl() may refuse to run
  MayQuit,     \* the commands that may end before their input does
  Items,       \* how many items standard input holds
  Capacity     \* how many items a pipe holds

Commands == 1..Count
Pipes    == 1..(Count - 1)

ASSUME PipelineOK ==
  /\ Count \in Nat /\ Count >= 2
  /\ Items \in Nat /\ Capacity \in Nat \ {0}
  /\ MayFail \cup MayQuit \subseteq Commands

VARIABLES
  pc,       \* where the process that the user started is
  pipefds,  \* the descriptors pipe() returned, <<read, write>>
  fds,      \* the descriptor table of that process (0) and of each command's
  proc,     \* the state of each command's process
  ran,      \* the processes that execl() has overlaid
  queue,    \* what each pipe holds
  hold,     \* the item a command has read and not written, or 0
  taken,    \* how many items were read from standard input
  output,   \* what was written to standard output
  died      \* history: the commands that ended before their input

commands == <<queue, hold, taken, output, died>>

ReadEnd(k)  == <<"read", k>>
WriteEnd(k) == <<"write", k>>

\* The processes that have an end of a pipe open.
Holders(e) == {p \in 0..Count : \E d \in DOMAIN fds[p] : fds[p][d] = e}

CommandsInit ==
  /\ pipefds = [k \in Pipes |-> <<0, 0>>]
  /\ \E t \in Started : fds = [p \in 0..Count |-> IF p = 0 THEN t ELSE NoFds]
  /\ proc = [c \in Commands |-> "none"]
  /\ ran = {}
  /\ queue = [k \in Pipes |-> <<>>]
  /\ hold = [c \in Commands |-> 0]
  /\ taken = 0
  /\ output = <<>>
  /\ died = {}

-----------------------------------------------------------------------------
(* Steps of both programs. *)

\* Process p opens pipe k.
OpensPipe(p, k) ==
  LET t == Opened(fds[p], ReadEnd(k))
  IN /\ pipefds' = [pipefds EXCEPT ![k] = <<LowestFree(fds[p]), LowestFree(t)>>]
     /\ fds' = [fds EXCEPT ![p] = Opened(t, WriteEnd(k))]

\* A process that ends closes its descriptors.
Exit(c) ==
  /\ proc' = [proc EXCEPT ![c] = "zombie"]
  /\ fds' = [fds EXCEPT ![c] = NoFds]

Exec(c) ==
  /\ proc[c] = "exec"
  /\ proc' = [proc EXCEPT ![c] = "run"]
  /\ ran' = ran \cup {c}
  /\ UNCHANGED <<pc, pipefds, fds, commands>>

ExecFails(c) ==
  /\ proc[c] = "exec" /\ c \in MayFail
  /\ Exit(c)
  /\ UNCHANGED <<pc, pipefds, ran, commands>>

-----------------------------------------------------------------------------
(* A command, reading descriptor 0 and writing descriptor 1. *)

ReadStdin(c) ==
  /\ proc[c] = "run" /\ hold[c] = 0
  /\ Refers(fds[c], 0, Stdin) /\ taken < Items
  /\ taken' = taken + 1
  /\ hold' = [hold EXCEPT ![c] = taken + 1]
  /\ UNCHANGED <<pc, pipefds, fds, proc, ran, queue, output, died>>

ReadPipe(c, k) ==
  /\ proc[c] = "run" /\ hold[c] = 0
  /\ Refers(fds[c], 0, ReadEnd(k)) /\ queue[k] # <<>>
  /\ hold' = [hold EXCEPT ![c] = Head(queue[k])]
  /\ queue' = [queue EXCEPT ![k] = Tail(@)]
  /\ UNCHANGED <<pc, pipefds, fds, proc, ran, taken, output, died>>

WriteStdout(c) ==
  /\ proc[c] = "run" /\ hold[c] # 0
  /\ Refers(fds[c], 1, Stdout)
  /\ output' = Append(output, hold[c])
  /\ hold' = [hold EXCEPT ![c] = 0]
  /\ UNCHANGED <<pc, pipefds, fds, proc, ran, queue, taken, died>>

WritePipe(c, k) ==
  /\ proc[c] = "run" /\ hold[c] # 0
  /\ Refers(fds[c], 1, WriteEnd(k))
  /\ Holders(ReadEnd(k)) # {} /\ Len(queue[k]) < Capacity
  /\ queue' = [queue EXCEPT ![k] = Append(@, hold[c])]
  /\ hold' = [hold EXCEPT ![c] = 0]
  /\ UNCHANGED <<pc, pipefds, fds, proc, ran, taken, output, died>>

\* Nothing is left to read, and nobody can write any more.
EndOfFile(c) ==
  \/ Refers(fds[c], 0, Stdin) /\ taken = Items
  \/ \E k \in Pipes : /\ Refers(fds[c], 0, ReadEnd(k))
                      /\ queue[k] = <<>> /\ Holders(WriteEnd(k)) = {}

Finish(c) ==
  /\ proc[c] = "run" /\ hold[c] = 0 /\ EndOfFile(c)
  /\ Exit(c)
  /\ UNCHANGED <<pc, pipefds, ran, commands>>

\* A descriptor is not open, or nobody will read what is written (SIGPIPE).
Broken(c) ==
  \/ {0, 1} \ DOMAIN fds[c] # {}
  \/ \E k \in Pipes : /\ hold[c] # 0 /\ Refers(fds[c], 1, WriteEnd(k))
                      /\ Holders(ReadEnd(k)) = {}

EndsEarly(c) ==
  /\ proc[c] = "run"
  /\ Exit(c)
  /\ died' = died \cup {c}
  /\ UNCHANGED <<pc, pipefds, ran, queue, hold, taken, output>>

Die(c)  == Broken(c) /\ EndsEarly(c)
Quit(c) == c \in MayQuit /\ EndsEarly(c)

Command(c) == \/ ReadStdin(c) \/ WriteStdout(c)
              \/ \E k \in Pipes : ReadPipe(c, k) \/ WritePipe(c, k)
              \/ Finish(c) \/ Die(c)

-----------------------------------------------------------------------------
Ends == {Stdin, Stdout, Stderr}
          \cup {ReadEnd(k) : k \in Pipes} \cup {WriteEnd(k) : k \in Pipes}

\* Every variable keeps its type, no descriptor above 5 is ever needed, and no
\* pipe holds more than it can.
CommandsTypeOK ==
  /\ pc \in {"pipe", "fork", "setpgid", "close", "wait", "exit", "exited", "failed"}
  /\ pipefds \in [Pipes -> (0..5) \X (0..5)]
  /\ \A p \in 0..Count : DOMAIN fds[p] \subseteq 0..5 /\ Range(fds[p]) \subseteq Ends
  /\ proc \in [Commands -> {"none", "wire", "pipe", "fork", "redirect", "exec",
                            "run", "zombie", "reaped"}]
  /\ ran \cup died \subseteq Commands
  /\ \A k \in Pipes : Len(queue[k]) <= Capacity
  /\ hold \in [Commands -> 0..Items]
  /\ taken \in 0..Items

\* A command runs with its own ends of its own pipes on descriptors 0 and 1,
\* and with no other end of any pipe open, whichever descriptors pipe()
\* returned.
WiredUp ==
  \A c \in Commands : proc[c] = "run" =>
    /\ \A d \in DOMAIN fds[c] :
         fds[c][d] = CASE d = 0 -> IF c = 1 THEN Stdin ELSE ReadEnd(c - 1)
                       [] d = 1 -> IF c = Count THEN Stdout ELSE WriteEnd(c)
                       [] OTHER -> Stderr
    /\ c > 1 => 0 \in DOMAIN fds[c]
    /\ c < Count => 1 \in DOMAIN fds[c]

\* What comes out is what went in, in order and without a gap.
InOrder == \A k \in 1..Len(output) : output[k] = k

Ended == \A c \in Commands : proc[c] \in {"none", "zombie", "reaped"}

\* When all commands ran to the end of their input, all of it came out.
AllDelivered ==
  Ended /\ ran = Commands /\ died = {} => Len(output) = Items

\* Together: the input arrives as it was, and whole if it was read whole.
Delivered == InOrder /\ AllDelivered

\* Everybody ends: no end of a pipe left open anywhere keeps a command from
\* the end of its input, or a writer from learning that nobody reads.
AllEnd == <>(pc \in {"exited", "failed"} /\ Ended)
=============================================================================
