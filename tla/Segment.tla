------------------------------ MODULE Segment ------------------------------
(***************************************************************************)
(* assignment2: the life of the shared memory segment between servers      *)
(* (shm_server.c), which create it, and clients (shm_client.c), which      *)
(* check it before they map it.  A server that is started again is another *)
(* process.  The exchange of messages is a TODO in both programs.          *)
(***************************************************************************)
CONSTANTS
  Servers,
  Clients,
  NULL

ASSUME ProcsOK == NULL \notin Servers /\ Servers \cap Clients = {}

Procs == Servers \cup Clients

VARIABLES
  name,     \* the segment SHM_NAME names; each server may create its own
  size,     \* the size of each segment: "zero", "magic" or all of a "shared_t"
  magic,    \* the segments whose magic number is written
  pc,       \* where each process is
  fd,       \* the segment each process has opened
  doexit,   \* the servers whose flag is set
  asked,    \* history: the servers that were sent SIGUSR1
  early     \* history: the clients that opened a segment not yet set up

segment == <<name, size, magic>>
history == <<asked, early>>
vars    == <<segment, pc, fd, doexit, history>>

Init == /\ name = NULL
        /\ size = [s \in Servers |-> "zero"]
        /\ magic = {}
        /\ pc = [p \in Procs |-> IF p \in Servers THEN "unlink" ELSE "open"]
        /\ fd = [p \in Procs |-> NULL]
        /\ doexit = {}
        /\ asked = {}
        /\ early = {}

GoTo(p, from, to) == pc[p] = from /\ pc' = [pc EXCEPT ![p] = to]

-----------------------------------------------------------------------------
(* The server. *)

\* shm_unlink(): the name goes, the segment stays for those that have it.
Unlink(s) ==
  /\ GoTo(s, "unlink", "create")
  /\ name' = NULL
  /\ UNCHANGED <<size, magic, fd, doexit, history>>

\* Mutant: O_TRUNC in place of O_EXCL.
CreateTruncated(s) ==
  /\ GoTo(s, "create", "truncate")
  /\ name' = IF name = NULL THEN s ELSE name
  /\ fd' = [fd EXCEPT ![s] = name']
  /\ size' = [size EXCEPT ![name'] = "zero"]
  /\ magic' = magic \ {name'}
  /\ UNCHANGED <<doexit, history>>

\* shm_open() with O_EXCL: another server may have created one meanwhile.
Create(s) ==
  \/ /\ name = NULL
     /\ GoTo(s, "create", "truncate")
     /\ name' = s
     /\ fd' = [fd EXCEPT ![s] = s]
     /\ UNCHANGED <<size, magic, doexit, history>>
  \/ /\ name # NULL
     /\ GoTo(s, "create", "exited")
     /\ UNCHANGED <<segment, fd, doexit, history>>

\* The result of ftruncate() is not looked at.
Truncate(s) ==
  /\ GoTo(s, "truncate", "write")
  /\ size' \in {size, [size EXCEPT ![fd[s]] = "shared_t"]}
  /\ UNCHANGED <<name, magic, fd, doexit, history>>

\* Nor is that of write(): the magic number may be missing.
WriteMagic(s) ==
  /\ GoTo(s, "write", "sigaction")
  /\ \/ /\ magic' = magic \cup {fd[s]}
        /\ size' = [size EXCEPT ![fd[s]] = IF @ = "zero" THEN "magic" ELSE @]
     \/ UNCHANGED <<magic, size>>
  /\ UNCHANGED <<name, fd, doexit, history>>

\* mmap() succeeds, whatever the size is.
SetHandler(s) ==
  /\ GoTo(s, "sigaction", "serve")
  /\ UNCHANGED <<segment, fd, doexit, history>>

\* Mutant: the flag is read once, before the loop.
LoopStale(s) ==
  /\ GoTo(s, "serve", IF s \in doexit THEN "exited" ELSE "sleep")
  /\ UNCHANGED <<segment, fd, doexit, history>>

\* while (!doexit) sleep(): the name is not unlinked at the end.
Loop(s) ==
  /\ s \in doexit
  /\ GoTo(s, "serve", "exited")
  /\ UNCHANGED <<segment, fd, doexit, history>>

Unhandled == {"unlink", "create", "truncate", "write", "sigaction"}

\* SIGUSR1 ends a server that has not set its handler.
Sigusr1(s) ==
  /\ s \notin asked /\ pc[s] \notin {"exited", "killed"}
  /\ asked' = asked \cup {s}
  /\ \/ /\ pc[s] \notin Unhandled
        /\ doexit' = doexit \cup {s}
        /\ UNCHANGED pc
     \/ /\ pc[s] \in Unhandled
        /\ pc' = [pc EXCEPT ![s] = "killed"]
        /\ UNCHANGED doexit
  /\ UNCHANGED <<segment, fd, early>>

Kill(s) ==
  /\ pc[s] \notin {"exited", "killed"}
  /\ pc' = [pc EXCEPT ![s] = "killed"]
  /\ UNCHANGED <<segment, fd, doexit, history>>

Server(s) == \/ Unlink(s) \/ Create(s) \/ Truncate(s) \/ WriteMagic(s)
             \/ SetHandler(s) \/ Loop(s)

-----------------------------------------------------------------------------
(* The client. *)

SetUp(seg) == size[seg] = "shared_t" /\ seg \in magic

Open(c) ==
  \/ /\ name # NULL
     /\ GoTo(c, "open", "fstat")
     /\ fd' = [fd EXCEPT ![c] = name]
     /\ early' = IF SetUp(name) THEN early ELSE early \cup {c}
     /\ UNCHANGED <<segment, doexit, asked>>
  \/ /\ name = NULL
     /\ GoTo(c, "open", "noserver")
     /\ UNCHANGED <<segment, fd, doexit, history>>

\* Mutant: any size will do that holds the magic number.
CheckSizeLax(c) ==
  /\ GoTo(c, "fstat", IF size[fd[c]] # "zero" THEN "read" ELSE "failed")
  /\ UNCHANGED <<segment, fd, doexit, history>>

\* check(): the size of the segment, then its magic number.
CheckSize(c) ==
  /\ GoTo(c, "fstat", IF size[fd[c]] = "shared_t" THEN "read" ELSE "failed")
  /\ UNCHANGED <<segment, fd, doexit, history>>

CheckMagic(c) ==
  /\ GoTo(c, "read", IF fd[c] \in magic THEN "mmap" ELSE "failed")
  /\ UNCHANGED <<segment, fd, doexit, history>>

Map(c) ==
  /\ GoTo(c, "mmap", "mapped")
  /\ UNCHANGED <<segment, fd, doexit, history>>

Leave(c) ==
  /\ GoTo(c, "mapped", "exited")
  /\ UNCHANGED <<segment, fd, doexit, history>>

Client(c) == Open(c) \/ CheckSize(c) \/ CheckMagic(c) \/ Map(c) \/ Leave(c)

Next == \/ \E s \in Servers : Server(s) \/ Sigusr1(s) \/ Kill(s)
        \/ \E c \in Clients : Client(c)

Spec == Init /\ [][Next]_vars

\* The kernel schedules every process.
FairSpec == /\ Spec
            /\ \A s \in Servers : WF_vars(Server(s))
            /\ \A c \in Clients : WF_vars(Client(c))

-----------------------------------------------------------------------------
ServerStates == {"unlink", "create", "truncate", "write", "sigaction", "serve",
                 "exited", "killed"}
ClientStates == {"open", "fstat", "read", "mmap", "mapped", "exited", "noserver",
                 "failed"}

\* Every variable keeps its type; a server past shm_open has a segment.
TypeOK ==
  /\ name \in Servers \cup {NULL}
  /\ size \in [Servers -> {"zero", "magic", "shared_t"}]
  /\ magic \subseteq Servers
  /\ pc \in [Procs -> ServerStates \cup ClientStates]
  /\ fd \in [Procs -> Servers \cup {NULL}]
  /\ doexit \subseteq Servers /\ asked \subseteq Servers /\ early \subseteq Clients
  /\ \A s \in Servers :
       /\ pc[s] \in ServerStates
       /\ pc[s] \in {"truncate", "write", "sigaction", "serve"} => fd[s] # NULL
  /\ \A c \in Clients : pc[c] \in ClientStates

\* "Sanity check that shared memory is of the correct size and type"
\* (shm_client.c:44): a client only maps a segment that is set up whole,
\* however far the server has come, and still is while the client has it,
\* whatever servers are killed or started then.
MapsWhole ==
  \A c \in Clients : pc[c] \in {"mmap", "mapped"} => SetUp(fd[c])

\* A client refuses a segment only if it opened it before it was set up, which
\* for one whose ftruncate() or write() failed it never is.
RefusesOnlyEarly == \A c \in Clients : pc[c] = "failed" => c \in early

\* A server that is sent SIGUSR1 ends (shm_server.c:47: "Causes main server
\* loop to exit"), also when the signal comes before its handler is set.
EndsWhenAsked == \A s \in Servers : s \in asked ~> pc[s] \in {"exited", "killed"}
=============================================================================
