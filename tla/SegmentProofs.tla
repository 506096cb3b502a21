--------------------------- MODULE SegmentProofs ---------------------------
(***************************************************************************)
(* Proofs about the segment of assignment2, for any number of servers and  *)
(* clients, started, signalled and killed at any moment.                   *)
(***************************************************************************)
EXTENDS Segment, TLAPS

\* What a client has checked so far of the segment it opened.
CheckedInv ==
  \A c \in Clients :
    /\ pc[c] \in {"fstat", "read", "mmap", "mapped"} => fd[c] \in Servers
    /\ pc[c] \in {"read", "mmap", "mapped"} => size[fd[c]] = "shared_t"
    /\ pc[c] \in {"mmap", "mapped"} => fd[c] \in magic

\* A client that opened a segment set up finds it so.
EarlyInv ==
  \A c \in Clients :
    /\ pc[c] \in {"fstat", "read"} /\ c \notin early => SetUp(fd[c])
    /\ pc[c] = "failed" => c \in early

SegInv == TypeOK /\ CheckedInv /\ EarlyInv

\* A segment is not taken back once it is set up.
Grows ==
  /\ magic \subseteq magic'
  /\ \A s \in Servers : size[s] = "shared_t" => size'[s] = "shared_t"

-----------------------------------------------------------------------------
LEMMA InitInv == Init => SegInv
  BY ProcsOK DEF Init, SegInv, TypeOK, ServerStates, ClientStates, CheckedInv,
     EarlyInv, Procs

\* What a server does leaves the clients as they are, and segments grow.
LEMMA ServerStep ==
  ASSUME TypeOK, NEW s \in Servers, Server(s) \/ Sigusr1(s) \/ Kill(s)
  PROVE  /\ TypeOK' /\ Grows
         /\ \A c \in Clients : pc'[c] = pc[c] /\ fd'[c] = fd[c]
         /\ early' = early
  <1>0. s \notin Clients /\ \A c \in Clients : c # s
    BY ProcsOK
  <1>1. CASE Unlink(s)
    BY <1>0, <1>1 DEF Unlink, TypeOK, ServerStates, Grows, GoTo, history, Procs
  <1>2. CASE Create(s)
    <2>1. CASE name = NULL
      <3>1. /\ GoTo(s, "create", "truncate") /\ name' = s
            /\ fd' = [fd EXCEPT ![s] = s]
            /\ UNCHANGED <<size, magic, doexit, history>>
        BY <1>2, <2>1 DEF Create
      <3>2. TypeOK'
        <4>1. /\ fd' \in [Procs -> Servers \cup {NULL}] /\ fd'[s] = s
              /\ pc' \in [Procs -> ServerStates \cup ClientStates]
              /\ \A p \in Procs \ {s} : fd'[p] = fd[p] /\ pc'[p] = pc[p]
              /\ pc'[s] = "truncate"
          BY <3>1 DEF TypeOK, ServerStates, GoTo, Procs
        <4> QED BY <3>1, <4>1, ProcsOK DEF TypeOK, ServerStates, history, Procs
      <3>4. Grows /\ early' = early
        BY <3>1 DEF Grows, history
      <3>5. \A c \in Clients : pc'[c] = pc[c] /\ fd'[c] = fd[c]
        BY <1>0, <3>1 DEF GoTo
      <3> QED BY <3>2, <3>4, <3>5
    <2>2. CASE name # NULL
      BY <1>0, <1>2, <2>2 DEF Create, TypeOK, ServerStates, Grows, GoTo,
         history, segment, Procs
    <2> QED BY <2>1, <2>2
  <1>3. CASE Truncate(s)
    BY <1>0, <1>3 DEF Truncate, TypeOK, ServerStates, Grows, GoTo, history, Procs
  <1>4. CASE WriteMagic(s)
    BY <1>0, <1>4 DEF WriteMagic, TypeOK, ServerStates, Grows, GoTo, history,
       Procs
  <1>5. CASE SetHandler(s)
    BY <1>0, <1>5 DEF SetHandler, TypeOK, ServerStates, Grows, GoTo, history,
       segment, Procs
  <1>6. CASE Loop(s)
    BY <1>0, <1>6 DEF Loop, TypeOK, ServerStates, Grows, GoTo, history,
       segment, Procs
  <1>7. CASE Sigusr1(s)
    <2>1. CASE pc[s] \notin Unhandled
      BY <1>7, <2>1 DEF Sigusr1, TypeOK, Grows, segment
    <2>2. CASE pc[s] \in Unhandled
      BY <1>0, <1>7, <2>2 DEF Sigusr1, TypeOK, ServerStates, Grows, segment, Procs
    <2> QED BY <2>1, <2>2
  <1>8. CASE Kill(s)
    BY <1>0, <1>8 DEF Kill, TypeOK, ServerStates, Grows, history, segment, Procs
  <1> QED BY <1>1, <1>2, <1>3, <1>4, <1>5, <1>6, <1>7, <1>8 DEF Server

\* What is known of a client survives a step that makes segments grow only.
LEMMA GrowthInv ==
  ASSUME SegInv, Grows, early' = early,
         \A c \in Clients : pc'[c] = pc[c] /\ fd'[c] = fd[c]
  PROVE  CheckedInv' /\ EarlyInv'
  <1>1. CheckedInv'
    BY DEF SegInv, CheckedInv, Grows
  <1>2. ASSUME NEW c \in Clients, pc'[c] \in {"fstat", "read"}, c \notin early'
        PROVE  SetUp(fd[c])'
    <2>1. fd[c] \in Servers /\ SetUp(fd[c])
      BY <1>2 DEF SegInv, CheckedInv, EarlyInv
    <2> QED BY <2>1 DEF SetUp, Grows
  <1>3. \A c \in Clients : pc'[c] = "failed" => c \in early'
    BY DEF SegInv, EarlyInv
  <1> QED BY <1>1, <1>2, <1>3 DEF EarlyInv

\* A client moves on only when what it checks is there.
LEMMA ClientInv ==
  ASSUME SegInv, NEW c \in Clients, Client(c)
  PROVE  SegInv'
  <1>0. TypeOK /\ CheckedInv /\ EarlyInv
    BY DEF SegInv
  <1>1. c \notin Servers /\ \A s \in Servers : s # c
    BY ProcsOK
  <1>2. CASE Open(c)
    <2>1. CASE name # NULL
      <3>1. TypeOK'
        BY <1>0, <1>1, <1>2, <2>1 DEF Open, GoTo, TypeOK, ClientStates, segment, Procs
      <3>3. CheckedInv'
        BY <1>0, <1>2, <2>1 DEF Open, GoTo, TypeOK, CheckedInv, segment, Procs
      <3>4. EarlyInv'
        BY <1>0, <1>2, <2>1 DEF Open, GoTo, TypeOK, EarlyInv, SetUp, segment, Procs
      <3> QED BY <3>1, <3>3, <3>4 DEF SegInv
    <2>2. CASE name = NULL
      BY <1>1, <1>2, <2>2 DEF Open, GoTo, SegInv, TypeOK, ClientStates,
         CheckedInv, EarlyInv, SetUp, segment, history, Procs
    <2> QED BY <2>1, <2>2
  <1>3. CASE CheckSize(c)
    BY <1>1, <1>3 DEF SegInv, CheckSize, GoTo, TypeOK, ClientStates,
       CheckedInv, EarlyInv, SetUp, segment, history, Procs
  <1>4. CASE CheckMagic(c)
    BY <1>1, <1>4 DEF SegInv, CheckMagic, GoTo, TypeOK, ClientStates,
       CheckedInv, EarlyInv, SetUp, segment, history, Procs
  <1>5. CASE Map(c)
    BY <1>1, <1>5 DEF SegInv, Map, GoTo, TypeOK, ClientStates, CheckedInv,
       EarlyInv, SetUp, segment, history, Procs
  <1>6. CASE Leave(c)
    BY <1>1, <1>6 DEF SegInv, Leave, GoTo, TypeOK, ClientStates, CheckedInv,
       EarlyInv, SetUp, segment, history, Procs
  <1> QED BY <1>2, <1>3, <1>4, <1>5, <1>6 DEF Client

LEMMA NextInv == SegInv /\ [Next]_vars => SegInv'
  <1> SUFFICES ASSUME SegInv, [Next]_vars PROVE SegInv'
    OBVIOUS
  <1>1. ASSUME NEW s \in Servers, Server(s) \/ Sigusr1(s) \/ Kill(s)
        PROVE  SegInv'
    BY <1>1, ServerStep, GrowthInv DEF SegInv
  <1>2. ASSUME NEW c \in Clients, Client(c)
        PROVE  SegInv'
    BY <1>2, ClientInv
  <1>3. CASE UNCHANGED vars
    BY <1>3 DEF vars, segment, history, SegInv, TypeOK, CheckedInv, EarlyInv,
       SetUp
  <1> QED BY <1>1, <1>2, <1>3 DEF Next

LEMMA SegmentInvariant == Spec => []SegInv
  BY InitInv, NextInv, PTL DEF Spec

-----------------------------------------------------------------------------
\* Every variable keeps its type, and a server past shm_open has a segment.
THEOREM TypeCorrect == Spec => []TypeOK
  <1>1. SegInv => TypeOK
    BY DEF SegInv
  <1> QED BY <1>1, SegmentInvariant, PTL

\* A client never maps a segment that is not set up whole.
THEOREM MapsOnlyWhole == Spec => []MapsWhole
  <1>1. SegInv => MapsWhole
    BY DEF SegInv, CheckedInv, MapsWhole, SetUp
  <1> QED BY <1>1, SegmentInvariant, PTL

\* A client that is refused came before its segment was set up.
THEOREM RefusedEarly == Spec => []RefusesOnlyEarly
  <1>1. SegInv => RefusesOnlyEarly
    BY DEF SegInv, EarlyInv, RefusesOnlyEarly
  <1> QED BY <1>1, SegmentInvariant, PTL
=============================================================================
