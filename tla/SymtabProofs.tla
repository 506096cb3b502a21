---------------------------- MODULE SymtabProofs ----------------------------
(***************************************************************************)
(* Proofs about Symtab, for any names, values and number of cells: what    *)
(* the list is between any two steps, and that it implements Dictionary.   *)
(***************************************************************************)
EXTENDS Symtab, FiniteSetTheorems, FunctionTheorems, TLAPS

-----------------------------------------------------------------------------
(* Lists. *)

\* In the heap h, order has every cell once, each pointing to the next.
Listed(h, n, order) ==
  /\ n \in Nat /\ order \in [1..n -> DOMAIN h]
  /\ \A a \in DOMAIN h : \E i \in 1..n : order[i] = a
  /\ \A i, j \in 1..n : order[i] = order[j] => i = j
  /\ \A i \in 1..n : h[order[i]].next = IF i = n THEN NULL ELSE order[i+1]

\* The k-th cell, or what the last one points to.
Nth(n, order, k) == IF k = n + 1 THEN NULL ELSE order[k]

LEMMA ListedCounts ==
  ASSUME NEW h, NEW n, NEW order, Listed(h, n, order)
  PROVE  Cardinality(DOMAIN h) = n
<1>1. n \in Nat /\ order \in [1..n -> DOMAIN h]
  BY DEF Listed
<1>2. /\ \A i, j \in 1..n : order[i] = order[j] => i = j
      /\ \A a \in DOMAIN h : \E i \in 1..n : order[i] = a
  BY DEF Listed
<1>3. order \in Bijection(1..n, DOMAIN h)
  BY <1>1, <1>2, Fun_IsBij
<1>4. ExistsBijection(1..n, DOMAIN h)
  BY <1>3 DEF ExistsBijection
<1> QED BY <1>1, <1>4, FS_CountingElements

\* A cell put in front of a list.
LEMMA Pushed ==
  ASSUME NEW h, NEW n, NEW order, Listed(h, n, order), NEW a, a \notin DOMAIN h,
         NEW g, DOMAIN g = DOMAIN h \cup {a},
         g[a].next = Nth(n, order, 1),
         \A b \in DOMAIN h : g[b].next = h[b].next
  PROVE  Listed(g, n + 1, [i \in 1..(n + 1) |-> IF i = 1 THEN a ELSE order[i-1]])
<1> DEFINE o == [i \in 1..(n + 1) |-> IF i = 1 THEN a ELSE order[i-1]]
<1>1. n \in Nat /\ order \in [1..n -> DOMAIN h]
  BY DEF Listed
<1>2. \A i \in 1..(n + 1) : i # 1 => i - 1 \in 1..n
  BY <1>1
<1>3. o \in [1..(n + 1) -> DOMAIN g] /\ o[1] = a /\ \A i \in 2..(n + 1) : o[i] = order[i-1]
  BY <1>1, <1>2
<1>4. ASSUME NEW b \in DOMAIN g PROVE \E i \in 1..(n + 1) : o[i] = b
  <2>1. CASE b = a
    BY <1>1, <1>3, <2>1
  <2>2. CASE b # a
    <3>1. PICK i \in 1..n : order[i] = b
      BY <2>2 DEF Listed
    <3>2. i + 1 \in 1..(n + 1) /\ i + 1 \in 2..(n + 1) /\ (i + 1) - 1 = i
      BY <1>1
    <3>3. o[i + 1] = b
      BY <1>3, <3>1, <3>2
    <3> QED BY <3>2, <3>3
  <2> QED BY <2>1, <2>2
<1>5. ASSUME NEW i \in 1..(n + 1), NEW j \in 1..(n + 1), o[i] = o[j] PROVE i = j
  <2>1. CASE i = 1 \/ j = 1
    BY <1>1, <1>2, <1>3, <1>5, <2>1
  <2>2. CASE i # 1 /\ j # 1
    <3>1. order[i-1] = order[j-1] /\ i - 1 \in 1..n /\ j - 1 \in 1..n
      BY <1>1, <1>2, <1>3, <1>5, <2>2
    <3>2. i - 1 = j - 1
      BY <3>1 DEF Listed
    <3> QED BY <1>1, <3>2
  <2> QED BY <2>1, <2>2
<1>6. ASSUME NEW i \in 1..(n + 1)
      PROVE  g[o[i]].next = IF i = n + 1 THEN NULL ELSE o[i+1]
  <2>1. CASE i = 1
    <3>1. CASE n = 0
      BY <1>3, <2>1, <3>1 DEF Nth
    <3>2. CASE n # 0
      <4>1. Nth(n, order, 1) = order[1] /\ o[2] = order[1]
        BY <1>1, <1>3, <3>2 DEF Nth
      <4> QED BY <1>1, <1>3, <2>1, <3>2, <4>1
    <3> QED BY <3>1, <3>2
  <2>2. CASE i # 1
    <3>1. i - 1 \in 1..n /\ o[i] = order[i-1]
      BY <1>1, <1>3, <2>2
    <3>2. g[o[i]].next = h[order[i-1]].next
      BY <1>1, <3>1
    <3>3. h[order[i-1]].next = IF i - 1 = n THEN NULL ELSE order[(i-1)+1]
      BY <3>1 DEF Listed
    <3>4. (i-1)+1 = i /\ (i - 1 = n <=> i = n + 1)
      BY <1>1
    <3>5. i # n + 1 => o[i+1] = order[i]
      <4>1. i # n + 1 => i + 1 \in 2..(n + 1) /\ (i + 1) - 1 = i
        BY <1>1
      <4> QED BY <1>3, <4>1
    <3> QED BY <3>2, <3>3, <3>4, <3>5
  <2> QED BY <2>1, <2>2
<1>7. n + 1 \in Nat
  BY <1>1
<1> HIDE DEF o
<1>8. Listed(g, n + 1, o)
  BY <1>3, <1>4, <1>5, <1>6, <1>7 DEF Listed
<1> QED BY <1>8 DEF o

\* A cell taken out of a list.
LEMMA Dropped ==
  ASSUME NEW h, NEW n, NEW order, Listed(h, n, order), NEW k \in 1..n,
         NEW g, DOMAIN g = DOMAIN h \ {order[k]},
         \A b \in DOMAIN g :
           g[b].next = IF k > 1 /\ b = order[k-1] THEN h[order[k]].next ELSE h[b].next
  PROVE  Listed(g, n - 1, [i \in 1..(n - 1) |-> IF i < k THEN order[i] ELSE order[i+1]])
<1> DEFINE o == [i \in 1..(n - 1) |-> IF i < k THEN order[i] ELSE order[i+1]]
<1>1. n \in Nat /\ n - 1 \in Nat /\ order \in [1..n -> DOMAIN h]
  BY DEF Listed
<1>2. \A i, j \in 1..n : order[i] = order[j] => i = j
  BY DEF Listed
<1>3. \A i \in 1..(n - 1) : /\ i \in 1..n /\ i + 1 \in 1..n
                            /\ o[i] = IF i < k THEN order[i] ELSE order[i+1]
  BY <1>1
<1>4. o \in [1..(n - 1) -> DOMAIN g]
  <2>1. ASSUME NEW i \in 1..(n - 1) PROVE o[i] \in DOMAIN g
    <3>1. CASE i < k
      <4>1. i # k /\ i \in 1..n /\ o[i] = order[i]
        BY <1>1, <1>3, <3>1
      <4> QED BY <1>1, <1>2, <4>1
    <3>2. CASE ~(i < k)
      <4>1. i + 1 # k /\ i + 1 \in 1..n /\ o[i] = order[i+1]
        BY <1>1, <1>3, <3>2
      <4> QED BY <1>1, <1>2, <4>1
    <3> QED BY <3>1, <3>2
  <2> QED BY <2>1
<1>5. ASSUME NEW b \in DOMAIN g PROVE \E i \in 1..(n - 1) : o[i] = b
  <2>1. PICK i \in 1..n : order[i] = b
    BY DEF Listed
  <2>2. i # k
    BY <2>1
  <2>3. CASE i < k
    <3>1. i \in 1..(n - 1)
      BY <1>1, <2>3
    <3> QED BY <1>3, <2>1, <2>3, <3>1
  <2>4. CASE i > k
    <3>1. i - 1 \in 1..(n - 1) /\ ~(i - 1 < k) /\ (i - 1) + 1 = i
      BY <1>1, <2>4
    <3> QED BY <1>3, <2>1, <3>1
  <2> QED BY <1>1, <2>2, <2>3, <2>4
<1>6. ASSUME NEW i \in 1..(n - 1), NEW j \in 1..(n - 1), o[i] = o[j] PROVE i = j
  <2>1. PICK p \in 1..n : o[i] = order[p] /\ p = IF i < k THEN i ELSE i + 1
    BY <1>3
  <2>2. PICK q \in 1..n : o[j] = order[q] /\ q = IF j < k THEN j ELSE j + 1
    BY <1>3
  <2>3. p = q
    BY <1>2, <1>6, <2>1, <2>2
  <2> QED BY <1>1, <2>1, <2>2, <2>3
<1>7. ASSUME NEW i \in 1..(n - 1)
      PROVE  g[o[i]].next = IF i = n - 1 THEN NULL ELSE o[i+1]
  <2>0. \A j \in 1..n : h[order[j]].next = IF j = n THEN NULL ELSE order[j+1]
    BY DEF Listed
  <2>1. /\ o[i] \in DOMAIN g /\ i \in 1..n /\ i + 1 \in 1..n
        /\ i # n - 1 => i + 1 \in 1..(n - 1) /\ i + 2 \in 1..n /\ (i + 1) + 1 = i + 2
    BY <1>1, <1>3, <1>4
  <2>2. CASE i < k - 1
    <3>1. o[i] = order[i] /\ i < k /\ i + 1 < k /\ i # n - 1 /\ i # n
      BY <1>1, <1>3, <2>2
    <3>2. o[i+1] = order[i+1]
      BY <1>3, <2>1, <3>1
    <3>3. order[i] # order[k-1] \/ ~(k > 1)
      BY <1>1, <1>2, <2>2
    <3>4. g[order[i]].next = h[order[i]].next
      BY <2>1, <3>1, <3>3
    <3> QED BY <2>0, <2>1, <3>1, <3>2, <3>4
  <2>3. CASE i = k - 1
    <3>1. o[i] = order[i] /\ k > 1 /\ i < k
      BY <1>1, <1>3, <2>3
    <3>2. g[order[i]].next = h[order[k]].next
      BY <2>1, <2>3, <3>1
    <3>3. i # n - 1 => o[i+1] = order[i+2] /\ i + 1 = k
      BY <1>1, <1>3, <2>1, <2>3
    <3>4. h[order[k]].next = IF k = n THEN NULL ELSE order[k+1]
      BY <2>0
    <3>5. (k = n <=> i = n - 1) /\ k + 1 = i + 2
      BY <1>1, <2>3
    <3> QED BY <3>1, <3>2, <3>3, <3>4, <3>5
  <2>4. CASE i >= k
    <3>1. o[i] = order[i+1] /\ ~(i + 1 < k)
      BY <1>1, <1>3, <2>4
    <3>2. k > 1 => k - 1 \in 1..n /\ k - 1 # i + 1
      BY <1>1, <2>4
    <3>3. k > 1 => order[i+1] # order[k-1]
      BY <1>2, <2>1, <3>2
    <3>4. g[order[i+1]].next = h[order[i+1]].next
      BY <2>1, <3>1, <3>3
    <3>5. h[order[i+1]].next = IF i + 1 = n THEN NULL ELSE order[(i+1)+1]
      BY <2>0, <2>1
    <3>6. i # n - 1 => o[i+1] = order[i+2]
      BY <1>3, <2>1, <3>1
    <3>7. i + 1 = n <=> i = n - 1
      BY <1>1
    <3> QED BY <2>1, <3>1, <3>4, <3>5, <3>6, <3>7
  <2> QED BY <1>1, <2>2, <2>3, <2>4
<1> HIDE DEF o
<1>8. Listed(g, n - 1, o)
  BY <1>1, <1>2, <1>4, <1>5, <1>6, <1>7 DEF Listed
<1> QED BY <1>8 DEF o

\* Entries may change.
LEMMA SameLinks ==
  ASSUME NEW h, NEW n, NEW order, Listed(h, n, order),
         NEW g, DOMAIN g = DOMAIN h, \A b \in DOMAIN h : g[b].next = h[b].next
  PROVE  Listed(g, n, order)
  BY DEF Listed

-----------------------------------------------------------------------------
(* The inductive invariant. *)

Freeing == call.op \in {"free", "freed"}
Seeking == call.op \in {"set", "lookup", "fetch", "remove"}

\* Where the operation that runs is: at the k-th cell, having passed by those
\* before it.  symtab_free has given the cells before symbol back.
Walk(n, order, k) ==
  /\ k \in 1..(n + 1)
  /\ Seeking => /\ symbol = Nth(n, order, k)
                /\ \A j \in 1..(k - 1) : heap[order[j]].name # call.name
  /\ call.op = "size" => symbol = Nth(n, order, k) /\ size = k - 1
  /\ call.op \in {"set", "lookup", "fetch", "size", "free"} => prev = NULL
  /\ call.op = "remove" => prev = IF k = 1 THEN NULL ELSE order[k-1]
  /\ Freeing => /\ symbol = Nth(n, order, 1)
                /\ symbol # symtab => symtab \notin DOMAIN heap \cup {NULL}
  /\ ~Freeing => symtab = Nth(n, order, 1)
  /\ call.op = "freed" => n = 0

ListInv == \E n, order, k : Listed(heap, n, order) /\ Walk(n, order, k)

\* symtab_free has read of the next cell what its cell holds, or nothing yet.
NextRead == next = {} \/ (call.op = "free" /\ symbol # NULL /\ next = {heap[symbol].next})

SymtabInv == TypeOK /\ UniqueNames /\ NextRead /\ ListInv

\* The arguments of the operations.
LEMMA CallTypes ==
  ASSUME TypeOK
  PROVE  /\ call.op \in {"none", "size", "free", "freed", "lookup", "remove", "fetch", "set"}
         /\ Seeking => call.name \in Names
         /\ call.op = "fetch" => call.value \in Values
         /\ call.op = "set" => call.entry \in Entry
  BY DEF TypeOK, CallType, Seeking

\* The k-th cell is one that is allocated.
LEMMA NthCell ==
  ASSUME NEW n, NEW order, NEW k \in 1..(n + 1), Listed(heap, n, order), TypeOK
  PROVE  /\ Nth(n, order, k) = NULL <=> k = n + 1
         /\ Nth(n, order, k) # NULL => /\ k \in 1..n /\ Nth(n, order, k) = order[k]
                                       /\ order[k] \in DOMAIN heap
                                       /\ heap[order[k]].next = Nth(n, order, k + 1)
  BY AddrOK DEF Listed, Nth, TypeOK

\* How a call begins.
LEMMA CallsInv ==
  ASSUME SymtabInv, Calls
  PROVE  SymtabInv'
<1>1. PICK c \in CallType : Begin(c) /\ c.op \notin {"none", "freed"}
  <2>1. CASE CallSet
    <3>1. PICK n \in Names, e \in Entry : Begin([op |-> "set", name |-> n, entry |-> e])
      BY <2>1 DEF CallSet
    <3>2. [op |-> "set", name |-> n, entry |-> e] \in CallType
      BY DEF CallType
    <3> QED BY <3>1, <3>2
  <2>2. CASE CallLookup \/ CallRemove
    <3>1. PICK n \in Names, o \in {"lookup", "remove"} : Begin([op |-> o, name |-> n])
      BY <2>2 DEF CallLookup, CallRemove
    <3>2. [op |-> o, name |-> n] \in CallType
      BY DEF CallType
    <3> QED BY <3>1, <3>2
  <2>3. CASE CallFetch
    <3>1. PICK n \in Names, d \in Values : Begin([op |-> "fetch", name |-> n, value |-> d])
      BY <2>3 DEF CallFetch
    <3>2. [op |-> "fetch", name |-> n, value |-> d] \in CallType
      BY DEF CallType
    <3> QED BY <3>1, <3>2
  <2>4. CASE CallSize \/ CallFree
    <3>1. PICK o \in {"size", "free"} : Begin([op |-> o])
      BY <2>4 DEF CallSize, CallFree
    <3>2. [op |-> o] \in CallType
      BY DEF CallType
    <3> QED BY <3>1, <3>2
  <2> QED BY <2>1, <2>2, <2>3, <2>4 DEF Calls
<1>2. /\ call.op = "none" /\ call' = c /\ symbol' = symtab /\ prev' = NULL /\ size' = 0
      /\ UNCHANGED <<symtab, heap, next, result, aborted>>
  BY <1>1 DEF Begin, Idle
<1>3. TypeOK'
  BY <1>1, <1>2 DEF SymtabInv, TypeOK
<1>4. UniqueNames' /\ NextRead'
  BY <1>1, <1>2 DEF SymtabInv, UniqueNames, NextRead
<1>5. PICK n, order, k : Listed(heap, n, order) /\ Walk(n, order, k)
  BY DEF SymtabInv, ListInv
<1>6. symtab = Nth(n, order, 1) /\ n \in Nat
  BY <1>2, <1>5 DEF Walk, Freeing, Listed
<1>7. Walk(n, order, 1)'
  BY <1>1, <1>2, <1>6 DEF Walk, Freeing, Seeking
<1>8. Listed(heap', n, order)
  BY <1>2, <1>5
<1>9. ListInv'
  BY <1>7, <1>8 DEF ListInv
<1> QED BY <1>3, <1>4, <1>9 DEF SymtabInv

\* The steps of a walk.
LEMMA WalkInv ==
  ASSUME SymtabInv, LookupNext \/ RemoveNext \/ SizeNext
  PROVE  SymtabInv'
<1>0. TypeOK /\ UniqueNames /\ NextRead
  BY DEF SymtabInv
<1>1. PICK n, order, k : Listed(heap, n, order) /\ Walk(n, order, k)
  BY DEF SymtabInv, ListInv
<1>2. /\ symbol # NULL /\ symbol' = heap[symbol].next /\ ~aborted
      /\ UNCHANGED <<symtab, heap, call, next, result, aborted>>
      /\ call.op \in {"set", "lookup", "fetch", "remove", "size"}
      /\ call.op # "size" => heap[symbol].name # call.name
  BY DEF LookupNext, RemoveNext, SizeNext, Running, PastName, Following
<1>3. /\ k \in 1..(n + 1) /\ symbol = Nth(n, order, k) /\ n \in Nat
  BY <1>1, <1>2 DEF Walk, Seeking, Listed
<1>4. /\ k \in 1..n /\ symbol = order[k] /\ order[k] \in DOMAIN heap
      /\ symbol' = Nth(n, order, k + 1)
  <2>1. Nth(n, order, k) # NULL
    BY <1>2, <1>3
  <2>2. /\ k \in 1..n /\ Nth(n, order, k) = order[k] /\ order[k] \in DOMAIN heap
        /\ heap[order[k]].next = Nth(n, order, k + 1)
    BY <1>0, <1>1, <1>3, <2>1, NthCell
  <2> QED BY <1>2, <1>3, <2>2
<1>5. k + 1 \in 1..(n + 1) /\ (k + 1) - 1 = k /\ k + 1 # 1
  BY <1>3, <1>4
<1>6. /\ call.op = "remove" => prev' = order[k]
      /\ call.op = "size" => size' = size + 1 /\ prev' = prev
      /\ call.op \in {"set", "lookup", "fetch"} => prev' = prev /\ size' = size
      /\ call.op = "remove" => size' = size
  BY <1>4 DEF LookupNext, RemoveNext, SizeNext, Running
<1>7. symbol' \in Addr \cup {NULL} /\ prev' \in Addr \cup {NULL} /\ size' \in Nat
  <2>1. heap[symbol] \in Cell /\ symbol \in Addr
    BY <1>0, <1>4 DEF TypeOK
  <2>2. symbol' \in Addr \cup {NULL}
    BY <1>2, <2>1 DEF Cell
  <2> QED BY <1>0, <1>2, <1>4, <1>6, <2>1, <2>2 DEF TypeOK
<1>8. TypeOK'
  BY <1>0, <1>2, <1>7 DEF TypeOK
<1>9. UniqueNames' /\ NextRead'
  BY <1>0, <1>2 DEF UniqueNames, NextRead
<1>10. Walk(n, order, k + 1)'
  <2>1. Seeking => \A j \in 1..k : heap[order[j]].name # call.name
    <3>1. \A j \in 1..k : j \in 1..(k - 1) \/ j = k
      BY <1>4
    <3> QED BY <1>1, <1>2, <1>4, <3>1 DEF Walk, Seeking
  <2>2. call.op = "size" => size' = k
    BY <1>1, <1>4, <1>6 DEF Walk
  <2> QED BY <1>1, <1>2, <1>4, <1>5, <1>6, <2>1, <2>2 DEF Walk, Seeking, Freeing
<1>11. Listed(heap', n, order)
  BY <1>1, <1>2
<1>12. ListInv'
  BY <1>10, <1>11 DEF ListInv
<1> QED BY <1>8, <1>9, <1>12 DEF SymtabInv

\* An operation returns, or ends, and leaves the list as it is.
Ends == /\ ~aborted
        /\ \/ ~Freeing /\ call' = Idle
           \/ call.op = "free" /\ symbol = NULL /\ call' = [op |-> "freed"]
        /\ UNCHANGED <<symtab, heap, symbol, prev, next, size, aborted>>

LEMMA EndInv ==
  ASSUME SymtabInv, Ends
  PROVE  SymtabInv'
<1> USE DEF Ends
<1>0. TypeOK /\ UniqueNames /\ NextRead
  BY DEF SymtabInv
<1>1. PICK n, order, k : Listed(heap, n, order) /\ Walk(n, order, k)
  BY DEF SymtabInv, ListInv
<1>2. call' \in CallType /\ call'.op \in {"none", "freed"}
  BY DEF CallType, Idle
<1>3. TypeOK'
  BY <1>0, <1>2 DEF TypeOK
<1>4. UniqueNames' /\ NextRead'
  <2>1. call.op # "free" \/ symbol = NULL
    BY <1>2 DEF Freeing
  <2> QED BY <1>0, <1>2, <2>1 DEF UniqueNames, NextRead, Freeing
<1>5. Walk(n, order, k)'
  <2>1. CASE ~Freeing /\ call' = Idle
    BY <1>1, <2>1 DEF Walk, Seeking, Freeing, Idle
  <2>2. CASE call.op = "free" /\ symbol = NULL /\ call' = [op |-> "freed"]
    <3>1. symbol = Nth(n, order, 1) /\ n \in Nat /\ 1 \in 1..(n + 1)
      BY <1>1, <2>2 DEF Walk, Freeing, Listed
    <3>2. 1 = n + 1
      BY <1>0, <1>1, <2>2, <3>1, NthCell
    <3>3. n = 0
      BY <3>1, <3>2
    <3> QED BY <1>1, <2>2, <3>3 DEF Walk, Seeking, Freeing
  <2> QED BY <2>1, <2>2
<1>6. ListInv'
  BY <1>1, <1>5 DEF ListInv
<1> QED BY <1>3, <1>4, <1>6 DEF SymtabInv

LEMMA SetNewInv ==
  ASSUME SymtabInv, NEW a \in Addr, SetNew(a)
  PROVE  SymtabInv'
<1>0. TypeOK /\ UniqueNames /\ NextRead
  BY DEF SymtabInv
<1>1. PICK n, order, k : Listed(heap, n, order) /\ Walk(n, order, k)
  BY DEF SymtabInv, ListInv
<1>2. /\ call.op = "set" /\ symbol = NULL /\ a \notin DOMAIN heap /\ ~aborted
      /\ symtab' = a /\ call' = Idle /\ aborted' = aborted
      /\ UNCHANGED <<symbol, prev, next, size>>
  BY DEF SetNew, Running, NotFound, Return
<1>3. /\ DOMAIN heap' = DOMAIN heap \cup {a}
      /\ heap'[a] = [name |-> call.name, next |-> symtab, entry |-> call.entry]
      /\ \A b \in DOMAIN heap : heap'[b] = heap[b]
  BY <1>2 DEF SetNew
<1>4. call.name \in Names /\ call.entry \in Entry
  BY <1>0, <1>2, CallTypes DEF Seeking
<1>5. n \in Nat /\ order \in [1..n -> DOMAIN heap] /\ k \in 1..(n + 1)
  BY <1>1 DEF Listed, Walk
<1>6. k = n + 1
  BY <1>0, <1>1, <1>2, <1>5, NthCell DEF Walk, Seeking
<1>7. \A b \in DOMAIN heap : heap[b].name # call.name
  <2>1. \A j \in 1..n : heap[order[j]].name # call.name
    BY <1>1, <1>2, <1>5, <1>6 DEF Walk, Seeking
  <2>2. \A b \in DOMAIN heap : \E i \in 1..n : order[i] = b
    BY <1>1 DEF Listed
  <2> QED BY <2>1, <2>2
<1>8. TypeOK'
  <2>1. heap'[a] \in Cell
    BY <1>0, <1>3, <1>4 DEF TypeOK, Cell
  <2>2. call' \in CallType
    BY <1>2 DEF Idle, CallType
  <2> QED BY <1>0, <1>2, <1>3, <2>1, <2>2 DEF TypeOK
<1>9. UniqueNames'
  <2>1. heap'[a].name = call.name
    BY <1>3
  <2> QED BY <1>0, <1>3, <1>7, <2>1 DEF UniqueNames
<1>10. NextRead'
  BY <1>0, <1>2 DEF NextRead
<1>11. symtab = Nth(n, order, 1)
  BY <1>1, <1>2 DEF Walk, Freeing
<1> DEFINE o == [i \in 1..(n + 1) |-> IF i = 1 THEN a ELSE order[i-1]]
<1>12. Listed(heap', n + 1, o)
  <2>1. heap'[a].next = Nth(n, order, 1) /\ \A b \in DOMAIN heap : heap'[b].next = heap[b].next
    BY <1>3, <1>11
  <2> QED BY <1>1, <1>2, <1>3, <2>1, Pushed
<1>13. Nth(n + 1, o, 1) = a /\ 1 \in 1..((n + 1) + 1)
  BY <1>5 DEF Nth
<1> HIDE DEF o
<1>14. Walk(n + 1, o, 1)'
  BY <1>2, <1>13 DEF Walk, Seeking, Freeing, Idle
<1>15. ListInv'
  BY <1>12, <1>14 DEF ListInv
<1> QED BY <1>8, <1>9, <1>10, <1>15 DEF SymtabInv

LEMMA SetFoundInv ==
  ASSUME SymtabInv, SetFound
  PROVE  SymtabInv'
<1>0. TypeOK /\ UniqueNames /\ NextRead
  BY DEF SymtabInv
<1>1. PICK n, order, k : Listed(heap, n, order) /\ Walk(n, order, k)
  BY DEF SymtabInv, ListInv
<1>2. /\ call.op = "set" /\ AtNamed /\ ~aborted /\ UNCHANGED <<symtab, symbol, prev, next, size>>
      /\ symbol # NULL
  BY DEF SetFound, Running, AtNamed
<1>3. symbol \in DOMAIN heap /\ call.entry \in Entry
  <2>1. k \in 1..(n + 1) /\ symbol = Nth(n, order, k)
    BY <1>1, <1>2 DEF Walk, Seeking
  <2>2. Nth(n, order, k) # NULL
    BY <1>2, <2>1
  <2>3. Nth(n, order, k) = order[k] /\ order[k] \in DOMAIN heap
    BY <1>0, <1>1, <2>1, <2>2, NthCell
  <2> QED BY <1>0, <1>2, <2>1, <2>3, CallTypes DEF Seeking
<1>4. CASE heap[symbol].entry.type = "SYM_VAR" /\ call' = Idle /\ aborted' = aborted
            /\ heap' = [heap EXCEPT ![symbol].entry = call.entry]
  <2>1. /\ DOMAIN heap' = DOMAIN heap
        /\ heap'[symbol] = [heap[symbol] EXCEPT !.entry = call.entry]
        /\ \A b \in DOMAIN heap : b # symbol => heap'[b] = heap[b]
    BY <1>3, <1>4
  <2>2. heap[symbol] \in Cell
    BY <1>0, <1>3 DEF TypeOK
  <2>3. /\ heap'[symbol] \in Cell /\ heap'[symbol].next = heap[symbol].next
        /\ heap'[symbol].name = heap[symbol].name
    BY <1>3, <2>1, <2>2 DEF Cell
  <2>4. call' \in CallType
    BY <1>4 DEF Idle, CallType
  <2>5. TypeOK'
    BY <1>0, <1>2, <1>4, <2>1, <2>3, <2>4 DEF TypeOK
  <2>6. \A b \in DOMAIN heap : heap'[b].name = heap[b].name /\ heap'[b].next = heap[b].next
    BY <2>1, <2>3
  <2>7. UniqueNames'
    BY <1>0, <2>1, <2>6 DEF UniqueNames
  <2>8. NextRead'
    BY <1>0, <1>2, <1>4 DEF NextRead
  <2>9. Listed(heap', n, order)
    BY <1>1, <2>1, <2>6, SameLinks
  <2>10. Walk(n, order, k)'
    BY <1>1, <1>2, <1>4 DEF Walk, Seeking, Freeing, Idle
  <2>11. ListInv'
    BY <2>9, <2>10 DEF ListInv
  <2> QED BY <2>5, <2>7, <2>8, <2>11 DEF SymtabInv
<1>5. CASE heap[symbol].entry.type = "SYM_INTERNAL" /\ aborted' = TRUE
            /\ UNCHANGED <<heap, call, result>>
  <2>1. TypeOK' /\ UniqueNames'
    BY <1>0, <1>2, <1>5 DEF TypeOK, UniqueNames
  <2>2. NextRead'
    BY <1>0, <1>2, <1>5 DEF NextRead
  <2>3. Listed(heap', n, order) /\ Walk(n, order, k)'
    BY <1>1, <1>2, <1>5 DEF Walk, Seeking, Freeing
  <2>4. ListInv'
    BY <2>3 DEF ListInv
  <2> QED BY <2>1, <2>2, <2>4 DEF SymtabInv
<1> QED BY <1>4, <1>5 DEF SetFound, Return, Overwritten

\* symtab_remove unlinks the cell it has found.
LEMMA RemoveInv ==
  ASSUME SymtabInv, Running("remove"), AtNamed, call' = Idle, heap' = Unlinked,
         symtab' = (IF prev = NULL THEN heap[symbol].next ELSE symtab),
         UNCHANGED <<symbol, prev, next, size, aborted>>
  PROVE  SymtabInv'
<1>0. TypeOK /\ UniqueNames /\ NextRead
  BY DEF SymtabInv
<1>1. PICK n, order, k : Listed(heap, n, order) /\ Walk(n, order, k)
  BY DEF SymtabInv, ListInv
<1>2. call.op = "remove" /\ ~aborted /\ symbol # NULL
  BY DEF Running, AtNamed
<1>3. n \in Nat /\ order \in [1..n -> DOMAIN heap] /\ k \in 1..(n + 1)
  BY <1>1 DEF Listed, Walk
<1>4. /\ symbol = Nth(n, order, k) /\ prev = (IF k = 1 THEN NULL ELSE order[k-1])
      /\ symtab = Nth(n, order, 1)
  BY <1>1, <1>2 DEF Walk, Seeking, Freeing
<1>5. /\ k \in 1..n /\ symbol = order[k] /\ order[k] \in DOMAIN heap
      /\ heap[order[k]].next = Nth(n, order, k + 1)
  <2>1. Nth(n, order, k) # NULL
    BY <1>2, <1>4
  <2>2. /\ k \in 1..n /\ Nth(n, order, k) = order[k] /\ order[k] \in DOMAIN heap
        /\ heap[order[k]].next = Nth(n, order, k + 1)
    BY <1>0, <1>1, <1>3, <2>1, NthCell
  <2> QED BY <1>4, <2>2
<1>6. k > 1 => k - 1 \in 1..n /\ order[k-1] \in DOMAIN heap
  BY <1>3, <1>5
<1>7. NULL \notin DOMAIN heap
  BY <1>0, AddrOK DEF TypeOK
<1>8. /\ DOMAIN heap' = DOMAIN heap \ {symbol}
      /\ \A b \in DOMAIN heap' :
           heap'[b] = IF b = prev THEN [heap[b] EXCEPT !.next = heap[symbol].next] ELSE heap[b]
  BY DEF Unlinked
<1>9. \A b \in DOMAIN heap' :
        /\ heap'[b] \in Cell /\ heap'[b].name = heap[b].name
        /\ heap'[b].next = IF b = prev THEN heap[symbol].next ELSE heap[b].next
  <2> SUFFICES ASSUME NEW b \in DOMAIN heap'
               PROVE  /\ heap'[b] \in Cell /\ heap'[b].name = heap[b].name
                      /\ heap'[b].next = IF b = prev THEN heap[symbol].next ELSE heap[b].next
    OBVIOUS
  <2>1. heap[b] \in Cell /\ heap[symbol] \in Cell
    BY <1>0, <1>5, <1>8 DEF TypeOK
  <2>2. CASE b = prev
    <3>1. heap'[b] = [heap[b] EXCEPT !.next = heap[symbol].next]
      BY <1>8, <2>2
    <3>2. heap[symbol].next \in Addr \cup {NULL}
      BY <2>1 DEF Cell
    <3> QED BY <2>1, <2>2, <3>1, <3>2 DEF Cell
  <2>3. CASE b # prev
    BY <1>8, <2>1, <2>3
  <2> QED BY <2>2, <2>3
<1>10. \A b \in DOMAIN heap' :
         heap'[b].next = IF k > 1 /\ b = order[k-1] THEN heap[order[k]].next ELSE heap[b].next
  <2>1. \A b \in DOMAIN heap' : b = prev <=> k > 1 /\ b = order[k-1]
    BY <1>4, <1>5, <1>7, <1>8
  <2> QED BY <1>5, <1>9, <2>1
<1> DEFINE o == [i \in 1..(n - 1) |-> IF i < k THEN order[i] ELSE order[i+1]]
<1>11. Listed(heap', n - 1, o)
  <2>1. DOMAIN heap' = DOMAIN heap \ {order[k]}
    BY <1>5, <1>8
  <2> QED BY ONLY <1>1, <1>5, <1>10, <2>1, Dropped DEF o
<1>12. symtab' = Nth(n - 1, o, 1)
  <2>1. CASE k = 1
    <3>1. symtab' = Nth(n, order, 2)
      BY <1>4, <1>5, <2>1
    <3>2. n = 1 => Nth(n, order, 2) = NULL /\ Nth(n - 1, o, 1) = NULL
      BY DEF Nth
    <3>3. n # 1 => 1 \in 1..(n - 1) /\ Nth(n, order, 2) = order[2] /\ Nth(n - 1, o, 1) = o[1]
      BY <1>3, <1>5 DEF Nth
    <3>4. n # 1 => o[1] = order[2]
      BY <2>1, <3>3
    <3> QED BY <3>1, <3>2, <3>3, <3>4
  <2>2. CASE k # 1
    <3>1. prev # NULL /\ symtab' = symtab
      BY <1>3, <1>4, <1>6, <1>7, <2>2
    <3>2. 1 \in 1..(n - 1) /\ Nth(n, order, 1) = order[1] /\ Nth(n - 1, o, 1) = o[1] /\ 1 < k
      BY <1>3, <1>5, <2>2 DEF Nth
    <3>3. o[1] = order[1]
      BY <3>2
    <3> QED BY <1>4, <3>1, <3>2, <3>3
  <2> QED BY <2>1, <2>2
<1>13. 1 \in 1..((n - 1) + 1)
  BY <1>3, <1>5
<1> HIDE DEF o
<1>14. Walk(n - 1, o, 1)'
  BY <1>12, <1>13 DEF Walk, Seeking, Freeing, Idle
<1>15. ListInv'
  BY <1>11, <1>14 DEF ListInv
<1>16. symtab' \in Addr \cup {NULL} /\ call' \in CallType
  <2>1. heap[symbol] \in Cell
    BY <1>0, <1>5 DEF TypeOK
  <2> QED BY <1>0, <2>1 DEF TypeOK, Cell, CallType, Idle
<1>17. TypeOK'
  BY <1>0, <1>8, <1>9, <1>16 DEF TypeOK
<1>18. UniqueNames'
  BY <1>0, <1>8, <1>9 DEF UniqueNames
<1>19. NextRead'
  BY <1>0, <1>2 DEF NextRead
<1> QED BY <1>15, <1>17, <1>18, <1>19 DEF SymtabInv

LEMMA FreeInv ==
  ASSUME SymtabInv, FreeCell
  PROVE  SymtabInv'
<1>0. TypeOK /\ UniqueNames /\ NextRead
  BY DEF SymtabInv
<1>1. PICK n, order, k : Listed(heap, n, order) /\ Walk(n, order, k)
  BY DEF SymtabInv, ListInv
<1>2. /\ call.op = "free" /\ ~aborted /\ symbol # NULL /\ symbol' = heap[symbol].next
      /\ heap' = [a \in DOMAIN heap \ {symbol} |-> heap[a]]
      /\ next' = {}
      /\ UNCHANGED <<symtab, call, prev, size, result, aborted>>
  BY <1>0 DEF FreeCell, Running, WithoutSymbol, NextRead
<1>3. /\ n \in Nat /\ symbol = Nth(n, order, 1) /\ 1 \in 1..(n + 1)
      /\ symbol # symtab => symtab \notin DOMAIN heap \cup {NULL}
  BY <1>1, <1>2 DEF Walk, Freeing, Listed
<1>4. /\ 1 \in 1..n /\ symbol = order[1] /\ order[1] \in DOMAIN heap
      /\ heap[order[1]].next = Nth(n, order, 2)
  <2>1. Nth(n, order, 1) # NULL
    BY <1>2, <1>3
  <2>2. /\ 1 \in 1..n /\ Nth(n, order, 1) = order[1] /\ order[1] \in DOMAIN heap
        /\ heap[order[1]].next = Nth(n, order, 1 + 1)
    BY <1>0, <1>1, <1>3, <2>1, NthCell
  <2> QED BY <1>3, <2>2
<1>5. DOMAIN heap' = DOMAIN heap \ {order[1]} /\ \A b \in DOMAIN heap' : heap'[b] = heap[b]
  BY <1>2, <1>4
<1> DEFINE o == [i \in 1..(n - 1) |-> IF i < 1 THEN order[i] ELSE order[i+1]]
<1>6. Listed(heap', n - 1, o)
  <2>1. \A b \in DOMAIN heap' :
          heap'[b].next = IF 1 > 1 /\ b = order[1-1] THEN heap[order[1]].next ELSE heap[b].next
    BY <1>5
  <2> QED BY ONLY <1>1, <1>4, <1>5, <2>1, Dropped DEF o
<1>7. symbol' = Nth(n - 1, o, 1)
  <2>1. n = 1 => Nth(n, order, 2) = NULL /\ Nth(n - 1, o, 1) = NULL
    BY DEF Nth
  <2>2. n # 1 => 1 \in 1..(n - 1) /\ Nth(n, order, 2) = order[2] /\ Nth(n - 1, o, 1) = o[1]
    BY <1>3, <1>4 DEF Nth
  <2>3. n # 1 => o[1] = order[2]
    BY <2>2
  <2> QED BY <1>2, <1>4, <2>1, <2>2, <2>3
<1>8. 1 \in 1..((n - 1) + 1) /\ symtab' \notin DOMAIN heap' \cup {NULL}
  BY <1>2, <1>3, <1>4, <1>5
<1> HIDE DEF o
<1>9. Walk(n - 1, o, 1)'
  BY <1>1, <1>2, <1>7, <1>8 DEF Walk, Seeking, Freeing
<1>10. ListInv'
  BY <1>6, <1>9 DEF ListInv
<1>11. TypeOK'
  <2>1. heap[symbol] \in Cell
    BY <1>0, <1>4 DEF TypeOK
  <2>2. symbol' \in Addr \cup {NULL}
    BY <1>2, <2>1 DEF Cell
  <2> QED BY <1>0, <1>2, <1>5, <2>2 DEF TypeOK
<1>12. UniqueNames' /\ NextRead'
  BY <1>0, <1>2, <1>5 DEF UniqueNames, NextRead
<1> QED BY <1>10, <1>11, <1>12 DEF SymtabInv

\* symtab_free reads next.
LEMMA FreeNextInv ==
  ASSUME SymtabInv, FreeNext
  PROVE  SymtabInv'
<1>0. TypeOK /\ UniqueNames
  BY DEF SymtabInv
<1>1. PICK n, order, k : Listed(heap, n, order) /\ Walk(n, order, k)
  BY DEF SymtabInv, ListInv
<1>2. /\ call.op = "free" /\ symbol # NULL /\ next' = {heap[symbol].next}
      /\ UNCHANGED <<symtab, heap, call, symbol, prev, size, result, aborted>>
  BY DEF FreeNext, Running, Following
<1>3. symbol = Nth(n, order, 1) /\ 1 \in 1..(n + 1)
  BY <1>1, <1>2 DEF Walk, Freeing, Listed
<1>4. symbol \in DOMAIN heap
  <2>1. Nth(n, order, 1) # NULL
    BY <1>2, <1>3
  <2> QED BY <1>0, <1>1, <1>3, <2>1, NthCell
<1>5. TypeOK' /\ UniqueNames' /\ NextRead'
  BY <1>0, <1>2, <1>4 DEF TypeOK, Cell, UniqueNames, NextRead
<1>6. Listed(heap', n, order) /\ Walk(n, order, k)'
  BY <1>1, <1>2 DEF Walk, Seeking, Freeing
<1>7. ListInv'
  BY <1>6 DEF ListInv
<1> QED BY <1>5, <1>7 DEF SymtabInv

LEMMA InitInv == Init => SymtabInv
<1> SUFFICES ASSUME Init PROVE SymtabInv
  OBVIOUS
<1>1. DOMAIN heap = {}
  BY DEF Init
<1>2. TypeOK
  BY <1>1 DEF Init, TypeOK, CallType, Idle
<1>3. UniqueNames /\ NextRead
  BY <1>1 DEF Init, UniqueNames, NextRead
<1> DEFINE o == [i \in 1..0 |-> NULL]
<1>4. Listed(heap, 0, o)
  BY <1>1 DEF Listed
<1>5. Nth(0, o, 1) = NULL /\ 1 \in 1..(0 + 1)
  BY DEF Nth
<1> HIDE DEF o
<1>6. Walk(0, o, 1)
  BY <1>5 DEF Init, Walk, Seeking, Freeing, Idle
<1>7. ListInv
  BY <1>4, <1>6 DEF ListInv
<1> QED BY <1>2, <1>3, <1>7 DEF SymtabInv

LEMMA StepInv == SymtabInv /\ [Next]_vars => SymtabInv'
<1> SUFFICES ASSUME SymtabInv, [Next]_vars PROVE SymtabInv'
  OBVIOUS
<1>1. CASE UNCHANGED vars
  <2>1. UNCHANGED <<symtab, heap, call, symbol, prev, next, size, result, aborted>>
    BY <1>1 DEF vars
  <2>2. TypeOK' /\ UniqueNames'
    BY <2>1 DEF SymtabInv, TypeOK, UniqueNames
  <2>3. NextRead'
    BY <2>1 DEF SymtabInv, NextRead
  <2>4. PICK n, order, k : Listed(heap, n, order) /\ Walk(n, order, k)
    BY DEF SymtabInv, ListInv
  <2>5. Listed(heap', n, order) /\ Walk(n, order, k)'
    BY <2>1, <2>4 DEF Walk, Seeking, Freeing
  <2>6. ListInv'
    BY <2>5 DEF ListInv
  <2> QED BY <2>2, <2>3, <2>6 DEF SymtabInv
<1>2. CASE LookupEnd \/ FetchEnd \/ SizeEnd \/ FreeEnd
  <2>1. Ends
    BY <1>2 DEF LookupEnd, FetchEnd, SizeEnd, FreeEnd, Running, Return, Freeing, Ends
  <2> QED BY <2>1, EndInv
<1>3. CASE RemoveEnd
  <2>1. CASE AtNamed /\ heap' = Unlinked /\ symtab' = (IF prev = NULL THEN heap[symbol].next ELSE symtab)
    BY <1>3, <2>1, RemoveInv DEF RemoveEnd, Return
  <2>2. CASE UNCHANGED <<heap, symtab>>
    <3>1. Ends
      BY <1>3, <2>2 DEF RemoveEnd, Return, Running, Freeing, Ends
    <3> QED BY <3>1, EndInv
  <2> QED BY <1>3, <2>1, <2>2 DEF RemoveEnd
<1> QED BY <1>1, <1>2, <1>3, CallsInv, WalkInv, SetNewInv, SetFoundInv, FreeNextInv, FreeInv DEF Next, Step

LEMMA AlwaysInv == Spec => []SymtabInv
  BY InitInv, StepInv, PTL DEF Spec

-----------------------------------------------------------------------------
(* What is always true. *)

\* The operations of symtab.c keep one list of all cells, without a name twice.
THEOREM ListIsSound == Spec => []ListSound
<1>1. SymtabInv => ListSound
  <2> SUFFICES ASSUME SymtabInv PROVE WholeHeapListed
    BY DEF SymtabInv, ListSound
  <2>1. PICK n, order, k : Listed(heap, n, order) /\ Walk(n, order, k)
    BY DEF SymtabInv, ListInv
  <2>2. Cardinality(DOMAIN heap) = n
    BY <2>1, ListedCounts
  <2> DEFINE first == IF call.op \in {"free", "freed"} THEN symbol ELSE symtab
  <2>3. first = Nth(n, order, 1)
    BY <2>1 DEF Walk, Freeing
  <2>4. n \in Nat /\ order \in [1..n -> DOMAIN heap]
    BY <2>1 DEF Listed
  <2>5. first = IF n = 0 THEN NULL ELSE order[1]
    BY <2>3, <2>4 DEF Nth
  <2> HIDE DEF first
  <2>6. ListedBy(first, order, DOMAIN heap)
    BY <2>1, <2>2, <2>4, <2>5 DEF ListedBy, Listed
  <2> QED BY <2>2, <2>4, <2>6 DEF WholeHeapListed, first
<1> QED BY <1>1, AlwaysInv, PTL

\* No operation looks at a cell that was freed.
THEOREM WalksAreSafe == Spec => []NoDanglingWalk
<1>1. SymtabInv => NoDanglingWalk
  <2> SUFFICES ASSUME SymtabInv, call.op \notin {"none", "freed"}
               PROVE  ({symbol, prev} \cup next) \ {NULL} \subseteq DOMAIN heap
    BY DEF NoDanglingWalk
  <2>0. TypeOK
    BY DEF SymtabInv
  <2>1. PICK n, order, k : Listed(heap, n, order) /\ Walk(n, order, k)
    BY DEF SymtabInv, ListInv
  <2>2. /\ call.op \in {"size", "free", "lookup", "remove", "fetch", "set"}
        /\ k \in 1..(n + 1) /\ 1 \in 1..(n + 1)
    BY <2>0, <2>1, CallTypes DEF Walk, Listed
  <2>3. symbol = Nth(n, order, k) \/ symbol = Nth(n, order, 1)
    BY <2>1, <2>2 DEF Walk, Seeking, Freeing
  <2>4. symbol # NULL => symbol \in DOMAIN heap
    BY <2>0, <2>1, <2>2, <2>3, NthCell
  <2>5. prev # NULL => prev \in DOMAIN heap
    <3>1. prev # NULL => k # 1 /\ prev = order[k-1]
      BY <2>1, <2>2 DEF Walk
    <3>2. k # 1 => k - 1 \in 1..n
      BY <2>1, <2>2 DEF Listed
    <3> QED BY <2>1, <3>1, <3>2 DEF Listed
  <2>6. ASSUME NEW c \in next, c # NULL PROVE c \in DOMAIN heap
    <3>1. call.op = "free" /\ symbol # NULL /\ c = heap[symbol].next
      BY <2>6 DEF SymtabInv, NextRead
    <3>2. symbol = Nth(n, order, 1)
      BY <2>1, <3>1 DEF Walk, Freeing
    <3>3. Nth(n, order, 1) # NULL
      BY <3>1, <3>2
    <3>4. 1 \in 1..n /\ symbol = order[1] /\ c = Nth(n, order, 1 + 1)
      BY <2>0, <2>1, <2>2, <3>1, <3>2, <3>3, NthCell
    <3>5. 2 \in 1..(n + 1) /\ c = Nth(n, order, 2)
      BY <2>1, <3>4 DEF Listed
    <3>6. Nth(n, order, 2) # NULL
      BY <2>6, <3>5
    <3> QED BY <2>0, <2>1, <3>5, <3>6, NthCell
  <2> QED BY <2>4, <2>5, <2>6
<1> QED BY <1>1, AlwaysInv, PTL

-----------------------------------------------------------------------------
(* The dictionary a set of cells spells.  The list of Symtab implements    *)
(* Dictionary: a step of the list is a step of the dictionary, or changes  *)
(* nothing that a caller sees.                                             *)

Distinct(h) == \A a, b \in DOMAIN h : h[a].name = h[b].name => a = b

TableOf(h) ==
  [n \in {h[a].name : a \in DOMAIN h} |->
     LET a == CHOOSE b \in DOMAIN h : h[b].name = n
     IN h[a].entry]

LEMMA TableDomain ==
  ASSUME NEW h
  PROVE  /\ DOMAIN TableOf(h) = {h[a].name : a \in DOMAIN h}
         /\ TableOf(h) = [m \in DOMAIN TableOf(h) |-> TableOf(h)[m]]
  BY DEF TableOf

\* What a name is bound to is in the one cell that has it.
LEMMA TableAt ==
  ASSUME NEW h, Distinct(h), NEW a \in DOMAIN h
  PROVE  h[a].name \in DOMAIN TableOf(h) /\ TableOf(h)[h[a].name] = h[a].entry
<1>1. h[a].name \in {h[b].name : b \in DOMAIN h}
  OBVIOUS
<1>2. a = CHOOSE b \in DOMAIN h : h[b].name = h[a].name
  BY DEF Distinct
<1>3. TableOf(h)[h[a].name] =
        LET c == CHOOSE b \in DOMAIN h : h[b].name = h[a].name IN h[c].entry
  BY <1>1 DEF TableOf
<1> QED BY <1>1, <1>2, <1>3, TableDomain

\* A map with the names and the entries of the cells is their table.
LEMMA TableIs ==
  ASSUME NEW h, Distinct(h), NEW S, NEW F, F = [m \in S |-> F[m]],
         S = {h[a].name : a \in DOMAIN h},
         \A a \in DOMAIN h : F[h[a].name] = h[a].entry
  PROVE  TableOf(h) = F
<1>1. \A m \in S : TableOf(h)[m] = F[m]
  BY TableAt
<1>2. DOMAIN TableOf(h) = S /\ DOMAIN F = S
  BY TableDomain
<1> QED BY <1>1, <1>2, TableDomain

\* There are as many names as cells.
LEMMA TableCounts ==
  ASSUME NEW h, Distinct(h), NEW n, NEW order, Listed(h, n, order)
  PROVE  Cardinality(DOMAIN TableOf(h)) = n
<1> DEFINE S == {h[a].name : a \in DOMAIN h}
           F == [i \in 1..n |-> h[order[i]].name]
<1>1. n \in Nat /\ order \in [1..n -> DOMAIN h]
  BY DEF Listed
<1>2. F \in [1..n -> S]
  BY <1>1
<1>3. \A i, j \in 1..n : F[i] = F[j] => i = j
  BY <1>1 DEF Listed, Distinct
<1>4. \A m \in S : \E i \in 1..n : F[i] = m
  BY DEF Listed
<1>5. F \in Bijection(1..n, S)
  BY <1>2, <1>3, <1>4, Fun_IsBij
<1>6. ExistsBijection(1..n, S)
  BY <1>5 DEF ExistsBijection
<1> QED BY <1>1, <1>6, FS_CountingElements, TableDomain

-----------------------------------------------------------------------------
(* One step. *)

Gone == Freeing /\ symbol # symtab

LEMMA DictIs ==
  /\ Gone => Dict = [n \in {} |-> n]
  /\ ~Gone => Dict = TableOf(heap)
  BY DEF Dict, Gone, Freeing, TableOf

LEMMA DictNext ==
  /\ Gone' => Dict' = [n \in {} |-> n]
  /\ ~Gone' => Dict' = TableOf(heap')
  BY DEF Dict, Gone, Freeing, TableOf

LEMMA DistinctNames == UniqueNames <=> Distinct(heap)
  BY DEF UniqueNames, Distinct

\* Where the list is unchanged and not being freed, so is the dictionary.
LEMMA Kept ==
  ASSUME ~Freeing, ~Freeing', UNCHANGED heap
  PROVE  Dict = TableOf(heap) /\ Dict' = Dict
  BY DictIs, DictNext DEF Gone

LEMMA CallsRefine ==
  ASSUME SymtabInv, Calls
  PROVE  D!Begin
<1>1. PICK c \in D!Call : Begin(c)
  <2>1. CASE CallSet
    BY <2>1 DEF CallSet, D!Call, Entry, D!Entry
  <2>2. CASE CallLookup
    BY <2>2 DEF CallLookup, D!Call
  <2>3. CASE CallRemove
    BY <2>3 DEF CallRemove, D!Call
  <2>4. CASE CallFetch
    BY <2>4 DEF CallFetch, D!Call
  <2>5. CASE CallSize \/ CallFree
    BY <2>5 DEF CallSize, CallFree, D!Call
  <2> QED BY <2>1, <2>2, <2>3, <2>4, <2>5 DEF Calls
<1>2. call = Idle /\ call' = c /\ symbol' = symtab /\ UNCHANGED <<symtab, heap, result>>
  BY <1>1 DEF Begin
<1>3. ~Gone /\ ~Gone'
  BY <1>2 DEF Gone, Freeing, Idle
<1>4. Dict = TableOf(heap) /\ Dict' = TableOf(heap')
  BY <1>3, DictIs, DictNext
<1> QED BY <1>1, <1>2, <1>4 DEF D!Begin, D!Idle, Idle

\* Where an operation looks for a name: it is bound to the entry of the cell
\* that has it, and not bound if the walk has come to the end of the list.
LEMMA Sought ==
  ASSUME SymtabInv, Seeking
  PROVE  /\ ~Freeing /\ Distinct(heap) /\ Dict = TableOf(heap)
         /\ AtNamed => /\ symbol \in DOMAIN heap /\ heap[symbol].name = call.name
                       /\ D!Bound(call.name) /\ Dict[call.name] = heap[symbol].entry
         /\ symbol = NULL => /\ ~D!Bound(call.name)
                             /\ \A a \in DOMAIN heap : heap[a].name # call.name
<1>1. TypeOK /\ Distinct(heap)
  BY DistinctNames DEF SymtabInv
<1>2. PICK n, order, k : Listed(heap, n, order) /\ Walk(n, order, k)
  BY DEF SymtabInv, ListInv
<1>3. ~Freeing /\ Dict = TableOf(heap)
  BY DictIs DEF Gone, Freeing, Seeking
<1>4. /\ k \in 1..(n + 1) /\ symbol = Nth(n, order, k)
      /\ \A j \in 1..(k - 1) : heap[order[j]].name # call.name
  BY <1>2 DEF Walk
<1>5. ASSUME AtNamed
      PROVE  /\ symbol \in DOMAIN heap /\ heap[symbol].name = call.name
             /\ D!Bound(call.name) /\ Dict[call.name] = heap[symbol].entry
  <2>1. Nth(n, order, k) # NULL /\ heap[symbol].name = call.name
    BY <1>4, <1>5 DEF AtNamed
  <2>2. symbol \in DOMAIN heap
    BY <1>1, <1>2, <1>4, <2>1, NthCell
  <2>3. call.name \in DOMAIN TableOf(heap) /\ TableOf(heap)[call.name] = heap[symbol].entry
    BY <1>1, <2>1, <2>2, TableAt
  <2> QED BY <1>3, <2>1, <2>2, <2>3 DEF D!Bound
<1>6. ASSUME symbol = NULL
      PROVE  /\ ~D!Bound(call.name)
             /\ \A a \in DOMAIN heap : heap[a].name # call.name
  <2>0. Nth(n, order, k) = NULL
    BY <1>4, <1>6
  <2>1. k = n + 1 /\ n \in Nat
    BY <1>1, <1>2, <1>4, <2>0, NthCell DEF Listed
  <2>2. \A j \in 1..n : heap[order[j]].name # call.name
    BY <1>4, <2>1
  <2>3. \A a \in DOMAIN heap : heap[a].name # call.name
    BY <1>2, <2>2 DEF Listed
  <2>4. call.name \notin DOMAIN TableOf(heap)
    <3>1. DOMAIN TableOf(heap) = {heap[a].name : a \in DOMAIN heap}
      BY TableDomain
    <3> QED BY <2>3, <3>1
  <2> QED BY <1>3, <2>3, <2>4 DEF D!Bound
<1> QED BY <1>1, <1>3, <1>5, <1>6

\* Operations that only look.
LEMMA LookupRefines ==
  ASSUME SymtabInv, LookupEnd
  PROVE  D!Lookup
<1>1. call.op = "lookup" /\ call' = Idle /\ UNCHANGED heap /\ Seeking /\ ~Freeing'
  BY DEF LookupEnd, Running, Return, Seeking, Freeing, Idle
<1>2. Dict' = Dict
  BY <1>1, Kept, Sought
<1>3. result' = IF D!Bound(call.name) THEN <<"symbol", Dict[call.name]>> ELSE <<"NULL">>
  <2>1. CASE AtNamed /\ result' = <<"symbol", heap[symbol].entry>>
    BY <1>1, <2>1, Sought
  <2>2. CASE symbol = NULL /\ result' = <<"NULL">>
    BY <1>1, <2>2, Sought
  <2> QED BY <2>1, <2>2 DEF LookupEnd, Return
<1> QED BY <1>1, <1>2, <1>3 DEF D!Lookup, D!Return, D!Idle, Idle

LEMMA FetchRefines ==
  ASSUME SymtabInv, FetchEnd
  PROVE  D!Fetch
<1>1. call.op = "fetch" /\ call' = Idle /\ UNCHANGED heap /\ Seeking /\ ~Freeing'
  BY DEF FetchEnd, Running, Return, Seeking, Freeing, Idle
<1>2. Dict' = Dict
  BY <1>1, Kept, Sought
<1>3. result' = <<"value", IF D!Bound(call.name) THEN Dict[call.name].value ELSE call.value>>
  <2>1. CASE AtNamed /\ result' = <<"value", heap[symbol].entry.value>>
    BY <1>1, <2>1, Sought
  <2>2. CASE symbol = NULL /\ result' = <<"value", call.value>>
    BY <1>1, <2>2, Sought
  <2> QED BY <2>1, <2>2 DEF FetchEnd, Return, Fetched
<1> QED BY <1>1, <1>2, <1>3 DEF D!Fetch, D!Return, D!Idle, Idle

LEMMA SizeRefines ==
  ASSUME SymtabInv, SizeEnd
  PROVE  D!Size
<1>1. /\ call.op = "size" /\ symbol = NULL /\ call' = Idle /\ result' = <<"size", size>>
      /\ UNCHANGED heap /\ ~Freeing /\ ~Freeing'
  BY DEF SizeEnd, Running, Return, Freeing, Idle
<1>2. Dict' = Dict /\ Dict = TableOf(heap)
  BY <1>1, Kept
<1>3. PICK n, order, k : Listed(heap, n, order) /\ Walk(n, order, k)
  BY DEF SymtabInv, ListInv
<1>4. k \in 1..(n + 1) /\ symbol = Nth(n, order, k) /\ size = k - 1 /\ n \in Nat
  BY <1>1, <1>3 DEF Walk, Listed
<1>5. TypeOK /\ Distinct(heap)
  BY DistinctNames DEF SymtabInv
<1>6. k = n + 1
  <2>1. Nth(n, order, k) = NULL
    BY <1>1, <1>4
  <2> QED BY <1>3, <1>4, <1>5, <2>1, NthCell
<1>7. Cardinality(DOMAIN Dict) = size
  BY <1>2, <1>3, <1>4, <1>5, <1>6, TableCounts
<1>8. D!Cardinality(DOMAIN Dict) = Cardinality(DOMAIN Dict)
  BY DEF D!Cardinality, Cardinality
<1> QED BY <1>1, <1>2, <1>7, <1>8 DEF D!Size, D!Return, D!Idle, Idle

\* Operations that change the table.
LEMMA DistinctNext ==
  ASSUME SymtabInv'
  PROVE  Distinct(heap')
  BY DEF SymtabInv, UniqueNames, Distinct

LEMMA SetNewRefines ==
  ASSUME SymtabInv, NEW a \in Addr, SetNew(a)
  PROVE  D!Set
<1>1. /\ call.op = "set" /\ call' = Idle /\ result' = <<"void">> /\ symbol = NULL
      /\ a \notin DOMAIN heap
      /\ heap' = [b \in DOMAIN heap \cup {a} |->
                    IF b = a
                    THEN [name |-> call.name, next |-> symtab, entry |-> call.entry]
                    ELSE heap[b]]
  BY DEF SetNew, Running, Return, NotFound
<1>2. Seeking /\ ~Freeing'
  BY <1>1 DEF Seeking, Freeing, Idle
<1>3. /\ ~D!Bound(call.name) /\ Distinct(heap) /\ Dict = TableOf(heap)
      /\ \A b \in DOMAIN heap : heap[b].name # call.name
  BY <1>1, <1>2, Sought
<1>4. Dict' = TableOf(heap') /\ Distinct(heap')
  BY <1>2, SetNewInv, DistinctNext, DictNext DEF Gone
<1> DEFINE S == DOMAIN Dict \cup {call.name}
           F == [m \in S |-> IF m = call.name THEN call.entry ELSE Dict[m]]
<1>5. DOMAIN Dict = {heap[b].name : b \in DOMAIN heap}
  BY <1>3, TableDomain
<1>6. /\ DOMAIN heap' = DOMAIN heap \cup {a}
      /\ heap'[a].name = call.name /\ heap'[a].entry = call.entry
      /\ \A b \in DOMAIN heap : heap'[b] = heap[b]
  BY <1>1
<1>7. S = {heap'[b].name : b \in DOMAIN heap'}
  BY <1>5, <1>6
<1>8. ASSUME NEW b \in DOMAIN heap' PROVE F[heap'[b].name] = heap'[b].entry
  <2>1. CASE b = a
    BY <1>6, <2>1
  <2>2. CASE b # a
    <3>1. b \in DOMAIN heap /\ heap'[b] = heap[b] /\ heap[b].name # call.name
      BY <1>3, <1>6, <2>2
    <3>2. heap[b].name \in DOMAIN Dict /\ Dict[heap[b].name] = heap[b].entry
      BY <1>3, <3>1, TableAt
    <3> QED BY <3>1, <3>2
  <2> QED BY <2>1, <2>2
<1>9. F = [m \in S |-> F[m]]
  OBVIOUS
<1> HIDE DEF S, F
<1>10. TableOf(heap') = F
  BY <1>4, <1>7, <1>8, <1>9, TableIs
<1>11. F = D!Bind(call.name, call.entry)
  BY DEF F, S, D!Bind
<1> QED BY <1>1, <1>3, <1>4, <1>10, <1>11 DEF D!Set, D!Return, D!Idle, Idle

LEMMA SetFoundRefines ==
  ASSUME SymtabInv, SetFound
  PROVE  D!Set \/ UNCHANGED <<Dict, call, result>>
<1>1. /\ call.op = "set" /\ AtNamed /\ Seeking /\ UNCHANGED <<symtab, symbol>>
  BY DEF SetFound, Running, Seeking
<1>2. /\ symbol \in DOMAIN heap /\ heap[symbol].name = call.name
      /\ D!Bound(call.name) /\ Dict[call.name] = heap[symbol].entry
      /\ Distinct(heap) /\ Dict = TableOf(heap) /\ ~Freeing
  BY <1>1, Sought
<1>3. CASE heap[symbol].entry.type = "SYM_INTERNAL" /\ UNCHANGED <<heap, call, result>>
  <2>1. ~Freeing'
    BY <1>2, <1>3 DEF Freeing
  <2>2. Dict' = Dict
    BY <1>2, <1>3, <2>1, Kept
  <2> QED BY <1>3, <2>2
<1>4. CASE /\ heap[symbol].entry.type = "SYM_VAR" /\ call' = Idle /\ result' = <<"void">>
           /\ heap' = [heap EXCEPT ![symbol].entry = call.entry]
  <2>1. ~Freeing'
    BY <1>4 DEF Freeing, Idle
  <2>2. Dict' = TableOf(heap') /\ Distinct(heap')
    BY <2>1, SetFoundInv, DistinctNext, DictNext DEF Gone
  <2> DEFINE S == DOMAIN Dict \cup {call.name}
             F == [m \in S |-> IF m = call.name THEN call.entry ELSE Dict[m]]
  <2>3. DOMAIN Dict = {heap[b].name : b \in DOMAIN heap}
    BY <1>2, TableDomain
  <2>4. heap[symbol] \in Cell
    BY <1>2 DEF SymtabInv, TypeOK
  <2>5. /\ DOMAIN heap' = DOMAIN heap
        /\ heap'[symbol].name = call.name /\ heap'[symbol].entry = call.entry
        /\ \A b \in DOMAIN heap : b # symbol => heap'[b] = heap[b]
    BY <1>2, <1>4, <2>4 DEF Cell
  <2>6. \A b \in DOMAIN heap : heap'[b].name = heap[b].name
    BY <1>2, <2>5
  <2>7. S = {heap'[b].name : b \in DOMAIN heap'}
    BY <1>2, <2>3, <2>5, <2>6
  <2>8. ASSUME NEW b \in DOMAIN heap' PROVE F[heap'[b].name] = heap'[b].entry
    <3>1. CASE b = symbol
      BY <2>5, <3>1
    <3>2. CASE b # symbol
      <4>1. b \in DOMAIN heap /\ heap'[b] = heap[b] /\ heap[b].name # call.name
        BY <1>2, <2>5, <3>2 DEF Distinct
      <4>2. heap[b].name \in DOMAIN Dict /\ Dict[heap[b].name] = heap[b].entry
        BY <1>2, <4>1, TableAt
      <4> QED BY <4>1, <4>2
    <3> QED BY <3>1, <3>2
  <2>9. F = [m \in S |-> F[m]]
    OBVIOUS
  <2> HIDE DEF S, F
  <2>10. TableOf(heap') = F
    BY <2>2, <2>7, <2>8, <2>9, TableIs
  <2>11. F = D!Bind(call.name, call.entry)
    BY DEF F, S, D!Bind
  <2> QED BY <1>1, <1>2, <1>4, <2>2, <2>10, <2>11 DEF D!Set, D!Return, D!Idle, Idle
<1> QED BY <1>3, <1>4 DEF SetFound, Return, Overwritten

LEMMA RemoveRefines ==
  ASSUME SymtabInv, RemoveEnd
  PROVE  D!Remove
<1>1. /\ call.op = "remove" /\ call' = Idle /\ result' = <<"void">> /\ Seeking /\ ~Freeing'
      /\ UNCHANGED <<symbol, prev, next, size, aborted>>
  BY DEF RemoveEnd, Running, Return, Seeking, Freeing, Idle
<1>2. ~Freeing /\ Distinct(heap) /\ Dict = TableOf(heap)
  BY <1>1, Sought
<1>3. Dict' = TableOf(heap')
  BY <1>1, DictNext DEF Gone
<1>4. DOMAIN Dict = {heap[b].name : b \in DOMAIN heap} /\ Dict = [m \in DOMAIN Dict |-> Dict[m]]
  BY <1>2, TableDomain
<1> DEFINE S == DOMAIN Dict \ {call.name}
           F == [m \in S |-> Dict[m]]
<1>5. CASE /\ AtNamed /\ heap' = Unlinked
           /\ symtab' = IF prev = NULL THEN heap[symbol].next ELSE symtab
  <2>1. symbol \in DOMAIN heap /\ heap[symbol].name = call.name
    BY <1>1, <1>5, Sought
  <2>2. Running("remove")
    BY DEF RemoveEnd
  <2>3. Distinct(heap')
    BY <1>1, <1>5, <2>2, RemoveInv, DistinctNext
  <2>4. \A b \in DOMAIN heap : heap[b] \in Cell
    BY DEF SymtabInv, TypeOK
  <2>5. /\ DOMAIN heap' = DOMAIN heap \ {symbol}
        /\ \A b \in DOMAIN heap' :
             heap'[b] = IF b = prev THEN [heap[b] EXCEPT !.next = heap[symbol].next] ELSE heap[b]
    BY <1>5 DEF Unlinked
  <2>6. \A b \in DOMAIN heap' : heap'[b].name = heap[b].name /\ heap'[b].entry = heap[b].entry
    BY <2>4, <2>5 DEF Cell
  <2>7. \A b \in DOMAIN heap : heap[b].name = call.name <=> b = symbol
    BY <1>2, <2>1 DEF Distinct
  <2>8. S = {heap'[b].name : b \in DOMAIN heap'}
    BY <1>4, <2>5, <2>6, <2>7
  <2>9. ASSUME NEW b \in DOMAIN heap' PROVE F[heap'[b].name] = heap'[b].entry
    <3>1. heap[b].name \in S /\ heap'[b].name = heap[b].name /\ heap'[b].entry = heap[b].entry
      BY <2>6, <2>8, <2>9
    <3>2. Dict[heap[b].name] = heap[b].entry
      BY <1>2, <2>5, TableAt
    <3> QED BY <3>1, <3>2
  <2>10. F = [m \in S |-> F[m]]
    OBVIOUS
  <2> HIDE DEF S, F
  <2>11. TableOf(heap') = F
    BY <2>3, <2>8, <2>9, <2>10, TableIs
  <2> QED BY <1>1, <1>3, <2>11 DEF D!Remove, D!Return, D!Idle, Idle, F, S
<1>6. CASE symbol = NULL /\ UNCHANGED <<heap, symtab>>
  <2>1. ~D!Bound(call.name)
    BY <1>1, <1>6, Sought
  <2>2. S = DOMAIN Dict
    BY <2>1 DEF D!Bound
  <2>3. F = Dict
    BY <1>4, <2>2
  <2>4. Dict' = Dict
    BY <1>2, <1>3, <1>6
  <2> QED BY <1>1, <2>3, <2>4 DEF D!Remove, D!Return, D!Idle, Idle
<1> QED BY <1>5, <1>6 DEF RemoveEnd

\* The table is given up with its first cell, while symtab dangles.
LEMMA FreeCellRefines ==
  ASSUME SymtabInv, FreeCell
  PROVE  D!Drop
<1>1. /\ call.op = "free" /\ UNCHANGED <<call, result, symtab>> /\ symbol # NULL
      /\ symbol' = heap[symbol].next
  BY DEF FreeCell, Running, SymtabInv, NextRead
<1>2. Gone'
  <2>1. Freeing'
    BY <1>1 DEF Freeing
  <2>2. SymtabInv'
    BY FreeInv
  <2>3. TypeOK /\ TypeOK'
    BY <2>2 DEF SymtabInv
  <2>4. PICK n, order, k : Listed(heap, n, order) /\ Walk(n, order, k)
    BY DEF SymtabInv, ListInv
  <2>5. /\ n \in Nat /\ 1 \in 1..(n + 1) /\ symbol = Nth(n, order, 1)
        /\ symbol # symtab => symtab \notin DOMAIN heap \cup {NULL}
    BY <1>1, <2>4 DEF Walk, Freeing, Listed
  <2>6. Nth(n, order, 1) # NULL
    BY <1>1, <2>5
  <2>7. 1 \in 1..n /\ symbol = order[1] /\ heap[symbol].next = Nth(n, order, 1 + 1)
    BY <2>3, <2>4, <2>5, <2>6, NthCell
  <2>8. symbol' = Nth(n, order, 2)
    BY <1>1, <2>7
  <2>9. CASE n = 1
    <3>1. symbol' = NULL
      BY <2>8, <2>9 DEF Nth
    <3>2. symtab # NULL
      BY <1>1, <2>5
    <3> QED BY <1>1, <2>1, <3>1, <3>2 DEF Gone
  <2>10. CASE n # 1
    <3>1. 2 \in 1..n /\ symbol' = order[2]
      BY <2>5, <2>7, <2>8, <2>10 DEF Nth
    <3>2. order[2] # order[1] /\ order[2] \in DOMAIN heap
      BY <2>4, <2>7, <3>1 DEF Listed
    <3>3. symtab # order[2]
      BY <2>5, <2>7, <3>2
    <3> QED BY <1>1, <2>1, <3>1, <3>3 DEF Gone
  <2> QED BY <2>9, <2>10
<1>3. Dict' = [n \in {} |-> n]
  BY <1>2, DictNext
<1> QED BY <1>1, <1>3 DEF D!Drop, D!Empty

LEMMA FreeEndRefines ==
  ASSUME SymtabInv, FreeEnd
  PROVE  D!Freed
<1>1. /\ call.op = "free" /\ call' = [op |-> "freed"] /\ symbol = NULL
      /\ UNCHANGED <<symtab, heap, symbol, result>>
  BY DEF FreeEnd, Running
<1>2. Dict = [m \in {} |-> m]
  <2>1. CASE Gone
    BY <2>1, DictIs
  <2>2. CASE ~Gone
    <3>0. TypeOK
      BY DEF SymtabInv
    <3>1. PICK n, order, k : Listed(heap, n, order) /\ Walk(n, order, k)
      BY DEF SymtabInv, ListInv
    <3>2. n \in Nat /\ 1 \in 1..(n + 1) /\ Nth(n, order, 1) = NULL
      BY <1>1, <3>1 DEF Walk, Freeing, Listed
    <3>3. 1 = n + 1
      BY <3>0, <3>1, <3>2, NthCell
    <3>4. DOMAIN heap = {}
      <4>1. \A i \in 1..n : FALSE
        BY <3>2, <3>3
      <4>2. \A a \in DOMAIN heap : \E i \in 1..n : order[i] = a
        BY <3>1 DEF Listed
      <4> QED BY <4>1, <4>2
    <3>5. DOMAIN TableOf(heap) = {}
      BY <3>4, TableDomain
    <3>6. TableOf(heap) = [m \in {} |-> m]
      BY <3>5, TableDomain
    <3> QED BY <2>2, <3>6, DictIs
  <2> QED BY <2>1, <2>2
<1>3. Gone' <=> Gone
  BY <1>1 DEF Gone, Freeing
<1>4. Dict' = Dict
  BY <1>1, <1>3, DictIs, DictNext
<1> QED BY <1>1, <1>2, <1>4 DEF D!Freed, D!Empty

-----------------------------------------------------------------------------
\* symtab.c offers what symtab.h promises: every operation takes effect in one
\* step, the one that returns, on the map from names to entries, and the steps
\* of its walk are invisible to the caller.
THEOREM Refines == Spec => ImplementsDictionary
<1>1. Init => D!Init
  <2> SUFFICES ASSUME Init PROVE D!Init
    OBVIOUS
  <2>1. DOMAIN heap = {} /\ ~Gone /\ call = Idle /\ result = <<"void">>
    BY DEF Init, Gone, Freeing, Idle
  <2>2. DOMAIN TableOf(heap) = {}
    BY <2>1, TableDomain
  <2>3. TableOf(heap) = [m \in {} |-> m]
    BY <2>2, TableDomain
  <2> QED BY <2>1, <2>3, DictIs DEF D!Init, D!Empty, D!Idle, Idle
<1>2. SymtabInv /\ [Next]_vars => [D!Next]_<<Dict, call, result>>
  <2> SUFFICES ASSUME SymtabInv, [Next]_vars PROVE [D!Next]_<<Dict, call, result>>
    OBVIOUS
  <2>1. CASE Calls
    BY <2>1, CallsRefine DEF D!Next
  <2>2. CASE LookupNext \/ RemoveNext \/ SizeNext
    <3>1. ~Freeing /\ ~Freeing' /\ UNCHANGED <<heap, call, result>>
      BY <2>2 DEF LookupNext, RemoveNext, SizeNext, Running, Freeing
    <3>2. Dict' = Dict
      BY <3>1, Kept
    <3> QED BY <3>1, <3>2
  <2>3. CASE \E a \in Addr : SetNew(a)
    BY <2>3, SetNewRefines DEF D!Next
  <2>4. CASE SetFound
    BY <2>4, SetFoundRefines DEF D!Next
  <2>5. CASE LookupEnd
    BY <2>5, LookupRefines DEF D!Next
  <2>6. CASE FetchEnd
    BY <2>6, FetchRefines DEF D!Next
  <2>7. CASE RemoveEnd
    BY <2>7, RemoveRefines DEF D!Next
  <2>8. CASE SizeEnd
    BY <2>8, SizeRefines DEF D!Next
  <2>9. CASE FreeCell
    BY <2>9, FreeCellRefines DEF D!Next
  <2>12. CASE FreeNext
    <3>1. UNCHANGED <<symtab, heap, call, symbol, result>>
      BY <2>12 DEF FreeNext
    <3>2. Gone' <=> Gone
      BY <3>1 DEF Gone, Freeing
    <3>3. Dict' = Dict
      BY <3>1, <3>2, DictIs, DictNext
    <3> QED BY <3>1, <3>3
  <2>10. CASE FreeEnd
    BY <2>10, FreeEndRefines DEF D!Next
  <2>11. CASE UNCHANGED vars
    <3>1. UNCHANGED <<symtab, heap, call, symbol, result>>
      BY <2>11 DEF vars
    <3>2. Gone' <=> Gone
      BY <3>1 DEF Gone, Freeing
    <3>3. Dict' = Dict
      BY <3>1, <3>2, DictIs, DictNext
    <3> QED BY <3>1, <3>3
  <2> QED BY <2>1, <2>2, <2>3, <2>4, <2>5, <2>6, <2>7, <2>8, <2>9, <2>10, <2>11, <2>12 DEF Next, Step
<1> QED BY <1>1, <1>2, AlwaysInv, PTL DEF Spec, D!Spec, ImplementsDictionary
=============================================================================
