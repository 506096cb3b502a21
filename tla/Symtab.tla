------------------------------- MODULE Symtab -------------------------------
(***************************************************************************)
(* assignment1/symtab.c: a symbol table kept as a push down linked list,   *)
(* "Add new entries at the head".  The heap holds the symbol_t cells that  *)
(* are allocated; every iteration of a list walk is a step of its own.     *)
(* A string is the value it spells: strdup() and the freeing of the copies *)
(* are not modelled, except for the free() of a value that is a function.  *)
(***************************************************************************)
EXTENDS Integers, FiniteSets

CONSTANTS
  Names, Values, Funcs,
  Addr,     \* the addresses malloc may return for a symbol_t
  NULL

ASSUME AddrOK == NULL \notin Addr

\* A string in a variable, a function in an internal command.
Entry == [type : {"SYM_VAR"}, value : Values]
           \cup [type : {"SYM_INTERNAL"}, value : Funcs]

VARIABLES
  symtab,   \* the head the caller keeps
  heap,     \* the symbol_t allocated, by address
  call,     \* the operation running and its arguments
  symbol,   \* the cell its walk looks at
  prev,     \* symtab_remove: the cell before it
  next,     \* symtab_free: what it has read of the next cell, if it has: {} or {c}
  size,     \* symtab_size: the cells counted so far
  result,   \* what the last operation returned
  aborted   \* free() was given a pointer malloc never returned

vars == <<symtab, heap, call, symbol, prev, next, size, result, aborted>>

-----------------------------------------------------------------------------
Idle == [op |-> "none"]

Init == /\ symtab = NULL
        /\ heap = [a \in {} |-> a]
        /\ call = Idle
        /\ symbol = NULL
        /\ prev = NULL
        /\ next = {}
        /\ size = 0
        /\ result = <<"void">>
        /\ aborted = FALSE

Running(op) == call.op = op /\ ~aborted

\* Every operation starts its walk at the head of the list.
Begin(c) ==
  /\ call = Idle
  /\ call' = c
  /\ symbol' = symtab
  /\ prev' = NULL
  /\ size' = 0
  /\ UNCHANGED <<symtab, heap, next, result, aborted>>

Return(r) ==
  /\ call' = Idle
  /\ result' = r

CallSet    == \E n \in Names, e \in Entry : Begin([op |-> "set", name |-> n, entry |-> e])
CallLookup == \E n \in Names : Begin([op |-> "lookup", name |-> n])
CallFetch  == \E n \in Names, d \in Values :
                Begin([op |-> "fetch", name |-> n, value |-> d])
CallRemove == \E n \in Names : Begin([op |-> "remove", name |-> n])
CallSize   == Begin([op |-> "size"])
CallFree   == Begin([op |-> "free"])

Calls == CallSet \/ CallLookup \/ CallFetch \/ CallRemove \/ CallSize \/ CallFree

-----------------------------------------------------------------------------
AtNamed  == symbol # NULL /\ heap[symbol].name = call.name
PastName == symbol # NULL /\ heap[symbol].name # call.name

\* Mutant: the walk does not move on.
FollowingStuck == symbol

Following == heap[symbol].next

\* symtab_lookup, also on behalf of symtab_set and symtab_fetch.
LookupNext ==
  /\ Running("set") \/ Running("lookup") \/ Running("fetch")
  /\ PastName
  /\ symbol' = Following
  /\ UNCHANGED <<symtab, heap, call, prev, next, size, result, aborted>>

NotFound == symbol = NULL

\* The value of a new cell is NULL, and is not freed.
SetNew(a) ==
  /\ Running("set")
  /\ NotFound
  /\ a \notin DOMAIN heap
  /\ heap' = [b \in DOMAIN heap \cup {a} |->
                IF b = a
                THEN [name |-> call.name, next |-> symtab, entry |-> call.entry]
                ELSE heap[b]]
  /\ symtab' = a
  /\ Return(<<"void">>)
  /\ UNCHANGED <<symbol, prev, next, size, aborted>>

Overwritten(old) == call.entry

\* The old value is freed whatever its type.
SetFound ==
  /\ Running("set")
  /\ AtNamed
  /\ \/ /\ heap[symbol].entry.type = "SYM_VAR"
        /\ heap' = [heap EXCEPT ![symbol].entry = Overwritten(@)]
        /\ Return(<<"void">>)
        /\ UNCHANGED aborted
     \/ /\ heap[symbol].entry.type = "SYM_INTERNAL"
        /\ aborted' = TRUE
        /\ UNCHANGED <<heap, call, result>>
  /\ UNCHANGED <<symtab, symbol, prev, next, size>>

\* The caller reads the type and the value through the pointer it gets.
LookupEnd ==
  /\ Running("lookup")
  /\ \/ /\ AtNamed
        /\ Return(<<"symbol", heap[symbol].entry>>)
     \/ /\ symbol = NULL
        /\ Return(<<"NULL">>)
  /\ UNCHANGED <<symtab, heap, symbol, prev, next, size, aborted>>

\* Mutant: the branches of the conditional are swapped.
FetchedSwapped == call.value

Fetched == heap[symbol].entry.value

FetchEnd ==
  /\ Running("fetch")
  /\ \/ AtNamed /\ Return(<<"value", Fetched>>)
     \/ symbol = NULL /\ Return(<<"value", call.value>>)
  /\ UNCHANGED <<symtab, heap, symbol, prev, next, size, aborted>>

RemoveNext ==
  /\ Running("remove")
  /\ PastName
  /\ prev' = symbol
  /\ symbol' = Following
  /\ UNCHANGED <<symtab, heap, call, next, size, result, aborted>>

\* Mutant: the previous cell is not linked to the next one.
UnlinkedOnlyHead == [a \in DOMAIN heap \ {symbol} |-> heap[a]]

\* The cells left once symbol is unlinked from prev, or from the head.
Unlinked ==
  [a \in DOMAIN heap \ {symbol} |->
     IF a = prev THEN [heap[a] EXCEPT !.next = heap[symbol].next] ELSE heap[a]]

RemoveEnd ==
  /\ Running("remove")
  /\ \/ /\ AtNamed
        /\ heap' = Unlinked
        /\ symtab' = IF prev = NULL THEN heap[symbol].next ELSE symtab
     \/ /\ symbol = NULL
        /\ UNCHANGED <<heap, symtab>>
  /\ Return(<<"void">>)
  /\ UNCHANGED <<symbol, prev, next, size, aborted>>

SizeNext ==
  /\ Running("size")
  /\ symbol # NULL
  /\ size' = size + 1
  /\ symbol' = Following
  /\ UNCHANGED <<symtab, heap, call, prev, next, result, aborted>>

SizeEnd ==
  /\ Running("size")
  /\ symbol = NULL
  /\ Return(<<"size", size>>)
  /\ UNCHANGED <<symtab, heap, symbol, prev, next, size, aborted>>

WithoutSymbol == [a \in DOMAIN heap \ {symbol} |-> heap[a]]

\* Mutant: the cell is freed first, and next is read from it afterwards.
FreeNextLate ==
  /\ Running("free")
  /\ symbol # NULL /\ next = {}
  /\ heap' = WithoutSymbol
  /\ UNCHANGED <<symtab, call, symbol, prev, next, size, result, aborted>>

\* next is read, and then the cell it was read from is freed.
FreeNext ==
  /\ Running("free")
  /\ symbol # NULL /\ next = {}
  /\ next' = {Following}
  /\ UNCHANGED <<symtab, heap, call, symbol, prev, size, result, aborted>>

FreeCell ==
  /\ Running("free")
  /\ symbol' \in next
  /\ heap' = WithoutSymbol
  /\ next' = {}
  /\ UNCHANGED <<symtab, call, prev, size, result, aborted>>

\* Nothing is returned: the caller's head dangles, and it makes no more calls.
FreeEnd ==
  /\ Running("free")
  /\ symbol = NULL
  /\ call' = [op |-> "freed"]
  /\ UNCHANGED <<symtab, heap, symbol, prev, next, size, result, aborted>>

Step == \/ LookupNext \/ (\E a \in Addr : SetNew(a)) \/ SetFound
        \/ LookupEnd \/ FetchEnd
        \/ RemoveNext \/ RemoveEnd
        \/ SizeNext \/ SizeEnd
        \/ FreeNext \/ FreeCell \/ FreeEnd

Next == Calls \/ Step

Spec == Init /\ [][Next]_vars

\* The caller waits for an operation to return.
FairSpec == Spec /\ WF_vars(Step)

-----------------------------------------------------------------------------
Cell == [name : Names, next : Addr \cup {NULL}, entry : Entry]

CallType ==
  [op : {"none", "size", "free", "freed"}]
    \cup [op : {"lookup", "remove"}, name : Names]
    \cup [op : {"fetch"}, name : Names, value : Values]
    \cup [op : {"set"}, name : Names, entry : Entry]

\* Every variable keeps its type.
TypeOK ==
  /\ symtab \in Addr \cup {NULL}
  /\ DOMAIN heap \subseteq Addr
  /\ \A a \in DOMAIN heap : heap[a] \in Cell
  /\ call \in CallType
  /\ symbol \in Addr \cup {NULL}
  /\ prev \in Addr \cup {NULL}
  /\ next \subseteq Addr \cup {NULL}
  /\ size \in Nat
  /\ aborted \in BOOLEAN

\* A walk never looks at a cell that was freed, neither the one it stands on
\* nor the one it goes to: symtab_free frees the cell it stands on while it
\* goes, and must have read where to go before.
NoDanglingWalk ==
  call.op \notin {"none", "freed"} =>
    ({symbol, prev} \cup next) \ {NULL} \subseteq DOMAIN heap

\* A name is in the table once: symtab_set looks it up over the whole list
\* before it pushes a new cell, however sets and removes follow each other.
UniqueNames ==
  \A a, b \in DOMAIN heap : heap[a].name = heap[b].name => a = b

\* order lists the cells from first to the end of the list, each once.
ListedBy(first, order, cells) ==
  LET n == Cardinality(cells)
  IN /\ \A a \in cells : \E i \in 1..n : order[i] = a
     /\ \A i \in 1..n : /\ order[i] \in cells
                        /\ heap[order[i]].next = IF i = n THEN NULL ELSE order[i+1]
     /\ first = IF n = 0 THEN NULL ELSE order[1]

\* Every allocated cell is on the list, and the list ends: no set or remove
\* loses a cell, links one twice or closes a cycle.  While symtab_free runs,
\* the list that is left starts at symbol, and nothing is left when it ends.
WholeHeapListed ==
  LET n     == Cardinality(DOMAIN heap)
      first == IF call.op \in {"free", "freed"} THEN symbol ELSE symtab
  IN \E order \in [1..n -> DOMAIN heap] : ListedBy(first, order, DOMAIN heap)

\* Between any two steps of any operation the table is a list of well-typed
\* cells, which has every allocated cell and no name twice.
ListSound == TypeOK /\ UniqueNames /\ WholeHeapListed

\* Every operation returns: the walks are over a list that ends.
CallsReturn == call # Idle ~> (call.op \in {"none", "freed"} \/ aborted)

-----------------------------------------------------------------------------
\* The dictionary the list stands for; symtab_free begins by giving it up.
Dict ==
  IF call.op \in {"free", "freed"} /\ symbol # symtab THEN [n \in {} |-> n]
  ELSE [n \in {heap[a].name : a \in DOMAIN heap} |->
          LET a == CHOOSE b \in DOMAIN heap : heap[b].name = n
          IN heap[a].entry]

D == INSTANCE Dictionary WITH dict <- Dict

\* The list implements the dictionary: each operation takes effect at the step
\* that returns, on what was called, and returns what the dictionary holds.
ImplementsDictionary == D!Spec
=============================================================================
