----------------------------- MODULE Dictionary -----------------------------
(***************************************************************************)
(* What assignment1/symtab.h offers its callers: a finite map from names   *)
(* to typed values.  An operation is called, takes effect at once at some  *)
(* moment, and has then returned.  Setting a variable under the name of an *)
(* internal command has no effect described here: it never returns.        *)
(***************************************************************************)
EXTENDS Integers, FiniteSets

CONSTANTS
  Names,
  Values,   \* the strings a SYM_VAR holds
  Funcs     \* the functions a SYM_INTERNAL holds

\* A string in a variable, a function in an internal command.
Entry == [type : {"SYM_VAR"}, value : Values]
           \cup [type : {"SYM_INTERNAL"}, value : Funcs]

Call == [op : {"set"}, name : Names, entry : Entry]
          \cup [op : {"lookup", "remove"}, name : Names]
          \cup [op : {"fetch"}, name : Names, value : Values]
          \cup [op : {"size", "free"}]

VARIABLES
  dict,     \* the entries, by name
  call,     \* the operation called and not yet returned
  result    \* what the last operation returned

Idle  == [op |-> "none"]
Empty == [n \in {} |-> n]

Init == /\ dict = Empty
        /\ call = Idle
        /\ result = <<"void">>

Begin == /\ call = Idle
         /\ call' \in Call
         /\ UNCHANGED <<dict, result>>

Return(op, r) == /\ call.op = op
                 /\ call' = Idle
                 /\ result' = r

Bind(n, e) == [m \in DOMAIN dict \cup {n} |-> IF m = n THEN e ELSE dict[m]]
Bound(n)   == n \in DOMAIN dict

Set ==
  /\ Return("set", <<"void">>)
  /\ Bound(call.name) => dict[call.name].type = "SYM_VAR"
  /\ dict' = Bind(call.name, call.entry)

Remove ==
  /\ Return("remove", <<"void">>)
  /\ dict' = [m \in DOMAIN dict \ {call.name} |-> dict[m]]

Lookup ==
  /\ Return("lookup", IF Bound(call.name) THEN <<"symbol", dict[call.name]>>
                                          ELSE <<"NULL">>)
  /\ UNCHANGED dict

Fetch ==
  /\ Return("fetch", <<"value", IF Bound(call.name) THEN dict[call.name].value
                                                    ELSE call.value>>)
  /\ UNCHANGED dict

Size ==
  /\ Return("size", <<"size", Cardinality(DOMAIN dict)>>)
  /\ UNCHANGED dict

\* The table is dropped, and when that is done no call follows.
Drop ==
  /\ call.op = "free"
  /\ dict' = Empty
  /\ UNCHANGED <<call, result>>

Freed ==
  /\ call.op = "free" /\ dict = Empty
  /\ call' = [op |-> "freed"]
  /\ UNCHANGED <<dict, result>>

Next == Begin \/ Set \/ Remove \/ Lookup \/ Fetch \/ Size \/ Drop \/ Freed

Spec == Init /\ [][Next]_<<dict, call, result>>
=============================================================================
