---------------------------- MODULE TokenGrammar ----------------------------
(***************************************************************************)
(* What the tokens of a line are, said without a scanner: the reference    *)
(* that MCTokenise holds tokenise_fetch against.  It describes lines with  *)
(* no backslash; what the code does after one is described in Tokenise.    *)
(***************************************************************************)
EXTENDS Tokenise

\* Mode(s)[i] is what character i leaves the reader in: a gap between tokens,
\* a word, or a string opened by the quote named.
Mode(s) ==
  LET m[i \in 0..Len(s)] ==
        IF i = 0 THEN "gap"
        ELSE CASE m[i-1] \in Quotes -> IF s[i] = m[i-1] THEN "gap" ELSE m[i-1]
               [] m[i-1] \notin Quotes /\ (s[i] = "space" \/ Special(s[i])) -> "gap"
               [] m[i-1] = "gap" /\ s[i] \in Quotes -> s[i]
               [] OTHER -> "word"
  IN m

Slice(from, to, type) == [from |-> from, to |-> to, type |-> type]

\* Characters x to y are a maximal run of word characters.
IsWord(s, x, y) ==
  LET m == Mode(s)
  IN /\ x <= y
     /\ \A i \in x..y : m[i] = "word"
     /\ m[x-1] # "word"
     /\ y = Len(s) \/ m[y+1] # "word"

Words(s) == { Slice(p[1], p[2], "T_ARG") :
                p \in {q \in (1..Len(s)) \X (1..Len(s)) : IsWord(s, q[1], q[2])} }

\* Character x is an opening quote; y is its match, or the end of the line.
IsString(s, x, y) ==
  LET m == Mode(s)
  IN /\ x < y
     /\ m[x-1] \notin Quotes /\ m[x] \in Quotes
     /\ \A i \in (x+1)..(y-1) : m[i] # "gap"
     /\ y = Len(s) + 1 \/ m[y] = "gap"

Strings(s) == { Slice(p[1] + 1, p[2] - 1, "T_ARG") :
                  p \in {q \in (1..Len(s)) \X (1..Len(s) + 1) : IsString(s, q[1], q[2])} }

IsOperator(s, x) == Special(s[x]) /\ Mode(s)[x-1] \notin Quotes

Operators(s) == { Slice(x, x, SpecialType(s[x])) : x \in {y \in 1..Len(s) : IsOperator(s, y)} }

GrammarTokens(s) == Words(s) \cup Strings(s) \cup Operators(s)

\* On a line without a backslash the scanner returns exactly the tokens of the
\* grammar (SlicesOrdered gives their order): quotes inside a word, empty and
\* unterminated strings, operators glued to words included.
MatchesGrammar ==
  Done /\ (\A i \in 1..Len(src) : src[i] # "backslash")
    => {tokens[i] : i \in 1..Len(tokens)} = GrammarTokens(src)
=============================================================================
