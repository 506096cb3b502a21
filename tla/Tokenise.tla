------------------------------ MODULE Tokenise ------------------------------
(***************************************************************************)
(* tokenise_fetch() of assignment1/tokenise.c: the loop that cuts a        *)
(* command line into typed tokens.  One action is one iteration of the     *)
(* while loop, taken in one case of its switch.                            *)
(*                                                                         *)
(* A character is abstracted to the class the code tells it apart by, and  *)
(* a token's text to the slice from..to of src that strndup() copies.      *)
(* Positions count from 1, so that Len(src) + 1 is the terminating NUL.    *)
(***************************************************************************)
EXTENDS Integers, Sequences

CONSTANTS
  UserVars,   \* TRUE iff built with -DLSH_ENABLE_USERVARS
  Sources     \* the strings handed to tokenise_fetch

Quotes == {"dquote", "squote"}
Char   == {"plain", "space", "backslash", "semi",
           "pipe", "amp", "lt", "gt", "eq"} \cup Quotes
NUL    == "nul"
NULL   == 0

ASSUME ConstantsOK == /\ UserVars \in BOOLEAN
                      /\ Sources \subseteq Seq(Char)

ttype_t == {"T_UNDEF", "T_ARG", "T_PIPE", "T_BACKGROUND", "T_FROMFILE",
            "T_TOFILE", "T_ASSIGN", "T_ENDSTMT"}
state_t == {"S_START", "S_DQUOTE", "S_SQUOTE", "S_TOKEN", "S_SPECIAL"}

VARIABLES
  src,      \* the argument
  cp,       \* position of the character looked at
  sp,       \* where the token being read starts, or NULL
  ep,       \* position of the escaping backslash, or NULL
  state,
  tokens    \* the tokens cut so far

vars == <<src, cp, sp, ep, state, tokens>>

-----------------------------------------------------------------------------
At(i) == IF i \in 1..Len(src) THEN src[i] ELSE NUL

Special(c) == \/ c \in {"pipe", "amp", "lt", "gt"}
              \/ c = "eq" /\ UserVars

\* Mutant: a special character does not end a word.
TerminalBlank(c) == c \in {NUL, "space"} /\ ep = NULL

Terminal(c) == (c \in {NUL, "space"} \/ Special(c)) /\ ep = NULL

\* Mutant: the inner switch has no case for '='.
SpecialTypeNoAssign(c) ==
  CASE c = "pipe" -> "T_PIPE"
    [] c = "amp"  -> "T_BACKGROUND"
    [] c = "lt"   -> "T_FROMFILE"
    [] c = "gt"   -> "T_TOFILE"
    [] c = "semi" -> "T_ENDSTMT"
    [] OTHER      -> "T_UNDEF"

\* The type the inner switch of case S_SPECIAL gives to a character.
SpecialType(c) ==
  CASE c = "pipe" -> "T_PIPE"
    [] c = "amp"  -> "T_BACKGROUND"
    [] c = "lt"   -> "T_FROMFILE"
    [] c = "gt"   -> "T_TOFILE"
    [] c = "eq" /\ UserVars -> "T_ASSIGN"
    [] c = "semi" -> "T_ENDSTMT"
    [] OTHER      -> "T_UNDEF"

\* Mutant: the increment is not guarded.
AdvanceBlindly(i) == i + 1

\* "if (*cp) { cp++; }", starting from position i.
Advance(i) == IF At(i) # NUL THEN i + 1 ELSE i

\* The state that reads a string opened by the quote q.
InQuotes(q) == IF q = "dquote" THEN "S_DQUOTE" ELSE "S_SQUOTE"

Emit(from, to, type) ==
  tokens' = Append(tokens, [from |-> from, to |-> to, type |-> type])

Running == At(cp) # NUL \/ state # "S_START"
Done    == ~Running

-----------------------------------------------------------------------------
Init == /\ src \in Sources
        /\ cp = 1
        /\ sp = NULL
        /\ ep = NULL
        /\ state = "S_START"
        /\ tokens = <<>>

Starting == state = "S_START" /\ Running

SkipSpace ==
  /\ Starting
  /\ At(cp) = "space"
  /\ cp' = cp + 1
  /\ UNCHANGED <<src, sp, ep, state, tokens>>

Escape ==
  /\ Starting
  /\ At(cp) = "backslash" /\ ep = NULL
  /\ ep' = cp
  /\ cp' = cp + 1
  /\ UNCHANGED <<src, sp, state, tokens>>

OpenQuote ==
  /\ Starting
  /\ At(cp) \in Quotes /\ ep = NULL
  /\ cp' = cp + 1
  /\ sp' = cp + 1
  /\ state' = InQuotes(At(cp))
  /\ UNCHANGED <<src, ep, tokens>>

\* The last two branches of case S_START: any character that none of the
\* branches above takes, a backslash or a quote after an escape included.
BeginToken ==
  /\ Starting
  /\ At(cp) # "space"
  /\ ~(At(cp) \in Quotes \cup {"backslash"} /\ ep = NULL)
  /\ sp' = cp
  /\ cp' = cp + 1
  /\ state' = IF Special(At(cp)) THEN "S_SPECIAL" ELSE "S_TOKEN"
  /\ UNCHANGED <<src, ep, tokens>>

\* Mutant: the end of the line does not end a string.
EndsQuoteMatched(q) == At(cp) = q /\ ep = NULL

EndsQuote(q) == (At(cp) = q /\ ep = NULL) \/ At(cp) = NUL

\* Mutant: strndup() copies one character too many.
CloseQuoteLong(q) ==
  /\ state = InQuotes(q)
  /\ EndsQuote(q)
  /\ Emit(sp, cp, "T_ARG")
  /\ state' = "S_START"
  /\ cp' = Advance(cp)
  /\ UNCHANGED <<src, sp, ep>>

CloseQuote(q) ==
  /\ state = InQuotes(q)
  /\ EndsQuote(q)
  /\ Emit(sp, cp - 1, "T_ARG")
  /\ state' = "S_START"
  /\ cp' = Advance(cp)
  /\ UNCHANGED <<src, sp, ep>>

InQuote(q) ==
  /\ state = InQuotes(q)
  /\ ~EndsQuote(q)
  /\ cp' = Advance(cp)
  /\ UNCHANGED <<src, sp, ep, state, tokens>>

\* Mutant: what ends a word is not pushed back.
EndTokenKept ==
  /\ state = "S_TOKEN"
  /\ Terminal(At(cp))
  /\ Emit(sp, cp - 1, "T_ARG")
  /\ state' = "S_START"
  /\ cp' = Advance(cp)
  /\ UNCHANGED <<src, sp, ep>>

\* A special character that ends a word is pushed back, and the cp++ common
\* to the case then returns to it.
EndToken ==
  LET back == IF Special(At(cp)) /\ cp # 1 THEN cp - 1 ELSE cp
  IN /\ state = "S_TOKEN"
     /\ Terminal(At(cp))
     /\ Emit(sp, cp - 1, "T_ARG")
     /\ state' = "S_START"
     /\ cp' = Advance(back)
     /\ UNCHANGED <<src, sp, ep>>

\* At the terminating NUL this changes nothing: the loop spins.
InToken ==
  /\ state = "S_TOKEN"
  /\ ~Terminal(At(cp))
  /\ cp' = Advance(cp)
  /\ UNCHANGED <<src, sp, ep, state, tokens>>

EndSpecial ==
  /\ state = "S_SPECIAL"
  /\ Emit(sp, sp, SpecialType(At(sp)))
  /\ state' = "S_START"
  /\ UNCHANGED <<src, cp, sp, ep>>

Next == \/ SkipSpace \/ Escape \/ OpenQuote \/ BeginToken
        \/ \E q \in Quotes : CloseQuote(q) \/ InQuote(q)
        \/ EndToken \/ InToken \/ EndSpecial

Spec == Init /\ [][Next]_vars

\* The loop runs on the shell's own thread with nothing to wait for.
FairSpec == Spec /\ WF_vars(Next)

-----------------------------------------------------------------------------
\* Every variable keeps its type; no position ever leaves the string and its
\* terminating NUL, so the scan never reads beyond the line it was given.
TypeOK ==
  /\ src \in Seq(Char)
  /\ cp \in 1..(Len(src) + 1)
  /\ sp \in 0..(Len(src) + 1)
  /\ ep \in 0..Len(src)
  /\ state \in state_t
  /\ tokens \in Seq([from : Nat, to : Nat, type : ttype_t])

\* Where the text not yet given to any token starts.
Frontier == IF state = "S_START" THEN cp ELSE sp

\* The slices are cut from left to right and never overlap, and whatever is
\* being read starts after the last of them: however a word and the special
\* character that ends it are juggled by the push back, no character is
\* delivered twice and argv keeps the order of the line.
SlicesOrdered ==
  /\ \A i \in 1..Len(tokens) :
       /\ 1 <= tokens[i].from
       /\ tokens[i].from <= tokens[i].to + 1
       /\ tokens[i].to < Frontier
  /\ \A i, j \in 1..Len(tokens) : i < j => tokens[i].to < tokens[j].from

Covered(i) == \E k \in 1..Len(tokens) : i \in tokens[k].from .. tokens[k].to

\* Every character already passed is in some token, unless it is white space,
\* a quote or an escaping backslash: the tokeniser drops delimiters only.
NothingLost ==
  \A i \in 1..(Frontier - 1) :
    Covered(i) \/ src[i] \in Quotes \cup {"space", "backslash"}

\* The assertion of tokenise.c:144: a token is never left without a type,
\* whether or not '=' is compiled in as a special character.
AssertTypeDefined == \A i \in 1..Len(tokens) : tokens[i].type # "T_UNDEF"

\* tokenise_fetch returns (tokenise.c:50: "Return a dynamically allocated
\* array of tokens") on every line it is given.
Terminates == <>Done

\* The only way not to return: an escape was met, is never cancelled, and the
\* loop then spins for ever on the NUL at the end of an ordinary token.
TerminatesUnlessEscaped == <>Done \/ <>[](ep # NULL /\ state = "S_TOKEN")
=============================================================================
