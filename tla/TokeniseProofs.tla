--------------------------- MODULE TokeniseProofs ---------------------------
(***************************************************************************)
(* Proofs about tokenise_fetch for every input string, of any length, and  *)
(* for both settings of LSH_ENABLE_USERVARS.                               *)
(***************************************************************************)
EXTENDS TokenGrammar, WellFoundedInduction, TLAPS

Token == [from : Nat, to : Nat, type : ttype_t]

\* How the positions relate while a token is being read: what SlicesOrdered
\* needs to survive the step that emits it.
ReadingInv ==
  /\ state # "S_START" => sp \in 1..cp
  /\ state = "S_TOKEN" => sp < cp
  /\ state = "S_SPECIAL" => sp = cp - 1 /\ Special(At(sp))

ScanInv == TypeOK /\ ReadingInv /\ SlicesOrdered /\ NothingLost /\ AssertTypeDefined

-----------------------------------------------------------------------------
\* A character other than NUL is one of the source.
LEMMA AtInside ==
  ASSUME TypeOK, NEW i \in Nat \ {0}
  PROVE  /\ At(i) # NUL => i \in 1..Len(src) /\ At(i) = src[i] /\ src[i] \in Char
         /\ i \in 1..Len(src) => At(i) = src[i] /\ At(i) # NUL
  <1>0. src \in Seq(Char)
    BY DEF TypeOK
  <1>1. \A j \in 1..Len(src) : src[j] \in Char
    BY <1>0
  <1>2. NUL \notin Char
    BY DEF Char, Quotes, NUL
  <1>3. At(i) = IF i \in 1..Len(src) THEN src[i] ELSE NUL
    BY DEF At
  <1> QED BY <1>1, <1>2, <1>3

\* Only characters of the source are special, and each has a token type.
LEMMA SpecialTyped ==
  ASSUME NEW c, Special(c)
  PROVE  /\ c \notin {NUL, "space"}
         /\ SpecialType(c) \in ttype_t
         /\ SpecialType(c) # "T_UNDEF"
  BY DEF Special, SpecialType, ttype_t, NUL

\* The fields of a token already delivered.
LEMMA TokenFields ==
  ASSUME TypeOK
  PROVE  \A i \in 1..Len(tokens) : tokens[i].to \in Nat /\ tokens[i].from \in Nat
  <1>1. tokens \in Seq(Token)
    BY DEF TypeOK, Token
  <1>2. \A i \in 1..Len(tokens) : tokens[i] \in Token
    BY <1>1
  <1> QED BY <1>2 DEF Token

\* Appending a token that starts after every token so far keeps the slices
\* ordered below any position beyond its end.
LEMMA EmitOrdered ==
  ASSUME TypeOK, SlicesOrdered, AssertTypeDefined,
         NEW from \in 1..(Len(src) + 1), NEW to \in Nat,
         NEW type \in ttype_t \ {"T_UNDEF"},
         Frontier <= from, from <= to + 1, to < Frontier',
         tokens' = Append(tokens, [from |-> from, to |-> to, type |-> type]),
         Frontier \in Nat, Frontier' \in Nat
  PROVE  /\ tokens' \in Seq(Token)
         /\ SlicesOrdered'
         /\ AssertTypeDefined'
  <1> DEFINE t == [from |-> from, to |-> to, type |-> type]
  <1>1. tokens \in Seq(Token) /\ t \in Token
    BY DEF TypeOK, Token
  <1>2. /\ tokens' \in Seq(Token)
        /\ Len(tokens') = Len(tokens) + 1
        /\ \A i \in 1..Len(tokens) : tokens'[i] = tokens[i]
        /\ tokens'[Len(tokens) + 1] = t
    BY <1>1
  <1>3. \A i \in 1..Len(tokens) : tokens[i].to \in Nat /\ tokens[i].from \in Nat
    BY TokenFields
  <1>4. SlicesOrdered'
    <2>1. ASSUME NEW i \in 1..Len(tokens)
          PROVE  /\ tokens[i].to < from /\ tokens[i].to < Frontier'
                 /\ 1 <= tokens[i].from /\ tokens[i].from <= tokens[i].to + 1
      BY <1>3 DEF SlicesOrdered
    <2>2. t.from = from /\ t.to = to
      OBVIOUS
    <2>3. ASSUME NEW i \in 1..Len(tokens')
          PROVE  /\ 1 <= tokens'[i].from /\ tokens'[i].from <= tokens'[i].to + 1
                 /\ tokens'[i].to < Frontier'
      <3> HIDE DEF t
      <3>1. CASE i \in 1..Len(tokens)
        BY <1>2, <2>1, <3>1
      <3>2. CASE i = Len(tokens) + 1
        BY <1>2, <2>2, <3>2
      <3> QED BY <1>2, <3>1, <3>2
    <2>4. ASSUME NEW i \in 1..Len(tokens'), NEW j \in 1..Len(tokens'), i < j
          PROVE  tokens'[i].to < tokens'[j].from
      <3> HIDE DEF t
      <3>1. i \in 1..Len(tokens)
        BY <1>2, <2>4
      <3>2. CASE j \in 1..Len(tokens)
        BY <1>2, <2>4, <3>1, <3>2 DEF SlicesOrdered
      <3>3. CASE j = Len(tokens) + 1
        BY <1>2, <2>1, <2>2, <3>1, <3>3
      <3> QED BY <1>2, <3>2, <3>3
    <2> QED BY <2>3, <2>4 DEF SlicesOrdered
  <1>5. AssertTypeDefined'
    BY <1>1, <1>2 DEF AssertTypeDefined
  <1> QED BY <1>2, <1>4, <1>5

\* Appending a token leaves what was covered covered, and covers the token.
LEMMA EmitCovers ==
  ASSUME TypeOK, NEW from \in Nat, NEW to \in Nat, NEW type \in ttype_t,
         tokens' = Append(tokens, [from |-> from, to |-> to, type |-> type]),
         NEW i \in Int, Covered(i) \/ i \in from..to
  PROVE  Covered(i)'
  <1> DEFINE t == [from |-> from, to |-> to, type |-> type]
  <1>1. tokens \in Seq(Token) /\ t \in Token
    BY DEF TypeOK, Token
  <1>2. /\ Len(tokens') = Len(tokens) + 1
        /\ \A k \in 1..Len(tokens) : tokens'[k] = tokens[k]
        /\ tokens'[Len(tokens) + 1] = t
        /\ Len(tokens) \in Nat
    BY <1>1
  <1>3. CASE Covered(i)
    BY <1>2, <1>3 DEF Covered
  <1>4. CASE i \in from..to
    BY <1>2, <1>4 DEF Covered
  <1> QED BY <1>3, <1>4

-----------------------------------------------------------------------------
LEMMA InitInv == Init => ScanInv
  BY ConstantsOK
  DEF Init, ScanInv, TypeOK, ReadingInv, SlicesOrdered, NothingLost,
      AssertTypeDefined, Frontier, state_t, NULL

\* A step of case S_START delivers nothing: it moves the frontier past one
\* character that is a delimiter, or starts a token at it.
LEMMA StartInv ==
  ASSUME ScanInv, SkipSpace \/ Escape \/ OpenQuote \/ BeginToken
  PROVE  ScanInv'
  <1>0. TypeOK /\ ReadingInv /\ SlicesOrdered /\ NothingLost /\ AssertTypeDefined
    BY DEF ScanInv
  <1>1. /\ src' = src /\ tokens' = tokens /\ cp' = cp + 1
        /\ state = "S_START" /\ At(cp) # NUL
    BY DEF SkipSpace, Escape, OpenQuote, BeginToken, Starting, Running
  <1>2. /\ cp \in 1..Len(src) /\ At(cp) = src[cp] /\ src[cp] \in Char
        /\ Len(src) \in Nat
    BY <1>0, <1>1, AtInside DEF TypeOK
  <1>3. TypeOK'
    BY <1>0, <1>1, <1>2
       DEF TypeOK, SkipSpace, Escape, OpenQuote, BeginToken, InQuotes, state_t
  <1>4. ReadingInv'
    BY <1>0, <1>1, <1>2
       DEF TypeOK, ReadingInv, SkipSpace, Escape, OpenQuote, BeginToken, InQuotes, At
  <1>5. /\ Frontier = cp
        /\ Frontier' \in {cp, cp + 1}
        /\ Frontier' = cp + 1 => src[cp] \in Quotes \cup {"space", "backslash"}
    <2>1. Frontier = cp
      BY <1>1 DEF Frontier
    <2>2. CASE SkipSpace
      BY <1>1, <1>2, <2>1, <2>2 DEF SkipSpace, Frontier
    <2>3. CASE Escape
      BY <1>1, <1>2, <2>1, <2>3 DEF Escape, Frontier
    <2>4. CASE OpenQuote
      BY <1>1, <1>2, <2>1, <2>4 DEF OpenQuote, Frontier, InQuotes
    <2>5. CASE BeginToken
      BY <1>1, <1>2, <2>1, <2>5 DEF BeginToken, Frontier
    <2> QED BY <2>2, <2>3, <2>4, <2>5
  <1>6. SlicesOrdered'
    BY <1>0, <1>1, <1>2, <1>5, TokenFields DEF SlicesOrdered
  <1>7. NothingLost'
    <2> SUFFICES ASSUME NEW i, i \in 1..(Frontier' - 1)
                 PROVE  Covered(i) \/ src[i] \in Quotes \cup {"space", "backslash"}
      BY <1>1 DEF NothingLost, Covered
    <2>1. CASE i < cp
      BY <1>0, <1>2, <1>5, <2>1 DEF NothingLost
    <2>2. CASE i >= cp
      <3>1. CASE Frontier' = cp
        <4>1. i \in 1..(cp - 1)
          BY <3>1
        <4> QED BY <1>2, <2>2, <4>1
      <3>2. CASE Frontier' = cp + 1
        <4>1. i \in 1..((cp + 1) - 1)
          BY <3>2
        <4>2. i = cp
          BY <1>2, <2>2, <4>1
        <4> QED BY <1>5, <3>2, <4>2
      <3> QED BY <1>5, <3>1, <3>2
    <2> QED BY <1>2, <2>1, <2>2
  <1>8. AssertTypeDefined'
    BY <1>0, <1>1 DEF AssertTypeDefined
  <1> QED BY <1>3, <1>4, <1>6, <1>7, <1>8 DEF ScanInv

\* A step that stays inside a string or a word only advances cp.
LEMMA InsideInv ==
  ASSUME ScanInv, InToken \/ \E q \in Quotes : InQuote(q)
  PROVE  ScanInv'
  <1> USE DEF ScanInv
  <1>1. /\ state # "S_START" /\ state # "S_SPECIAL"
        /\ UNCHANGED <<src, sp, ep, state, tokens>>
        /\ cp' = Advance(cp)
    BY DEF InToken, InQuote, InQuotes
  <1>2. cp' \in cp..(Len(src) + 1)
    BY <1>1, AtInside DEF Advance, TypeOK
  <1>3. TypeOK' /\ ReadingInv'
    BY <1>1, <1>2 DEF TypeOK, ReadingInv
  <1>4. SlicesOrdered' /\ NothingLost' /\ AssertTypeDefined'
    BY <1>1 DEF SlicesOrdered, NothingLost, Covered, AssertTypeDefined, Frontier
  <1> QED BY <1>3, <1>4

\* The steps that emit a token: the slice starts at the frontier, and the
\* new frontier lies beyond it, at most one closing quote further.
LEMMA EmitInv ==
  ASSUME ScanInv, EndToken \/ EndSpecial \/ \E q \in Quotes : CloseQuote(q)
  PROVE  ScanInv'
  <1> USE DEF ScanInv
  <1> DEFINE to == IF state = "S_SPECIAL" THEN sp ELSE cp - 1
             type == IF state = "S_SPECIAL" THEN SpecialType(At(sp)) ELSE "T_ARG"
  <1>1. /\ src' = src /\ sp' = sp /\ ep' = ep
        /\ state \in state_t \ {"S_START"} /\ state' = "S_START"
        /\ tokens' = Append(tokens, [from |-> sp, to |-> to, type |-> type])
    BY DEF EndToken, EndSpecial, CloseQuote, InQuotes, Emit, state_t
  <1>2. /\ cp \in 1..(Len(src) + 1) /\ sp \in 1..cp
        /\ Len(src) \in Nat
        /\ Frontier = sp
    BY <1>1 DEF TypeOK, ReadingInv, Frontier
  <1>3. type \in ttype_t \ {"T_UNDEF"}
    BY SpecialTyped DEF ReadingInv, ttype_t
  <1>4. to \in Nat /\ sp <= to + 1 /\ to = cp - 1
    BY <1>1, <1>2 DEF ReadingInv
  <1>5. /\ cp' \in cp..(Len(src) + 1)
        /\ cp' = cp \/ (cp' = cp + 1 /\ cp \in 1..Len(src)
                          /\ src[cp] \in Quotes \cup {"space", "backslash"})
    <2>1. CASE EndSpecial
      BY <2>1, <1>2 DEF EndSpecial
    <2>2. CASE EndToken
      <3>1. CASE Special(At(cp)) /\ cp # 1
        <4>1. cp - 1 \in 1..Len(src)
          BY <1>2, <3>1
        <4>2. At(cp - 1) # NUL
          BY <4>1, AtInside
        <4> QED BY <1>2, <2>2, <3>1, <4>2 DEF EndToken, Advance
      <3>2. CASE ~(Special(At(cp)) /\ cp # 1)
        <4>1. cp # 1
          BY <2>2, <1>2 DEF EndToken, ReadingInv
        <4>2. At(cp) \in {NUL, "space"}
          BY <2>2, <3>2, <4>1 DEF EndToken, Terminal
        <4>3. cp' = Advance(cp)
          BY <2>2, <3>2 DEF EndToken
        <4> QED BY <1>2, <4>2, <4>3, AtInside DEF Advance
      <3> QED BY <3>1, <3>2
    <2>3. ASSUME NEW q \in Quotes, CloseQuote(q)
          PROVE  /\ cp' \in cp..(Len(src) + 1)
                 /\ cp' = cp \/ (cp' = cp + 1 /\ cp \in 1..Len(src)
                                   /\ src[cp] \in Quotes \cup {"space", "backslash"})
      BY <1>2, <2>3, AtInside DEF CloseQuote, EndsQuote, Advance
    <2> QED BY <2>1, <2>2, <2>3
  <1>6. Frontier' = cp'
    BY <1>1 DEF Frontier
  <1>7. /\ tokens' \in Seq(Token)
        /\ SlicesOrdered'
        /\ AssertTypeDefined'
    <2> HIDE DEF to, type
    <2>1. sp \in 1..(Len(src) + 1) /\ to < Frontier' /\ Frontier <= sp
          /\ Frontier \in Nat /\ Frontier' \in Nat
      BY <1>2, <1>4, <1>5, <1>6
    <2> QED BY <1>1, <1>3, <1>4, <2>1, EmitOrdered
  <1>8. TypeOK'
    BY <1>1, <1>2, <1>5, <1>7 DEF TypeOK, Token, state_t
  <1>9. ReadingInv'
    BY <1>1 DEF ReadingInv
  <1>10. NothingLost'
    <2> SUFFICES ASSUME NEW i, i \in 1..(cp' - 1)
                 PROVE  Covered(i)' \/ src[i] \in Quotes \cup {"space", "backslash"}
      BY <1>1, <1>6 DEF NothingLost
    <2> HIDE DEF to, type
    <2>1. CASE i < sp
      <3>1. Covered(i) \/ src[i] \in Quotes \cup {"space", "backslash"}
        BY <1>2, <2>1 DEF NothingLost
      <3> QED BY <1>1, <1>2, <1>3, <1>4, <1>5, <3>1, EmitCovers
    <2>2. CASE i \in sp..to
      BY <1>1, <1>2, <1>3, <1>4, <1>5, <2>2, EmitCovers
    <2>3. CASE i >= cp
      <3>1. CASE cp' = cp
        <4>1. i \in 1..(cp - 1)
          BY <3>1
        <4> QED BY <1>2, <2>3, <4>1
      <3>2. CASE cp' = cp + 1 /\ src[cp] \in Quotes \cup {"space", "backslash"}
        <4>1. i \in 1..((cp + 1) - 1)
          BY <3>2
        <4>2. i = cp
          BY <1>2, <2>3, <4>1
        <4> QED BY <3>2, <4>2
      <3> QED BY <1>5, <3>1, <3>2
    <2> QED BY <1>2, <1>4, <1>5, <2>1, <2>2, <2>3
  <1> QED BY <1>7, <1>8, <1>9, <1>10

LEMMA NextInv == ScanInv /\ [Next]_vars => ScanInv'
  <1> SUFFICES ASSUME ScanInv, [Next]_vars PROVE ScanInv'
    OBVIOUS
  <1>1. CASE SkipSpace \/ Escape \/ OpenQuote \/ BeginToken
    BY <1>1, StartInv
  <1>2. CASE InToken \/ \E q \in Quotes : InQuote(q)
    BY <1>2, InsideInv
  <1>3. CASE EndToken \/ EndSpecial \/ \E q \in Quotes : CloseQuote(q)
    BY <1>3, EmitInv
  <1>4. CASE UNCHANGED vars
    BY <1>4 DEF vars, ScanInv, TypeOK, ReadingInv, SlicesOrdered, NothingLost,
                AssertTypeDefined, Frontier, Covered, At
  <1> QED BY <1>1, <1>2, <1>3, <1>4 DEF Next

LEMMA ScanInvariant == Spec => []ScanInv
  BY InitInv, NextInv, PTL DEF Spec

-----------------------------------------------------------------------------
\* Every variable keeps its type, and no position ever leaves the string.
THEOREM TypeCorrect == Spec => []TypeOK
  <1>1. ScanInv => TypeOK
    BY DEF ScanInv
  <1> QED BY <1>1, ScanInvariant, PTL

\* Tokens are cut left to right and never overlap, for every input.
THEOREM TokensOrdered == Spec => []SlicesOrdered
  <1>1. ScanInv => SlicesOrdered
    BY DEF ScanInv
  <1> QED BY <1>1, ScanInvariant, PTL

\* Only delimiters are dropped from the input, for every input.
THEOREM TokensComplete == Spec => []NothingLost
  <1>1. ScanInv => NothingLost
    BY DEF ScanInv
  <1> QED BY <1>1, ScanInvariant, PTL

\* The assertion on the type of a token never fails, for every input.
THEOREM AssertionHolds == Spec => []AssertTypeDefined
  <1>1. ScanInv => AssertTypeDefined
    BY DEF ScanInv
  <1> QED BY <1>1, ScanInvariant, PTL

-----------------------------------------------------------------------------
(* The grammar: what the modes of a line are, character by character. *)

\* The mode after character c, read in mode p.
StepMode(p, c) ==
  CASE p \in Quotes -> IF c = p THEN "gap" ELSE p
    [] p \notin Quotes /\ (c = "space" \/ Special(c)) -> "gap"
    [] p = "gap" /\ c \in Quotes -> c
    [] OTHER -> "word"

\* What a function that gives the modes of the first n characters satisfies.
Modes(s, f, n) == f = [i \in 0..n |-> IF i = 0 THEN "gap" ELSE StepMode(f[i-1], s[i])]

\* A set of numbers has a least one.
LEMMA Least ==
  ASSUME NEW S \in SUBSET Nat, S # {}
  PROVE  \E x \in S : \A y \in S : x <= y
  <1> DEFINE R == {p \in Nat \X Nat : p[1] < p[2]}
  <1>1. IsWellFoundedOn(R, Nat)
    BY NatLessThanWellFounded DEF OpToRel
  <1>2. PICK x \in S : \A y \in S : <<y, x>> \notin R
    BY <1>1, WFMin
  <1>3. ASSUME NEW y \in S PROVE x <= y
    <2>1. <<y, x>> \notin R /\ x \in Nat /\ y \in Nat
      BY <1>2
    <2>2. y < x => <<y, x>> \in R
      BY <2>1
    <2> HIDE DEF R
    <2> QED BY <2>1, <2>2
  <1> QED BY <1>3

\* The modes are well defined: a shortest line without them would have one
\* character more than a line that has them.
LEMMA ModesExist ==
  ASSUME NEW s, NEW n \in Nat
  PROVE  \E f : Modes(s, f, n)
  <1> DEFINE S == {k \in Nat : ~ \E f : Modes(s, f, k)}
  <1>1. ASSUME S # {} PROVE FALSE
    <2>1. PICK k \in S : \A y \in S : k <= y
      BY <1>1, Least
    <2>2. k \in Nat /\ ~ \E f : Modes(s, f, k)
      OBVIOUS
    <2> HIDE DEF S
    <2>3. CASE k = 0
      <3> DEFINE f == [i \in 0..0 |-> "gap"]
      <3>1. Modes(s, f, 0)
        BY DEF Modes
      <3> QED BY <2>2, <2>3, <3>1
    <2>4. CASE k # 0
      <3>1. k-1 \in Nat /\ k-1 \notin S
        BY <2>1, <2>2, <2>4
      <3>2. PICK g : Modes(s, g, k-1)
        BY <3>1 DEF S
      <3> DEFINE f == [i \in 0..k |-> IF i = k THEN StepMode(g[k-1], s[k]) ELSE g[i]]
      <3>3. /\ DOMAIN g = 0..(k-1) /\ g[0] = "gap"
            /\ \A i \in 1..(k-1) : g[i] = StepMode(g[i-1], s[i])
        BY <3>1, <3>2 DEF Modes
      <3>4. /\ f[0] = "gap"
            /\ \A i \in 1..k : f[i] = StepMode(f[i-1], s[i])
        <4>1. \A i \in 0..(k-1) : f[i] = g[i]
          BY <2>2
        <4>2. f[k] = StepMode(g[k-1], s[k])
          BY <2>2
        <4> HIDE DEF f
        <4>3. f[0] = "gap"
          BY <2>2, <2>4, <3>3, <4>1
        <4>4. ASSUME NEW i \in 1..k PROVE f[i] = StepMode(f[i-1], s[i])
          <5>1. CASE i = k
            <6>1. f[i-1] = g[k-1]
              BY <2>2, <2>4, <4>1, <5>1
            <6> QED BY <4>2, <5>1, <6>1
          <5>2. CASE i # k
            <6>1. f[i] = g[i] /\ f[i-1] = g[i-1] /\ i \in 1..(k-1)
              BY <2>2, <4>1, <5>2
            <6> QED BY <3>3, <6>1
          <5> QED BY <5>1, <5>2
        <4> QED BY <4>3, <4>4
      <3>5. f = [i \in 0..k |-> f[i]]
        OBVIOUS
      <3> HIDE DEF f
      <3>6. \A i \in 0..k : f[i] = IF i = 0 THEN "gap" ELSE StepMode(f[i-1], s[i])
        BY <2>2, <3>4
      <3>7. Modes(s, f, k)
        BY <3>5, <3>6 DEF Modes
      <3> QED BY <2>2, <3>7
    <2> QED BY <2>3, <2>4
  <1> QED BY <1>1

LEMMA ModeFacts ==
  ASSUME NEW s \in Seq(Char)
  PROVE  /\ Mode(s)[0] = "gap"
         /\ \A i \in 1..Len(s) : Mode(s)[i] = StepMode(Mode(s)[i-1], s[i])
  <1>1. Len(s) \in Nat
    OBVIOUS
  <1>2. Mode(s) = CHOOSE f : Modes(s, f, Len(s))
    BY DEF Mode, Modes, StepMode
  <1>3. \E f : Modes(s, f, Len(s))
    BY <1>1, ModesExist
  <1>4. Modes(s, Mode(s), Len(s))
    BY <1>2, <1>3
  <1> QED BY <1>1, <1>4 DEF Modes

-----------------------------------------------------------------------------
(* The scanner and the grammar. *)

M == Mode(src)

\* t is the token of s that starts at character x, its opening quote included.
TokenAt(s, x, t) ==
  \/ \E y \in 1..Len(s) : IsWord(s, x, y) /\ t = Slice(x, y, "T_ARG")
  \/ \E y \in 1..(Len(s) + 1) : IsString(s, x, y) /\ t = Slice(x + 1, y - 1, "T_ARG")
  \/ IsOperator(s, x) /\ t = Slice(x, x, SpecialType(s[x]))

LEMMA TokensAt ==
  ASSUME NEW s, NEW t
  PROVE  t \in GrammarTokens(s) <=> \E x \in 1..Len(s) : TokenAt(s, x, t)
  <1>1. t \in Words(s) <=> \E x \in 1..Len(s) : \E y \in 1..Len(s) :
                              IsWord(s, x, y) /\ t = Slice(x, y, "T_ARG")
    <2>1. ASSUME t \in Words(s)
          PROVE  \E x \in 1..Len(s) : \E y \in 1..Len(s) :
                   IsWord(s, x, y) /\ t = Slice(x, y, "T_ARG")
      <3>1. PICK p \in (1..Len(s)) \X (1..Len(s)) :
              IsWord(s, p[1], p[2]) /\ t = Slice(p[1], p[2], "T_ARG")
        BY <2>1 DEF Words
      <3>2. p[1] \in 1..Len(s) /\ p[2] \in 1..Len(s)
        OBVIOUS
      <3> QED BY <3>1, <3>2
    <2>2. ASSUME NEW x \in 1..Len(s), NEW y \in 1..Len(s),
                 IsWord(s, x, y), t = Slice(x, y, "T_ARG")
          PROVE  t \in Words(s)
      <3>1. PICK p : p = <<x, y>>
        OBVIOUS
      <3>2. p[1] = x /\ p[2] = y /\ p \in (1..Len(s)) \X (1..Len(s))
        BY <3>1
      <3>3. p \in {q \in (1..Len(s)) \X (1..Len(s)) : IsWord(s, q[1], q[2])}
        BY <2>2, <3>2
      <3>4. t = Slice(p[1], p[2], "T_ARG")
        BY <2>2, <3>2
      <3> QED BY <3>3, <3>4 DEF Words
    <2> QED BY <2>1, <2>2
  <1>2. t \in Strings(s) <=> \E x \in 1..Len(s) : \E y \in 1..(Len(s) + 1) :
                                IsString(s, x, y) /\ t = Slice(x + 1, y - 1, "T_ARG")
    <2> DEFINE P == (1..Len(s)) \X (1..Len(s) + 1)
    <2>1. ASSUME t \in Strings(s)
          PROVE  \E x \in 1..Len(s) : \E y \in 1..(Len(s) + 1) :
                   IsString(s, x, y) /\ t = Slice(x + 1, y - 1, "T_ARG")
      <3>1. PICK p \in P : IsString(s, p[1], p[2]) /\ t = Slice(p[1] + 1, p[2] - 1, "T_ARG")
        BY <2>1 DEF Strings
      <3>2. p[1] \in 1..Len(s) /\ p[2] \in 1..(Len(s) + 1)
        OBVIOUS
      <3> QED BY <3>1, <3>2
    <2>2. ASSUME NEW x \in 1..Len(s), NEW y \in 1..(Len(s) + 1),
                 IsString(s, x, y), t = Slice(x + 1, y - 1, "T_ARG")
          PROVE  t \in Strings(s)
      <3>1. PICK p : p = <<x, y>>
        OBVIOUS
      <3>2. p[1] = x /\ p[2] = y /\ p \in P
        BY <3>1
      <3>3. p \in {q \in P : IsString(s, q[1], q[2])}
        BY <2>2, <3>2
      <3>4. t = Slice(p[1] + 1, p[2] - 1, "T_ARG")
        BY <2>2, <3>2
      <3> QED BY <3>3, <3>4 DEF Strings
    <2> QED BY <2>1, <2>2
  <1>3. t \in Operators(s) <=> \E x \in 1..Len(s) :
                                  IsOperator(s, x) /\ t = Slice(x, x, SpecialType(s[x]))
    BY DEF Operators
  <1> QED BY <1>1, <1>2, <1>3 DEF GrammarTokens, TokenAt

Plain == \A i \in 1..Len(src) : src[i] # "backslash"

\* What the state of the scanner says of the modes before cp.
ModeInv ==
  /\ ep = NULL
  /\ state = "S_START" => \/ At(cp) = NUL \/ M[cp-1] = "gap"
                          \/ M[cp-1] = "word" /\ Special(At(cp))
  /\ state = "S_TOKEN" => M[sp-1] = "gap" /\ \A i \in sp..(cp-1) : M[i] = "word"
  /\ state = "S_SPECIAL" => M[sp-1] \in {"gap", "word"}
  /\ \A q \in Quotes : state = InQuotes(q) =>
       /\ sp \in 2..cp /\ M[sp-2] = "gap"
       /\ src[sp-1] = q /\ \A i \in (sp-1)..(cp-1) : M[i] = q

\* Where the text not given to any token starts, an opening quote included.
Uncut == CASE state = "S_START"                -> cp
           [] state \in {"S_TOKEN", "S_SPECIAL"} -> sp
           [] OTHER                             -> sp - 1

\* The tokens cut so far are those of the text before it.
CutInv ==
  \A t : (\E k \in 1..Len(tokens) : tokens[k] = t)
           <=> (\E x \in 1..(Uncut - 1) : TokenAt(src, x, t))

GrammarInv == Plain => ModeInv /\ CutInv

LEMMA QuoteChars ==
  /\ Quotes = {"dquote", "squote"}
  /\ \A q \in Quotes : /\ q \notin {"gap", "word", "space", NUL} /\ ~Special(q)
                       /\ InQuotes(q) \in {"S_DQUOTE", "S_SQUOTE"}
  /\ \A p, q \in Quotes : InQuotes(p) = InQuotes(q) => p = q
  BY DEF Quotes, NUL, Special, InQuotes

\* How a character changes the mode.
LEMMA ModeStep ==
  ASSUME TypeOK, NEW i \in 1..Len(src)
  PROVE  /\ M[i-1] \in Quotes => M[i] = IF src[i] = M[i-1] THEN "gap" ELSE M[i-1]
         /\ M[i-1] \in {"gap", "word"} /\ (src[i] = "space" \/ Special(src[i])) => M[i] = "gap"
         /\ M[i-1] = "gap" /\ src[i] \in Quotes => M[i] = src[i]
         /\ M[i-1] = "gap" /\ src[i] \notin Quotes \cup {"space"} /\ ~Special(src[i])
              => M[i] = "word"
         /\ M[i-1] = "word" /\ src[i] # "space" /\ ~Special(src[i]) => M[i] = "word"
  <1>1. M[i] = StepMode(M[i-1], src[i])
    BY ModeFacts DEF M, TypeOK
  <1>2. PICK p, c : p = M[i-1] /\ c = src[i]
    OBVIOUS
  <1>3. /\ p \in Quotes => StepMode(p, c) = IF c = p THEN "gap" ELSE p
        /\ p \in {"gap", "word"} /\ (c = "space" \/ Special(c)) => StepMode(p, c) = "gap"
        /\ p = "gap" /\ c \in Quotes => StepMode(p, c) = c
        /\ p = "gap" /\ c \notin Quotes \cup {"space"} /\ ~Special(c) => StepMode(p, c) = "word"
        /\ p = "word" /\ c # "space" /\ ~Special(c) => StepMode(p, c) = "word"
    BY QuoteChars DEF StepMode
  <1> QED BY <1>1, <1>2, <1>3

\* Characters at which no token starts.
LEMMA NoTokenAt ==
  ASSUME NEW x \in Nat,
         M[x] # "word" \/ M[x-1] = "word",
         M[x] \notin Quotes \/ M[x-1] \in Quotes,
         ~Special(src[x]) \/ M[x-1] \in Quotes
  PROVE  \A t : ~TokenAt(src, x, t)
  <1>1. \A y \in 1..Len(src) : ~IsWord(src, x, y)
    BY DEF IsWord, M
  <1>2. \A y \in 1..(Len(src) + 1) : ~IsString(src, x, y)
    BY DEF IsString, M
  <1>3. ~IsOperator(src, x)
    BY DEF IsOperator, M
  <1> QED BY <1>1, <1>2, <1>3 DEF TokenAt

\* A word that the scanner has read is a token, and the only one in its text.
LEMMA WordCut ==
  ASSUME TypeOK, sp \in 1..(cp-1), M[sp-1] = "gap", \A i \in sp..(cp-1) : M[i] = "word",
         At(cp) \in {NUL, "space"} \/ Special(At(cp))
  PROVE  /\ \A t : TokenAt(src, sp, t) <=> t = Slice(sp, cp - 1, "T_ARG")
         /\ \A x \in (sp+1)..(cp-1) : \A t : ~TokenAt(src, x, t)
         /\ cp \in 1..Len(src) => M[cp] = "gap"
  <1>1. cp \in 1..(Len(src) + 1) /\ Len(src) \in Nat /\ cp - 1 \in 1..Len(src)
    BY DEF TypeOK
  <1>2. cp \in 1..Len(src) => M[cp] = "gap"
    <2>1. SUFFICES ASSUME cp \in 1..Len(src) PROVE M[cp] = "gap"
      OBVIOUS
    <2>2. M[cp-1] = "word" /\ At(cp) = src[cp] /\ At(cp) # NUL
      BY <1>1, <2>1, AtInside
    <2> QED BY <2>1, <2>2, ModeStep
  <1>3. ASSUME NEW x \in sp..(cp-1)
        PROVE  M[x] = "word" /\ M[x-1] \in {"gap", "word"} /\ ~Special(src[x])
               /\ (x # sp => M[x-1] = "word")
    <2>1. M[x] = "word" /\ x \in 1..Len(src)
      BY <1>1
    <2>2. M[x-1] \in {"gap", "word"} /\ (x # sp => M[x-1] = "word")
      <3>1. CASE x = sp
        BY <3>1
      <3>2. CASE x # sp
        <4>1. x-1 \in sp..(cp-1)
          BY <1>1, <3>2
        <4> QED BY <4>1
      <3> QED BY <3>1, <3>2
    <2>3. ~Special(src[x])
      BY <2>1, <2>2, ModeStep
    <2> QED BY <2>1, <2>2, <2>3
  <1>4. ASSUME NEW x \in (sp+1)..(cp-1) PROVE \A t : ~TokenAt(src, x, t)
    <2>1. x \in sp..(cp-1) /\ x # sp /\ x \in Nat
      BY <1>1
    <2> QED BY <1>3, <2>1, QuoteChars, NoTokenAt
  <1>5. ASSUME NEW y \in 1..Len(src) PROVE IsWord(src, sp, y) <=> y = cp - 1
    <2>1. ASSUME y = cp - 1 PROVE IsWord(src, sp, y)
      BY <1>1, <1>2, <2>1 DEF IsWord, M
    <2>2. ASSUME IsWord(src, sp, y), y < cp - 1 PROVE FALSE
      <3>1. y + 1 \in sp..(cp-1) /\ y # Len(src)
        BY <1>1, <2>2 DEF IsWord
      <3> QED BY <2>2, <3>1 DEF IsWord, M
    <2>3. ASSUME IsWord(src, sp, y), y > cp - 1 PROVE FALSE
      <3>1. cp \in sp..y /\ cp \in 1..Len(src)
        BY <1>1, <2>3
      <3> QED BY <1>2, <2>3, <3>1 DEF IsWord, M
    <2> QED BY <1>1, <2>1, <2>2, <2>3
  <1>6. M[sp] = "word" /\ ~Special(src[sp])
    BY <1>1, <1>3
  <1>7. ASSUME NEW t PROVE TokenAt(src, sp, t) <=> t = Slice(sp, cp - 1, "T_ARG")
    <2>1. \A y \in 1..(Len(src) + 1) : ~IsString(src, sp, y)
      BY <1>6, QuoteChars DEF IsString, M
    <2>2. ~IsOperator(src, sp)
      BY <1>6 DEF IsOperator
    <2> QED BY <1>1, <1>5, <2>1, <2>2 DEF TokenAt
  <1> QED BY <1>2, <1>4, <1>7

\* So is a string, of which the scanner has read the opening quote at sp - 1.
LEMMA StringCut ==
  ASSUME TypeOK, NEW q \in Quotes, sp \in 2..cp, M[sp-2] = "gap", src[sp-1] = q,
         \A i \in (sp-1)..(cp-1) : M[i] = q, At(cp) \in {NUL, q}
  PROVE  /\ \A t : TokenAt(src, sp - 1, t) <=> t = Slice(sp, cp - 1, "T_ARG")
         /\ \A x \in sp..cp : x \in 1..Len(src) => \A t : ~TokenAt(src, x, t)
         /\ cp \in 1..Len(src) => M[cp] = "gap"
  <1>1. cp \in 1..(Len(src) + 1) /\ Len(src) \in Nat /\ cp - 1 \in 1..Len(src)
    BY DEF TypeOK
  <1>2. cp \in 1..Len(src) => M[cp] = "gap"
    <2>1. SUFFICES ASSUME cp \in 1..Len(src) PROVE M[cp] = "gap"
      OBVIOUS
    <2>2. M[cp-1] = q /\ At(cp) = src[cp] /\ At(cp) # NUL
      BY <1>1, <2>1, AtInside
    <2> QED BY <2>1, <2>2, ModeStep
  <1>3. ASSUME NEW x \in sp..cp, x \in 1..Len(src) PROVE \A t : ~TokenAt(src, x, t)
    <2>1. x-1 \in (sp-1)..(cp-1)
      BY <1>1
    <2>2. M[x-1] = q
      BY <2>1
    <2>3. M[x] # "word"
      <3>1. CASE x = cp
        BY <1>2, <1>3, <3>1
      <3>2. CASE x # cp
        <4>1. x \in (sp-1)..(cp-1)
          BY <1>1, <3>2
        <4> QED BY <4>1, QuoteChars
      <3> QED BY <3>1, <3>2
    <2> QED BY <1>3, <2>2, <2>3, NoTokenAt
  <1> DEFINE o == sp - 1
  <1>4. o \in 1..Len(src) /\ o < cp /\ M[o] = q /\ M[o-1] = "gap" /\ src[o] = q
    BY <1>1
  <1>5. ASSUME NEW y \in 1..(Len(src) + 1) PROVE IsString(src, o, y) <=> y = cp
    <2> HIDE DEF o
    <2>1. ASSUME y = cp PROVE IsString(src, o, y)
      <3>1. \A i \in (o+1)..(y-1) : M[i] # "gap"
        <4>1. ASSUME NEW i \in (o+1)..(y-1) PROVE M[i] # "gap"
          <5>1. i \in (sp-1)..(cp-1)
            BY <1>1, <2>1 DEF o
          <5> QED BY <5>1, QuoteChars
        <4> QED BY <4>1
      <3>2. y = Len(src) + 1 \/ M[y] = "gap"
        BY <1>1, <1>2, <2>1
      <3>3. M[o-1] \notin Quotes /\ M[o] \in Quotes /\ o < y
        BY <1>4, <2>1, QuoteChars
      <3> QED BY <3>1, <3>2, <3>3 DEF IsString, M
    <2>2. ASSUME IsString(src, o, y), y < cp PROVE FALSE
      <3>1. o < y /\ (y = Len(src) + 1 \/ M[y] = "gap")
        BY <2>2 DEF IsString, M
      <3>2. y \in (sp-1)..(cp-1) /\ y # Len(src) + 1
        BY <1>1, <2>2, <3>1 DEF o
      <3> QED BY <3>1, <3>2, QuoteChars
    <2>3. ASSUME IsString(src, o, y), y > cp PROVE FALSE
      <3>1. cp \in (o+1)..(y-1) /\ cp \in 1..Len(src)
        BY <1>1, <1>4, <2>3
      <3> QED BY <1>2, <2>3, <3>1 DEF IsString, M
    <2> QED BY <1>1, <2>1, <2>2, <2>3
  <1>6. ASSUME NEW t PROVE TokenAt(src, o, t) <=> t = Slice(sp, cp - 1, "T_ARG")
    <2>1. \A y \in 1..Len(src) : ~IsWord(src, o, y)
      BY <1>4, QuoteChars DEF IsWord, M
    <2>2. ~IsOperator(src, o)
      BY <1>4, QuoteChars DEF IsOperator
    <2>3. o + 1 = sp /\ cp \in 1..(Len(src) + 1)
      BY <1>1
    <2> HIDE DEF o
    <2> QED BY <1>5, <2>1, <2>2, <2>3 DEF TokenAt
  <1> QED BY <1>2, <1>3, <1>6

-----------------------------------------------------------------------------
LEMMA Ranges ==
  ASSUME NEW a \in Nat \ {0}, NEW b \in Nat, a <= b
  PROVE  /\ \A x \in 1..(a - 1) : x \in 1..(b - 1)
         /\ \A x \in 1..(b - 1) : x \in 1..(a - 1) \/ x \in a..(b - 1)
         /\ \A x \in a..(b - 1) : x = a \/ x \in (a + 1)..(b - 1)
         /\ a < b => a \in 1..(b - 1)
  OBVIOUS

LEMMA RangeEnd ==
  ASSUME NEW a \in Nat, NEW b \in Nat, NEW x \in (a+1)..((b+1)-1)
  PROVE  x \in (a+1)..(b-1) \/ x = b
  OBVIOUS

\* Text that holds no token may be passed without cutting any.
LEMMA NothingCut ==
  ASSUME CutInv, UNCHANGED <<src, tokens>>, Uncut \in Nat \ {0}, Uncut' \in Nat, Uncut <= Uncut',
         \A x \in Uncut..(Uncut' - 1) : \A t : ~TokenAt(src, x, t)
  PROVE  CutInv'
  <1> SUFFICES ASSUME NEW t
               PROVE  (\E k \in 1..Len(tokens) : tokens[k] = t)
                        <=> (\E x \in 1..(Uncut' - 1) : TokenAt(src, x, t))
    BY DEF CutInv
  <1>1. (\E x \in 1..(Uncut - 1) : TokenAt(src, x, t))
          <=> (\E x \in 1..(Uncut' - 1) : TokenAt(src, x, t))
    <2>1. PICK a \in Nat \ {0}, b \in Nat : a = Uncut /\ b = Uncut' /\ a <= b
      OBVIOUS
    <2>2. \A x \in 1..(a - 1) : x \in 1..(b - 1)
      BY <2>1, Ranges
    <2>3. \A x \in 1..(b - 1) : x \in 1..(a - 1) \/ x \in a..(b - 1)
      BY <2>1, Ranges
    <2>4. \A x \in a..(b - 1) : ~TokenAt(src, x, t)
      BY <2>1
    <2> QED BY <2>1, <2>2, <2>3, <2>4
  <1> QED BY <1>1 DEF CutInv

\* The text that is passed holds the token that is cut, and no other.
LEMMA OneCut ==
  ASSUME TypeOK, CutInv, src' = src, NEW from \in Nat, NEW to \in Nat, NEW type \in ttype_t,
         Emit(from, to, type), Uncut \in Nat \ {0}, Uncut' \in Nat, Uncut < Uncut',
         \A t : TokenAt(src, Uncut, t) <=> t = Slice(from, to, type),
         \A x \in (Uncut + 1)..(Uncut' - 1) : \A t : ~TokenAt(src, x, t)
  PROVE  CutInv'
  <1> DEFINE e == Slice(from, to, type)
  <1>1. tokens \in Seq(Token) /\ e \in Token /\ tokens' = Append(tokens, e)
    BY DEF TypeOK, Token, Slice, Emit
  <1>2. /\ Len(tokens') = Len(tokens) + 1 /\ Len(tokens) \in Nat
        /\ \A k \in 1..Len(tokens) : tokens'[k] = tokens[k]
        /\ tokens'[Len(tokens) + 1] = e
    BY <1>1
  <1> HIDE DEF e
  <1> SUFFICES ASSUME NEW t
               PROVE  (\E k \in 1..Len(tokens') : tokens'[k] = t)
                        <=> (\E x \in 1..(Uncut' - 1) : TokenAt(src, x, t))
    BY DEF CutInv
  <1>3. (\E k \in 1..Len(tokens') : tokens'[k] = t)
          <=> (t = e \/ \E k \in 1..Len(tokens) : tokens[k] = t)
    <2>1. \A k \in 1..Len(tokens') : k \in 1..Len(tokens) \/ k = Len(tokens) + 1
      BY <1>2
    <2>2. Len(tokens) + 1 \in 1..Len(tokens') /\ \A k \in 1..Len(tokens) : k \in 1..Len(tokens')
      BY <1>2
    <2> QED BY <1>2, <2>1, <2>2
  <1>4. (\E x \in 1..(Uncut' - 1) : TokenAt(src, x, t))
          <=> (TokenAt(src, Uncut, t) \/ \E x \in 1..(Uncut - 1) : TokenAt(src, x, t))
    <2>1. PICK a \in Nat \ {0}, b \in Nat : a = Uncut /\ b = Uncut' /\ a < b
      OBVIOUS
    <2>2. /\ a \in 1..(b - 1) /\ \A x \in 1..(a - 1) : x \in 1..(b - 1)
          /\ \A x \in 1..(b - 1) : x \in 1..(a - 1) \/ x \in a..(b - 1)
          /\ \A x \in a..(b - 1) : x = a \/ x \in (a + 1)..(b - 1)
      <3>1. a \in Nat \ {0} /\ b \in Nat /\ a <= b /\ a < b
        BY <2>1
      <3> QED BY <3>1, Ranges
    <2>3. \A x \in 1..(b - 1) : x \in 1..(a - 1) \/ x = a \/ x \in (a + 1)..(b - 1)
      BY <2>2
    <2>4. \A x \in (a + 1)..(b - 1) : ~TokenAt(src, x, t)
      BY <2>1
    <2> QED BY <2>1, <2>2, <2>3, <2>4
  <1>5. TokenAt(src, Uncut, t) <=> t = e
    BY DEF e
  <1> QED BY <1>3, <1>4, <1>5 DEF CutInv

LEMMA GrammarInit == Init => GrammarInv
  <1> SUFFICES ASSUME Init PROVE ModeInv /\ CutInv
    BY DEF GrammarInv
  <1>1. src \in Seq(Char) /\ cp = 1 /\ state = "S_START" /\ tokens = <<>> /\ ep = NULL
    BY ConstantsOK DEF Init
  <1>2. M[cp-1] = "gap"
    BY <1>1, ModeFacts DEF M
  <1>3. ModeInv
    BY <1>1, <1>2, QuoteChars DEF ModeInv
  <1>4. CutInv
    BY <1>1 DEF CutInv, Uncut
  <1> QED BY <1>3, <1>4

\* Between tokens: white space is passed, or a token starts.
LEMMA GrammarStart ==
  ASSUME ScanInv, Plain, ModeInv, CutInv, SkipSpace \/ Escape \/ OpenQuote \/ BeginToken
  PROVE  ModeInv' /\ CutInv'
  <1>1. /\ TypeOK /\ ReadingInv /\ src' = src /\ tokens' = tokens /\ ep' = ep /\ ep = NULL
        /\ cp' = cp + 1 /\ state = "S_START" /\ At(cp) # NUL /\ M' = M /\ Uncut = cp
    <2>1. src' = src
      BY DEF SkipSpace, Escape, OpenQuote, BeginToken
    <2>2. M' = M
      BY <2>1 DEF M
    <2>3. state = "S_START" /\ At(cp) # NUL
      BY DEF SkipSpace, Escape, OpenQuote, BeginToken, Starting, Running
    <2>4. Uncut = cp
      BY <2>3 DEF Uncut
    <2>5. ep = NULL /\ TypeOK /\ ReadingInv
      BY DEF ModeInv, ScanInv
    <2>6. ep' = ep /\ tokens' = tokens /\ cp' = cp + 1
      <3>1. ~Escape
        <4>1. At(cp) = "backslash" => cp \in 1..Len(src) /\ src[cp] = "backslash"
          <5>1. NUL # "backslash"
            BY DEF NUL
          <5> QED BY <5>1 DEF At
        <4> QED BY <4>1 DEF Plain, Escape
      <3> QED BY <3>1 DEF SkipSpace, OpenQuote, BeginToken
    <2> QED BY <2>1, <2>2, <2>3, <2>4, <2>5, <2>6
  <1>2. /\ cp \in 1..Len(src) /\ At(cp) = src[cp] /\ src[cp] \in Char
        /\ Len(src) \in Nat /\ src[cp] # "backslash"
    BY <1>1, AtInside DEF TypeOK, Plain
  <1>3. M[cp-1] = "gap" \/ (M[cp-1] = "word" /\ Special(src[cp]))
    BY <1>1, <1>2 DEF ModeInv
  <1>4. cp' - 1 = cp /\ (cp + 1) - 1 = cp /\ (cp + 1) - 2 = cp - 1
    BY <1>1, <1>2
  <1>5. CASE SkipSpace
    <2>1. state' = "S_START" /\ src[cp] = "space" /\ Uncut' = cp + 1
      BY <1>1, <1>2, <1>5 DEF SkipSpace, Uncut
    <2>2. ~Special(src[cp]) /\ M[cp] = "gap"
      BY <1>2, <1>3, <2>1, <1>1, SpecialTyped, ModeStep
    <2>3. ModeInv'
      BY <1>1, <1>4, <2>1, <2>2, QuoteChars DEF ModeInv
    <2>4. \A t : ~TokenAt(src, cp, t)
      BY <1>2, <2>2, QuoteChars, NoTokenAt
    <2>5. \A x \in Uncut..(Uncut' - 1) : x = cp
      BY <1>1, <1>2, <2>1
    <2>6. CutInv'
      BY <1>1, <1>2, <2>1, <2>4, <2>5, NothingCut
    <2> QED BY <2>3, <2>6
  <1>6. CASE Escape
    BY <1>2, <1>6 DEF Escape
  <1>7. CASE OpenQuote
    <2>1. PICK q \in Quotes : q = src[cp] /\ state' = InQuotes(q) /\ sp' = cp + 1
      BY <1>2, <1>7 DEF OpenQuote
    <2>2. M[cp-1] = "gap" /\ M[cp] = q
      BY <1>1, <1>2, <1>3, <2>1, QuoteChars, ModeStep
    <2>3. ASSUME NEW p \in Quotes, state' = InQuotes(p)
          PROVE  /\ sp' \in 2..cp' /\ M[sp'-2] = "gap"
                 /\ src[sp'-1] = p /\ \A i \in (sp'-1)..(cp'-1) : M[i] = p
      <3>1. p = q
        BY <2>1, <2>3, QuoteChars
      <3>2. \A i \in cp..cp : i = cp
        BY <1>2
      <3>3. sp' \in 2..cp' /\ sp' - 1 = cp /\ cp' - 1 = cp /\ sp' - 2 = cp - 1
        BY <1>1, <1>2, <2>1
      <3> QED BY <2>1, <2>2, <3>1, <3>2, <3>3
    <2>4. ModeInv'
      BY <1>1, <2>1, <2>3, QuoteChars DEF ModeInv
    <2>5. Uncut' = cp
      BY <1>4, <2>1, QuoteChars DEF Uncut
    <2>6. CutInv'
      BY <1>1, <1>2, <2>5, NothingCut
    <2> QED BY <2>4, <2>6
  <1>8. CASE BeginToken
    <2>1. /\ src[cp] \notin Quotes \cup {"space"} /\ sp' = cp
          /\ state' = IF Special(src[cp]) THEN "S_SPECIAL" ELSE "S_TOKEN"
      BY <1>1, <1>2, <1>8 DEF BeginToken
    <2>2. ~Special(src[cp]) => M[cp-1] = "gap" /\ M[cp] = "word"
      BY <1>1, <1>2, <1>3, <2>1, ModeStep
    <2>3. \A i \in cp..cp : i = cp
      BY <1>2
    <2>4. M[cp-1] \in {"gap", "word"}
      BY <1>3
    <2>5. ModeInv'
      BY <1>1, <1>4, <2>1, <2>2, <2>3, <2>4, QuoteChars DEF ModeInv
    <2>6. Uncut' = cp
      BY <2>1 DEF Uncut
    <2>7. CutInv'
      BY <1>1, <1>2, <2>6, NothingCut
    <2> QED BY <2>5, <2>7
  <1> QED BY <1>5, <1>6, <1>7, <1>8

\* Inside a word or a string: the mode stays.
LEMMA GrammarInside ==
  ASSUME ScanInv, Plain, ModeInv, CutInv, InToken \/ \E q \in Quotes : InQuote(q)
  PROVE  ModeInv' /\ CutInv'
  <1>1. /\ TypeOK /\ ReadingInv /\ UNCHANGED <<src, sp, ep, state, tokens>> /\ ep = NULL
        /\ M' = M /\ Uncut' = Uncut /\ cp' = Advance(cp)
    <2>1. UNCHANGED <<src, sp, ep, state, tokens>> /\ cp' = Advance(cp) /\ state # "S_START"
      BY QuoteChars DEF InToken, InQuote
    <2>2. M' = M /\ Uncut' = Uncut
      BY <2>1 DEF M, Uncut
    <2> QED BY <2>1, <2>2 DEF ScanInv, ModeInv
  <1>2. CutInv'
    BY <1>1 DEF CutInv
  <1>3. At(cp) # NUL
    <2>1. InToken => At(cp) # NUL
      BY <1>1 DEF InToken, Terminal
    <2>2. \A q \in Quotes : InQuote(q) => At(cp) # NUL
      BY DEF InQuote, EndsQuote
    <2> QED BY <2>1, <2>2
  <1>4. /\ cp \in 1..Len(src) /\ At(cp) = src[cp] /\ cp' = cp + 1 /\ cp' - 1 = cp
        /\ Len(src) \in Nat
    BY <1>1, <1>3, AtInside DEF TypeOK, Advance
  <1>5. CASE InToken
    <2>1. state = "S_TOKEN" /\ src[cp] # "space" /\ ~Special(src[cp]) /\ sp \in 1..(cp-1)
      BY <1>1, <1>4, <1>5 DEF InToken, Terminal, ReadingInv
    <2>2. M[sp-1] = "gap" /\ \A i \in sp..(cp-1) : M[i] = "word"
      BY <2>1 DEF ModeInv
    <2>3. M[cp] = "word"
      <3>1. M[cp-1] = "word"
        BY <1>4, <2>1, <2>2
      <3> QED BY <1>1, <1>4, <2>1, <3>1, ModeStep
    <2>4. \A i \in sp..cp : M[i] = "word"
      <3>1. \A i \in sp..cp : i \in sp..(cp-1) \/ i = cp
        BY <1>4, <2>1
      <3> QED BY <2>2, <2>3, <3>1
    <2>5. ModeInv'
      BY <1>1, <1>4, <2>1, <2>2, <2>4, QuoteChars DEF ModeInv
    <2> QED BY <1>2, <2>5
  <1>6. ASSUME NEW q \in Quotes, InQuote(q) PROVE ModeInv' /\ CutInv'
    <2>1. state = InQuotes(q) /\ src[cp] # q
      BY <1>1, <1>4, <1>6 DEF InQuote, EndsQuote
    <2>2. /\ sp \in 2..cp /\ M[sp-2] = "gap" /\ src[sp-1] = q
          /\ \A i \in (sp-1)..(cp-1) : M[i] = q
      BY <2>1 DEF ModeInv
    <2>3. M[cp] = q
      <3>1. M[cp-1] = q
        BY <1>4, <2>2
      <3> QED BY <1>1, <1>4, <2>1, <3>1, ModeStep
    <2>4. \A i \in (sp-1)..cp : M[i] = q
      <3>1. \A i \in (sp-1)..cp : i \in (sp-1)..(cp-1) \/ i = cp
        BY <1>4, <2>2
      <3> QED BY <2>2, <2>3, <3>1
    <2>5. ASSUME NEW p \in Quotes, state' = InQuotes(p)
          PROVE  /\ sp' \in 2..cp' /\ M[sp'-2] = "gap"
                 /\ src[sp'-1] = p /\ \A i \in (sp'-1)..(cp'-1) : M[i] = p
      <3>1. p = q /\ sp' = sp
        BY <1>1, <2>1, <2>5, QuoteChars
      <3>2. sp \in 2..cp'
        BY <1>4, <2>2
      <3> QED BY <1>4, <2>2, <2>4, <3>1, <3>2
    <2>6. ModeInv'
      BY <1>1, <2>1, <2>5, QuoteChars DEF ModeInv
    <2> QED BY <1>2, <2>6
  <1> QED BY <1>5, <1>6

\* The end of a token: it is the one that the grammar has there.
LEMMA GrammarEnd ==
  ASSUME ScanInv, ScanInv', Plain, ModeInv, CutInv,
         EndToken \/ EndSpecial \/ \E q \in Quotes : CloseQuote(q)
  PROVE  ModeInv' /\ CutInv'
  <1>1. /\ TypeOK /\ ReadingInv /\ UNCHANGED <<src, sp, ep>> /\ ep = NULL
        /\ M' = M /\ Uncut' = cp' /\ state' = "S_START"
    BY DEF EndToken, EndSpecial, CloseQuote, ScanInv, M, ModeInv, Uncut
  <1>2. /\ cp \in 1..(Len(src) + 1) /\ Len(src) \in Nat /\ cp' \in 1..(Len(src) + 1)
        /\ sp \in 1..cp
    <2>1. state # "S_START"
      BY QuoteChars DEF EndToken, EndSpecial, CloseQuote
    <2> QED BY <1>1, <2>1 DEF TypeOK, ScanInv, ReadingInv
  <1>3. ASSUME At(cp') = NUL \/ M[cp'-1] = "gap" \/ (M[cp'-1] = "word" /\ Special(At(cp')))
        PROVE  ModeInv'
    <2>1. At(cp') = (At(cp))'
      BY <1>1 DEF At
    <2> QED BY <1>1, <1>3, <2>1, QuoteChars DEF ModeInv
  <1>4. CASE EndToken
    <2>1. /\ state = "S_TOKEN" /\ sp \in 1..(cp-1) /\ Emit(sp, cp - 1, "T_ARG")
          /\ At(cp) \in {NUL, "space"} \/ Special(At(cp))
      BY <1>1, <1>2, <1>4 DEF EndToken, Terminal, ReadingInv
    <2>2. M[sp-1] = "gap" /\ \A i \in sp..(cp-1) : M[i] = "word"
      BY <2>1 DEF ModeInv
    <2>3. /\ \A t : TokenAt(src, sp, t) <=> t = Slice(sp, cp - 1, "T_ARG")
          /\ \A x \in (sp+1)..(cp-1) : \A t : ~TokenAt(src, x, t)
          /\ cp \in 1..Len(src) => M[cp] = "gap"
      BY <1>1, <2>1, <2>2, WordCut
    <2>4. M[cp-1] = "word"
      BY <1>2, <2>1, <2>2
    <2>5. \/ cp' = cp /\ (At(cp) = NUL \/ Special(At(cp)))
          \/ cp' = cp + 1 /\ At(cp) = "space"
      <3>1. CASE Special(At(cp))
        <4>1. At(cp - 1) # NUL
          <5>1. cp - 1 \in 1..Len(src)
            BY <1>2, <2>1
          <5> QED BY <1>1, <5>1, AtInside
        <4>2. cp # 1 /\ (cp - 1) + 1 = cp
          BY <1>2, <2>1
        <4> QED BY <1>4, <3>1, <4>1, <4>2 DEF EndToken, Advance
      <3>2. CASE ~Special(At(cp))
        <4>1. cp' = Advance(cp) /\ At(cp) \in {NUL, "space"}
          BY <1>4, <2>1, <3>2 DEF EndToken
        <4>2. NUL # "space"
          BY DEF NUL
        <4> QED BY <4>1, <4>2 DEF Advance
      <3> QED BY <3>1, <3>2
    <2>6. At(cp) = "space" => cp \in 1..Len(src) /\ src[cp] = "space" /\ M[cp] = "gap"
      <3>1. At(cp) = "space" => At(cp) # NUL
        BY DEF NUL
      <3> QED BY <1>1, <1>2, <2>3, <3>1, AtInside
    <2>7. ModeInv'
      <3>1. CASE cp' = cp /\ (At(cp) = NUL \/ Special(At(cp)))
        BY <1>3, <2>4, <3>1
      <3>2. CASE cp' = cp + 1 /\ At(cp) = "space"
        <4>1. cp' - 1 = cp
          BY <1>2, <3>2
        <4> QED BY <1>3, <2>6, <3>2, <4>1
      <3> QED BY <2>5, <3>1, <3>2
    <2>8. ASSUME NEW x \in (sp+1)..(cp'-1) PROVE \A t : ~TokenAt(src, x, t)
      <3>1. x \in (sp+1)..(cp-1) \/ (x = cp /\ At(cp) = "space")
        <4>1. CASE cp' = cp
          BY <4>1
        <4>2. CASE cp' = cp + 1 /\ At(cp) = "space"
          <5>1. x \in (sp+1)..((cp+1)-1)
            BY <4>2
          <5> QED BY <1>2, <4>2, <5>1, RangeEnd
        <4> QED BY <2>5, <4>1, <4>2
      <3>2. CASE x = cp /\ At(cp) = "space"
        <4>1. M[x] = "gap" /\ ~Special(src[x]) /\ x \in Nat
          BY <1>2, <2>6, <3>2, SpecialTyped
        <4> QED BY <4>1, QuoteChars, NoTokenAt
      <3> QED BY <2>3, <3>1, <3>2
    <2>9. /\ Uncut = sp /\ Uncut \in Nat \ {0} /\ Uncut' \in Nat /\ Uncut < Uncut'
          /\ sp \in Nat /\ cp - 1 \in Nat /\ "T_ARG" \in ttype_t
      BY <1>1, <1>2, <2>1, <2>5 DEF Uncut, ttype_t
    <2>10. CutInv'
      BY <1>1, <2>1, <2>3, <2>8, <2>9, OneCut
    <2> QED BY <2>7, <2>10
  <1>5. CASE EndSpecial
    <2>1. /\ state = "S_SPECIAL" /\ sp = cp - 1 /\ Special(At(sp)) /\ cp' = cp
          /\ Emit(sp, sp, SpecialType(At(sp))) /\ M[sp-1] \in {"gap", "word"}
      BY <1>1, <1>5 DEF EndSpecial, ReadingInv, ModeInv
    <2>2. sp \in 1..Len(src) /\ At(sp) = src[sp] /\ SpecialType(src[sp]) \in ttype_t
      BY <1>1, <1>2, <2>1, AtInside, SpecialTyped
    <2>3. M[sp] = "gap"
      BY <1>1, <2>1, <2>2, ModeStep
    <2>4. ModeInv'
      BY <1>3, <2>1, <2>3
    <2>5. \A t : TokenAt(src, sp, t) <=> t = Slice(sp, sp, SpecialType(src[sp]))
      <3>1. \A y \in 1..Len(src) : ~IsWord(src, sp, y)
        BY <2>2, <2>3 DEF IsWord, M
      <3>2. \A y \in 1..(Len(src) + 1) : ~IsString(src, sp, y)
        BY <2>3, QuoteChars DEF IsString, M
      <3>3. IsOperator(src, sp)
        BY <2>1, <2>2, QuoteChars DEF IsOperator, M
      <3> QED BY <3>1, <3>2, <3>3 DEF TokenAt
    <2>6. /\ Uncut = sp /\ Uncut \in Nat \ {0} /\ Uncut' \in Nat /\ Uncut < Uncut'
          /\ sp \in Nat /\ Uncut' = sp + 1
      BY <1>1, <1>2, <2>1, <2>2 DEF Uncut
    <2>7. \A x \in (Uncut + 1)..(Uncut' - 1) : \A t : ~TokenAt(src, x, t)
      BY <2>6
    <2>8. CutInv'
      BY <1>1, <2>1, <2>2, <2>5, <2>6, <2>7, OneCut
    <2> QED BY <2>4, <2>8
  <1>6. ASSUME NEW q \in Quotes, CloseQuote(q) PROVE ModeInv' /\ CutInv'
    <2>1. /\ state = InQuotes(q) /\ Emit(sp, cp - 1, "T_ARG") /\ At(cp) \in {NUL, q}
          /\ cp' = Advance(cp)
      BY <1>6 DEF CloseQuote, EndsQuote
    <2>2. /\ sp \in 2..cp /\ M[sp-2] = "gap" /\ src[sp-1] = q
          /\ \A i \in (sp-1)..(cp-1) : M[i] = q
      BY <2>1 DEF ModeInv
    <2>3. /\ \A t : TokenAt(src, sp - 1, t) <=> t = Slice(sp, cp - 1, "T_ARG")
          /\ \A x \in sp..cp : x \in 1..Len(src) => \A t : ~TokenAt(src, x, t)
          /\ cp \in 1..Len(src) => M[cp] = "gap"
      BY <1>1, <2>1, <2>2, StringCut
    <2>4. \/ cp' = cp /\ At(cp) = NUL
          \/ cp' = cp + 1 /\ cp \in 1..Len(src)
      BY <1>1, <1>2, <2>1, AtInside DEF Advance
    <2>5. ModeInv'
      <3>1. CASE cp' = cp /\ At(cp) = NUL
        BY <1>3, <3>1
      <3>2. CASE cp' = cp + 1 /\ cp \in 1..Len(src)
        <4>1. cp' - 1 = cp
          BY <1>2, <3>2
        <4> QED BY <1>3, <2>3, <3>2, <4>1
      <3> QED BY <2>4, <3>1, <3>2
    <2>6. /\ Uncut = sp - 1 /\ Uncut \in Nat \ {0} /\ Uncut' \in Nat /\ Uncut < Uncut'
          /\ sp \in Nat /\ cp - 1 \in Nat /\ "T_ARG" \in ttype_t
      BY <1>1, <1>2, <2>1, <2>2, <2>4, QuoteChars DEF Uncut, ttype_t
    <2>7. ASSUME NEW x \in (Uncut + 1)..(Uncut' - 1) PROVE \A t : ~TokenAt(src, x, t)
      <3>1. x \in sp..cp /\ x \in 1..Len(src)
        <4>1. Uncut + 1 = sp
          BY <2>2, <2>6, <1>2
        <4>2. x \in sp..(cp'-1)
          BY <1>1, <4>1
        <4>3. CASE cp' = cp
          <5>1. x \in sp..(cp-1)
            BY <4>2, <4>3
          <5> QED BY <1>2, <5>1
        <4>4. CASE cp' = cp + 1 /\ cp \in 1..Len(src)
          <5>1. x \in sp..((cp+1)-1)
            BY <4>2, <4>4
          <5> QED BY <1>2, <4>4, <5>1
        <4> QED BY <2>4, <4>3, <4>4
      <3> QED BY <2>3, <3>1
    <2>8. CutInv'
      BY <1>1, <2>1, <2>3, <2>6, <2>7, OneCut
    <2> QED BY <2>5, <2>8
  <1> QED BY <1>4, <1>5, <1>6

LEMMA GrammarNext == ScanInv /\ GrammarInv /\ [Next]_vars => GrammarInv'
  <1> SUFFICES ASSUME ScanInv, GrammarInv, [Next]_vars PROVE GrammarInv'
    OBVIOUS
  <1>1. src' = src /\ ScanInv'
    BY NextInv DEF Next, SkipSpace, Escape, OpenQuote, BeginToken, CloseQuote, InQuote, EndToken,
                   InToken, EndSpecial, vars
  <1> SUFFICES ASSUME Plain PROVE ModeInv' /\ CutInv'
    BY <1>1 DEF GrammarInv, Plain
  <1>2. ModeInv /\ CutInv
    BY DEF GrammarInv
  <1>3. CASE SkipSpace \/ Escape \/ OpenQuote \/ BeginToken
    BY <1>2, <1>3, GrammarStart
  <1>4. CASE InToken \/ \E q \in Quotes : InQuote(q)
    BY <1>2, <1>4, GrammarInside
  <1>5. CASE EndToken \/ EndSpecial \/ \E q \in Quotes : CloseQuote(q)
    BY <1>1, <1>2, <1>5, GrammarEnd
  <1>6. CASE UNCHANGED vars
    BY <1>2, <1>6 DEF vars, ModeInv, CutInv, Uncut, M, At
  <1> QED BY <1>3, <1>4, <1>5, <1>6 DEF Next

\* Every line without a backslash, of any length, is cut into exactly the
\* tokens that the grammar gives it (tokenise.c:57-160).
THEOREM CutsByTheGrammar == Spec => []MatchesGrammar
  <1>1. ScanInv /\ GrammarInv => MatchesGrammar
    <2> SUFFICES ASSUME TypeOK, Plain, CutInv, Done
                 PROVE  {tokens[i] : i \in 1..Len(tokens)} = GrammarTokens(src)
      BY DEF ScanInv, GrammarInv, MatchesGrammar, Plain
    <2>1. state = "S_START" /\ At(cp) = NUL
      BY DEF Done, Running
    <2>2. cp = Len(src) + 1 /\ Len(src) \in Nat
      <3>1. cp \in 1..(Len(src) + 1) /\ Len(src) \in Nat
        BY DEF TypeOK
      <3>2. cp \notin 1..Len(src)
        BY <2>1, <3>1, AtInside
      <3> QED BY <3>1, <3>2
    <2>3. Uncut - 1 = Len(src)
      BY <2>1, <2>2 DEF Uncut
    <2>4. ASSUME NEW t
          PROVE  t \in {tokens[i] : i \in 1..Len(tokens)} <=> t \in GrammarTokens(src)
      <3>1. (\E k \in 1..Len(tokens) : tokens[k] = t) <=> t \in GrammarTokens(src)
        BY <2>3, TokensAt DEF CutInv
      <3> QED BY <3>1
    <2> QED BY <2>4
  <1> QED BY <1>1, ScanInvariant, GrammarInit, GrammarNext, PTL DEF Spec
=============================================================================
