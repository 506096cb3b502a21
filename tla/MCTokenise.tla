----------------------------- MODULE MCTokenise -----------------------------
(***************************************************************************)
(* Instances of Tokenise for TLC: every string of at most n characters     *)
(* over an alphabet of classes.                                            *)
(***************************************************************************)
EXTENDS TokenGrammar, SequencesExt

\* Every class the code treats differently, one of each.
AllShort == BoundedSeq({"plain", "space", "backslash", "dquote", "squote",
                        "pipe", "eq"}, 5)

\* The special characters that AllShort leaves out, and ';'.
Operands == BoundedSeq({"plain", "space", "dquote", "amp", "lt", "gt",
                        "eq", "semi"}, 4)

AllLines == AllShort \cup Operands

\* For the run that looks for a line without end.
Tiny == BoundedSeq({"plain", "space", "backslash", "dquote", "pipe"}, 4)
=============================================================================
