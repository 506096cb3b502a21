------------------------------- MODULE MCLsh -------------------------------
(***************************************************************************)
(* Instances of Lsh.  The default PATH, spelled "PATH", lists /bin and     *)
(* /usr; any other value of PATH is taken for one directory.               *)
(***************************************************************************)
EXTENDS Lsh

AllWords == {"PS1", "PATH", "exit", "cd", "=", "ls", "who", "nosuch", "bad", "x",
             "./a", "/opt", "x=y", "&", "\\"}
Names    == AllWords \ {"=", "/opt", "x=y", "&", "\\"}
InQuotes == {"x=y"}
Paths    == {"./a", "/opt"}
DirsOf   == [w \in AllWords |-> IF w = "PATH" THEN <<"/bin", "/usr">> ELSE <<w>>]

\* ls is in both directories, who and bad only in the second; nosuch in none.
AllFiles == {<<"/bin", "ls">>, <<"/usr", "ls">>, <<"/usr", "who">>,
             <<"/usr", "bad">>, <<"./a">>}
NoExec   == {<<"/usr", "bad">>}

Run(w)    == <<w>>
Set(n, v) == <<n, "=", v>>

Commands == {Run("ls"), Run("who"), Run("nosuch"), Run("bad"), Run("./a")}
Settings == {Set("PATH", "/opt"), Set("x", "ls"), Set("exit", "x"), <<"x", "=">>}
Others   == {<<>>, <<"\\">>, Run("exit"), <<"cd", "/opt">>, <<"ls", "x", "=", "x">>,
             <<"ls", "x=y">>, <<"ls", "&">>}

Piped(seqs)    == {[from |-> "pipe", lines |-> x] : x \in seqs}
FromFile(seqs) == {[from |-> "file", lines |-> x] : x \in seqs}

\* Two lines of every kind, three commands with a change of PATH among them,
\* and scripts in a file, of commands that are there.
AllInputs ==
  Piped(BoundedSeq(Commands \cup Settings \cup Others, 2)
          \cup BoundedSeq({Run("ls"), Run("bad"), Set("PATH", "/opt"), Set("exit", "x")}, 3))
  \cup FromFile(BoundedSeq({Run("ls"), Run("who"), <<>>, Run("exit")}, 3))

\* For the runs on what the program says of itself.
BadInputs   == FromFile(BoundedSeq({Run("nosuch"), Run("ls")}, 3))
PathInputs  == Piped(BoundedSeq({Set("PATH", "./a"), Run("nosuch"), Run("ls")}, 2))
=============================================================================
