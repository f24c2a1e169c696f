------------------------------- MODULE MCMash -------------------------------
(* Instances of the shell for TLC: the lines the user may type. *)
EXTENDS MashProps

\* A line as typed: words apart, and the newline at its end.
Typed(lines) == {Joined(ws) \o <<Blank>> : ws \in lines}

Simple == {<<"exit">>, <<"ls">>, <<"x">>, <<"x", "y">>,
           <<"cd">>, <<"cd", "dir">>, <<"cd", "y">>}

Pipelines == {<<"ls", "|", "cat">>, <<"cat", "|", "ls">>, <<"x", "|", "y">>,
              <<"ls", "|">>, <<"|", "cat">>, <<"alias", "|", "ls", "|", "cat">>}

\* Texts: none, a program, another alias's name, the alias's own name in front
\* and behind.
Aliases == {<<"alias">>, <<"alias", "y">>, <<"alias", "x", "cat">>,
            <<"alias", "x", "cat", "y">>, <<"alias", "y", "x">>,
            <<"alias", "x", "x", "cat">>, <<"alias", "x", "cat", "x">>}

AllLines == Typed(Simple \cup Pipelines \cup Aliases) \cup {<<Blank>>}

\* They leave room for every translation that ends.
Widths ==
  LET longest == CHOOSE l \in 1 .. MAX_NR_TOKENS :
                   /\ \A line \in AllLines : Len(parse_command(line)) <= l
                   /\ \E line \in AllLines : Len(parse_command(line)) = l
      width[n \in 0 .. MaxAliases] ==
        IF n = 0 THEN longest ELSE width[n - 1] * TextOf(width[n - 1])
  IN  width

ASSUME RoomForAllLines == Lines = AllLines => Room(Widths)

\* The aliases of the example in README.md, and one defined by another.
ReadmeLines == Typed({<<"alias", "xyz", "Hello", "world">>,
                      <<"alias", "world", "Korea">>, <<"alias", "abc", "xyz">>,
                      <<"echo", "xyz">>, <<"echo", "abc">>})
=============================================================================
