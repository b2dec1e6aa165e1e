------------------------------- MODULE MCShell -------------------------------
EXTENDS Shell

MCLetters == Range(Str("abcdefghijklmnopqrstuvwxyzABCDEFGHIJKLMNOPQRSTUVWXYZ_"))
MCDigits == Str("0123456789")

\* The printable characters of the model in the order of their codes.
Ascii == <<"\n", " ", "\"", "#", "$", "'", "*", "+", "-", ".", "/">> \o MCDigits
         \o Str(":=?ABCDEFGHIJKLMNOPQRSTUVWXYZ_abcdefghijklmnopqrstuvwxyz")
MCCode == [c \in Range(Ascii) |-> PlaceOf(Ascii, c)]

Home == Str("/h")
Work == Str("/w")
MCDirs == {Home, Work}
MCInstalled == {Str("/b/t"), Str("./t"), Str("/b/u")}
MCRunnable == {Str("/b/t"), Str("./t")}
MCFiles == {<<Work, Str(n)>> : n \in {"f", "ab", "ba", ".a"}}

Vars(names) == [k \in DOMAIN names |-> Str(names[k])]
Full == Vars(<<"PATH=/a:/b", "A=b a", "AB=*", "PWD=/w", "SHLVL=1000", "HOME=/h", "E=">>)
NoPath == Vars(<<"B=a", "BA=x", "PWD=/w", "B_=1">>)

(* Lines are put together from words, redirections and commands. *)
Text(quote, s) == [quote |-> quote, var |-> FALSE, text |-> Str(s)]
Var(quote, s) == [quote |-> quote, var |-> TRUE, text |-> Str(s)]
Word(s) == <<Text("", s)>>
Words(ss) == [k \in DOMAIN ss |-> Word(ss[k])]

Redir(fd, type, word) == [fd |-> fd, type |-> type, word |-> Str(word), key |-> 0]
Keyed(list, from) == [k \in DOMAIN list |-> [list[k] EXCEPT !.key = from + k]]
Cmd1(op, words, list, from) ==
    [op |-> op, sub |-> FALSE, outer |-> <<>>, words |-> words, redirs |-> Keyed(list, from)]
Sub1(op, outer, words, list, from) ==
    [op |-> op, sub |-> TRUE, outer |-> Keyed(outer, from), words |-> words,
     redirs |-> Keyed(list, from + 5)]
Line(list, typed, block) == [cmds |-> list, stdin |-> Vars(typed), block |-> block]

Std == [n \in Fd |-> IF n < 3 THEN [type |-> "std", n |-> n] ELSE Closed]
Busy == [n \in Fd |-> CASE n < 3 -> [type |-> "std", n |-> n] [] n = 4 -> Closed
                        [] OTHER -> [type |-> "held", n |-> n]]
Crowded == [n \in Fd |-> IF Std[n] = Closed THEN [type |-> "held", n |-> n] ELSE Std[n]]
Start(variables, table, wraps, list) ==
    [environ |-> variables, fds |-> table, cwd |-> Work, wraps |-> wraps, lines |-> list]

(* Redirections: one command with up to three of them, then an echo. *)
Elements == {Redir(1, "out", "o"), Redir(1, "app", "$A"), Redir(0, "in", "f"),
             Redir(3, "out", "o"), Redir(2, "out", "p"), Redir(0, "here", "e")}
Lists == UNION {[1..n -> Elements] : n \in 0..3}
Tail1 == Cmd1("or", Words(<<"echo", "n">>), <<Redir(1, "out", "q")>>, 20)
Redirecting ==
    {Start(Full, table, FALSE, <<Line(<<c, Tail1>>, <<"*", "e", "y", "e">>, 1)>>) :
        table \in {Std, Busy},
        c \in {Cmd1("first", Words(w), list, 0) :
                  w \in {<<"t">>, <<"echo", "x">>}, list \in Lists}
              \union {Sub1("first", list, Words(<<"t">>), <<Redir(1, "out", "p")>>, 0) :
                          list \in UNION {[1..n -> Elements] : n \in 1..2}}}

(* Documents: of several commands, skipped ones, and one in parentheses. *)
Doc(s) == <<Redir(0, "here", s)>>
Documents ==
    {Start(Full, Std, FALSE,
           <<Line(<<Cmd1("first", Words(<<"t">>), Doc("e"), 0), second>>,
                  <<"$A", "f", "ex", "e", "*", "ee", "f">>, block),
             Line(<<Cmd1("first", <<>>, Doc("f"), 0)>>, <<"z", "f">>, 1)>>) :
        block \in 1..2,
        second \in {Cmd1(op, Words(<<"u">>), Doc(d), 10) : op \in {"and", "or"}, d \in {"f", "ee"}}
                   \union {Sub1("and", Doc("f"), Words(<<"./t">>), Doc("ee"), 10)}}

(* Builtins: up to three in a line. *)
Changes == {<<"export", "A=x">>, <<"export", "B">>, <<"export", "AB=y", "B+=z">>,
            <<"export", "1=a", "BA=w">>, <<"export", "B=a+c">>, <<"unset", "BA", "E">>, <<"unset", "PATH">>, <<"unset", "A">>,
            <<"cd", "/h">>, <<"cd">>, <<"export">>, <<"env">>}
Leaving == {<<"exit">>, <<"exit", "7">>, <<"exit", "1", "2">>, <<"exit", "x">>, <<"pwd">>,
            <<"cd", "/x">>, <<"u">>, <<"t">>}
Building ==
    {Start(variables, Std, wraps,
           <<Line(<<Cmd1("first", Words(a), <<>>, 0), Cmd1("and", Words(b), <<>>, 0),
                    Cmd1("and", Words(c), <<>>, 0)>>, <<>>, 1)>>) :
        variables \in {Full, NoPath, <<>>}, wraps \in BOOLEAN,
        a \in Changes, b \in Changes, c \in {<<"export", "AB=y", "B+=z">>, <<"cd", "/h">>, <<"export">>}}
    \union
    {Start(Full, Std, FALSE,
           <<Line(<<c>>, <<>>, 1), Line(<<Cmd1("first", Words(<<"cd", "/h">>), <<>>, 0)>>, <<>>, 1)>>) :
        c \in {Cmd1("first", Words(w), <<>>, 0) : w \in Leaving}
              \union {Sub1("first", <<>>, Words(w), <<>>, 0) : w \in Leaving \union Changes}}

(* Words: of up to two segments, or three of a few. *)
Segments == {Text("", "a"), Text("", "*"), Text("'", "*"), Text("\"", "a b"), Text("\"", ""),
             Var("", "A"), Var("\"", "A"), Var("", "AB"), Var("'", "A"), Var("", "E"),
             Var("\"", "E"), Var("", "?"), Text("", "-n"), Text("", ".")}
Few == {Text("", "a"), Text("", "*"), Text("\"", "a b"), Var("", "A"), Var("\"", "A"), Var("", "Z")}
Expanding ==
    {Start(Full, Std, FALSE, <<Line(<<Cmd1("first", <<Word("echo"), w>>, <<>>, 0)>>, <<>>, 1)>>) :
        w \in [1..1 -> Segments] \union [1..2 -> Segments] \union [1..3 -> Few]}

(* Words when no descriptor is left to read the directory with. *)
Blind ==
    {Start(Full, Crowded, FALSE,
           <<Line(<<c, Cmd1("or", <<Word("echo"), <<Text("", "a"), Var("", "AB")>>, Word("b")>>, <<>>, 20)>>,
                  <<>>, 1)>>) :
        c \in {Cmd1("first", Words(<<"*">>), <<>>, 0), Sub1("first", <<>>, Words(<<"*", "a*">>), <<>>, 0)}}

MCStarts == Redirecting \union Documents \union Building \union Expanding \union Blind
=============================================================================
