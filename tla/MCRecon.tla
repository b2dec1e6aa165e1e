------------------------------- MODULE MCRecon -------------------------------
EXTENDS Recon

(* Two domains, of one and of two letters; a block holds three symbols. *)
A == <<"a">>
B == <<"b", "c">>

MCAlnum == {"a", "b", "c", "y"}
MCSymbols ==
    MCAlnum \union {"1", "-", ".", "#", "NL", "n", "t", "u", "x", "z", "$scp", "$target", "none"}

Line(name) == name \o <<"NL">>
Tool == <<"t", "$target", "$scp">>
Other == <<"u">>

Opt(letter) == <<[letter |-> letter, name |-> None]>>
With(letter, name) == Opt(letter) \o <<[letter |-> "", name |-> name]>>

(* Every list of up to two lines, with and without the last newline, with
   comments and empty lines, and none at all. *)
Some == {A, B, <<"#", "a">>, <<>>}
MCDomainFiles ==
    {None, <<>>} \union {Line(d) : d \in Some} \union {Line(d) \o e : d \in Some, e \in Some}
        \union {Line(d) \o Line(e) : d \in Some, e \in Some}
        \union {Line(d) \o Line(e) \o Line(A) : d \in Some, e \in Some}
MCCommandFiles == {None, <<>>, Line(Tool), Line(<<"#">>) \o Line(Other) \o Line(Tool)}

MCArgvs ==
    {<<>>, Opt("p") \o <<[letter |-> "", name |-> <<"1">>]>>,
     Opt("o") \o With("", A) \o Opt("r"), With("u", A), With("u", B) \o Opt("r"),
     With("u", <<"#", "a">>), With("u", <<"a", "-">>), With("u", <<"a", ".", "b", "-", "c">>),
     With("d", A), With("d", B) \o With("u", A), Opt("m") \o Opt("l"),
     Opt("h"), Opt("t"), Opt("u")}
MCTyped == {<<>>, <<"y">>, Line(<<"y">>), Line(<<"y">>) \o <<"y">>, Line(<<"n">>),
            Line(<<"y">>) \o Line(<<"n">>)}
MCFound == {<<"x">>, Line(<<"x">>) \o Line(<<"z">>)}
=============================================================================
