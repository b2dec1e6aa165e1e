------------------------------- MODULE Expand -------------------------------
(***************************************************************************)
(* The expansion of the words of a command (src/expanding): quotes are     *)
(* removed, $NAME is replaced, and a word with an asterisk is replaced by  *)
(* the names in the current directory that match it.                       *)
(***************************************************************************)
EXTENDS Environ

----------------------------------------------------------------------------
(* Sorting. *)

\* strcmp(s, t) <= 0
NotAfter(s, t) ==
    \/ \E k \in 1..Min({Len(s), Len(t)}) :
           Take(s, k - 1) = Take(t, k - 1) /\ Code[s[k]] < Code[t[k]]
    \/ Take(t, Len(s)) = s

\* A variant that drops what is left of the second half.
MergeDrops(a, b) ==
    LET merged[p \in (0..Len(a)) \X (0..Len(b))] ==
            LET i == p[1]
                j == p[2]
            IN  IF i = Len(a) THEN <<>>
                ELSE IF j = Len(b) THEN Drop(a, i)
                ELSE IF NotAfter(a[i + 1], b[j + 1]) THEN <<a[i + 1]>> \o merged[<<i + 1, j>>]
                ELSE <<b[j + 1]>> \o merged[<<i, j + 1>>]
    IN  merged[<<0, 0>>]

\* Two sorted halves are merged, what one of them has left comes last:
\* merged[<<i, j>>] is what becomes of all but the first i and j elements.
Merge(a, b) ==
    LET merged[p \in (0..Len(a)) \X (0..Len(b))] ==
            LET i == p[1]
                j == p[2]
            IN  IF i = Len(a) THEN Drop(b, j)
                ELSE IF j = Len(b) THEN Drop(a, i)
                ELSE IF NotAfter(a[i + 1], b[j + 1]) THEN <<a[i + 1]>> \o merged[<<i + 1, j>>]
                ELSE <<b[j + 1]>> \o merged[<<i, j + 1>>]
    IN  merged[<<0, 0>>]

\* Of n elements the left half is the larger one if they differ.
LeftHalf(n) == (n + 1) \div 2

\* sorted[<<i, j>>] is what becomes of the elements behind the i-th, to the j-th.
MergeSort(s) ==
    LET sorted[p \in (0..Len(s)) \X (0..Len(s))] ==
            LET i == p[1]
                j == p[2]
                half == i + LeftHalf(j - i)
            IN  IF j - i < 2 THEN SubSeq(s, i + 1, j)
                ELSE Merge(sorted[<<i, half>>], sorted[<<half, j>>])
    IN  sorted[<<0, Len(s)>>]

\* What `export` lists: all entries, sorted, but a hidden path.
SortExport(ctx) ==
    LET list == MergeSort(ctx.env)
    IN  At(list, {k \in DOMAIN list : ~Hidden(ctx, list[k])})

----------------------------------------------------------------------------
(* Names that match a pattern. *)

\* An asterisk tries every rest of the name that is not empty; `?` is any
\* character.  match[<<i, j>>] is for all but the first i characters of the
\* pattern and the first j of the name.
MatchWildcard(p, f) ==
    LET match[q \in (0..Len(p)) \X (0..Len(f))] ==
            LET i == q[1]
                j == q[2]
            IN  IF i = Len(p) THEN j = Len(f)
                ELSE IF p[i + 1] = "*"
                THEN \/ \A k \in (i + 1)..Len(p) : p[k] = "*"
                     \/ \E k \in j..(Len(f) - 1) : match[<<i + 1, k>>]
                ELSE j < Len(f) /\ p[i + 1] \in {"?", f[j + 1]} /\ match[<<i + 1, j + 1>>]
    IN  match[<<0, 0>>]

\* A name that begins with a dot only matches a pattern that does.
Listed(p, f) == MatchWildcard(p, f) /\ (p[1] = "." \/ Take(f, 1) # <<".">>)

\* All names of the directory that match, sorted, or the pattern itself.
ExpandWildcard(p, names) ==
    LET found == {f \in names : Listed(p, f)}
    IN  IF found = {} THEN <<p>> ELSE MergeSort(SetToSeq(found))

\* The word is cut at blanks, also at those that were quoted.  A directory
\* has names, were it only for "." and "..": that there are none stands for
\* one that does not open, and the word ends in front of its first wildcard.
ExpandAsterisk(word, names) ==
    LET parts == Split(word, " ")
        lost == {k \in DOMAIN parts : names = {} /\ Holds(parts[k], "*")}
        Reached(k) == \A j \in lost : k < j
    IN  FlattenSeq([k \in DOMAIN parts |->
            IF ~Reached(k) THEN <<>>
            ELSE IF Holds(parts[k], "*") THEN ExpandWildcard(parts[k], names)
            ELSE <<parts[k]>>])

----------------------------------------------------------------------------
(* One word: the loop of expand_arg_list over its characters.  The state    *)
(* is a record of list, the words finished; join, the word being built, or  *)
(* Null; quote, the quote it is in, or ""; star, whether an asterisk has    *)
(* been seen; skip, how many characters belong to a name already replaced. *)

ValidChar(c) == c \in Letters \/ Holds(Digits, c) \/ c = "?"
StartsName(c) == c \in Letters \/ c = "?"

\* ft_strjoin_free, which takes NULL for nothing.
Join(s, t) == CASE t = Null -> s [] s = Null -> t [] OTHER -> s \o t

\* The name behind a dollar at k: all valid characters that follow.
ExtractDollar(w, k) ==
    SubSeq(w, k + 1, Max({j \in k..Len(w) : \A n \in (k + 1)..j : ValidChar(w[n])}))

ValueOf(name, ctx, last) ==
    IF name = <<"?">> THEN Itoa(last) ELSE GetValue(name, ctx.env)

Blank(s) == Holds(s, " ") \/ Holds(s, "\t")

\* A value with blanks: the word so far and the value are cut at blanks.  The
\* last part goes on to be the word unless a blank follows it, in which case
\* it is added too and the word stays as it was, with the value.
SplitAndAdd(st, value) ==
    LET join == Join(st.join, value)
        parts == Split(join, " ")
        trailing == value[Len(value)] \in {" ", "\t"}
    IN  IF trailing \/ parts = <<>>
        THEN [st EXCEPT !.join = join, !.list = @ \o parts]
        ELSE [st EXCEPT !.join = Last(parts), !.list = @ \o Front(parts)]

\* A variant that splits in double quotes too.
HandleDollarSplits(st, w, k, ctx, last) ==
    LET name == ExtractDollar(w, k)
        value == ValueOf(name, ctx, last)
        st1 == [st EXCEPT !.skip = Len(name)]
    IN  IF value # Null /\ Blank(value) THEN SplitAndAdd(st1, value)
        ELSE [st1 EXCEPT !.join = Join(@, value)]

HandleDollar(st, w, k, ctx, last) ==
    LET name == ExtractDollar(w, k)
        found == ValueOf(name, ctx, last)
        value == IF found = Null /\ st.quote = "\"" THEN <<>> ELSE found
        star == value # Null /\ ~Holds(value, "\"") /\ Holds(value, "*")
        st1 == [st EXCEPT !.skip = Len(name), !.star = @ \/ star]
    IN  IF value # Null /\ st.quote # "\"" /\ Blank(value) THEN SplitAndAdd(st1, value)
        ELSE [st1 EXCEPT !.join = Join(@, value)]

\* A quote that opens makes the word, if only an empty one.
HandleQuote(st, c) ==
    IF st.quote = c THEN [st EXCEPT !.quote = ""]
    ELSE [st EXCEPT !.quote = c, !.join = Join(@, <<>>)]

ExpandChar(st, w, k, ctx, last) ==
    LET c == w[k]
        isQuote == \/ c = "\"" /\ st.quote # "'"
                   \/ c = "'" /\ st.quote # "\""
        isName == k < Len(w) /\ StartsName(w[k + 1])
    IN  IF st.skip > 0 THEN [st EXCEPT !.skip = @ - 1]
        ELSE IF isQuote THEN HandleQuote(st, c)
        ELSE IF c = "$" /\ isName /\ st.quote # "'" THEN HandleDollar(st, w, k, ctx, last)
        ELSE [st EXCEPT !.join = Join(@, <<c>>), !.star = @ \/ (c = "*" /\ st.quote = "")]

\* The words one word expands to; Null stands for one that is not there.
ExpandArgList(w, ctx, last, names) ==
    LET start == [list |-> <<>>, join |-> Null, quote |-> "", star |-> FALSE, skip |-> 0]
        st == FoldLeftDomain(LAMBDA s, k : ExpandChar(s, w, k, ctx, last), start, w)
    IN  IF st.star THEN st.list \o ExpandAsterisk(st.join, names)
        ELSE Append(st.list, st.join)

\* The list all words expand to, one after another.
ExpandNodes(words, ctx, last, names) ==
    FlattenSeq([k \in DOMAIN words |-> ExpandArgList(words[k], ctx, last, names)])

Present(words) == At(words, {k \in DOMAIN words : words[k] # Null})

\* The arguments of a command: those of the list that are there.
ExpandList(words, ctx, last, names) == Present(ExpandNodes(words, ctx, last, names))

=============================================================================
