------------------------------- MODULE Parser -------------------------------
(***************************************************************************)
(* The lexer and the parser of the shell, as functions: lexer of a line,   *)
(* parse of a list of tokens.  The state machine only types a line, or the *)
(* tokens of a longer line.                                                *)
(*                                                                         *)
(* next_token keeps its position in static variables; exec_command resets  *)
(* them after every parse, failed or not, so that the position is a        *)
(* parameter here.                                                         *)
(***************************************************************************)
EXTENDS Integers, Sequences, SequencesExt

CONSTANTS
    Chars,      \* characters of a line: "a" for a letter, "0" and "2" for
                \* digits, and characters that the lexer tells apart
    MaxFd,      \* the largest number of a redirection, as two characters;
                \* ten in the code
    MaxLine,    \* longest line
    MaxTokens   \* longest list of tokens

VARIABLES
    line,       \* the line typed
    tokens      \* the types of tokens typed

vars == <<line, tokens>>

TokenTypes == {"literal", "redir", "pipe", "op_or", "op_and", "l_par", "r_par"}

-----------------------------------------------------------------------------
(* The lexer.                                                              *)

Blank == {" "}
Digit == {"0", "2"}
Arrow == {"<", ">"}
Quote == {"'", "\""}
Delimiter == Blank \cup Arrow \cup {"|", "&", "(", ")"}   \* TOKEN_D

CharAt(l, i) == IF i <= Len(l) THEN l[i] ELSE "end"

(* match_pattern with O_DIGITS: the digits in front of an arrow, or -1. *)
RECURSIVE MatchDigits(_, _)
MatchDigits(l, i) ==
    CASE CharAt(l, i) \in Arrow -> 0
      [] CharAt(l, i) \in Digit -> LET n == MatchDigits(l, i + 1)
                                   IN IF n = -1 THEN -1 ELSE n + 1
      [] OTHER -> -1

(* wordlen: the length of a word, 0 when a quote stays open.  -Len(l) takes *)
(* away whatever has been counted.                                         *)
RECURSIVE WordLenFrom(_, _, _)
WordLenFrom(l, i, quote) ==
    LET c == CharAt(l, i)
    IN CASE c = "end" -> IF quote = "none" THEN 0 ELSE -Len(l)
         [] c = quote -> 1 + WordLenFrom(l, i + 1, "none")
         [] c # quote /\ quote = "none" /\ c \in Quote ->
                1 + WordLenFrom(l, i + 1, c)
         [] quote = "none" /\ c \in Delimiter -> 0
         [] OTHER -> 1 + WordLenFrom(l, i + 1, quote)

UnclosedTaken(l, i) ==
    LET n == WordLenFrom(l, i, "none") IN IF n < 0 THEN n + Len(l) ELSE n

WordLen(l, i) == LET n == WordLenFrom(l, i, "none") IN IF n < 0 THEN 0 ELSE n

TokenType(l, i) ==
    LET c == l[i]
        twice == c = CharAt(l, i + 1)
    IN CASE c = "(" -> "l_par"
         [] c = ")" -> "r_par"
         [] c = "|" -> IF twice THEN "op_or" ELSE "pipe"
         [] c = "&" -> IF twice THEN "op_and" ELSE "undefined"
         [] c \in Arrow \/ MatchDigits(l, i) > 0 -> "redir"
         [] OTHER -> "literal"

SingleArrow(l, i) == MatchDigits(l, i) + 1

RedirLength(l, i) ==
    LET n == MatchDigits(l, i) + 1
    IN IF l[i + n - 1] = CharAt(l, i + n) THEN n + 1 ELSE n

(* The descriptor a redirection of n characters at i is for: 0 or 1 without *)
(* digits, -1 when they are too many, where one arrow of two is counted as a *)
(* digit, above all others.                                                *)
RedirFd(l, i, n) ==
    LET Order(c) == CASE c = "0" -> 0 [] c = "2" -> 2 [] OTHER -> 10
        digits == MatchDigits(l, i)
        size == Len(MaxFd)
        above == \E k \in 1 .. size :
                    /\ SubSeq(l, i, i + k - 2) = SubSeq(MaxFd, 1, k - 1)
                    /\ Order(l[i + k - 1]) > Order(MaxFd[k])
    IN CASE digits = 0 -> IF l[i] = ">" THEN 1 ELSE 0
         [] n - 1 > size \/ (n - 1 = size /\ above) -> -1
         [] OTHER -> FoldLeft(LAMBDA v, c : 10 * v + Order(c), 0,
                              SubSeq(l, i, i + digits - 1))

RedirType(l, i, n) ==
    LET first == i + MatchDigits(l, i)
        twice == first < i + n - 1 /\ l[first] = l[first + 1]
    IN CASE l[first] = ">" -> IF twice THEN "append" ELSE "out"
         [] OTHER -> IF twice THEN "here" ELSE "in"

TokenLength(l, i) ==
    CASE TokenType(l, i) = "redir" -> RedirLength(l, i)
      [] TokenType(l, i) \in {"op_or", "op_and"} -> 2
      [] TokenType(l, i) = "literal" -> WordLen(l, i)
      [] OTHER -> 1

LexError == <<[type |-> "undefined", start |-> 0, end |-> 0]>>

RECURSIVE LexFrom(_, _, _)
LexFrom(l, i, found) ==
    IF i > Len(l) THEN found
    ELSE IF l[i] \in Blank THEN LexFrom(l, i + 1, found)
    ELSE IF TokenType(l, i) = "undefined" \/ TokenLength(l, i) < 1
    THEN LexError
    ELSE LexFrom(l, i + TokenLength(l, i),
                 Append(found, [type |-> TokenType(l, i), start |-> i,
                                end |-> i + TokenLength(l, i) - 1]))

Lexer(l) == LexFrom(l, 1, <<>>)

-----------------------------------------------------------------------------
(* The parser, on a sequence t of token types.  A command has the          *)
(* positions of its arguments and of its redirections.                     *)

NoTree == [kind |-> "none"]
Failed == [tree |-> NoTree, next |-> 0]
Parsed(tree, i) == [tree |-> tree, next |-> i]

At(t, i) == IF i <= Len(t) THEN t[i] ELSE "end"

IsOperator(type) == type \in {"pipe", "op_or", "op_and"}

FlatPrec(type) == IF IsOperator(type) THEN 1 ELSE 0

GetPrec(type) == CASE type \in {"op_or", "op_and"} -> 1
                   [] type = "pipe" -> 2
                   [] OTHER -> 0

NodeType(type) == CASE type = "pipe" -> "pipe"
                    [] type = "op_or" -> "or"
                    [] type = "op_and" -> "and"

(* parse_redir, in the loops of parse_simplecmd and parse_subcmd, which    *)
(* take up args, the types of arguments.                                   *)
RECURSIVE ParseRest(_, _, _, _)
ParseRest(t, i, args, node) ==
    CASE At(t, i) = "redir" ->
            IF At(t, i + 1) # "literal" THEN Failed
            ELSE ParseRest(t, i + 2, args, [node EXCEPT !.redirs = @ \o <<i>>])
      [] At(t, i) \in args ->
            ParseRest(t, i + 1, args, [node EXCEPT !.args = @ \o <<i>>])
      [] OTHER -> Parsed(node, i)

ParseSimpleCmd(t, i) ==
    ParseRest(t, i, {"literal"}, [kind |-> "cmd", args |-> <<>>,
                                  redirs |-> <<>>])

RECURSIVE ParseCmd(_, _, _)

ParseSubCmd(t, i) ==
    LET body == ParseCmd(t, i + 1, 0)
    IN IF body = Failed \/ At(t, body.next) # "r_par" THEN Failed
       ELSE ParseRest(t, body.next + 1, {},
                      [kind |-> "sub", body |-> body.tree, redirs |-> <<>>])

ParsePair(t, i) ==
    CASE At(t, i) = "l_par" -> ParseSubCmd(t, i)
      [] At(t, i) \in {"redir", "literal"} -> ParseSimpleCmd(t, i)
      [] OTHER -> Failed

(* The loop of parse_cmd, with cmd_root = root. *)
RECURSIVE ParseOperators(_, _, _, _)
ParseOperators(t, i, prec, root) ==
    LET op == At(t, i)
    IN IF ~IsOperator(op) \/ GetPrec(op) < prec
       THEN Parsed(root, i)
       ELSE LET child == ParseCmd(t, i + 1, GetPrec(op) + 1)
            IN IF child = Failed THEN Failed
               ELSE ParseOperators(t, child.next, prec,
                        [kind |-> NodeType(op), op |-> i,
                         left |-> root, right |-> child.tree])

ParseCmd(t, i, prec) ==
    LET first == ParsePair(t, i)
    IN IF first = Failed THEN Failed
       ELSE ParseOperators(t, first.next, prec, first.tree)

Parse(t) ==
    LET r == ParseCmd(t, 1, 0)
    IN IF r.next = Len(t) + 1 THEN r.tree ELSE NoTree

-----------------------------------------------------------------------------
Init == line = <<>> /\ tokens = <<>>

TypeChar(c) ==
    /\ tokens = <<>> /\ Len(line) < MaxLine
    /\ line' = Append(line, c)
    /\ UNCHANGED tokens

TypeToken(type) ==
    /\ line = <<>> /\ Len(tokens) < MaxTokens
    /\ tokens' = Append(tokens, type)
    /\ UNCHANGED line

Next == \/ \E c \in Chars : TypeChar(c)
        \/ \E type \in TokenTypes : TypeToken(type)

Spec == Init /\ [][Next]_vars

-----------------------------------------------------------------------------
(* Reference for the lexer.  QuoteAfter(l)[i] is the quote that is open    *)
(* behind character i.                                                     *)

QuoteAfter(l) ==
    LET open[i \in 0 .. Len(l)] ==
            IF i = 0 THEN "none"
            ELSE CASE open[i - 1] = l[i] -> "none"
                   [] open[i - 1] = "none" /\ l[i] \in Quote -> l[i]
                   [] OTHER -> open[i - 1]
    IN open

Quoted(l, i) == QuoteAfter(l)[i - 1] # "none" \/ l[i] \in Quote

(* A run of & outside of quotes, as long as it can be. *)
AmpRuns(l) == {r \in (1 .. Len(l)) \X (1 .. Len(l)) :
    /\ \A i \in r[1] .. r[2] : l[i] = "&" /\ ~Quoted(l, i)
    /\ r[1] <= r[2]
    /\ r[1] > 1 => l[r[1] - 1] # "&" \/ Quoted(l, r[1] - 1)
    /\ r[2] < Len(l) => l[r[2] + 1] # "&"}

(* A line is refused exactly if a quote stays open or an & has no partner  *)
(* (lexer, gettoken, wordlen).                                             *)
RefusedLines ==
    Lexer(line) = LexError <=>
        \/ QuoteAfter(line)[Len(line)] # "none"
        \/ \E r \in AmpRuns(line) : (r[2] - r[1]) % 2 = 0

(* The number that a sequence of digits is. *)
Number(s) ==
    LET Weight(k) == 10 ^ (Len(s) - k)
    IN FoldLeftDomain(LAMBDA v, k : v + (IF s[k] = "2" THEN 2 * Weight(k) ELSE 0), 0, s)

(* The tokens are the line: what lies between them is blank and not        *)
(* quoted; a word goes as far as there is no delimiter outside of quotes,  *)
(* and is not cut in two; a redirection is digits and one arrow or twice   *)
(* the same, and is not cut in two either.  It is for the descriptor that  *)
(* the digits name, if their number is not above the largest, or for none  *)
(* (-1) if they begin with a zero or their number is not below a tenth of  *)
(* the largest, and does what its arrows say.                              *)
TokensAreTheLine ==
    Lexer(line) # LexError =>
        LET found == Lexer(line)
            Text(k) == {i \in DOMAIN line : /\ found[k].start <= i
                                            /\ i <= found[k].end}
            Ks == DOMAIN found
        IN /\ \A i \in DOMAIN line :
                (\A k \in Ks : i \notin Text(k)) <=>
                    line[i] \in Blank /\ ~Quoted(line, i)
           /\ \A k \in Ks, j \in Ks : k < j => found[k].end < found[j].start
           /\ \A k \in Ks :
                LET s == found[k].start
                    e == found[k].end
                IN /\ found[k].type = "literal" =>
                        /\ \A i \in s .. e : \/ line[i] \notin Delimiter
                                             \/ Quoted(line, i)
                        /\ e < Len(line) => line[e + 1] \in Delimiter
                   /\ found[k].type = "redir" =>
                        \E n \in {0, 1} :
                            /\ s + n <= e
                            /\ \A i \in s .. e - n - 1 : line[i] \in Digit
                            /\ line[e] \in Arrow /\ line[e - n] = line[e]
                            /\ n = 0 => CharAt(line, e + 1) # line[e]
                            /\ RedirType(line, s, e - s + 1) =
                                    IF line[e] = ">" THEN <<"out", "append">>[n + 1]
                                    ELSE <<"in", "here">>[n + 1]
                            /\ LET fd == RedirFd(line, s, e - s + 1)
                                   number == Number(SubSeq(line, s, e - n - 1))
                                   large == number >= Number(MaxFd) \div 10
                               IN IF s = e - n THEN fd = (IF line[e] = ">" THEN 1 ELSE 0)
                                  ELSE \/ fd = number /\ number <= Number(MaxFd)
                                       \/ fd = -1 /\ (line[s] = "0" \/ large)

(* Reference for the parser: a list of tokens is divided at the last       *)
(* operator of the lowest precedence outside of parentheses.               *)
Depth(t, a, b) ==
    Cardinality({i \in a .. b : t[i] = "l_par"})
        - Cardinality({i \in a .. b : t[i] = "r_par"})

Outside(t, a, b, types) ==
    {i \in a .. b : t[i] \in types /\ Depth(t, a, i - 1) = 0}

FilesFollow(t, a, b) ==
    \A i \in a .. b : t[i] = "redir" => i < b /\ t[i + 1] = "literal"

IsFile(t, a, i) == i > a /\ t[i - 1] = "redir"

Positions(a, b, P(_)) == SetToSortSeq({i \in a .. b : P(i)}, <)

RECURSIVE Divided(_, _, _)
Divided(t, a, b) ==
    LET DivideAt(i) ==
            LET l == Divided(t, a, i - 1)
                r == Divided(t, i + 1, b)
            IN IF NoTree \in {l, r} THEN NoTree
               ELSE [kind |-> NodeType(t[i]), op |-> i, left |-> l, right |-> r]
        Redirs(from) == Positions(from, b, LAMBDA i : t[i] = "redir")
        lists == Outside(t, a, b, {"op_and", "op_or"})
        pipes == Outside(t, a, b, {"pipe"})
        closing == {i \in a .. b : Depth(t, a, i) = 0}
    IN IF a > b THEN NoTree
       ELSE IF lists # {} THEN DivideAt(Max(lists))
       ELSE IF pipes # {} THEN DivideAt(Max(pipes))
       ELSE IF t[a] = "l_par" THEN
            IF closing = {} THEN NoTree ELSE
            LET c == Min(closing)
                body == Divided(t, a + 1, c - 1)
            IN IF \/ body = NoTree \/ ~FilesFollow(t, c + 1, b)
                  \/ \E i \in c + 1 .. b : t[i] # "redir" /\ ~IsFile(t, c + 1, i)
               THEN NoTree
               ELSE [kind |-> "sub", body |-> body, redirs |-> Redirs(c + 1)]
       ELSE IF \/ ~FilesFollow(t, a, b)
               \/ \E i \in a .. b : t[i] \notin {"redir", "literal"}
            THEN NoTree
            ELSE [kind |-> "cmd", redirs |-> Redirs(a),
                  args |-> Positions(a, b, LAMBDA i :
                              t[i] = "literal" /\ ~IsFile(t, a, i))]

(* parse accepts what the grammar at the head of binary_tree.c derives,    *)
(* and gives the tree in which a pipe binds tighter than && and || and all *)
(* operators group to the left.                                            *)
TreeIsReference == Parse(tokens) = Divided(tokens, 1, Len(tokens))
=============================================================================
