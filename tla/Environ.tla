------------------------------ MODULE Environ ------------------------------
(***************************************************************************)
(* The environment of the shell that runs a command line and the builtins  *)
(* that change it (src/builtin).  It is an array of strings, NAME=VALUE or, *)
(* after `export NAME`, NAME alone; names are found by comparing prefixes   *)
(* of these strings, so the strings are kept: sequences of characters.     *)
(*                                                                         *)
(* A context is a record of env, last_pwd and unset_path of t_context with *)
(* the directory the process is in, cwd, and `wraps`: whether the distance *)
(* from a heap address to NULL, cut to an int, is negative.  The code      *)
(* computes that distance for strings without a '='; the heap of a process *)
(* decides it once for all.                                                *)
(***************************************************************************)
EXTENDS Integers, Sequences, SequencesExt, FiniteSets, FiniteSetsExt, TLC, Ordering

CONSTANTS
    Code,     \* Code[c]: the place of the character c in the order of strcmp
    Letters,  \* the letters of the alphabet and the underscore
    Digits,   \* the digits, in order
    Dirs,     \* directories chdir can enter, by their absolute names
    Installed, \* files that may be commands, by the names execve takes
    Runnable  \* those of them that may be executed

Char == DOMAIN Code
String == Seq(Char)

ASSUME EnvironAssumption ==
    /\ Dirs \subseteq String /\ IsFiniteSet(Dirs)
    /\ Installed \subseteq String /\ Runnable \subseteq Installed
    /\ Letters \subseteq Char /\ Digits \in String
    /\ {"null"} \cap Char = {}
    /\ Code \in [Char -> Int] /\ \A c, d \in Char : Code[c] = Code[d] => c = d
    /\ {"\n", " ", "=", "+", "-", "/", ".", "$", "'", "\""} \subseteq Char
    /\ {" ", "=", "+"} \cap (Letters \union {Digits[k] : k \in DOMAIN Digits}) = {}

\* A NULL string; no string has such a character.
Null == <<"null">>

Str(s) == [k \in 1..Len(s) |-> SubSeq(s, k, k)]

\* The first n characters of s, or all of it: two strings agree for strncmp
\* with n if these are equal.
Take(s, n) == SubSeq(s, 1, Min({n, Len(s)}))
Drop(s, n) == SubSeq(s, n + 1, Len(s))

\* strchr: the place of the first c in s, 0 if there is none.
PlaceOf(s, c) ==
    LET places == {k \in 1..Len(s) : s[k] = c}
    IN  IF places = {} THEN 0 ELSE Min(places)

Holds(s, c) == PlaceOf(s, c) > 0

\* get_value of a name other than `?`: what follows NAME= in the first entry.
GetValue(name, env) ==
    LET found == {k \in DOMAIN env :
                     Take(env[k], Len(name) + 1) = name \o <<"=">>}
    IN  IF found = {} THEN Null ELSE Drop(env[Min(found)], Len(name) + 1)

\* ft_atoi on an optional sign and digits.
Atoi(s) ==
    LET signed == s # <<>> /\ s[1] \in {"-", "+"}
        ds == IF signed THEN Drop(s, 1) ELSE s
        n == FoldLeft(LAMBDA v, d : 10 * v + PlaceOf(Digits, d) - 1, 0, ds)
    IN  IF signed /\ s[1] = "-" THEN -n ELSE n

Itoa(n) == LET s == ToString(n) IN Str(s)

\* What the constants of the code are as sequences of characters, and the
\* numbers that are written: levels of the shell and statuses.
BuiltinNames == {"cd", "pwd", "exit", "echo", "env", "export", "unset"}

ASSUME TextsAssumption ==
    /\ \A s \in BuiltinNames \union
             {"PATH=", "SHLVL=", "OLDPWD=", "OLDPWD", "PWD", "PATH", "HOME", "1",
              "PWD=/Users/yachtata/mini", "_=/usr/bin/env",
              "PATH=/usr/gnu/bin:/usr/local/bin:/bin:/usr/bin:."} : Str(s) \in String
    /\ \A s, t \in BuiltinNames : Str(s) = Str(t) => s = t
    /\ Str("OLDPWD=") = Str("OLDPWD") \o <<"=">> /\ Str("OLDPWD") # <<>>
    /\ \A k \in DOMAIN Str("OLDPWD") : Str("OLDPWD")[k] \in Letters
    /\ \A n \in -1..1001 : Itoa(n) \in String

\* The entry for SHLVL of a shell started with one of the value s.
HandleShellLevel(s) ==
    LET level == CASE Atoi(s) > 1000 -> 0 [] Atoi(s) < 0 -> -1 [] OTHER -> Atoi(s)
    IN  Str("SHLVL=") \o IF level + 1 = 1000 THEN <<>> ELSE Itoa(level + 1)

\* The entries made up when the program was started without an environment.
TempEnv ==
    <<Str("PWD=/Users/yachtata/mini"), HandleShellLevel(Str("1")),
      Str("_=/usr/bin/env"), Str("PATH=/usr/gnu/bin:/usr/local/bin:/bin:/usr/bin:.")>>

\* The environment a command line starts with; the path made up is hidden.
CreateEnv(environ) ==
    IF environ = <<>> THEN TempEnv
    ELSE [k \in DOMAIN environ |->
             IF Take(environ[k], 6) = Str("SHLVL=")
             THEN HandleShellLevel(Drop(environ[k], 6)) ELSE environ[k]]

Context ==
    [env : Seq(String), last_pwd : String, unset_path : BOOLEAN, cwd : String,
     wraps : BOOLEAN, hidden_path : BOOLEAN]

InitContext(environ, dir, wraps) ==
    LET env == CreateEnv(environ)
        pwd == GetValue(Str("PWD"), env)
    IN  [env |-> env, last_pwd |-> IF pwd = Null THEN <<>> ELSE pwd,
         unset_path |-> environ = <<>>, cwd |-> dir, wraps |-> wraps,
         hidden_path |-> GetValue(Str("PATH"), env) = Null]

----------------------------------------------------------------------------
(* The search for a command. *)

\* ft_split: the nonempty parts between the separators.
Split(s, sep) ==
    LET cuts == {k \in 1..Len(s) : s[k] = sep}
        starts == {k \in 1..Len(s) : k \notin cuts /\ (k = 1 \/ k - 1 \in cuts)}
        Part(k) == SubSeq(s, k, Min({j \in k..Len(s) :
                                        j = Len(s) \/ j + 1 \in cuts}))
        order == InOrder(starts, Less(starts))
    IN  [n \in DOMAIN order |-> Part(order[n])]

\* A path that was never there is the one made up, one that is gone is ".".
GrepPaths(ctx) ==
    LET path == GetValue(Str("PATH"), ctx.env)
        made == Drop(TempEnv[4], 5)
    IN  Split(IF path # Null THEN path ELSE IF ctx.hidden_path THEN made ELSE <<".">>, ":")

\* The first directory of the path that has the file, runnable or not.
FtWhich(cmd, dirs) ==
    LET found == {k \in DOMAIN dirs : dirs[k] \o <<"/">> \o cmd \in Installed}
    IN  IF found = {} THEN Null ELSE dirs[Min(found)] \o <<"/">> \o cmd

\* 0 if the command can be executed, or the status of the child: not found,
\* or no permission.
InitCommand(args, ctx) ==
    LET file == IF Holds(args[1], "/") THEN args[1] ELSE FtWhich(args[1], GrepPaths(ctx))
    IN  IF file \in Runnable THEN 0
        ELSE IF file \in Installed \/ file \in Dirs THEN 126
        ELSE 127

----------------------------------------------------------------------------
(* export *)

\* Only the beginning of a name is looked at closely; behind it just a '+'
\* that no '=' follows is refused.
IsValidIdentifier(s) ==
    /\ s # <<>> /\ s[1] \in Letters
    /\ \A k \in 2..Len(s) :
           s[k] = "+" => \/ k < Len(s) /\ s[k + 1] = "="
                         \/ \E j \in 1..(k - 1) : s[j] = "="

\* The entries that begin like the argument up to its first '+', which may
\* stand in its value, are taken for the variable to append to.
HandlePlus(env, s) ==
    LET n == PlaceOf(s, "+") - 1
        found == {k \in DOMAIN env : Take(env[k], n) = Take(s, n)}
        Grown(e) == e \o (IF Holds(e, "=") THEN <<>> ELSE <<"=">>) \o Drop(s, n + 2)
    IN  IF found = {} THEN Append(env, s)
        ELSE [env EXCEPT ![Min(found)] = Grown(@)]

\* The length handle_equal compares with: up to the '=', or what becomes of
\* the difference to NULL, where 0 stands for "longer than any string".
NameLength(s, wraps) ==
    IF Holds(s, "=") THEN PlaceOf(s, "=") - 1
    ELSE IF wraps THEN Len(s)
    ELSE 0

\* A variant that compares as many characters as the argument's name has.
HandleEqualPrefix(env, s, wraps) ==
    LET n == NameLength(s, wraps)
        found == {k \in DOMAIN env : Take(env[k], n) = Take(s, n)}
    IN  IF found = {} THEN Append(env, s) ELSE [env EXCEPT ![Min(found)] = s]

\* An argument with '=' replaces the entry of the same name; one without only
\* asks whether an entry begins like it (or, for a long length, equals it).
HandleEqual(env, s, wraps) ==
    LET n == NameLength(s, wraps)
        found == {k \in DOMAIN env :
                     IF Holds(s, "=")
                     THEN NameLength(env[k], wraps) = n /\ Take(env[k], n) = Take(s, n)
                     ELSE IF n > 0 THEN Take(env[k], n) = s ELSE env[k] = s}
    IN  IF found = {} THEN Append(env, s)
        ELSE IF Holds(s, "=") THEN [env EXCEPT ![Min(found)] = s]
        ELSE env

UpdateVariable(ctx, s) ==
    [ctx EXCEPT !.env = IF Holds(s, "+") THEN HandlePlus(@, s)
                        ELSE HandleEqual(@, s, ctx.wraps)]

\* One turn of the loop of ft_export: a blank in the name ends the command
\* with 1, any other name that is not valid is passed over.
ExportOne(r, s) ==
    LET shown == r.ctx.unset_path /\ Take(s, 5) # Str("PATH=")
        ctx == [r.ctx EXCEPT !.unset_path = shown]
        blank == \E k \in 1..Len(s) :
                    s[k] = " " /\ \A j \in 1..k : s[j] # "="
    IN  IF r.status = 1 THEN r
        ELSE IF blank THEN [ctx |-> ctx, status |-> 1]
        ELSE IF ~IsValidIdentifier(s) THEN [ctx |-> ctx, status |-> 0]
        ELSE [ctx |-> UpdateVariable(ctx, s), status |-> 0]

\* With arguments; without any there must be something to list.
Export(ctx, args) == FoldLeft(ExportOne, [ctx |-> ctx, status |-> 0], args)
ListExport(ctx) == [ctx |-> ctx, status |-> IF ctx.env = <<>> THEN 1 ELSE 0]

----------------------------------------------------------------------------
(* unset, cd, exit *)

\* Entries without a value are dropped, whatever the argument, and so is every
\* entry whose name the argument begins with.
UnsetOne(ctx, s) ==
    [ctx EXCEPT
        !.unset_path = @ /\ Take(s, 4) # Str("PATH"),
        !.env = At(@, {k \in DOMAIN @ :
                    /\ Holds(@[k], "=")
                    /\ Take(s, PlaceOf(@[k], "=") - 1) # Take(@[k], PlaceOf(@[k], "=") - 1)})]

Unset(ctx, args) == [ctx |-> FoldLeft(UnsetOne, ctx, args), status |-> 0]

\* A variant that exports the directory entered as the old one.
ExcuteSuccessNew(ctx, dir) ==
    LET old == Export(ctx, <<Str("OLDPWD=") \o dir>>).ctx
    IN  [old EXCEPT !.cwd = dir, !.last_pwd = dir]

\* OLDPWD is exported, then the name of the new directory is remembered.
ExcuteSuccess(ctx, dir) ==
    LET old == Export(ctx, <<Str("OLDPWD=") \o ctx.last_pwd>>).ctx
    IN  [old EXCEPT !.cwd = dir, !.last_pwd = dir]

\* cd without an argument: OLDPWD is left alone.
HomePath(ctx) ==
    LET home == GetValue(Str("HOME"), ctx.env)
    IN  IF home \in Dirs
        THEN [ctx |-> [ctx EXCEPT !.cwd = home, !.last_pwd = home], status |-> 0]
        ELSE [ctx |-> ctx, status |-> 1]

ChangeDir(ctx, args) ==
    IF args = <<>> THEN HomePath(ctx)
    ELSE IF args[1] \in Dirs THEN [ctx |-> ExcuteSuccess(ctx, args[1]), status |-> 0]
    ELSE [ctx |-> ctx, status |-> 1]

IsNumeric(s) ==
    \A k \in 1..Len(s) : Holds(Digits, s[k]) \/ (k = 1 /\ s[k] \in {"+", "-"})

\* The status the shell ends with, or 256 when it goes on with status 1.
ExitStatus(args, status) ==
    IF args = <<>> THEN status % 256
    ELSE IF Len(args) > 1 THEN 256
    ELSE IF ~IsNumeric(args[1]) THEN 255
    ELSE Atoi(args[1]) % 256

----------------------------------------------------------------------------
(* What the builtins write, as a sequence of texts. *)

Joined(words) ==
    FoldLeft(LAMBDA s, w : IF s = Null THEN w ELSE s \o <<" ">> \o w, Null, words)

\* Leading arguments that begin with '-' and go on with n only are options;
\* the first other argument that begins with '-' cancels them.
EchoStart(args) ==
    LET Other(a) == \E k \in 2..Len(a) : a[k] # "n"
        stops == {k \in DOMAIN args : Take(args[k], 1) # <<"-">> \/ Other(args[k])}
    IN  IF stops = {} THEN [index |-> 2, dash |-> args # <<>>]
        ELSE [index |-> Min(stops),
              dash |-> Min(stops) > 1 /\ Take(args[Min(stops)], 1) # <<"-">>]

\* The text ends with a newline unless an option was seen.
Echo(args) ==
    LET start == EchoStart(args)
        text == Drop(args, start.index - 1)
    IN  IF args = <<>> THEN << <<"\n">> >>
        ELSE IF text = <<>> THEN <<>>
        ELSE <<Joined(text) \o IF start.dash THEN <<>> ELSE <<"\n">> >>

Hidden(ctx, e) == ctx.unset_path /\ Take(e, 5) = Str("PATH=")

\* env shows the variables that have a value.
ShowEnv(ctx) ==
    At(ctx.env, {k \in DOMAIN ctx.env : Holds(ctx.env[k], "=") /\ ~Hidden(ctx, ctx.env[k])})

=============================================================================
