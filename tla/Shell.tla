------------------------------- MODULE Shell -------------------------------
(***************************************************************************)
(* The lines that scprecon hands to exec_command, one after another, in one *)
(* process: here documents are read for the whole line, then its commands   *)
(* are executed from left to right, each with its words expanded, its       *)
(* redirections performed, and run as a builtin in the shell or in a child. *)
(*                                                                         *)
(* Pipelines and nested lists are in Pipeline; a command here is a simple   *)
(* one or a simple one in parentheses.  What a child does to descriptors,   *)
(* environment and directory ends with it: the process in hand is fds and   *)
(* ctx, those waiting for it are on the stack.                             *)
(***************************************************************************)
EXTENDS Expand, Redirect

CONSTANTS
    Starts,        \* what the program may be started with: records of its
                   \* environ, fds, cwd, wraps and the lines, each a record of
                   \* cmds and of stdin, typed in blocks of `block` lines
    InitialFiles,  \* the files there are, as pairs of directory and name
    ToolStatuses,  \* statuses a tool may end with
    Uninitialized, \* what a status may be that waitpid has not stored
    MaxFaults      \* bound on interrupts and calls that fail

\* What lexer and parser have made of the lines.  The key of a redirection
\* tells it from all others of its line.
Redirection == [fd : Int, type : {"in", "out", "app", "here"}, word : String, key : Nat]
Segment == [quote : {"", "'", "\""}, var : BOOLEAN, text : String]
Command ==
    [op : {"first", "and", "or"}, sub : BOOLEAN, outer : Seq(Redirection),
     words : Seq(Seq(Segment)), redirs : Seq(Redirection)]
CommandLine == [cmds : Seq(Command), stdin : Seq(String), block : Nat \ {0}]

\* prompt_heredoc does not enter parentheses: of a command in them only the
\* redirections behind them are looked at.
Prompted(cmd) == IF cmd.sub THEN cmd.outer ELSE cmd.redirs

DocsOf(line) ==
    LET list == FlattenSeq([k \in DOMAIN line.cmds |-> Prompted(line.cmds[k])])
    IN  At(list, {k \in DOMAIN list : list[k].type = "here"})

ASSUME StartsAssumption ==
    /\ MaxFaults \in Nat /\ 1 \in Fd
    /\ ToolStatuses \subseteq 0..255 /\ Uninitialized \subseteq 0..255
    /\ IsFiniteSet(InitialFiles) /\ InitialFiles \subseteq String \X String
    /\ \A start \in Starts :
          /\ start.environ \in Seq(String) /\ start.cwd \in String /\ start.wraps \in BOOLEAN
          /\ DOMAIN start.fds = Fd
          /\ start.lines \in Seq(CommandLine)
          /\ \A n \in DOMAIN start.lines :
                LET list == DocsOf(start.lines[n])
                IN  \A j, k \in DOMAIN list : list[j].key = list[k].key => j = k

VARIABLES
    environ,  \* the environment of the program
    lines,    \* the lines that are left, the one in hand first
    cmds,     \* the commands of the line that are left
    docs,     \* redirections of the line whose here document is not read yet
    stdin,    \* the lines that will be read
    tmp,      \* the here documents in /tmp, by the key of their redirection
    stray,    \* how many files in /tmp no redirection refers to any more
    files,    \* the other files
    ctx,      \* the context of the process in hand
    stack,    \* fds, ctx and given of the processes that wait, innermost first
    args,     \* the expanded words of the command in hand
    out,      \* what the last builtin wrote, and on which descriptor's file
    status,   \* the status of the last command
    last,     \* what get_status yields: the status of the last line
    faults,   \* faults that are still allowed
    spc       \* "prompt", "next", "outer", "expand", "redir", "undo",
              \* "end"

shellVars == <<environ, lines, cmds, docs, stdin, tmp, stray, files, ctx, stack,
               args, out, status, last, faults, spc>>
vars == <<shellVars, redirVars>>
lineVars == <<environ, lines, docs, stdin, last>>

Silence == [to |-> Closed, text |-> <<>>]

ShellInit ==
    \E start \in Starts :
        /\ environ = start.environ /\ lines = start.lines
        /\ ctx = InitContext(environ, start.cwd, start.wraps)
        /\ cmds = <<>> /\ docs = <<>> /\ stdin = <<>>
        /\ tmp = <<>> /\ stray = 0 /\ files = InitialFiles
        /\ stack = <<>> /\ args = <<>> /\ out = Silence /\ status = 0 /\ last = 0
        /\ faults = MaxFaults /\ spc = "end"
        /\ fds = start.fds /\ orig = fds
        /\ redirs = <<>> /\ pos = 1 /\ bak = <<>> /\ rpc = "idle" /\ given = <<>>

----------------------------------------------------------------------------
(* Here documents. *)

\* A context is made anew from the environment the program was started with;
\* just the directory stays.
BeginLine ==
    /\ spc = "end" /\ lines # <<>>
    /\ ctx' = InitContext(environ, ctx.cwd, ctx.wraps)
    /\ cmds' = lines[1].cmds
    /\ docs' = DocsOf(lines[1])
    /\ stdin' = lines[1].stdin
    /\ status' = 0
    /\ spc' = "prompt"
    /\ UNCHANGED <<environ, lines, tmp, stray, files, stack, args, out, last, faults, redirVars>>

\* A variant that ends a document at a line that begins with the delimiter.
TakesToPrefix(delimiter) ==
    LET hits == {k \in DOMAIN stdin : Take(stdin[k], Len(delimiter)) = delimiter}
    IN  IF hits = {} THEN Len(stdin) ELSE Min(hits)

\* How many lines the reader of a document takes: to the delimiter or the end.
ReaderTakes(delimiter) ==
    LET hits == {k \in DOMAIN stdin : stdin[k] = delimiter}
    IN  IF hits = {} THEN Len(stdin) ELSE Min(hits)

\* The child reads in blocks, what it has read beyond the delimiter is lost.
\* It is killed by an interrupt after n lines, or never forked; the wait of
\* the shell may then leave its status uninitialized.
ReadDoc(n) ==
    LET delimiter == docs[1].word
        taken == ReaderTakes(delimiter)
        text == IF n > 0 /\ stdin[n] = delimiter THEN n - 1 ELSE n
        block == lines[1].block
    IN  /\ spc = "prompt" /\ docs # <<>> /\ Free(fds) # {}
        /\ n = taken \/ (n < taken /\ faults > 0)
        /\ IF n = taken THEN UNCHANGED <<last, faults>>
           ELSE last' \in {last, 1} /\ faults' = faults - 1
        /\ tmp' = [k \in DOMAIN tmp \union {docs[1].key} |->
                      IF k = docs[1].key THEN Take(stdin, text) ELSE tmp[k]]
        /\ stdin' = Drop(stdin, block * ((n + block - 1) \div block))
        /\ docs' = Tail(docs)
        /\ UNCHANGED <<environ, lines, cmds, stray, files, ctx, stack, args, out, status, spc,
                       redirVars>>

EndLine(s) ==
    /\ spc' = "end"
    /\ lines' = Tail(lines)
    /\ stray' = stray + Cardinality(DOMAIN tmp)
    /\ tmp' = <<>>
    /\ last' = s
    /\ UNCHANGED <<environ, cmds, docs, stdin, files, ctx, stack, args, out, status>>

\* The line is given up, for want of a descriptor or after an interrupt;
\* documents read for it stay in /tmp.
PromptFails ==
    /\ spc = "prompt" /\ docs # <<>>
    /\ \/ Free(fds) = {} /\ EndLine(last) /\ UNCHANGED faults
       \/ /\ faults > 0 /\ faults' = faults - 1
          /\ \E s \in {last, 1} : EndLine(s)
    /\ UNCHANGED redirVars

PromptDone ==
    /\ spc = "prompt" /\ docs = <<>>
    /\ spc' = "next"
    /\ UNCHANGED <<lineVars, cmds, tmp, stray, files, ctx, stack, args, out, status, faults, redirVars>>

----------------------------------------------------------------------------
(* From command to command. *)

Cmd == cmds[1]

IsRun == CASE Cmd.op = "and" -> status = 0
           [] Cmd.op = "or"  -> status # 0
           [] OTHER          -> TRUE

\* The command has ended with s, and with it the processes forked for it; a
\* subshell exits with it.
EndCommand(s) ==
    /\ status' = IF Cmd.sub THEN s % 256 ELSE s
    /\ cmds' = Tail(cmds)
    /\ stack' = <<>>
    /\ spc' = "next"

\* The shell goes on with the table t, or with its own if a child has ended.
EndsWith(s, t) ==
    /\ EndCommand(s)
    /\ fds' = IF stack = <<>> THEN t ELSE Last(stack).fds
    /\ rpc' = "idle"
    /\ UNCHANGED <<redirs, pos, bak, orig, given>>

BackIn(c) == IF stack = <<>> THEN c ELSE Last(stack).ctx

Push == stack' = <<[fds |-> fds, ctx |-> ctx, given |-> given]>> \o stack

LineDone ==
    /\ spc = "next" /\ cmds = <<>>
    /\ EndLine(status)
    /\ UNCHANGED <<faults, redirVars>>

Skip ==
    /\ spc = "next" /\ cmds # <<>> /\ ~IsRun
    /\ cmds' = Tail(cmds)
    /\ UNCHANGED <<lineVars, tmp, stray, files, ctx, stack, args, out, status, faults, spc, redirVars>>

StartSimple ==
    /\ spc = "next" /\ cmds # <<>> /\ IsRun /\ ~Cmd.sub
    /\ spc' = "expand"
    /\ UNCHANGED <<lineVars, cmds, tmp, stray, files, ctx, stack, args, out, status, faults, redirVars>>

\* exec_sub: the child performs the redirections and never undoes them.
StartSub ==
    /\ spc = "next" /\ cmds # <<>> /\ IsRun /\ Cmd.sub
    /\ Push
    /\ BeginRedirect(Cmd.outer)
    /\ spc' = "outer"
    /\ UNCHANGED <<lineVars, cmds, tmp, stray, files, ctx, args, out, status, faults>>

SubForkFails ==
    /\ spc = "next" /\ cmds # <<>> /\ IsRun /\ Cmd.sub
    /\ faults > 0 /\ faults' = faults - 1
    /\ EndCommand(1)
    /\ UNCHANGED <<lineVars, tmp, stray, files, ctx, args, out, redirVars>>

SubGoesOn ==
    /\ spc = "outer" /\ AllInstalled
    /\ spc' = "expand"
    /\ UNCHANGED <<lineVars, cmds, tmp, stray, files, ctx, stack, args, out, status, faults, redirVars>>

----------------------------------------------------------------------------
(* Words. *)

NamesIn(dir) == {f[2] : f \in {g \in files : g[1] = dir}} \union {<<".">>, <<".", ".">>}

\* What readdir yields when n descriptors more are taken: opendir takes one.
Listing(n) == IF Cardinality(Free(fds)) > n THEN NamesIn(ctx.cwd) ELSE {}
Nodes(words, n) == ExpandNodes(words, ctx, last, Listing(n))
Expanded(words, n) == ExpandList(words, ctx, last, Listing(n))

\* A word of a line is a sequence of segments: text or the name of a variable,
\* with the quotes around it.  These are its characters.
Raw(word) ==
    FlattenSeq([k \in DOMAIN word |->
        (IF word[k].quote = "" THEN <<>> ELSE <<word[k].quote>>)
        \o (IF word[k].var THEN <<"$">> ELSE <<>>) \o word[k].text
        \o (IF word[k].quote = "" THEN <<>> ELSE <<word[k].quote>>)])

Builtins == {Str(name) : name \in BuiltinNames}
IsBuiltin(words) == words # <<>> /\ words[1] \in Builtins
Bare == Cmd.words = <<>>
RawOf == [k \in DOMAIN Cmd.words |-> Raw(Cmd.words[k])]

\* get_expanded_args gives NULL: nothing is left of the words.
NoList == ~Bare /\ Nodes(RawOf, 0) = <<>>

\* exec_simple then does nothing else.
ExpandFails ==
    /\ spc = "expand" /\ NoList
    /\ EndsWith(1, fds)
    /\ ctx' = BackIn(ctx)
    /\ UNCHANGED <<lineVars, tmp, stray, files, args, out, faults>>

\* A builtin, and redirections without a command, are executed by the shell,
\* anything else by a child, also when all words have expanded to nothing.
ExpandArgs ==
    LET words == Expanded(RawOf, 0)
    IN  /\ spc = "expand" /\ ~NoList
        /\ args' = words
        /\ IF Bare \/ IsBuiltin(words) THEN UNCHANGED stack ELSE Push
        /\ BeginRedirect(Cmd.redirs)
        /\ spc' = "redir"
        /\ UNCHANGED <<lineVars, cmds, tmp, stray, files, ctx, out, status, faults>>

\* exec_cmd gives 0 when it cannot fork.
ToolForkFails ==
    /\ spc = "expand" /\ faults > 0
    /\ ~Bare /\ ~NoList /\ ~IsBuiltin(Expanded(RawOf, 0))
    /\ faults' = faults - 1
    /\ EndsWith(0, fds)
    /\ ctx' = BackIn(ctx)
    /\ UNCHANGED <<lineVars, tmp, stray, files, args, out>>

----------------------------------------------------------------------------
(* Redirections: open_file. *)

Performs == spc \in {"outer", "redir"} /\ Opening
Element == redirs[pos]
Here == Element.type = "here"

\* The word is opened as it stands; expanding it only tells whether there
\* would be more than one.
Place == <<ctx.cwd, Element.word>>
Ambiguous == ~Here /\ Len(Expanded(<<Element.word>>, 0)) > 1

\* A document is expanded line by line, while it and its copy are open, and
\* the words of a line put together again.
HereLine(k) == <<Append(tmp[Element.key][k], "\n")>>
HereBody == [k \in DOMAIN tmp[Element.key] |-> Joined(Expanded(HereLine(k), 2))]

HereOpen == [type |-> "here", body |-> <<>>]

Description ==
    IF Here THEN [type |-> "here", body |-> HereBody]
    ELSE [type |-> Element.type, place |-> Place]

\* A document of a command in parentheses has no file; copying one takes two
\* descriptors, and expanding one may take a third.
HalfCopied == Here /\ Element.key \in DOMAIN tmp /\ Cardinality(Free(fds)) = 1
LineLost ==
    /\ Here /\ Element.key \in DOMAIN tmp /\ Cardinality(Free(fds)) = 2
    /\ \E k \in DOMAIN tmp[Element.key] : Nodes(HereLine(k), 2) = <<>>

CanOpen ==
    /\ Free(fds) # {} /\ ~Ambiguous
    /\ Element.type = "in" => Place \in files
    /\ Here => Element.key \in DOMAIN tmp /\ ~HalfCopied /\ ~LineLost

OpenFile ==
    /\ Performs /\ CanOpen
    /\ Install(Description) \/ DupFails(Description)
    /\ files' = IF Element.type \in {"out", "app"} THEN files \union {Place} ELSE files
    /\ tmp' = IF Here THEN [k \in DOMAIN tmp \ {Element.key} |-> tmp[k]] ELSE tmp
    /\ UNCHANGED <<lineVars, cmds, stray, ctx, stack, args, out, status, faults, spc>>

\* The copy of a document was created, but the document does not open, or one
\* of its lines expands to no list: the files stay, and what is open of them.
CopyFails ==
    /\ Performs
    /\ \/ HalfCopied /\ GiveUp(Opened(fds, HereOpen))
       \/ LineLost /\ GiveUp(Opened(Opened(fds, HereOpen), HereOpen))
    /\ stray' = stray + 1
    /\ UNCHANGED <<lineVars, cmds, tmp, files, ctx, stack, args, out, status, faults, spc>>

OpenRefused ==
    /\ Performs /\ ~CanOpen /\ ~HalfCopied /\ ~LineLost
    /\ OpenFails
    /\ UNCHANGED <<shellVars>>

\* The command ends with 1, in the shell or in a child.
RedirectFailed ==
    /\ rpc = "failed" /\ spc \in {"outer", "redir"}
    /\ EndsWith(1, fds)
    /\ ctx' = BackIn(ctx)
    /\ UNCHANGED <<lineVars, tmp, stray, files, args, out, faults>>

----------------------------------------------------------------------------
(* Builtins and tools. *)

Effect ==
    LET rest == Tail(args)
        Is(name) == args[1] = Str(name)
    IN  CASE Is("cd")     -> ChangeDir(ctx, rest)
          [] Is("export") -> IF rest = <<>> THEN ListExport(ctx) ELSE Export(ctx, rest)
          [] Is("unset")  -> Unset(ctx, rest)
          [] Is("exit")   -> [ctx |-> ctx, status |-> 1]
          [] OTHER        -> [ctx |-> ctx, status |-> 0]

\* exit ends the process; so does pwd, which frees an array of its stack.
Leaves ==
    /\ ~Bare /\ IsBuiltin(args)
    /\ \/ args[1] = Str("pwd")
       \/ args[1] = Str("exit") /\ ExitStatus(Tail(args), last) # 256

\* What it writes: export without arguments lists the variables in order.
Written ==
    CASE args[1] = Str("echo") -> Echo(Tail(args))
      [] args[1] = Str("env")  -> ShowEnv(ctx)
      [] args = <<Str("export")>> -> SortExport(ctx)
      [] OTHER -> <<>>

RunBuiltin ==
    /\ spc = "redir" /\ AllInstalled /\ ~Leaves
    /\ Bare \/ IsBuiltin(args)
    /\ ctx' = IF Bare THEN ctx ELSE Effect.ctx
    /\ status' = IF Bare THEN 0 ELSE Effect.status
    /\ out' = IF Bare THEN Silence ELSE [to |-> fds[1], text |-> Written]
    /\ BeginUndo(TRUE)
    /\ spc' = "undo"
    /\ UNCHANGED <<lineVars, cmds, tmp, stray, files, stack, args, faults>>

\* A subshell ends with the status, 134 after an abort.
LeaveSubshell ==
    /\ spc = "redir" /\ AllInstalled /\ Leaves /\ stack # <<>>
    /\ EndsWith(IF args[1] = Str("pwd") THEN 134 ELSE ExitStatus(Tail(args), last), fds)
    /\ ctx' = BackIn(ctx)
    /\ UNCHANGED <<lineVars, tmp, stray, files, args, out, faults>>

\* The program ends, in the middle of the line.
LeaveShell ==
    /\ spc = "redir" /\ AllInstalled /\ Leaves /\ stack = <<>>
    /\ lines' = <<>>
    /\ spc' = "end"
    /\ UNCHANGED <<environ, docs, stdin, last, cmds, tmp, stray, files, ctx, stack, args, out,
                   status, faults, redirVars>>

RunTool ==
    /\ spc = "redir" /\ AllInstalled /\ ~Bare /\ ~IsBuiltin(args)
    /\ BeginUndo(FALSE)
    /\ spc' = "undo"
    /\ UNCHANGED <<lineVars, cmds, tmp, stray, files, ctx, stack, args, out, status, faults>>

Undo ==
    /\ spc = "undo"
    /\ UndoOne \/ UndoDone
    /\ UNCHANGED shellVars

\* A variant that goes on before all descriptors are back.
BuiltinEndsEarly ==
    /\ spc = "undo" /\ rpc \in {"restore", "restored"}
    /\ EndsWith(status, fds)
    /\ ctx' = BackIn(ctx)
    /\ UNCHANGED <<lineVars, tmp, stray, files, args, out, faults>>

BuiltinEnds ==
    /\ spc = "undo" /\ rpc = "restored"
    /\ EndsWith(status, fds)
    /\ ctx' = BackIn(ctx)
    /\ UNCHANGED <<lineVars, tmp, stray, files, args, out, faults>>

\* The child ends without a command, because there is none or it cannot be
\* executed, or with the status of the command.
ToolEnds ==
    /\ spc = "undo" /\ rpc = "forgotten"
    /\ \E s \in ToolStatuses :
          EndsWith(IF args = <<>> THEN 0
                   ELSE IF InitCommand(args, ctx) # 0 THEN InitCommand(args, ctx)
                   ELSE s, fds)
    /\ ctx' = BackIn(ctx)
    /\ UNCHANGED <<lineVars, tmp, stray, files, args, out, faults>>

\* An interrupt kills the command.  The handler of the shell sets the status
\* to 1; the wait may be cut short, and -1 is taken for the status then, or
\* what the variable of exec_sub held when it is the wait for a subshell.
Interrupt ==
    /\ spc = "undo" /\ rpc = "forgotten"
    /\ faults > 0 /\ faults' = faults - 1
    /\ \E s \in {130, -1} \union (IF Cmd.sub THEN Uninitialized ELSE {}) : EndsWith(s, fds)
    /\ ctx' = BackIn(ctx)
    /\ last' = 1
    /\ UNCHANGED <<environ, lines, docs, stdin, tmp, stray, files, args, out>>

\* At any other time just the status is set: this is when it is used.
InterruptShell ==
    /\ spc = "expand" /\ last # 1
    /\ faults > 0 /\ faults' = faults - 1
    /\ last' = 1
    /\ UNCHANGED <<environ, lines, docs, stdin, cmds, tmp, stray, files, ctx, stack, args, out,
                   status, spc, redirVars>>

ProgramEnds == spc = "end" /\ lines = <<>> /\ UNCHANGED vars

ShellNext ==
    \/ BeginLine
    \/ \E n \in 0..Len(stdin) : ReadDoc(n)
    \/ PromptFails \/ PromptDone
    \/ LineDone \/ Skip \/ StartSimple
    \/ StartSub \/ SubForkFails \/ SubGoesOn
    \/ ExpandFails \/ ExpandArgs \/ ToolForkFails
    \/ OpenFile \/ CopyFails \/ OpenRefused \/ RedirectFailed
    \/ RunBuiltin \/ LeaveSubshell \/ LeaveShell \/ RunTool \/ Undo
    \/ BuiltinEnds \/ ToolEnds \/ Interrupt \/ InterruptShell
    \/ ProgramEnds

ShellSpec == ShellInit /\ [][ShellNext]_vars

----------------------------------------------------------------------------
(* Properties: descriptors. *)

\* A command is executed with each descriptor the shell has as the last
\* redirection of it left it, those behind the parentheses around the command
\* coming first.  Of descriptors the shell has not it is given the copies that
\* the subshell took and never closes, one for each of those redirections, and
\* nothing else.
CommandTable ==
    rpc = "forgotten" =>
        LET shell == Last(stack).fds
            list == (IF Cmd.sub THEN Cmd.outer ELSE <<>>) \o Cmd.redirs
            opened == (IF Cmd.sub THEN stack[1].given ELSE <<>>) \o given
        IN  /\ \A n \in Fd : shell[n] # Closed =>
                  LET of == {k \in DOMAIN list : list[k].fd = n}
                  IN  fds[n] = IF of = {} THEN shell[n] ELSE opened[Max(of)]
            /\ Cardinality(Free(shell) \ Free(fds)) = IF Cmd.sub THEN Len(Cmd.outer) ELSE 0

----------------------------------------------------------------------------
(* Properties: here documents. *)

\* Where the n-th document ends in what is typed for a line.
EndOf(line, n) ==
    LET ends[k \in 0..Len(DocsOf(line))] ==
            IF k = 0 THEN 0
            ELSE LET hits == {m \in (ends[k - 1] + 1)..Len(line.stdin) :
                                 line.stdin[m] = DocsOf(line)[k].word}
                 IN  IF hits = {} THEN Len(line.stdin) + 1 ELSE Min(hits)
    IN  ends[n]

\* A document in /tmp is what was typed between the delimiters before and for
\* it, in the order of the redirections on the line, those of commands that
\* will be skipped included (prompt_heredoc).  So it is when input comes line
\* by line and no reader is cut short.
HereFilesAreTyped ==
    spc # "end" /\ lines[1].block = 1 /\ faults = MaxFaults =>
        \A n \in DOMAIN DocsOf(lines[1]) :
            DocsOf(lines[1])[n].key \in DOMAIN tmp =>
                tmp[DocsOf(lines[1])[n].key] =
                    SubSeq(lines[1].stdin, EndOf(lines[1], n - 1) + 1, EndOf(lines[1], n) - 1)

----------------------------------------------------------------------------
(* Properties: words. *)

\* What a word of segments stands for: its characters, each with whether it
\* is quoted and whether it comes from a variable.
Chars(word) ==
    FlattenSeq([k \in DOMAIN word |->
        LET expands == word[k].var /\ word[k].quote # "'"
            value == ValueOf(word[k].text, ctx, last)
            text == CASE ~expands /\ word[k].var -> <<"$">> \o word[k].text
                      [] ~expands -> word[k].text
                      [] OTHER -> IF value = Null THEN <<>> ELSE value
        IN  [j \in DOMAIN text |-> [c |-> text[j], quoted |-> word[k].quote # "",
                                    value |-> expands]]])

Cut(ch) == ch.value /\ ~ch.quoted /\ ch.c = " "
Active(ch) == ~ch.quoted /\ ch.c = "*"

\* The fields of a word: it is cut at the blanks of unquoted values.
Fields(word) ==
    LET chars == Chars(word)
        starts == {k \in DOMAIN chars : ~Cut(chars[k]) /\ (k = 1 \/ Cut(chars[k - 1]))}
        order == InOrder(starts, Less(starts))
        Field(k) == SubSeq(chars, k, Min({j \in k..Len(chars) :
                                            j = Len(chars) \/ Cut(chars[j + 1])}))
    IN  IF starts = {} /\ \E k \in DOMAIN word : word[k].quote # "" THEN << <<>> >>
        ELSE [n \in DOMAIN order |-> Field(order[n])]

\* f is a way to fill the asterisks of p.
Matches(p, f) ==
    \E cut \in [0..Len(p) -> 0..Len(f)] :
        /\ cut[0] = 0 /\ cut[Len(p)] = Len(f)
        /\ \A k \in DOMAIN p :
              IF p[k] = "*" THEN cut[k] >= cut[k - 1]
              ELSE cut[k] = cut[k - 1] + 1 /\ p[k] \in {"?", f[cut[k]]}

\* A field with an asterisk that is not quoted is replaced by the names that
\* match, hidden ones only for a pattern with a dot, in order.
Meaning(field) ==
    LET text == [k \in DOMAIN field |-> field[k].c]
        found == {f \in NamesIn(ctx.cwd) :
                     Matches(text, f) /\ (text[1] = "." \/ f[1] # ".")}
    IN  IF found = {} \/ \A k \in DOMAIN field : ~Active(field[k]) THEN <<text>>
        ELSE SetToSortSeq(found, LAMBDA s, t : s # t /\ NotAfter(s, t))

\* Words the code is known to take differently: an empty value outside of
\* quotes, which makes an empty argument, a value that ends in a blank or that
\* a valid character follows, a quoted blank or an empty quotation
\* before a value that is cut, and an asterisk with another that is quoted,
\* with a quoted blank, or with a value that is cut.
Plain(word) ==
    LET chars == Chars(word)
        cuts == {k \in DOMAIN chars : Cut(chars[k])}
        stars == {k \in DOMAIN chars : chars[k].c = "*"}
    IN  /\ \A k \in DOMAIN word :
              word[k].var /\ word[k].quote = "" => ValueOf(word[k].text, ctx, last) # <<>>
        /\ cuts # {} => /\ stars = {}
                        /\ \A k \in DOMAIN word : word[k].text # <<>>
                        /\ ~Cut(chars[Len(chars)])
        /\ \A k \in cuts : k < Len(chars) /\ chars[k + 1].value
        /\ \A k \in DOMAIN chars :
              chars[k].quoted /\ chars[k].c = " " => stars = {} /\ \A j \in cuts : j < k
        /\ \A k \in stars : \/ Active(chars[k])
                            \/ ~chars[k].value /\ \A j \in stars : ~Active(chars[j])
        /\ \A k \in 2..Len(word) :
              word[k - 1].var /\ word[k - 1].quote = "" /\ word[k].quote = "" /\ ~word[k].var
                  => word[k].text = <<>> \/ ~ValidChar(word[k].text[1])

\* The arguments of a command are what its words mean to a shell: quotes
\* keep blanks, asterisks and, single ones, dollars; values are cut; names are
\* matched and sorted; a word with nothing in it is no argument.  So it is as
\* long as a descriptor is left to read the directory with.
ArgsAreMeant ==
    (spc = "redir" /\ Free(orig) # {} /\ \A k \in DOMAIN Cmd.words : Plain(Cmd.words[k])) =>
        args = FlattenSeq([k \in DOMAIN Cmd.words |->
                   FlattenSeq([n \in DOMAIN Fields(Cmd.words[k]) |->
                                  Meaning(Fields(Cmd.words[k])[n])])])

----------------------------------------------------------------------------
(* Properties: builtins. *)

Running == spc = "redir" /\ spc' = "undo" /\ IsBuiltin(args)
Rest == Range(Tail(args))
Ran(name) == args[1] = Str(name)
NameOf(s) == IF Holds(s, "=") THEN Take(s, PlaceOf(s, "=") - 1) ELSE s
IsName(s) == s # <<>> /\ s[1] \in Letters /\ \A k \in DOMAIN s : s[k] \in Letters \/ Holds(Digits, s[k])
Simple(s) == IsName(NameOf(s)) /\ ~Holds(s, "+")

\* After `export NAME=VALUE` the variable has the value, whatever entries
\* there are that begin like its name; after `unset NAME` there is none; and
\* after `cd DIR` OLDPWD is where the shell was, as far as it knew, unless the
\* name of that directory has a '+', which is taken for that of `+=`.
AssignmentsTakeEffect ==
    [][Running =>
        /\ (Ran("export") /\ \A s \in Rest : Simple(s)) =>
              \A k \in 2..Len(args) :
                  (Holds(args[k], "=") /\ \A j \in (k + 1)..Len(args) : NameOf(args[j]) # NameOf(args[k]))
                      => GetValue(NameOf(args[k]), ctx'.env) = Drop(args[k], PlaceOf(args[k], "="))
        /\ Ran("unset") => \A s \in Rest : IsName(s) => GetValue(s, ctx'.env) = Null
        /\ Ran("cd") /\ Len(args) > 1 /\ status' = 0 =>
              /\ ctx'.cwd = args[2] /\ ctx'.last_pwd = args[2]
              /\ ~Holds(ctx.last_pwd, "+") =>
                    GetValue(Str("OLDPWD"), ctx'.env) = ctx.last_pwd]_vars

\* The names a builtin may change the value of: the one it is given, with a
\* '+' also one that begins like what is before it, and for unset one its
\* argument begins with.
Concerns(name) ==
    \/ Ran("export") /\ \E s \in Rest :
           \/ name = NameOf(s)
           \/ /\ Holds(s, "+")
              /\ Take(name, PlaceOf(s, "+") - 1) = Take(s, PlaceOf(s, "+") - 1)
    \/ Ran("unset") /\ \E s \in Rest : Take(s, Len(name)) = name
    \/ Ran("cd") /\ name = Str("OLDPWD")

\* All other variables keep their value, also in the array made anew.
OthersUntouched ==
    [][Running =>
        \A name \in {NameOf(ctx.env[k]) : k \in DOMAIN ctx.env} :
            Concerns(name) \/ GetValue(name, ctx'.env) = GetValue(name, ctx.env)]_vars

\* What a builtin writes goes to the file of the last redirection of the
\* standard output, or to the one the shell had, if it had one (if not, the
\* number may be that of a copy); echo without options writes
\* its arguments and a newline; export lists each variable once, in order.
OutputIsRight ==
    (spc = "undo" /\ rpc = "restore" /\ IsBuiltin(args)) =>
        LET of == {k \in DOMAIN redirs : redirs[k].fd = 1}
        IN  /\ orig[1] # Closed => out.to = IF of = {} THEN orig[1] ELSE given[Max(of)]
            /\ Ran("echo") /\ (\A s \in Rest : Take(s, 1) # <<"-">>) =>
                  out.text = <<(IF Rest = {} THEN <<>> ELSE Joined(Tail(args))) \o <<"\n">> >>
            /\ args = <<Str("export")>> =>
                  /\ \A k \in 2..Len(out.text) : NotAfter(out.text[k - 1], out.text[k])
                  /\ \A e \in Range(ctx.env) :
                        Cardinality({k \in DOMAIN out.text : out.text[k] = e}) =
                        IF Hidden(ctx, e) THEN 0
                        ELSE Cardinality({k \in DOMAIN ctx.env : ctx.env[k] = e})

=============================================================================
