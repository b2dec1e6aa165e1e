------------------------------- MODULE Recon -------------------------------
(***************************************************************************)
(* The program as a whole (src/recon/scprecon.c): a run with some options   *)
(* resets, lists, removes, scans one target or every domain of the list,    *)
(* and resolves, in this order; the files stay for the next run.            *)
(*                                                                         *)
(* Everything is read with one line reader, which keeps what it has read    *)
(* behind a line for the next call, whatever descriptor that is for         *)
(* (GetNextLine models it; here a call is one operator).  The loops over    *)
(* domains.txt call functions that read commands.txt and other files to     *)
(* the end, and these get what was kept first.                             *)
(*                                                                         *)
(* A file is a sequence of symbols: characters, "NL" for a newline, and    *)
(* "$scp" and "$target" for what is replaced in a command.                 *)
(***************************************************************************)
EXTENDS Integers, Sequences, SequencesExt, FiniteSets, FiniteSetsExt, TLC, Ordering

CONSTANTS
    Symbols,       \* what files and arguments are made of
    BufferSize,    \* symbols of one read
    Argvs,         \* command lines, sequences of tokens
    Alnum,         \* letters and digits
    DomainFiles,   \* what domains.txt may be at first
    CommandFiles,  \* what commands.txt may be
    Typed,         \* what may be typed during a run
    Found,         \* what a resolution may find, as contents of a file
    MayBeLate,     \* whether tools may create their outputs after the collection
    MaxRuns        \* bound on the runs

ASSUME BufferSizeAssumption == BufferSize \in Nat \ {0}

File == Seq(Symbols)

ASSUME FilesAssumption ==
    /\ {"NL", "none"} \subseteq Symbols
    /\ DomainFiles \subseteq File /\ CommandFiles \subseteq File
    /\ Typed \subseteq File /\ Found \subseteq File
    /\ Argvs \subseteq Seq([letter: STRING, name: File])

\* A file, or an argument, that is not there.
None == <<"none">>

VARIABLES
    domains,    \* domains.txt
    commands,   \* commands.txt
    outputs,    \* the numbers k of the files ./output/file-k.txt there are
    resolved,   \* resolved[d], for some names d: ./output/<d>-resolve.txt
    opts,       \* what parse_arguments has set
    processes,  \* the size of the pool
    left,       \* what the line reader keeps
    rest,       \* what is left to read of the file a loop is over
    stdin,      \* what is left to read of what is typed
    num,        \* num_commands of the previous scan
    target,     \* the domain that is scanned
    cmds,       \* its commands
    inside,     \* the program is in ./output, where a failed reset leaves it
    oldPath,    \* old_path of resolve_domains: "null" or "freed"
    pc,         \* where the program is
    code,       \* the status it ended with, -1 while it runs
    runs,       \* runs begun
    tools,      \* the tools that are still to create an output, also of earlier runs
    source,     \* history: what the loop has to read, kept symbols included
    used,       \* history: what it has been given so far
    strays,     \* history: what was kept when commands were read, per scan
    intruded,   \* history: of these, those of scans for which an earlier tool created output 0
    scanned     \* history: domains scanned to the end

files == <<domains, commands, outputs, resolved>>
reading == <<left, rest, source, used>>
scanning == <<num, target, cmds, processes, strays, scanned>>
late == <<tools, intruded>>
fixed == <<commands, opts, runs, late>>
vars == <<files, reading, scanning, opts, stdin, inside, oldPath, pc, code, runs, late>>

----------------------------------------------------------------------------
(* Options. *)

Defaults == [target |-> None, remove |-> None, processes |-> 10, resolve |-> FALSE,
             listing |-> FALSE, reset |-> FALSE, outputs |-> FALSE, usage |-> -1]

\* getopt_long with "u:n:o:d:p:rlamh": letters in Argument take the token that
\* follows, whatever it is; -o does, although its argument is not used.  The
\* number given with -p is 1 here.
Argument == {"u", "n", "o", "d", "p"}

Option(o, letter, value) ==
    CASE letter = "u" -> [o EXCEPT !.target = value]
      [] letter = "d" -> [o EXCEPT !.remove = value]
      [] letter = "p" -> [o EXCEPT !.processes = 1]
      [] letter = "r" -> [o EXCEPT !.resolve = TRUE]
      [] letter = "l" -> [o EXCEPT !.listing = TRUE]
      [] letter = "m" -> [o EXCEPT !.reset = TRUE]
      [] letter = "h" -> [o EXCEPT !.usage = 0]
      [] letter = "o" -> [o EXCEPT !.outputs = TRUE]
      [] letter \in {"n", ""} -> o
      [] OTHER -> [o EXCEPT !.usage = 1]

\* The first letter that asks for the usage, or is unknown, ends it, and so
\* does an argument that is missing; a token without a letter is passed over.
ParseArgument(argv, s, k) ==
    LET letter == argv[k].letter
    IN  IF s.skip THEN [s EXCEPT !.skip = FALSE]
        ELSE IF s.o.usage >= 0 THEN s
        ELSE IF letter \notin Argument THEN [s EXCEPT !.o = Option(@, letter, None)]
        ELSE IF k = Len(argv) THEN [s EXCEPT !.o.usage = 1]
        ELSE [o |-> Option(s.o, letter, argv[k + 1].name), skip |-> TRUE]

ParseArguments(argv) ==
    LET parsed[k \in 0..Len(argv)] ==
            IF k = 0 THEN [o |-> Defaults, skip |-> FALSE]
            ELSE ParseArgument(argv, parsed[k - 1], k)
    IN  parsed[Len(argv)].o

----------------------------------------------------------------------------
(* Reading. *)

Take(s, n) == SubSeq(s, 1, Min({n, Len(s)}))
Drop(s, n) == SubSeq(s, n + 1, Len(s))
LineEnd(s) == Min({Len(s)} \union {k \in DOMAIN s : s[k] = "NL"})

\* A variant that forgets what was kept when it has to read.
GetNextLineForgets(kept, file) ==
    LET Has(n) == "NL" \in Range(kept \o Take(file, n))
        n == Min({Len(file)} \union {m \in 0..Len(file) : m % BufferSize = 0 /\ Has(m)})
        buffer == IF n > 0 THEN Take(file, n) ELSE kept
    IN  [line |-> Take(buffer, LineEnd(buffer)), left |-> Drop(buffer, LineEnd(buffer)),
         rest |-> Drop(file, n)]

\* get_next_line: blocks are read until there is a newline; the empty line
\* stands for NULL.
GetNextLine(kept, file) ==
    LET Has(n) == "NL" \in Range(kept \o Take(file, n))
        n == Min({Len(file)} \union {m \in 0..Len(file) : m % BufferSize = 0 /\ Has(m)})
        buffer == kept \o Take(file, n)
    IN  [line |-> Take(buffer, LineEnd(buffer)), left |-> Drop(buffer, LineEnd(buffer)),
         rest |-> Drop(file, n)]

\* The lines of a loop that reads to the end, with their newlines.
Starts(s) == {k \in DOMAIN s : k = 1 \/ s[k - 1] = "NL"}
LineAt(s, k) == Take(Drop(s, k - 1), LineEnd(Drop(s, k - 1)))
LinesAt(s, I) == [n \in 1..Cardinality(I) |-> LineAt(s, InOrder(I, Less(I))[n])]
Lines(s) == LinesAt(s, Starts(s))

IsEntry(line) == line # <<>> /\ line[1] \notin {"NL", "#"}
Entries(s) == LinesAt(s, {k \in Starts(s) : IsEntry(LineAt(s, k))})
Chomp(line) == IF line # <<>> /\ Last(line) = "NL" THEN Front(line) ELSE line
DomainsOf(s) == [k \in DOMAIN Entries(s) |-> Chomp(Entries(s)[k])]

----------------------------------------------------------------------------
(* The order of main. *)

Init ==
    /\ domains \in DomainFiles /\ commands \in CommandFiles
    /\ outputs = {} /\ resolved = <<>>
    /\ opts = Defaults /\ processes = 10 /\ stdin = <<>>
    /\ left = <<>> /\ rest = <<>> /\ source = <<>> /\ used = <<>>
    /\ num = 0 /\ target = None /\ cmds = <<>> /\ strays = <<>> /\ scanned = <<>>
    /\ inside = FALSE /\ oldPath = "null"
    /\ pc = "exited" /\ code = 0 /\ runs = 0 /\ tools = {} /\ intruded = {}

Goto(next) == pc' = next /\ UNCHANGED code
ExitWith(s) == pc' = "exited" /\ code' = s

Start ==
    /\ pc = "exited" /\ runs < MaxRuns
    /\ \E argv \in Argvs :
          LET o == ParseArguments(argv)
          IN  /\ opts' = o /\ processes' = o.processes
              /\ IF o.usage >= 0 THEN ExitWith(o.usage) ELSE pc' = "reset" /\ code' = -1
    /\ left' = <<>> /\ rest' = <<>> /\ source' = <<>> /\ used' = <<>>
    /\ num' = 0 /\ target' = None /\ cmds' = <<>> /\ strays' = <<>> /\ scanned' = <<>>
    /\ inside' = FALSE /\ oldPath' = "null" /\ stdin' = <<>>
    /\ runs' = runs + 1 /\ commands' \in CommandFiles /\ intruded' = {}
    /\ UNCHANGED <<domains, outputs, resolved, tools>>

\* reset_all: one line, executed by the program itself, cd too.  A tool that
\* fails ends it: before the last cd, before or after the list is removed.
ResetAll ==
    LET cleared == outputs' = {} /\ resolved' = <<>>
    IN  /\ pc = "reset"
        /\ \/ ~opts.reset /\ UNCHANGED <<domains, outputs, resolved, inside>>
           \/ opts.reset /\ cleared /\ domains' \in {<<>>, domains, None} /\ UNCHANGED inside
           \/ opts.reset /\ inside' = TRUE /\ UNCHANGED domains
              /\ (cleared \/ UNCHANGED <<outputs, resolved>>)
        /\ Goto("list")
        /\ UNCHANGED <<fixed, stdin, oldPath, reading, scanning>>

Missing(f) == inside \/ f = None

\* -l reads the list to its end, and the run goes on.
HandleListing ==
    /\ pc = "list"
    /\ IF opts.listing /\ Missing(domains) THEN ExitWith(1) ELSE Goto("remove")
    /\ UNCHANGED <<files, opts, runs, late, stdin, inside, oldPath, reading, scanning>>

\* -d: all lines but those of the domain, each with a newline.
Without(file, name) ==
    FlattenSeq([k \in DOMAIN Lines(file) |->
        IF Chomp(Lines(file)[k]) = name THEN <<>> ELSE Append(Chomp(Lines(file)[k]), "NL")])

HandleRemoveDomain ==
    /\ pc = "remove"
    /\ IF opts.remove # None /\ Missing(domains) THEN ExitWith(1) /\ UNCHANGED domains
       ELSE /\ Goto("scan")
            /\ domains' = IF opts.remove = None THEN domains ELSE Without(domains, opts.remove)
    /\ UNCHANGED <<fixed, outputs, resolved, stdin, inside, oldPath, reading, scanning>>

\* ft_count_coomands; nothing is kept when it is called.
Count == IF Missing(commands) THEN 0 ELSE Len(Entries(commands))

MaxLabel == 63

\* Labels of letters, digits and hyphens, with dots between them; each begins
\* and ends with a letter or a digit.
ValidDomainName(name) ==
    LET dots == {k \in DOMAIN name : name[k] = "."} \union {0, Len(name) + 1}
    IN  /\ name # <<>>
        /\ \A k \in DOMAIN name : name[k] \in Alnum \union {".", "-"}
        /\ \A k \in dots \ {Len(name) + 1} :
              name[k + 1] \in Alnum /\ \E j \in dots : k < j /\ j <= k + MaxLabel + 1
        /\ \A k \in dots \ {0} : name[k - 1] \in Alnum

\* check_domain returns at the line it looks for, or at once when there is no
\* list; what was read behind the line is kept.
KeptByCheck ==
    LET found == {k \in Starts(domains) : Chomp(LineAt(domains, k)) = opts.target}
        size == Min(found) - 1 + Len(LineAt(domains, Min(found)))
        blocks == {m \in 0..Len(domains) : m % BufferSize = 0 /\ m >= size}
    IN  IF Missing(domains) \/ found = {} THEN <<>>
        ELSE Drop(Take(domains, Min(blocks \union {Len(domains)})), size)

OnList == \E k \in DOMAIN Lines(domains) : Chomp(Lines(domains)[k]) = opts.target

\* A target that is not found is added to the list.
HandleTarget ==
    /\ pc = "scan" /\ opts.target # None
    /\ IF ~ValidDomainName(opts.target) THEN ExitWith(1) ELSE Goto("commands")
    /\ left' = IF ValidDomainName(opts.target) THEN KeptByCheck ELSE left
    /\ domains' = IF ~ValidDomainName(opts.target) \/ Missing(domains) \/ OnList THEN domains
                  ELSE domains \o opts.target \o <<"NL">>
    /\ target' = opts.target /\ num' = Count
    /\ UNCHANGED <<fixed, outputs, resolved, stdin, rest, source, used, cmds, processes, strays,
                   scanned, inside, oldPath>>

\* A loop over domains.txt begins.
OpensList ==
    /\ rest' = domains /\ source' = left \o domains /\ used' = <<>>
    /\ UNCHANGED left

OpenDomains ==
    /\ pc = "scan" /\ opts.target = None
    /\ num' = Count
    /\ IF Missing(domains) THEN ExitWith(1) /\ UNCHANGED reading ELSE Goto("line") /\ OpensList
    /\ UNCHANGED <<files, opts, runs, late, stdin, target, cmds, processes, strays, scanned, inside,
                   oldPath>>

\* Its next line: an entry goes on at `next`, the end at `end`.
NextLine(here, next, end) ==
    LET r == GetNextLine(left, rest)
    IN  /\ pc = here
        /\ left' = r.left /\ rest' = r.rest /\ used' = used \o r.line
        /\ target' = IF IsEntry(r.line) THEN Chomp(r.line) ELSE target
        /\ CASE r.line = <<>>   -> IF end = "exited" THEN ExitWith(0) ELSE Goto(end)
             [] IsEntry(r.line) -> Goto(next)
             [] OTHER           -> Goto(here)
        /\ UNCHANGED <<files, opts, runs, late, stdin, source, num, cmds, processes, strays, scanned,
                       inside, oldPath>>

----------------------------------------------------------------------------
(* One domain: fork_and_expand_and_exec_commands and the collection. *)

\* A variant that reads what was kept last.
KeptLast == commands \o left

\* What is read as commands.
ReadAsCommands == left \o commands

ReplaceSymbol(s, pattern, by) ==
    FlattenSeq([k \in DOMAIN s |-> IF s[k] = pattern THEN by ELSE <<s[k]>>])

\* expand_command: the k-th command, counted from 0, writes the file k.
Output(k) == "./output/file-" \o ToString(k) \o ".txt"
ExpandCommand(line, k) ==
    ReplaceSymbol(ReplaceSymbol(Chomp(line), "$scp", <<Output(k)>>), "$target", target)

\* A list of domains has no place for an output, and an output is named in its
\* place only.
ASSUME OutputsAssumption ==
    /\ DomainFiles \subseteq Seq(Symbols \ {"$scp"}) /\ "$scp" \notin Alnum
    /\ Output(0) \notin Symbols

\* The outputs of as many commands as there were are removed, the commands
\* are read.
ReadCommands ==
    /\ pc = "commands"
    /\ outputs' = outputs \ (0..(num - 1))
    /\ IF Missing(commands) THEN ExitWith(1) /\ UNCHANGED <<cmds, left, used, strays>>
       ELSE /\ cmds' = [k \in DOMAIN Entries(ReadAsCommands) |->
                        ExpandCommand(Entries(ReadAsCommands)[k], k - 1)]
            /\ strays' = Append(strays, left) /\ left' = <<>> /\ used' = used \o left
            /\ Goto("pool")
    /\ UNCHANGED <<fixed, domains, resolved, stdin, rest, source, num, target, processes, scanned,
                   inside, oldPath>>

\* What creates its output: a command that mentions it, whatever the rest of
\* it is and whether or not it can be executed.
Created == {k - 1 : k \in {j \in DOMAIN cmds : Output(j - 1) \in Range(cmds[j])}}

\* The pool (module Pool): n commands are started.  A fork that fails ends the
\* program; a full pool is given up if the child waited for has succeeded, and
\* so is a scan without commands.
RunPool ==
    LET size == Max({processes, Len(cmds)})
    IN  /\ pc = "pool"
        /\ processes' = size
        /\ num' = Len(cmds)
        /\ \E n \in 0..Len(cmds) :
              /\ tools' = tools \union
                    [run: {runs}, scan: {Len(strays)}, output: Created \intersect (0..(n - 1))]
              /\ \/ n < Len(cmds) /\ ExitWith(1)
                 \/ n = Len(cmds) /\ cmds # <<>> /\ Goto("collect")
                 \/ n = Len(cmds) /\ (cmds = <<>> \/ n = size) /\ ExitWith(1)
        /\ UNCHANGED <<files, opts, runs, intruded, stdin, target, cmds, strays, scanned, reading,
                       inside, oldPath>>

\* A tool creates its output, whatever the program does meanwhile, this run of
\* it or the next one.
ToolCreates ==
    \E tool \in tools :
        /\ tools' = tools \ {tool}
        /\ outputs' = outputs \union {tool.output}
        /\ intruded' =
              IF pc \in {"pool", "collect"} /\ tool.output = 0
                 /\ (tool.run # runs \/ tool.scan # Len(strays))
              THEN intruded \union {Last(strays)} ELSE intruded
        /\ UNCHANGED <<domains, commands, resolved, opts, runs, stdin, reading, scanning, inside,
                       oldPath, pc, code>>

\* Tools that are never late have all created their outputs by now.
InTime == MayBeLate \/ tools = {}

\* A variant that passes over outputs that are missing.
CollectWhatIsThere ==
    /\ pc = "collect" /\ InTime
    /\ scanned' = Append(scanned, target)
    /\ Goto(IF opts.target = None THEN "line" ELSE "outputs")
    /\ UNCHANGED <<files, opts, runs, late, stdin, num, target, cmds, processes, strays, reading,
                   inside, oldPath>>

\* The outputs are read one after the other; the first that is missing ends
\* the program.
Collect ==
    /\ pc = "collect" /\ InTime
    /\ IF 0..(num - 1) \subseteq outputs
       THEN /\ scanned' = Append(scanned, target)
            /\ Goto(IF opts.target = None THEN "line" ELSE "outputs")
       ELSE ExitWith(1) /\ UNCHANGED scanned
    /\ UNCHANGED <<files, opts, runs, late, stdin, num, target, cmds, processes, strays, reading,
                   inside, oldPath>>

\* -o, then -r.
RemoveOutputs ==
    /\ pc = "outputs"
    /\ outputs' = IF opts.outputs THEN {} ELSE outputs
    /\ IF opts.resolve THEN Goto("resolve") ELSE ExitWith(0)
    /\ UNCHANGED <<fixed, domains, resolved, stdin, inside, oldPath, reading, scanning>>

----------------------------------------------------------------------------
(* resolve_domains *)

\* HOME may not be set.  What will be typed is chosen here, nothing reads it
\* before.
OpenResolve ==
    /\ pc = "resolve" /\ stdin' \in Typed
    /\ \/ ~Missing(domains) /\ Goto("resolvers")
       \/ ExitWith(1)
    /\ UNCHANGED <<files, opts, runs, late, inside, oldPath, reading, scanning>>

\* The status a run ends with for an answer, or 256 when it goes on: no answer
\* is read through a null pointer, one that is neither yes nor no is refused.
Judge(answer) ==
    CASE answer = <<"y">> -> 256
      [] answer = <<"n">> -> 0
      [] OTHER -> 1

\* A file of the home directory that is missing: the user is asked.  What is
\* kept of a block that was typed ahead is given to the next reader.
Ask(here, next, cut) ==
    LET r == GetNextLine(left, stdin)
        s == IF r.line = <<>> THEN 139 ELSE Judge(IF cut THEN Chomp(r.line) ELSE r.line)
    IN  /\ pc = here
        /\ left' = r.left /\ stdin' = r.rest
        /\ IF s = 256 THEN Goto(next) ELSE ExitWith(s)
        /\ UNCHANGED <<files, opts, runs, late, rest, source, used, inside, oldPath, scanning>>

Has(here, next) ==
    /\ pc = here /\ Goto(next)
    /\ UNCHANGED <<files, opts, runs, late, stdin, inside, oldPath, reading, scanning>>

\* resolvers.txt; the newline of the answer is cut.
NeedsResolvers == Ask("resolvers", "subdomains", TRUE)
HasResolvers == Has("resolvers", "subdomains")

\* subdomains.txt; the newline is not cut, so that only an answer that ends
\* the input is one.
NeedsSubdomains == Ask("subdomains", "opened", FALSE)
HasSubdomains == Has("subdomains", "opened")

OpenNames ==
    /\ pc = "opened"
    /\ Goto("names") /\ OpensList
    /\ UNCHANGED <<files, opts, runs, late, stdin, inside, oldPath, scanning>>

\* With a resolution from before: it is renamed, puredns writes a new one and
\* the two are compared.  New lines are added to it by a loop that is given
\* first what was kept of domains.txt.
Resolve ==
    /\ pc = "name" /\ target \in DOMAIN resolved
    /\ \E found \in Found :
          LET old == {Chomp(l) : l \in Range(Lines(resolved[target]))}
              new == SelectSeq(Lines(found), LAMBDA l : Chomp(l) \notin old)
              added == IF new = <<>> THEN <<>>
                       ELSE Entries(left \o FlattenSeq([k \in DOMAIN new |-> Chomp(new[k]) \o <<"NL">>]))
          IN  /\ resolved' = [resolved EXCEPT ![target] = found \o FlattenSeq(added)]
              /\ IF new = <<>> THEN UNCHANGED <<left, used>>
                 ELSE left' = <<>> /\ used' = used \o left
    /\ oldPath' = "freed"
    /\ Goto("names")
    /\ UNCHANGED <<fixed, domains, outputs, stdin, rest, source, inside, scanning>>

\* puredns writes nothing: the program ends.
ResolveFindsNothing ==
    /\ pc = "name" /\ target \in DOMAIN resolved
    /\ resolved' = Restrict(resolved, DOMAIN resolved \ {target})
    /\ ExitWith(1)
    /\ UNCHANGED <<fixed, domains, outputs, stdin, inside, oldPath, reading, scanning>>

\* The first resolution of a domain is compared with a file of no name, which
\* ends the program; after another domain the name is one that was freed, and
\* freeing it again ends it if nothing did before.
ResolveFirst ==
    /\ pc = "name" /\ target \notin DOMAIN resolved
    /\ \/ UNCHANGED resolved
       \/ \E found \in Found : resolved' = (target :> found) @@ resolved
    /\ IF oldPath = "null" THEN ExitWith(1) ELSE \E s \in {1, 134} : ExitWith(s)
    /\ UNCHANGED <<fixed, domains, outputs, stdin, inside, oldPath, reading, scanning>>

Next ==
    \/ Start \/ ResetAll \/ HandleListing \/ HandleRemoveDomain
    \/ HandleTarget
    \/ OpenDomains \/ NextLine("line", "commands", "outputs")
    \/ ReadCommands \/ RunPool \/ ToolCreates \/ Collect
    \/ RemoveOutputs
    \/ OpenResolve
    \/ NeedsResolvers \/ HasResolvers \/ NeedsSubdomains \/ HasSubdomains
    \/ OpenNames
    \/ NextLine("names", "name", "exited")
    \/ Resolve \/ ResolveFindsNothing \/ ResolveFirst

Spec == Init /\ [][Next]_vars

----------------------------------------------------------------------------
(* Properties. *)

\* While a loop over domains.txt runs, every line of the list is given out
\* once, in order: to the loop, to the reader of the commands or to the list
\* a resolution adds to, or it is still to come; none is lost or read twice.
LinesConserved ==
    \/ pc \in {"names", "name"}
    \/ pc \in {"line", "commands", "pool", "collect"} /\ opts.target = None
    => source = used \o left \o rest

Whole(kept) == kept = <<>> \/ Last(kept) = "NL"
Plain == opts.target = None /\ opts.usage = -1

\* A run without a target that ends with success has scanned every domain of
\* the list, in order, if no read of it ended inside of a line and there are
\* commands: a line that is taken for a command is not passed over, since the
\* first output, which no such line creates, is removed before.  The exception
\* is a tool of an earlier scan, of this run or an earlier one, that creates its
\* output 0 between that removal and the collection: it stands in.
SuccessMeansScanned ==
    /\ pc \in {"outputs", "resolve"} /\ Plain
    /\ Entries(commands) # <<>> /\ \A k \in DOMAIN strays : Whole(strays[k])
    => scanned = DomainsOf(domains) \/ \E kept \in intruded : Entries(kept) # <<>>

\* The commands of a scan end with those of commands.txt, all of them if what
\* was kept ends with a newline, all but the first otherwise, each with the
\* output of its own place and the domain that is scanned; what comes before
\* is what was kept.
OwnCommandsRun ==
    pc \in {"pool", "collect"} =>
        LET kept == Last(strays)
            own == Entries(commands)
            skip == IF Whole(kept) THEN 0 ELSE 1
            before == Len(cmds) - Len(own)
        IN  /\ \A k \in (skip + 1)..Len(own) :
                  cmds[before + k] = ExpandCommand(own[k], before + k - 1)
            /\ Whole(kept) => before = Len(Entries(kept))

\* "Domain to monitor": a run without a target that ends with success has
\* scanned all domains of the list.
MonitoredAreScanned ==
    pc = "exited" /\ runs > 0 /\ code = 0 /\ Plain =>
        Range(DomainsOf(domains)) \subseteq Range(scanned)

=============================================================================
