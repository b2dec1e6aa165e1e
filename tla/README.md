# scprecon in TLA+

scprecon monitors the subdomains of a list of domains. For each domain of
`domains.txt` it runs the enumeration tools of `commands.txt` in parallel,
collects what they print into one list per domain, compares the list with that
of the scan before, and posts what is new to a Discord channel. The commands
are run by a small shell (a "minishell") that is compiled into the program.

Paths below are relative to the directory that holds the repository (`src/`),
so the C sources are under `src/src/`, the support library under
`src/lib/libft/`.

## The system

| Component | Sources | State | Operations |
| --- | --- | --- | --- |
| Line reader | `lib/libft/srcs/get_next_line*.c` | one static list of blocks `head`, shared by all descriptors | `get_next_line(fd)` |
| Process pool | `src/recon/creat_processes.c` | children, `i`, `*processes` | fork one child per command, wait for one child when the pool is full |
| Tool output | `src/recon/parse_domainname.c` (`check_files_if_all_exist`), `creat_files.c` | `./output/file-k.txt`, `num_commands` | unlink, (tools) create and write, read and append to the list |
| Lists and comparison | `src/recon/creat_files.c`, `compare_subdomains.c`, `post_to_discord.c` | `<t>-domains.txt`, `.old`, `new_subdomains.txt`, two hash tables | rotate, copy, compare, append, post, clean up |
| List of domains | `src/recon/recon_utils.c`, `remove.c`, `help.c`, `parse_domainname.c` | `domains.txt`, `domains_tmp.txt` | check and add (`-u`), remove (`-d`), reset (`-m`), list (`-l`) |
| Entry | `src/recon/scprecon.c`, `parse_domainname.c` (`parse_arguments`) | options, the directory, what the line reader keeps | parse options, reset, list, remove, scan, resolve, in this order |
| DNS resolution | `src/recon/resolve_domains.c` | `<t>-resolve.txt`, `old_path` | ask for the files of puredns, run it for each domain, compare |
| Shell: parser | `src/parsing/` (all but `heredoc.c`) | tokens, tree | `lexer`, `parse` |
| Shell: here documents | `src/parsing/heredoc.c`, `src/expanding/heredoc_expanding.c` | files in `/tmp` | `prompt_heredoc`, expansion when the document is opened |
| Shell: redirections | `src/execution/redirections.c` | table of descriptors | `redirect`, `reset_redir` |
| Shell: execution | `src/execution/` | tree, descriptors, children | `__exec` and the functions it calls |
| Shell: builtins | `src/builtin/` | environment, working directory, status | cd, echo, env, exit, export, pwd, unset |
| Shell: expansion | `src/expanding/` | argument lists | `$`, quotes, `*`, sorting |
| Signals | `src/signals/signals.c` | the status | the handler of SIGINT sets the status; any handler cuts a wait short |

How they interact. `main` handles the options in a fixed order (reset, list,
remove, scan, resolve). A scan reads the commands, forks one child per command - each
child runs the shell on its command and exits with 0 whatever the tool
returned - and goes on in the parent with the collection. Nothing but files
connects the tools with the parent; nothing but files connects one run of the
program with the next or with a run at the same time. Everything that is read
line by line in the parent goes through the one static list of the line reader.

What is hard here: the parent reads files that the tools are still writing;
tools of one domain live on while the next domain is scanned; a list is rotated,
rewritten, compared and reported in a dozen system calls, after each of which
the program may be killed or give up; runs of the program change `domains.txt`
without a lock; the line reader carries bytes from one descriptor to another.

What makes each part correct:

* line reader: no byte lost, doubled or reordered; a line ends at a newline or
  at the end of the file; every call returns;
* pool: every command is started; the parent never waits for nothing; what is
  waited for, and what is not;
* tool output: what is collected for a domain was written for that domain, in
  order and without gaps, and is complete if the tools were done;
* lists: every subdomain that the list before did not have is reported, and a
  fault that leaves the files intact changes nothing about the next report;
* list of domains: the operations of its user, one at a time, and nothing else;
* entry: every line of the list is read once, every domain is scanned with the
  commands of `commands.txt`, or the run does not end with success;
* shell: the tree that the grammar gives, the words that quotes and variables
  mean, the documents that were typed, descriptors as they were before the
  command, the status of the right process, no other variable touched.

## The modules

| Module | What it is | Checked by | Proved in |
| --- | --- | --- | --- |
| `GetNextLine` | the line reader with its callers and growing files | `MCGetNextLine` | `GetNextLineProofs` |
| `Pool` | the process pool over a sequence of domains | `MCPool` | `ScanProofs` |
| `Scan` | `Pool` composed with the output files, the tools and the collection | `MCScan` | `ScanProofs` |
| `Monitor` | abstract: what the comparison promises, for the scan under way and for lost messages | | |
| `Collect` | lists, comparison and report; implements `Monitor` | `MCCollect` | `CollectProofs` |
| `DomainSet` | abstract: a set of domains, changed one at a time and only as commands under way ask for | | |
| `DomainList` | `domains.txt` under concurrent runs; implements `DomainSet` | `MCDomainList` | `DomainListProofs` |
| `Pipeline` | the shell's execution of a command tree, with its processes and pipes | `MCPipeline` | `PipelineProofs` |
| `Parser` | the shell's lexer and parser, as functions | `MCParser` | |
| `Redirect` | the redirections of one command on a table of descriptors | through `Shell` | `ShellProofs` |
| `Ordering` | operators: sets of places of a sequence put in order | through `Collect`, `DomainList`, `Recon` | `OrderingProofs` |
| `Environ` | the array of variables and the builtins on it, as functions | through `Shell` | `ShellProofs` |
| `Expand` | the expansion of words, as functions (extends `Environ`) | through `Shell` | `ShellProofs` |
| `Shell` | a line from its here documents to its last command (extends `Expand`, `Redirect`) | `MCShell` | `ShellProofs` |
| `Recon` | the whole program: options, loops over the list, one reader for all files, resolution | `MCRecon`, `MCReconList` | `ReconProofs` |

Operators named as variants (`ReadBlockOnce`, `ForkLosesOne`, ...) are altered
forms of the action next to them. They are not part of any specification; they
stand for slips that the properties are meant to notice.

### GetNextLine

`front` and `last` hold the bytes of the list `head`: all nodes but the last,
and the last node. A call is a probe (`Call`, `ProbeFails`), the loop of
`create_nodes` (`ReadBlock`, `ReadFails`) and the cut of a line (`TakeLine`:
`take_line`, `allocate_after_newline`, `ft_lstclear` and `ft_lstadd_back` in one
step, for no other process sees the list). `rest[fd]` is what a descriptor has
left to read. Between two calls the caller may open any file on any descriptor
(`Open`), also without having read the one before to its end, as `check_domain`
does; at any time a tool may append to a file (`Grow`). The descriptors with
failing reads are the constant `Failing`. Bytes are letters and the newline; NUL
bytes, for which the C code ends a string, and failing allocations are left out.

### Pool

A round is one turn of the loop over the domains. `StartRound` is the reading of
`commands.txt` with the raise of `*processes`; `Fork`, `AllForked`, `Wait` are
`fork_processes` with `wait_process` inlined. `child` is the process table. A
child ends as `ok` (exit 0, whatever its tool returned: `fork_processes` ignores
the result of the command), `bad` (only an `exit` in the command itself, or a
failing fork of a pipe, gives another status) or `killed`. `WaitInterrupted` is
`waitpid` interrupted by a signal, possible once a command has run in the parent
and installed its handler. `CollectDone` and `CollectFails` stand for the
collection, which `Scan` details. `returned` and `interrupted` remember what the
wait of the round under way did, `child` is never cleared: a failure of an
earlier round does not count for `FullPoolNeedsFailure`. The only wait of a round
comes behind its last command (`PoolCorrect`).

### Scan

Extends `Pool`. `dir` binds the names `file-k.txt` to inodes, `tfd` is what a
tool has open, `data` the characters of a file. A character is kept as the place
where it was written, tool and number, and `Output` says which it is: a newline,
a `#`, or another. The unlinks of a round, done for the number of commands of the
round before (`numCommands`), are part of `RoundStarts`. The tools are external
programs: they truncate their output and then write character after character,
since a tool that buffers by blocks ends its writes anywhere. The collection opens
slot after slot; a missing file ends the program (`OutputMissing`). `ReadPiece` is
a turn of the loop of `creat_files.c:44-51`: what `get_next_line` returns ends
with a newline or with the file as it is at that moment, it is dropped if it
begins with a newline or a `#`, and put on the list as it is otherwise. So a line
that a tool was still writing comes in two pieces, or its beginning is glued to the
first line of the next slot, or its newline is dropped as if it were a blank line.
This is what the code does, and `CollectsInOrder` holds all the same: the
characters collected are those of the tools of this domain, in order and none
twice, and between them nothing is missing but pieces that begin with a newline or
a `#`. `QuietIsComplete` is about whole lines: if no tool was writing any more,
exactly the lines that are neither blank nor comments are collected, each of them
in full. A last line without a newline is whole as far as it goes, and may still be
glued to the next one. `Covered` names the rounds whose unlinks reach every name the next round
uses; with a commands file that grows during a scan old files stay.

### Collect

One action per system call that changes a file, or per loop turn:
`open_files_and_add_content_to_alldomains` (`Rotate` to `CopyLine`) and
`compare_files` (`Compare` to `Clean`). No file is opened with `O_TRUNC`, so
writing goes over what is there (`Put`). Lines have one length, so that an
overwritten line is replaced by the new one. `MetBefore` is the order in which a
walk over the hash table meets the lines, `Missing` the lines of a list that are
not in the table of the other, in that order. The faults are those the code
ignores or dies from: `mv` fails, an output is missing, the message is lost, the
program is killed before or after the list is created again.

### DomainList

`domains` and `tmp` are the inodes of the two names; each run has its own
descriptors and stdio buffer. One action per library call that touches a file.
A run may be killed at any step and then loses its buffer. `alone`, `calm` and
`single` remember whether runs have overlapped; the properties say which overlap
spoils what. An `-u` run ends when the target is on the list; its scan is the
subject of `Scan`.

### Pipeline

`tree` is the parsed command. A node is executed at most once and forks at most
one process, so processes carry the names of nodes, and the pipe that `add_pipe`
makes for element `m` of a pipeline is called `m`. `proc[p]` is a process: the
node that `__exec` is called for (`at`), what it does there (`ctl`), the value to
be returned, and its descriptors: `inp`, `out` and the pipe ends `held` on other
numbers. `Forked` copies all of it, as fork does; the child closes and connects
its descriptors in `StartTool` or `StartSubshell`, the parent closes its own in
`CloseEnds`, in either order. `exec_pipe` goes down to the first element one node
at a time (`GoDown`) and comes up again with a fork at each. `Return` is the return of `__exec` to
`exec_and_or` or to `exit`. `exec_sub` prints the status of the subshell, on
standard output and therefore into a pipe perhaps (`ReportStatus`).
`exec_pipe` returns 0, so the first `waitpid` takes
any child (`WaitFirst`), and the value of a pipeline is the status of the element
that ends first; `ResultIsRight` says no more than that it is one of them.
Commands are of four kinds: ends by itself, copies its input, writes for ever, is
run by the shell. Of redirections only those of subshells are there, for they
decide who keeps an end of a pipe; `Redirect` has them all. `pipe` never fails, and a status is zero or
not zero.

`TreesAssumption` says what the trees of the parser are: nodes are numbered
downwards, have one parent, and pipelines lean to the left and connect commands
and subshells. A subshell whose output goes to a file closes the pipe that it was
forked for when it starts, so that the filter behind it meets the end of its
input while the subshell runs. That is as it should be, and `NoEarlyEof` leaves
the case out (`WritesToFile`).

### Parser

`Lexer` gives the tokens of a line with their places, `Parse` the tree of a list
of token types, both recursive as in the C code; the static position of
`next_token` is a parameter. The state machine only types lines and lists. The
references are declarative: `RefusedLines` and `TokensAreTheLine` describe quotes
and tokens by sets of places, `Divided` divides a list at the last operator of
the lowest precedence. `RedirFd` and `RedirType` are the number in front of an
arrow and the kind of a redirection. The code takes a number of up to ten
characters; here `MaxFd` is two, so that lines of five characters reach it. The
code looks at the characters from the arrow backwards, so a number with leading
zeros is judged by its length, not its value, and one that is too long is -1.

### Redirect

`redirect` and `reset_redir` on `fds`, a table of `MaxFd + 1` descriptors in
which every new one is the lowest free one. One action per element of the list:
`Install` opens, keeps the copy `bak`, replaces and closes; `OpenFails`,
`DupFails` are the ways to give up. A list that fails half way is not undone:
`reset_redir` starts at the element in hand, and those before it stay
(`GiveUp`); what stays open of the files of a document that could not be copied
is counted (`FailureDamage`). `UndoOne` walks back from the last element, putting the copies in
place for a builtin and only closing them in a child.

### Environ and Expand

The environment is kept as the code keeps it, an array of strings, because names
are found by comparing beginnings of strings: `unset` removes any name that its
argument begins with; an argument with a `+` anywhere is an addition;
`NAME` alone, as `export NAME` makes it, is dropped by the next `unset` of
anything, and how such a string compares with others depends on the address the
heap gave it (`wraps`). `cd` exports `OLDPWD=` with the directory it leaves, and a
`+` in the name of that directory makes an addition of it: `OLDPWD` is then not
replaced, but an entry that begins like all before the `+` is lengthened, or one
more entry is put behind the others.
`Expand` has quotes, `$`, cutting, wildcards and the merge sort, with an asterisk
in a quoted value still taken for a wildcard, as the code takes it. What is
recursive in C is a recursive function of places here: how much of two lists is
merged, which part of a list is sorted, what is left of a pattern and of a name.
`Shell.Plain` names the words for which the code differs from the rules of a shell.
A directory always has names; `names = {}` stands for one that does not open. A
word then ends in front of its first wildcard, the other words stay
(`asterisk.c:86-88,119-120`; `expanding.c:130` does not look at the result).
`ListExport` is `export` without arguments, which fails if there is nothing to list.

### Shell

A start is an environment, a table of descriptors and some lines; a line is a
list of simple commands joined by `&&` and `||`, each perhaps in parentheses.
`ReadDoc` reads a here document in a child, in blocks, so that what was typed
ahead is lost with it; documents inside of parentheses are never asked for, and
those of skipped commands stay in `/tmp` (`stray`). `Listing` is what `opendir`
and `readdir` yield, nothing if no descriptor is left. If nothing at all is left of
the words of a command, not even an empty one, it ends with 1 (`ExpandFails`); the
same with a line of a document makes the redirection fail, with both files of
the document left open (`LineLost`). `ExpandArgs`, `OpenFile` and
its failures, `RunBuiltin` or `RunTool`, `Undo` and the end of the command follow
`exec_cmd`. `stack` holds what the processes that wait will go on with, so
nothing of a child comes back but its status. Between two lines the context is
made anew from the environment of the program, while the directory and the
descriptors stay as the line before has left them. `pwd` frees an array on its
stack and takes the process with it, with status 134. The faults are a failing
fork, an interrupt at a prompt, at a command or at any other time, and failing
calls for want of a descriptor. An interrupt may also cut a wait short: the status
is then -1 after a command, and after a command in parentheses whatever the
variable of `exec_sub` held (`Uninitialized`, `pipes.c:56-69`). `OutputIsRight` speaks of a standard output the
shell has: if it was started without one, `open` may give its number to a copy,
and the builtin then writes there.

`CommandTable` says with which table a command is executed, in parentheses too.
`exec_sub` performs the redirections behind the parentheses and never resets
them, so the copies it took reach the command, one for each of these redirections;
`stack[1].given` is what was opened for them. Of the redirections of the command
itself no copy is left (`reset_redir` in the child). A process that is
interrupted in parentheses ends here; that it could go on beside a shell whose wait
was cut short is left out, and so is a list in parentheses as the last element of a
pipeline (`exec_last_piped_cmd`), which keeps its copies in the same way.

### Recon

`GetNextLine` here is one operator for a whole call, with the reader's leftover
`left` as state; module `GetNextLine` shows that a call does this. A file is a
sequence of `Symbols`; its lines begin at the places `Starts` and are put in order
with `Ordering`. `ParseArguments` is `getopt_long` with `parse_arguments`, one
`ParseArgument` after the other. `ReadCommands` is given what the loop
over `domains.txt` has left in the reader before it gets `commands.txt`. The pool
is one step with the outcomes `Pool` has: it starts some of the tools, all if no
fork fails. Each tool that was started and names its output creates it at some
later time (`ToolCreates`, `tools`), which may be after this run of the program
and after the next one has removed the outputs (`check_files_if_all_exist`). The
collection is one step with the outcomes of `Scan`. `ResetAll` runs one shell line in the program itself, so a failing tool
in its middle leaves the program in `./output`, where it finds none of its files.
`NeedsResolvers` and `NeedsSubdomains` are the questions of `resolve_domains`: of
the second answer the newline is not cut, so that only an answer that ends the
input is taken for one, and what is typed ahead of an answer is kept by the
reader and is the first "domain" of the loop that follows. `oldPath` is the
pointer that `resolve_domains` frees and uses again.

## The runs

| Run | States | What it shows |
| --- | --- | --- |
| `getnextline` | 680,000 | reader properties for blocks of 2 bytes and lines shorter than, as long as and longer than a block |
| `pool` | 78,000 | pool properties for rounds of 2, 3, 1 and 0 commands in a pool of 2 |
| `pool_budget` | violation | more tools at once than asked for, see Findings |
| `scan` | 1,840,000 | two domains, two commands each, tools that write lines, fragments and comments character by character |
| `collect` | 1,130,000 | three scans of two targets with all faults, also that the files implement `Monitor` |
| `domainlist` | 74,000 | three runs of the program, two at a time; also that the file implements `DomainSet` |
| `domainlist_target` | violation | the first target is not put on the list, see Findings |
| `pipeline` | 91,500 | seven trees with all interleavings of their processes and one fault |
| `parser` | 1,140,000 | all lines of five characters, all lists of seven tokens |
| `shell` | 145,000 | some two thousand starts: redirections, documents, builtins, words; with one fault at any place; also that all the shell does to descriptors is a behaviour of `RedirectSpec` |
| `recon` | 694,000 | all lists of up to three lines and all options, two runs in a row, outputs that come at any time |
| `recon_list` | violation | a run ends with success though a domain was not scanned, see Findings |

Bounds, and why they are enough. `MaxChanges` (openings and appends): three, so
that a second file can be opened behind the leftover of a first and one of them
grow. `Rounds`, `NumCmds`: a round that fills the pool, one that raises its size,
one that leaves it half empty and one that gives up; two rounds for `Scan`,
since a tool can only disturb a later round through the names it shares with it,
and any two rounds stand for that. `Output`: a line and its newline, a fragment, a
line before a fragment, a comment between lines; every prefix of these is what some
read finds. `MaxScans`: three, so that a scan follows a fault that followed a scan.
`Subs`: three in two buckets, so that subdomains share a bucket and one is alone.
`MaxInodes`, `MaxStarts`: a removal, an addition and a third run that starts on
what they left.

`Trees`: a pipeline of three, an endless writer in front of a filter and of a
subshell, lists inside and outside of pipelines, subshells in subshells with
their output redirected, a subshell in front of a filter that writes to a file. `PipeSize`: one byte, so that pipes are full and empty
in turn. `MaxFaults`: one; every property but `EverythingEnds` speaks of
executions without faults. `MaxLine`: five, enough for digits, a doubled arrow
and one character more. `MaxTokens`: seven, enough for `( a | b ) > f`, and for
three operators in a row.

`MaxFd` of `Shell`: five, the three standard descriptors, one for the file, one
for the copy and one more; a second table has a single free descriptor, so that
each call runs out of them in turn, and a third has none, so that no directory
opens. Lists of up to three redirections out of six:
twice the same target, a target that is also where the file was opened, one that
is not open. `ToolStatuses`, `Uninitialized`: zero and one other. Documents come in blocks of one
line and of two, three builtins follow each other, words have two segments, or
three of a few kinds. `BufferSize` of `Recon`: three symbols, longer than one
line of the list and shorter than another. Two runs, since a run finds only
files. `MayBeLate`: a tool may create its output after it was looked for.

Deadlock is checked in all runs but `parser`, `recon` and `recon_list`, which stop
at their bounds. Where the modelled program may stop, a
stuttering disjunct says when (`Finished`, all scans or runs used up).

Fairness. `FairSpec` of the reader: `ReadBlock` and `TakeLine` are steps of a
single-threaded loop on regular files. `PoolFairness`: the parent goes on unless
it waits, and every tool ends at some time; the second half is a fact about the
tools, not the code: a tool that hangs for ever may hold the parent in `waitpid`.
No fairness is assumed for signals or failures. `Fairness` of `Pipeline`: every
process is scheduled, and a command that is neither a filter nor an endless
writer ends by itself; in the trees every endless writer has such a command
behind it. The other modules state safety only.

## Findings

* `pool_budget`. `src/src/recon/help.c:22`: "Number of concurrent processes to
  use. Default: 10". The number is raised to the number of commands
  (`creat_processes.c:102`), and tools of earlier domains, which are never
  waited for, keep running.
* `domainlist_target`. `src/src/recon/help.c:20`: "Domain to monitor". Without a
  `domains.txt` (`parse_domainname.c:155`) the target is scanned but not added.
* `recon_list`. `src/src/recon/help.c:20`, "Domain to monitor": a domain that `-u`
  put on the list is scanned by a run without a target. The loop of
  `scprecon.c:39-53` and the reader of the commands share the leftover of
  `get_next_line`. With a list of `a` and `bc` and a read that ends behind `b`, the
  scan of `a` takes `b`, joined with the first command, for a command, and the
  loop goes on with `c`: `bc` is never scanned, and the status is 0. With the
  buffer size of the program this takes a list longer than one read.

Other places where the code does what one would not expect are described with
their modules above; nothing in the repository says otherwise, so they are
modelled and not reported.

## The proofs

All hold for every value of the constants that satisfies the named assumptions:
every block size, number of domains, commands, lines, descriptors, processes and
faults, every hash function, every tree. The theorem with the name of a property
states that property; what comes before it is the invariant it needs.

* `GetNextLineProofs`: `TypeCorrect`, `ConservationCorrect`,
  `NewlineOnlyInLastCorrect`, `PartialLineCorrect`. The inductive invariant adds
  to the properties that the loop only reads on while the list holds no newline.
  From it follows that a new block is the only place for one
  (`NewlineOnlyInLast`), hence that the two halves of a call cut at the same place
  (`SameLineEnd`), hence that nothing is lost. A line without a newline is
  returned only after a short block, and a short block is the end of the file.
* `ScanProofs`, the pool: `PoolTypeCorrect`, `PoolCorrect`, `FullPoolCorrect`.
  `RoomLeft` is the heart: while the loop of `fork_processes` runs, the pool is at
  least as large as the round and `i` counts all commands started, unless a wait
  after the last command has reset it. Therefore a wait never comes before the last
  command. `AfterTheWait`: all commands are forked and `i` is 0 again only after a
  wait of this round that returned a failed child (`returned`) or was interrupted; a
  success had ended the run.
  `RequestedAssumption` only says that the number is an integer: `-p` is read by
  `atoi`.
* `ScanProofs`, the scan: each step of a scan is one of the pool or none
  (`ScanImplementsPool`, a lemma: `Scan` is written on top of the actions of `Pool`), so
  that the theorems of the pool hold of scans. Then one inductive invariant
  (`ScanInv`) for `DetachedCorrect`, `IsolationCorrect`, `InOrderCorrect` and
  `QuietCorrect`. A tool opens no file but the one it creates, because the name of
  its slot is not bound until it does (`NamesOfRound`): the unlinks come before the
  first fork, no command is forked twice, and a round is not left before the
  outputs of all its tools are there. A file holds the characters of its tool in
  order, the collection goes through the slots one by one, and what it has passed
  over begins with a newline or a `#` wherever a piece of it can begin.
* `CollectProofs`: `LeftoverNeedsCrash`; `NothingMissed`, from `NewsInv`: whatever
  the files held before, a list begins with the lines copied to it, the table of
  new lines has all lines printed that the old list has not, and
  `new_subdomains.txt` begins with that table; `MonitorImplemented`, from
  `ExactInv`: while no fault has damaged the files there is nothing behind what
  was written. The table walk loses nothing because `Bucket` is a function into
  finitely many buckets (`BucketAssumption`); `NamesAssumption` keeps the two
  values that stand for "nothing" apart from names, `OutputsAssumption` types what
  tools print.
* `DomainListProofs`: `RenameCorrect`, from `FilesInv` (the inode of
  `domains_tmp.txt` is never that of the list nor one that a run has open as the
  list; new inodes are empty) and `SnapshotInv` (while removals have not overlapped,
  the one under way has emptied `domains_tmp.txt` and nobody else touches it);
  `DomainSetImplemented`, from `SetInv`: while only additions overlap, what a run
  appends to is the list, and what a removal renames is the list but for its
  domain; `NoDuplicatesCorrect`, from the same with one run at a time. The only assumption
  is that there is an inode.
* `ShellProofs`, the redirections: `TableRestoredCorrect`,
  `FailureDamageCorrect` of `RedirectSpec`, a specification of redirections alone
  in a process that may do anything else between two lists.
  The invariant `Chain` says that there is a sequence of tables from the original
  one to the present, each of which can be had back from the next with the copy
  that was taken; undoing walks the sequence backwards. `OpenOnes` and `FreeOnes`
  say that a copy never takes the number of a descriptor that was open, so a
  redirection never hits a copy of an open one.
* `ShellProofs`, the shell, for every sequence of lines that `StartsAssumption`
  allows (what the parser makes of lines, the keys of documents told apart), every
  environment, all files, all faults. `EnvironAssumption` and `TextsAssumption` say
  what strings are made of: no character of a name is a blank, `=` or `+`, `strcmp`
  tells characters apart, the constants of the code are strings and the names of
  the builtins differ.
  - `ShellRedirects`: `ShellSpec` implements `RedirectSpec`, step by step, so that the
    two theorems above hold of the running shell (`ShellTableRestored`,
    `ShellFailureDamage`). `ShellInv` has, next to the invariant of
    the list in hand, where the shell is when a list is begun, under way and over
    (`ControlInv`), and that every process that waits has a table of all
    descriptors.
  - `CommandTableCorrect`, from `StackInv`: what is on the stack is the table of the
    shell and, in parentheses, the table that the outer redirections have made of it
    with the copies they keep (`Outer`). Installing a list on a table gives each
    open descriptor the last file of it and takes one free number per element
    (`TableOf`, `InstalledFacts`); closing the copies in the child gives these numbers
    back (`ForgottenFacts`), and only these.
  - `HereFilesAreTypedCorrect`, from `HereInv`: without faults, and as long as the
    readers take one line at a time, the lines still to be read are what follows the
    end of the last document that was read, and each file in `/tmp` holds the lines
    between the end of the document before and its own delimiter. Documents are told
    apart by their keys, so a later one never overwrites an earlier.
  - `ShellTypes`: contexts, words and statuses stay what they are through every
    expansion and every builtin. That a fold has a value, and of which type, is
    shown once for all folds (`FoldExists`, `FoldIsPath`); `Merge` and `MergeSort` have
    values because what they ask for is smaller.
  - `OutputIsRightCorrect`, from `OutputInv`. The table says where the output goes
    (`LastSets`: the last redirection of a descriptor decides). For `export`,
    `SortExportIs`: `strcmp` is a total order of strings (`NotAfter`), merging two
    sorted lists gives a sorted one with each element as often as the two have it
    together, and so does sorting, by the length of the part.
  - `AssignmentsTakeEffectCorrect`, `OthersUntouchedCorrect`. An entry is named by what
    is before its first `=` (`Named`), and a variable has the value of the first entry
    of its name (`ValueIs`). A replacement under another name, an entry put behind the
    others and the array made anew without other names leave the value as it was
    (`ReplaceKeeps`, `AppendKeeps`, `DroppingKeeps`). `handle_equal` compares lengths as
    well as beginnings and so finds entries of that very name (`EqualFinds`);
    an addition finds by beginnings only, and what it finds begins like what is before
    the `+` (`BeginsLike`); `unset` of an argument drops all entries of its name
    (`UnsetOneEffects`). Of several assignments the last one holds (`ExportSets`).
  - `WildcardsMatch`: `match_wildcard` accepts a name exactly when its characters can
    be shared out to the characters of the pattern (`Matches`, which the runs use as
    the reference). The code tries a rest only while it is not empty and accepts at
    once when only asterisks are left; that the two rules together miss nothing is
    `FitsIsStep` and `OnlyAsterisks`, and `SearchIsFits` goes from the end of the
    pattern to its beginning. `WildcardNames`: a pattern therefore becomes all
    names of the directory that fill it, each once and sorted, or stays as it is.
* `ReconProofs`: `LinesConservedCorrect`. Cutting a read into a line, what is kept
  and the rest, and joining them again, gives the read (`ReadsInOrder`,
  `NextLineTypes`); what the reader of the commands or of a resolved list takes
  over is what was kept. All of it needs files to be sequences (`Types`), also the
  one that a removal writes and the names that the options give: the recursive
  functions that join lines and read options have a value since there is no least
  place at which they are stuck (`Iterates`, `FlattenType`, `OptionsType`).
  `FilesAssumption` types the inputs of the program.
  `OwnCommandsRunCorrect`: what is read as commands is what was kept, joined with
  `commands.txt`. If the first part ends with a newline, or is empty, the lines of
  the two are those of the one and then those of the other; if not, the last line
  of the one and the first of the other are one line (`EntriesJoined`,
  `LastEntries`). The k-th line of the second part begins where it did, further
  back, and lies as many places later in the order as the first part has lines
  (`OrderJoined`, `StraysKept`).
  `SuccessMeansScannedCorrect`, from `ListInv`: the loop always stands behind a
  whole line of the list (`InTheList`), the lines it stands behind are the domains
  scanned so far and the one under way (`ScannedSoFar`), and if lines were taken for
  commands, the first command of the scan is one of them and does not name its
  output (`TakenFails`). The output was unlinked before the scan, and when it is not
  there the collection ends the run with a failure. It can be there all the same, if
  a tool of an earlier scan, or of an earlier run, creates its output 0 in
  between; `intruded` remembers that, and the theorem excepts it. `TakenFails` needs that no line
  of the list names an output (`ListIsPlain`): `OutputsAssumption` says so of the
  lists that a run starts with, as `-u` does of each domain that it adds
  (`ValidDomainName`). A list with `$scp` in it would have to be written by hand.
* `OrderingProofs`: lemmas on numbers and sequences for the others. A set of
  numbers that is not empty has a least one; a finite set put in a strict order
  gives a sequence with each element once; the n-th has n - 1 below it, and of two
  sets of numbers, one above the other, the order is that of the one and then that
  of the other (`OrderJoined`). The fold of a sequence takes one element after the
  other (`FoldIsPath`), and a function whose value at each argument needs only
  those of smaller measure exists (`Recursion`): these two stand in for the
  induction that the prover has not.
* `PipelineProofs`, for every tree that `TreesAssumption` allows, every pipe size
  and every number of faults. First the tree: what is below a node, and its
  `level`, the process that executes it. Then the steps of a process by their
  shape (`StepShapes`: a fork, a wait, a start, an end, a step of its own), so
  that each invariant is shown for shapes and not for each action. Five invariants
  build on each other:
  - `Held`: the node a process is at is of its own level (`Place`), and it holds
    the ends that the element in hand needs and no other (`HoldsOnly`). It gives
    `NoStrayEndsCorrect`.
  - `Kin`: a process is the child of the one that executes the list it is on, and
    without faults a process has just the children it is starting or waiting for
    (`Family`). It gives `NoChildLeftBehindCorrect`.
  - `Order`: nothing ahead of a process in its list has begun (`Fresh`), and
    without faults everything behind it is over (`Passed`), so that of `&&` and
    `||` either the right side has not begun or the left side is over (`Sides`).
    It gives `RightAfterLeftCorrect`.
  - `Told`: a process returns from a node once and from none before its turn
    (`Silent`), on the right side of `&&` and `||` the left has decided so
    (`Decided`), all elements of a pipeline are started before the first wait
    (`InPipe`), and what it is about to return is right (`Answer`). It gives
    `ResultIsRightCorrect`.
  - `Streams`: a process reads the pipe of an element that has begun (`Input`), and
    an element holds its own pipe for writing or has it as output (`Output`). With
    it a filter that sees the end of its input knows that the element before it is
    over, and with `Kin` and `Order` all that this has started (`ElementOver`):
    `NoEarlyEofCorrect`.

Where an argument goes down a tree or along a list, it takes the least node or
place for which the claim fails (`OrderingProofs`), since induction theorems with
an operator as parameter are beyond the prover.

The bounds `LeftoverBound` of the reader and `NeverThrottles` of the pool, and the
type invariant `PoolTypeOK`, are stated by the theorems only.

Model-checked only:

* liveness: `CallReturns`, `ScanEnds`, `EverythingEnds`. Fairness and `ENABLED` are
  beyond the prover.
* `Parser` (`RefusedLines`, `TokensAreTheLine`, `TreeIsReference`): the lexer and
  the grammar are recursive operators, and the tree is compared with one that a
  second recursive definition gives; both need induction over data.
* `ArgsAreMeant`: it compares the expansion, a fold over characters, with a
  definition by segments, so each segment needs an induction over its characters
  for a state of eight fields.
* the three properties that are violated.

## What is not modelled

Memory: allocation failures, leaks, buffers of fixed size, save the two places
named above where a wrong `free` ends the program. `post_to_discord.c` is a call
of libcurl, a message that arrives or not. `tes.c` is a copy of it with a `main`
of its own. Of the signals SIGQUIT and what the handlers do to readline and the
terminal: they change no state of the shell. The texts of messages and the
layout of what `export` writes. puredns, the enumeration tools and the commands of
a line are external: what they may do is chosen freely. Random names in `/tmp`
are taken to be new.

The parts meet through files and through `left`, and each of these is in one
module with both its ends. What is not composed is `Recon` with the lists of
`Collect`, and `Shell` with `Pipeline`: their states multiply, while all that
passes between them is a status.

## Plan

Done: the reader, the pool, its composition with the tool output, the lists and
their comparison, the list of domains, the program around them with its options
and its single reader, and of the shell the parser, the execution of trees,
redirections, documents, builtins and expansion. Proved: all safety properties of
the reader, the pool, the scan, the lists, the list of domains, redirections,
pipelines, here documents, builtins and the whole program (`Recon`), and the
refinements of `Monitor`, `DomainSet` and `RedirectSpec`. To come:

1. Liveness of `Shell` and `Recon` under fairness of the process that runs, and
   removal with `-d` tied to the lists of `Collect`; both for TLC.
2. The lexer as a recursive function of places, for a proof that the tokens are the
   line.
