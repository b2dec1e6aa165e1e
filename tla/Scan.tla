-------------------------------- MODULE Scan --------------------------------
(***************************************************************************)
(* The output of the tools of a pool and its collection.  Every command of *)
(* a round names ./output/file-<k>.txt; the names are the same in every    *)
(* round.  A round unlinks the files of those names                        *)
(* (check_files_if_all_exist), starts its tools, and reads file after file *)
(* into the list of the domain (open_files_and_add_content_to_alldomains,  *)
(* src/recon/creat_files.c) -- while the tools, unless the pool was full,  *)
(* are still starting and writing.                                         *)
(*                                                                         *)
(* A file is an inode; a name is bound to an inode or to none.  A tool     *)
(* opens its output as the shell's `>` does (O_CREAT | O_TRUNC, offset 0)  *)
(* and keeps its inode when the name is unlinked.  Its writes may end      *)
(* anywhere, in the middle of a line too, so a file grows by characters;   *)
(* the collection reads it piece by piece, a piece being what get_next_line *)
(* returns: the rest of a line, or of the file as it is at that moment.    *)
(***************************************************************************)
EXTENDS Pool, Sequences

CONSTANTS
    Counted,   \* commands counted before the first round (ft_count_coomands)
    Output     \* Output[c]: what tool c writes, if it is not ended before: the
               \* newline, the # of a comment, or any other character

ASSUME CountedAssumption == Counted \in Nat
ASSUME OutputAssumption == Output \in [Children -> Seq({"x", "hash", "NL"})]

NoFile == <<0, 0>>

\* Names of output files: the slot k stands for file-(k-1).txt.
Slots == (UNION {1..NumCmds[r] : r \in 1..Rounds}) \cup 1..Counted

\* An inode is named by the tool that created it; <<0, k>> was left in slot k
\* by an earlier run of the program.
Inodes == Children \cup ({0} \X Slots)

\* The place of the n-th character that c writes.
Place(c, n) == <<c[1], c[2], n>>

\* What a write beyond the end of a truncated file leaves before it.
Hole == <<0, 0, 0>>

\* The character at a place; those of earlier runs and of holes are all alike.
CharAt(p) == IF p[1] = 0 THEN "x" ELSE Output[<<p[1], p[2]>>][p[3]]

VARIABLES
    dir,          \* dir[k]: the inode of slot k, or NoFile
    data,         \* data[f]: the characters in inode f, as places
    tfd,          \* tfd[c]: the inode tool c has opened, or NoFile
    tpos,         \* tpos[c]: characters written by c, also its offset
    numCommands,  \* num_commands of handle_file_operations
    ck,           \* slot being collected
    cfd,          \* inode open for reading, or NoFile
    cpos,         \* characters read from it
    coll,         \* places of the characters written to the list of the domain in this round
    quiet         \* history: every tool had ended when the collection began

fileVars == <<dir, data, tfd, tpos>>
readVars == <<ck, cfd, cpos, coll>>
scanVars == <<poolVars, fileVars, readVars, numCommands, quiet>>

ScanInit ==
    /\ PoolInit
    /\ dir \in [Slots -> {NoFile} \cup ({0} \X Slots)]
    /\ \A k \in Slots : dir[k] \in {NoFile, <<0, k>>}
    /\ data = [f \in Inodes |-> IF f[1] = 0 THEN <<Place(f, 1)>> ELSE <<>>]
    /\ tfd = [c \in Children |-> NoFile]
    /\ tpos = [c \in Children |-> 0]
    /\ numCommands = Counted
    /\ ck = 1 /\ cfd = NoFile /\ cpos = 0 /\ coll = <<>>
    /\ quiet = FALSE

----------------------------------------------------------------------------
(* The tools (external programs; their output file is opened as the       *)
(* redirection of their command asks).                                     *)

\* Character l at offset p, a hole in between if the file is shorter.
Put(s, p, l) ==
    [n \in 1..(IF Len(s) > p THEN Len(s) ELSE p + 1) |->
        IF n = p + 1 THEN l ELSE IF n <= Len(s) THEN s[n] ELSE Hole]

ToolOpens(c) ==
    LET f == IF dir[c[2]] = NoFile THEN c ELSE dir[c[2]]
    IN  /\ child[c] = "live" /\ tfd[c] = NoFile
        /\ dir' = [dir EXCEPT ![c[2]] = f]
        /\ data' = [data EXCEPT ![f] = <<>>]
        /\ tfd' = [tfd EXCEPT ![c] = f]
        /\ UNCHANGED <<poolVars, tpos, readVars, numCommands, quiet>>

ToolWrites(c) ==
    /\ child[c] = "live" /\ tfd[c] # NoFile /\ tpos[c] < Len(Output[c])
    /\ data' = [data EXCEPT ![tfd[c]] = Put(@, tpos[c], Place(c, tpos[c] + 1))]
    /\ tpos' = [tpos EXCEPT ![c] = @ + 1]
    /\ UNCHANGED <<poolVars, dir, tfd, readVars, numCommands, quiet>>

ToolEnds(c) ==
    /\ ChildEnds(c)
    /\ UNCHANGED <<fileVars, readVars, numCommands, quiet>>

----------------------------------------------------------------------------
(* The parent. *)

\* A variant that leaves the files of the round before in place.
RoundStartsDirty ==
    /\ StartRound
    /\ numCommands' = N
    /\ UNCHANGED <<dir, data, tfd, tpos, readVars, quiet>>

\* The files of the latest number of commands are unlinked, then the commands
\* are read.  The unlinks and the tools of other slots do not interfere, so
\* the loop is one step.
RoundStarts ==
    /\ StartRound
    /\ dir' = [k \in Slots |-> IF k <= numCommands THEN NoFile ELSE dir[k]]
    /\ numCommands' = N
    /\ UNCHANGED <<data, tfd, tpos, readVars, quiet>>

\* The steps of the pool that touch no output file.
PoolRuns ==
    /\ Forking \/ WaitInterrupted
    /\ UNCHANGED <<fileVars, readVars, numCommands, quiet>>

CollectionBegins ==
    /\ AllForked
    /\ quiet' = \A c \in Children : child[c] # "live"
    /\ UNCHANGED <<fileVars, readVars, numCommands>>

\* open of file-k succeeds ...
OpenOutput ==
    /\ ppc = "collect" /\ ck <= numCommands
    /\ cfd = NoFile /\ dir[ck] # NoFile
    /\ cfd' = dir[ck] /\ cpos' = 0
    /\ UNCHANGED <<poolVars, fileVars, ck, coll, numCommands, quiet>>

\* A variant that goes on with the next output.
OutputMissingSkips ==
    /\ ppc = "collect" /\ ck <= numCommands
    /\ cfd = NoFile /\ dir[ck] = NoFile
    /\ ck' = ck + 1
    /\ UNCHANGED <<poolVars, fileVars, cfd, cpos, coll, numCommands, quiet>>

\* ... or fails, because the tool has not created the file yet or never does;
\* what has been collected of the domain stays where it is.
OutputMissing ==
    /\ ppc = "collect" /\ ck <= numCommands
    /\ cfd = NoFile /\ dir[ck] = NoFile
    /\ CollectFails
    /\ UNCHANGED <<fileVars, readVars, numCommands, quiet>>

\* A piece of s that begins at b ends with its first newline, or with s.
PieceEnds(s, b, e) ==
    /\ e \in b..Len(s)
    /\ \A n \in b..(e - 1) : CharAt(s[n]) # "NL"
    /\ CharAt(s[e]) = "NL" \/ e = Len(s)

\* What the collection leaves out by its first character: blank lines, comments.
LeftOut(p) == CharAt(p) \in {"NL", "hash"}

\* A variant that reads a piece before the loop and loses it.
ReadPieceSkips ==
    /\ cfd # NoFile
    /\ \E e \in 1..Len(data[cfd]) :
         /\ PieceEnds(data[cfd], cpos + 1, e)
         /\ coll' = IF LeftOut(data[cfd][cpos + 1]) \/ cpos = 0 THEN coll
                    ELSE coll \o SubSeq(data[cfd], cpos + 1, e)
         /\ cpos' = e
    /\ UNCHANGED <<poolVars, fileVars, ck, cfd, numCommands, quiet>>

\* One piece is read and, unless it is left out, added to the list of the
\* domain as it is: the end of a line that was begun without its newline is
\* a piece of its own, or is left out as a blank line.
ReadPiece ==
    /\ cfd # NoFile
    /\ \E e \in 1..Len(data[cfd]) :
         /\ PieceEnds(data[cfd], cpos + 1, e)
         /\ coll' = IF LeftOut(data[cfd][cpos + 1]) THEN coll
                    ELSE coll \o SubSeq(data[cfd], cpos + 1, e)
         /\ cpos' = e
    /\ UNCHANGED <<poolVars, fileVars, ck, cfd, numCommands, quiet>>

\* A variant that stops one character before the end.
EndOfOutputEarly ==
    /\ cfd # NoFile /\ cpos + 1 >= Len(data[cfd])
    /\ cfd' = NoFile /\ cpos' = 0
    /\ ck' = ck + 1
    /\ UNCHANGED <<poolVars, fileVars, coll, numCommands, quiet>>

\* The reader meets the end of the file as it is now.
EndOfOutput ==
    /\ cfd # NoFile /\ cpos >= Len(data[cfd])
    /\ cfd' = NoFile /\ cpos' = 0
    /\ ck' = ck + 1
    /\ UNCHANGED <<poolVars, fileVars, coll, numCommands, quiet>>

\* All files have been read: the list is compared, the next domain begins.
CollectionEnds ==
    /\ ppc = "collect" /\ ck > numCommands
    /\ CollectDone
    /\ ck' = 1 /\ coll' = <<>>
    /\ UNCHANGED <<fileVars, cfd, cpos, numCommands, quiet>>

----------------------------------------------------------------------------
ScanNext ==
    \/ RoundStarts \/ PoolRuns \/ CollectionBegins
    \/ OpenOutput \/ OutputMissing \/ ReadPiece \/ EndOfOutput \/ CollectionEnds
    \/ \E c \in Children : ToolOpens(c) \/ ToolWrites(c) \/ ToolEnds(c)
    \/ Finished /\ UNCHANGED scanVars

ScanSpec == ScanInit /\ [][ScanNext]_scanVars

----------------------------------------------------------------------------
(* Properties. *)

\* The unlinks of a round reach every name the round before has used.
Covered ==
    /\ NumCmds[1] <= Counted
    /\ \A r \in 1..(Rounds - 1) : NumCmds[r + 1] <= NumCmds[r]

\* A round cannot end before each of its tools has created its output, and
\* the next one unlinks it: no tool of an earlier round can reach a file of
\* this round any more, however long it goes on writing.
EarlierToolsDetached ==
    Covered =>
        \A c \in Children :
            c[1] < round =>
                /\ tfd[c] = c
                /\ ppc # "start" => \A k \in 1..N : dir[k] # c

\* Hence all that is collected for a domain was written for that domain, never
\* by a tool of another domain or in an earlier run of the program.
Isolation == Covered => \A n \in 1..Len(coll) : coll[n][1] = round

\* The characters a..b of c may have been passed over: every piece that begins
\* among them is left out.
PassedOver(c, a, b) ==
    \A m \in a..b :
        (m = a \/ Output[c][m - 1] = "NL") => LeftOut(Place(c, m))

\* What is collected of each tool is in the order in which it was written,
\* slot after slot and no character twice, and nothing is missing before or
\* between what is collected but pieces that begin with a newline or a #.
\* (Fragments, and lines of two slots glued together, are in this.)
CollectsInOrder ==
    (Covered /\ ppc = "collect") =>
        \A n \in 1..Len(coll) :
            \E k \in 1..N : \E m \in 1..tpos[<<round, k>>] :
                /\ coll[n] = Place(<<round, k>>, m)
                /\ n > 1 => coll[n - 1][2] <= k
                /\ LET p == IF n > 1 /\ coll[n - 1][2] = k THEN coll[n - 1][3] ELSE 0
                   IN  p < m /\ PassedOver(<<round, k>>, p + 1, m - 1)

\* The line of c that its m-th character is in begins at b.
LineBegins(c, b, m) ==
    /\ b \in 1..m
    /\ b = 1 \/ Output[c][b - 1] = "NL"
    /\ \A n \in b..(m - 1) : Output[c][n] # "NL"

\* If every tool had ended before the collection began, the list that is
\* compared holds of every tool of the round exactly the lines that are neither
\* blank nor comments, each of them whole (the last one as far as it goes).
QuietIsComplete ==
    (Covered /\ ppc = "collect" /\ ck > numCommands /\ quiet) =>
        \A k \in 1..N : \A m \in 1..tpos[<<round, k>>] : \A b \in 1..m :
            LineBegins(<<round, k>>, b, m) =>
                ((\E n \in 1..Len(coll) : coll[n] = Place(<<round, k>>, m))
                    <=> ~LeftOut(Place(<<round, k>>, b)))

=============================================================================
