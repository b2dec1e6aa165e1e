---------------------------- MODULE GetNextLine ----------------------------
(***************************************************************************)
(* The line reader every part of scprecon reads its files with             *)
(* (lib/libft/srcs/get_next_line.c).  Bytes read from a descriptor wait in  *)
(* one static list of blocks, `head`, which all descriptors share.  The    *)
(* list is kept here as two byte sequences: `last`, the content of its last *)
(* node, and `front`, the contents of the nodes before it joined together. *)
(* The split matters: take_line looks for the newline in the whole list,   *)
(* allocate_after_newline in the last node only.                           *)
(*                                                                         *)
(* One call is a probe (read of 0 bytes), reads of BUFFER_SIZE bytes until *)
(* a short block or a block with a newline, and the cut of the first line. *)
(* Between two calls the caller may open a descriptor on another file, and *)
(* at any time a tool that still runs may append to a file.                *)
(***************************************************************************)
EXTENDS Naturals, Sequences

CONSTANTS
    Char,        \* the bytes of a file
    NL,          \* the newline among them
    BufferSize,  \* BUFFER_SIZE
    Fds,         \* descriptors of the program
    Failing,     \* descriptors whose reads may fail (a directory, an I/O error)
    Contents,    \* what a file may hold when it is opened, or gain later
    MaxChanges   \* bound on openings and appends in one behaviour

ASSUME CharAssumption == NL \in Char
ASSUME BufferSizeAssumption == BufferSize \in Nat \ {0}
ASSUME ContentsAssumption == Contents \subseteq Seq(Char)
ASSUME FailingAssumption == Failing \subseteq Fds
ASSUME MaxChangesAssumption == MaxChanges \in Nat

VARIABLES
    front,    \* bytes of all nodes of `head` but the last
    last,     \* bytes of the last node of `head`; <<>> also for an empty list
    rest,     \* rest[fd]: bytes between the offset of fd and the end of its file
    pc,       \* "idle", "read" (loop of create_nodes), "take" (cut of the line)
    cfd,      \* descriptor of the call in progress
    line,     \* what the latest call returned; <<>> is NULL
    got,      \* history: the bytes read so far, in order
    given,    \* history: the bytes of all lines returned so far, in order
    cleared,  \* history: a failing probe has thrown `head` away
    changes   \* openings and appends so far

vars == <<front, last, rest, pc, cfd, line, got, given, cleared, changes>>

head == front \o last

HasNL(s) == \E i \in 1..Len(s) : s[i] = NL

\* Where the first line of s may end: at its first newline, or at the end of
\* s when it has none (len_to_newline).
LineEnds(s) ==
    IF HasNL(s)
    THEN {i \in 1..Len(s) : s[i] = NL /\ \A j \in 1..(i-1) : s[j] # NL}
    ELSE {Len(s)}

Init ==
    /\ front = <<>> /\ last = <<>>
    /\ rest = [fd \in Fds |-> <<>>]
    /\ pc = "idle"
    /\ cfd \in Fds
    /\ line = <<>>
    /\ got = <<>> /\ given = <<>>
    /\ cleared = FALSE
    /\ changes = 0

----------------------------------------------------------------------------
(* The environment of the reader. *)

\* The caller opens a file; the descriptor it had there is closed or left
\* behind undrained (check_domain returns in the middle of domains.txt).
Open(fd, c) ==
    /\ pc = "idle"
    /\ changes < MaxChanges
    /\ changes' = changes + 1
    /\ rest' = [rest EXCEPT ![fd] = c]
    /\ UNCHANGED <<front, last, pc, cfd, line, got, given, cleared>>

\* A tool that is still running appends to the file.
Grow(fd, c) ==
    /\ changes < MaxChanges
    /\ changes' = changes + 1
    /\ rest' = [rest EXCEPT ![fd] = @ \o c]
    /\ UNCHANGED <<front, last, pc, cfd, line, got, given, cleared>>

----------------------------------------------------------------------------
(* One call of get_next_line. *)

\* A variant that reads although a whole line already waits in the list.
CallAlwaysReads(fd) ==
    /\ pc = "idle"
    /\ cfd' = fd
    /\ pc' = "read"
    /\ UNCHANGED <<front, last, rest, line, got, given, cleared, changes>>

\* The probe succeeds; a line that already waits in head needs no read.
Call(fd) ==
    /\ pc = "idle"
    /\ cfd' = fd
    /\ pc' = IF HasNL(head) THEN "take" ELSE "read"
    /\ UNCHANGED <<front, last, rest, line, got, given, cleared, changes>>

\* The probe fails: the list is cleared and the call returns NULL.
ProbeFails(fd) ==
    /\ pc = "idle"
    /\ fd \in Failing
    /\ cfd' = fd
    /\ front' = <<>> /\ last' = <<>>
    /\ line' = <<>>
    /\ cleared' = TRUE
    /\ UNCHANGED <<rest, pc, got, given, changes>>

\* Variants of the loop with plausible slips, for the sensitivity of the
\* properties: stopping after any block, stopping only at a newline, and
\* adding to the last node instead of adding a node.
ReadBlockOnce ==
    LET n == IF Len(rest[cfd]) < BufferSize THEN Len(rest[cfd]) ELSE BufferSize
    IN  /\ pc = "read"
        /\ front' = front \o last
        /\ last' = SubSeq(rest[cfd], 1, n)
        /\ rest' = [rest EXCEPT ![cfd] = SubSeq(@, n + 1, Len(@))]
        /\ got' = got \o last'
        /\ pc' = "take"
        /\ UNCHANGED <<cfd, line, given, cleared, changes>>

ReadBlockToNewline ==
    LET n == IF Len(rest[cfd]) < BufferSize THEN Len(rest[cfd]) ELSE BufferSize
    IN  /\ pc = "read"
        /\ front' = front \o last
        /\ last' = SubSeq(rest[cfd], 1, n)
        /\ rest' = [rest EXCEPT ![cfd] = SubSeq(@, n + 1, Len(@))]
        /\ got' = got \o last'
        /\ pc' = IF HasNL(last') THEN "take" ELSE "read"
        /\ UNCHANGED <<cfd, line, given, cleared, changes>>

ReadBlockAppends ==
    LET n == IF Len(rest[cfd]) < BufferSize THEN Len(rest[cfd]) ELSE BufferSize
    IN  /\ pc = "read"
        /\ last' = last \o SubSeq(rest[cfd], 1, n)
        /\ rest' = [rest EXCEPT ![cfd] = SubSeq(@, n + 1, Len(@))]
        /\ got' = got \o SubSeq(rest[cfd], 1, n)
        /\ pc' = IF n < BufferSize \/ HasNL(last') THEN "take" ELSE "read"
        /\ UNCHANGED <<front, cfd, line, given, cleared, changes>>

\* One turn of the loop of create_nodes: a block becomes the last node.
ReadBlock ==
    LET n == IF Len(rest[cfd]) < BufferSize THEN Len(rest[cfd]) ELSE BufferSize
        block == SubSeq(rest[cfd], 1, n)
    IN  /\ pc = "read"
        /\ front' = front \o last
        /\ last' = block
        /\ rest' = [rest EXCEPT ![cfd] = SubSeq(@, n + 1, Len(@))]
        /\ got' = got \o block
        /\ pc' = IF n < BufferSize \/ HasNL(block) THEN "take" ELSE "read"
        /\ UNCHANGED <<cfd, line, given, cleared, changes>>

\* A block read fails: create_nodes gives up and its result is ignored.
ReadFails ==
    /\ pc = "read"
    /\ cfd \in Failing
    /\ pc' = "take"
    /\ UNCHANGED <<front, last, rest, cfd, line, got, given, cleared, changes>>

\* A variant that forgets what follows the line.
TakeLineOnly ==
    /\ pc = "take"
    /\ \E i \in LineEnds(head) : line' = SubSeq(head, 1, i)
    /\ given' = given \o line'
    /\ front' = <<>> /\ last' = <<>>
    /\ pc' = "idle"
    /\ UNCHANGED <<rest, cfd, got, cleared, changes>>

\* The first line of the list is returned (take_line), and only what the last
\* node holds after its first line is kept (allocate_after_newline).
TakeLine ==
    /\ pc = "take"
    /\ \E i \in LineEnds(head) : line' = SubSeq(head, 1, i)
    /\ given' = given \o line'
    /\ front' = <<>>
    /\ \E j \in LineEnds(last) : last' = SubSeq(last, j + 1, Len(last))
    /\ pc' = "idle"
    /\ UNCHANGED <<rest, cfd, got, cleared, changes>>

----------------------------------------------------------------------------
Next ==
    \/ \E fd \in Fds, c \in Contents : Open(fd, c) \/ Grow(fd, c)
    \/ \E fd \in Fds : Call(fd) \/ ProbeFails(fd)
    \/ ReadBlock
    \/ ReadFails
    \/ TakeLine

Spec == Init /\ [][Next]_vars

\* A call is a loop of system calls of this process; nothing blocks it.
FairSpec == Spec /\ WF_vars(ReadBlock) /\ WF_vars(TakeLine)

----------------------------------------------------------------------------
(* Properties. *)

\* The types; a node holds one block at most.
TypeOK ==
    /\ front \in Seq(Char) /\ last \in Seq(Char)
    /\ Len(last) <= BufferSize
    /\ rest \in [Fds -> Seq(Char)]
    /\ pc \in {"idle", "read", "take"}
    /\ cfd \in Fds
    /\ line \in Seq(Char)
    /\ got \in Seq(Char) /\ given \in Seq(Char)
    /\ cleared \in BOOLEAN
    /\ changes \in 0..MaxChanges

\* No node of the list but the last ever holds a newline.  The two halves of
\* a call rely on it silently: take_line cuts at the first newline of the
\* whole list, allocate_after_newline at the first newline of the last node.
NewlineOnlyInLast == ~HasNL(front)

\* Unless a failing read cleared the list, the lines returned so far followed
\* by what waits in the list are the bytes read so far: nothing is lost,
\* doubled or reordered, however calls on several descriptors interleave.
Conservation == ~cleared => given \o head = got

\* Between calls the list holds less than one block (it never accumulates),
\* all of it in one node.
LeftoverBound == pc = "idle" => front = <<>> /\ Len(last) < BufferSize

\* On a descriptor whose reads succeed, the reading loop only stops with a
\* whole line in the list or at the end of the file: a line without its
\* newline is the end of the file as it was then.
PartialLineOnlyAtEof ==
    [][(pc = "read" /\ pc' = "take" /\ cfd \notin Failing)
          => HasNL(head') \/ rest'[cfd] = <<>>]_vars

\* A call started ends: the reading loop stops at the end of the file.
CallReturns == (pc # "idle") ~> (pc = "idle")

============================================================================
