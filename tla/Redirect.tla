------------------------------ MODULE Redirect ------------------------------
(***************************************************************************)
(* The redirections of one command (src/execution/redirections.c) on the   *)
(* table of descriptors of the process that performs them: the shell       *)
(* itself for a builtin, a forked child for any other command.             *)
(*                                                                         *)
(* redirect() opens a file, keeps a copy of the descriptor it replaces and *)
(* goes on to the next element; reset_redir() walks back, putting the      *)
(* copies in place again (for a builtin) or only closing them (in a child).*)
(* Every descriptor taken is the lowest free one.                          *)
(***************************************************************************)
EXTENDS Integers, Sequences, FiniteSets

CONSTANT MaxFd  \* the largest descriptor of a process

ASSUME MaxFdAssumption == MaxFd \in Nat

Fd == 0..MaxFd

\* The entry of a free descriptor.  That of any other is a record too, with
\* another type.
Closed == [type |-> "closed"]

VARIABLES
    fds,     \* fds[n]: what descriptor n refers to, or Closed
    redirs,  \* the list being performed: records with the target, fd
    pos,     \* the element in hand
    bak,     \* bak[k]: bak_fd of element k, -1 before it is performed
    rpc,     \* "idle", "open", "failed", "restore", "forget", "restored",
             \* "forgotten"
    orig,    \* history: the table when the list was begun
    given    \* history: what open_file returned for the elements performed

redirVars == <<fds, redirs, pos, bak, rpc, orig, given>>

Free(t) == {n \in Fd : t[n] = Closed}
Lowest(S) == CHOOSE n \in S : \A m \in S : n <= m

\* The table after an open or a dup that yields d.
Opened(t, d) == [t EXCEPT ![Lowest(Free(t))] = d]

BeginRedirect(list) ==
    /\ redirs' = list
    /\ pos' = 1
    /\ bak' = [k \in DOMAIN list |-> -1]
    /\ rpc' = "open"
    /\ orig' = fds
    /\ given' = <<>>
    /\ UNCHANGED fds

Target == redirs[pos].fd

\* dup(redir->fd) succeeds on the table t.
CanDup(t) == Target \in Fd /\ t[Target] # Closed /\ Free(t) # {}

Opening == rpc = "open" /\ pos <= Len(redirs)

\* A variant that leaves the descriptor it opened open.
InstallKeepsOpen(d) ==
    LET opened == Opened(fds, d)
        back == Lowest(Free(opened))
    IN  /\ Opening /\ Free(fds) # {} /\ CanDup(opened)
        /\ fds' = [opened EXCEPT ![back] = opened[Target], ![Target] = d]
        /\ bak' = [bak EXCEPT ![pos] = back]
        /\ pos' = pos + 1
        /\ given' = Append(given, d)
        /\ UNCHANGED <<redirs, rpc, orig>>

\* The file is open as d: the target is copied, replaced, and the descriptor
\* of the file closed.  When that is the target itself nothing is left of it.
Install(d) ==
    LET new == Lowest(Free(fds))
        opened == Opened(fds, d)
        back == Lowest(Free(opened))
    IN  /\ Opening /\ Free(fds) # {} /\ CanDup(opened)
        /\ fds' = [opened EXCEPT ![back] = opened[Target], ![Target] = d, ![new] = Closed]
        /\ bak' = [bak EXCEPT ![pos] = back]
        /\ pos' = pos + 1
        /\ given' = Append(given, d)
        /\ UNCHANGED <<redirs, rpc, orig>>

\* A variant that closes the target of the element in hand.
GiveUpCloses(t) ==
    /\ Opening
    /\ fds' = [t EXCEPT ![Target] = Closed]
    /\ rpc' = "failed"
    /\ UNCHANGED <<redirs, pos, bak, orig, given>>

\* The list is given up.  reset_redir is called for the element in hand and
\* those behind it, which have no backup: nothing that was done is undone.
GiveUp(t) ==
    /\ Opening
    /\ fds' = t
    /\ rpc' = "failed"
    /\ UNCHANGED <<redirs, pos, bak, orig, given>>

\* No file: it does not open, the word is ambiguous, or there is no free
\* descriptor.
OpenFails == GiveUp(fds)

\* The target is not open, or there is no descriptor for its copy: the file
\* just opened stays open.
DupFails(d) ==
    /\ Opening /\ Free(fds) # {} /\ ~CanDup(Opened(fds, d))
    /\ GiveUp(Opened(fds, d))

AllInstalled == rpc = "open" /\ pos > Len(redirs)

\* A variant that undoes the list from its beginning.
UndoForward(k) == Len(redirs) + 1 - k

\* The element undone when k are left: the last one first.
UndoOrder(k) == k

\* reset_redir on the whole list.
BeginUndo(restore) ==
    /\ AllInstalled
    /\ rpc' = IF restore THEN "restore" ELSE "forget"
    /\ pos' = Len(redirs)
    /\ UNCHANGED <<fds, redirs, bak, orig, given>>

UndoOne ==
    LET k == UndoOrder(pos)
    IN  /\ rpc \in {"restore", "forget"} /\ pos > 0
        /\ fds' = [fds EXCEPT
                      ![redirs[k].fd] = IF rpc = "restore" THEN fds[bak[k]] ELSE @,
                      ![bak[k]] = Closed]
        /\ pos' = pos - 1
        /\ UNCHANGED <<redirs, bak, rpc, orig, given>>

UndoDone ==
    /\ rpc \in {"restore", "forget"} /\ pos = 0
    /\ rpc' = IF rpc = "restore" THEN "restored" ELSE "forgotten"
    /\ UNCHANGED <<fds, redirs, pos, bak, orig, given>>

----------------------------------------------------------------------------
(* The redirections alone, in a process that is free to do anything else   *)
(* between one list and the next.  The list, the file that was opened and  *)
(* the table of the next process are what they are in the next state.      *)

RedirectInit ==
    /\ DOMAIN fds = Fd /\ orig = fds
    /\ redirs = <<>> /\ pos = 1 /\ bak = <<>> /\ rpc = "idle" /\ given = <<>>

IsList(s) == s \in Seq({s[k] : k \in DOMAIN s})

\* A list is begun when none is under way; a subshell has left the one before
\* it installed.
Begins == (rpc = "idle" \/ AllInstalled) /\ IsList(redirs') /\ BeginRedirect(redirs')

Installs == Opening /\ Len(given') = pos /\ given'[pos] # Closed /\ Install(given'[pos])

\* The file that was opened last may stay, or two if there is no third.
GivesUp ==
    LET d == fds'[Lowest(Free(fds))]
    IN  \/ OpenFails
        \/ Free(fds) # {} /\ d # Closed /\ GiveUp(Opened(fds, d))
        \/ /\ Cardinality(Free(fds)) = 2 /\ Free(fds') = {}
           /\ GiveUp([n \in Fd |-> IF fds[n] = Closed THEN fds'[n] ELSE fds[n]])

\* The command is over; what goes on is this process or its parent.
Ends ==
    /\ ~Opening /\ rpc \notin {"restore", "forget"}
    /\ rpc' = "idle" /\ DOMAIN fds' = Fd
    /\ UNCHANGED <<redirs, pos, bak, orig, given>>

RedirectNext ==
    \/ Begins \/ Installs \/ GivesUp
    \/ BeginUndo(TRUE) \/ BeginUndo(FALSE) \/ UndoOne \/ UndoDone
    \/ Ends

RedirectSpec == RedirectInit /\ [][RedirectNext]_redirVars

----------------------------------------------------------------------------
(* Properties. *)

Targets(n) == {redirs[k].fd : k \in 1..n}

\* After a builtin every descriptor the shell had refers to what it referred
\* to before, however often one was redirected and whichever numbers the
\* backups took; and a new one is only left behind under a number that a
\* redirection named.
TableRestored ==
    rpc = "restored" =>
        \A n \in Fd :
            \/ fds[n] = orig[n]
            \/ orig[n] = Closed /\ n \in Targets(Len(redirs))

\* What a list that fails half way leaves in the shell: descriptors it has not
\* got to are as they were, and no more are open that were not than it has got
\* to elements: a copy for each one performed and the file of the last; there
\* are two files of the last only if they have taken all that was left.
FailureDamage ==
    rpc = "failed" =>
        /\ \A n \in Fd : orig[n] # Closed /\ n \notin Targets(pos - 1) => fds[n] = orig[n]
        /\ Cardinality(Free(orig) \ Free(fds)) <= IF Free(fds) = {} THEN pos + 1 ELSE pos

=============================================================================
