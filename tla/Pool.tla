-------------------------------- MODULE Pool --------------------------------
(***************************************************************************)
(* The pool of tool processes of a scan (src/recon/creat_processes.c) in   *)
(* the loop over the monitored domains (handle_file_operations, and        *)
(* handle_domain_processing for one domain, of src/recon/scprecon.c).      *)
(*                                                                         *)
(* A round is the scan of one domain: fork one child per command of        *)
(* commands.txt, then collect what the tools wrote.  The parent only waits *)
(* when it has forked `processes` children, for one child, whichever ends  *)
(* first; all others stay in the process table, also those of rounds past. *)
(***************************************************************************)
EXTENDS Integers, FiniteSets

CONSTANTS
    Rounds,     \* number of domains to scan
    NumCmds,    \* NumCmds[r]: commands parsed from commands.txt in round r
    Requested,  \* the number of processes asked for (option -p, atoi of any text)
    Ends        \* how a child may end: exit(0), which it does whatever its tool
                \* returned; another status (exit in its command); a signal

ASSUME RoundsAssumption == Rounds \in Nat \ {0}
ASSUME NumCmdsAssumption == NumCmds \in [1..Rounds -> Nat]
ASSUME RequestedAssumption == Requested \in Int
ASSUME EndsAssumption == Ends \subseteq {"ok", "bad", "killed"}

\* The children of all rounds: <<r, k>> runs the k-th command of round r.
Children == UNION {{r} \X (1..NumCmds[r]) : r \in 1..Rounds}

VARIABLES
    ppc,          \* "start", "fork", "wait", "collect", "done", "exit"
    round,        \* the domain being scanned
    processes,    \* `processes` of handle_file_operations, shared by all rounds
    i,            \* children forked since the latest wait (fork_processes)
    next,         \* the command `tmp` points at
    child,        \* child[c]: "none", "live", how it ended, or reaped
    interrupted,  \* history: a waitpid of this round returned an error
    returned      \* history: the child the wait of this round returned, or NoChild

poolVars == <<ppc, round, processes, i, next, child, interrupted, returned>>

\* "reaped" once a wait has returned it, with the failures told apart.
ChildStates == {"none", "live", "reaped", "reaped bad"} \cup Ends

N == NumCmds[round]

NoChild == <<0, 0>>

PoolInit ==
    /\ ppc = "start"
    /\ round = 1
    /\ processes = Requested
    /\ i = 0 /\ next = 1
    /\ child = [c \in Children |-> "none"]
    /\ interrupted = FALSE
    /\ returned = NoChild

----------------------------------------------------------------------------
(* The parent. *)

\* commands.txt has been read; *processes is raised to the number of commands.
StartRound ==
    /\ ppc = "start" /\ N > 0
    /\ processes' = IF N > processes THEN N ELSE processes
    /\ i' = 0 /\ next' = 1
    /\ interrupted' = FALSE /\ returned' = NoChild
    /\ ppc' = "fork"
    /\ UNCHANGED <<round, child>>

\* No command at all: the caller takes the 0 for an error.
NoCommand ==
    /\ ppc = "start" /\ N = 0
    /\ ppc' = "exit"
    /\ UNCHANGED <<round, processes, i, next, child, interrupted, returned>>

\* A variant that takes the last command for the end of the list.
ForkLosesOne ==
    /\ ppc = "fork" /\ next <= N
    /\ child' = [child EXCEPT ![<<round, next>>] = "live"]
    /\ next' = next + 1
    /\ i' = i + 1
    /\ ppc' = IF i' = processes THEN "wait" ELSE IF next' = N THEN "collect" ELSE "fork"
    /\ UNCHANGED <<round, processes, interrupted, returned>>

\* One turn of the loop of fork_processes.
Fork ==
    /\ ppc = "fork" /\ next <= N
    /\ child' = [child EXCEPT ![<<round, next>>] = "live"]
    /\ next' = next + 1
    /\ i' = i + 1
    /\ ppc' = IF i' = processes THEN "wait" ELSE "fork"
    /\ UNCHANGED <<round, processes, interrupted, returned>>

\* fork fails: the scan is given up, the children forked before go on.
ForkFails ==
    /\ ppc = "fork" /\ next <= N
    /\ ppc' = "exit"
    /\ UNCHANGED <<round, processes, i, next, child, interrupted, returned>>

\* A variant that goes on after a success and gives up after a failure.
WaitStopsOnFailure ==
    /\ ppc = "wait"
    /\ \E c \in Children :
      /\ returned' = c
      /\ \/ /\ child[c] = "bad"
            /\ child' = [child EXCEPT ![c] = "reaped bad"]
            /\ i' = i /\ ppc' = "exit"
         \/ /\ child[c] \in {"ok", "killed"}
            /\ child' = [child EXCEPT ![c] = "reaped"]
            /\ i' = 0 /\ ppc' = "fork"
    /\ UNCHANGED <<round, processes, next, interrupted>>

\* A variant that waits again after a failure.
WaitForSuccess ==
    /\ ppc = "wait"
    /\ \E c \in Children :
      /\ returned' = c
      /\ \/ /\ child[c] = "bad"
            /\ child' = [child EXCEPT ![c] = "reaped bad"]
            /\ ppc' = "wait"
         \/ /\ child[c] \in {"ok", "killed"}
            /\ child' = [child EXCEPT ![c] = "reaped"]
            /\ ppc' = "exit"
    /\ UNCHANGED <<round, processes, i, next, interrupted>>

\* wait_process returns some child that has ended, of any round.  Its result
\* is 1 for a failure, on which the loop goes on, and 0 for a success or a
\* signal, on which the whole scan is given up.
Wait ==
    /\ ppc = "wait"
    /\ \E c \in Children :
      /\ returned' = c
      /\ \/ /\ child[c] = "bad"
            /\ child' = [child EXCEPT ![c] = "reaped bad"]
            /\ i' = 0 /\ ppc' = "fork"
         \/ /\ child[c] \in {"ok", "killed"}
            /\ child' = [child EXCEPT ![c] = "reaped"]
            /\ i' = i /\ ppc' = "exit"
    /\ UNCHANGED <<round, processes, next, interrupted>>

\* waitpid is interrupted: wait_process returns 1 without a child.
WaitInterrupted ==
    /\ ppc = "wait"
    /\ i' = 0 /\ ppc' = "fork"
    /\ interrupted' = TRUE
    /\ UNCHANGED <<round, processes, next, child, returned>>

\* The list of commands is used up.
AllForked ==
    /\ ppc = "fork" /\ next > N
    /\ ppc' = "collect"
    /\ UNCHANGED <<round, processes, i, next, child, interrupted, returned>>

\* The output of the tools has been collected and compared, or that failed.
CollectDone ==
    /\ ppc = "collect"
    /\ IF round < Rounds
       THEN round' = round + 1 /\ ppc' = "start"
       ELSE round' = round /\ ppc' = "done"
    /\ UNCHANGED <<processes, i, next, child, interrupted, returned>>

CollectFails ==
    /\ ppc = "collect"
    /\ ppc' = "exit"
    /\ UNCHANGED <<round, processes, i, next, child, interrupted, returned>>

----------------------------------------------------------------------------
(* A tool ends; nothing orders it with the parent. *)
ChildEnds(c) ==
    /\ child[c] = "live"
    /\ \E e \in Ends : child' = [child EXCEPT ![c] = e]
    /\ UNCHANGED <<ppc, round, processes, i, next, interrupted, returned>>

\* The steps of a round before its output is collected.
Forking == NoCommand \/ Fork \/ ForkFails \/ Wait

Parent == StartRound \/ Forking \/ AllForked

Finished == ppc \in {"done", "exit"}

PoolNext ==
    \/ Parent
    \/ WaitInterrupted
    \/ CollectDone \/ CollectFails
    \/ \E c \in Children : ChildEnds(c)
    \/ Finished /\ UNCHANGED poolVars

\* The parent runs on unless it waits, and every tool ends at some time: one
\* that never does may hold the parent in waitpid for ever.  No signal ever
\* has to come.
PoolFairness ==
    /\ WF_poolVars(Parent)
    /\ WF_poolVars(CollectDone \/ CollectFails)
    /\ \A c \in Children : WF_poolVars(ChildEnds(c))

PoolSpec == PoolInit /\ [][PoolNext]_poolVars

FairPoolSpec == PoolSpec /\ PoolFairness

----------------------------------------------------------------------------
(* Properties. *)

\* The types; `next` is not beyond the end of the list of a round.
PoolTypeOK ==
    /\ ppc \in {"start", "fork", "wait", "collect", "done", "exit"}
    /\ round \in 1..Rounds
    /\ processes \in Int
    /\ i \in Nat
    /\ next \in Nat \ {0}
    /\ ppc \in {"fork", "wait", "collect"} => next <= N + 1
    /\ child \in [Children -> ChildStates]
    /\ interrupted \in BOOLEAN
    /\ returned \in Children \cup {NoChild}

LiveInRound(r) == {k \in 1..NumCmds[r] : child[<<r, k>>] = "live"}

Live == {c \in Children : child[c] = "live"}

\* When the output of a round is collected every command of the round has
\* been started: the only wait comes behind the last command.
AllStarted ==
    ppc = "collect" => \A k \in 1..N : child[<<round, k>>] # "none"

\* The parent never holds a command back: it only waits when the pool is
\* exactly as large as the round and the last command has been started.
NeverThrottles ==
    ppc = "wait" => next > N /\ processes = N /\ i = N

\* A full pool is only collected from when the child that the wait of this
\* round returned had failed, or the wait was interrupted: a success or a
\* signal ends the scan, whatever failed in an earlier round.
FullPoolNeedsFailure ==
    (ppc = "collect" /\ N = processes)
        => interrupted \/ (returned \in Children /\ child[returned] = "reaped bad")

\* A scan ends, however its children end.
ScanEnds == <>Finished

\* "Number of concurrent processes to use" (src/recon/help.c, line 22).
WithinRequested == Cardinality(Live) <= Requested

=============================================================================
