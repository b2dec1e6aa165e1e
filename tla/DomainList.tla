----------------------------- MODULE DomainList -----------------------------
(***************************************************************************)
(* domains.txt, the list of monitored domains, and the runs of the program *)
(* that change it: a scan of a new target adds it (check_domain in         *)
(* src/recon/parse_domainname.c, add_domain_to_list in recon_utils.c), -d  *)
(* removes one through domains_tmp.txt (remove.c), -m empties the list     *)
(* (reset_all in help.c).  Several runs may be under way at once, by hand  *)
(* and from a timer; each may be killed at any point.  No lock is taken.   *)
(*                                                                         *)
(* Both names are bound to inodes, for a run keeps an inode open while     *)
(* another rebinds its name.  Written bytes leave the stdio buffer when    *)
(* the file is closed.                                                     *)
(***************************************************************************)
EXTENDS Naturals, Sequences, SequencesExt, Ordering

CONSTANTS
    Domains,   \* domain names
    Runs,      \* runs of the program that may be under way at once
    MaxInodes, \* bound on the files created in one behaviour
    MaxStarts  \* bound on the runs started

ASSUME InodesAssumption == MaxInodes \in Nat \ {0}

VARIABLES
    domains,  \* inode of domains.txt, 0 if it does not exist
    tmp,      \* inode of domains_tmp.txt, 0 if it does not exist
    data,     \* data[f]: the lines in inode f
    used,     \* inodes used so far are 1..used
    pc,       \* pc[p]: the step p is at, "idle" when it is not running
    arg,      \* arg[p]: the domain of its command
    fd,       \* fd[p]: inode open for reading or appending, or 0
    tfd,      \* tfd[p]: inode of domains_tmp.txt open for writing, or 0
    buf,      \* buf[p]: lines in its stdio buffer
    alone,    \* history: no two runs have overlapped
    calm,     \* history: no removal or reset has overlapped another run
    single,   \* history: no two removals have overlapped
    starts    \* runs started

vars == <<domains, tmp, data, used, pc, arg, fd, tfd, buf, alone, calm, single,
          starts>>
files == <<domains, tmp, data, used>>
locals == <<arg, fd, tfd, buf>>
history == <<alone, calm, single>>

Adding == {"check", "append", "write"}
Removing == {"open", "opentmp", "read", "flush", "rename"}
Resetting == {"clear", "touch"}

Init ==
    /\ data \in [1..MaxInodes -> {<<>>} \cup {<<d>> : d \in Domains}]
    /\ \A f \in 2..MaxInodes : data[f] = <<>>
    /\ domains \in {0, 1} /\ used = 1
    /\ domains = 0 => data[1] = <<>>
    /\ tmp = 0
    /\ pc = [p \in Runs |-> "idle"]
    /\ arg \in [Runs -> Domains]
    /\ \A p, q \in Runs : arg[p] = arg[q]
    /\ fd = [p \in Runs |-> 0] /\ tfd = [p \in Runs |-> 0]
    /\ buf = [p \in Runs |-> <<>>]
    /\ alone = TRUE /\ calm = TRUE /\ single = TRUE
    /\ starts = 0

Listed == IF domains = 0 THEN {} ELSE ToSet(data[domains])

Goto(p, label) == pc' = [pc EXCEPT ![p] = label]

\* The lines of f but for those that are d.
Without(f, d) == At(f, {i \in DOMAIN f : f[i] # d})

\* s written from the start of a file that holds f.
Overlay(f, s) == s \o SubSeq(f, Len(s) + 1, Len(f))

----------------------------------------------------------------------------
Start(p, d, first) ==
    /\ pc[p] = "idle" /\ starts < MaxStarts
    /\ starts' = starts + 1
    /\ arg' = [arg EXCEPT ![p] = d]
    /\ fd' = [fd EXCEPT ![p] = 0] /\ tfd' = [tfd EXCEPT ![p] = 0]
    /\ buf' = [buf EXCEPT ![p] = <<>>]
    /\ alone' = (alone /\ \A q \in Runs : pc[q] = "idle")
    /\ calm' = (calm /\ \A q \in Runs :
                           \/ pc[q] = "idle"
                           \/ pc[q] \in Adding /\ first \in Adding)
    /\ single' = (single /\ ~(first \in Removing
                              /\ \E q \in Runs : pc[q] \in Removing))
    /\ Goto(p, first)
    /\ UNCHANGED files

StartAdd(p, d) == Start(p, d, "check")
StartRemove(p, d) == Start(p, d, "open")
StartReset(p, d) == Start(p, d, "clear")

----------------------------------------------------------------------------
(* -u: check_domain, then add_domain_to_list. *)

\* A variant that adds without looking.
CheckSkipped(p) ==
    /\ pc[p] = "check" /\ domains # 0
    /\ Goto(p, "append")
    /\ UNCHANGED <<files, locals, history, starts>>

\* The list is read for the target.
Check(p) ==
    /\ pc[p] = "check" /\ domains # 0
    /\ Goto(p, IF arg[p] \in ToSet(data[domains]) THEN "idle" ELSE "append")
    /\ UNCHANGED <<files, locals, history, starts>>

\* Without a list check_domain returns 1, as for a target it has found.
CheckFindsNoFile(p) ==
    /\ pc[p] = "check" /\ domains = 0
    /\ Goto(p, "idle")
    /\ UNCHANGED <<files, locals, history, starts>>

\* fopen("domains.txt", "a").
AppendOpens(p) ==
    /\ pc[p] = "append"
    /\ \/ /\ domains # 0
          /\ fd' = [fd EXCEPT ![p] = domains]
          /\ UNCHANGED <<domains, used>>
       \/ /\ domains = 0 /\ used < MaxInodes
          /\ used' = used + 1
          /\ domains' = used'
          /\ fd' = [fd EXCEPT ![p] = used']
    /\ Goto(p, "write")
    /\ UNCHANGED <<tmp, data, arg, tfd, buf, history, starts>>

AppendWrites(p) ==
    /\ pc[p] = "write"
    /\ data' = [data EXCEPT ![fd[p]] = Append(@, arg[p])]
    /\ Goto(p, "idle")
    /\ UNCHANGED <<domains, tmp, used, locals, history, starts>>

----------------------------------------------------------------------------
(* -d: remove_domain_in_list. *)

RemoveOpens(p) ==
    /\ pc[p] = "open" /\ domains # 0
    /\ fd' = [fd EXCEPT ![p] = domains]
    /\ Goto(p, "opentmp")
    /\ UNCHANGED <<files, arg, tfd, buf, history, starts>>

RemoveFindsNoFile(p) ==
    /\ pc[p] = "open" /\ domains = 0
    /\ Goto(p, "idle")
    /\ UNCHANGED <<files, locals, history, starts>>

\* A variant that opens the temporary file for appending.
RemoveOpensTmpAppending(p) ==
    /\ pc[p] = "opentmp"
    /\ \/ /\ tmp # 0
          /\ tfd' = [tfd EXCEPT ![p] = tmp]
          /\ UNCHANGED <<tmp, data, used>>
       \/ /\ tmp = 0 /\ used < MaxInodes
          /\ used' = used + 1
          /\ tmp' = used'
          /\ tfd' = [tfd EXCEPT ![p] = used']
          /\ UNCHANGED data
    /\ Goto(p, "read")
    /\ UNCHANGED <<domains, arg, fd, buf, history, starts>>

\* fopen("domains_tmp.txt", "w"): created, or truncated if it was left over.
RemoveOpensTmp(p) ==
    /\ pc[p] = "opentmp"
    /\ \/ /\ tmp # 0
          /\ data' = [data EXCEPT ![tmp] = <<>>]
          /\ tfd' = [tfd EXCEPT ![p] = tmp]
          /\ UNCHANGED <<tmp, used>>
       \/ /\ tmp = 0 /\ used < MaxInodes
          /\ used' = used + 1
          /\ tmp' = used'
          /\ tfd' = [tfd EXCEPT ![p] = used']
          /\ UNCHANGED data
    /\ Goto(p, "read")
    /\ UNCHANGED <<domains, arg, fd, buf, history, starts>>

\* A variant that renames before it closes.
RemoveReadsThenRenames(p) ==
    /\ pc[p] = "read"
    /\ buf' = [buf EXCEPT ![p] = Without(data[fd[p]], arg[p])]
    /\ domains' = tmp /\ tmp' = 0
    /\ Goto(p, "flush")
    /\ UNCHANGED <<data, used, arg, fd, tfd, history, starts>>

\* All lines but the removed ones go to the buffer of the temporary file.
RemoveReads(p) ==
    /\ pc[p] = "read"
    /\ buf' = [buf EXCEPT ![p] = Without(data[fd[p]], arg[p])]
    /\ Goto(p, "flush")
    /\ UNCHANGED <<files, arg, fd, tfd, history, starts>>

RemoveFlushes(p) ==
    /\ pc[p] = "flush"
    /\ data' = [data EXCEPT ![tfd[p]] = Overlay(@, buf[p])]
    /\ Goto(p, "rename")
    /\ UNCHANGED <<domains, tmp, used, locals, history, starts>>

\* rename; it fails when another run has renamed the file already.
RemoveRenames(p) ==
    /\ pc[p] = "rename"
    /\ IF tmp # 0 THEN domains' = tmp /\ tmp' = 0
                  ELSE UNCHANGED <<domains, tmp>>
    /\ Goto(p, "idle")
    /\ UNCHANGED <<data, used, locals, history, starts>>

----------------------------------------------------------------------------
(* -m: the end of the command of reset_all, "rm -f domains.txt && touch    *)
(* domains.txt".                                                           *)

ResetRemoves(p) ==
    /\ pc[p] = "clear"
    /\ domains' = 0
    /\ Goto(p, "touch")
    /\ UNCHANGED <<tmp, data, used, locals, history, starts>>

\* A command of the chain before touch fails: the rest is not run.
ResetStops(p) ==
    /\ pc[p] \in {"clear", "touch"}
    /\ Goto(p, "idle")
    /\ UNCHANGED <<files, locals, history, starts>>

ResetTouches(p) ==
    /\ pc[p] = "touch"
    /\ IF domains = 0
       THEN used < MaxInodes /\ used' = used + 1 /\ domains' = used'
       ELSE UNCHANGED <<domains, used>>
    /\ Goto(p, "idle")
    /\ UNCHANGED <<tmp, data, locals, history, starts>>

\* The run is killed; what is in its buffer is lost.
Killed(p) ==
    /\ pc[p] # "idle"
    /\ Goto(p, "idle")
    /\ UNCHANGED <<files, locals, history, starts>>

----------------------------------------------------------------------------
AddSteps(p) == Check(p) \/ CheckFindsNoFile(p) \/ AppendOpens(p) \/ AppendWrites(p)

RemoveSteps(p) ==
    \/ RemoveOpens(p) \/ RemoveFindsNoFile(p) \/ RemoveOpensTmp(p)
    \/ RemoveReads(p) \/ RemoveFlushes(p) \/ RemoveRenames(p)

ResetSteps(p) == ResetRemoves(p) \/ ResetStops(p) \/ ResetTouches(p)

Next ==
    \/ \E p \in Runs, d \in Domains :
          StartAdd(p, d) \/ StartRemove(p, d) \/ StartReset(p, d)
    \/ \E p \in Runs : AddSteps(p) \/ RemoveSteps(p) \/ ResetSteps(p) \/ Killed(p)
    \/ /\ starts = MaxStarts /\ \A p \in Runs : pc[p] = "idle"
       /\ UNCHANGED vars

Spec == Init /\ [][Next]_vars

----------------------------------------------------------------------------
(* Properties. *)

\* As long as no two runs overlap a domain is listed once.
NoDuplicates ==
    (alone /\ domains # 0) =>
        \A m, n \in 1..Len(data[domains]) :
            data[domains][m] = data[domains][n] => m = n

\* The command a run was started with, while it is under way.
Pending(p) ==
    IF pc[p] = "idle" THEN [op |-> "none"]
    ELSE [op |-> IF pc[p] \in Adding THEN "add"
                 ELSE IF pc[p] \in Removing THEN "remove" ELSE "reset",
          domain |-> arg[p]]

\* As long as no removal or reset overlaps another run, the list changes as
\* commands under way ask for and each time by one step, wherever runs are
\* killed and however additions interleave: no other domain is ever lost or
\* comes back, not even by a removal that dies half way and leaves its
\* temporary file behind.
Set == INSTANCE DomainSet WITH
           list <- IF calm THEN Listed ELSE {},
           pending <- [p \in Runs |-> IF calm THEN Pending(p)
                                      ELSE [op |-> "none"]]

ImplementsDomainSet == Set!DomainSetSpec

\* A removal installs the list it has read but for its own domain, whatever
\* additions and resets came in between (which are thereby undone); only a
\* second removal, which shares the temporary file, can spoil it.
RenameInstallsSnapshot ==
    [][\A p \in Runs :
          (single /\ RemoveRenames(p)) => Listed' = ToSet(buf[p])]_vars

\* "Domain to monitor" (src/recon/help.c, line 20): a target whose check has
\* run to its end is on the list.
TargetIsMonitored ==
    [][\A p \in Runs :
          ((Check(p) \/ CheckFindsNoFile(p)) /\ pc'[p] = "idle")
              => arg[p] \in Listed]_vars

=============================================================================
