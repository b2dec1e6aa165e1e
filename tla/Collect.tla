------------------------------ MODULE Collect ------------------------------
(***************************************************************************)
(* The files that carry what is known of a domain from one scan to the     *)
(* next, and the comparison that reports what is new:                      *)
(* open_files_and_add_content_to_alldomains (src/recon/creat_files.c) and  *)
(* compare_files (src/recon/compare_subdomains.c).                         *)
(*                                                                         *)
(*   path    ./output/<target>-domains.txt, the latest scan                *)
(*   old     the same name with .old, the scan before, during a scan       *)
(*   newsub  ./output/new_subdomains.txt, one file for all targets         *)
(*                                                                         *)
(* Each step is one system call that changes a file, or the reads before   *)
(* it.  None of the files is opened with O_TRUNC.  A file is the sequence  *)
(* of its lines; lines are taken to be of one length, so that a line       *)
(* written over an old one replaces it.                                    *)
(***************************************************************************)
EXTENDS Naturals, Sequences, SequencesExt, Ordering

CONSTANTS
    Targets,   \* monitored domains
    Subs,      \* subdomains a tool may print
    Buckets,   \* size of the hash table (HASH_TABLE_SIZE)
    Bucket,    \* Bucket[s]: slot of the hash table s falls in (hash)
    Outputs,   \* what the tools of one scan may print, line by line
    Faults,    \* faults that may happen, of those named in FaultKinds
    MaxScans   \* bound on the scans of one behaviour

\* mv fails; an output file is missing; the message is not sent; the program
\* is killed before the new list is created (early) or later (late).
FaultKinds == {"mv", "missing", "send", "early", "late"}

ASSUME OutputsAssumption == Outputs \subseteq Seq(Subs)
ASSUME FaultsAssumption == Faults \subseteq FaultKinds
ASSUME BucketAssumption == Buckets \in Nat /\ Bucket \in [Subs -> 0..(Buckets - 1)]
\* What stands for no file and for no target is neither a line nor a target.
ASSUME NamesAssumption == "no file" \notin Subs /\ "none" \notin Targets

\* A file that does not exist.
NoFile == <<"no file">>

VARIABLES
    path, old,   \* path[t], old[t]: content or NoFile
    newsub,      \* content or NoFile
    pc,          \* where the program is; "idle" when no scan is running
    t,           \* its target
    out,         \* lines the tools have printed for it
    k,           \* lines done of the loop at pc
    oldT,        \* oldTable, as a set
    diff,        \* lines of newTable that are not in oldTable
    sent,        \* the latest message that reached Discord
    seen,        \* history: faults so far
    lost,        \* history: messages that did not reach Discord
    scans        \* scans begun

vars == <<path, old, newsub, pc, t, out, k, oldT, diff, sent, seen, lost, scans>>
files == <<path, old, newsub>>

M == INSTANCE Monitor WITH current <- 0, known <- 0, trusted <- TRUE

Init ==
    /\ path = [x \in Targets |-> NoFile]
    /\ old = [x \in Targets |-> NoFile]
    /\ newsub = NoFile
    /\ pc = "idle"
    /\ t \in Targets
    /\ out = <<>> /\ k = 0 /\ oldT = {} /\ diff = <<>>
    /\ sent = M!NoMessage
    /\ seen = {} /\ lost = 0
    /\ scans = 0

Exists(f) == f # NoFile

\* The content a file has after open(..., O_CREAT).
Opened(f) == IF Exists(f) THEN f ELSE <<>>

\* Line l written as line p + 1 of a file of at least p lines.
Put(f, p, l) == IF p < Len(f) THEN [f EXCEPT ![p + 1] = l] ELSE Append(f, l)

\* The pairs of lines of f among I of which a walk over its hash table meets
\* the first one first: it goes bucket by bucket, and in each from the line
\* inserted last to the one inserted first (insert).
MetBefore(f, I) ==
    {p \in I \X I : \/ Bucket[f[p[1]]] < Bucket[f[p[2]]]
                    \/ Bucket[f[p[1]]] = Bucket[f[p[2]]] /\ p[1] > p[2]}

\* The lines of f that are not in the set table, as a walk meets them.
Missing(f, table) ==
    LET I == {i \in DOMAIN f : f[i] \notin table}
    IN  Pick(f, InOrder(I, MetBefore(f, I)))

----------------------------------------------------------------------------
(* The rotation and the copy (open_files_and_add_content_to_alldomains).   *)

Begin(x, o) ==
    /\ pc = "idle" /\ scans < MaxScans
    /\ t' = x /\ out' = o /\ k' = 0
    /\ scans' = scans + 1
    /\ pc' = "rotate"
    /\ UNCHANGED <<files, oldT, diff, sent, seen, lost>>

\* The list of the latest scan exists: mv path old, by the shell.
Rotate ==
    /\ pc = "rotate" /\ Exists(path[t])
    /\ old' = [old EXCEPT ![t] = path[t]]
    /\ path' = [path EXCEPT ![t] = NoFile]
    /\ pc' = "create"
    /\ UNCHANGED <<newsub, t, out, k, oldT, diff, sent, seen, lost, scans>>

\* mv fails; its status is ignored.
RotateFails ==
    /\ pc = "rotate" /\ Exists(path[t]) /\ "mv" \in Faults
    /\ seen' = seen \cup {"mv"}
    /\ pc' = "create"
    /\ UNCHANGED <<files, t, out, k, oldT, diff, sent, lost, scans>>

\* A variant that opens the .old file with O_TRUNC.
NothingToRotateTruncates ==
    /\ pc = "rotate" /\ ~Exists(path[t])
    /\ old' = [old EXCEPT ![t] = <<>>]
    /\ pc' = "create"
    /\ UNCHANGED <<path, newsub, t, out, k, oldT, diff, sent, seen, lost, scans>>

\* No list yet: the .old file is created if it does not exist either.
NothingToRotate ==
    /\ pc = "rotate" /\ ~Exists(path[t])
    /\ old' = [old EXCEPT ![t] = Opened(@)]
    /\ pc' = "create"
    /\ UNCHANGED <<path, newsub, t, out, k, oldT, diff, sent, seen, lost, scans>>

\* The new list is opened with O_CREAT.
CreateList ==
    /\ pc = "create"
    /\ path' = [path EXCEPT ![t] = Opened(@)]
    /\ pc' = "copy"
    /\ UNCHANGED <<old, newsub, t, out, k, oldT, diff, sent, seen, lost, scans>>

CopyLine ==
    /\ pc = "copy" /\ k < Len(out)
    /\ path' = [path EXCEPT ![t] = Put(@, k, out[k + 1])]
    /\ k' = k + 1
    /\ UNCHANGED <<old, newsub, pc, t, out, oldT, diff, sent, seen, lost, scans>>

\* An output file cannot be opened: the program exits, the list stays as it is.
OutputMissing ==
    /\ pc = "copy" /\ "missing" \in Faults
    /\ seen' = seen \cup {"missing"}
    /\ pc' = "idle"
    /\ UNCHANGED <<files, t, out, k, oldT, diff, sent, lost, scans>>

----------------------------------------------------------------------------
(* The comparison (compare_files).                                         *)

\* A variant that takes subdomains of one bucket for the same.
CompareBuckets ==
    /\ pc = "copy" /\ k = Len(out) /\ Exists(old[t])
    /\ oldT' = ToSet(old[t])
    /\ diff' = Missing(path[t],
                       {s \in Subs : \E u \in oldT' : Bucket[s] = Bucket[u]})
    /\ newsub' = Opened(newsub)
    /\ k' = 0
    /\ pc' = "diff"
    /\ UNCHANGED <<path, old, t, out, sent, seen, lost, scans>>

\* Both lists are read into tables and new_subdomains.txt is opened.
Compare ==
    /\ pc = "copy" /\ k = Len(out) /\ Exists(old[t])
    /\ oldT' = ToSet(old[t])
    /\ diff' = Missing(path[t], oldT')
    /\ newsub' = Opened(newsub)
    /\ k' = 0
    /\ pc' = "diff"
    /\ UNCHANGED <<path, old, t, out, sent, seen, lost, scans>>

\* The .old file cannot be read (mv had failed): the program exits.
CompareFails ==
    /\ pc = "copy" /\ k = Len(out) /\ ~Exists(old[t])
    /\ pc' = "idle"
    /\ UNCHANGED <<files, t, out, k, oldT, diff, sent, seen, lost, scans>>

WriteDiff ==
    /\ pc = "diff" /\ k < Len(diff)
    /\ newsub' = Put(newsub, k, diff[k + 1])
    /\ k' = k + 1
    /\ UNCHANGED <<path, old, pc, t, out, oldT, diff, sent, seen, lost, scans>>

\* The .old file is removed before anything is reported.
DropOld ==
    /\ pc = "diff" /\ k = Len(diff)
    /\ old' = [old EXCEPT ![t] = NoFile]
    /\ k' = 0
    /\ pc' = IF diff # <<>> THEN "append" ELSE "send"
    /\ UNCHANGED <<path, newsub, t, out, oldT, diff, sent, seen, lost, scans>>

\* add_new_subdomains: all of new_subdomains.txt goes to the end of the list.
AppendNew ==
    /\ pc = "append" /\ k < Len(newsub)
    /\ path' = [path EXCEPT ![t] = Append(@, newsub[k + 1])]
    /\ k' = k + 1
    /\ UNCHANGED <<old, newsub, pc, t, out, oldT, diff, sent, seen, lost, scans>>

AppendDone ==
    /\ pc = "append" /\ k = Len(newsub)
    /\ pc' = "send"
    /\ UNCHANGED <<files, t, out, k, oldT, diff, sent, seen, lost, scans>>

\* The message and the whole of new_subdomains.txt are posted.
Send ==
    /\ pc = "send"
    /\ sent' = [target |-> t, news |-> diff # <<>>, subs |-> ToSet(newsub)]
    /\ pc' = "clean"
    /\ UNCHANGED <<files, t, out, k, oldT, diff, seen, lost, scans>>

\* Posting fails; nobody looks at the result.
SendFails ==
    /\ pc = "send" /\ "send" \in Faults
    /\ seen' = seen \cup {"send"} /\ lost' = lost + 1
    /\ pc' = "clean"
    /\ UNCHANGED <<files, t, out, k, oldT, diff, sent, scans>>

\* A variant that keeps new_subdomains.txt when nothing was new.
CleanIfNews ==
    /\ pc = "clean"
    /\ newsub' = IF diff # <<>> THEN NoFile ELSE newsub
    /\ pc' = "idle"
    /\ UNCHANGED <<path, old, t, out, k, oldT, diff, sent, seen, lost, scans>>

Clean ==
    /\ pc = "clean"
    /\ newsub' = NoFile
    /\ pc' = "idle"
    /\ UNCHANGED <<path, old, t, out, k, oldT, diff, sent, seen, lost, scans>>

\* The program is killed; what it has written stays.
Crash ==
    /\ pc # "idle"
    /\ \E f \in (IF pc \in {"rotate", "create"} THEN {"early"} ELSE {"late"}) :
          f \in Faults /\ seen' = seen \cup {f}
    /\ pc' = "idle"
    /\ UNCHANGED <<files, t, out, k, oldT, diff, sent, lost, scans>>

----------------------------------------------------------------------------
Next ==
    \/ \E x \in Targets, o \in Outputs : Begin(x, o)
    \/ Rotate \/ RotateFails \/ NothingToRotate
    \/ CreateList \/ CopyLine \/ OutputMissing
    \/ Compare \/ CompareFails \/ WriteDiff \/ DropOld
    \/ AppendNew \/ AppendDone
    \/ Send \/ SendFails \/ Clean
    \/ Crash
    \/ pc = "idle" /\ scans = MaxScans /\ UNCHANGED vars

Spec == Init /\ [][Next]_vars

----------------------------------------------------------------------------
(* Properties. *)

\* Whatever has gone wrong before, every subdomain of the list that was not in
\* the list it was compared with is in the file that is posted.
NothingNewIsMissed ==
    pc = "send" => ToSet(out) \ oldT \subseteq ToSet(newsub)

\* new_subdomains.txt, which the next comparison would write over but not
\* truncate, is only left behind by a program killed during a comparison.
NoLeftoverWithoutCrash == (pc = "idle" /\ Exists(newsub)) => "late" \in seen

\* The faults that leave the stored scans intact: a message that is not sent,
\* and a program killed before it creates the new list.
Intact == seen \subseteq {"send", "early"}

\* What the files tell of target x: until the message is out, a running scan
\* stands on the scan before it.
KnownNow(x) ==
    IF pc \in {"append", "send"} /\ x = t THEN oldT
    ELSE IF pc \in {"create", "copy", "diff"} /\ x = t THEN ToSet(Opened(old[x]))
    ELSE IF Exists(path[x]) THEN ToSet(path[x])
    ELSE ToSet(Opened(old[x]))

\* The files and messages implement the monitor as long as they are intact.
Abstract ==
    INSTANCE Monitor WITH
        current <- IF Intact /\ pc \notin {"idle", "clean"}
                   THEN [target |-> t, subs |-> ToSet(out)] ELSE M!NoScan,
        known <- [x \in Targets |-> IF Intact THEN KnownNow(x) ELSE {}],
        lost <- IF Intact THEN lost ELSE 0,
        trusted <- Intact

ImplementsMonitor == Abstract!MonitorSpec

=============================================================================
