------------------------------ MODULE Monitor ------------------------------
(***************************************************************************)
(* What the collection of a scan promises its user: each complete scan of  *)
(* a domain is compared with the complete scan before it, and a message    *)
(* names exactly the subdomains that were not in it.  A message may get    *)
(* lost, the comparison is not.                                            *)
(*                                                                         *)
(* The promise ends (`trusted` becomes FALSE) with a fault that may damage *)
(* the stored scans; which faults these are is for the implementation to   *)
(* say (module Collect).                                                   *)
(***************************************************************************)
EXTENDS Naturals

CONSTANTS Targets, Subs

VARIABLES
    current,  \* the scan under way: its target and what its tools print
    known,    \* known[t]: subdomains in the latest complete scan of t
    sent,     \* the latest message
    lost,     \* number of messages lost
    trusted   \* no damaging fault so far

monitorVars == <<current, known, sent, lost, trusted>>

NoScan == [target |-> "none", subs |-> {}]

Message == [target : Targets, news : BOOLEAN, subs : SUBSET Subs]

NoMessage == [target |-> "none", news |-> FALSE, subs |-> {}]

Nothing == [t \in Targets |-> {}]

MonitorInit ==
    /\ current = NoScan
    /\ known = Nothing
    /\ sent = NoMessage
    /\ lost = 0
    /\ trusted = TRUE

Start(t, S) ==
    /\ trusted /\ current = NoScan
    /\ current' = [target |-> t, subs |-> S]
    /\ UNCHANGED <<known, sent, lost, trusted>>

\* The scan is complete: what it found is known from now on.
Complete ==
    /\ trusted /\ current # NoScan
    /\ known' = [known EXCEPT ![current.target] = current.subs]
    /\ current' = NoScan
    /\ UNCHANGED trusted

\* Its message names the subdomains that were not known before ...
Report ==
    LET new == current.subs \ known[current.target]
    IN  /\ Complete
        /\ sent' = [target |-> current.target, news |-> new # {}, subs |-> new]
        /\ UNCHANGED lost

\* ... or is lost.
ReportLost ==
    /\ Complete
    /\ lost' = lost + 1
    /\ UNCHANGED sent

\* The scan is given up, as if it had never been started.
GiveUp ==
    /\ trusted
    /\ current' = NoScan
    /\ UNCHANGED <<known, sent, lost, trusted>>

\* A damaging fault, and what may be sent after one.
Damage ==
    /\ trusted' = FALSE
    /\ current' = NoScan /\ known' = Nothing /\ lost' = 0
    /\ UNCHANGED sent

SentAfterDamage ==
    /\ ~trusted
    /\ sent' \in Message
    /\ UNCHANGED <<current, known, lost, trusted>>

MonitorNext ==
    \/ \E t \in Targets, S \in SUBSET Subs : Start(t, S)
    \/ Report \/ ReportLost \/ GiveUp
    \/ Damage
    \/ SentAfterDamage

MonitorSpec == MonitorInit /\ [][MonitorNext]_monitorVars

=============================================================================
