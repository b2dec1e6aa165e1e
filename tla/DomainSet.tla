----------------------------- MODULE DomainSet -----------------------------
(***************************************************************************)
(* The list of monitored domains as its users see it: a set that changes   *)
(* one step at a time, and only as a command under way asks for.  A        *)
(* command may also end without effect.  Nothing is promised any more once *)
(* runs of the program have got in each other's way (`calm` is FALSE).     *)
(***************************************************************************)
CONSTANTS Domains, Runs

VARIABLES list, pending, calm

setVars == <<list, pending, calm>>

None == [op |-> "none"]

Command == [op : {"add", "remove", "reset"}, domain : Domains]

NoRun == [p \in Runs |-> None]

DomainSetInit == list \in SUBSET Domains /\ pending = NoRun /\ calm = TRUE

Ask(p, c) ==
    /\ pending[p] = None
    /\ pending' = [pending EXCEPT ![p] = c]
    /\ UNCHANGED <<list, calm>>

\* What command c makes of the set s.
Effect(c, s) ==
    CASE c.op = "add" -> s \cup {c.domain}
      [] c.op = "remove" -> s \ {c.domain}
      [] OTHER -> {}

\* The command of p takes effect; the run may end with it or go on.
Perform(p) ==
    /\ calm /\ pending[p] # None
    /\ list' = Effect(pending[p], list)
    /\ pending' \in {pending, [pending EXCEPT ![p] = None]}
    /\ UNCHANGED calm

GiveUp(p) ==
    /\ pending' = [pending EXCEPT ![p] = None]
    /\ UNCHANGED <<list, calm>>

Overlap == calm' = FALSE /\ list' = {} /\ pending' = NoRun

DomainSetNext ==
    \/ \E p \in Runs, c \in Command : Ask(p, c)
    \/ \E p \in Runs : Perform(p) \/ GiveUp(p)
    \/ Overlap

DomainSetSpec == DomainSetInit /\ [][DomainSetNext]_setVars

=============================================================================
