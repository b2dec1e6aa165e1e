------------------------------ MODULE Pipeline ------------------------------
(***************************************************************************)
(* The execution of a parsed command by the shell: __exec, exec_and_or,    *)
(* exec_sub, exec_cmd and exec_pipe with exec_piped_cmd and                *)
(* exec_last_piped_cmd.  Processes are forked, connected by pipes, end and *)
(* are waited for.                                                         *)
(*                                                                         *)
(* A node of the tree is executed at most once and forks at most one       *)
(* process, so that processes are named after nodes; process Shell is the  *)
(* one that called exec_command.  The pipe that add_pipe makes before it   *)
(* forks element m of a pipeline is named m as well.                       *)
(***************************************************************************)
EXTENDS Naturals, FiniteSets

CONSTANTS
    MaxNodes,   \* nodes are 1 .. MaxNodes, 1 is the root
    Trees,      \* the trees that the parser may hand over
    PipeSize,   \* what a pipe holds
    MaxFaults   \* bound on failing forks and interrupted waits

Nodes == 1 .. MaxNodes
Root == 1
Shell == 0
Procs == {Shell} \cup Nodes

ASSUME PipelineAssumption ==
    /\ MaxNodes \in Nat \ {0}
    /\ PipeSize \in Nat \ {0}
    /\ MaxFaults \in Nat
    /\ Trees \subseteq
        [kind: [Nodes -> {"cmd", "sub", "pipe", "and", "or", "none"}],
         prog: [Nodes -> {"quick", "filter", "source", "builtin", "exit",
                          "none", "in", "out"}],
         left: [Nodes -> {0} \cup Nodes],
         right: [Nodes -> {0} \cup Nodes]]

(* What the parser makes is a tree; its nodes are numbered from the root   *)
(* downwards.  Pipes lean to the left and connect commands and subshells.  *)
ASSUME TreesAssumption ==
    \A t \in Trees :
        /\ t.kind[1] # "none"
        /\ \A n \in Nodes :
            LET l == t.left[n]
                r == t.right[n]
            IN /\ l # 0 => l > n /\ t.kind[l] # "none"
               /\ r # 0 => r > n /\ t.kind[r] # "none" /\ r # l
               /\ t.kind[n] \in {"and", "or", "pipe"} => l # 0 /\ r # 0
               /\ t.kind[n] = "sub" => l # 0 /\ r = 0
               /\ t.kind[n] \in {"cmd", "none"} => l = 0 /\ r = 0
               /\ t.kind[n] = "pipe" => /\ t.kind[l] \in {"pipe", "cmd", "sub"}
                                        /\ t.kind[r] \in {"cmd", "sub"}
        /\ \A m, n \in Nodes :
            m # n => \A c \in {t.left[m], t.right[m]} :
                        c # 0 => c \notin {t.left[n], t.right[n]}
        /\ \A n \in Nodes : t.kind[n] # "none" /\ n # 1 =>
            \E u \in Nodes : n \in {t.left[u], t.right[u]}

VARIABLES
    tree,    \* parse_tree
    proc,    \* the processes: what they are at, their descriptors
    buf,     \* bytes in each pipe
    result,  \* history: what __exec returned for each node
    faults   \* history: number of failing forks and interrupted waits

vars == <<tree, proc, buf, result, faults>>

-----------------------------------------------------------------------------
(* The tree.  prog says what a command does: filter reads its input to the *)
(* end, source writes for ever, builtin and exit are run by the shell      *)
(* itself; for a subshell it is its redirection.                           *)

Kind(n) == IF n = 0 THEN "none" ELSE tree.kind[n]
Left(n) == tree.left[n]
Right(n) == tree.right[n]

Up(n) == IF \E u \in Nodes : n \in {Left(u), Right(u)}
         THEN CHOOSE u \in Nodes : n \in {Left(u), Right(u)}
         ELSE 0

below[m \in {0} \cup Nodes] ==
    IF m = 0 THEN {} ELSE {m} \cup below[Left(m)] \cup below[Right(m)]

Below(n) == below[n]

(* The elements of a pipeline: pipes lean to the left, the right child of  *)
(* a pipe is never a pipe.                                                 *)
IsElement(n) == Kind(Up(n)) = "pipe" /\ Kind(n) # "pipe"

IsFirst(n) == n = Left(Up(n))

IsLast(n) == ~IsFirst(n) /\ Kind(Up(Up(n))) # "pipe"

Before(n) ==
    LET l == Left(Up(n))
    IN IF IsFirst(n) THEN 0 ELSE IF Kind(l) = "pipe" THEN Right(l) ELSE l

After(n) == Right(IF IsFirst(n) THEN Up(n) ELSE Up(Up(n)))

-----------------------------------------------------------------------------
Status == {0, 1}   \* zero and not zero
NoResult == 2
End == Nodes \X {"r", "w"}

(* A process is a record of its                                            *)
(*   state: "unborn", "shell", "tool", "zombie" or "gone";                 *)
(*   parent;                                                               *)
(*   ctl: "start", "eval", "down", "add", "close", "one", "first",         *)
(*        "rest", "report", "value" or "over";                             *)
(*   at: the node that __exec is called for;                               *)
(*   cur: the pipe that exec_pipe is called for, then the element of the   *)
(*        pipeline to be started;                                          *)
(*   val: what __exec returns, then the exit status;                       *)
(*   inp, out: standard input and output, a pipe or 0 for no pipe;         *)
(*   held: pipe ends on further descriptors.                               *)

Alive(p) == proc[p].state \in {"shell", "tool"}

Readers(m) == {p \in Procs : Alive(p) /\ \/ proc[p].inp = m
                                         \/ <<m, "r">> \in proc[p].held}

Writers(m) == {p \in Procs : Alive(p) /\ \/ proc[p].out = m
                                         \/ <<m, "w">> \in proc[p].held}

Children(p) == {q \in Nodes : /\ proc[q].parent = p
                              /\ Alive(q) \/ proc[q].state = "zombie"}

Zombies(p) == {q \in Children(p) : proc[q].state = "zombie"}

Newborn == [state |-> "unborn", parent |-> Shell, ctl |-> "eval", at |-> Root,
            cur |-> 0, val |-> 0, inp |-> 0, out |-> 0, held |-> {}]

Init ==
    /\ tree \in Trees
    /\ proc = [p \in Procs |->
                IF p = Shell THEN [Newborn EXCEPT !.state = "shell"]
                             ELSE Newborn]
    /\ buf = [m \in Nodes |-> 0]
    /\ result = [n \in Nodes |-> NoResult]
    /\ faults = 0

-----------------------------------------------------------------------------
Running(p, ctl) == proc[p].state = "shell" /\ proc[p].ctl = ctl

Fault == faults < MaxFaults /\ faults' = faults + 1

(* __exec is about to return v for the node that p is at. *)
Value(p, v) == proc' = [proc EXCEPT ![p].ctl = "value", ![p].val = v]

(* p ends with status s; the kernel closes its descriptors. *)
Exit(p, s) ==
    proc' = [proc EXCEPT ![p] = [@ EXCEPT !.state = "zombie", !.ctl = "over",
                                          !.val = s, !.inp = 0, !.out = 0,
                                          !.held = {}]]

(* p forks process q, which gets a copy of p; q has just returned from     *)
(* fork, p goes on with ctl.                                               *)
Forked(p, q, held, ctl) ==
    proc' = [proc EXCEPT
        ![q] = [proc[p] EXCEPT !.parent = p, !.ctl = "start", !.at = q,
                               !.cur = 0, !.held = held],
        ![p].held = held,
        ![p].ctl = ctl]

(* One byte more in the pipe that p writes to. *)
Put(p) ==
    IF proc[p].out = 0
    THEN UNCHANGED buf
    ELSE /\ Readers(proc[p].out) # {}
         /\ buf[proc[p].out] < PipeSize
         /\ buf' = [buf EXCEPT ![proc[p].out] = @ + 1]

Broken(p) == proc[p].out # 0 /\ Readers(proc[p].out) = {}

-----------------------------------------------------------------------------
(* __exec, exec_and_or and exec_simple in a process that runs the shell.   *)

EvalAndOr(p) ==
    /\ Running(p, "eval")
    /\ Kind(proc[p].at) \in {"and", "or"}
    /\ proc' = [proc EXCEPT ![p].at = Left(proc[p].at)]
    /\ UNCHANGED <<tree, buf, result, faults>>

(* select_buildin_commands, also exec_simple without arguments. *)
EvalBuiltin(p) ==
    /\ Running(p, "eval")
    /\ Kind(proc[p].at) = "cmd"
    /\ tree.prog[proc[p].at] = "builtin"
    /\ \/ \E s \in Status : Value(p, s) /\ (Put(p) \/ UNCHANGED buf)
       \/ Broken(p) /\ Exit(p, 1) /\ UNCHANGED buf
    /\ UNCHANGED <<tree, result, faults>>

EvalExit(p) ==
    /\ Running(p, "eval")
    /\ Kind(proc[p].at) = "cmd"
    /\ tree.prog[proc[p].at] = "exit"
    /\ \E s \in Status : Exit(p, s)
    /\ UNCHANGED <<tree, buf, result, faults>>

(* exec_sub, and exec_cmd for what is not a builtin. *)
Forks(n) == \/ Kind(n) = "sub"
            \/ Kind(n) = "cmd" /\ tree.prog[n] \notin {"builtin", "exit"}

EvalFork(p) ==
    /\ Running(p, "eval")
    /\ Forks(proc[p].at)
    /\ Forked(p, proc[p].at, proc[p].held, "one")
    /\ UNCHANGED <<tree, buf, result, faults>>

EvalForkFails(p) ==
    /\ Running(p, "eval")
    /\ Forks(proc[p].at)
    /\ Fault
    /\ Value(p, IF Kind(proc[p].at) = "sub" THEN 1 ELSE 0)
    /\ UNCHANGED <<tree, buf, result>>

(* The return of __exec: to exec_and_or, which goes on with the right side *)
(* or returns in its turn, or to exit in the child of a subshell.          *)
Body(p) == IF p = Shell THEN Root ELSE Left(p)

GoesOnSwapped(u, v) == \/ Kind(u) = "and" /\ v # 0
                       \/ Kind(u) = "or" /\ v = 0

GoesOn(u, v) == \/ Kind(u) = "and" /\ v = 0
                \/ Kind(u) = "or" /\ v # 0

Return(p) ==
    /\ Running(p, "value")
    /\ LET n == proc[p].at
           u == Up(n)
           v == proc[p].val
       IN /\ \/ n = Body(p) /\ Exit(p, v)
             \/ /\ n # Body(p)
                /\ n = Left(u) /\ GoesOn(u, v)
                /\ proc' = [proc EXCEPT ![p].at = Right(u), ![p].ctl = "eval"]
             \/ /\ n # Body(p)
                /\ ~(n = Left(u) /\ GoesOn(u, v))
                /\ proc' = [proc EXCEPT ![p].at = u]
          /\ result' = [result EXCEPT ![n] = v]
    /\ UNCHANGED <<tree, buf, faults>>

-----------------------------------------------------------------------------
(* exec_pipe: down to the first element, then element after element, each  *)
(* with the pipe behind it.                                                *)

EvalPipe(p) ==
    /\ Running(p, "eval")
    /\ Kind(proc[p].at) = "pipe"
    /\ proc' = [proc EXCEPT ![p].ctl = "down", ![p].cur = proc[p].at]
    /\ UNCHANGED <<tree, buf, result, faults>>

GoDown(p) ==
    /\ Running(p, "down")
    /\ LET l == Left(proc[p].cur)
       IN proc' = [proc EXCEPT
            ![p].cur = l,
            ![p].ctl = IF Kind(l) = "pipe" THEN "down" ELSE "add"]
    /\ UNCHANGED <<tree, buf, result, faults>>

(* add_pipe and the fork of exec_piped_cmd; no pipe behind the last one. *)
ForkElement(p) ==
    /\ Running(p, "add")
    /\ LET m == proc[p].cur
           new == IF IsLast(m) THEN {} ELSE {m} \X {"r", "w"}
       IN Forked(p, m, proc[p].held \cup new, "close")
    /\ UNCHANGED <<tree, buf, result, faults>>

ForkElementFails(p) ==
    /\ Running(p, "add")
    /\ Fault
    /\ Exit(p, 1)
    /\ UNCHANGED <<tree, buf, result>>

(* The closes in the parent after the fork. *)
NoLongerUsed(m) == {<<Before(m), "r">>, <<m, "w">>}

OnlyReadEnd(m) == {<<Before(m), "r">>}

CloseEndsOf(p, unused) ==
    /\ Running(p, "close")
    /\ LET m == proc[p].cur
       IN proc' = [proc EXCEPT
            ![p].held = @ \ unused,
            ![p].ctl = IF IsLast(m) THEN "first" ELSE "add",
            ![p].cur = IF IsLast(m) THEN 0 ELSE After(m)]
    /\ UNCHANGED <<tree, buf, result, faults>>

KeepWriteEnd(p) == CloseEndsOf(p, OnlyReadEnd(proc[p].cur))

CloseEnds(p) == CloseEndsOf(p, NoLongerUsed(proc[p].cur))

-----------------------------------------------------------------------------
(* The child after fork, up to execve or to the body of its subshell.      *)

ConnectedInp(q) == IF IsElement(q) /\ ~IsFirst(q) THEN Before(q)
                                                  ELSE proc[q].inp

OutNotConnected(q) == proc[q].out

ConnectedOut(q) == IF IsElement(q) /\ ~IsLast(q) THEN q ELSE proc[q].out

ReadEndKept(q) == IF IsElement(q)
                  THEN proc[q].held \ {<<q, "w">>, <<Before(q), "r">>}
                  ELSE proc[q].held

ConnectedHeld(q) == IF IsElement(q)
                    THEN proc[q].held \ ({q} \X {"r", "w"}
                                         \cup {<<Before(q), "r">>})
                    ELSE proc[q].held

(* redirect in a subshell: only exec_piped_cmd closes the descriptors that *)
(* redirect has made to be able to restore the old ones.                   *)
Backup(q, end) == IF end[1] # 0 /\ (~IsElement(q) \/ IsLast(q))
                  THEN {end} ELSE {}

StartTool(q) ==
    /\ Running(q, "start")
    /\ Kind(q) = "cmd"
    /\ proc' = [proc EXCEPT ![q] =
            [@ EXCEPT !.state = "tool", !.inp = ConnectedInp(q),
                      !.out = ConnectedOut(q), !.held = ConnectedHeld(q)]]
    /\ UNCHANGED <<tree, buf, result, faults>>

StartSubshell(q) ==
    /\ Running(q, "start")
    /\ Kind(q) = "sub"
    /\ LET inp == ConnectedInp(q)
           out == ConnectedOut(q)
           redir == tree.prog[q]
       IN \/ proc' = [proc EXCEPT ![q] =
                [@ EXCEPT !.ctl = "eval", !.at = Left(q),
                    !.inp = IF redir = "in" THEN 0 ELSE inp,
                    !.out = IF redir = "out" THEN 0 ELSE out,
                    !.held = ConnectedHeld(q) \cup
                        (CASE redir = "in" -> Backup(q, <<inp, "r">>)
                           [] redir = "out" -> Backup(q, <<out, "w">>)
                           [] OTHER -> {})]]
          \/ redir # "none" /\ Exit(q, 1)
    /\ UNCHANGED <<tree, buf, result, faults>>

-----------------------------------------------------------------------------
(* Waiting.  exec_pipe returns 0 and not the last child, so that the first *)
(* waitpid takes whichever child ends first.                               *)

AfterWait(n) == IF Kind(n) = "sub" THEN "report" ELSE "value"

WaitOne(p) ==
    /\ Running(p, "one")
    /\ proc[p].at \in Zombies(p)
    /\ proc' = [proc EXCEPT ![p].ctl = AfterWait(proc[p].at),
                            ![p].val = proc[proc[p].at].val,
                            ![proc[p].at].state = "gone"]
    /\ UNCHANGED <<tree, buf, result, faults>>

(* exec_sub prints the status on standard output, a pipe perhaps. *)
ReportStatus(p) ==
    /\ Running(p, "report")
    /\ \/ Value(p, proc[p].val) /\ Put(p)
       \/ Broken(p) /\ Exit(p, 1) /\ UNCHANGED buf
    /\ UNCHANGED <<tree, result, faults>>

WaitFirstOnly(p) ==
    /\ Running(p, "first")
    /\ \E q \in Zombies(p) :
        proc' = [proc EXCEPT ![p].ctl = "value", ![p].val = proc[q].val,
                             ![q].state = "gone"]
    /\ UNCHANGED <<tree, buf, result, faults>>

WaitFirst(p) ==
    /\ Running(p, "first")
    /\ \E q \in Zombies(p) :
        proc' = [proc EXCEPT ![p].ctl = "rest", ![p].val = proc[q].val,
                             ![q].state = "gone"]
    /\ UNCHANGED <<tree, buf, result, faults>>

DoNotWaitForRest(p) ==
    /\ Running(p, "rest")
    /\ proc' = [proc EXCEPT ![p].ctl = "value"]
    /\ UNCHANGED <<tree, buf, result, faults>>

WaitRest(p) ==
    /\ Running(p, "rest")
    /\ \/ \E q \in Zombies(p) : proc' = [proc EXCEPT ![q].state = "gone"]
       \/ Children(p) = {} /\ proc' = [proc EXCEPT ![p].ctl = "value"]
    /\ UNCHANGED <<tree, buf, result, faults>>

(* A signal interrupts the wait: the status is the -1 of a command that is *)
(* no builtin (exec_cmd) or an uninitialized variable (exec_sub, __exec).  *)
WaitInterrupted(p) ==
    /\ Fault
    /\ \/ Running(p, "one") /\ Kind(proc[p].at) = "cmd" /\ Value(p, 1)
       \/ Running(p, "one") /\ Kind(proc[p].at) = "sub" /\ \E v \in Status :
            \/ Value(p, v)
            \/ proc' = [proc EXCEPT ![p].ctl = "report", ![p].val = v]
       \/ Running(p, "first") /\ \E v \in Status :
            proc' = [proc EXCEPT ![p].ctl = "rest", ![p].val = v]
       \/ Running(p, "rest") /\ proc' = [proc EXCEPT ![p].ctl = "value"]
    /\ UNCHANGED <<tree, buf, result>>

-----------------------------------------------------------------------------
(* The commands: external programs, and builtins as elements of a pipe.    *)

IsTool(q, prog) == proc[q].state = "tool" /\ tree.prog[q] = prog

Writes(q) ==
    /\ proc[q].state = "tool" /\ ~IsTool(q, "filter")
    /\ proc[q].out # 0
    /\ Put(q)
    /\ UNCHANGED <<tree, proc, result, faults>>

Ends(q) ==
    /\ proc[q].state = "tool" /\ ~IsTool(q, "filter") /\ ~IsTool(q, "source")
    /\ \E s \in Status : Exit(q, s)
    /\ UNCHANGED <<tree, buf, result, faults>>

Copies(q) ==
    /\ IsTool(q, "filter")
    /\ LET i == proc[q].inp
           o == proc[q].out
       IN /\ i # 0 /\ buf[i] > 0
          /\ IF o = 0
             THEN buf' = [buf EXCEPT ![i] = @ - 1]
             ELSE /\ Readers(o) # {} /\ buf[o] < PipeSize
                  /\ buf' = [buf EXCEPT ![i] = @ - 1, ![o] = @ + 1]
    /\ UNCHANGED <<tree, proc, result, faults>>

ReadsEof(q) ==
    /\ IsTool(q, "filter")
    /\ LET i == proc[q].inp
       IN i # 0 => buf[i] = 0 /\ Writers(i) = {}
    /\ Exit(q, 0)
    /\ UNCHANGED <<tree, buf, result, faults>>

KilledBySigPipe(q) ==
    /\ proc[q].state = "tool"
    /\ Broken(q)
    /\ IsTool(q, "filter") => proc[q].inp # 0 /\ buf[proc[q].inp] > 0
    /\ Exit(q, 1)
    /\ UNCHANGED <<tree, buf, result, faults>>

-----------------------------------------------------------------------------
ShellStep(p) ==
    \/ EvalAndOr(p) \/ EvalBuiltin(p) \/ EvalExit(p) \/ EvalFork(p)
    \/ Return(p) \/ EvalPipe(p) \/ GoDown(p) \/ ForkElement(p)
    \/ CloseEnds(p) \/ WaitOne(p) \/ ReportStatus(p) \/ WaitFirst(p)
    \/ WaitRest(p)

StartStep(q) == StartTool(q) \/ StartSubshell(q)

FaultStep(p) == EvalForkFails(p) \/ ForkElementFails(p) \/ WaitInterrupted(p)

ToolStep(q) == Ends(q) \/ Copies(q) \/ ReadsEof(q) \/ KilledBySigPipe(q)

Finished == (\A p \in Procs : ~Alive(p)) /\ UNCHANGED vars

Next ==
    \/ \E p \in Procs : ShellStep(p) \/ FaultStep(p)
    \/ \E q \in Nodes : StartStep(q) \/ ToolStep(q) \/ Writes(q)
    \/ Finished

Spec == Init /\ [][Next]_vars

(* Processes are scheduled; a command that is neither a filter nor a       *)
(* source ends by itself at some time.                                     *)
Fairness ==
    /\ \A p \in Procs : WF_vars(ShellStep(p))
    /\ \A q \in Nodes : /\ WF_vars(StartStep(q))
                        /\ WF_vars(ToolStep(q))
                        /\ WF_vars(Writes(q))

FairSpec == Spec /\ Fairness

-----------------------------------------------------------------------------
Over(p) == proc[p].state \in {"unborn", "zombie", "gone"}

(* A command runs with no end of a pipe but its input and output, and the  *)
(* shell waits with none, unless a subshell around it keeps the descriptor *)
(* that it has redirected (exec_sub, exec_last_piped_cmd).                 *)
BackupsAround(p) ==
    {e \in End : \E s \in Nodes :
        /\ p \in Below(s) /\ Kind(s) = "sub"
        /\ e[2] = IF tree.prog[s] = "in" THEN "r" ELSE "w"
        /\ tree.prog[s] # "none"
        /\ ~IsElement(s) \/ IsLast(s)}

NoStrayEnds ==
    \A p \in Procs :
        \/ proc[p].state = "tool"
        \/ proc[p].state = "shell" /\ proc[p].ctl \in {"eval", "one", "first",
                                             "rest", "report", "value"}
        => proc[p].held \subseteq BackupsAround(p)

(* The end of file that a filter sees is the end of the command before it: *)
(* nothing that could still write there is alive, unless a wait was        *)
(* interrupted or a fork failed.  A subshell that writes to a file leaves  *)
(* its pipe at once.                                                       *)
WritesToFile(n) == Kind(n) = "sub" /\ tree.prog[n] = "out"

NoEarlyEof ==
    [][\A q \in Nodes :
        /\ IsTool(q, "filter") /\ proc[q].inp # 0
        /\ proc'[q].state = "zombie" /\ proc'[q].val = 0
        /\ faults = 0 /\ ~WritesToFile(proc[q].inp)
        => /\ proc[proc[q].inp].state # "unborn"
           /\ \A r \in Below(proc[q].inp) : Over(r)]_vars

(* The right side of && and || starts when no process of the left side is  *)
(* left.                                                                   *)
RightAfterLeft ==
    \A u \in Nodes :
        /\ Kind(u) \in {"and", "or"}
        /\ faults = 0
        /\ \E r \in Below(Right(u)) : proc[r].state # "unborn"
        => \A r \in Below(Left(u)) : Over(r)

(* What __exec returns: the status of the right process, that of the side  *)
(* that decided, or, for a pipeline, the status of one of its elements,    *)
(* all of which have been waited for.                                      *)
ElementsOf(n) == {e \in Below(n) : IsElement(e) /\ Kind(e) # "pipe"
    /\ \A s \in Below(n) : Kind(s) = "sub" /\ s # e => e \notin Below(s)}

ResultIsRight ==
    faults = 0 => \A n \in Nodes : result[n] # NoResult =>
        /\ Forks(n) => proc[n].state = "gone" /\ result[n] = proc[n].val
        /\ Kind(n) = "pipe" =>
            /\ \A e \in ElementsOf(n) : proc[e].state = "gone"
            /\ \E e \in ElementsOf(n) : result[n] = proc[e].val
        /\ Kind(n) = "and" =>
            result[n] = IF result[Left(n)] = 0 THEN result[Right(n)]
                                               ELSE result[Left(n)]
        /\ Kind(n) = "or" =>
            result[n] = IF result[Left(n)] = 0 THEN result[Left(n)]
                                               ELSE result[Right(n)]

(* A process that evaluates a node, and one that has ended, has no child   *)
(* left, alive or to be waited for: the waitpid(0) of a pipeline can only  *)
(* get a child of that pipeline.                                           *)
NoChildLeftBehind ==
    faults = 0 => \A p \in Procs :
        \/ proc[p].state \in {"tool", "zombie", "gone"}
        \/ proc[p].state = "shell" /\ proc[p].ctl \in {"eval", "value"}
        => Children(p) = {}

(* Every execution ends, also after faults, when each endless command has  *)
(* one behind it that ends by itself.                                      *)
EverythingEnds == <>[](\A p \in Procs : ~Alive(p))
=============================================================================
