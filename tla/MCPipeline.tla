----------------------------- MODULE MCPipeline -----------------------------
EXTENDS Pipeline, Sequences

(* A tree is given as the sequence of its nodes <<kind, prog, left, right>>. *)
Node(t, n) == IF n \in DOMAIN t THEN t[n] ELSE <<"none", "none", 0, 0>>

Tree(t) == [kind |-> [n \in Nodes |-> Node(t, n)[1]],
            prog |-> [n \in Nodes |-> Node(t, n)[2]],
            left |-> [n \in Nodes |-> Node(t, n)[3]],
            right |-> [n \in Nodes |-> Node(t, n)[4]]]

Op(kind, l, r) == <<kind, "none", l, r>>
Cmd(prog) == <<"cmd", prog, 0, 0>>
Sub(redir, l) == <<"sub", redir, l, 0>>

(* source | filter | quick *)
ThreeStages == <<Op("pipe", 2, 3), Op("pipe", 4, 5), Cmd("quick"),
                 Cmd("source"), Cmd("filter")>>

(* ((quick) && builtin) | filter || quick *)
ListInPipe == <<Op("or", 2, 3), Op("pipe", 4, 5), Cmd("quick"),
                Sub("none", 6), Cmd("filter"), Op("and", 7, 8),
                Sub("none", 9), Cmd("builtin"), Cmd("quick")>>

(* source | (filter | quick) < file *)
PipeInPipe == <<Op("pipe", 2, 3), Cmd("source"), Sub("in", 4),
                Op("pipe", 5, 6), Cmd("filter"), Cmd("quick")>>

(* (quick | (quick) > file && exit) | filter *)
KeptOutput == <<Op("pipe", 2, 3), Sub("none", 4), Cmd("filter"),
                Op("and", 5, 6), Op("pipe", 7, 8), Cmd("exit"), Cmd("quick"),
                Sub("out", 9), Cmd("quick")>>

(* quick | quick && quick | filter *)
TwoPipes == <<Op("and", 2, 3), Op("pipe", 4, 5), Op("pipe", 6, 7),
              Cmd("quick"), Cmd("quick"), Cmd("quick"), Cmd("filter")>>

(* ((quick | quick) > file || exit) && (source | quick) *)
Subshells == <<Op("and", 2, 3), Sub("none", 4), Sub("none", 5),
               Op("or", 6, 7), Op("pipe", 8, 9), Sub("out", 10), Cmd("exit"),
               Cmd("source"), Cmd("quick"), Op("pipe", 11, 12), Cmd("quick"),
               Cmd("quick")>>

(* (quick | quick) > file | filter *)
LeavesPipe == <<Op("pipe", 2, 3), Sub("out", 4), Cmd("filter"),
                Op("pipe", 5, 6), Cmd("quick"), Cmd("quick")>>

MCTrees == {Tree(t) : t \in {ThreeStages, ListInPipe, PipeInPipe, KeptOutput,
                             TwoPipes, Subshells, LeavesPipe}}
=============================================================================
