----------------------------- MODULE ScanProofs -----------------------------
(***************************************************************************)
(* The pool, for every number of domains, commands and requested           *)
(* processes: every command is started before its output is collected, and *)
(* the pool never holds a command back.  Then the pool with the output     *)
(* files, for all that its tools may write: what is collected for a domain *)
(* is what its own tools wrote, in order, with nothing missing but what is *)
(* left out on purpose, and exactly that when they had ended.              *)
(***************************************************************************)
EXTENDS Scan, SequenceTheorems, TLAPS

----------------------------------------------------------------------------
(* The pool. *)

(***************************************************************************)
(* A child is a round and the number of one of its commands.               *)
(***************************************************************************)
LEMMA ChildrenFact == \A r \in 1..Rounds, k \in Nat :
                          <<r, k>> \in Children <=> k \in 1..NumCmds[r]
BY NumCmdsAssumption DEF Children

(***************************************************************************)
(* A child that changes its state keeps the states of the others.          *)
(***************************************************************************)
LEMMA ChildUpdate ==
    ASSUME NEW f \in [Children -> ChildStates], NEW c, NEW e \in ChildStates
    PROVE  [f EXCEPT ![c] = e] \in [Children -> ChildStates]
OBVIOUS

(***************************************************************************)
(* Before the first round no child has been forked, which is well typed.   *)
(***************************************************************************)
LEMMA InitTypeOK == PoolInit => PoolTypeOK
<1> SUFFICES ASSUME PoolInit PROVE PoolTypeOK
  OBVIOUS
<1>1. child \in [Children -> ChildStates]
  BY DEF PoolInit, ChildStates
<1>2. interrupted \in BOOLEAN /\ returned \in Children \cup {NoChild}
  BY DEF PoolInit
<1>3. /\ ppc \in {"start", "fork", "wait", "collect", "done", "exit"}
      /\ round \in 1..Rounds /\ processes \in Int
      /\ i \in Nat /\ next \in Nat \ {0}
  BY RoundsAssumption, RequestedAssumption DEF PoolInit
<1>4. ppc \notin {"fork", "wait", "collect"}
  BY DEF PoolInit
<1> QED BY <1>1, <1>2, <1>3, <1>4 DEF PoolTypeOK

(***************************************************************************)
(* Type correctness, whatever number of processes the user asks for.       *)
(***************************************************************************)
THEOREM PoolTypeCorrect == PoolSpec => []PoolTypeOK
<1>1. PoolTypeOK /\ [PoolNext]_poolVars => PoolTypeOK'
  <2> SUFFICES ASSUME PoolTypeOK, [PoolNext]_poolVars
               PROVE  PoolTypeOK'
    OBVIOUS
  <2>0. /\ N \in Nat /\ round \in 1..Rounds /\ i \in Nat /\ next \in Nat \ {0}
        /\ processes \in Int /\ child \in [Children -> ChildStates]
        /\ interrupted \in BOOLEAN /\ returned \in Children \cup {NoChild}
    BY NumCmdsAssumption DEF N, PoolTypeOK
  <2>00. {"live", "reaped", "reaped bad"} \cup Ends \subseteq ChildStates
    BY DEF ChildStates
  <2>000. /\ ppc \in {"fork", "wait", "collect"} => next <= N + 1
          /\ round' = round => N' = N
    BY DEF PoolTypeOK, N
  <2>1. CASE StartRound
    <3>1. interrupted' \in BOOLEAN /\ returned' \in Children \cup {NoChild}
      BY <2>1 DEF StartRound
    <3>2. processes' \in Int /\ i' \in Nat /\ next' \in Nat \ {0}
      BY <2>0, <2>1 DEF StartRound
    <3>3. N' = N /\ next' <= N' + 1
      BY <2>0, <2>000, <2>1 DEF StartRound
    <3> QED BY <2>1, <3>1, <3>2, <3>3 DEF StartRound, PoolTypeOK
  <2>2. CASE NoCommand
    BY <2>2, <2>000 DEF NoCommand, PoolTypeOK
  <2>3. CASE Fork
    <3>1. child' \in [Children -> ChildStates]
      BY <2>0, <2>00, <2>3, ChildUpdate DEF Fork
    <3>2. i' \in Nat /\ next' \in Nat \ {0} /\ ppc' \in {"wait", "fork"}
      BY <2>0, <2>3 DEF Fork
    <3>3. next' <= N' + 1
      BY <2>0, <2>000, <2>3 DEF Fork
    <3> QED BY <2>3, <3>1, <3>2, <3>3 DEF Fork, PoolTypeOK
  <2>4. CASE ForkFails
    BY <2>4, <2>000 DEF ForkFails, PoolTypeOK
  <2>5. CASE Wait
    <3>1. PICK c \in Children :
            \/ /\ child' = [child EXCEPT ![c] = "reaped bad"]
               /\ i' = 0 /\ ppc' = "fork"
            \/ /\ child' = [child EXCEPT ![c] = "reaped"]
               /\ i' = i /\ ppc' = "exit"
      BY <2>5 DEF Wait
    <3>2. child' \in [Children -> ChildStates]
      BY <2>0, <2>00, <3>1, ChildUpdate
    <3>3. (i' = 0 \/ i' = i) /\ (ppc' = "fork" \/ ppc' = "exit")
      BY <3>1, Zenon
    <3>4. UNCHANGED <<round, processes, next, interrupted>>
          /\ returned' \in Children \cup {NoChild}
      BY <2>5 DEF Wait
    <3>5. ppc = "wait"
      BY <2>5 DEF Wait
    <3>6. next' <= N' + 1
      BY <2>000, <3>4, <3>5
    <3> QED BY <2>0, <3>2, <3>3, <3>4, <3>6 DEF PoolTypeOK
  <2>6. CASE WaitInterrupted
    <3>1. interrupted' \in BOOLEAN
      BY <2>6 DEF WaitInterrupted
    <3>2. next' <= N' + 1
      BY <2>000, <2>6 DEF WaitInterrupted
    <3> QED BY <2>6, <3>1, <3>2 DEF WaitInterrupted, PoolTypeOK
  <2>7. CASE AllForked
    BY <2>7, <2>000 DEF AllForked, PoolTypeOK
  <2>8. CASE CollectDone
    <3>1. round' \in 1..Rounds /\ ppc' \in {"start", "done"}
      BY <2>0, <2>8, RoundsAssumption DEF CollectDone
    <3> QED BY <2>8, <3>1 DEF CollectDone, PoolTypeOK
  <2>9. CASE CollectFails
    BY <2>9, <2>000 DEF CollectFails, PoolTypeOK
  <2>10. ASSUME NEW c \in Children, ChildEnds(c)
         PROVE  PoolTypeOK'
    <3>1. child' \in [Children -> ChildStates]
      BY <2>0, <2>00, <2>10, ChildUpdate DEF ChildEnds
    <3> QED BY <2>10, <2>000, <3>1 DEF ChildEnds, PoolTypeOK
  <2>11. CASE UNCHANGED poolVars
    BY <2>11, <2>000 DEF poolVars, PoolTypeOK
  <2> QED BY <2>1, <2>2, <2>3, <2>4, <2>5, <2>6, <2>7, <2>8, <2>9, <2>10, <2>11
          DEF PoolNext, Parent, Forking
<1> QED BY InitTypeOK, <1>1, PTL DEF PoolSpec

----------------------------------------------------------------------------
(***************************************************************************)
(* The inductive invariant: while the loop of fork_processes runs, the     *)
(* commands before `next` have been started, and the pool has room for     *)
(* those that have not, because its size was raised to the size of the     *)
(* round and a wait only empties it after the last command.                *)
(***************************************************************************)
StartedSoFar ==
    ppc \in {"fork", "wait"} =>
        \A k \in 1..N : k < next => child[<<round, k>>] # "none"

RoomLeft ==
    ppc \in {"fork", "wait"} =>
        /\ 0 < N /\ N <= processes
        /\ next <= N + 1
        /\ \/ i = next - 1
           \/ i = 0 /\ next = N + 1
        /\ ppc = "fork" => i < processes

PoolInv == PoolTypeOK /\ StartedSoFar /\ RoomLeft /\ AllStarted /\ NeverThrottles

(***************************************************************************)
(* The invariant holds in every behaviour of the pool.                     *)
(***************************************************************************)
LEMMA PoolInvariant == PoolSpec => []PoolInv
<1> USE RoundsAssumption, NumCmdsAssumption, RequestedAssumption
<1>1. PoolInit => PoolInv
  <2> SUFFICES ASSUME PoolInit PROVE PoolInv
    OBVIOUS
  <2>1. PoolTypeOK
    BY InitTypeOK
  <2> QED BY <2>1 DEF PoolInit, PoolInv, StartedSoFar, RoomLeft, AllStarted,
                      NeverThrottles
<1>2. PoolInv /\ PoolTypeOK' /\ [PoolNext]_poolVars => PoolInv'
  <2> SUFFICES ASSUME PoolInv, PoolTypeOK', [PoolNext]_poolVars
               PROVE  PoolInv'
    OBVIOUS
  <2> USE DEF PoolInv, StartedSoFar, RoomLeft, AllStarted, NeverThrottles
  <2>0. /\ N \in Nat /\ round \in 1..Rounds /\ i \in Nat /\ next \in Nat \ {0}
        /\ processes \in Int /\ child \in [Children -> ChildStates]
    BY DEF N, PoolTypeOK
  <2>1. CASE StartRound
    BY <2>0, <2>1 DEF StartRound, N
  <2>2. CASE NoCommand
    BY <2>2 DEF NoCommand
  <2>3. CASE Fork
    <3>1. /\ ppc = "fork" /\ next <= N
          /\ child' = [child EXCEPT ![<<round, next>>] = "live"]
          /\ next' = next + 1
          /\ i' = i + 1
          /\ ppc' = IF i' = processes THEN "wait" ELSE "fork"
          /\ UNCHANGED <<round, processes>>
      BY <2>3 DEF Fork
    <3>2. N' = N /\ i = next - 1
      BY <2>0, <3>1 DEF N
    <3>3. RoomLeft' /\ NeverThrottles' /\ AllStarted'
      BY <2>0, <3>1, <3>2
    <3>4. ASSUME NEW k \in 1..N, k < next'
          PROVE  child'[<<round, k>>] # "none"
      <4>1. <<round, k>> \in Children
        BY <2>0, ChildrenFact DEF N
      <4>2. CASE k = next
        BY <2>0, <3>1, <4>1, <4>2
      <4>3. CASE k < next
        BY <2>0, <3>1, <4>1, <4>3
      <4> QED BY <2>0, <3>1, <3>4, <4>2, <4>3
    <3> QED BY <3>1, <3>2, <3>3, <3>4
  <2>4. CASE ForkFails
    BY <2>4 DEF ForkFails
  <2>5. CASE Wait
    <3>1. PICK c \in Children :
            \/ /\ child[c] = "bad"
               /\ child' = [child EXCEPT ![c] = "reaped bad"]
               /\ i' = 0 /\ ppc' = "fork"
            \/ /\ child[c] \in {"ok", "killed"}
               /\ child' = [child EXCEPT ![c] = "reaped"]
               /\ i' = i /\ ppc' = "exit"
      BY <2>5 DEF Wait
    <3>2. \A d \in Children : child[d] # "none" => child'[d] # "none"
      BY <2>0, <3>1
    <3>3. ppc = "wait" /\ UNCHANGED <<round, next, processes>> /\ N' = N
      BY <2>5 DEF Wait, N
    <3>4. \A k \in 1..N : <<round, k>> \in Children
      BY <2>0, ChildrenFact DEF N
    <3>5. next = N + 1 /\ 0 < N /\ N = processes
      BY <2>0, <3>3
    <3>6. (ppc' = "fork" /\ i' = 0) \/ ppc' = "exit"
      BY <3>1, Zenon
    <3>7. StartedSoFar'
      BY <2>0, <3>2, <3>3, <3>4, <3>6
    <3>8. RoomLeft' /\ AllStarted' /\ NeverThrottles'
      BY <2>0, <3>3, <3>5, <3>6
    <3> QED BY <3>7, <3>8
  <2>6. CASE WaitInterrupted
    BY <2>0, <2>6 DEF WaitInterrupted, N
  <2>7. CASE AllForked
    BY <2>0, <2>7 DEF AllForked, N
  <2>8. CASE CollectDone
    BY <2>8 DEF CollectDone
  <2>9. CASE CollectFails
    BY <2>9 DEF CollectFails
  <2>10. ASSUME NEW c \in Children, ChildEnds(c)
         PROVE  PoolInv'
    <3>1. UNCHANGED <<ppc, round, processes, i, next>> /\ N' = N
      BY <2>10 DEF ChildEnds, N
    <3>2. \A d \in Children : child[d] # "none" => child'[d] # "none"
      BY <2>0, <2>10, EndsAssumption DEF ChildEnds
    <3>3. \A k \in 1..N : <<round, k>> \in Children
      BY <2>0, ChildrenFact DEF N
    <3> QED BY <3>1, <3>2, <3>3
  <2>11. CASE UNCHANGED poolVars
    BY <2>11 DEF poolVars, N
  <2> QED BY <2>1, <2>2, <2>3, <2>4, <2>5, <2>6, <2>7, <2>8, <2>9, <2>10, <2>11
          DEF PoolNext, Parent, Forking
<1> QED BY <1>1, <1>2, PoolTypeCorrect, PTL DEF PoolSpec

(***************************************************************************)
(* Every command of a round is started before its output is collected, and *)
(* the parent only waits after the last command of a round that fills the  *)
(* pool exactly.                                                           *)
(***************************************************************************)
THEOREM PoolCorrect == PoolSpec => [](AllStarted /\ NeverThrottles)
<1>1. PoolInv => AllStarted /\ NeverThrottles
  BY DEF PoolInv
<1> QED BY <1>1, PoolInvariant, PTL

----------------------------------------------------------------------------
(***************************************************************************)
(* A child is only forked once: those of later rounds, and of this round   *)
(* from `next` on, have not been.  So a child that was reaped stays so.    *)
(***************************************************************************)
Ahead(c) ==
    \/ c[1] > round
    \/ /\ c[1] = round
       /\ ppc = "start" \/ (ppc \in {"fork", "wait"} /\ c[2] >= next)

NotYetForked == \A c \in Children : Ahead(c) => child[c] = "none"

(***************************************************************************)
(* With all commands started, the count is only zero again after a wait    *)
(* that has returned a failed child or was interrupted.                    *)
(***************************************************************************)
FailureMet ==
    interrupted \/ (returned \in Children /\ child[returned] = "reaped bad")

AfterTheWait == (ppc = "fork" /\ next = N + 1 /\ i = 0) => FailureMet

(***************************************************************************)
(* Children are forked once, in order.                                     *)
(***************************************************************************)
LEMMA ForkedOnce == PoolSpec => []NotYetForked
<1>1. PoolInit => NotYetForked
  BY DEF PoolInit, NotYetForked
<1>2. PoolTypeOK /\ NotYetForked /\ [PoolNext]_poolVars => NotYetForked'
  <2> SUFFICES ASSUME PoolTypeOK, NotYetForked, [PoolNext]_poolVars,
                      NEW c \in Children, Ahead(c)'
               PROVE  child'[c] = "none"
    BY DEF NotYetForked
  <2>0. /\ round \in 1..Rounds /\ i \in Nat /\ next \in Nat \ {0}
        /\ child \in [Children -> ChildStates]
        /\ c[1] \in 1..Rounds /\ c[2] \in Nat
        /\ c = <<c[1], c[2]>>
    BY NumCmdsAssumption, RoundsAssumption DEF PoolTypeOK, Children
  <2>1. Ahead(c) => child[c] = "none"
    BY DEF NotYetForked
  <2> USE DEF Ahead
  <2>2. CASE StartRound
    BY <2>0, <2>1, <2>2 DEF StartRound
  <2>3. CASE NoCommand \/ ForkFails \/ CollectFails \/ WaitInterrupted \/ AllForked
    BY <2>0, <2>1, <2>3 DEF NoCommand, ForkFails, CollectFails, WaitInterrupted, AllForked
  <2>4. CASE Fork
    <3>1. /\ ppc = "fork" /\ next' = next + 1 /\ round' = round
          /\ ppc' # "start"
          /\ child' = [child EXCEPT ![<<round, next>>] = "live"]
      BY <2>4 DEF Fork
    <3>2. c # <<round, next>>
      BY <2>0, <3>1
    <3>3. Ahead(c)
      BY <2>0, <3>1
    <3> QED BY <2>0, <2>1, <3>1, <3>2, <3>3
  <2>5. CASE Wait
    <3>1. PICK d \in Children :
            /\ child[d] \in {"bad", "ok", "killed"}
            /\ \/ child' = [child EXCEPT ![d] = "reaped bad"]
               \/ child' = [child EXCEPT ![d] = "reaped"]
      BY <2>5 DEF Wait
    <3>2. Ahead(c)
      BY <2>0, <2>5 DEF Wait
    <3> QED BY <2>0, <2>1, <3>1, <3>2
  <2>6. CASE CollectDone
    BY <2>0, <2>1, <2>6 DEF CollectDone
  <2>7. ASSUME NEW d \in Children, ChildEnds(d)
        PROVE  child'[c] = "none"
    BY <2>0, <2>1, <2>7 DEF ChildEnds
  <2>8. CASE UNCHANGED poolVars
    BY <2>1, <2>8 DEF poolVars
  <2> QED BY <2>2, <2>3, <2>4, <2>5, <2>6, <2>7, <2>8 DEF PoolNext, Parent, Forking
<1> QED BY <1>1, <1>2, PoolTypeCorrect, PTL DEF PoolSpec

(***************************************************************************)
(* A pool that a round has filled is only collected from when the child    *)
(* that the wait of this round returned had failed, or the wait was        *)
(* interrupted.                                                            *)
(***************************************************************************)
THEOREM FullPoolCorrect == PoolSpec => []FullPoolNeedsFailure
<1> DEFINE FullInv == AfterTheWait /\ FullPoolNeedsFailure
<1>1. PoolInit => FullInv
  BY DEF PoolInit, AfterTheWait, FullPoolNeedsFailure
<1>2. PoolInv /\ NotYetForked /\ FullInv /\ [PoolNext]_poolVars => FullInv'
  <2> SUFFICES ASSUME PoolInv, NotYetForked, FullInv, [PoolNext]_poolVars
               PROVE  FullInv'
    OBVIOUS
  <2>0. /\ N \in Nat /\ round \in 1..Rounds /\ i \in Nat /\ next \in Nat \ {0}
        /\ processes \in Int /\ child \in [Children -> ChildStates]
    BY NumCmdsAssumption DEF N, PoolInv, PoolTypeOK
  <2>1. UNCHANGED <<child, interrupted, returned>> => (FailureMet' <=> FailureMet)
    BY DEF FailureMet
  <2> USE DEF AfterTheWait, FullPoolNeedsFailure
  <2>2. CASE StartRound
    BY <2>0, <2>2 DEF StartRound, N
  <2>3. CASE NoCommand \/ ForkFails \/ CollectFails \/ CollectDone
    BY <2>3 DEF NoCommand, ForkFails, CollectFails, CollectDone
  <2>4. CASE Fork
    BY <2>0, <2>4 DEF Fork, N
  <2>5. CASE Wait
    <3>1. PICK c \in Children :
            \/ /\ child' = [child EXCEPT ![c] = "reaped bad"]
               /\ returned' = c
               /\ ppc' = "fork"
            \/ ppc' = "exit"
      BY <2>5 DEF Wait
    <3>2. CASE child' = [child EXCEPT ![c] = "reaped bad"] /\ returned' = c /\ ppc' = "fork"
      <4>1. FailureMet'
        BY <2>0, <3>2 DEF FailureMet
      <4> QED BY <3>2, <4>1
    <3> QED BY <3>1, <3>2
  <2>6. CASE WaitInterrupted
    BY <2>6 DEF WaitInterrupted, FailureMet
  <2>7. CASE AllForked
    <3>1. /\ ppc = "fork" /\ next > N /\ ppc' = "collect"
          /\ UNCHANGED <<child, interrupted, returned, round, processes>>
      BY <2>7 DEF AllForked
    <3>2. N' = N
      BY <3>1 DEF N
    <3>3. N = processes => next = N + 1 /\ i = 0
      BY <2>0, <3>1 DEF PoolInv, RoomLeft
    <3>4. N = processes => FailureMet
      BY <3>1, <3>3
    <3> QED BY <2>1, <3>1, <3>2, <3>4 DEF FailureMet
  <2>8. ASSUME NEW c \in Children, ChildEnds(c)
        PROVE  FullInv'
    <3>1. UNCHANGED <<ppc, round, processes, i, next, interrupted, returned>> /\ N' = N
      BY <2>8 DEF ChildEnds, N
    <3>2. \A d \in Children : child[d] = "reaped bad" => child'[d] = "reaped bad"
      BY <2>0, <2>8 DEF ChildEnds
    <3> QED BY <3>1, <3>2 DEF FailureMet
  <2>9. CASE UNCHANGED poolVars
    BY <2>1, <2>9 DEF poolVars, N, FailureMet
  <2> QED BY <2>2, <2>3, <2>4, <2>5, <2>6, <2>7, <2>8, <2>9
          DEF PoolNext, Parent, Forking
<1>3. FullInv => FullPoolNeedsFailure
  OBVIOUS
<1> QED BY <1>1, <1>2, <1>3, PoolInvariant, ForkedOnce, PTL DEF PoolSpec

----------------------------------------------------------------------------
(* The pool with the output files. *)

(***************************************************************************)
(* Every step of a scan is a step of the pool or leaves it alone.          *)
(***************************************************************************)
LEMMA ScanStepIsPoolStep == [ScanNext]_scanVars => [PoolNext]_poolVars
<1> SUFFICES ASSUME [ScanNext]_scanVars
             PROVE  [PoolNext]_poolVars
  OBVIOUS
<1> USE DEF PoolNext, Parent
<1>1. CASE RoundStarts
  BY <1>1 DEF RoundStarts
<1>2. CASE PoolRuns
  BY <1>2 DEF PoolRuns
<1>3. CASE CollectionBegins
  BY <1>3 DEF CollectionBegins
<1>4. CASE OpenOutput \/ ReadPiece \/ EndOfOutput
  BY <1>4 DEF OpenOutput, ReadPiece, EndOfOutput
<1>5. CASE OutputMissing
  BY <1>5 DEF OutputMissing
<1>6. CASE CollectionEnds
  BY <1>6 DEF CollectionEnds
<1>7. ASSUME NEW c \in Children, ToolOpens(c) \/ ToolWrites(c)
      PROVE  UNCHANGED poolVars
  BY <1>7 DEF ToolOpens, ToolWrites
<1>8. ASSUME NEW c \in Children, ToolEnds(c)
      PROVE  PoolNext
  BY <1>8 DEF ToolEnds
<1>9. CASE UNCHANGED scanVars
  BY <1>9 DEF scanVars
<1> QED BY <1>1, <1>2, <1>3, <1>4, <1>5, <1>6, <1>7, <1>8, <1>9 DEF ScanNext

(***************************************************************************)
(* Every behaviour of a scan is one of the pool, by the way its actions are *)
(* written: what is proved of the pool may be used of scans.               *)
(***************************************************************************)
LEMMA ScanImplementsPool == ScanSpec => PoolSpec
<1>1. ScanInit => PoolInit
  BY DEF ScanInit
<1> QED BY <1>1, ScanStepIsPoolStep, PTL DEF ScanSpec, PoolSpec

----------------------------------------------------------------------------
(***************************************************************************)
(* The inductive invariant, for rounds whose unlinks cover the names the   *)
(* next one uses.                                                          *)
(***************************************************************************)

(***************************************************************************)
(* How many names a round has used or will unlink.                         *)
(***************************************************************************)
CountOfRound ==
    /\ ppc = "start" =>
          numCommands = IF round = 1 THEN Counted ELSE NumCmds[round - 1]
    /\ ppc \in {"fork", "wait", "collect"} => numCommands = N

(***************************************************************************)
(* A tool opens no file but its own, not before it is forked, and before   *)
(* its round is over.                                                      *)
(***************************************************************************)
OwnFiles ==
    \A c \in Children :
        /\ tfd[c] \in {NoFile, c}
        /\ child[c] = "none" => tfd[c] = NoFile
        /\ c[1] < round => tfd[c] = c

(***************************************************************************)
(* A name of the round is unbound until its tool has opened its file.      *)
(***************************************************************************)
NamesOfRound ==
    ppc # "start" =>
        \A k \in 1..N : dir[k] = tfd[<<round, k>>]

(***************************************************************************)
(* A file of a tool holds the lines it has written so far, in order.       *)
(***************************************************************************)
WrittenInOrder ==
    \A c \in Children :
        /\ tpos[c] \in Nat
        /\ Len(data[c]) = tpos[c]
        /\ \A n \in 1..tpos[c] : data[c][n] = Place(c, n)
        /\ tfd[c] = NoFile => tpos[c] = 0

(***************************************************************************)
(* The collection reads the file of the slot in hand, and has read one of  *)
(* each slot before.                                                       *)
(***************************************************************************)
ReadsSlot ==
    /\ ppc # "collect" => cfd = NoFile
    /\ ppc \in {"start", "fork", "wait"} => ck = 1 /\ coll = <<>>
    /\ ppc = "collect" =>
          /\ ck \in 1..(N + 1)
          /\ \A k \in 1..(ck - 1) : tfd[<<round, k>>] # NoFile
          /\ cfd # NoFile =>
                /\ ck <= N /\ cfd = <<round, ck>> /\ tfd[cfd] = cfd
                /\ cpos <= tpos[cfd]
    /\ cfd = NoFile => cpos = 0

(***************************************************************************)
(* Of the file in hand nothing but pieces to be left out lies between what *)
(* was collected last and the place of the reader, and the list holds      *)
(* nothing from beyond that place.                                         *)
(***************************************************************************)
LastRead == IF Len(coll) > 0 /\ coll[Len(coll)][2] = ck THEN coll[Len(coll)][3] ELSE 0

EndsWithRead == ppc = "collect" => PassedOver(<<round, ck>>, LastRead + 1, cpos)

ReadBefore ==
    ppc = "collect" =>
        \A n \in 1..Len(coll) :
            coll[n][2] < ck \/ (coll[n][2] = ck /\ coll[n][3] \in 1..cpos)

(***************************************************************************)
(* If the tools had ended, the reader stands at the beginning of a line or *)
(* at the end of a file, and of what it has read, in this file and in those *)
(* of the slots before, the lines to be kept are in the list, and no other. *)
(***************************************************************************)
Collected(k, m) == \E n \in 1..Len(coll) : coll[n] = Place(<<round, k>>, m)

Decided(k, m) ==
    \A b \in 1..m : LineBegins(<<round, k>>, b, m) =>
        (Collected(k, m) <=> ~LeftOut(Place(<<round, k>>, b)))

ReadIsCollected ==
    (ppc = "collect" /\ quiet) =>
        /\ \A c \in Children : child[c] # "live"
        /\ cfd # NoFile =>
              /\ cpos = 0 \/ Output[<<round, ck>>][cpos] = "NL" \/ cpos = tpos[cfd]
              /\ \A m \in 1..cpos : Decided(ck, m)
        /\ \A k \in 1..(ck - 1) : k \in 1..N =>
              \A m \in 1..tpos[<<round, k>>] : Decided(k, m)

FileTypes ==
    /\ DOMAIN dir = Slots /\ DOMAIN data = Inodes
    /\ DOMAIN tfd = Children /\ DOMAIN tpos = Children
    /\ \A c \in Children : data[c] \in Seq(Int \X Int \X Int)
    /\ numCommands \in Nat /\ ck \in Nat \ {0} /\ cpos \in Nat
    /\ coll \in Seq(Int \X Int \X Int)

Parts ==
    /\ CountOfRound /\ OwnFiles /\ NamesOfRound /\ WrittenInOrder
    /\ ReadsSlot /\ EndsWithRead /\ ReadBefore /\ ReadIsCollected
    /\ CollectsInOrder /\ FileTypes
    /\ \A n \in 1..Len(coll) : coll[n][1] = round

ScanInv == Covered => Parts

(***************************************************************************)
(* What is known of the pool at any time.                                  *)
(***************************************************************************)
PoolFacts == PoolTypeOK /\ NotYetForked

(***************************************************************************)
(* The children of the round and their names.                              *)
(***************************************************************************)
LEMMA ChildFacts ==
    ASSUME PoolTypeOK
    PROVE  /\ N \in Nat /\ round \in 1..Rounds /\ Rounds \in Nat
           /\ \A k \in 1..N : <<round, k>> \in Children /\ k \in Slots
           /\ \A c \in Children : /\ c \in Inodes /\ c # NoFile
                                  /\ c[1] \in 1..Rounds /\ c[2] \in 1..NumCmds[c[1]]
                                  /\ c = <<c[1], c[2]>> /\ c[2] \in Slots
                                  /\ c[1] \in Int /\ c[2] \in Int
<1>1. round \in 1..Rounds /\ N \in Nat /\ Rounds \in Nat
  BY RoundsAssumption, NumCmdsAssumption DEF PoolTypeOK, N
<1>2. \A k \in 1..N : <<round, k>> \in Children /\ k \in Slots
  BY <1>1 DEF Children, Slots, N
<1>3. ASSUME NEW c \in Children
      PROVE  /\ c[1] \in 1..Rounds /\ c[2] \in 1..NumCmds[c[1]]
             /\ c = <<c[1], c[2]>>
  BY <1>1 DEF Children
<1>4. ASSUME NEW c \in Children
      PROVE  /\ c \in Inodes /\ c # NoFile /\ c[2] \in Slots
             /\ c[1] \in Int /\ c[2] \in Int
  BY <1>1, <1>3, NumCmdsAssumption DEF Inodes, NoFile, Slots
<1> QED BY <1>1, <1>2, <1>3, <1>4

(***************************************************************************)
(* CollectsInOrder, place by place.                                        *)
(***************************************************************************)
Since(n, s, k) == IF n > 1 /\ s[n - 1][2] = k THEN s[n - 1][3] ELSE 0

FollowsAt(n, s, k, m) ==
    /\ s[n] = Place(<<round, k>>, m)
    /\ n > 1 => s[n - 1][2] <= k
    /\ Since(n, s, k) < m
    /\ PassedOver(<<round, k>>, Since(n, s, k) + 1, m - 1)

Follows(n, s) == \E k \in 1..N : \E m \in 1..tpos[<<round, k>>] : FollowsAt(n, s, k, m)

LEMMA InOrderMeans ==
    CollectsInOrder <=> ((Covered /\ ppc = "collect") => \A n \in 1..Len(coll) : Follows(n, coll))
BY DEF CollectsInOrder, Follows, FollowsAt, Since

(***************************************************************************)
(* A piece of a file that is added to a list follows what the list held.   *)
(***************************************************************************)
LEMMA AddPiece ==
    ASSUME NEW S, NEW q \in Seq(S), NEW s \in Seq(S),
           NEW p \in Nat, NEW e \in (p + 1)..Len(s),
           NEW r, r = q \o SubSeq(s, p + 1, e)
    PROVE  /\ r \in Seq(S)
           /\ Len(r) = Len(q) + (e - p)
           /\ \A n \in 1..Len(q) : r[n] = q[n]
           /\ \A n \in 1..(e - p) : r[Len(q) + n] = s[p + n]
<1> DEFINE t == SubSeq(s, p + 1, e)
<1>1. Len(q) \in Nat /\ Len(s) \in Nat
  BY LenProperties
<1>2. p + 1 \in Int /\ e \in Int /\ p + 1 <= e /\ (e - (p + 1)) + 1 = e - p
      /\ \A n \in (p + 1)..e : n \in 1..Len(s)
  BY <1>1
<1>22. \A n \in (p + 1)..e : s[n] \in S
  BY <1>2, ElementOfSeq
<1>3. /\ t \in Seq(S) /\ Len(t) = e - p
      /\ \A n \in 1..(e - p) : t[n] = s[((p + 1) + n) - 1]
  BY <1>2, <1>22, SubSeqProperties
<1> HIDE DEF t
<1>4. \A n \in 1..(e - p) : t[n] = s[p + n]
  <2>1. \A n \in 1..(e - p) : ((p + 1) + n) - 1 = p + n
    BY <1>1, <1>2
  <2> QED BY <1>3, <2>1
<1>5. /\ q \o t \in Seq(S) /\ Len(q \o t) = Len(q) + (e - p)
      /\ \A n \in 1..(Len(q) + (e - p)) :
            (q \o t)[n] = IF n <= Len(q) THEN q[n] ELSE t[n - Len(q)]
  <2>1. /\ q \o t \in Seq(S) /\ Len(q \o t) = Len(q) + Len(t)
        /\ \A n \in 1..(Len(q) + Len(t)) :
              (q \o t)[n] = IF n <= Len(q) THEN q[n] ELSE t[n - Len(q)]
    BY <1>3, ConcatProperties
  <2> QED BY <1>3, <2>1, Zenon
<1>6. r = q \o t
  BY DEF t
<1>7. \A n \in 1..Len(q) : r[n] = q[n]
  BY <1>1, <1>2, <1>5, <1>6
<1>8. ASSUME NEW n \in 1..(e - p)
      PROVE  r[Len(q) + n] = t[n]
  <2>1. /\ Len(q) + n \in 1..(Len(q) + (e - p)) /\ ~(Len(q) + n <= Len(q))
        /\ (Len(q) + n) - Len(q) = n
    BY <1>1, <1>2
  <2> QED BY <1>5, <1>6, <2>1
<1> QED BY <1>4, <1>5, <1>6, <1>7, <1>8

(***************************************************************************)
(* The parts of a place.                                                   *)
(***************************************************************************)
LEMMA PlaceParts ==
    \A r, k, n : /\ Place(<<r, k>>, n)[1] = r
                 /\ Place(<<r, k>>, n)[2] = k
                 /\ Place(<<r, k>>, n)[3] = n
BY DEF Place

(***************************************************************************)
(* The invariant holds when the program starts.                            *)
(***************************************************************************)
LEMMA ScanInvInit == ScanInit => ScanInv
<1> SUFFICES ASSUME ScanInit, Covered PROVE Parts
  BY DEF ScanInv
<1>0. PoolTypeOK /\ PoolInit
  BY InitTypeOK DEF ScanInit
<1>1. ppc = "start" /\ round = 1 /\ N \in Nat
  BY <1>0, ChildFacts DEF PoolInit
<1>2. Len(<<>>) = 0 /\ <<>> \in Seq(Int \X Int \X Int)
  BY EmptySeq
<1>3. \A c \in Children : c \in Inodes /\ c[1] \in 1..Rounds
  BY <1>0, ChildFacts
<1>4. \A c \in Children : data[c] = <<>> /\ tfd[c] = NoFile /\ tpos[c] = 0 /\ ~(c[1] < 1)
  BY <1>3 DEF ScanInit
<1>5. CountOfRound /\ OwnFiles /\ NamesOfRound /\ WrittenInOrder
  <2>1. CountOfRound /\ OwnFiles /\ NamesOfRound
    BY <1>1, <1>4 DEF CountOfRound, OwnFiles, NamesOfRound, ScanInit
  <2>2. WrittenInOrder
    BY <1>2, <1>4 DEF WrittenInOrder
  <2> QED BY <2>1, <2>2
<1>6. ReadsSlot /\ EndsWithRead /\ ReadBefore /\ ReadIsCollected /\ CollectsInOrder
  BY <1>1 DEF ReadsSlot, EndsWithRead, ReadBefore, ReadIsCollected, CollectsInOrder, ScanInit
<1>7. FileTypes
  BY <1>2, <1>3, <1>4, CountedAssumption DEF FileTypes, ScanInit
<1>8. \A n \in 1..Len(coll) : coll[n][1] = round
  BY <1>2 DEF ScanInit
<1> QED BY <1>5, <1>6, <1>7, <1>8 DEF Parts

(***************************************************************************)
(* The unlinks of a round reach every name that it uses.                   *)
(***************************************************************************)
LEMMA KeptByRoundStarts ==
    ASSUME Covered, PoolFacts, PoolTypeOK', Parts, RoundStarts
    PROVE  Parts'
<1> USE DEF Parts
<1>0. /\ ppc = "start" /\ ppc' = "fork"
      /\ UNCHANGED <<round, child, data, tfd, tpos, ck, cfd, cpos, coll, quiet>>
      /\ dir' = [k \in Slots |-> IF k <= numCommands THEN NoFile ELSE dir[k]]
      /\ numCommands' = N
  BY DEF RoundStarts, StartRound, readVars
<1>1. N' = N
  BY <1>0 DEF N
<1>2. /\ N \in Nat /\ round \in 1..Rounds /\ Rounds \in Nat
      /\ \A k \in 1..N : <<round, k>> \in Children /\ k \in Slots
  BY ChildFacts DEF PoolFacts
<1>3. N <= numCommands
  <2>1. CASE round = 1
    BY <1>0, <2>1 DEF CountOfRound, Covered, N
  <2>2. CASE round # 1
    <3>1. round - 1 \in 1..(Rounds - 1) /\ (round - 1) + 1 = round
      BY <1>2, <2>2
    <3>2. NumCmds[round] <= NumCmds[round - 1]
      BY <3>1 DEF Covered
    <3> QED BY <1>0, <2>2, <3>2 DEF CountOfRound, N
  <2> QED BY <2>1, <2>2
<1>4. \A k \in 1..N : tfd[<<round, k>>] = NoFile
  <2> SUFFICES ASSUME NEW k \in 1..N
               PROVE  tfd[<<round, k>>] = NoFile
    OBVIOUS
  <2>1. Ahead(<<round, k>>)
    BY <1>0 DEF Ahead
  <2> QED BY <1>2, <2>1 DEF OwnFiles, PoolFacts, NotYetForked
<1>5. NamesOfRound'
  <2> SUFFICES ASSUME NEW k \in 1..N
               PROVE  dir'[k] = tfd[<<round, k>>]
    BY <1>0, <1>1 DEF NamesOfRound
  <2>1. k <= numCommands
    BY <1>2, <1>3 DEF FileTypes
  <2> QED BY <1>0, <1>2, <1>4, <2>1
<1>6. CountOfRound' /\ OwnFiles' /\ WrittenInOrder'
  BY <1>0, <1>1 DEF CountOfRound, OwnFiles, WrittenInOrder
<1>7. ReadsSlot' /\ EndsWithRead' /\ ReadBefore' /\ ReadIsCollected' /\ CollectsInOrder'
  BY <1>0 DEF ReadsSlot, EndsWithRead, ReadBefore, ReadIsCollected, CollectsInOrder
<1>8. FileTypes' /\ \A n \in 1..Len(coll') : coll'[n][1] = round'
  BY <1>0, <1>2 DEF FileTypes
<1> QED BY <1>5, <1>6, <1>7, <1>8

(***************************************************************************)
(* The steps of the pool outside of the collection touch no output.        *)
(***************************************************************************)
LEMMA KeptByPoolRuns ==
    ASSUME Covered, PoolFacts, PoolTypeOK', Parts, PoolRuns
    PROVE  Parts'
<1> USE DEF Parts
<1>0. UNCHANGED <<round, dir, data, tfd, tpos, ck, cfd, cpos, coll, quiet, numCommands>>
  BY DEF PoolRuns, Forking, NoCommand, Fork, ForkFails, Wait, WaitInterrupted,
         fileVars, readVars
<1>1. N' = N
  BY <1>0 DEF N
<1>2. \/ ppc \in {"fork", "wait"} /\ ppc' \in {"fork", "wait", "exit"}
      \/ ppc = "start" /\ ppc' = "exit" /\ N = 0
  BY DEF PoolRuns, Forking, NoCommand, Fork, ForkFails, Wait, WaitInterrupted
<1>3. \A c \in Children : child'[c] = "none" => child[c] = "none"
  BY DEF PoolRuns, Forking, NoCommand, Fork, ForkFails, Wait, WaitInterrupted,
         PoolFacts, PoolTypeOK
<1>4. CountOfRound' /\ NamesOfRound' /\ WrittenInOrder'
  BY <1>0, <1>1, <1>2 DEF CountOfRound, NamesOfRound, WrittenInOrder
<1>5. OwnFiles'
  BY <1>0, <1>3 DEF OwnFiles
<1>6. ReadsSlot' /\ EndsWithRead' /\ ReadBefore' /\ ReadIsCollected' /\ CollectsInOrder'
  BY <1>0, <1>2 DEF ReadsSlot, EndsWithRead, ReadBefore, ReadIsCollected, CollectsInOrder
<1>7. FileTypes' /\ \A n \in 1..Len(coll') : coll'[n][1] = round'
  BY <1>0 DEF FileTypes
<1> QED BY <1>4, <1>5, <1>6, <1>7

(***************************************************************************)
(* The collection begins with the first slot and an empty list.            *)
(***************************************************************************)
LEMMA KeptByCollectionBegins ==
    ASSUME Covered, PoolFacts, PoolTypeOK', Parts, CollectionBegins
    PROVE  Parts'
<1> USE DEF Parts
<1>0. /\ ppc = "fork" /\ ppc' = "collect"
      /\ UNCHANGED <<round, child, dir, data, tfd, tpos, ck, cfd, cpos, coll, numCommands>>
      /\ quiet' = \A c \in Children : child[c] # "live"
  BY DEF CollectionBegins, AllForked, fileVars, readVars
<1>1. N' = N /\ N \in Nat
  BY <1>0, ChildFacts DEF N, PoolFacts
<1>2. ck = 1 /\ coll = <<>> /\ cfd = NoFile /\ cpos = 0 /\ Len(<<>>) = 0
  BY <1>0, EmptySeq DEF ReadsSlot
<1>3. CountOfRound' /\ NamesOfRound' /\ WrittenInOrder' /\ OwnFiles'
  BY <1>0, <1>1 DEF CountOfRound, NamesOfRound, WrittenInOrder, OwnFiles
<1>4. ReadsSlot' /\ EndsWithRead' /\ ReadBefore' /\ CollectsInOrder'
  <2>1. ReadsSlot' /\ ReadBefore' /\ CollectsInOrder'
    BY <1>0, <1>1, <1>2 DEF ReadsSlot, ReadBefore, CollectsInOrder
  <2>2. EndsWithRead'
    BY <1>0, <1>2 DEF EndsWithRead, LastRead, PassedOver
  <2> QED BY <2>1, <2>2
<1>5. ReadIsCollected'
  <2>1. cfd' = NoFile /\ ck' = 1 /\ child' = child
    BY <1>0, <1>2
  <2>2. quiet' => \A c \in Children : child[c] # "live"
    BY <1>0
  <2>3. \A k \in 1..(1 - 1) : FALSE
    OBVIOUS
  <2> HIDE DEF Parts
  <2> QED BY <2>1, <2>2, <2>3 DEF ReadIsCollected
<1>6. FileTypes' /\ \A n \in 1..Len(coll') : coll'[n][1] = round'
  BY <1>0 DEF FileTypes
<1> QED BY <1>3, <1>4, <1>5, <1>6

(***************************************************************************)
(* The file that opens is the one the tool of the slot has created.        *)
(***************************************************************************)
LEMMA KeptByOpenOutput ==
    ASSUME Covered, PoolFacts, PoolTypeOK', Parts, OpenOutput
    PROVE  Parts'
<1> USE DEF Parts
<1>0. /\ ppc = "collect" /\ ck <= numCommands /\ cfd = NoFile /\ dir[ck] # NoFile
      /\ cfd' = dir[ck] /\ cpos' = 0
      /\ UNCHANGED <<ppc, round, child, dir, data, tfd, tpos, ck, coll, numCommands, quiet>>
  BY DEF OpenOutput, poolVars, fileVars
<1>1. N' = N /\ N \in Nat /\ \A k \in 1..N : <<round, k>> \in Children
  BY <1>0, ChildFacts DEF N, PoolFacts
<1>2. numCommands = N /\ ck \in 1..N /\ cpos = 0
  BY <1>0, <1>1 DEF CountOfRound, ReadsSlot
<1>3. dir[ck] = tfd[<<round, ck>>] /\ tfd[<<round, ck>>] = <<round, ck>>
  BY <1>0, <1>1, <1>2 DEF NamesOfRound, OwnFiles
<1>4. tpos[<<round, ck>>] \in Nat
  BY <1>1, <1>2 DEF WrittenInOrder
<1>5. CountOfRound' /\ NamesOfRound' /\ WrittenInOrder' /\ OwnFiles'
  BY <1>0, <1>1 DEF CountOfRound, NamesOfRound, WrittenInOrder, OwnFiles
<1>6. ReadsSlot'
  <2>1. cfd' = <<round, ck>> /\ tfd'[<<round, ck>>] = <<round, ck>>
    BY <1>0, <1>3
  <2>2. cpos' = 0 /\ 0 <= tpos'[<<round, ck>>] /\ ck' = ck /\ round' = round
        /\ ppc' = "collect" /\ dir' = dir
    BY <1>0, <1>4
  <2>3. \A k \in 1..(ck - 1) : tfd'[<<round, k>>] # NoFile
    BY <1>0, <1>2 DEF ReadsSlot
  <2>4. N' = N /\ ck \in 1..(N + 1) /\ ck <= N
    BY <1>1, <1>2
  <2> HIDE DEF Parts
  <2> QED BY <2>1, <2>2, <2>3, <2>4 DEF ReadsSlot
<1>7. EndsWithRead' /\ ReadBefore' /\ CollectsInOrder'
  <2>1. EndsWithRead' /\ ReadBefore'
    BY <1>0, <1>2 DEF EndsWithRead, LastRead, ReadBefore
  <2> HIDE DEF Parts
  <2>2. /\ CollectsInOrder /\ coll' = coll /\ tpos' = tpos
        /\ round' = round /\ ppc' = ppc /\ N' = N
    BY <1>0, <1>1 DEF Parts
  <2>3. CollectsInOrder'
    BY <2>2 DEF CollectsInOrder
  <2> QED BY <2>1, <2>3
<1>8. ReadIsCollected'
  <2>1. cpos' = 0 /\ \A m \in 1..cpos' : FALSE
    BY <1>0
  <2>2. \A k, m : Decided(k, m)' <=> Decided(k, m)
    BY <1>0 DEF Decided, Collected
  <2>3. quiet => \A k \in 1..(ck - 1) : k \in 1..N =>
                    \A m \in 1..tpos[<<round, k>>] : Decided(k, m)
    BY <1>0 DEF ReadIsCollected
  <2>4. quiet => \A d \in Children : child[d] # "live"
    BY <1>0 DEF ReadIsCollected
  <2> QED BY <1>0, <1>1, <2>1, <2>2, <2>3, <2>4 DEF ReadIsCollected
<1>9. FileTypes' /\ \A n \in 1..Len(coll') : coll'[n][1] = round'
  BY <1>0 DEF FileTypes
<1> QED BY <1>5, <1>6, <1>7, <1>8, <1>9

(***************************************************************************)
(* A scan that is given up leaves everything as it is.                     *)
(***************************************************************************)
LEMMA KeptByOutputMissing ==
    ASSUME Covered, PoolFacts, PoolTypeOK', Parts, OutputMissing
    PROVE  Parts'
<1> USE DEF Parts
<1>0. /\ ppc = "collect" /\ ppc' = "exit" /\ cfd = NoFile
      /\ UNCHANGED <<round, child, dir, data, tfd, tpos, ck, cfd, cpos, coll, numCommands, quiet>>
  BY DEF OutputMissing, CollectFails, fileVars, readVars
<1>1. N' = N
  BY <1>0 DEF N
<1>2. CountOfRound' /\ NamesOfRound' /\ WrittenInOrder' /\ OwnFiles'
  BY <1>0, <1>1 DEF CountOfRound, NamesOfRound, WrittenInOrder, OwnFiles
<1>3. ReadsSlot' /\ EndsWithRead' /\ ReadBefore' /\ ReadIsCollected' /\ CollectsInOrder'
  BY <1>0 DEF ReadsSlot, EndsWithRead, ReadBefore, ReadIsCollected, CollectsInOrder
<1>4. FileTypes' /\ \A n \in 1..Len(coll') : coll'[n][1] = round'
  BY <1>0 DEF FileTypes
<1> QED BY <1>2, <1>3, <1>4

(***************************************************************************)
(* The piece that is read goes on where its tool's file was read up to.    *)
(***************************************************************************)
LEMMA KeptByReadPiece ==
    ASSUME Covered, PoolFacts, PoolTypeOK', Parts, ReadPiece
    PROVE  Parts'
<1> USE DEF Parts
<1> DEFINE c == <<round, ck>>
           b == cpos + 1
           Triple == Int \X Int \X Int
<1>0. /\ cfd # NoFile
      /\ UNCHANGED <<ppc, round, child, dir, data, tfd, tpos, ck, cfd, numCommands, quiet>>
  BY DEF ReadPiece, poolVars, fileVars
<1>00. PICK e \in 1..Len(data[cfd]) :
         /\ PieceEnds(data[cfd], b, e)
         /\ coll' = IF LeftOut(data[cfd][b]) THEN coll
                    ELSE coll \o SubSeq(data[cfd], b, e)
         /\ cpos' = e
  BY DEF ReadPiece
<1>1. N' = N /\ N \in Nat /\ round \in Nat /\ round # 0 /\ \A k \in 1..N : <<round, k>> \in Children
  BY <1>0, ChildFacts DEF N, PoolFacts
<1>2. ppc = "collect" /\ cfd = c /\ ck \in 1..N /\ c \in Children
  BY <1>0, <1>1 DEF ReadsSlot
<1>3. /\ cpos \in Nat /\ tpos[c] \in Nat /\ Len(data[c]) = tpos[c]
      /\ e \in b..tpos[c] /\ b \in 1..tpos[c]
      /\ data[c] \in Seq(Triple) /\ coll \in Seq(Triple)
      /\ \A n \in 1..tpos[c] : data[c][n] = Place(c, n)
  <2>1. cpos \in Nat /\ data[c] \in Seq(Triple) /\ coll \in Seq(Triple)
    BY <1>2 DEF FileTypes
  <2>2. /\ tpos[c] \in Nat /\ Len(data[c]) = tpos[c]
        /\ \A n \in 1..tpos[c] : data[c][n] = Place(c, n)
    BY <1>2 DEF WrittenInOrder
  <2>3. e \in b..Len(data[c])
    BY <1>00, <1>2 DEF PieceEnds
  <2> HIDE DEF Triple, c, Parts
  <2>4. e \in b..tpos[c] /\ b \in 1..tpos[c]
    BY <2>1, <2>2, <2>3
  <2> QED BY <2>1, <2>2, <2>4
<1>33. \A n \in 1..Len(coll) : coll[n] \in Triple /\ coll[n][2] \in Int /\ coll[n][3] \in Int
  <2>1. \A n \in 1..Len(coll) : coll[n] \in Triple
    BY <1>3, ElementOfSeq
  <2> QED BY <2>1
<1>4. \A n : Place(c, n)[1] = round /\ Place(c, n)[2] = ck /\ Place(c, n)[3] = n
  BY PlaceParts
<1>5. \A n : CharAt(Place(c, n)) = Output[c][n]
  BY <1>1, <1>4 DEF CharAt
<1>6. /\ \A n \in b..(e - 1) : Output[c][n] # "NL"
      /\ Output[c][e] = "NL" \/ e = tpos[c]
  <2>1. /\ \A n \in b..(e - 1) : CharAt(data[c][n]) # "NL"
        /\ CharAt(data[c][e]) = "NL" \/ e = Len(data[c])
    BY <1>00, <1>2 DEF PieceEnds
  <2> HIDE DEF Triple, c, Parts
  <2>2. ASSUME NEW n \in b..e
        PROVE  CharAt(data[c][n]) = Output[c][n]
    <3>1. n \in 1..tpos[c]
      BY <1>3
    <3> QED BY <1>3, <1>5, <3>1
  <2>3. e \in b..e /\ \A n \in b..(e - 1) : n \in b..e
    BY <1>3
  <2> QED BY <1>3, <2>1, <2>2, <2>3
<1> DEFINE Keeps == ~LeftOut(Place(c, b))
<1>7. data[cfd][b] = Place(c, b)
  BY <1>2, <1>3
<1>8. Len(coll) \in Nat
  BY <1>3, LenProperties
<1> DEFINE L == Len(coll)
<1>9. /\ Keeps => Len(coll') = L + (e - cpos)
      /\ ~Keeps => coll' = coll
      /\ coll' \in Seq(Triple) /\ Len(coll') \in Nat /\ L <= Len(coll')
      /\ \A n \in 1..L : coll'[n] = coll[n]
      /\ \A n \in (L + 1)..Len(coll') : /\ coll'[n] = Place(c, cpos + (n - L))
                                      /\ cpos + (n - L) \in b..e
  <2>1. CASE ~Keeps
    <3>1. coll' = coll
      BY <1>00, <1>7, <2>1
    <3>2. (L + 1)..L = {}
      BY <1>8
    <3> QED BY <1>3, <1>8, <2>1, <3>1, <3>2
  <2>2. CASE Keeps
    <3> DEFINE q == coll
               s == data[c]
               r == q \o SubSeq(s, cpos + 1, e)
    <3>1. coll' = r
      BY <1>00, <1>2, <1>7, <2>2
    <3>2. /\ q \in Seq(Triple) /\ s \in Seq(Triple) /\ cpos \in Nat
          /\ e \in (cpos + 1)..Len(s)
      BY <1>3
    <3> HIDE DEF q, s, Triple, Parts
    <3>3. /\ r \in Seq(Triple)
          /\ Len(r) = Len(q) + (e - cpos)
          /\ \A n \in 1..Len(q) : r[n] = q[n]
          /\ \A n \in 1..(e - cpos) : r[Len(q) + n] = s[cpos + n]
      BY <3>2, AddPiece
    <3> HIDE DEF r
    <3> USE DEF q
    <3>4. Len(coll') = L + (e - cpos) /\ L <= Len(coll')
      BY <1>3, <1>8, <3>1, <3>3
    <3>5. ASSUME NEW n \in (L + 1)..Len(coll')
          PROVE  /\ coll'[n] = Place(c, cpos + (n - L))
                 /\ cpos + (n - L) \in b..e
      <4>1. n - L \in 1..(e - cpos) /\ L + (n - L) = n
        BY <1>3, <1>8, <3>4, <3>5
      <4>2. coll'[n] = s[cpos + (n - L)]
        BY <3>1, <3>3, <4>1
      <4>3. cpos + (n - L) \in 1..tpos[c] /\ cpos + (n - L) \in b..e
        BY <1>3, <1>8, <4>1
      <4> QED BY <1>3, <4>2, <4>3 DEF s
    <3>6. coll' \in Seq(Triple)
      BY <3>1, <3>3
    <3>7. Len(coll') \in Nat
      BY <3>6, LenProperties
    <3>8. \A n \in 1..L : coll'[n] = coll[n]
      BY <3>1, <3>3
    <3> HIDE DEF q, c, b, L, Keeps
    <3>9. \A n \in (L + 1)..Len(coll') : /\ coll'[n] = Place(c, cpos + (n - L))
                                        /\ cpos + (n - L) \in b..e
      BY <3>5
    <3> QED BY <2>2, <3>4, <3>6, <3>7, <3>8, <3>9
  <2> QED BY <2>1, <2>2
<1> HIDE DEF Triple
<1>10. CountOfRound' /\ NamesOfRound' /\ WrittenInOrder' /\ OwnFiles'
  BY <1>0, <1>1 DEF CountOfRound, NamesOfRound, WrittenInOrder, OwnFiles
<1>11. ReadsSlot'
  <2>1. cpos' = e /\ e <= tpos[c]
    BY <1>00, <1>3
  <2>2. /\ ck \in 1..(N + 1) /\ ck <= N /\ tfd[c] = c
        /\ \A k \in 1..(ck - 1) : tfd[<<round, k>>] # NoFile
    BY <1>0, <1>1, <1>2 DEF ReadsSlot
  <2> QED BY <1>0, <1>1, <1>2, <2>1, <2>2 DEF ReadsSlot
<1>12. LastRead \in 0..cpos /\ PassedOver(c, LastRead + 1, cpos)
  <2>1. LastRead \in 0..cpos
    BY <1>2, <1>3, <1>8 DEF ReadBefore, LastRead
  <2>2. PassedOver(c, LastRead + 1, cpos)
    BY <1>2 DEF EndsWithRead
  <2> QED BY <2>1, <2>2
<1>13. EndsWithRead'
  <2>1. CASE ~Keeps
    <3>1. LastRead' = LastRead /\ cpos' = e
      BY <1>0, <1>00, <1>9, <2>1 DEF LastRead
    <3>2. ASSUME NEW m \in (LastRead + 1)..e,
                 m = LastRead + 1 \/ Output[c][m - 1] = "NL"
          PROVE  LeftOut(Place(c, m))
      <4>1. CASE m \in (LastRead + 1)..cpos
        BY <1>12, <3>2, <4>1 DEF PassedOver
      <4>2. CASE m = b
        BY <2>1, <4>2
      <4>3. CASE m \in (b + 1)..e
        <5>1. m - 1 \in b..(e - 1) /\ m # LastRead + 1
          BY <1>3, <1>12, <4>3
        <5> QED BY <1>6, <3>2, <5>1
      <4> QED BY <1>3, <1>12, <4>1, <4>2, <4>3
    <3>3. PassedOver(c, LastRead + 1, e)
      BY <3>2 DEF PassedOver
    <3> QED BY <1>0, <3>1, <3>3 DEF EndsWithRead, PassedOver
  <2>2. CASE Keeps
    <3>1. Len(coll') \in (L + 1)..Len(coll') /\ cpos + (Len(coll') - L) = e /\ Len(coll') > 0
      BY <1>3, <1>8, <1>9, <2>2
    <3>2. coll'[Len(coll')] = Place(c, e)
      <4>1. coll'[Len(coll')] = Place(c, cpos + (Len(coll') - L))
        BY <1>9, <3>1
      <4> QED BY <3>1, <4>1
    <3>3. LastRead' = e /\ cpos' = e
      <4>1. coll'[Len(coll')][2] = ck /\ coll'[Len(coll')][3] = e /\ ck' = ck /\ cpos' = e
        BY <1>0, <1>00, <1>4, <3>2
      <4> HIDE DEF Parts
      <4> QED BY <3>1, <4>1 DEF LastRead
    <3>4. (e + 1)..e = {}
      BY <1>3
    <3> QED BY <1>0, <3>3, <3>4 DEF EndsWithRead, PassedOver
  <2> QED BY <2>1, <2>2
<1>14. ReadBefore'
  <2> SUFFICES ASSUME NEW n \in 1..Len(coll')
               PROVE  coll'[n][2] < ck \/ (coll'[n][2] = ck /\ coll'[n][3] \in 1..e)
    BY <1>0, <1>00 DEF ReadBefore
  <2>1. CASE n \in 1..L
    BY <1>2, <1>3, <1>9, <2>1 DEF ReadBefore
  <2>2. CASE n \in (L + 1)..Len(coll')
    <3>1. coll'[n] = Place(c, cpos + (n - L)) /\ cpos + (n - L) \in b..e
      BY <1>9, <2>2
    <3>2. coll'[n][2] = ck /\ coll'[n][3] = cpos + (n - L)
      BY <1>4, <3>1
    <3> QED BY <1>3, <3>1, <3>2
  <2> QED BY <1>8, <1>9, <2>1, <2>2
<1> DEFINE InList(k, m) == \E n \in 1..Len(coll') : coll'[n] = Place(<<round, k>>, m)
           Decides(k, m) == \A a \in 1..m : LineBegins(<<round, k>>, a, m) =>
                               (InList(k, m) <=> ~LeftOut(Place(<<round, k>>, a)))
<1>15. ASSUME NEW k \in Int, NEW m \in Int, k # ck \/ m <= cpos
       PROVE  InList(k, m) <=> Collected(k, m)
  <2>1. \A n \in (L + 1)..Len(coll') : coll'[n] # Place(<<round, k>>, m)
    <3> SUFFICES ASSUME NEW n \in (L + 1)..Len(coll'), coll'[n] = Place(<<round, k>>, m)
                 PROVE  FALSE
      OBVIOUS
    <3>1. coll'[n][2] = k /\ coll'[n][3] = m
      BY PlaceParts
    <3>2. coll'[n][2] = ck /\ coll'[n][3] \in b..e
      <4>1. coll'[n] = Place(c, cpos + (n - L)) /\ cpos + (n - L) \in b..e
        BY <1>9
      <4> QED BY <1>4, <4>1
    <3>3. k = ck /\ m \in b..e
      BY <3>1, <3>2
    <3> QED BY <1>3, <1>15, <3>3
  <2>2. 1..Len(coll') = 1..L \cup (L + 1)..Len(coll')
    BY <1>8, <1>9
  <2> QED BY <1>9, <2>1, <2>2 DEF Collected
<1>16. ASSUME NEW m \in b..e
       PROVE  InList(ck, m) <=> Keeps
  <2>1. CASE ~Keeps
    <3>1. ASSUME NEW n \in 1..L, coll[n] = Place(c, m)
          PROVE  FALSE
      <4>1. coll[n][2] = ck /\ coll[n][3] = m
        BY <1>4, <3>1
      <4>2. coll[n][3] \in 1..cpos
        BY <1>2, <4>1 DEF ReadBefore
      <4> QED BY <1>3, <4>1, <4>2
    <3>2. coll' = coll
      BY <1>9, <2>1
    <3> QED BY <2>1, <3>1, <3>2
  <2>2. CASE Keeps
    <3>1. L + (m - cpos) \in (L + 1)..Len(coll') /\ cpos + ((L + (m - cpos)) - L) = m
      BY <1>3, <1>8, <1>9, <2>2
    <3>2. coll'[L + (m - cpos)] = Place(c, m)
      BY <1>9, <3>1
    <3>3. L + (m - cpos) \in 1..Len(coll')
      BY <1>8, <3>1
    <3> QED BY <2>2, <3>2, <3>3
  <2> QED BY <2>1, <2>2
<1> HIDE DEF InList
<1>17. ReadIsCollected'
  <2> SUFFICES ASSUME quiet
               PROVE  /\ \A d \in Children : child[d] # "live"
                      /\ e = 0 \/ Output[c][e] = "NL" \/ e = tpos[c]
                      /\ \A m \in 1..e : Decides(ck, m)
                      /\ \A k \in 1..(ck - 1) : k \in 1..N =>
                            \A m \in 1..tpos[<<round, k>>] : Decides(k, m)
    <3>1. \A k, m : Decided(k, m)' <=> Decides(k, m)
      BY <1>0 DEF Decided, Collected, InList
    <3>2. cpos' = e /\ cfd' = c /\ ck' = ck /\ round' = round /\ N' = N /\ tpos' = tpos
          /\ quiet' = quiet /\ child' = child
      BY <1>0, <1>00, <1>1, <1>2
    <3> HIDE DEF Decides, Parts
    <3> QED BY <3>1, <3>2 DEF ReadIsCollected
  <2>1. /\ \A d \in Children : child[d] # "live"
        /\ cpos = 0 \/ Output[c][cpos] = "NL"
        /\ \A m \in 1..cpos : Decided(ck, m)
        /\ \A k \in 1..(ck - 1) : k \in 1..N =>
              \A m \in 1..tpos[<<round, k>>] : Decided(k, m)
    <3>1. cpos # tpos[c]
      BY <1>3
    <3> QED BY <1>0, <1>2, <3>1 DEF ReadIsCollected
  <2>2. ASSUME NEW m \in 1..cpos
        PROVE  Decides(ck, m)
    <3>1. ck \in Int /\ m \in Int /\ m <= cpos
      BY <1>2, <1>3
    <3>2. InList(ck, m) <=> Collected(ck, m)
      BY <1>15, <3>1
    <3> QED BY <2>1, <3>2 DEF Decided
  <2>3. \A k \in 1..(ck - 1) : k \in 1..N =>
           \A m \in 1..tpos[<<round, k>>] : Decides(k, m)
    <3> SUFFICES ASSUME NEW k \in 1..(ck - 1), k \in 1..N, NEW m \in 1..tpos[<<round, k>>]
                 PROVE  Decides(k, m)
      OBVIOUS
    <3>1. k # ck /\ k \in Int /\ m \in Int
      BY <1>2
    <3>2. InList(k, m) <=> Collected(k, m)
      BY <1>15, <3>1
    <3> QED BY <2>1, <3>2 DEF Decided
  <2>4. ASSUME NEW m \in b..e
        PROVE  Decides(ck, m)
    <3> SUFFICES ASSUME NEW a \in 1..m, LineBegins(c, a, m)
                 PROVE  InList(ck, m) <=> ~LeftOut(Place(c, a))
      OBVIOUS
    <3>1. a = b
      <4>1. /\ a = 1 \/ Output[c][a - 1] = "NL"
            /\ \A n \in a..(m - 1) : Output[c][n] # "NL"
        BY DEF LineBegins
      <4>2. ~(a < b)
        <5> SUFFICES ASSUME a < b PROVE FALSE
          OBVIOUS
        <5>1. cpos \in a..(m - 1) /\ cpos # 0
          BY <1>3
        <5> QED BY <2>1, <4>1, <5>1
      <4>3. ~(a > b)
        <5> SUFFICES ASSUME a > b PROVE FALSE
          OBVIOUS
        <5>1. a - 1 \in b..(e - 1) /\ a # 1
          BY <1>3
        <5> QED BY <1>6, <4>1, <5>1
      <4> QED BY <1>3, <4>2, <4>3
    <3> QED BY <1>16, <3>1
  <2>5. \A m \in 1..e : Decides(ck, m)
    <3>1. \A m \in 1..e : m \in 1..cpos \/ m \in b..e
      BY <1>3
    <3> HIDE DEF Decides
    <3> QED BY <2>2, <2>4, <3>1
  <2> HIDE DEF Decides
  <2> QED BY <1>6, <2>1, <2>3, <2>5
<1>18. CollectsInOrder'
  <2>1. ASSUME NEW n \in 1..L
        PROVE  Follows(n, coll')
    <3>1. PICK k \in 1..N : \E m \in 1..tpos[<<round, k>>] : FollowsAt(n, coll, k, m)
      BY <1>2, InOrderMeans DEF Follows
    <3>2. coll'[n] = coll[n] /\ (n > 1 => coll'[n - 1] = coll[n - 1])
      <4>1. n > 1 => n - 1 \in 1..L
        BY <1>8
      <4> HIDE DEF Parts
      <4> QED BY <1>9, <4>1
    <3>3. \A m : FollowsAt(n, coll, k, m) => FollowsAt(n, coll', k, m)
      BY <3>2 DEF FollowsAt, Since
    <3> QED BY <3>1, <3>3 DEF Follows
  <2>2. ASSUME NEW n \in (L + 1)..Len(coll')
        PROVE  Follows(n, coll')
    <3> DEFINE m == cpos + (n - L)
    <3>1. coll'[n] = Place(c, m) /\ m \in b..e /\ m \in 1..tpos[c]
      <4>1. coll'[n] = Place(c, m) /\ m \in b..e
        BY <1>9
      <4> QED BY <1>3, <4>1
    <3>2. CASE n = L + 1
      <4>1. m = b /\ m - 1 = cpos
        BY <1>3, <1>8, <3>2
      <4>2. n > 1 => n - 1 = L /\ coll'[n - 1] = coll[L] /\ L > 0 /\ coll[L][2] <= ck
        <5>1. n > 1 => n - 1 = L /\ L \in 1..L
          BY <1>8, <3>2
        <5>2. n > 1 => coll'[n - 1] = coll[L] /\ L > 0
          BY <1>8, <1>9, <5>1
        <5>3. n > 1 => coll[L][2] <= ck
          BY <1>2, <1>33, <5>1 DEF ReadBefore
        <5> QED BY <5>1, <5>2, <5>3
      <4>3. Since(n, coll', ck) = LastRead
        <5>1. ~(n > 1) => ~(L > 0)
          BY <1>8, <3>2
        <5> QED BY <4>2, <5>1 DEF Since, LastRead
      <4>4. FollowsAt(n, coll', ck, m)
        <5>1. coll'[n] = Place(<<round, ck>>, m)
          BY <3>1
        <5>2. n > 1 => coll'[n - 1][2] <= ck
          BY <4>2
        <5>3. LastRead < m
          BY <1>3, <1>12, <4>1
        <5> HIDE DEF m
        <5> QED BY <1>12, <4>1, <4>3, <5>1, <5>2, <5>3 DEF FollowsAt
      <4> QED BY <1>2, <3>1, <4>4 DEF Follows
    <3>3. CASE n # L + 1
      <4>1. n - 1 \in (L + 1)..Len(coll') /\ n > 1 /\ cpos + ((n - 1) - L) = m - 1
        BY <1>3, <1>8, <1>9, <3>3
      <4>2. coll'[n - 1] = Place(c, m - 1)
        BY <1>9, <4>1
      <4>3. Since(n, coll', ck) = m - 1
        BY <1>4, <4>1, <4>2 DEF Since
      <4>4. ((m - 1) + 1)..(m - 1) = {} /\ m - 1 < m
        BY <1>3, <3>1
      <4>5. PassedOver(c, (m - 1) + 1, m - 1)
        BY <4>4 DEF PassedOver
      <4>6. n > 1 => coll'[n - 1][2] <= ck
        BY <1>2, <1>4, <4>2
      <4>7. FollowsAt(n, coll', ck, m)
        BY <3>1, <4>3, <4>4, <4>5, <4>6 DEF FollowsAt
      <4> QED BY <1>2, <3>1, <4>7 DEF Follows
    <3> QED BY <3>2, <3>3
  <2>3. \A n \in 1..Len(coll') : Follows(n, coll')
    <3>1. Len(coll') \in Nat
      BY <1>9
    <3>2. \A n \in 1..Len(coll') : n \in 1..L \/ n \in (L + 1)..Len(coll')
      BY <1>8, <3>1
    <3> HIDE DEF L, Follows, Parts
    <3> QED BY <2>1, <2>2, <3>2
  <2>4. round' = round /\ tpos' = tpos /\ N' = N
    BY <1>0, <1>1
  <2> HIDE DEF Parts
  <2> QED BY <2>3, <2>4 DEF CollectsInOrder, Follows, FollowsAt, Since
<1>19. FileTypes' /\ \A n \in 1..Len(coll') : coll'[n][1] = round'
  <2>1. FileTypes'
    BY <1>0, <1>00, <1>3, <1>9 DEF FileTypes, Triple
  <2>2. \A n \in 1..Len(coll') : coll'[n][1] = round'
    <3>1. \A n \in 1..Len(coll') : n \in 1..L \/ n \in (L + 1)..Len(coll')
      BY <1>8, <1>9
    <3>2. ASSUME NEW n \in (L + 1)..Len(coll')
          PROVE  coll'[n][1] = round
      <4>1. coll'[n] = Place(c, cpos + (n - L))
        BY <1>9
      <4> QED BY <1>4, <4>1
    <3>3. ASSUME NEW n \in 1..L
          PROVE  coll'[n][1] = round
      BY <1>9
    <3> QED BY <1>0, <3>1, <3>2, <3>3
  <2> QED BY <2>1, <2>2
<1> QED BY <1>10, <1>11, <1>13, <1>14, <1>17, <1>18, <1>19

(***************************************************************************)
(* At the end of a file all that its tool has written has been read.       *)
(***************************************************************************)
LEMMA KeptByEndOfOutput ==
    ASSUME Covered, PoolFacts, PoolTypeOK', Parts, EndOfOutput
    PROVE  Parts'
<1> USE DEF Parts
<1> DEFINE c == <<round, ck>>
<1>0. /\ cfd # NoFile /\ cpos >= Len(data[cfd])
      /\ cfd' = NoFile /\ cpos' = 0 /\ ck' = ck + 1
      /\ UNCHANGED <<ppc, round, child, dir, data, tfd, tpos, coll, numCommands, quiet>>
  BY DEF EndOfOutput, poolVars, fileVars
<1>1. N' = N /\ N \in Nat /\ round \in Nat /\ \A k \in 1..N : <<round, k>> \in Children
  BY <1>0, ChildFacts DEF N, PoolFacts
<1>2. /\ ppc = "collect" /\ cfd = c /\ ck \in 1..N /\ c \in Children
      /\ tfd[c] = c /\ c # NoFile
  BY <1>0, <1>1 DEF ReadsSlot
<1>3. cpos = tpos[c] /\ cpos \in Nat
  BY <1>0, <1>2 DEF WrittenInOrder, FileTypes, ReadsSlot
<1>4. CountOfRound' /\ NamesOfRound' /\ WrittenInOrder' /\ OwnFiles'
  BY <1>0, <1>1 DEF CountOfRound, NamesOfRound, WrittenInOrder, OwnFiles
<1>5. ReadsSlot'
  BY <1>0, <1>1, <1>2 DEF ReadsSlot
<1>6. Len(coll) \in Nat /\ coll \in Seq(Int \X Int \X Int)
  BY LenProperties DEF FileTypes
<1>7. EndsWithRead' /\ ReadBefore'
  <2>1. ASSUME NEW n \in 1..Len(coll)
        PROVE  coll[n][2] < ck + 1
    <3>1. coll[n][2] \in Int
      BY <1>6, ElementOfSeq
    <3> QED BY <1>2, <3>1 DEF ReadBefore
  <2>2. ReadBefore'
    BY <1>0, <2>1 DEF ReadBefore
  <2>3. LastRead' = 0
    <3>1. Len(coll) > 0 => coll[Len(coll)][2] # ck + 1
      <4>1. Len(coll) > 0 => Len(coll) \in 1..Len(coll)
        BY <1>6
      <4>2. Len(coll) > 0 => coll[Len(coll)][2] < ck + 1 /\ ck + 1 \in Int
        BY <1>2, <2>1, <4>1
      <4>3. Len(coll) > 0 => coll[Len(coll)][2] \in Int
        BY <1>6, <4>1, ElementOfSeq
      <4> HIDE DEF Parts
      <4> QED BY <4>2, <4>3
    <3> QED BY <1>0, <3>1 DEF LastRead
  <2>4. EndsWithRead'
    BY <1>0, <2>3 DEF EndsWithRead, PassedOver
  <2> QED BY <2>2, <2>4
<1>8. ReadIsCollected'
  <2>1. \A k, m : Decided(k, m)' <=> Decided(k, m)
    BY <1>0 DEF Decided, Collected
  <2>2. quiet => \A d \in Children : child'[d] # "live"
    BY <1>0, <1>2 DEF ReadIsCollected
  <2>3. ASSUME quiet, NEW k \in 1..ck, k \in 1..N, NEW m \in 1..tpos[<<round, k>>]
        PROVE  Decided(k, m)
    <3>1. CASE k = ck
      BY <1>0, <1>2, <1>3, <2>3, <3>1 DEF ReadIsCollected
    <3>2. CASE k # ck
      <4>1. k \in 1..(ck - 1)
        BY <1>2, <2>3, <3>2
      <4> QED BY <1>2, <2>3, <4>1 DEF ReadIsCollected
    <3> QED BY <3>1, <3>2
  <2>4. (ck + 1) - 1 = ck
    BY <1>2
  <2>5. /\ cfd' = NoFile /\ ck' = ck + 1 /\ quiet' = quiet /\ round' = round
        /\ tpos' = tpos /\ N' = N
    BY <1>0, <1>1
  <2> HIDE DEF Parts
  <2> QED BY <2>1, <2>2, <2>3, <2>4, <2>5 DEF ReadIsCollected
<1>9. CollectsInOrder'
  BY <1>0, <1>1 DEF CollectsInOrder
<1>10. FileTypes' /\ \A n \in 1..Len(coll') : coll'[n][1] = round'
  BY <1>0, <1>2 DEF FileTypes
<1> QED BY <1>4, <1>5, <1>7, <1>8, <1>9, <1>10

(***************************************************************************)
(* A round only ends when each of its tools has created its output.        *)
(***************************************************************************)
LEMMA KeptByCollectionEnds ==
    ASSUME Covered, PoolFacts, PoolTypeOK', Parts, CollectionEnds
    PROVE  Parts'
<1> USE DEF Parts
<1>0. /\ ppc = "collect" /\ ck > numCommands
      /\ IF round < Rounds THEN round' = round + 1 /\ ppc' = "start"
         ELSE round' = round /\ ppc' = "done"
      /\ ck' = 1 /\ coll' = <<>>
      /\ UNCHANGED <<child, dir, data, tfd, tpos, cfd, cpos, numCommands, quiet>>
  BY DEF CollectionEnds, CollectDone, fileVars
<1>1. /\ N \in Nat /\ round \in 1..Rounds /\ Rounds \in Nat
      /\ \A k \in 1..N : <<round, k>> \in Children
      /\ \A c \in Children : /\ c[1] \in Int /\ c[2] \in 1..NumCmds[c[1]]
                             /\ c = <<c[1], c[2]>>
  BY ChildFacts DEF PoolFacts
<1>2. numCommands = N /\ ck = N + 1 /\ cfd = NoFile
  BY <1>0, <1>1 DEF CountOfRound, ReadsSlot
<1>3. \A k \in 1..N : tfd[<<round, k>>] # NoFile
  BY <1>0, <1>1, <1>2 DEF ReadsSlot
<1>4. \A c \in Children : c[1] = round => tfd[c] = c
  BY <1>1, <1>3 DEF OwnFiles, N
<1>5. OwnFiles'
  BY <1>0, <1>1, <1>4 DEF OwnFiles
<1>6. CountOfRound' /\ NamesOfRound' /\ WrittenInOrder'
  BY <1>0, <1>1, <1>2 DEF CountOfRound, NamesOfRound, WrittenInOrder, N
<1>7. Len(<<>>) = 0 /\ <<>> \in Seq(Int \X Int \X Int)
  BY EmptySeq
<1>8. ReadsSlot' /\ EndsWithRead' /\ ReadBefore' /\ ReadIsCollected' /\ CollectsInOrder'
  BY <1>0, <1>2 DEF ReadsSlot, EndsWithRead, ReadBefore, ReadIsCollected, CollectsInOrder
<1>9. FileTypes' /\ \A n \in 1..Len(coll') : coll'[n][1] = round'
  BY <1>0, <1>7 DEF FileTypes
<1> QED BY <1>5, <1>6, <1>8, <1>9

(***************************************************************************)
(* A tool that has not opened a file yet is one of this round, and finds   *)
(* no file under its name.                                                 *)
(***************************************************************************)
LEMMA KeptByToolOpens ==
    ASSUME Covered, PoolFacts, PoolTypeOK', Parts, NEW c \in Children, ToolOpens(c)
    PROVE  Parts'
<1> USE DEF Parts
<1> DEFINE f == IF dir[c[2]] = NoFile THEN c ELSE dir[c[2]]
<1>0. /\ child[c] = "live" /\ tfd[c] = NoFile
      /\ dir' = [dir EXCEPT ![c[2]] = f]
      /\ data' = [data EXCEPT ![f] = <<>>]
      /\ tfd' = [tfd EXCEPT ![c] = f]
      /\ UNCHANGED <<ppc, round, child, tpos, ck, cfd, cpos, coll, numCommands, quiet>>
  BY DEF ToolOpens, poolVars, readVars
<1>1. /\ N' = N /\ N \in Nat /\ round \in Int
      /\ \A k \in 1..N : <<round, k>> \in Children /\ k \in Slots
      /\ \A d \in Children : /\ d \in Inodes /\ d # NoFile /\ d[1] \in Int
                             /\ d[2] \in 1..NumCmds[d[1]] /\ d = <<d[1], d[2]>>
  BY <1>0, ChildFacts DEF N, PoolFacts
<1>2. ~Ahead(c) /\ ~(c[1] < round)
  BY <1>0, <1>1 DEF PoolFacts, NotYetForked, OwnFiles
<1>3. c[1] = round /\ ppc # "start" /\ c[2] \in 1..N /\ c = <<round, c[2]>>
  BY <1>1, <1>2 DEF Ahead, N
<1>4. dir[c[2]] = NoFile /\ f = c
  BY <1>0, <1>3 DEF NamesOfRound
<1> HIDE DEF f
<1>5. tfd'[c] = c /\ \A d \in Children : d # c => tfd'[d] = tfd[d]
  BY <1>0, <1>4 DEF FileTypes
<1>6. tpos[c] = 0 /\ Len(<<>>) = 0 /\ <<>> \in Seq(Int \X Int \X Int)
  BY <1>0, EmptySeq DEF WrittenInOrder
<1>7. data'[c] = <<>> /\ \A d \in Children : d # c => data'[d] = data[d]
  BY <1>0, <1>1, <1>4 DEF FileTypes
<1>8. CountOfRound'
  BY <1>0, <1>1 DEF CountOfRound
<1>9. OwnFiles'
  BY <1>0, <1>5 DEF OwnFiles
<1>10. NamesOfRound'
  <2>1. dir'[c[2]] = c
    BY <1>0, <1>1, <1>3, <1>4 DEF FileTypes
  <2>2. \A k \in 1..N : k # c[2] => dir'[k] = dir[k] /\ <<round, k>> # c
    BY <1>0, <1>1, <1>3 DEF FileTypes
  <2> QED BY <1>0, <1>1, <1>3, <1>5, <2>1, <2>2 DEF NamesOfRound
<1>11. WrittenInOrder'
  BY <1>0, <1>5, <1>6, <1>7 DEF WrittenInOrder
<1>12. ReadsSlot'
  <2>1. cfd # NoFile => cfd # c
    BY <1>0 DEF ReadsSlot
  <2>2. \A k \in 1..N : tfd[<<round, k>>] # NoFile => tfd'[<<round, k>>] # NoFile
    BY <1>1, <1>5
  <2>3. ppc = "collect" => \A k \in 1..(ck - 1) : k \in 1..N
    BY <1>1 DEF ReadsSlot
  <2>4. cfd # NoFile => tfd'[cfd] = tfd[cfd]
    BY <1>1, <1>5, <2>1 DEF ReadsSlot
  <2> QED BY <1>0, <1>1, <2>2, <2>3, <2>4 DEF ReadsSlot
<1>13. EndsWithRead' /\ ReadBefore' /\ ReadIsCollected' /\ CollectsInOrder'
  <2>1. EndsWithRead' /\ ReadBefore'
    BY <1>0 DEF EndsWithRead, LastRead, ReadBefore
  <2>2. ReadIsCollected'
    BY <1>0 DEF ReadIsCollected
  <2>3. CollectsInOrder'
    BY <1>0, <1>1 DEF CollectsInOrder
  <2> QED BY <2>1, <2>2, <2>3
<1>14. FileTypes' /\ \A n \in 1..Len(coll') : coll'[n][1] = round'
  <2>1. \A d \in Children : data'[d] \in Seq(Int \X Int \X Int)
    BY <1>6, <1>7 DEF FileTypes
  <2> QED BY <1>0, <2>1 DEF FileTypes
<1> QED BY <1>8, <1>9, <1>10, <1>11, <1>12, <1>13, <1>14

(***************************************************************************)
(* A line written over the end of a file is added to it.                   *)
(***************************************************************************)
LEMMA PutAtEnd ==
    ASSUME NEW S, NEW s \in Seq(S), NEW l \in S
    PROVE  /\ Put(s, Len(s), l) \in Seq(S)
           /\ Len(Put(s, Len(s), l)) = Len(s) + 1
           /\ Put(s, Len(s), l)[Len(s) + 1] = l
           /\ \A n \in 1..Len(s) : Put(s, Len(s), l)[n] = s[n]
<1> DEFINE f == [n \in 1..(Len(s) + 1) |->
                    IF n = Len(s) + 1 THEN l ELSE IF n <= Len(s) THEN s[n] ELSE Hole]
<1>1. Len(s) \in Nat
  BY LenProperties
<1>2. Put(s, Len(s), l) = f
  BY <1>1 DEF Put
<1>3. \A n \in 1..Len(s) : s[n] \in S
  BY ElementOfSeq
<1>4. f \in Seq(S) /\ Len(f) = Len(s) + 1
  <2>1. \A n \in 1..(Len(s) + 1) : f[n] \in S
    BY <1>1, <1>3
  <2>2. f \in [1..(Len(s) + 1) -> S]
    BY <2>1
  <2>3. Len(s) + 1 \in Nat
    BY <1>1
  <2> HIDE DEF f
  <2>4. f \in Seq(S)
    BY <2>2, <2>3, SeqDef
  <2> QED BY <2>2, <2>3, <2>4, LenProperties
<1>5. f[Len(s) + 1] = l /\ \A n \in 1..Len(s) : f[n] = s[n]
  BY <1>1
<1> QED BY <1>2, <1>4, <1>5

(***************************************************************************)
(* A tool adds a line to its own file.                                     *)
(***************************************************************************)
LEMMA KeptByToolWrites ==
    ASSUME Covered, PoolFacts, PoolTypeOK', Parts, NEW c \in Children, ToolWrites(c)
    PROVE  Parts'
<1> USE DEF Parts
<1> DEFINE Triple == Int \X Int \X Int
           l == Place(c, tpos[c] + 1)
<1>0. /\ child[c] = "live" /\ tfd[c] # NoFile
      /\ data' = [data EXCEPT ![tfd[c]] = Put(data[tfd[c]], tpos[c], l)]
      /\ tpos' = [tpos EXCEPT ![c] = tpos[c] + 1]
      /\ UNCHANGED <<ppc, round, child, dir, tfd, ck, cfd, cpos, coll, numCommands, quiet>>
  BY DEF ToolWrites, poolVars, readVars
<1>1. /\ N' = N /\ N \in Nat /\ round \in Int
      /\ \A k \in 1..N : <<round, k>> \in Children
      /\ \A d \in Children : d \in Inodes /\ d[1] \in Int /\ d[2] \in Int
  BY <1>0, ChildFacts DEF N, PoolFacts
<1>2. tfd[c] = c /\ Len(data[c]) = tpos[c] /\ tpos[c] \in Nat
  BY <1>0 DEF OwnFiles, WrittenInOrder
<1>3. l \in Triple
  BY <1>1, <1>2 DEF Place
<1> HIDE DEF l, Triple
<1>4. data[c] \in Seq(Triple)
  BY DEF FileTypes, Triple
<1>5. data'[c] = Put(data[c], Len(data[c]), l) /\ tpos'[c] = tpos[c] + 1
  BY <1>0, <1>1, <1>2 DEF FileTypes
<1>6. /\ data'[c] \in Seq(Triple)
      /\ Len(data'[c]) = tpos[c] + 1
      /\ data'[c][tpos[c] + 1] = l
      /\ \A n \in 1..tpos[c] : data'[c][n] = data[c][n]
  <2> HIDE DEF Parts
  <2>1. ASSUME NEW s \in Seq(Triple)
        PROVE  /\ Put(s, Len(s), l) \in Seq(Triple)
               /\ Len(Put(s, Len(s), l)) = Len(s) + 1
               /\ Put(s, Len(s), l)[Len(s) + 1] = l
               /\ \A n \in 1..Len(s) : Put(s, Len(s), l)[n] = s[n]
    BY <1>3, PutAtEnd
  <2> DEFINE s == data[c]
             q == Put(s, Len(s), l)
  <2>2. /\ q \in Seq(Triple)
        /\ Len(q) = Len(s) + 1
        /\ q[Len(s) + 1] = l
        /\ \A n \in 1..Len(s) : q[n] = s[n]
    BY <1>4, <2>1
  <2>3. Len(s) = tpos[c] /\ data'[c] = q
    BY <1>2, <1>5
  <2> HIDE DEF s, q
  <2>4. \A n \in 1..tpos[c] : data'[c][n] = s[n]
    BY <2>2, <2>3
  <2> USE DEF s
  <2> QED BY <2>2, <2>3, <2>4
<1>7. \A d \in Children : d # c => data'[d] = data[d] /\ tpos'[d] = tpos[d]
  BY <1>0, <1>1, <1>2 DEF FileTypes
<1>8. \A d \in Children : tpos[d] <= tpos'[d] /\ tpos[d] \in Nat /\ tpos'[d] \in Nat
  BY <1>2, <1>5, <1>7 DEF WrittenInOrder
<1>9. CountOfRound' /\ OwnFiles' /\ NamesOfRound'
  BY <1>0, <1>1 DEF CountOfRound, OwnFiles, NamesOfRound
<1>10. WrittenInOrder'
  <2> SUFFICES ASSUME NEW d \in Children
               PROVE  /\ tpos'[d] \in Nat
                      /\ Len(data'[d]) = tpos'[d]
                      /\ \A n \in 1..tpos'[d] : data'[d][n] = Place(d, n)
                      /\ tfd[d] = NoFile => tpos'[d] = 0
    BY <1>0 DEF WrittenInOrder
  <2>1. CASE d # c
    BY <1>7, <2>1 DEF WrittenInOrder
  <2>2. CASE d = c
    <3>1. \A n \in 1..tpos[c] : data'[c][n] = Place(c, n)
      BY <1>6 DEF WrittenInOrder
    <3>2. data'[c][tpos[c] + 1] = Place(c, tpos[c] + 1)
      BY <1>6 DEF l
    <3>3. \A n \in 1..tpos'[c] : data'[c][n] = Place(c, n)
      BY <1>2, <1>5, <3>1, <3>2
    <3> QED BY <1>0, <1>2, <1>5, <1>6, <2>2, <3>3
  <2> QED BY <2>1, <2>2
<1>11. ReadsSlot'
  <2>1. cfd # NoFile => cpos <= tpos'[cfd]
    BY <1>0, <1>1, <1>8 DEF ReadsSlot, FileTypes
  <2> QED BY <1>0, <1>1, <2>1 DEF ReadsSlot
<1>12. EndsWithRead' /\ ReadBefore'
  BY <1>0 DEF EndsWithRead, LastRead, ReadBefore
<1>13. ReadIsCollected'
  <2>1. ~(ppc = "collect" /\ quiet)
    BY <1>0 DEF ReadIsCollected
  <2> QED BY <1>0, <2>1 DEF ReadIsCollected
<1>14. CollectsInOrder'
  <2>1. ASSUME ppc = "collect", NEW n \in 1..Len(coll)
        PROVE  \E k \in 1..N : \E m \in 1..tpos'[<<round, k>>] : FollowsAt(n, coll, k, m)
    <3>1. PICK k \in 1..N : \E m \in 1..tpos[<<round, k>>] : FollowsAt(n, coll, k, m)
      BY <2>1, InOrderMeans DEF Follows
    <3>2. 1..tpos[<<round, k>>] \subseteq 1..tpos'[<<round, k>>]
      BY <1>1, <1>8
    <3> QED BY <3>1, <3>2
  <2>2. ppc' = ppc /\ round' = round /\ coll' = coll /\ N' = N
    BY <1>0, <1>1
  <2> HIDE DEF Parts
  <2>3. (ppc = "collect" => \A n \in 1..Len(coll) : \E k \in 1..N : \E m \in 1..tpos'[<<round, k>>] :
            /\ coll[n] = Place(<<round, k>>, m)
            /\ n > 1 => coll[n - 1][2] <= k
            /\ LET p == IF n > 1 /\ coll[n - 1][2] = k THEN coll[n - 1][3] ELSE 0
               IN  p < m /\ PassedOver(<<round, k>>, p + 1, m - 1))
    BY <2>1 DEF FollowsAt, Since
  <2>4. SUFFICES ASSUME ppc' = "collect"
                 PROVE  \A n \in 1..Len(coll') : \E k \in 1..N' : \E m \in 1..tpos'[<<round', k>>] :
            /\ coll'[n] = Place(<<round', k>>, m)
            /\ n > 1 => coll'[n - 1][2] <= k
            /\ LET p == IF n > 1 /\ coll'[n - 1][2] = k THEN coll'[n - 1][3] ELSE 0
               IN  p < m /\ PassedOver(<<round', k>>, p + 1, m - 1)
    BY DEF CollectsInOrder
  <2> QED BY <2>2, <2>3, <2>4
<1>15. FileTypes' /\ \A n \in 1..Len(coll') : coll'[n][1] = round'
  <2>1. \A d \in Children : data'[d] \in Seq(Int \X Int \X Int)
    BY <1>6, <1>7 DEF FileTypes, Triple
  <2> QED BY <1>0, <2>1 DEF FileTypes
<1> QED BY <1>9, <1>10, <1>11, <1>12, <1>13, <1>14, <1>15

(***************************************************************************)
(* A tool that ends leaves its file as it is.                              *)
(***************************************************************************)
LEMMA KeptByToolEnds ==
    ASSUME Covered, PoolFacts, PoolTypeOK', Parts, NEW c \in Children, ToolEnds(c)
    PROVE  Parts'
<1> USE DEF Parts
<1>0. /\ child[c] = "live"
      /\ UNCHANGED <<ppc, round, dir, data, tfd, tpos, ck, cfd, cpos, coll, numCommands, quiet>>
  BY DEF ToolEnds, ChildEnds, fileVars, readVars
<1>1. N' = N
  BY <1>0 DEF N
<1>2. \A d \in Children : /\ child'[d] = "none" => child[d] = "none"
                          /\ child'[d] = "live" => child[d] = "live"
  BY EndsAssumption DEF ToolEnds, ChildEnds, PoolFacts, PoolTypeOK
<1>3. CountOfRound' /\ NamesOfRound' /\ WrittenInOrder'
  BY <1>0, <1>1 DEF CountOfRound, NamesOfRound, WrittenInOrder
<1>4. OwnFiles'
  BY <1>0, <1>2 DEF OwnFiles
<1>5. ReadsSlot' /\ EndsWithRead' /\ ReadBefore' /\ CollectsInOrder'
  <2>1. ReadsSlot'
    BY <1>0, <1>1 DEF ReadsSlot
  <2>2. EndsWithRead' /\ ReadBefore'
    BY <1>0 DEF EndsWithRead, LastRead, ReadBefore
  <2>3. CollectsInOrder'
    <3>1. CollectsInOrder
      OBVIOUS
    <3>2. /\ ppc' = ppc /\ round' = round /\ tpos' = tpos /\ coll' = coll
      BY <1>0
    <3> QED BY <1>1, <3>1, <3>2 DEF CollectsInOrder, Place, Covered
  <2> QED BY <2>1, <2>2, <2>3
<1>6. ReadIsCollected'
  <2>1. \A k, m : Decided(k, m)' <=> Decided(k, m)
    BY <1>0 DEF Decided, Collected
  <2> QED BY <1>0, <1>1, <1>2, <2>1 DEF ReadIsCollected
<1>7. FileTypes' /\ \A n \in 1..Len(coll') : coll'[n][1] = round'
  BY <1>0 DEF FileTypes
<1> QED BY <1>3, <1>4, <1>5, <1>6, <1>7

(***************************************************************************)
(* The invariant is about the variables of the scan only.                  *)
(***************************************************************************)
LEMMA KeptByStuttering ==
    ASSUME Parts, UNCHANGED scanVars
    PROVE  Parts'
<1> USE DEF Parts
<1>0. /\ ppc' = ppc /\ round' = round /\ child' = child /\ dir' = dir /\ data' = data
      /\ tfd' = tfd /\ tpos' = tpos /\ ck' = ck /\ cfd' = cfd /\ cpos' = cpos
      /\ coll' = coll /\ numCommands' = numCommands /\ quiet' = quiet
  BY DEF scanVars, poolVars, fileVars, readVars
<1>1. N' = N
  BY <1>0 DEF N
<1>2. CountOfRound' /\ OwnFiles'
  BY <1>0, <1>1 DEF CountOfRound, OwnFiles
<1>3. NamesOfRound'
  BY <1>0, <1>1 DEF NamesOfRound
<1>4. WrittenInOrder'
  BY <1>0 DEF WrittenInOrder
<1>5. ReadsSlot'
  BY <1>0, <1>1 DEF ReadsSlot
<1>6. EndsWithRead' /\ ReadBefore'
  BY <1>0 DEF EndsWithRead, LastRead, ReadBefore
<1>7. ReadIsCollected'
  <2>1. \A k, m : Decided(k, m)' <=> Decided(k, m)
    BY <1>0 DEF Decided, Collected
  <2> QED BY <1>0, <1>1, <2>1 DEF ReadIsCollected
<1>8. CollectsInOrder'
  <2>1. CollectsInOrder
    OBVIOUS
  <2> QED BY <1>0, <1>1, <2>1 DEF CollectsInOrder, Place, Covered
<1>9. FileTypes' /\ \A n \in 1..Len(coll') : coll'[n][1] = round'
  BY <1>0 DEF FileTypes
<1> QED BY <1>2, <1>3, <1>4, <1>5, <1>6, <1>7, <1>8, <1>9

(***************************************************************************)
(* The invariant holds in every behaviour of a scan.                       *)
(***************************************************************************)
LEMMA ScanInvariant == ScanSpec => [](ScanInv /\ PoolFacts)
<1>1. ScanInv /\ PoolFacts /\ PoolTypeOK' /\ [ScanNext]_scanVars => ScanInv'
  <2> SUFFICES ASSUME PoolFacts, PoolTypeOK', [ScanNext]_scanVars, Covered, Parts
               PROVE  Parts'
    BY DEF ScanInv
  <2>1. CASE RoundStarts
    BY <2>1, KeptByRoundStarts
  <2>2. CASE PoolRuns
    BY <2>2, KeptByPoolRuns
  <2>3. CASE CollectionBegins
    BY <2>3, KeptByCollectionBegins
  <2>4. CASE OpenOutput
    BY <2>4, KeptByOpenOutput
  <2>5. CASE OutputMissing
    BY <2>5, KeptByOutputMissing
  <2>6. CASE ReadPiece
    BY <2>6, KeptByReadPiece
  <2>7. CASE EndOfOutput
    BY <2>7, KeptByEndOfOutput
  <2>8. CASE CollectionEnds
    BY <2>8, KeptByCollectionEnds
  <2>9. ASSUME NEW c \in Children, ToolOpens(c) \/ ToolWrites(c) \/ ToolEnds(c)
        PROVE  Parts'
    BY <2>9, KeptByToolOpens, KeptByToolWrites, KeptByToolEnds
  <2>10. CASE UNCHANGED scanVars
    BY <2>10, KeptByStuttering
  <2> QED BY <2>1, <2>2, <2>3, <2>4, <2>5, <2>6, <2>7, <2>8, <2>9, <2>10 DEF ScanNext
<1>2. ScanSpec => [](PoolTypeOK /\ NotYetForked)
  BY ScanImplementsPool, PoolTypeCorrect, ForkedOnce, PTL
<1>3. PoolFacts <=> PoolTypeOK /\ NotYetForked
  BY DEF PoolFacts
<1> QED BY <1>1, <1>2, <1>3, ScanInvInit, PTL DEF ScanSpec

----------------------------------------------------------------------------
(***************************************************************************)
(* No tool of an earlier round can reach a file of the round under way: a  *)
(* round only ends when each of its tools has created its own file, and    *)
(* the next round unlinks them all.                                        *)
(***************************************************************************)
THEOREM DetachedCorrect == ScanSpec => []EarlierToolsDetached
<1>1. ScanInv /\ PoolFacts => EarlierToolsDetached
  <2> SUFFICES ASSUME ScanInv, PoolFacts, Covered, NEW c \in Children, c[1] < round
               PROVE  /\ tfd[c] = c
                      /\ ppc # "start" => \A k \in 1..N : dir[k] # c
    BY DEF EarlierToolsDetached
  <2>1. tfd[c] = c
    BY DEF ScanInv, Parts, OwnFiles
  <2>2. c # NoFile /\ \A k \in 1..N : <<round, k>> \in Children /\ <<round, k>> # c
    BY ChildFacts DEF PoolFacts
  <2>3. ppc # "start" => \A k \in 1..N : dir[k] \in {NoFile, <<round, k>>}
    BY <2>2 DEF ScanInv, Parts, OwnFiles, NamesOfRound
  <2> QED BY <2>1, <2>2, <2>3
<1> QED BY <1>1, ScanInvariant, PTL

(***************************************************************************)
(* What is collected for a domain was written for that domain.             *)
(***************************************************************************)
THEOREM IsolationCorrect == ScanSpec => []Isolation
<1>1. ScanInv => Isolation
  BY DEF ScanInv, Parts, Isolation
<1> QED BY <1>1, ScanInvariant, PTL

(***************************************************************************)
(* What is collected of each tool is in the order in which it was written, *)
(* and only pieces that begin with a newline or a # are passed over,       *)
(* wherever the writes of the tools end while they are read.               *)
(***************************************************************************)
THEOREM InOrderCorrect == ScanSpec => []CollectsInOrder
<1>1. ScanInv => CollectsInOrder
  BY DEF ScanInv, Parts, CollectsInOrder
<1> QED BY <1>1, ScanInvariant, PTL

(***************************************************************************)
(* If every tool had ended before the collection began, the list that is   *)
(* compared holds the lines of the round that are neither blank nor        *)
(* comments, whole, and no others.                                         *)
(***************************************************************************)
THEOREM QuietCorrect == ScanSpec => []QuietIsComplete
<1>1. ScanInv /\ PoolFacts => QuietIsComplete
  <2> SUFFICES ASSUME ScanInv, PoolFacts, Covered,
                      ppc = "collect", ck > numCommands, quiet,
                      NEW k \in 1..N, NEW m \in 1..tpos[<<round, k>>]
               PROVE  Decided(k, m)
    BY DEF QuietIsComplete, Decided, Collected
  <2>1. Parts
    BY DEF ScanInv
  <2>2. N \in Nat
    BY ChildFacts DEF PoolFacts
  <2>3. k \in 1..(ck - 1)
    BY <2>1, <2>2 DEF Parts, CountOfRound, ReadsSlot
  <2> QED BY <2>1, <2>3 DEF Parts, ReadIsCollected
<1> QED BY <1>1, ScanInvariant, PTL

=============================================================================
