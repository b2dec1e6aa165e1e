---------------------------- MODULE ShellProofs ----------------------------
(***************************************************************************)
(* For every number of descriptors and every list of redirections: what    *)
(* becomes of the table of descriptors of a process that performs them.    *)
(* Two facts carry the proofs.  A list is a chain of tables, each of which *)
(* can be had back from the next one with the copy that was taken; and a   *)
(* descriptor that was open at the beginning is never taken for a copy.    *)
(*                                                                         *)
(* For every sequence of lines, whatever fails and is interrupted: the     *)
(* shell performs its redirections as Redirect says, in its own process    *)
(* and in its children, and its here documents are what was typed.         *)
(*                                                                         *)
(* For every pattern and every directory: the names a wildcard stands for. *)
(***************************************************************************)
EXTENDS Shell, OrderingProofs

----------------------------------------------------------------------------
(* Operators. *)

(***************************************************************************)
(* The lowest number of a set is one of it.                                *)
(***************************************************************************)
LEMMA LowestIsOne ==
    ASSUME NEW S \in SUBSET Nat, S # {}
    PROVE  Lowest(S) \in S
BY LeastNumber DEF Lowest

(***************************************************************************)
(* Opening a file takes a descriptor that was free.                        *)
(***************************************************************************)
LEMMA LowestIsFree ==
    ASSUME NEW t, Free(t) # {}
    PROVE  Lowest(Free(t)) \in Fd /\ t[Lowest(Free(t))] = Closed
<1>1. Free(t) \in SUBSET Nat
  BY MaxFdAssumption DEF Free, Fd
<1>2. Lowest(Free(t)) \in Free(t)
  BY <1>1, LowestIsOne
<1> QED BY <1>2 DEF Free

LEMMA OpenedFacts ==
    ASSUME NEW t, DOMAIN t = Fd, Free(t) # {}, NEW d
    PROVE  \E new \in Fd :
              /\ new = Lowest(Free(t)) /\ t[new] = Closed
              /\ DOMAIN Opened(t, d) = Fd
              /\ Opened(t, d)[new] = d
              /\ \A n \in Fd : n # new => Opened(t, d)[n] = t[n]
BY LowestIsFree DEF Opened

(***************************************************************************)
(* What the redirection of one element does to a table: the target gets    *)
(* the file and a free descriptor what the target was, and nothing else    *)
(* changes, unless the file was opened as the target itself.               *)
(***************************************************************************)
LEMMA InstallFacts ==
    ASSUME DOMAIN fds = Fd, pos \in DOMAIN bak,
           NEW d, d # Closed, Install(d)
    PROVE  /\ DOMAIN fds' = Fd
           /\ Target \in Fd /\ bak'[pos] \in Fd /\ bak'[pos] # Target
           /\ fds[bak'[pos]] = Closed /\ fds'[bak'[pos]] # Closed
           /\ fds'[bak'[pos]] = fds[Target] \/ fds[Target] = Closed
           /\ fds'[Target] = IF fds[Target] = Closed THEN Closed ELSE d
           /\ \A n \in Fd : n # Target /\ n # bak'[pos] => fds'[n] = fds[n]
<1> DEFINE new == Lowest(Free(fds))
           opened == Opened(fds, d)
           back == Lowest(Free(opened))
<1>1. /\ Free(fds) # {} /\ Target \in Fd /\ opened[Target] # Closed /\ Free(opened) # {}
      /\ fds' = [opened EXCEPT ![back] = opened[Target], ![Target] = d, ![new] = Closed]
      /\ bak'[pos] = back
  BY DEF Install, CanDup
<1>2. /\ new \in Fd /\ fds[new] = Closed /\ DOMAIN opened = Fd /\ opened[new] = d
      /\ \A n \in Fd : n # new => opened[n] = fds[n]
  BY <1>1, OpenedFacts
<1>3. back \in Fd /\ opened[back] = Closed
  BY <1>1, LowestIsFree
<1> HIDE DEF new, opened, back
<1>4. back # new /\ back # Target
  BY <1>1, <1>2, <1>3
<1> QED BY <1>1, <1>2, <1>3, <1>4

----------------------------------------------------------------------------
(* The inductive invariant. *)

(***************************************************************************)
(* How many elements have been performed, and of how many the copies are   *)
(* still there.                                                            *)
(***************************************************************************)
Performing == rpc \in {"open", "failed"}
Done == IF Performing THEN pos - 1 ELSE Len(redirs)
Kept == IF Performing THEN pos - 1 ELSE pos

ListTypes ==
    /\ rpc \in {"idle", "open", "failed", "restore", "forget", "restored", "forgotten"}
    /\ Len(redirs) \in Nat /\ DOMAIN redirs = 1..Len(redirs)
    /\ DOMAIN bak = 1..Len(redirs) /\ DOMAIN fds = Fd
    /\ rpc = "open" => pos \in 1..(Len(redirs) + 1)
    /\ rpc = "failed" => pos \in 1..Len(redirs)
    /\ rpc \in {"restore", "forget"} => pos \in 0..Len(redirs)
    /\ rpc \in {"restored", "forgotten"} => pos = 0
    /\ rpc # "idle" => Len(given) = Done
    /\ \E S : given \in Seq(S)

(***************************************************************************)
(* A copy is taken under a number of its own.                              *)
(***************************************************************************)
Copies ==
    rpc # "idle" =>
        \A k \in 1..Done :
            bak[k] \in Fd /\ redirs[k].fd \in Fd /\ bak[k] # redirs[k].fd

(***************************************************************************)
(* The redirection of a, with its copy in b, has made the table u of the   *)
(* table t, which can be had back but for a target that was free.          *)
(***************************************************************************)
Undoable(t, u, a, b) ==
    /\ t[b] = Closed /\ u[b] # Closed
    /\ u[b] = t[a] \/ t[a] = Closed
    /\ \A n \in Fd : n # a /\ n # b => u[n] = t[n]

Agree(u, t, names) ==
    \A n \in Fd : u[n] = t[n] \/ (t[n] = Closed /\ n \in names)

(***************************************************************************)
(* The tables from the first on, of which the present one is the last, or  *)
(* is but for targets that were free.                                      *)
(***************************************************************************)
Chain ==
    rpc \in {"open", "restore", "restored"} =>
        \E T : /\ T[1] = orig
               /\ \A k \in 1..Kept : Undoable(T[k], T[k + 1], redirs[k].fd, bak[k])
               /\ rpc = "open" => T[Kept + 1] = fds
               /\ Agree(fds, T[Kept + 1], Targets(Len(redirs)))

(***************************************************************************)
(* v is what the last of the first m elements of the list to redirect n    *)
(* was given, or else what was there before.                               *)
(***************************************************************************)
LastSets(list, took, before, n, v, m) ==
    \/ v = before[n] /\ \A k \in 1..m : list[k].fd # n
    \/ \E k \in 1..m : /\ list[k].fd = n /\ v = took[k]
                       /\ \A j \in 1..m : k < j => list[j].fd # n

(***************************************************************************)
(* A descriptor that was open refers to what the last redirection of it    *)
(* says.                                                                   *)
(***************************************************************************)
OpenOnes ==
    rpc \in {"open", "failed", "forget", "forgotten"} =>
        \A n \in Fd : orig[n] # Closed =>
            fds[n] # Closed /\ LastSets(redirs, given, orig, n, fds[n], Done)

(***************************************************************************)
(* One that was free is a copy if it is not free any more, or a file that  *)
(* was opened last; there are two of these only if none is free.           *)
(***************************************************************************)
FreeOnes ==
    rpc \in {"open", "failed", "forget", "forgotten"} =>
        /\ \A k \in 1..Done : orig[bak[k]] = Closed
        /\ \E x, y \in Fd :
              /\ \A n \in Fd :
                    orig[n] = Closed /\ fds[n] # Closed =>
                        (rpc = "failed" /\ n \in {x, y}) \/ \E k \in 1..Kept : bak[k] = n
              /\ Free(fds) # {} => x = y

(***************************************************************************)
(* While the list is performed the copies are open, each under a number of *)
(* its own: every element costs one descriptor.                            *)
(***************************************************************************)
CopiesOpen ==
    rpc = "open" =>
        /\ \A k \in 1..Done : fds[bak[k]] # Closed
        /\ \A j, k \in 1..Done : bak[j] = bak[k] => j = k

RInv == ListTypes /\ Copies /\ Chain /\ OpenOnes /\ FreeOnes /\ CopiesOpen

(***************************************************************************)
(* No list has been begun.                                                 *)
(***************************************************************************)
LEMMA RInvInit == RedirectInit => RInv
<1> SUFFICES ASSUME RedirectInit PROVE RInv
  OBVIOUS
<1>1. Len(<<>>) = 0 /\ DOMAIN <<>> = 1..0 /\ <<>> \in Seq({})
  BY EmptySeq
<1> QED BY <1>1 DEF RedirectInit, RInv, ListTypes, Copies, Chain, OpenOnes, FreeOnes, CopiesOpen

LEMMA KeptByBegins ==
    ASSUME RInv, Begins
    PROVE  RInv'
<1>1. /\ rpc' = "open" /\ pos' = 1 /\ orig' = fds /\ given' = <<>> /\ fds' = fds
      /\ bak' = [k \in DOMAIN redirs' |-> -1] /\ DOMAIN fds = Fd
  BY DEF Begins, BeginRedirect, RInv, ListTypes
<1>2. Len(redirs') \in Nat /\ DOMAIN redirs' = 1..Len(redirs')
  <2>1. PICK S : redirs' \in Seq(S)
    BY DEF Begins, IsList
  <2> QED BY <2>1, LenProperties
<1>3. Len(<<>>) = 0 /\ <<>> \in Seq({})
  BY EmptySeq
<1>4. Performing' /\ Done' = 0 /\ Kept' = 0
  BY <1>1 DEF Performing, Done, Kept
<1>5. ListTypes'
  BY <1>1, <1>2, <1>3, <1>4 DEF ListTypes
<1>6. Copies'
  BY <1>4 DEF Copies
<1>7. Chain'
  <2> DEFINE T == [k \in 1..1 |-> fds]
  <2>1. T[1] = fds
    OBVIOUS
  <2>2. \A names : Agree(fds', T[1], names)
    BY <1>1, <2>1 DEF Agree
  <2> HIDE DEF T
  <2> QED BY <1>1, <1>4, <2>1, <2>2 DEF Chain
<1>8. OpenOnes'
  BY <1>1, <1>4 DEF OpenOnes, LastSets
<1>9. FreeOnes'
  <2>1. 0 \in Fd
    BY MaxFdAssumption DEF Fd
  <2> QED BY <1>1, <1>4, <2>1 DEF FreeOnes
<1>10. CopiesOpen'
  BY <1>4 DEF CopiesOpen
<1> QED BY <1>5, <1>6, <1>7, <1>8, <1>9, <1>10 DEF RInv

(***************************************************************************)
(* One more element: the chain is one table longer.                        *)
(***************************************************************************)
LEMMA AppendAny ==
    ASSUME NEW S, NEW s \in Seq(S), NEW d
    PROVE  /\ Append(s, d) \in Seq(S \cup {d})
           /\ Len(Append(s, d)) = Len(s) + 1
           /\ \A k \in 1..Len(s) : Append(s, d)[k] = s[k]
           /\ Append(s, d)[Len(s) + 1] = d
<1>1. s \in Seq(S \cup {d})
  BY SeqMonotonic
<1> QED BY <1>1, AppendProperties

LEMMA KeptByInstalls ==
    ASSUME RInv, Installs
    PROVE  RInv'
<1> DEFINE a == Target
           b == bak'[pos]
           d == given'[pos]
<1>1. /\ rpc = "open" /\ rpc' = "open" /\ pos' = pos + 1 /\ redirs' = redirs /\ orig' = orig
      /\ given' = Append(given, d) /\ d # Closed
      /\ pos <= Len(redirs)
  BY DEF Installs, Install, Opening
<1>2. /\ Len(redirs) \in Nat /\ DOMAIN redirs = 1..Len(redirs) /\ pos \in 1..Len(redirs)
      /\ DOMAIN bak = 1..Len(redirs) /\ DOMAIN fds = Fd /\ Len(given) = pos - 1
      /\ Done = pos - 1 /\ Kept = pos - 1
  BY <1>1 DEF RInv, ListTypes, Done, Kept, Performing
<1>3. /\ DOMAIN fds' = Fd /\ a \in Fd /\ b \in Fd /\ b # a
      /\ fds[b] = Closed /\ fds'[b] # Closed
      /\ fds'[b] = fds[a] \/ fds[a] = Closed
      /\ fds'[a] = IF fds[a] = Closed THEN Closed ELSE d
      /\ \A n \in Fd : n # a /\ n # b => fds'[n] = fds[n]
  <2>1. Install(d) /\ pos \in DOMAIN bak
    BY <1>2 DEF Installs
  <2> QED BY <1>1, <1>2, <2>1, InstallFacts
<1>4. /\ DOMAIN bak' = 1..Len(redirs)
      /\ \A k \in 1..(pos - 1) : bak'[k] = bak[k]
  BY <1>1, <1>2 DEF Installs, Install
<1>5. Done' = pos /\ Kept' = pos
  BY <1>1, <1>2 DEF Done, Kept, Performing
<1>6. /\ \E S : given' \in Seq(S)
      /\ Len(given') = pos /\ given'[pos] = d
      /\ \A k \in 1..(pos - 1) : given'[k] = given[k]
  <2>1. PICK S : given \in Seq(S)
    BY DEF RInv, ListTypes
  <2> HIDE DEF d
  <2>2. /\ Append(given, d) \in Seq(S \cup {d})
        /\ Len(Append(given, d)) = Len(given) + 1
        /\ \A k \in 1..Len(given) : Append(given, d)[k] = given[k]
        /\ Append(given, d)[Len(given) + 1] = d
    BY <2>1, AppendAny
  <2>3. given' = Append(given, d) /\ Len(given) = pos - 1 /\ Len(given) + 1 = pos
    BY <1>1, <1>2
  <2>4. \E Q : given' \in Seq(Q)
    BY <2>2, <2>3
  <2> QED BY <2>2, <2>3, <2>4
<1>7. redirs[pos].fd = a
  BY DEF Target
<1> HIDE DEF a, b, d
<1>8. ListTypes'
  BY <1>1, <1>2, <1>3, <1>4, <1>5, <1>6 DEF ListTypes
<1>9. Copies'
  <2> SUFFICES ASSUME NEW k \in 1..pos
               PROVE  bak'[k] \in Fd /\ redirs[k].fd \in Fd /\ bak'[k] # redirs[k].fd
    BY <1>1, <1>5 DEF Copies
  <2>1. CASE k = pos
    BY <1>3, <1>7, <2>1 DEF b
  <2>2. CASE k # pos
    BY <1>1, <1>2, <1>4, <2>2 DEF RInv, Copies
  <2> QED BY <2>1, <2>2
<1>10. Chain'
  <2>1. PICK T : /\ T[1] = orig
                 /\ \A k \in 1..(pos - 1) : Undoable(T[k], T[k + 1], redirs[k].fd, bak[k])
                 /\ T[pos] = fds
    <3>1. (pos - 1) + 1 = pos
      BY <1>2
    <3> QED BY <1>1, <1>2, <3>1 DEF RInv, Chain
  <2> DEFINE U == [k \in 1..(pos + 1) |-> IF k = pos + 1 THEN fds' ELSE T[k]]
  <2>2. U[1] = orig /\ U[pos] = fds /\ U[pos + 1] = fds'
    BY <1>2, <2>1
  <2>3. \A k \in 1..(pos - 1) : U[k] = T[k] /\ U[k + 1] = T[k + 1]
    BY <1>2
  <2> HIDE DEF U
  <2>4. ASSUME NEW k \in 1..pos
        PROVE  Undoable(U[k], U[k + 1], redirs[k].fd, bak'[k])
    <3>1. CASE k = pos
      <4>1. Undoable(fds, fds', a, b)
        BY <1>3 DEF Undoable
      <4> QED BY <1>7, <2>2, <3>1, <4>1 DEF b
    <3>2. CASE k # pos
      <4>1. k \in 1..(pos - 1)
        BY <1>2, <3>2
      <4> QED BY <1>4, <2>1, <2>3, <4>1
    <3> QED BY <3>1, <3>2
  <2>5. \A names : Agree(fds', U[pos + 1], names)
    BY <2>2 DEF Agree
  <2> QED BY <1>1, <1>5, <2>2, <2>4, <2>5 DEF Chain
<1>11. OpenOnes'
  <2> SUFFICES ASSUME NEW n \in Fd, orig[n] # Closed
               PROVE  /\ fds'[n] # Closed
                      /\ LastSets(redirs, given', orig, n, fds'[n], pos)
    BY <1>1, <1>5 DEF OpenOnes
  <2>1. fds[n] # Closed /\ LastSets(redirs, given, orig, n, fds[n], pos - 1)
    BY <1>1, <1>2 DEF RInv, OpenOnes
  <2>2. n # b
    BY <1>3, <2>1
  <2>3. CASE n = a
    BY <1>1, <1>2, <1>3, <1>6, <1>7, <2>1, <2>3 DEF LastSets
  <2>4. CASE n # a
    <3>1. fds'[n] = fds[n]
      BY <1>3, <2>2, <2>4
    <3>2. CASE fds[n] = orig[n] /\ \A k \in 1..(pos - 1) : redirs[k].fd # n
      <4>1. \A k \in 1..pos : redirs[k].fd # n
        BY <1>2, <1>7, <2>4, <3>2
      <4> QED BY <3>1, <3>2, <4>1 DEF LastSets
    <3>3. ASSUME NEW k \in 1..(pos - 1), redirs[k].fd = n, fds[n] = given[k],
                 \A j \in 1..(pos - 1) : k < j => redirs[j].fd # n
          PROVE  LastSets(redirs, given', orig, n, fds'[n], pos)
      <4>1. \A j \in 1..pos : k < j => redirs[j].fd # n
        BY <1>2, <1>7, <2>4, <3>3
      <4>2. given'[k] = given[k] /\ k \in 1..pos
        BY <1>2, <1>6, <3>3
      <4> QED BY <1>1, <3>1, <3>3, <4>1, <4>2 DEF LastSets
    <3> QED BY <2>1, <3>1, <3>2, <3>3 DEF LastSets
  <2> QED BY <2>3, <2>4
<1>12. FreeOnes'
  <2>1. \A k \in 1..(pos - 1) : orig[bak[k]] = Closed
    BY <1>1, <1>2 DEF RInv, FreeOnes
  <2>2. orig[b] = Closed
    BY <1>1, <1>3 DEF RInv, OpenOnes
  <2>3. \A k \in 1..pos : orig[bak'[k]] = Closed
    BY <1>2, <1>4, <2>1, <2>2 DEF b
  <2>4. ASSUME NEW n \in Fd, orig[n] = Closed, fds'[n] # Closed
        PROVE  \E k \in 1..pos : bak'[k] = n
    <3>1. CASE n = b
      BY <1>2, <3>1 DEF b
    <3>2. CASE n # b
      <4>1. fds[n] # Closed
        BY <1>3, <2>4, <3>2
      <4>2. PICK k \in 1..(pos - 1) : bak[k] = n
        <5>1. Kept = pos - 1 /\ rpc = "open"
          BY <1>1, <1>2
        <5> QED BY <2>4, <4>1, <5>1 DEF RInv, FreeOnes
      <4> QED BY <1>2, <1>4, <4>2
    <3> QED BY <3>1, <3>2
  <2>5. 0 \in Fd
    BY MaxFdAssumption DEF Fd
  <2> QED BY <1>1, <1>5, <2>3, <2>4, <2>5 DEF FreeOnes
<1>13. CopiesOpen'
  <2>1. /\ \A k \in 1..(pos - 1) : bak[k] \in Fd /\ fds[bak[k]] # Closed
        /\ \A j, k \in 1..(pos - 1) : bak[j] = bak[k] => j = k
    BY <1>1, <1>2 DEF RInv, Copies, CopiesOpen
  <2>2. ASSUME NEW n \in Fd, fds[n] # Closed
        PROVE  fds'[n] # Closed
    BY <1>1, <1>3, <2>2
  <2>3. ASSUME NEW k \in 1..pos
        PROVE  fds'[bak'[k]] # Closed /\ (bak'[k] = b => k = pos)
    <3>1. CASE k = pos
      BY <1>3, <3>1 DEF b
    <3>2. CASE k # pos
      <4>1. k \in 1..(pos - 1)
        BY <1>2, <3>2
      <4> QED BY <1>3, <1>4, <2>1, <2>2, <4>1
    <3> QED BY <3>1, <3>2
  <2>4. ASSUME NEW j \in 1..pos, NEW k \in 1..pos, bak'[j] = bak'[k]
        PROVE  j = k
    <3>1. CASE j = pos \/ k = pos
      BY <2>3, <2>4, <3>1 DEF b
    <3>2. CASE j # pos /\ k # pos
      <4>1. j \in 1..(pos - 1) /\ k \in 1..(pos - 1)
        BY <1>2, <3>2
      <4> QED BY <1>4, <2>1, <2>4, <4>1
    <3> QED BY <3>1, <3>2
  <2> QED BY <1>5, <2>3, <2>4 DEF CopiesOpen
<1> QED BY <1>8, <1>9, <1>10, <1>11, <1>12, <1>13 DEF RInv

(***************************************************************************)
(* A list that is given up leaves its table, or that table and one file,   *)
(* or two that have taken all that was free.                               *)
(***************************************************************************)
LEMMA TwoOf ==
    ASSUME NEW S, IsFiniteSet(S), Cardinality(S) = 2
    PROVE  \E x, y : S = {x, y}
<1>1. PICK x \in S : TRUE
  BY FS_EmptySet
<1>2. IsFiniteSet(S \ {x}) /\ Cardinality(S \ {x}) = 1
  BY <1>1, FS_RemoveElement
<1>3. PICK y : S \ {x} = {y}
  BY <1>2, FS_Singleton
<1> QED BY <1>1, <1>3

LEMMA FdFinite == IsFiniteSet(Fd) /\ \A t : IsFiniteSet(Free(t))
<1>1. IsFiniteSet(Fd)
  BY MaxFdAssumption, FS_Interval DEF Fd
<1>2. ASSUME NEW t PROVE IsFiniteSet(Free(t))
  <2>1. Free(t) \in SUBSET Fd
    BY DEF Free
  <2> QED BY <1>1, <2>1, FS_Subset
<1> QED BY <1>1, <1>2

LEMMA GivesUpFacts ==
    ASSUME DOMAIN fds = Fd, GivesUp
    PROVE  /\ Opening /\ rpc' = "failed" /\ DOMAIN fds' = Fd
           /\ UNCHANGED <<redirs, pos, bak, orig, given>>
           /\ \E x, y \in Fd :
                 /\ \A n \in Fd : n # x /\ n # y => fds'[n] = fds[n]
                 /\ \A n \in {x, y} : fds'[n] = fds[n] \/ fds[n] = Closed
                 /\ Free(fds') # {} => x = y
<1> DEFINE d == fds'[Lowest(Free(fds))]
           full == [n \in Fd |-> IF fds[n] = Closed THEN fds'[n] ELSE fds[n]]
<1>1. CASE OpenFails
  <2>1. 0 \in Fd
    BY MaxFdAssumption DEF Fd
  <2> QED BY <1>1, <2>1 DEF OpenFails, GiveUp
<1>2. CASE Free(fds) # {} /\ GiveUp(Opened(fds, d))
  <2>1. PICK x \in Fd : /\ fds[x] = Closed
                        /\ DOMAIN Opened(fds, d) = Fd
                        /\ \A n \in Fd : n # x => Opened(fds, d)[n] = fds[n]
    BY <1>2, OpenedFacts
  <2>2. fds' = Opened(fds, d) /\ Opening /\ rpc' = "failed"
        /\ UNCHANGED <<redirs, pos, bak, orig, given>>
    BY <1>2 DEF GiveUp
  <2> HIDE DEF d
  <2> QED BY <2>1, <2>2
<1>3. CASE Cardinality(Free(fds)) = 2 /\ Free(fds') = {} /\ GiveUp(full)
  <2>1. PICK x, y : Free(fds) = {x, y}
    BY <1>3, FdFinite, TwoOf
  <2>2. fds' = full /\ Opening /\ rpc' = "failed"
        /\ UNCHANGED <<redirs, pos, bak, orig, given>>
    BY <1>3 DEF GiveUp
  <2>3. /\ DOMAIN fds' = Fd
        /\ \A n \in Fd : fds[n] # Closed => fds'[n] = fds[n]
    <3>1. \A n \in Fd : fds[n] # Closed => full[n] = fds[n]
      OBVIOUS
    <3>2. DOMAIN full = Fd
      OBVIOUS
    <3> HIDE DEF full
    <3> QED BY <2>2, <3>1, <3>2
  <2> HIDE DEF full
  <2>4. /\ x \in Fd /\ y \in Fd /\ fds[x] = Closed /\ fds[y] = Closed
        /\ \A n \in Fd : n # x /\ n # y => fds[n] # Closed
    BY <2>1 DEF Free
  <2> QED BY <1>3, <2>2, <2>3, <2>4
<1> QED BY <1>1, <1>2, <1>3 DEF GivesUp

LEMMA KeptByGivesUp ==
    ASSUME RInv, GivesUp
    PROVE  RInv'
<1>0. DOMAIN fds = Fd
  BY DEF RInv, ListTypes
<1>1. /\ Opening /\ rpc' = "failed" /\ DOMAIN fds' = Fd
      /\ UNCHANGED <<redirs, pos, bak, orig, given>>
  BY <1>0, GivesUpFacts
<1>2. PICK x, y \in Fd : /\ \A n \in Fd : n # x /\ n # y => fds'[n] = fds[n]
                         /\ \A n \in {x, y} : fds'[n] = fds[n] \/ fds[n] = Closed
                         /\ Free(fds') # {} => x = y
  BY <1>0, GivesUpFacts
<1>3. /\ rpc = "open" /\ pos \in 1..Len(redirs) /\ Done = pos - 1 /\ Kept = pos - 1
      /\ Done' = pos - 1 /\ Kept' = pos - 1
  BY <1>1 DEF RInv, ListTypes, Opening, Done, Kept, Performing
<1>4. ListTypes'
  BY <1>1, <1>3 DEF RInv, ListTypes
<1>5. Copies'
  BY <1>1, <1>3 DEF RInv, Copies
<1>6. Chain' /\ CopiesOpen'
  BY <1>1 DEF Chain, CopiesOpen
<1>7. OpenOnes'
  <2> SUFFICES ASSUME NEW n \in Fd, orig[n] # Closed
               PROVE  fds'[n] # Closed /\ LastSets(redirs, given, orig, n, fds'[n], pos - 1)
    BY <1>1, <1>3 DEF OpenOnes
  <2>1. fds[n] # Closed /\ LastSets(redirs, given, orig, n, fds[n], pos - 1)
    BY <1>3 DEF RInv, OpenOnes
  <2>2. fds'[n] = fds[n]
    BY <1>2, <2>1
  <2> QED BY <2>1, <2>2
<1>8. FreeOnes'
  <2>1. \A k \in 1..(pos - 1) : orig[bak[k]] = Closed
    BY <1>3 DEF RInv, FreeOnes
  <2>2. ASSUME NEW n \in Fd, orig[n] = Closed, fds'[n] # Closed, n \notin {x, y}
        PROVE  \E k \in 1..(pos - 1) : bak[k] = n
    <3>1. fds'[n] = fds[n]
      BY <1>2, <2>2
    <3> QED BY <1>3, <2>2, <3>1 DEF RInv, FreeOnes
  <2>3. Free(fds)' = Free(fds')
    BY DEF Free
  <2> QED BY <1>1, <1>2, <1>3, <2>1, <2>2, <2>3 DEF FreeOnes
<1> QED BY <1>4, <1>5, <1>6, <1>7, <1>8 DEF RInv

LEMMA KeptByBeginUndo ==
    ASSUME RInv, NEW restore \in BOOLEAN, BeginUndo(restore)
    PROVE  RInv'
<1>1. /\ rpc = "open" /\ pos > Len(redirs) /\ pos' = Len(redirs)
      /\ rpc' = (IF restore THEN "restore" ELSE "forget")
      /\ UNCHANGED <<fds, redirs, bak, orig, given>>
  BY DEF BeginUndo, AllInstalled
<1>2. /\ Len(redirs) \in Nat /\ pos = Len(redirs) + 1
      /\ Done = Len(redirs) /\ Kept = Len(redirs)
      /\ Done' = Len(redirs) /\ Kept' = Len(redirs)
  BY <1>1 DEF RInv, ListTypes, Done, Kept, Performing
<1>3. ListTypes'
  BY <1>1, <1>2 DEF RInv, ListTypes
<1>4. Copies'
  BY <1>1, <1>2 DEF RInv, Copies
<1>5. Chain'
  BY <1>1, <1>2 DEF RInv, Chain, Targets
<1>6. OpenOnes'
  BY <1>1, <1>2 DEF RInv, OpenOnes
<1>7. FreeOnes'
  BY <1>1, <1>2 DEF RInv, FreeOnes
<1>8. CopiesOpen'
  BY <1>1 DEF CopiesOpen
<1> QED BY <1>3, <1>4, <1>5, <1>6, <1>7, <1>8 DEF RInv

(***************************************************************************)
(* Undoing the last element that is left: one table back in the chain.     *)
(***************************************************************************)
LEMMA KeptByUndoOne ==
    ASSUME RInv, UndoOne
    PROVE  RInv'
<1> DEFINE a == redirs[pos].fd
           b == bak[pos]
<1>1. /\ rpc \in {"restore", "forget"} /\ rpc' = rpc /\ pos > 0 /\ pos' = pos - 1
      /\ fds' = [fds EXCEPT ![a] = IF rpc = "restore" THEN fds[b] ELSE fds[a],
                            ![b] = Closed]
      /\ UNCHANGED <<redirs, bak, orig, given>>
  BY DEF UndoOne, UndoOrder
<1>2. /\ Len(redirs) \in Nat /\ pos \in 1..Len(redirs) /\ DOMAIN fds = Fd
      /\ Done = Len(redirs) /\ Kept = pos /\ Done' = Len(redirs) /\ Kept' = pos - 1
  BY <1>1 DEF RInv, ListTypes, Done, Kept, Performing
<1>3. a \in Fd /\ b \in Fd /\ a # b
  BY <1>1, <1>2 DEF RInv, Copies
<1>4. /\ DOMAIN fds' = Fd /\ fds'[b] = Closed
      /\ fds'[a] = IF rpc = "restore" THEN fds[b] ELSE fds[a]
      /\ \A n \in Fd : n # a /\ n # b => fds'[n] = fds[n]
  BY <1>1, <1>2, <1>3
<1> HIDE DEF b
<1>5. ListTypes'
  BY <1>1, <1>2, <1>4 DEF RInv, ListTypes
<1>6. Copies'
  BY <1>1, <1>2 DEF RInv, Copies
<1>7. Chain'
  <2> SUFFICES ASSUME rpc = "restore"
               PROVE  Chain'
    BY <1>1 DEF Chain
  <2>1. PICK T : /\ T[1] = orig
                 /\ \A k \in 1..pos : Undoable(T[k], T[k + 1], redirs[k].fd, bak[k])
                 /\ Agree(fds, T[pos + 1], Targets(Len(redirs)))
    BY <1>2 DEF RInv, Chain
  <2>2. Undoable(T[pos], T[pos + 1], a, b)
    BY <1>2, <2>1 DEF b
  <2>3. a \in Targets(Len(redirs))
    BY <1>2 DEF Targets
  <2>4. Agree(fds', T[pos], Targets(Len(redirs)))
    <3> SUFFICES ASSUME NEW n \in Fd
                 PROVE  \/ fds'[n] = T[pos][n]
                        \/ T[pos][n] = Closed /\ n \in Targets(Len(redirs))
      BY DEF Agree
    <3>1. CASE n = a
      BY <1>3, <1>4, <2>1, <2>2, <2>3, <3>1 DEF Undoable, Agree
    <3>2. CASE n = b
      BY <1>4, <2>2, <3>2 DEF Undoable
    <3>3. CASE n # a /\ n # b
      BY <1>4, <2>1, <2>2, <3>3 DEF Undoable, Agree
    <3> QED BY <3>1, <3>2, <3>3
  <2>5. /\ rpc' = "restore" /\ (pos - 1) + 1 = pos /\ Targets(Len(redirs))' = Targets(Len(redirs))
        /\ \A k \in 1..(pos - 1) : k \in 1..pos
    BY <1>1, <1>2 DEF Targets
  <2>6. \A k \in 1..(pos - 1) : Undoable(T[k], T[k + 1], redirs'[k].fd, bak'[k])
    BY <1>1, <2>1, <2>5
  <2> QED BY <1>1, <1>2, <2>1, <2>4, <2>5, <2>6 DEF Chain
<1>8. ASSUME rpc = "forget"
      PROVE  OpenOnes' /\ FreeOnes'
  <2>1. \A k \in 1..Len(redirs) : orig[bak[k]] = Closed
    BY <1>2, <1>8 DEF RInv, FreeOnes
  <2>2. fds'[a] = fds[a] /\ orig[b] = Closed
    BY <1>2, <1>4, <1>8, <2>1 DEF b
  <2>3. \A n \in Fd : n # b => fds'[n] = fds[n]
    BY <1>4, <2>2
  <2>4. OpenOnes'
    <3> SUFFICES ASSUME NEW n \in Fd, orig[n] # Closed
                 PROVE  /\ fds'[n] # Closed
                        /\ LastSets(redirs, given, orig, n, fds'[n], Len(redirs))
      BY <1>1, <1>2 DEF OpenOnes
    <3>1. fds[n] # Closed /\ LastSets(redirs, given, orig, n, fds[n], Len(redirs))
      BY <1>2, <1>8 DEF RInv, OpenOnes
    <3>2. fds'[n] = fds[n]
      BY <2>2, <2>3
    <3> QED BY <3>1, <3>2
  <2>5. ASSUME NEW n \in Fd, orig[n] = Closed, fds'[n] # Closed
        PROVE  \E k \in 1..(pos - 1) : bak[k] = n
    <3>1. n # b /\ fds[n] # Closed
      BY <1>4, <2>3, <2>5
    <3>2. PICK k \in 1..pos : bak[k] = n
      BY <1>2, <1>8, <2>5, <3>1 DEF RInv, FreeOnes
    <3>3. k # pos
      BY <3>1, <3>2 DEF b
    <3> QED BY <1>2, <3>2, <3>3
  <2>6. 0 \in Fd
    BY MaxFdAssumption DEF Fd
  <2>7. FreeOnes'
    BY <1>1, <1>2, <2>1, <2>5, <2>6 DEF FreeOnes
  <2> QED BY <2>4, <2>7
<1>9. ASSUME rpc = "restore"
      PROVE  OpenOnes' /\ FreeOnes'
  BY <1>1, <1>9 DEF OpenOnes, FreeOnes
<1>10. CopiesOpen'
  BY <1>1 DEF CopiesOpen
<1> QED BY <1>1, <1>5, <1>6, <1>7, <1>8, <1>9, <1>10 DEF RInv

LEMMA KeptByUndoDone ==
    ASSUME RInv, UndoDone
    PROVE  RInv'
<1>1. /\ rpc \in {"restore", "forget"} /\ pos = 0
      /\ rpc' = (IF rpc = "restore" THEN "restored" ELSE "forgotten")
      /\ UNCHANGED <<fds, redirs, pos, bak, orig, given>>
  BY DEF UndoDone
<1>2. Done' = Done /\ Kept' = Kept
  BY <1>1 DEF Done, Kept, Performing
<1>3. ListTypes'
  BY <1>1, <1>2 DEF RInv, ListTypes
<1>4. Copies'
  BY <1>1, <1>2 DEF RInv, Copies
<1>5. Chain'
  BY <1>1, <1>2 DEF RInv, Chain, Targets
<1>6. OpenOnes'
  BY <1>1, <1>2 DEF RInv, OpenOnes
<1>7. FreeOnes'
  BY <1>1, <1>2 DEF RInv, FreeOnes
<1>8. CopiesOpen'
  BY <1>1 DEF CopiesOpen
<1> QED BY <1>3, <1>4, <1>5, <1>6, <1>7, <1>8 DEF RInv

LEMMA KeptByEnds ==
    ASSUME RInv, Ends
    PROVE  RInv'
<1>1. /\ rpc' = "idle" /\ DOMAIN fds' = Fd
      /\ UNCHANGED <<redirs, pos, bak, orig, given>>
  BY DEF Ends
<1> QED BY <1>1 DEF RInv, ListTypes, Copies, Chain, OpenOnes, FreeOnes, CopiesOpen

LEMMA KeptByStutter ==
    ASSUME RInv, UNCHANGED redirVars
    PROVE  RInv'
<1>1. UNCHANGED <<fds, redirs, pos, bak, rpc, orig, given>>
  BY DEF redirVars
<1>2. Done' = Done /\ Kept' = Kept
  BY <1>1 DEF Done, Kept, Performing
<1>3. ListTypes'
  BY <1>1, <1>2 DEF RInv, ListTypes
<1>4. Copies'
  BY <1>1, <1>2 DEF RInv, Copies
<1>5. Chain'
  BY <1>1, <1>2 DEF RInv, Chain, Targets
<1>6. OpenOnes' /\ FreeOnes'
  BY <1>1, <1>2 DEF RInv, OpenOnes, FreeOnes
<1>7. CopiesOpen'
  BY <1>1, <1>2 DEF RInv, CopiesOpen
<1> QED BY <1>3, <1>4, <1>5, <1>6, <1>7 DEF RInv

(***************************************************************************)
(* The invariant holds in every process that performs redirections.        *)
(***************************************************************************)
LEMMA RInvKept == RInv /\ [RedirectNext]_redirVars => RInv'
<1> SUFFICES ASSUME RInv, [RedirectNext]_redirVars
             PROVE  RInv'
  OBVIOUS
<1>1. CASE Begins
  BY <1>1, KeptByBegins
<1>2. CASE Installs
  BY <1>2, KeptByInstalls
<1>3. CASE GivesUp
  BY <1>3, KeptByGivesUp
<1>4. ASSUME NEW restore \in BOOLEAN, BeginUndo(restore)
      PROVE  RInv'
  BY <1>4, KeptByBeginUndo
<1>5. CASE BeginUndo(TRUE) \/ BeginUndo(FALSE)
  BY <1>4, <1>5
<1>6. CASE UndoOne
  BY <1>6, KeptByUndoOne
<1>7. CASE UndoDone
  BY <1>7, KeptByUndoDone
<1>8. CASE Ends
  BY <1>8, KeptByEnds
<1>9. CASE UNCHANGED redirVars
  BY <1>9, KeptByStutter
<1> QED BY <1>1, <1>2, <1>3, <1>5, <1>6, <1>7, <1>8, <1>9 DEF RedirectNext

LEMMA RedirectInvariant == RedirectSpec => []RInv
BY RInvKept, RInvInit, PTL DEF RedirectSpec

----------------------------------------------------------------------------
(***************************************************************************)
(* After reset_redir(list, 1) in the shell every descriptor refers to what *)
(* it referred to before the list, and a new one is only left behind under *)
(* a number that a redirection named (redirect, reset_redir).              *)
(***************************************************************************)
THEOREM TableRestoredCorrect == RedirectSpec => []TableRestored
<1>1. RInv => TableRestored
  <2> SUFFICES ASSUME RInv, rpc = "restored", NEW n \in Fd
               PROVE  \/ fds[n] = orig[n]
                      \/ orig[n] = Closed /\ n \in Targets(Len(redirs))
    BY DEF TableRestored
  <2>1. Kept = 0
    BY DEF RInv, ListTypes, Kept, Performing
  <2>2. PICK T : T[1] = orig /\ Agree(fds, T[0 + 1], Targets(Len(redirs)))
    BY <2>1 DEF RInv, Chain
  <2> QED BY <2>2 DEF Agree
<1> QED BY <1>1, RedirectInvariant, PTL

(***************************************************************************)
(* A list that fails half way leaves the descriptors alone that it has not *)
(* got to, and no more than one open for each element it got to, although  *)
(* reset_redir is then called for the rest of the list only; it is one     *)
(* more at most if that takes the last free descriptor.                    *)
(***************************************************************************)
THEOREM FailureDamageCorrect == RedirectSpec => []FailureDamage
<1>1. RInv => FailureDamage
  <2> SUFFICES ASSUME RInv, rpc = "failed"
               PROVE  /\ \A n \in Fd : orig[n] # Closed /\ n \notin Targets(pos - 1)
                                          => fds[n] = orig[n]
                      /\ Cardinality(Free(orig) \ Free(fds)) <=
                             IF Free(fds) = {} THEN pos + 1 ELSE pos
    BY DEF FailureDamage
  <2>1. Done = pos - 1 /\ Kept = pos - 1 /\ pos \in Nat \ {0}
    BY DEF RInv, ListTypes, Done, Kept, Performing
  <2>2. ASSUME NEW n \in Fd, orig[n] # Closed, n \notin Targets(pos - 1)
        PROVE  fds[n] = orig[n]
    <3>1. LastSets(redirs, given, orig, n, fds[n], pos - 1)
      BY <2>1, <2>2 DEF RInv, OpenOnes
    <3>2. \A k \in 1..(pos - 1) : redirs[k].fd # n
      BY <2>2 DEF Targets
    <3> QED BY <3>1, <3>2 DEF LastSets
  <2> DEFINE Copied == {bak[k] : k \in 1..(pos - 1)}
  <2>3. PICK x, y \in Fd : /\ Free(orig) \ Free(fds) \subseteq (Copied \cup {x}) \cup {y}
                           /\ Free(fds) # {} => x = y
    <3>1. PICK x, y \in Fd :
            /\ \A n \in Fd : orig[n] = Closed /\ fds[n] # Closed =>
                                (n \in {x, y} \/ \E k \in 1..(pos - 1) : bak[k] = n)
            /\ Free(fds) # {} => x = y
      BY <2>1 DEF RInv, FreeOnes
    <3>2. \A n \in Free(orig) \ Free(fds) : n \in Fd /\ orig[n] = Closed /\ fds[n] # Closed
      BY DEF Free
    <3>3. \A n \in Free(orig) \ Free(fds) : n \in (Copied \cup {x}) \cup {y}
      BY <3>1, <3>2
    <3> QED BY <3>1, <3>3
  <2>4. IsFiniteSet(Copied) /\ Cardinality(Copied) <= pos - 1
    <3> DEFINE f == [k \in 1..(pos - 1) |-> bak[k]]
    <3>1. f \in Surjection(1..(pos - 1), Copied)
      BY DEF Surjection
    <3>2. IsFiniteSet(1..(pos - 1)) /\ Cardinality(1..(pos - 1)) = pos - 1
      BY <2>1, FS_Interval
    <3> HIDE DEF f, Copied
    <3> QED BY <3>1, <3>2, FS_Surjection
  <2> HIDE DEF Copied
  <2>5. IsFiniteSet(Copied \cup {x}) /\ Cardinality(Copied \cup {x}) <= pos
    <3>1. Cardinality(Copied) \in Nat
      BY <2>4, FS_CardinalityType
    <3>2. /\ IsFiniteSet(Copied \cup {x})
          /\ Cardinality(Copied \cup {x}) = IF x \in Copied THEN Cardinality(Copied)
                                            ELSE Cardinality(Copied) + 1
      BY <2>4, FS_AddElement
    <3> QED BY <2>1, <2>4, <3>1, <3>2
  <2> DEFINE More == (Copied \cup {x}) \cup {y}
  <2>6. /\ IsFiniteSet(More) /\ Cardinality(More) \in Nat
        /\ Cardinality(More) <= IF Free(fds) = {} THEN pos + 1 ELSE pos
    <3>1. /\ IsFiniteSet(More)
          /\ Cardinality(More) = IF y \in Copied \cup {x} THEN Cardinality(Copied \cup {x})
                                 ELSE Cardinality(Copied \cup {x}) + 1
      BY <2>5, FS_AddElement
    <3>2. Cardinality(More) \in Nat /\ Cardinality(Copied \cup {x}) \in Nat
      BY <2>5, <3>1, FS_CardinalityType
    <3>3. Free(fds) # {} => y \in Copied \cup {x}
      BY <2>3
    <3> QED BY <2>1, <2>5, <3>1, <3>2, <3>3
  <2>7. /\ Cardinality(Free(orig) \ Free(fds)) \in Nat
        /\ Cardinality(Free(orig) \ Free(fds)) <= Cardinality(More)
    <3>1. /\ IsFiniteSet(Free(orig) \ Free(fds))
          /\ Cardinality(Free(orig) \ Free(fds)) <= Cardinality(More)
      BY <2>3, <2>6, FS_Subset
    <3> QED BY <3>1, FS_CardinalityType
  <2> HIDE DEF More
  <2>8. Cardinality(Free(orig) \ Free(fds)) <= IF Free(fds) = {} THEN pos + 1 ELSE pos
    BY <2>1, <2>6, <2>7
  <2> QED BY <2>2, <2>8
<1> QED BY <1>1, RedirectInvariant, PTL

----------------------------------------------------------------------------
(* The shell. *)

(***************************************************************************)
(* There is a line in hand until it ends, and a command from the moment it *)
(* is begun; no list of redirections is under way between commands.        *)
(***************************************************************************)
IsStack(st) == \E S : st \in Seq(S) /\ \A s \in S : DOMAIN s.fds = Fd

Lists == lines \in Seq(CommandLine) /\ cmds \in Seq(Command) /\ IsStack(stack)

Control ==
    /\ spc \in {"prompt", "next", "outer", "expand", "redir", "undo", "end"}
    /\ spc # "end" => lines # <<>>
    /\ spc \in {"outer", "expand", "redir", "undo"} => cmds # <<>>
    /\ spc \in {"prompt", "next"} \/ (spc = "end" /\ lines # <<>>) => rpc = "idle"
    /\ spc = "expand" => rpc = "idle" \/ AllInstalled

ControlInv == Lists /\ Control

LEMMA EmptyStack == IsStack(<<>>)
<1> DEFINE none == {}
<1>1. <<>> \in Seq(none) /\ \A s \in none : DOMAIN s.fds = Fd
  BY EmptySeq
<1> HIDE DEF none
<1> QED BY <1>1 DEF IsStack

LEMMA ControlInit == ShellInit => ControlInv /\ RedirectInit
<1> SUFFICES ASSUME ShellInit PROVE ControlInv /\ RedirectInit
  OBVIOUS
<1>1. PICK start \in Starts :
        /\ lines = start.lines /\ cmds = <<>> /\ stack = <<>> /\ spc = "end" /\ rpc = "idle"
        /\ fds = start.fds /\ orig = fds /\ redirs = <<>> /\ pos = 1 /\ bak = <<>> /\ given = <<>>
  BY DEF ShellInit
<1>2. start.lines \in Seq(CommandLine) /\ DOMAIN start.fds = Fd
  BY StartsAssumption
<1>3. <<>> \in Seq(Command)
  BY EmptySeq
<1>4. Lists
  <2>1. IsStack(stack)
    BY <1>1, EmptyStack
  <2> QED BY <1>1, <1>2, <1>3, <2>1 DEF Lists
<1>5. Control
  BY <1>1 DEF Control
<1> QED BY <1>1, <1>2, <1>4, <1>5 DEF ControlInv, RedirectInit

(***************************************************************************)
(* What is read of lines and commands.                                     *)
(***************************************************************************)
LEMMA FirstOf ==
    ASSUME NEW S, NEW s \in Seq(S), s # <<>>
    PROVE  s[1] \in S /\ Tail(s) \in Seq(S) /\ Len(Tail(s)) = Len(s) - 1
<1>1. Len(s) \in Nat /\ DOMAIN s = 1..Len(s) /\ Len(s) # 0
  BY LenProperties, EmptySeq
<1>2. s[1] \in S
  BY <1>1, ElementOfSeq
<1> QED BY <1>2, HeadTailProperties

LEMMA TypesInHand ==
    ASSUME Lists
    PROVE  /\ lines # <<>> => lines[1] \in CommandLine /\ Tail(lines) \in Seq(CommandLine)
           /\ cmds # <<>> => Cmd \in Command /\ Tail(cmds) \in Seq(Command)
BY FirstOf DEF Lists, Cmd

(***************************************************************************)
(* Steps between the commands.                                             *)
(***************************************************************************)
LEMMA BetweenCommands ==
    ASSUME Lists, Control,
           \/ BeginLine \/ (\E n \in 0..Len(stdin) : ReadDoc(n)) \/ PromptFails \/ PromptDone
           \/ LineDone \/ Skip \/ StartSimple \/ SubForkFails \/ SubGoesOn
           \/ LeaveShell \/ InterruptShell \/ ProgramEnds
    PROVE  Lists' /\ Control' /\ UNCHANGED redirVars
<1>1. CASE BeginLine
  <2>1. /\ lines # <<>> /\ cmds' = lines[1].cmds /\ spc = "end" /\ spc' = "prompt"
        /\ UNCHANGED <<lines, stack, redirVars>>
    BY <1>1 DEF BeginLine
  <2>2. cmds' \in Seq(Command)
    BY <2>1, TypesInHand DEF CommandLine
  <2> QED BY <2>1, <2>2 DEF Lists, Control, redirVars
<1>2. ASSUME NEW n \in 0..Len(stdin), ReadDoc(n)
      PROVE  Lists' /\ Control' /\ UNCHANGED redirVars
  <2>1. spc' = spc /\ UNCHANGED <<lines, cmds, stack, redirVars>>
    BY <1>2, Zenon DEF ReadDoc
  <2> QED BY <2>1 DEF Lists, Control, redirVars, AllInstalled
<1>3. CASE PromptFails \/ LineDone
  <2>1. /\ spc \in {"prompt", "next"} /\ spc' = "end" /\ lines' = Tail(lines)
        /\ UNCHANGED <<cmds, stack, redirVars>>
    BY <1>3 DEF PromptFails, LineDone, EndLine
  <2>2. lines' \in Seq(CommandLine)
    BY <2>1, TypesInHand DEF Control
  <2> QED BY <2>1, <2>2 DEF Lists, Control, redirVars
<1>4. CASE PromptDone
  BY <1>4 DEF PromptDone, lineVars, Lists, Control, redirVars
<1>5. CASE Skip \/ SubForkFails
  <2>1. /\ cmds # <<>> /\ cmds' = Tail(cmds) /\ spc = "next" /\ spc' = "next"
        /\ stack' \in {stack, <<>>} /\ UNCHANGED <<lines, redirVars>>
    BY <1>5 DEF Skip, SubForkFails, EndCommand, lineVars
  <2>2. cmds' \in Seq(Command)
    BY <2>1, TypesInHand
  <2>3. IsStack(stack')
    BY <2>1, EmptyStack DEF Lists
  <2> QED BY <2>1, <2>2, <2>3 DEF Lists, Control, redirVars
<1>6. CASE StartSimple \/ SubGoesOn
  BY <1>6 DEF StartSimple, SubGoesOn, lineVars, Lists, Control, redirVars, AllInstalled
<1>7. CASE LeaveShell
  <2>1. /\ lines' = <<>> /\ spc' = "end" /\ UNCHANGED <<cmds, stack, redirVars>>
    BY <1>7 DEF LeaveShell
  <2> QED BY <2>1, EmptySeq DEF Lists, Control, redirVars
<1>8. CASE InterruptShell \/ ProgramEnds
  BY <1>8 DEF InterruptShell, ProgramEnds, vars, shellVars, Lists, Control, redirVars, AllInstalled
<1> QED BY <1>1, <1>2, <1>3, <1>4, <1>5, <1>6, <1>7, <1>8

(***************************************************************************)
(* Steps that begin a list of redirections.                                *)
(***************************************************************************)
LEMMA BeginsAList ==
    ASSUME Lists, Control, StartSub \/ ExpandArgs, DOMAIN fds = Fd
    PROVE  Lists' /\ Control' /\ Begins
<1>1. /\ cmds # <<>> /\ lines # <<>> /\ UNCHANGED <<lines, cmds>>
      /\ stack' = stack \/ stack' = <<[fds |-> fds, ctx |-> ctx, given |-> given]>> \o stack
      /\ rpc = "idle" \/ AllInstalled
      /\ spc' \in {"outer", "redir"}
      /\ BeginRedirect(Cmd.outer) \/ BeginRedirect(Cmd.redirs)
  BY Zenon DEF StartSub, ExpandArgs, Push, lineVars, Control
<1>2. Cmd \in Command
  BY <1>1, TypesInHand
<1>3. IsList(redirs') /\ BeginRedirect(redirs')
  <2>1. ASSUME NEW list \in Seq(Redirection)
        PROVE  IsList(list)
    <3>1. Len(list) \in Nat /\ DOMAIN list = 1..Len(list)
      BY LenProperties
    <3> QED BY <3>1 DEF IsList
  <2>2. Cmd.outer \in Seq(Redirection) /\ Cmd.redirs \in Seq(Redirection)
    BY <1>2 DEF Command
  <2>3. redirs' \in {Cmd.outer, Cmd.redirs} /\ BeginRedirect(redirs')
    BY <1>1 DEF BeginRedirect
  <2> QED BY <2>1, <2>2, <2>3
<1>4. IsStack(stack')
  <2>1. PICK S : stack \in Seq(S) /\ \A s \in S : DOMAIN s.fds = Fd
    BY DEF Lists, IsStack
  <2> DEFINE r == [fds |-> fds, ctx |-> ctx, given |-> given]
             T == S \cup {r}
  <2>2. stack \in Seq(T) /\ <<r>> \in Seq(T)
    BY <2>1, SeqMonotonic
  <2>3. \A s \in T : DOMAIN s.fds = Fd
    BY <2>1
  <2> HIDE DEF T
  <2>4. <<r>> \o stack \in Seq(T)
    BY <2>2, ConcatProperties
  <2>5. IsStack(<<r>> \o stack)
    BY <2>3, <2>4 DEF IsStack
  <2>6. IsStack(stack)
    BY DEF Lists
  <2> QED BY <1>1, <2>5, <2>6
<1> QED BY <1>1, <1>3, <1>4 DEF Lists, Control, Begins

(***************************************************************************)
(* Steps at the end of a command: the table is that of the process that    *)
(* goes on.                                                                *)
(***************************************************************************)
LEMMA EndsACommand ==
    ASSUME Lists, Control, ListTypes,
           \/ ExpandFails \/ ToolForkFails \/ RedirectFailed \/ LeaveSubshell
           \/ BuiltinEnds \/ ToolEnds \/ Interrupt
    PROVE  Lists' /\ Control' /\ Ends
<1>1. /\ \E s : EndsWith(s, fds)
      /\ spc \in {"expand", "outer", "redir", "undo"}
      /\ ~Opening /\ rpc \notin {"restore", "forget"}
      /\ UNCHANGED lines
  <2>1. CASE ToolForkFails
    BY <2>1 DEF ToolForkFails, lineVars, Control, Opening, AllInstalled, ListTypes
  <2>2. CASE RedirectFailed
    BY <2>2 DEF RedirectFailed, lineVars, Opening
  <2>3. CASE LeaveSubshell
    BY <2>3 DEF LeaveSubshell, lineVars, Opening, AllInstalled, ListTypes
  <2>4. CASE BuiltinEnds
    BY <2>4 DEF BuiltinEnds, lineVars, Opening
  <2>5. CASE ToolEnds
    BY <2>5 DEF ToolEnds, lineVars, Opening
  <2>6. CASE Interrupt
    BY <2>6 DEF Interrupt, lineVars, Opening
  <2>7. CASE ExpandFails
    BY <2>7 DEF ExpandFails, lineVars, Control, Opening, AllInstalled, ListTypes
  <2> QED BY <2>1, <2>2, <2>3, <2>4, <2>5, <2>6, <2>7
<1>2. /\ spc' = "next" /\ cmds' = Tail(cmds) /\ stack' = <<>> /\ rpc' = "idle"
      /\ fds' = IF stack = <<>> THEN fds ELSE Last(stack).fds
      /\ UNCHANGED <<redirs, pos, bak, orig, given>>
  BY <1>1 DEF EndsWith, EndCommand
<1>3. DOMAIN fds' = Fd
  <2>1. PICK S : stack \in Seq(S) /\ \A s \in S : DOMAIN s.fds = Fd
    BY DEF Lists, IsStack
  <2>2. ASSUME stack # <<>> PROVE Last(stack) \in S
    <3>1. Len(stack) \in Nat /\ Len(stack) # 0
      BY <2>1, <2>2, LenProperties, EmptySeq
    <3>2. stack[Len(stack)] \in S
      BY <2>1, <3>1, ElementOfSeq
    <3> QED BY <3>2 DEF Last
  <2> QED BY <1>2, <2>1, <2>2 DEF ListTypes
<1>4. Ends
  BY <1>1, <1>2, <1>3 DEF Ends
<1>5. cmds' \in Seq(Command) /\ lines # <<>>
  BY <1>1, <1>2, TypesInHand DEF Control
<1>6. IsStack(stack')
  BY <1>2, EmptyStack
<1>7. Lists'
  BY <1>1, <1>5, <1>6 DEF Lists
<1>8. Control'
  BY <1>1, <1>2, <1>5 DEF Control
<1> QED BY <1>4, <1>7, <1>8

(***************************************************************************)
(* What open_file returns is never the entry of a free descriptor.         *)
(***************************************************************************)
LEMMA DescriptionIsOpen ==
    ASSUME redirs \in Seq(Redirection), pos \in 1..Len(redirs)
    PROVE  Description # Closed /\ HereOpen # Closed
<1>1. Element \in Redirection
  BY ElementOfSeq DEF Element
<1>2. Description.type \in {"in", "out", "app", "here"}
  BY <1>1 DEF Description, Redirection
<1>3. Closed.type = "closed"
  BY DEF Closed
<1>4. HereOpen.type = "here"
  BY DEF HereOpen
<1> QED BY <1>2, <1>3, <1>4

(***************************************************************************)
(* The table after a file that stays open.                                 *)
(***************************************************************************)
LEMMA StaysOpen ==
    ASSUME DOMAIN fds = Fd, Free(fds) # {}, NEW d, d # Closed, GiveUp(Opened(fds, d))
    PROVE  GivesUp
<1>1. fds' = Opened(fds, d)
  BY DEF GiveUp
<1>2. fds'[Lowest(Free(fds))] = d
  BY <1>1, OpenedFacts
<1> QED BY <1>2 DEF GivesUp

(***************************************************************************)
(* The table after a second file has taken the last free descriptor.       *)
(***************************************************************************)
LEMMA BothStay ==
    ASSUME DOMAIN fds = Fd, Cardinality(Free(fds)) = 2, NEW d, d # Closed,
           GiveUp(Opened(Opened(fds, d), d))
    PROVE  GivesUp
<1> DEFINE one == Opened(fds, d)
           two == Opened(one, d)
<1>1. IsFiniteSet(Free(fds)) /\ Free(fds) # {}
  BY FdFinite, FS_EmptySet
<1>2. PICK x \in Fd : /\ fds[x] = Closed /\ DOMAIN one = Fd /\ one[x] = d
                      /\ \A n \in Fd : n # x => one[n] = fds[n]
  BY <1>1, OpenedFacts
<1> HIDE DEF one
<1>3. Free(one) = Free(fds) \ {x} /\ x \in Free(fds)
  BY <1>2 DEF Free
<1>4. Cardinality(Free(one)) = 1
  BY <1>1, <1>3, FS_RemoveElement
<1>5. PICK z : Free(one) = {z}
  BY <1>4, FdFinite, FS_Singleton
<1>6. PICK y \in Fd : /\ one[y] = Closed /\ DOMAIN two = Fd /\ two[y] = d
                      /\ \A n \in Fd : n # y => two[n] = one[n]
  <2>1. Free(one) # {}
    BY <1>5
  <2> QED BY <1>2, <2>1, OpenedFacts
<1>7. y \in Free(one)
  BY <1>6 DEF Free
<1>8. GiveUp(two)
  BY DEF one
<1> HIDE DEF two
<1>9. /\ \A n \in Fd : two[n] # Closed
      /\ \A n \in Fd : fds[n] # Closed => two[n] = fds[n]
  <2>1. ASSUME NEW n \in Fd, one[n] = Closed PROVE n = y
    BY <1>5, <1>7, <2>1 DEF Free
  <2> QED BY <1>2, <1>6, <2>1
<1>10. fds' = two
  BY <1>8 DEF GiveUp
<1>11. Free(fds') = {}
  BY <1>9, <1>10 DEF Free
<1>12. two = [n \in Fd |-> IF fds[n] = Closed THEN fds'[n] ELSE fds[n]]
  <2>1. two = [n \in Fd |-> two[n]]
    BY <1>6, <1>8, <1>10 DEF GiveUp, Opened, two
  <2>2. \A n \in Fd : two[n] = IF fds[n] = Closed THEN fds'[n] ELSE fds[n]
    BY <1>9, <1>10
  <2> QED BY <2>1, <2>2
<1> QED BY <1>8, <1>11, <1>12 DEF GivesUp

LEMMA PerformsRedirections ==
    ASSUME Lists, Control, ListTypes, redirs \in Seq(Redirection),
           OpenFile \/ CopyFails \/ OpenRefused
    PROVE  Lists' /\ Control' /\ (Installs \/ GivesUp)
<1>1. /\ Opening /\ spc \in {"outer", "redir"} /\ UNCHANGED <<lines, cmds, stack, spc, redirs>>
  BY Zenon DEF OpenFile, CopyFails, OpenRefused, Performs, lineVars, shellVars, GiveUp, OpenFails,
         Install, DupFails
<1>2. pos \in 1..Len(redirs) /\ DOMAIN fds = Fd /\ Len(given) = pos - 1
  BY <1>1 DEF Opening, ListTypes, Done, Performing
<1>3. Description # Closed /\ HereOpen # Closed
  BY <1>2, DescriptionIsOpen
<1>4. Lists' /\ Control'
  BY <1>1 DEF Lists, Control
<1>5. ASSUME NEW d, d # Closed, Install(d)
      PROVE  Installs
  <2>1. PICK S : given \in Seq(S)
    BY DEF ListTypes
  <2>2. /\ Len(Append(given, d)) = Len(given) + 1
        /\ Append(given, d)[Len(given) + 1] = d
    BY <2>1, AppendAny
  <2>3. given' = Append(given, d)
    BY <1>5 DEF Install
  <2>4. Len(given) + 1 = pos
    BY <1>2
  <2>5. Len(given') = pos /\ given'[pos] = d
    BY <2>2, <2>3, <2>4
  <2> QED BY <1>1, <1>5, <2>5 DEF Installs
<1>6. ASSUME NEW d, d # Closed, DupFails(d)
      PROVE  GivesUp
  BY <1>2, <1>6, StaysOpen DEF DupFails
<1>7. CASE OpenFile
  BY <1>3, <1>4, <1>5, <1>6, <1>7 DEF OpenFile
<1>8. CASE CopyFails
  <2>1. CASE HalfCopied /\ GiveUp(Opened(fds, HereOpen))
    <3>1. Cardinality(Free(fds)) = 1
      BY <2>1 DEF HalfCopied
    <3>2. Free(fds) # {}
      BY <3>1, FS_EmptySet
    <3> QED BY <1>2, <1>3, <1>4, <2>1, <3>2, StaysOpen
  <2>2. CASE LineLost /\ GiveUp(Opened(Opened(fds, HereOpen), HereOpen))
    <3>1. Cardinality(Free(fds)) = 2
      BY <2>2 DEF LineLost
    <3> QED BY <1>2, <1>3, <1>4, <2>2, <3>1, BothStay
  <2> QED BY <1>8, <2>1, <2>2 DEF CopyFails
<1>9. CASE OpenRefused
  BY <1>4, <1>9 DEF OpenRefused, GivesUp
<1> QED BY <1>7, <1>8, <1>9

(***************************************************************************)
(* Steps that undo a list.                                                 *)
(***************************************************************************)
LEMMA UndoesRedirections ==
    ASSUME Lists, Control, RunBuiltin \/ RunTool \/ Undo
    PROVE  /\ Lists' /\ Control'
           /\ BeginUndo(TRUE) \/ BeginUndo(FALSE) \/ UndoOne \/ UndoDone
<1>1. CASE RunBuiltin \/ RunTool
  <2>1. /\ spc = "redir" /\ spc' = "undo" /\ UNCHANGED <<lines, cmds, stack>>
        /\ BeginUndo(TRUE) \/ BeginUndo(FALSE)
    BY <1>1 DEF RunBuiltin, RunTool, lineVars
  <2> QED BY <2>1 DEF Lists, Control
<1>2. CASE Undo
  <2>1. spc = "undo" /\ UNCHANGED <<lines, cmds, stack, spc>> /\ (UndoOne \/ UndoDone)
    BY <1>2 DEF Undo, shellVars
  <2> QED BY <2>1 DEF Lists, Control
<1> QED BY <1>1, <1>2

(***************************************************************************)
(* What the shell does to descriptors is what RedirectSpec allows: each    *)
(* step is a step of a list of redirections, the end of a command, or does *)
(* not touch them.                                                         *)
(***************************************************************************)
ShellInv == ControlInv /\ RInv /\ redirs \in Seq(Redirection)

LEMMA ShellStep ==
    ShellInv /\ [ShellNext]_vars => ShellInv' /\ [RedirectNext]_redirVars
<1> SUFFICES ASSUME Lists, Control, RInv, redirs \in Seq(Redirection), [ShellNext]_vars
             PROVE  ShellInv' /\ [RedirectNext]_redirVars
  BY DEF ShellInv, ControlInv
<1>1. ListTypes /\ DOMAIN fds = Fd
  BY DEF RInv, ListTypes
<1>2. CASE \/ BeginLine \/ (\E n \in 0..Len(stdin) : ReadDoc(n)) \/ PromptFails \/ PromptDone
           \/ LineDone \/ Skip \/ StartSimple \/ SubForkFails \/ SubGoesOn
           \/ LeaveShell \/ InterruptShell \/ ProgramEnds
  <2>1. Lists' /\ Control' /\ UNCHANGED redirVars
    BY <1>2, BetweenCommands
  <2>2. UNCHANGED redirs
    BY <2>1 DEF redirVars
  <2> QED BY <2>1, <2>2, KeptByStutter DEF ShellInv, ControlInv
<1>3. CASE StartSub \/ ExpandArgs
  <2>1. Lists' /\ Control' /\ Begins
    BY <1>1, <1>3, BeginsAList
  <2>2. redirs' \in Seq(Redirection)
    <3>1. redirs' \in {Cmd.outer, Cmd.redirs} /\ cmds # <<>>
      BY <1>3, Zenon DEF StartSub, ExpandArgs, BeginRedirect, Control
    <3>2. Cmd \in Command
      BY <3>1, TypesInHand
    <3> QED BY <3>1, <3>2 DEF Command
  <2> QED BY <2>1, <2>2, KeptByBegins DEF ShellInv, ControlInv, RedirectNext
<1>4. CASE \/ ExpandFails \/ ToolForkFails \/ RedirectFailed \/ LeaveSubshell
           \/ BuiltinEnds \/ ToolEnds \/ Interrupt
  <2>1. Lists' /\ Control' /\ Ends
    BY <1>1, <1>4, EndsACommand
  <2>2. UNCHANGED redirs
    BY <2>1 DEF Ends
  <2> QED BY <2>1, <2>2, KeptByEnds DEF ShellInv, ControlInv, RedirectNext
<1>5. CASE OpenFile \/ CopyFails \/ OpenRefused
  <2>1. Lists' /\ Control' /\ (Installs \/ GivesUp)
    BY <1>1, <1>5, PerformsRedirections
  <2>2. UNCHANGED redirs
    BY <2>1 DEF Installs, Install, GivesUp, OpenFails, GiveUp
  <2> QED BY <2>1, <2>2, KeptByInstalls, KeptByGivesUp DEF ShellInv, ControlInv, RedirectNext
<1>6. CASE RunBuiltin \/ RunTool \/ Undo
  <2>1. Lists' /\ Control' /\ (BeginUndo(TRUE) \/ BeginUndo(FALSE) \/ UndoOne \/ UndoDone)
    BY <1>6, UndoesRedirections
  <2>2. UNCHANGED redirs
    BY <2>1 DEF BeginUndo, UndoOne, UndoDone
  <2>3. RedirectNext
    BY <2>1 DEF RedirectNext
  <2> QED BY <2>1, <2>2, <2>3, RInvKept DEF ShellInv, ControlInv
<1>7. CASE UNCHANGED vars
  <2>1. UNCHANGED redirVars /\ UNCHANGED <<lines, cmds, stack, spc, redirs, pos, rpc>>
    BY <1>7 DEF vars, shellVars, redirVars
  <2>2. Lists' /\ Control'
    BY <2>1 DEF Lists, Control, AllInstalled
  <2> QED BY <2>1, <2>2, KeptByStutter DEF ShellInv, ControlInv
<1> QED BY <1>2, <1>3, <1>4, <1>5, <1>6, <1>7, Zenon DEF ShellNext

LEMMA ShellInvariant == ShellSpec => []ShellInv
<1>1. ShellInit => ShellInv
  <2> SUFFICES ASSUME ShellInit PROVE ShellInv
    OBVIOUS
  <2>1. ControlInv /\ RedirectInit
    BY ControlInit
  <2>2. redirs \in Seq(Redirection)
    BY <2>1, EmptySeq DEF RedirectInit
  <2> QED BY <2>1, <2>2, RInvInit DEF ShellInv
<1> QED BY <1>1, ShellStep, PTL DEF ShellSpec

(***************************************************************************)
(* All that the shell does to its descriptors and to those of its children *)
(* is a behaviour of RedirectSpec, whatever the lines, what they are       *)
(* expanded to, the faults and the interrupts.                             *)
(***************************************************************************)
THEOREM ShellRedirects == ShellSpec => RedirectSpec
<1>1. ShellInit => RedirectInit
  BY ControlInit
<1> QED BY <1>1, ShellInvariant, ShellStep, PTL DEF ShellSpec, RedirectSpec

(***************************************************************************)
(* So what was shown of redirections holds in the shell.                   *)
(***************************************************************************)
THEOREM ShellTableRestored == ShellSpec => []TableRestored
BY ShellRedirects, TableRestoredCorrect, PTL

(***************************************************************************)
(* How far a redirection that fails can put the table of the shell off.    *)
(***************************************************************************)
THEOREM ShellFailureDamage == ShellSpec => []FailureDamage
BY ShellRedirects, FailureDamageCorrect, PTL

----------------------------------------------------------------------------
(* What a command is executed with. *)

(***************************************************************************)
(* A list has made the table `after` of `before`, as far as it was open.   *)
(***************************************************************************)
TableOf(list, took, before, after) ==
    \A n \in Fd : before[n] # Closed =>
        after[n] # Closed /\ LastSets(list, took, before, n, after[n], Len(list))

IsTaken(took, list) == Len(took) = Len(list) /\ \E S : took \in Seq(S)

(***************************************************************************)
(* A list that is performed has opened one descriptor for each element.    *)
(***************************************************************************)
LEMMA InstalledFacts ==
    ASSUME RInv, AllInstalled
    PROVE  /\ TableOf(redirs, given, orig, fds) /\ IsTaken(given, redirs)
           /\ Cardinality(Free(orig) \ Free(fds)) = Len(redirs)
<1>1. /\ rpc = "open" /\ Len(redirs) \in Nat /\ pos = Len(redirs) + 1
      /\ Done = Len(redirs) /\ Kept = Len(redirs)
  BY DEF AllInstalled, RInv, ListTypes, Done, Kept, Performing
<1>2. TableOf(redirs, given, orig, fds)
  BY <1>1 DEF RInv, OpenOnes, TableOf
<1>3. IsTaken(given, redirs)
  BY <1>1 DEF RInv, ListTypes, IsTaken
<1> DEFINE n == Len(redirs)
           S == Free(orig) \ Free(fds)
           f == [k \in 1..n |-> bak[k]]
<1>4. \A k \in 1..n : bak[k] \in Fd /\ orig[bak[k]] = Closed /\ fds[bak[k]] # Closed
  BY <1>1 DEF RInv, Copies, FreeOnes, CopiesOpen
<1>5. \A m \in S : \E k \in 1..n : bak[k] = m
  BY <1>1 DEF RInv, FreeOnes, Free
<1>6. \A k \in 1..n : bak[k] \in S
  BY <1>4 DEF Free
<1>7. \A j, k \in 1..n : bak[j] = bak[k] => j = k
  BY <1>1 DEF RInv, CopiesOpen
<1> HIDE DEF S, n
<1>8. f \in Bijection(1..n, S)
  <2>1. f \in [1..n -> S]
    BY <1>6
  <2>2. \A k \in 1..n : f[k] = bak[k]
    OBVIOUS
  <2> HIDE DEF f
  <2>3. f \in Injection(1..n, S)
    BY <1>7, <2>1, <2>2 DEF Injection, IsInjective
  <2>4. f \in Surjection(1..n, S)
    BY <1>5, <2>1, <2>2 DEF Surjection
  <2> QED BY <2>3, <2>4 DEF Bijection
<1>9. Cardinality(S) = n
  <2>1. ExistsBijection(1..n, S)
    BY <1>8 DEF ExistsBijection
  <2> QED BY <1>1, <2>1, FS_CountingElements DEF n
<1> QED BY <1>2, <1>3, <1>9 DEF n, S

(***************************************************************************)
(* When the copies are closed again none is left.                          *)
(***************************************************************************)
LEMMA ForgottenFacts ==
    ASSUME RInv, rpc = "forgotten"
    PROVE  /\ TableOf(redirs, given, orig, fds) /\ IsTaken(given, redirs)
           /\ \A n \in Fd : orig[n] = Closed => fds[n] = Closed
<1>1. Done = Len(redirs) /\ Kept = 0
  BY DEF RInv, ListTypes, Done, Kept, Performing
<1>2. TableOf(redirs, given, orig, fds)
  BY <1>1 DEF RInv, OpenOnes, TableOf
<1>3. IsTaken(given, redirs)
  BY <1>1 DEF RInv, ListTypes, IsTaken
<1>4. \A n \in Fd : orig[n] = Closed => fds[n] = Closed
  BY <1>1 DEF RInv, FreeOnes
<1> QED BY <1>2, <1>3, <1>4

(***************************************************************************)
(* The subshell, r, has its descriptors from the shell, s.                 *)
(***************************************************************************)
Outer(r, s) ==
    /\ TableOf(Cmd.outer, r.given, s.fds, r.fds) /\ IsTaken(r.given, Cmd.outer)
    /\ Cardinality(Free(s.fds) \ Free(r.fds)) = Len(Cmd.outer)

(***************************************************************************)
(* Who waits for a child that is to execute a command.                     *)
(***************************************************************************)
Waiting ==
    IF Cmd.sub THEN \E r, s : stack = <<r, s>> /\ r.fds = orig /\ Outer(r, s)
    ELSE \E s : stack = <<s>> /\ s.fds = orig

StackInv ==
    /\ spc \in {"prompt", "next", "end"} \/ (spc = "expand" /\ ~Cmd.sub) => stack = <<>>
    /\ spc = "outer" => Cmd.sub
    /\ spc \in {"outer", "expand"} /\ Cmd.sub =>
          redirs = Cmd.outer /\ \E s : stack = <<s>> /\ s.fds = orig
    /\ spc = "expand" /\ Cmd.sub => AllInstalled
    /\ spc \in {"redir", "undo"} => redirs = Cmd.redirs
    /\ spc = "redir" /\ ~Bare /\ ~IsBuiltin(args) => Waiting
    /\ rpc \in {"forget", "forgotten"} => spc = "undo" /\ Waiting

LEMMA Pushed ==
    ASSUME NEW r
    PROVE  <<r>> \o <<>> = <<r>> /\ \A s : <<r>> \o <<s>> = <<r, s>>
<1>1. <<r>> \in Seq({r})
  OBVIOUS
<1>2. ASSUME NEW s
      PROVE  <<r>> \o <<s>> = <<r, s>>
  <2> DEFINE S == {r, s}
             t == <<r>> \o <<s>>
             u == <<r, s>>
  <2>1. <<r>> \in Seq(S) /\ <<s>> \in Seq(S) /\ u \in Seq(S)
    OBVIOUS
  <2>2. Len(<<r>>) = 1 /\ Len(<<s>>) = 1 /\ Len(u) = 2 /\ u[1] = r /\ u[2] = s
    OBVIOUS
  <2>3. /\ t \in Seq(S) /\ Len(t) = 2
        /\ \A k \in 1..2 : t[k] = IF k <= 1 THEN <<r>>[k] ELSE <<s>>[k - 1]
    BY <2>1, <2>2, ConcatProperties
  <2>4. t[1] = r /\ t[2] = s
    <3>1. t[1] = <<r>>[1]
      BY <2>3
    <3>2. t[2] = <<s>>[1]
      BY <2>3
    <3> QED BY <3>1, <3>2
  <2>5. \A k \in 1..Len(t) : t[k] = u[k]
    BY <2>2, <2>3, <2>4
  <2> HIDE DEF S, t, u
  <2> QED BY <2>1, <2>2, <2>3, <2>5, SeqEqual DEF t, u
<1> QED BY <1>1, <1>2, ConcatEmptySeq

LEMMA StackStep == ShellInv /\ StackInv /\ [ShellNext]_vars => StackInv'
<1> SUFFICES ASSUME ShellInv, StackInv, [ShellNext]_vars
             PROVE  StackInv'
  OBVIOUS
<1>0. RInv /\ Control /\ Lists
  BY DEF ShellInv, ControlInv
<1>1. CASE BeginLine \/ PromptFails \/ PromptDone \/ LineDone \/ Skip \/ LeaveShell
  <2>1. /\ spc' \in {"prompt", "next", "end"} /\ stack' = stack /\ rpc' = rpc /\ stack = <<>>
        /\ rpc \notin {"forget", "forgotten"}
    BY <1>0, <1>1, Zenon DEF BeginLine, PromptFails, PromptDone, LineDone, Skip, LeaveShell, EndLine,
                      lineVars, redirVars, Control, StackInv, AllInstalled
  <2> QED BY <2>1 DEF StackInv
<1>2. CASE (\E n \in 0..Len(stdin) : ReadDoc(n)) \/ InterruptShell \/ UNCHANGED vars
  <2>1. UNCHANGED <<spc, stack, cmds, args, redirVars>>
    BY <1>2, Zenon DEF ReadDoc, InterruptShell, vars, shellVars
  <2>2. UNCHANGED <<spc, stack, cmds, args, fds, redirs, pos, rpc, orig>>
    BY <2>1 DEF redirVars
  <2> QED BY <2>2 DEF StackInv, Waiting, Outer, Cmd, Bare, IsBuiltin, AllInstalled
<1>3. CASE StartSimple
  <2>1. /\ spc = "next" /\ spc' = "expand" /\ ~Cmd.sub /\ Cmd' = Cmd /\ stack' = stack /\ rpc' = rpc
        /\ rpc = "idle"
    BY <1>0, <1>3 DEF StartSimple, lineVars, redirVars, Control, Cmd
  <2> QED BY <2>1 DEF StackInv
<1>4. CASE SubGoesOn
  <2>1. /\ spc = "outer" /\ spc' = "expand" /\ Cmd' = Cmd /\ AllInstalled /\ AllInstalled'
        /\ UNCHANGED <<stack, rpc, redirs, orig>>
    BY <1>4 DEF SubGoesOn, lineVars, redirVars, Cmd, AllInstalled
  <2>2. rpc' \notin {"forget", "forgotten"}
    BY <2>1 DEF AllInstalled
  <2> QED BY <2>1, <2>2 DEF StackInv
<1>5. CASE StartSub
  <2>1. /\ spc = "next" /\ spc' = "outer" /\ Cmd.sub /\ Cmd' = Cmd
        /\ Push /\ redirs' = Cmd.outer /\ rpc' = "open" /\ orig' = fds
    BY <1>5 DEF StartSub, lineVars, BeginRedirect, Cmd
  <2> DEFINE r == [fds |-> fds, ctx |-> ctx, given |-> given]
  <2>2. r.fds = orig'
    BY <2>1
  <2>3. stack = <<>> /\ stack' = <<r>> \o stack
    BY <2>1 DEF StackInv, Push
  <2> HIDE DEF r
  <2>4. stack' = <<r>>
    BY <2>3, Pushed
  <2> QED BY <2>1, <2>2, <2>4 DEF StackInv
<1>6. CASE ExpandArgs
  <2>1. /\ spc = "expand" /\ spc' = "redir" /\ cmds' = cmds
        /\ redirs' = Cmd.redirs /\ rpc' = "open" /\ orig' = fds
        /\ Bare \/ IsBuiltin(args') \/ Push
    BY <1>6, Zenon DEF ExpandArgs, lineVars, BeginRedirect
  <2>2. Cmd' = Cmd /\ Bare' = Bare /\ IsBuiltin(args)' = IsBuiltin(args')
    BY <2>1 DEF Cmd, Bare, IsBuiltin
  <2>3. ASSUME Push
        PROVE  Waiting'
    <3>1. PICK r : r.fds = fds /\ r.given = given /\ stack' = <<r>> \o stack
      BY <2>3 DEF Push
    <3>2. r.fds = orig'
      BY <2>1, <3>1
    <3>3. CASE Cmd.sub
      <4>1. AllInstalled /\ redirs = Cmd.outer
        BY <2>1, <3>3 DEF StackInv
      <4>2. PICK s : stack = <<s>> /\ s.fds = orig
        BY <2>1, <3>3 DEF StackInv
      <4>3. Outer(r, s)
        BY <1>0, <3>1, <4>1, <4>2, InstalledFacts DEF Outer
      <4>4. Outer(r, s)'
        BY <2>2, <4>3 DEF Outer
      <4>5. stack' = <<r, s>>
        BY <3>1, <4>2, Pushed
      <4> QED BY <2>2, <3>2, <3>3, <4>4, <4>5 DEF Waiting
    <3>4. CASE ~Cmd.sub
      <4>1. stack = <<>>
        BY <2>1, <3>4 DEF StackInv
      <4>2. stack' = <<r>>
        BY <3>1, <4>1, Pushed
      <4> QED BY <2>2, <3>2, <3>4, <4>2 DEF Waiting
    <3> QED BY <3>3, <3>4
  <2>4. ~Bare /\ ~IsBuiltin(args') => Waiting'
    BY <2>1, <2>3
  <2> QED BY <2>1, <2>2, <2>4 DEF StackInv
<1>7. CASE OpenFile \/ CopyFails \/ OpenRefused
  <2>1. /\ spc \in {"outer", "redir"} /\ UNCHANGED <<spc, stack, cmds, args, redirs, orig>>
        /\ rpc' \in {"open", "failed"}
    BY <1>7, Zenon DEF OpenFile, CopyFails, OpenRefused, Performs, lineVars, shellVars, Install,
                       DupFails, OpenFails, GiveUp, Opening
  <2> QED BY <2>1 DEF StackInv, Waiting, Outer, Cmd, Bare, IsBuiltin
<1>8. CASE \/ ExpandFails \/ ToolForkFails \/ RedirectFailed \/ LeaveSubshell
           \/ BuiltinEnds \/ ToolEnds \/ Interrupt
  <2>1. \E s : EndsWith(s, fds)
    BY <1>8 DEF ExpandFails, ToolForkFails, RedirectFailed, LeaveSubshell, BuiltinEnds, ToolEnds,
                Interrupt
  <2>2. stack' = <<>> /\ spc' = "next" /\ rpc' = "idle"
    BY <2>1 DEF EndsWith, EndCommand
  <2> QED BY <2>2 DEF StackInv
<1>9. CASE SubForkFails
  <2>1. stack' = <<>> /\ spc' = "next" /\ rpc' = rpc /\ rpc = "idle"
    BY <1>0, <1>9 DEF SubForkFails, EndCommand, redirVars, Control
  <2> QED BY <2>1 DEF StackInv
<1>10. CASE RunBuiltin
  <2>1. /\ spc = "redir" /\ spc' = "undo" /\ cmds' = cmds /\ redirs' = redirs /\ rpc' = "restore"
    BY <1>10 DEF RunBuiltin, lineVars, BeginUndo
  <2> QED BY <2>1 DEF StackInv, Cmd
<1>11. CASE RunTool
  <2>1. /\ spc = "redir" /\ ~Bare /\ ~IsBuiltin(args) /\ spc' = "undo"
        /\ UNCHANGED <<cmds, stack, redirs, orig>>
    BY <1>11 DEF RunTool, lineVars, BeginUndo
  <2> QED BY <2>1 DEF StackInv, Waiting, Outer, Cmd
<1>12. CASE Undo
  <2>1. /\ spc = "undo" /\ UNCHANGED <<spc, cmds, stack, redirs, orig>>
        /\ rpc' \in {"forget", "forgotten"} => rpc \in {"forget", "forgotten"}
    BY <1>12 DEF Undo, shellVars, UndoOne, UndoDone
  <2> QED BY <2>1 DEF StackInv, Waiting, Outer, Cmd
<1>13. CASE ProgramEnds
  BY <1>2, <1>13 DEF ProgramEnds
<1> QED BY <1>1, <1>2, <1>3, <1>4, <1>5, <1>6, <1>7, <1>8, <1>9, <1>10, <1>11, <1>12, <1>13,
           Zenon DEF ShellNext

LEMMA StackInvariant == ShellSpec => []StackInv
<1>1. ShellInit => StackInv
  <2> SUFFICES ASSUME ShellInit PROVE StackInv
    OBVIOUS
  <2>1. stack = <<>> /\ spc = "end" /\ rpc = "idle"
    BY DEF ShellInit
  <2> QED BY <2>1 DEF StackInv
<1> QED BY <1>1, StackStep, ShellInvariant, PTL DEF ShellSpec

(***************************************************************************)
(* Two lists, one after the other, are one list.                           *)
(***************************************************************************)
LEMMA LastOfBoth ==
    ASSUME NEW list1 \in Seq(Redirection), NEW list2 \in Seq(Redirection), NEW took1, NEW took2,
           IsTaken(took1, list1), IsTaken(took2, list2),
           NEW before, NEW mid, NEW n, NEW v,
           LastSets(list1, took1, before, n, mid[n], Len(list1)),
           LastSets(list2, took2, mid, n, v, Len(list2))
    PROVE  LastSets(list1 \o list2, took1 \o took2, before, n, v, Len(list1 \o list2))
<1> DEFINE a == Len(list1)
           b == Len(list2)
           list == list1 \o list2
           took == took1 \o took2
<1>1. /\ a \in Nat /\ b \in Nat /\ Len(list) = a + b
      /\ \A k \in 1..a : list[k] = list1[k]
      /\ \A k \in 1..b : list[a + k] = list2[k]
  BY LenProperties, ConcatProperties
<1>2. /\ \A k \in 1..a : took[k] = took1[k]
      /\ \A k \in 1..b : took[a + k] = took2[k]
  <2>1. PICK S1, S2 : took1 \in Seq(S1) /\ took2 \in Seq(S2)
    BY DEF IsTaken
  <2>2. took1 \in Seq(S1 \cup S2) /\ took2 \in Seq(S1 \cup S2)
    BY <2>1, SeqMonotonic
  <2>3. Len(took1) = a /\ Len(took2) = b
    BY DEF IsTaken
  <2> QED BY <1>1, <2>2, <2>3, ConcatProperties
<1>3. \A k \in 1..(a + b) : k \in 1..a \/ (k - a \in 1..b /\ k = a + (k - a))
  BY <1>1
<1> HIDE DEF a, b, list, took
<1>4. CASE v = mid[n] /\ \A k \in 1..b : list2[k].fd # n
  <2>0. \A k \in 1..(a + b) : k \notin 1..a => list[k].fd # n
    BY <1>1, <1>3, <1>4
  <2>1. CASE mid[n] = before[n] /\ \A k \in 1..a : list1[k].fd # n
    <3>1. \A k \in 1..(a + b) : list[k].fd # n
      BY <1>1, <2>0, <2>1
    <3> QED BY <1>1, <1>4, <2>1, <3>1 DEF LastSets, list, took
  <2>2. ASSUME NEW k \in 1..a, list1[k].fd = n, mid[n] = took1[k],
               \A j \in 1..a : k < j => list1[j].fd # n
        PROVE  LastSets(list, took, before, n, v, a + b)
    <3>1. \A j \in 1..(a + b) : k < j => list[j].fd # n
      BY <1>1, <2>0, <2>2
    <3>2. k \in 1..(a + b) /\ list[k].fd = n /\ v = took[k]
      BY <1>1, <1>2, <1>4, <2>2
    <3> QED BY <3>1, <3>2 DEF LastSets
  <2>3. LastSets(list1, took1, before, n, mid[n], a)
    BY DEF a
  <2> QED BY <1>1, <2>1, <2>2, <2>3 DEF LastSets, list, took
<1>5. ASSUME NEW k \in 1..b, list2[k].fd = n, v = took2[k],
             \A j \in 1..b : k < j => list2[j].fd # n
      PROVE  LastSets(list, took, before, n, v, a + b)
  <2>1. \A j \in 1..(a + b) : a + k < j => list[j].fd # n
    <3> SUFFICES ASSUME NEW j \in 1..(a + b), a + k < j
                 PROVE  list[j].fd # n
      OBVIOUS
    <3>1. j - a \in 1..b /\ k < j - a /\ j = a + (j - a)
      BY <1>1, <1>3
    <3> QED BY <1>1, <1>5, <3>1
  <2>2. a + k \in 1..(a + b) /\ list[a + k].fd = n /\ v = took[a + k]
    BY <1>1, <1>2, <1>5
  <2> QED BY <2>1, <2>2 DEF LastSets
<1>6. LastSets(list2, took2, mid, n, v, b)
  BY DEF b
<1> QED BY <1>1, <1>4, <1>5, <1>6 DEF LastSets, list, took

LEMMA LastIs ==
    ASSUME NEW list \in Seq(Redirection), NEW took, NEW before, NEW n, NEW v,
           LastSets(list, took, before, n, v, Len(list))
    PROVE  LET of == {k \in DOMAIN list : list[k].fd = n}
           IN  v = IF of = {} THEN before[n] ELSE took[Max(of)]
<1> DEFINE of == {k \in DOMAIN list : list[k].fd = n}
<1>1. Len(list) \in Nat /\ DOMAIN list = 1..Len(list)
  BY LenProperties
<1>2. CASE v = before[n] /\ \A k \in 1..Len(list) : list[k].fd # n
  BY <1>1, <1>2
<1>3. ASSUME NEW k \in 1..Len(list), list[k].fd = n, v = took[k],
             \A j \in 1..Len(list) : k < j => list[j].fd # n
      PROVE  of # {} /\ v = took[Max(of)]
  <2>1. k \in of /\ \A j \in of : j \in Int /\ k >= j
    BY <1>1, <1>3
  <2> HIDE DEF of
  <2>2. Max(of) \in of /\ \A j \in of : Max(of) >= j
    BY <2>1 DEF Max
  <2>3. Max(of) \in Int /\ k \in Int /\ k >= Max(of) /\ Max(of) >= k
    BY <2>1, <2>2
  <2>4. Max(of) = k
    BY <2>3
  <2> QED BY <1>3, <2>1, <2>4
<1> QED BY <1>2, <1>3 DEF LastSets

(***************************************************************************)
(* A command of any line, in parentheses or not, is executed with each     *)
(* descriptor of the shell as the last redirection of it says and, of the  *)
(* others, with the copies the subshell keeps and nothing else, one for    *)
(* each redirection behind the parentheses (exec_sub, exec_cmd, redirect,  *)
(* reset_redir).                                                           *)
(***************************************************************************)
THEOREM CommandTableCorrect == ShellSpec => []CommandTable
<1>1. ShellInv /\ StackInv => CommandTable
  <2> SUFFICES ASSUME ShellInv, StackInv, rpc = "forgotten"
               PROVE  LET shell == Last(stack).fds
                          list == (IF Cmd.sub THEN Cmd.outer ELSE <<>>) \o Cmd.redirs
                          opened == (IF Cmd.sub THEN stack[1].given ELSE <<>>) \o given
                      IN  /\ \A n \in Fd : shell[n] # Closed =>
                                LET of == {k \in DOMAIN list : list[k].fd = n}
                                IN  fds[n] = IF of = {} THEN shell[n] ELSE opened[Max(of)]
                          /\ Cardinality(Free(shell) \ Free(fds)) =
                                IF Cmd.sub THEN Len(Cmd.outer) ELSE 0
    BY DEF CommandTable
  <2> DEFINE shell == Last(stack).fds
             outer == IF Cmd.sub THEN Cmd.outer ELSE <<>>
             took == IF Cmd.sub THEN stack[1].given ELSE <<>>
             list == outer \o Cmd.redirs
             opened == took \o given
  <2>1. spc = "undo" /\ Waiting /\ redirs = Cmd.redirs
    BY DEF StackInv
  <2>2. Cmd \in Command
    BY <2>1, TypesInHand DEF ShellInv, ControlInv, Control
  <2>3. Cmd.outer \in Seq(Redirection) /\ Cmd.redirs \in Seq(Redirection)
    BY <2>2 DEF Command
  <2>4. /\ TableOf(redirs, given, orig, fds) /\ IsTaken(given, redirs)
        /\ \A n \in Fd : orig[n] = Closed => fds[n] = Closed
    BY ForgottenFacts DEF ShellInv
  <2>5. /\ TableOf(outer, took, shell, orig) /\ IsTaken(took, outer) /\ outer \in Seq(Redirection)
        /\ Cardinality(Free(shell) \ Free(orig)) = IF Cmd.sub THEN Len(Cmd.outer) ELSE 0
    <3>1. CASE Cmd.sub
      <4>1. PICK r, s : stack = <<r, s>> /\ r.fds = orig /\ Outer(r, s)
        BY <2>1, <3>1 DEF Waiting
      <4>2. shell = s.fds /\ took = r.given /\ outer = Cmd.outer
        BY <3>1, <4>1 DEF Last
      <4> QED BY <2>3, <3>1, <4>1, <4>2 DEF Outer
    <3>2. CASE ~Cmd.sub
      <4>1. PICK s : stack = <<s>> /\ s.fds = orig
        BY <2>1, <3>2 DEF Waiting
      <4>2. shell = orig
        BY <4>1 DEF Last
      <4>3. outer = <<>> /\ took = <<>>
        BY <3>2
      <4> HIDE DEF shell, outer, took
      <4>4. Len(<<>>) = 0 /\ <<>> \in Seq({}) /\ <<>> \in Seq(Redirection)
        BY EmptySeq
      <4>5. TableOf(outer, took, shell, orig)
        BY <4>2, <4>3, <4>4 DEF TableOf, LastSets
      <4>6. IsTaken(took, outer)
        BY <4>3, <4>4 DEF IsTaken
      <4>7. Cardinality(Free(shell) \ Free(orig)) = 0
        <5>1. Free(shell) \ Free(orig) = {}
          BY <4>2
        <5> QED BY <5>1, FS_EmptySet
      <4> QED BY <3>2, <4>3, <4>4, <4>5, <4>6, <4>7
    <3> QED BY <3>1, <3>2
  <2> HIDE DEF shell, outer, took
  <2>6. ASSUME NEW n \in Fd, shell[n] # Closed
        PROVE  LET of == {k \in DOMAIN list : list[k].fd = n}
               IN  fds[n] = IF of = {} THEN shell[n] ELSE opened[Max(of)]
    <3>1. orig[n] # Closed /\ LastSets(outer, took, shell, n, orig[n], Len(outer))
      BY <2>5, <2>6 DEF TableOf
    <3>2. LastSets(Cmd.redirs, given, orig, n, fds[n], Len(Cmd.redirs))
      BY <2>1, <2>4, <3>1 DEF TableOf
    <3>3. LastSets(list, opened, shell, n, fds[n], Len(list))
      BY <2>1, <2>3, <2>4, <2>5, <3>1, <3>2, LastOfBoth
    <3>4. list \in Seq(Redirection)
      BY <2>3, <2>5, ConcatProperties
    <3> HIDE DEF list, opened
    <3> QED BY <3>3, <3>4, LastIs
  <2>7. Free(shell) \ Free(fds) = Free(shell) \ Free(orig)
    <3>1. \A n \in Fd : fds[n] = Closed <=> orig[n] = Closed
      BY <2>4 DEF TableOf
    <3> QED BY <3>1 DEF Free
  <2> QED BY <2>5, <2>6, <2>7 DEF shell, outer, took
<1> QED BY <1>1, ShellInvariant, StackInvariant, PTL

----------------------------------------------------------------------------
(* Parts of sequences. *)

(***************************************************************************)
(* The first that is given lies in S, and each that comes from one in S.   *)
(***************************************************************************)
LEMMA Follows ==
    ASSUME NEW n \in Nat, NEW S, NEW f, f[0] \in S,
           \A k \in 1..n : f[k - 1] \in S => f[k] \in S
    PROVE  \A k \in 0..n : f[k] \in S
<1> DEFINE Others == {k \in 0..n : f[k] \notin S}
<1> SUFFICES ASSUME Others # {} PROVE FALSE
  OBVIOUS
<1>1. Others \subseteq Nat
  OBVIOUS
<1>2. PICK k \in Others : \A j \in Others : k <= j
  BY <1>1, LeastNumber
<1>3. k \in 1..n
  BY <1>2
<1>4. k - 1 \in 0..n /\ k - 1 \notin Others
  BY <1>2, <1>3
<1> QED BY <1>2, <1>3, <1>4

(***************************************************************************)
(* Part of a sequence, which may be empty.                                 *)
(***************************************************************************)
LEMMA PartIs ==
    ASSUME NEW X, NEW s \in Seq(X), NEW m \in Nat \ {0}, NEW n \in Int, n <= Len(s)
    PROVE  /\ SubSeq(s, m, n) \in Seq(X)
           /\ Len(SubSeq(s, m, n)) = IF m <= n THEN n - m + 1 ELSE 0
           /\ \A k \in 1..(n - m + 1) : SubSeq(s, m, n)[k] = s[m + k - 1]
<1>1. Len(s) \in Nat
  BY LenProperties
<1>2. \A k \in m..n : s[k] \in X
  <2>1. \A k \in m..n : k \in 1..Len(s)
    BY <1>1
  <2> QED BY <2>1, ElementOfSeq
<1> QED BY <1>2, SubSeqProperties

LEMMA PartOfPart ==
    ASSUME NEW X, NEW s \in Seq(X), NEW a \in Nat, NEW m \in Nat \ {0}, NEW n \in Int,
           n <= Len(SubSeq(s, a + 1, Len(s))), n <= Len(s) - a
    PROVE  SubSeq(SubSeq(s, a + 1, Len(s)), m, n) = SubSeq(s, a + m, a + n)
<1> DEFINE N == Len(s)
           t == SubSeq(s, a + 1, N)
           u == SubSeq(t, m, n)
           v == SubSeq(s, a + m, a + n)
<1>1. N \in Nat /\ a + 1 \in Nat \ {0} /\ N <= N
  BY LenProperties
<1>2. /\ t \in Seq(X)
      /\ Len(t) = IF a + 1 <= N THEN N - (a + 1) + 1 ELSE 0
      /\ \A k \in 1..(N - (a + 1) + 1) : t[k] = s[(a + 1) + k - 1]
  BY <1>1, PartIs
<1> HIDE DEF t, N
<1>3. n <= Len(t) /\ n <= N - a
  BY DEF t, N
<1>4. /\ u \in Seq(X)
      /\ Len(u) = IF m <= n THEN n - m + 1 ELSE 0
      /\ \A k \in 1..(n - m + 1) : u[k] = t[m + k - 1]
  BY <1>2, <1>3, PartIs
<1>5. a + m \in Nat \ {0} /\ a + n \in Int /\ a + n <= Len(s)
  BY <1>1, <1>3 DEF N
<1>6. /\ v \in Seq(X)
      /\ Len(v) = IF a + m <= a + n THEN (a + n) - (a + m) + 1 ELSE 0
      /\ \A k \in 1..((a + n) - (a + m) + 1) : v[k] = s[(a + m) + k - 1]
  BY <1>5, PartIs
<1> HIDE DEF u, v
<1>7. Len(u) = Len(v)
  BY <1>4, <1>6
<1>8. ASSUME NEW k \in 1..Len(u)
      PROVE  u[k] = v[k]
  <2>1. k \in 1..(n - m + 1) /\ k \in 1..((a + n) - (a + m) + 1)
        /\ m + k - 1 \in 1..(N - (a + 1) + 1)
    BY <1>1, <1>3, <1>4, <1>8
  <2>2. u[k] = s[(a + 1) + (m + k - 1) - 1] /\ v[k] = s[(a + m) + k - 1]
    BY <1>2, <1>4, <1>6, <2>1
  <2>3. (a + 1) + (m + k - 1) - 1 = (a + m) + k - 1
    OBVIOUS
  <2> QED BY <2>2, <2>3
<1>9. u = v
  BY <1>4, <1>6, <1>7, <1>8, SeqEqual
<1> QED BY <1>9 DEF u, v, t, N

(***************************************************************************)
(* Take and Drop.                                                          *)
(***************************************************************************)
LEMMA TakeIs ==
    ASSUME NEW X, NEW s \in Seq(X), NEW n \in Nat
    PROVE  /\ n <= Len(s) => Take(s, n) = SubSeq(s, 1, n)
           /\ Len(s) <= n => Take(s, n) = s
           /\ Take(s, n) \in Seq(X)
           /\ Len(Take(s, n)) = IF n <= Len(s) THEN n ELSE Len(s)
           /\ \A k \in 1..Len(Take(s, n)) : Take(s, n)[k] = s[k]
<1> DEFINE N == Len(s)
           m == Min({n, N})
<1>1. N \in Nat
  BY LenProperties
<1>2. m \in {n, N} /\ m <= n /\ m <= N
  <2>1. {n, N} \in SUBSET Nat /\ {n, N} # {}
    BY <1>1
  <2> HIDE DEF N
  <2> QED BY <2>1, MinIs
<1>3. m = IF n <= N THEN n ELSE N
  BY <1>1, <1>2
<1>4. Take(s, n) = SubSeq(s, 1, m)
  BY DEF Take
<1> HIDE DEF m
<1>5. m \in Int /\ m <= Len(s)
  BY <1>1, <1>2
<1>6. /\ SubSeq(s, 1, m) \in Seq(X)
      /\ Len(SubSeq(s, 1, m)) = IF 1 <= m THEN m - 1 + 1 ELSE 0
      /\ \A k \in 1..(m - 1 + 1) : SubSeq(s, 1, m)[k] = s[1 + k - 1]
  <2>1. 1 \in Nat \ {0}
    OBVIOUS
  <2> QED BY <1>5, <2>1, PartIs
<1>7. SubSeq(s, 1, Len(s)) = s
  BY SubSeqFull
<1>8. Len(SubSeq(s, 1, m)) = m
  BY <1>1, <1>3, <1>6
<1>9. \A k \in 1..m : SubSeq(s, 1, m)[k] = s[k]
  BY <1>1, <1>3, <1>6
<1>10. Len(s) <= n => m = Len(s)
  BY <1>1, <1>3
<1> QED BY <1>3, <1>4, <1>6, <1>7, <1>8, <1>9, <1>10

LEMMA DropIs ==
    ASSUME NEW X, NEW s \in Seq(X), NEW n \in Nat
    PROVE  /\ Drop(s, n) = SubSeq(s, n + 1, Len(s))
           /\ Drop(s, n) \in Seq(X)
           /\ Len(Drop(s, n)) = IF n <= Len(s) THEN Len(s) - n ELSE 0
           /\ \A k \in 1..Len(Drop(s, n)) : Drop(s, n)[k] = s[n + k]
<1> DEFINE N == Len(s)
           t == SubSeq(s, n + 1, N)
<1>1. N \in Nat /\ n + 1 \in Nat \ {0} /\ N <= Len(s)
  BY LenProperties
<1>2. /\ t \in Seq(X)
      /\ Len(t) = IF n + 1 <= N THEN N - (n + 1) + 1 ELSE 0
      /\ \A k \in 1..(N - (n + 1) + 1) : t[k] = s[(n + 1) + k - 1]
  BY <1>1, PartIs
<1>3. Drop(s, n) = t
  BY DEF Drop
<1> HIDE DEF t, N
<1>4. Len(t) = IF n <= N THEN N - n ELSE 0
  BY <1>1, <1>2
<1>5. ASSUME NEW k \in 1..Len(t)
      PROVE  t[k] = s[n + k]
  <2>1. k \in 1..(N - (n + 1) + 1) /\ (n + 1) + k - 1 = n + k
    BY <1>1, <1>4
  <2> QED BY <1>2, <2>1
<1> QED BY <1>2, <1>3, <1>4, <1>5 DEF t, N

----------------------------------------------------------------------------
(* Here documents. *)

(***************************************************************************)
(* The documents of a line.                                                *)
(***************************************************************************)
LEMMA DocsType ==
    ASSUME NEW line \in CommandLine
    PROVE  DocsOf(line) \in Seq(Redirection)
<1> DEFINE lists == [k \in DOMAIN line.cmds |-> Prompted(line.cmds[k])]
           list == FlattenSeq(lists)
           I == {k \in DOMAIN list : list[k].type = "here"}
<1>1. /\ line.cmds \in Seq(Command)
      /\ Len(line.cmds) \in Nat /\ DOMAIN line.cmds = 1..Len(line.cmds)
  BY LenProperties DEF CommandLine
<1>2. \A k \in DOMAIN line.cmds : Prompted(line.cmds[k]) \in Seq(Redirection)
  <2>1. \A k \in DOMAIN line.cmds : line.cmds[k] \in Command
    BY <1>1, ElementOfSeq
  <2> QED BY <2>1 DEF Prompted, Command
<1>3. lists \in Seq(Seq(Redirection))
  BY <1>1, <1>2
<1> HIDE DEF lists
<1>4. list \in Seq(Redirection)
  BY <1>3, FlattenType
<1> HIDE DEF list
<1>5. I \in SUBSET DOMAIN list /\ I \in SUBSET Nat
  BY <1>4, LenProperties
<1> HIDE DEF I
<1>6. StrictOrder(Less(I), I)
  BY <1>5, LessIsStrictOrder
<1>7. Pick(list, InOrder(I, Less(I))) \in Seq(Redirection)
  BY <1>4, <1>5, <1>6, PickTakesAll
<1> QED BY <1>7 DEF DocsOf, At, list, lists, I

(***************************************************************************)
(* Where documents end.                                                    *)
(***************************************************************************)
Ends1(line, e, k) ==
    {m \in (e + 1)..Len(line.stdin) : line.stdin[m] = DocsOf(line)[k].word}
NextEnd(line, e, k) ==
    IF Ends1(line, e, k) = {} THEN Len(line.stdin) + 1 ELSE Min(Ends1(line, e, k))

LEMMA NextEndIs ==
    ASSUME NEW line \in CommandLine, NEW e \in 0..(Len(line.stdin) + 1), NEW k
    PROVE  /\ NextEnd(line, e, k) \in 0..(Len(line.stdin) + 1)
           /\ NextEnd(line, e, k) > e \/ NextEnd(line, e, k) = Len(line.stdin) + 1
<1>1. Len(line.stdin) \in Nat
  BY LenProperties DEF CommandLine
<1>2. Ends1(line, e, k) \in SUBSET Nat /\ \A m \in Ends1(line, e, k) : m \in (e + 1)..Len(line.stdin)
  BY <1>1 DEF Ends1
<1>3. CASE Ends1(line, e, k) = {}
  BY <1>1, <1>3 DEF NextEnd
<1>4. CASE Ends1(line, e, k) # {}
  <2>1. Min(Ends1(line, e, k)) \in (e + 1)..Len(line.stdin)
    BY <1>2, <1>4, MinIs
  <2> QED BY <1>1, <1>4, <2>1 DEF NextEnd
<1> QED BY <1>3, <1>4

LEMMA EndOfIs ==
    ASSUME NEW line \in CommandLine
    PROVE  /\ EndOf(line, 0) = 0
           /\ \A n \in 0..Len(DocsOf(line)) : EndOf(line, n) \in 0..(Len(line.stdin) + 1)
           /\ \A n \in 1..Len(DocsOf(line)) :
                 EndOf(line, n) = NextEnd(line, EndOf(line, n - 1), n)
<1> DEFINE N == Len(DocsOf(line))
           S == 0..(Len(line.stdin) + 1)
           step == [p \in S \X (1..N) |-> NextEnd(line, p[1], p[2])]
           Is(f) == f = [k \in 0..N |-> IF k = 0 THEN 0 ELSE NextEnd(line, f[k - 1], k)]
           ends == CHOOSE f : Is(f)
           zero == 0
<1>1. N \in Nat /\ Len(line.stdin) \in Nat
  <2>1. DocsOf(line) \in Seq(Redirection)
    BY DocsType
  <2> QED BY <2>1, LenProperties DEF CommandLine
<1>2. step \in [S \X (1..N) -> S]
  BY NextEndIs
<1>3. zero \in S
  BY <1>1
<1> HIDE DEF step, N, S, zero
<1>4. PICK g : IsPath(g, N, S, zero, step)
  BY <1>1, <1>2, <1>3, Iterates
<1>5. g \in [0..N -> S] /\ g[0] = 0 /\ \A k \in 1..N : g[k] = step[<<g[k - 1], k>>]
  BY <1>4 DEF IsPath, zero
<1>6. Is(g)
  <2>1. ASSUME NEW k \in 0..N
        PROVE  g[k] = IF k = 0 THEN 0 ELSE NextEnd(line, g[k - 1], k)
    <3>1. CASE k = 0
      BY <1>5, <3>1
    <3>2. CASE k # 0
      <4>1. k \in 1..N /\ k - 1 \in 0..N
        BY <1>1, <3>2
      <4>2. g[k - 1] \in S /\ g[k] = step[<<g[k - 1], k>>]
        BY <1>5, <4>1
      <4> QED BY <3>2, <4>1, <4>2 DEF step
    <3> QED BY <3>1, <3>2
  <2> QED BY <1>5, <2>1
<1>7. Is(ends)
  BY <1>6
<1>8. \A n : EndOf(line, n) = ends[n]
  BY DEF EndOf, NextEnd, Ends1, N
<1> HIDE DEF ends
<1>9. ends[0] = 0 /\ \A k \in 1..N : ends[k] = NextEnd(line, ends[k - 1], k)
  BY <1>1, <1>7
<1>10. \A k \in 0..N : ends[k] \in S
  <2>1. ends[0] \in S
    BY <1>3, <1>9 DEF zero
  <2>2. \A k \in 1..N : ends[k - 1] \in S => ends[k] \in S
    BY <1>9, NextEndIs DEF S
  <2> QED BY <1>1, <2>1, <2>2, Follows
<1> QED BY <1>8, <1>9, <1>10 DEF N, S

(***************************************************************************)
(* While a line is in hand, the documents left are the last ones of the    *)
(* line.  As long as nothing has disturbed a reader, what is not read yet   *)
(* begins behind the last document that was read, and each file in /tmp    *)
(* holds a document that was read, as it was typed.                        *)
(***************************************************************************)
LineDocs == DocsOf(lines[1])
ReadSoFar == Len(LineDocs) - Len(docs)
Undisturbed == lines[1].block = 1 /\ faults = MaxFaults
DocOf(line, n) == SubSeq(line.stdin, EndOf(line, n - 1) + 1, EndOf(line, n) - 1)
KeysTell(list) == \A j, k \in DOMAIN list : list[j].key = list[k].key => j = k

DocsInOrder ==
    /\ ReadSoFar \in 0..Len(LineDocs)
    /\ docs = SubSeq(LineDocs, ReadSoFar + 1, Len(LineDocs))

ReadInOrder ==
    stdin = SubSeq(lines[1].stdin, EndOf(lines[1], ReadSoFar) + 1, Len(lines[1].stdin))

FilesAreDocs ==
    \A n \in DOMAIN LineDocs :
        LineDocs[n].key \in DOMAIN tmp =>
            n <= ReadSoFar /\ tmp[LineDocs[n].key] = DocOf(lines[1], n)

HereInv ==
    /\ faults \in 0..MaxFaults
    /\ \A n \in DOMAIN lines : KeysTell(DocsOf(lines[n]))
    /\ spc = "end" /\ lines # <<>> => tmp = <<>>
    /\ spc # "end" => DocsInOrder
    /\ spc = "prompt" /\ Undisturbed => ReadInOrder
    /\ spc # "end" /\ Undisturbed => FilesAreDocs

LEMMA HereInit == ShellInit => HereInv
<1> SUFFICES ASSUME ShellInit PROVE HereInv
  OBVIOUS
<1>1. PICK start \in Starts :
        lines = start.lines /\ tmp = <<>> /\ spc = "end" /\ faults = MaxFaults
  BY DEF ShellInit
<1>2. faults \in 0..MaxFaults
  BY <1>1, StartsAssumption
<1>3. \A n \in DOMAIN lines : KeysTell(DocsOf(lines[n]))
  BY <1>1, StartsAssumption DEF KeysTell
<1> QED BY <1>1, <1>2, <1>3 DEF HereInv

(***************************************************************************)
(* Everything but reading only takes files away, a fault ends what is said *)
(* of them.                                                                *)
(***************************************************************************)
LEMMA KeptWhileExecuted ==
    ASSUME HereInv, spc # "end", spc' \notin {"end", "prompt"}, UNCHANGED <<lines, docs>>,
           faults' = faults \/ (faults > 0 /\ faults' = faults - 1),
           \A k \in DOMAIN tmp' : k \in DOMAIN tmp /\ tmp'[k] = tmp[k]
    PROVE  HereInv'
<1>1. faults \in 0..MaxFaults /\ MaxFaults \in Nat
  BY StartsAssumption DEF HereInv
<1>2. faults' \in 0..MaxFaults /\ (faults' = MaxFaults => faults = MaxFaults)
  BY <1>1
<1>3. DocsInOrder'
  BY DEF HereInv, DocsInOrder, ReadSoFar, LineDocs
<1>4. ASSUME Undisturbed' PROVE FilesAreDocs'
  <2>1. FilesAreDocs
    BY <1>2, <1>4 DEF HereInv, Undisturbed
  <2> QED BY <2>1 DEF FilesAreDocs, ReadSoFar, LineDocs
<1> QED BY <1>2, <1>3, <1>4 DEF HereInv

LEMMA HereBegins ==
    ASSUME HereInv, Lists, BeginLine
    PROVE  HereInv'
<1> DEFINE line == lines[1]
<1>1. /\ spc = "end" /\ lines # <<>> /\ docs' = DocsOf(line) /\ stdin' = line.stdin
      /\ spc' = "prompt" /\ UNCHANGED <<lines, tmp, faults>>
  BY DEF BeginLine
<1>2. line \in CommandLine
  BY <1>1, TypesInHand
<1> HIDE DEF line
<1>3. DocsOf(line) \in Seq(Redirection) /\ Len(DocsOf(line)) \in Nat /\ line.stdin \in Seq(String)
  BY <1>2, DocsType, LenProperties DEF CommandLine
<1>4. LineDocs' = DocsOf(line) /\ ReadSoFar' = 0
  BY <1>1, <1>3 DEF LineDocs, ReadSoFar, line
<1>5. DocsInOrder'
  BY <1>1, <1>3, <1>4, SubSeqFull DEF DocsInOrder
<1>6. ReadInOrder'
  <2>1. SubSeq(line.stdin, 1, Len(line.stdin)) = line.stdin /\ EndOf(line, 0) = 0
    BY <1>2, <1>3, SubSeqFull, EndOfIs
  <2>2. EndOf(line, 0) + 1 = 1
    BY <2>1
  <2>3. SubSeq(line.stdin, EndOf(line, 0) + 1, Len(line.stdin)) = stdin'
    BY <1>1, <2>1, <2>2
  <2> QED BY <1>1, <1>4, <2>3 DEF ReadInOrder, line
<1>7. FilesAreDocs'
  <2>1. tmp' = <<>> /\ DOMAIN tmp' = {}
    BY <1>1 DEF HereInv
  <2> QED BY <2>1 DEF FilesAreDocs
<1> QED BY <1>1, <1>5, <1>6, <1>7 DEF HereInv

LEMMA HereEnds ==
    ASSUME HereInv, Lists, Control, PromptFails \/ LineDone \/ LeaveShell
    PROVE  HereInv'
<1>1. /\ lines # <<>> /\ spc' = "end"
      /\ \/ lines' = Tail(lines) /\ tmp' = <<>>
         \/ lines' = <<>>
      /\ faults' = faults \/ (faults > 0 /\ faults' = faults - 1)
  BY Zenon DEF PromptFails, LineDone, LeaveShell, EndLine, Control
<1>2. faults' \in 0..MaxFaults
  BY <1>1, StartsAssumption DEF HereInv
<1>3. \A n \in DOMAIN lines' : KeysTell(DocsOf(lines'[n]))
  <2>1. CASE lines' = <<>>
    BY <2>1
  <2>2. CASE lines' = Tail(lines)
    <3>1. /\ Len(lines) \in Nat /\ DOMAIN lines = 1..Len(lines)
          /\ Len(Tail(lines)) = Len(lines) - 1 /\ Len(Tail(lines)) \in Nat
          /\ DOMAIN Tail(lines) = 1..Len(Tail(lines))
          /\ \A i \in 1..Len(Tail(lines)) : Tail(lines)[i] = lines[i + 1]
      BY <1>1, FirstOf, LenProperties, HeadTailProperties DEF Lists
    <3>2. ASSUME NEW n \in DOMAIN lines' PROVE lines'[n] = lines[n + 1] /\ n + 1 \in DOMAIN lines
      BY <2>2, <3>1, <3>2
    <3> QED BY <3>2 DEF HereInv
  <2> QED BY <1>1, <2>1, <2>2
<1> QED BY <1>1, <1>2, <1>3 DEF HereInv

\* What is typed of a line when its n-th document is read, how much of it the
\* reader takes, and how much of that is the document.
StillTyped(line, n) == SubSeq(line.stdin, EndOf(line, n - 1) + 1, Len(line.stdin))
TakenFor(line, n) ==
    LET hits == {k \in DOMAIN StillTyped(line, n) : StillTyped(line, n)[k] = DocsOf(line)[n].word}
    IN  IF hits = {} THEN Len(StillTyped(line, n)) ELSE Min(hits)
TextFor(line, n) ==
    IF TakenFor(line, n) > 0 /\ StillTyped(line, n)[TakenFor(line, n)] = DocsOf(line)[n].word
    THEN TakenFor(line, n) - 1 ELSE TakenFor(line, n)

(***************************************************************************)
(* The reader takes what belongs to its document, and leaves what is       *)
(* behind the delimiter.                                                   *)
(***************************************************************************)
LEMMA ReadsADocument ==
    ASSUME NEW line \in CommandLine, NEW n \in 1..Len(DocsOf(line))
    PROVE  /\ StillTyped(line, n) \in Seq(String)
           /\ TakenFor(line, n) \in 0..Len(StillTyped(line, n))
           /\ Take(StillTyped(line, n), TextFor(line, n)) = DocOf(line, n)
           /\ Drop(StillTyped(line, n), TakenFor(line, n))
                 = SubSeq(line.stdin, EndOf(line, n) + 1, Len(line.stdin))
<1> DEFINE s == line.stdin
           e == EndOf(line, n - 1)
           N == Len(s)
           typed == SubSeq(s, e + 1, N)
           word == DocsOf(line)[n].word
           hits == {k \in DOMAIN typed : typed[k] = word}
           m == IF hits = {} THEN Len(typed) ELSE Min(hits)
           done == /\ typed \in Seq(String) /\ m \in 0..Len(typed)
                   /\ Take(typed, IF m > 0 /\ typed[m] = word THEN m - 1 ELSE m) = DocOf(line, n)
                   /\ Drop(typed, m) = SubSeq(s, EndOf(line, n) + 1, N)
<1> SUFFICES done
  BY DEF StillTyped, TakenFor, TextFor
<1> HIDE DEF done
<1>1. s \in Seq(String) /\ N \in Nat /\ Len(DocsOf(line)) \in Nat
  BY DocsType, LenProperties DEF CommandLine
<1>2. e \in 0..(N + 1) /\ EndOf(line, n) = NextEnd(line, e, n)
  <2>1. n - 1 \in 0..Len(DocsOf(line))
    BY <1>1
  <2> QED BY <2>1, EndOfIs
<1>3. typed = SubSeq(s, e + 1, N)
  OBVIOUS
<1>3a. hits = {k \in DOMAIN typed : typed[k] = word}
  OBVIOUS
<1>3b. /\ hits = {} => m = Len(typed)
       /\ hits # {} => m = Min(hits)
  OBVIOUS
<1>4. Ends1(line, e, n) = {k \in (e + 1)..N : s[k] = word}
  BY DEF Ends1
<1>5. DocOf(line, n) = SubSeq(s, e + 1, EndOf(line, n) - 1)
  BY DEF DocOf
<1> HIDE DEF s, e, N, typed, word, hits, m
<1>6. /\ typed \in Seq(String)
      /\ Len(typed) = IF e + 1 <= N THEN N - (e + 1) + 1 ELSE 0
      /\ \A k \in 1..(N - (e + 1) + 1) : typed[k] = s[(e + 1) + k - 1]
  <2>1. e + 1 \in Nat \ {0} /\ N <= Len(s)
    BY <1>1, <1>2 DEF N
  <2> QED BY <1>1, <1>3, <2>1, PartIs
<1>7. DOMAIN typed = 1..Len(typed) /\ Len(typed) \in Nat
  BY <1>6, LenProperties
<1>8. \A k \in 1..Len(typed) : typed[k] = s[e + k] /\ e + k \in (e + 1)..N
  BY <1>1, <1>2, <1>6
<1>9. ASSUME NEW k \in (e + 1)..N PROVE k - e \in 1..Len(typed) /\ typed[k - e] = s[k]
  <2>1. k - e \in 1..(N - (e + 1) + 1) /\ (e + 1) + (k - e) - 1 = k /\ e + 1 <= N
    BY <1>1, <1>2
  <2>2. typed[k - e] = s[(e + 1) + (k - e) - 1] /\ Len(typed) = N - (e + 1) + 1
    BY <1>6, <2>1
  <2> QED BY <2>1, <2>2
<1>10. hits \in SUBSET Nat
  BY <1>7, <1>3a
<1>11. \A a \in Nat \ {0} : \A b \in Int :
          b <= Len(typed) /\ b <= N - e => SubSeq(typed, a, b) = SubSeq(s, e + a, e + b)
  <2>1. s \in Seq(String) /\ e \in Nat
    BY <1>1, <1>2
  <2> QED BY <1>3, <2>1, PartOfPart DEF N
<1>12. CASE hits = {}
  <2>1. Ends1(line, e, n) = {}
    BY <1>4, <1>9, <1>7, <1>12, <1>3a
  <2>2. EndOf(line, n) = N + 1
    BY <1>2, <2>1 DEF NextEnd, N, s
  <2>3. m = Len(typed) /\ m \in Nat /\ ~(m > 0 /\ typed[m] = word)
    BY <1>7, <1>12, <1>3a, <1>3b
  <2>4. Take(typed, m) = typed
    BY <1>6, <2>3, TakeIs
  <2>5. DocOf(line, n) = typed
    <3>1. EndOf(line, n) - 1 = N
      BY <1>1, <2>2
    <3> QED BY <1>3, <1>5, <3>1
  <2>6. Drop(typed, m) = <<>>
    <3>1. Drop(typed, m) \in Seq(String) /\ Len(Drop(typed, m)) = 0
      BY <1>6, <2>3, DropIs
    <3> QED BY <3>1, EmptySeq
  <2>7. SubSeq(s, (N + 1) + 1, N) = <<>>
    <3>1. (N + 1) + 1 \in Nat \ {0} /\ N \in Int /\ N <= Len(s) /\ ~((N + 1) + 1 <= N)
      BY <1>1 DEF N
    <3>2. SubSeq(s, (N + 1) + 1, N) \in Seq(String) /\ Len(SubSeq(s, (N + 1) + 1, N)) = 0
      BY <1>1, <3>1, PartIs
    <3> QED BY <3>2, EmptySeq
  <2>8. /\ m \in 0..Len(typed)
        /\ Take(typed, IF m > 0 /\ typed[m] = word THEN m - 1 ELSE m) = DocOf(line, n)
    BY <1>7, <2>3, <2>4, <2>5
  <2>9. Drop(typed, m) = SubSeq(s, EndOf(line, n) + 1, N)
    BY <2>2, <2>6, <2>7
  <2> QED BY <1>6, <2>8, <2>9 DEF done
<1>13. CASE hits # {}
  <2>1. m \in hits /\ \A k \in hits : m <= k
    BY <1>10, <1>13, <1>3b, MinIs
  <2>2. m \in 1..Len(typed) /\ typed[m] = word
    BY <1>7, <1>3a, <2>1
  <2>3. e + m \in Ends1(line, e, n) /\ \A k \in Ends1(line, e, n) : e + m <= k
    <3>1. e + m \in (e + 1)..N /\ s[e + m] = word
      BY <1>8, <2>2
    <3>2. ASSUME NEW k \in Ends1(line, e, n) PROVE e + m <= k
      <4>1. k \in (e + 1)..N /\ s[k] = word
        BY <1>4
      <4>2. k - e \in hits
        BY <1>7, <1>9, <1>3a, <4>1
      <4> QED BY <1>1, <1>2, <1>7, <2>1, <2>2, <4>1, <4>2
    <3> QED BY <1>4, <3>1, <3>2
  <2>4. EndOf(line, n) = e + m
    <3>1. Ends1(line, e, n) \in SUBSET Nat /\ Ends1(line, e, n) # {}
      BY <1>1, <1>2, <1>4, <2>3
    <3>2. /\ Min(Ends1(line, e, n)) \in Ends1(line, e, n)
          /\ \A k \in Ends1(line, e, n) : Min(Ends1(line, e, n)) <= k
      BY <3>1, MinIs
    <3>3. Min(Ends1(line, e, n)) = e + m
      <4> DEFINE q == Min(Ends1(line, e, n))
      <4>1. q <= e + m /\ e + m <= q /\ q \in Nat /\ e + m \in Nat
        BY <2>3, <3>1, <3>2
      <4> HIDE DEF q
      <4>2. q = e + m
        BY <4>1
      <4> QED BY <4>2 DEF q
    <3> QED BY <1>2, <3>1, <3>3 DEF NextEnd
  <2>5. Len(typed) = N - e /\ e \in Nat
    BY <1>1, <1>2, <1>6, <2>2
  <2>6. Take(typed, m - 1) = DocOf(line, n)
    <3>1. Take(typed, m - 1) = SubSeq(typed, 1, m - 1)
      <4>1. m - 1 \in Nat /\ m - 1 <= Len(typed)
        BY <1>7, <2>2
      <4> QED BY <1>6, <4>1, TakeIs
    <3>2. SubSeq(typed, 1, m - 1) = SubSeq(s, e + 1, e + (m - 1))
      <4>1. 1 \in Nat \ {0} /\ m - 1 \in Int /\ m - 1 <= Len(typed) /\ m - 1 <= N - e
        BY <1>7, <2>2, <2>5
      <4> QED BY <1>11, <4>1
    <3>3. e + (m - 1) = EndOf(line, n) - 1
      BY <2>2, <2>4, <2>5
    <3> QED BY <1>5, <3>1, <3>2, <3>3
  <2>7. Drop(typed, m) = SubSeq(s, EndOf(line, n) + 1, N)
    <3>1. Drop(typed, m) = SubSeq(typed, m + 1, Len(typed))
      <4>1. m \in Nat
        BY <2>2
      <4> QED BY <1>6, <4>1, DropIs
    <3>2. SubSeq(typed, m + 1, Len(typed)) = SubSeq(s, e + (m + 1), e + Len(typed))
      <4>1. m + 1 \in Nat \ {0} /\ Len(typed) \in Int /\ Len(typed) <= Len(typed) /\ Len(typed) <= N - e
        BY <1>7, <2>2, <2>5
      <4> QED BY <1>11, <4>1
    <3>3. e + (m + 1) = EndOf(line, n) + 1 /\ e + Len(typed) = N
      BY <1>1, <2>2, <2>4, <2>5
    <3> QED BY <3>1, <3>2, <3>3
  <2>8. m > 0 /\ m \in 0..Len(typed)
    BY <1>7, <2>2
  <2> QED BY <1>6, <2>2, <2>6, <2>7, <2>8 DEF done
<1> QED BY <1>12, <1>13

LEMMA KeptByReading ==
    ASSUME HereInv, Lists, Control, NEW n \in 0..Len(stdin), ReadDoc(n)
    PROVE  HereInv'
<1> DEFINE line == lines[1]
           D == DocsOf(line)
           delimiter == docs[1].word
           taken == ReaderTakes(delimiter)
           text == IF n > 0 /\ stdin[n] = delimiter THEN n - 1 ELSE n
           done == ReadSoFar
<1>1. /\ spc = "prompt" /\ spc' = "prompt" /\ docs # <<>>
      /\ n = taken \/ (n < taken /\ faults > 0)
      /\ IF n = taken THEN faults' = faults ELSE faults' = faults - 1
      /\ tmp' = [k \in DOMAIN tmp \union {docs[1].key} |->
                    IF k = docs[1].key THEN Take(stdin, text) ELSE tmp[k]]
      /\ stdin' = Drop(stdin, line.block * ((n + line.block - 1) \div line.block))
      /\ docs' = Tail(docs)
      /\ UNCHANGED lines
  BY Zenon DEF ReadDoc
<1>2. lines # <<>> /\ line \in CommandLine
  BY <1>1, TypesInHand DEF Control
<1>3. D = LineDocs /\ D = LineDocs'
  BY <1>1 DEF LineDocs
<1>4. 1 \in DOMAIN lines
  <2>1. Len(lines) \in Nat /\ Len(lines) # 0 /\ DOMAIN lines = 1..Len(lines)
    BY <1>2, LenProperties, EmptySeq DEF Lists
  <2> QED BY <2>1
<1>5. KeysTell(D) /\ faults \in 0..MaxFaults /\ DocsInOrder
      /\ (Undisturbed => ReadInOrder /\ FilesAreDocs)
  BY <1>1, <1>4 DEF HereInv
<1>6. D \in Seq(Redirection) /\ Len(D) \in Nat /\ DOMAIN D = 1..Len(D)
  BY <1>2, DocsType, LenProperties
<1> HIDE DEF line, D, taken, text, done
<1>7. done \in 0..Len(D) /\ docs = SubSeq(D, done + 1, Len(D))
  BY <1>3, <1>5 DEF DocsInOrder, done
<1>8. /\ docs \in Seq(Redirection)
      /\ Len(docs) = IF done + 1 <= Len(D) THEN Len(D) - (done + 1) + 1 ELSE 0
      /\ \A k \in 1..(Len(D) - (done + 1) + 1) : docs[k] = D[(done + 1) + k - 1]
  <2>1. done + 1 \in Nat \ {0} /\ Len(D) \in Int /\ Len(D) <= Len(D)
    BY <1>6, <1>7
  <2> QED BY <1>6, <1>7, <2>1, PartIs
<1>9. Len(docs) # 0 /\ Len(docs) \in Nat
  BY <1>1, <1>8, LenProperties, EmptySeq
<1>10. done + 1 \in 1..Len(D) /\ docs[1] = D[done + 1] /\ Len(docs) = Len(D) - done
  <2>1. done + 1 <= Len(D)
    BY <1>8, <1>9
  <2>2. 1 \in 1..(Len(D) - (done + 1) + 1) /\ (done + 1) + 1 - 1 = done + 1
    BY <1>6, <1>7, <2>1
  <2>3. docs[1] = D[(done + 1) + 1 - 1]
    BY <1>8, <2>2
  <2> QED BY <1>6, <1>7, <1>8, <2>1, <2>2, <2>3
<1>11. Len(docs') = Len(docs) - 1 /\ docs' = SubSeq(D, (done + 1) + 1, Len(D))
  <2>1. Tail(docs) = SubSeq(docs, 2, Len(docs)) /\ Len(Tail(docs)) = Len(docs) - 1
    BY <1>1, <1>8, FirstOf, TailIsSubSeq
  <2>2. SubSeq(SubSeq(D, done + 1, Len(D)), 2, Len(docs)) = SubSeq(D, done + 2, done + Len(docs))
    <3>1. /\ done \in Nat /\ 2 \in Nat \ {0} /\ Len(docs) \in Int
          /\ Len(docs) <= Len(SubSeq(D, done + 1, Len(D))) /\ Len(docs) <= Len(D) - done
      <4>1. Len(docs) \in Nat /\ Len(docs) = Len(SubSeq(D, done + 1, Len(D)))
        BY <1>7, <1>9
      <4>2. Len(docs) = Len(D) - done
        BY <1>10
      <4>3. Len(docs) <= Len(SubSeq(D, done + 1, Len(D))) /\ Len(docs) <= Len(D) - done
        <5> DEFINE l == Len(docs)
        <5>1. l \in Nat /\ l = Len(SubSeq(D, done + 1, Len(D))) /\ l = Len(D) - done
          BY <4>1, <4>2
        <5>2. l <= l
          BY <5>1
        <5> HIDE DEF l
        <5>3. l <= Len(SubSeq(D, done + 1, Len(D))) /\ l <= Len(D) - done
          BY <5>1, <5>2, Zenon
        <5> QED BY <5>3 DEF l
      <4> QED BY <1>7, <4>1, <4>3
    <3> QED BY <1>6, <3>1, PartOfPart
  <2>3. done + 2 = (done + 1) + 1 /\ done + Len(docs) = Len(D)
    BY <1>6, <1>7, <1>10
  <2> QED BY <1>1, <1>7, <2>1, <2>2, <2>3
<1>12. ReadSoFar' = done + 1
  <2>1. ReadSoFar' = Len(D) - Len(docs')
    BY <1>3 DEF ReadSoFar
  <2>2. Len(docs') = Len(D) - done - 1
    BY <1>6, <1>7, <1>10, <1>11
  <2> QED BY <1>6, <1>7, <2>1, <2>2
<1>13. DocsInOrder'
  <2>1. done + 1 \in 0..Len(D)
    BY <1>6, <1>7, <1>10
  <2> QED BY <1>3, <1>11, <1>12, <2>1 DEF DocsInOrder
<1>14. faults' \in 0..MaxFaults /\ (faults' = MaxFaults => n = taken /\ faults = MaxFaults)
  <2>1. MaxFaults \in Nat /\ (n = taken \/ n < taken) /\ n \in Int
    BY <1>1, StartsAssumption
  <2>2. CASE n = taken
    BY <1>1, <1>5, <2>2
  <2>3. CASE n # taken
    <3>1. faults > 0 /\ faults' = faults - 1
      BY <1>1, <2>3
    <3> QED BY <1>5, <2>1, <3>1
  <2> QED BY <2>2, <2>3
<1>15. ASSUME Undisturbed'
       PROVE  ReadInOrder' /\ FilesAreDocs'
  <2>1. line.block = 1 /\ n = taken /\ Undisturbed
    BY <1>1, <1>14, <1>15 DEF Undisturbed, line
  <2>2. stdin = SubSeq(line.stdin, EndOf(line, done) + 1, Len(line.stdin))
    BY <1>5, <2>1 DEF ReadInOrder, line, done
  <2>3. (done + 1) - 1 = done
    BY <1>7
  <2>4. delimiter = D[done + 1].word
    BY <1>10
  <2>5. taken = IF {k \in DOMAIN stdin : stdin[k] = delimiter} = {} THEN Len(stdin)
                ELSE Min({k \in DOMAIN stdin : stdin[k] = delimiter})
    BY DEF taken, ReaderTakes
  <2>6. /\ Take(stdin, text) = DocOf(line, done + 1)
        /\ Drop(stdin, n) = SubSeq(line.stdin, EndOf(line, done + 1) + 1, Len(line.stdin))
    <3>1. EndOf(line, (done + 1) - 1) = EndOf(line, done)
      BY <2>3
    <3>2. line \in CommandLine /\ done + 1 \in 1..Len(DocsOf(line))
      BY <1>2, <1>10 DEF D
    <3>3. StillTyped(line, done + 1) = stdin /\ DocsOf(line)[done + 1].word = delimiter
      <4>1. StillTyped(line, done + 1) = SubSeq(line.stdin, EndOf(line, (done + 1) - 1) + 1, Len(line.stdin))
        BY DEF StillTyped
      <4>2. DocsOf(line)[done + 1].word = delimiter
        BY <2>4 DEF D
      <4> HIDE DEF delimiter
      <4> QED BY <2>2, <3>1, <4>1, <4>2, Zenon
    <3>4. TakenFor(line, done + 1) = n
      <4> HIDE DEF delimiter
      <4> QED BY <2>1, <2>5, <3>3 DEF TakenFor
    <3>5. TextFor(line, done + 1) = text
      BY <3>3, <3>4 DEF TextFor, text
    <3> QED BY <3>2, <3>3, <3>4, <3>5, ReadsADocument
  <2>7. stdin' = Drop(stdin, n)
    <3>1. line.block * ((n + line.block - 1) \div line.block) = n
      <4>1. 1 * ((n + 1 - 1) \div 1) = n
        OBVIOUS
      <4> QED BY <2>1, <4>1
    <3> QED BY <1>1, <3>1
  <2>8. ReadInOrder'
    BY <1>1, <1>12, <2>6, <2>7 DEF ReadInOrder, line
  <2>9. ASSUME NEW j \in DOMAIN D, D[j].key \in DOMAIN tmp'
        PROVE  j <= done + 1 /\ tmp'[D[j].key] = DocOf(line, j)
    <3>1. /\ DOMAIN tmp' = {docs[1].key} \cup DOMAIN tmp
          /\ tmp'[docs[1].key] = Take(stdin, text)
          /\ \A k \in DOMAIN tmp : k # docs[1].key => tmp'[k] = tmp[k]
      BY <1>1
    <3>2. CASE j = done + 1
      BY <1>7, <1>10, <2>6, <3>1, <3>2
    <3>3. CASE j # done + 1
      <4>1. D[j].key # D[done + 1].key
        BY <1>5, <1>6, <1>10, <3>3 DEF KeysTell
      <4>2. D[j].key \in DOMAIN tmp /\ tmp'[D[j].key] = tmp[D[j].key]
        BY <1>10, <2>9, <3>1, <4>1
      <4>3. j <= done /\ tmp[D[j].key] = DocOf(line, j)
        <5>1. FilesAreDocs
          BY <1>5, <2>1
        <5> QED BY <1>3, <4>2, <5>1 DEF FilesAreDocs, done, line
      <4> QED BY <1>6, <1>7, <4>2, <4>3
    <3> QED BY <3>2, <3>3
  <2>10. FilesAreDocs'
    BY <1>1, <1>3, <1>12, <2>9 DEF FilesAreDocs, line
  <2> QED BY <2>8, <2>10
<1> QED BY <1>1, <1>5, <1>13, <1>14, <1>15 DEF HereInv

LEMMA HereStep == ShellInv /\ HereInv /\ [ShellNext]_vars => HereInv'
<1> SUFFICES ASSUME Lists, Control, HereInv, [ShellNext]_vars
             PROVE  HereInv'
  BY DEF ShellInv, ControlInv
<1>1. CASE BeginLine
  BY <1>1, HereBegins
<1>2. CASE \E n \in 0..Len(stdin) : ReadDoc(n)
  BY <1>2, KeptByReading
<1>3. CASE PromptFails \/ LineDone \/ LeaveShell
  BY <1>3, HereEnds
<1>4. CASE PromptDone \/ Skip \/ StartSimple \/ StartSub \/ SubForkFails \/ SubGoesOn
  <2>1. /\ spc \in {"prompt", "next", "outer"} /\ spc' \in {"next", "expand", "outer"}
        /\ UNCHANGED <<lines, docs, tmp>>
        /\ faults' = faults \/ (faults > 0 /\ faults' = faults - 1)
    BY <1>4, Zenon DEF PromptDone, Skip, StartSimple, StartSub, SubForkFails, SubGoesOn,
                       EndCommand, lineVars
  <2> QED BY <2>1, KeptWhileExecuted
<1>5. CASE OpenFile
  <2>1. /\ spc \in {"outer", "redir"} /\ spc' = spc /\ UNCHANGED <<lines, docs, faults>>
        /\ tmp' = IF Here THEN [k \in DOMAIN tmp \ {Element.key} |-> tmp[k]] ELSE tmp
    BY <1>5, Zenon DEF OpenFile, Performs, lineVars
  <2>2. \A k \in DOMAIN tmp' : k \in DOMAIN tmp /\ tmp'[k] = tmp[k]
    BY <2>1
  <2>3. spc # "end" /\ spc' \notin {"end", "prompt"}
    BY <2>1
  <2> QED BY <2>1, <2>2, <2>3, KeptWhileExecuted
<1>6. CASE ExpandFails \/ ExpandArgs \/ ToolForkFails
  <2>1. /\ spc = "expand" /\ spc' \in {"redir", "next"} /\ UNCHANGED <<lines, docs, tmp>>
        /\ faults' = faults \/ (faults > 0 /\ faults' = faults - 1)
    BY <1>6, Zenon DEF ExpandFails, ExpandArgs, ToolForkFails, EndsWith, EndCommand, lineVars
  <2> QED BY <2>1, KeptWhileExecuted
<1>7. CASE CopyFails \/ OpenRefused \/ RedirectFailed
  <2>1. /\ spc \in {"outer", "redir"} /\ spc' \in {"outer", "redir", "next"}
        /\ UNCHANGED <<lines, docs, tmp, faults>>
    BY <1>7, Zenon DEF CopyFails, OpenRefused, RedirectFailed, Performs, EndsWith, EndCommand,
                       lineVars, shellVars
  <2> QED BY <2>1, KeptWhileExecuted
<1>8. CASE RunBuiltin \/ LeaveSubshell \/ RunTool
  <2>1. /\ spc = "redir" /\ spc' \in {"undo", "next"} /\ UNCHANGED <<lines, docs, tmp, faults>>
    BY <1>8, Zenon DEF RunBuiltin, LeaveSubshell, RunTool, EndsWith, EndCommand, lineVars
  <2> QED BY <2>1, KeptWhileExecuted
<1>9. CASE Undo \/ BuiltinEnds \/ ToolEnds
  <2>1. /\ spc = "undo" /\ spc' \in {"undo", "next"} /\ UNCHANGED <<lines, docs, tmp, faults>>
    BY <1>9, Zenon DEF Undo, BuiltinEnds, ToolEnds, EndsWith, EndCommand, lineVars, shellVars
  <2> QED BY <2>1, KeptWhileExecuted
<1>10. CASE Interrupt \/ InterruptShell
  <2>1. /\ spc \in {"undo", "expand"} /\ spc' \in {"expand", "next"} /\ UNCHANGED <<lines, docs, tmp>>
        /\ faults > 0 /\ faults' = faults - 1
    BY <1>10, Zenon DEF Interrupt, InterruptShell, EndsWith, EndCommand
  <2> QED BY <2>1, KeptWhileExecuted
<1>11. CASE ProgramEnds \/ UNCHANGED vars
  <2>1. UNCHANGED <<lines, docs, stdin, tmp, faults, spc>>
    BY <1>11 DEF ProgramEnds, vars, shellVars
  <2> QED BY <2>1 DEF HereInv, DocsInOrder, ReadInOrder, FilesAreDocs, Undisturbed, ReadSoFar, LineDocs
<1> QED
  BY <1>1, <1>2, <1>3, <1>4, <1>5, <1>6, <1>7, <1>8, <1>9, <1>10, <1>11, Zenon DEF ShellNext

LEMMA HereInvariant == ShellSpec => []HereInv
BY HereInit, HereStep, ShellInvariant, PTL DEF ShellSpec

(***************************************************************************)
(* A here document in /tmp is what was typed for it, whatever the lines,   *)
(* their documents and delimiters, as long as input comes line by line and *)
(* no reader is cut short.                                                 *)
(***************************************************************************)
THEOREM HereFilesAreTypedCorrect == ShellSpec => []HereFilesAreTyped
<1>1. HereInv => HereFilesAreTyped
  BY DEF HereInv, HereFilesAreTyped, FilesAreDocs, Undisturbed, LineDocs, DocOf
<1> QED BY <1>1, HereInvariant, PTL

----------------------------------------------------------------------------
(* Strings and entries of the environment. *)

LEMMA NullIsNoString == Null \notin String
<1> SUFFICES ASSUME Null \in Seq(Char) PROVE FALSE
  BY DEF String
<1>1. Len(Null) = 1 /\ Null[1] = "null"
  BY DEF Null
<1>2. Null[1] \in Char
  BY <1>1, ElementOfSeq
<1> QED BY <1>1, <1>2, EnvironAssumption

LEMMA PlaceOfIs ==
    ASSUME NEW X, NEW s \in Seq(X), NEW c
    PROVE  /\ PlaceOf(s, c) \in 0..Len(s)
           /\ PlaceOf(s, c) # 0 => s[PlaceOf(s, c)] = c
           /\ \A k \in 1..Len(s) : s[k] = c => PlaceOf(s, c) # 0 /\ PlaceOf(s, c) <= k
<1> DEFINE places == {k \in 1..Len(s) : s[k] = c}
<1>1. Len(s) \in Nat
  BY LenProperties
<1>2. CASE places = {}
  BY <1>1, <1>2 DEF PlaceOf
<1>3. CASE places # {}
  <2>1. places \in SUBSET Nat
    BY <1>1
  <2>2. \A k \in places : k \in 1..Len(s) /\ s[k] = c
    OBVIOUS
  <2>3. \A k \in 1..Len(s) : s[k] = c => k \in places
    OBVIOUS
  <2>4. PlaceOf(s, c) = Min(places)
    BY <1>3 DEF PlaceOf
  <2> HIDE DEF places
  <2>5. Min(places) \in places /\ \A k \in places : Min(places) <= k
    BY <1>3, <2>1, MinIs
  <2>6. PlaceOf(s, c) \in 1..Len(s) /\ s[PlaceOf(s, c)] = c
    BY <2>2, <2>4, <2>5
  <2>7. \A k \in 1..Len(s) : s[k] = c => PlaceOf(s, c) <= k
    BY <2>3, <2>4, <2>5
  <2> QED BY <1>1, <2>6, <2>7
<1> QED BY <1>2, <1>3

LEMMA AtIs ==
    ASSUME NEW X, NEW s \in Seq(X), NEW I \in SUBSET DOMAIN s
    PROVE  /\ At(s, I) \in Seq(X) /\ Len(At(s, I)) = Cardinality(I)
           /\ \A k \in 1..Cardinality(I) :
                 InOrder(I, Less(I))[k] \in I /\ At(s, I)[k] = s[InOrder(I, Less(I))[k]]
<1>1. /\ IsFiniteSet(I) /\ I \in SUBSET Nat
  <2>1. Len(s) \in Nat /\ DOMAIN s = 1..Len(s)
    BY LenProperties
  <2>2. IsFiniteSet(1..Len(s))
    BY <2>1, FS_Interval
  <2> QED BY <2>1, <2>2, FS_Subset
<1>2. StrictOrder(Less(I), I)
  BY <1>1, LessIsStrictOrder
<1>3. At(s, I) \in Seq(X) /\ Len(At(s, I)) = Cardinality(I)
  BY <1>2, PickTakesAll DEF At
<1>4. InOrder(I, Less(I)) \in [1..Cardinality(I) -> I]
  BY <1>1, <1>2, InOrderLists
<1>5. \A k \in 1..Cardinality(I) : At(s, I)[k] = s[InOrder(I, Less(I))[k]]
  BY <1>4 DEF At, Pick
<1> QED BY <1>3, <1>4, <1>5

LEMMA GetValueType ==
    ASSUME NEW name \in String, NEW env \in Seq(String)
    PROVE  GetValue(name, env) \in String \cup {Null}
<1> DEFINE found == {k \in DOMAIN env : Take(env[k], Len(name) + 1) = name \o <<"=">>}
<1>1. CASE found = {}
  BY <1>1 DEF GetValue
<1>2. CASE found # {}
  <2>1. Len(env) \in Nat /\ DOMAIN env = 1..Len(env) /\ Len(name) + 1 \in Nat
    BY LenProperties DEF String
  <2>2. found \in SUBSET Nat /\ \A k \in found : k \in 1..Len(env)
    BY <2>1
  <2>3. GetValue(name, env) = Drop(env[Min(found)], Len(name) + 1)
    BY <1>2 DEF GetValue
  <2> HIDE DEF found
  <2>4. Min(found) \in 1..Len(env)
    BY <1>2, <2>2, MinIs
  <2>5. env[Min(found)] \in String
    BY <2>4, ElementOfSeq
  <2> QED BY <2>1, <2>3, <2>5, DropIs DEF String
<1> QED BY <1>1, <1>2

(***************************************************************************)
(* Parts of a string are strings.                                          *)
(***************************************************************************)
LEMMA SplitType ==
    ASSUME NEW s \in String, NEW sep
    PROVE  Split(s, sep) \in Seq(String)
<1> DEFINE cuts == {k \in 1..Len(s) : s[k] = sep}
           starts == {k \in 1..Len(s) : k \notin cuts /\ (k = 1 \/ k - 1 \in cuts)}
           Ends2(k) == {j \in k..Len(s) : j = Len(s) \/ j + 1 \in cuts}
           order == InOrder(starts, Less(starts))
<1>1. s \in Seq(Char) /\ Len(s) \in Nat
  BY LenProperties DEF String
<1>2. starts \in SUBSET (1..Len(s))
  OBVIOUS
<1>3. Split(s, sep) = [n \in DOMAIN order |-> SubSeq(s, order[n], Min(Ends2(order[n])))]
  BY DEF Split
<1>4. ASSUME NEW k \in 1..Len(s)
      PROVE  SubSeq(s, k, Min(Ends2(k))) \in String
  <2>1. Ends2(k) \in SUBSET Nat /\ Len(s) \in Ends2(k) /\ \A j \in Ends2(k) : j \in k..Len(s)
    BY <1>1
  <2> HIDE DEF Ends2
  <2>2. Min(Ends2(k)) \in k..Len(s)
    BY <2>1, MinIs
  <2>3. k \in Nat \ {0} /\ Min(Ends2(k)) \in Int /\ Min(Ends2(k)) <= Len(s)
    BY <1>1, <2>2
  <2> QED BY <1>1, <2>3, PartIs DEF String
<1> HIDE DEF starts, Ends2
<1>5. IsFiniteSet(starts) /\ starts \in SUBSET Nat
  <2>1. IsFiniteSet(1..Len(s))
    BY <1>1, FS_Interval
  <2>2. starts \in SUBSET Nat
    BY <1>1, <1>2
  <2> QED BY <1>2, <2>1, <2>2, FS_Subset
<1>6. Cardinality(starts) \in Nat /\ order \in [1..Cardinality(starts) -> starts]
  BY <1>5, LessIsStrictOrder, InOrderLists
<1> HIDE DEF order
<1>7. \A n \in 1..Cardinality(starts) : order[n] \in 1..Len(s)
  BY <1>2, <1>6
<1>8. DOMAIN order = 1..Cardinality(starts)
  BY <1>6
<1> DEFINE Part(k) == SubSeq(s, k, Min(Ends2(k)))
<1>9. \A n \in 1..Cardinality(starts) : Part(order[n]) \in String
  BY <1>4, <1>7
<1>10. Split(s, sep) = [n \in 1..Cardinality(starts) |-> Part(order[n])]
  BY <1>3, <1>8
<1> HIDE DEF Part
<1> QED BY <1>6, <1>9, <1>10

(***************************************************************************)
(* What one argument of `export` does to the environment.                  *)
(***************************************************************************)
LEMMA StringParts ==
    ASSUME NEW s \in String, NEW n \in Nat
    PROVE  Take(s, n) \in String /\ Drop(s, n) \in String /\ Len(s) \in Nat
BY TakeIs, DropIs, LenProperties DEF String

LEMMA StringsJoined ==
    ASSUME NEW s \in String, NEW t \in String
    PROVE  s \o t \in String
BY ConcatProperties DEF String

LEMMA FirstFound ==
    ASSUME NEW X, NEW s \in Seq(X), NEW found \in SUBSET DOMAIN s, found # {}
    PROVE  /\ Min(found) \in found /\ Min(found) \in 1..Len(s) /\ s[Min(found)] \in X
           /\ \A k \in found : Min(found) <= k
<1>1. Len(s) \in Nat /\ DOMAIN s = 1..Len(s)
  BY LenProperties
<1>2. found \in SUBSET Nat /\ \A k \in found : k \in 1..Len(s)
  BY <1>1
<1>3. Min(found) \in found /\ \A k \in found : Min(found) <= k
  BY <1>2, MinIs
<1> QED BY <1>2, <1>3, ElementOfSeq

LEMMA NamedChars ==
    {"\n", " ", "=", "+", "-", "/", ".", "$", "'", "\""} \subseteq Char
BY EnvironAssumption

LEMMA HandlePlusType ==
    ASSUME NEW env \in Seq(String), NEW s \in String, Holds(s, "+")
    PROVE  HandlePlus(env, s) \in Seq(String)
<1> DEFINE n == PlaceOf(s, "+") - 1
           found == {k \in DOMAIN env : Take(env[k], n) = Take(s, n)}
           Grown(e) == e \o (IF Holds(e, "=") THEN <<>> ELSE <<"=">>) \o Drop(s, n + 2)
<1>1. n \in Nat /\ n + 2 \in Nat
  <2>1. PlaceOf(s, "+") \in 0..Len(s) /\ PlaceOf(s, "+") > 0 /\ Len(s) \in Nat
    BY PlaceOfIs, LenProperties DEF Holds, String
  <2> QED BY <2>1
<1>2. HandlePlus(env, s) = IF found = {} THEN Append(env, s)
                           ELSE [env EXCEPT ![Min(found)] = Grown(env[Min(found)])]
  BY DEF HandlePlus
<1>3. found \in SUBSET DOMAIN env
  OBVIOUS
<1> HIDE DEF found, n
<1>4. CASE found = {}
  BY <1>2, <1>4, AppendProperties
<1>5. CASE found # {}
  <2>1. Min(found) \in 1..Len(env) /\ env[Min(found)] \in String
    BY <1>3, <1>5, FirstFound
  <2>2. <<"=">> \in String /\ <<>> \in String
    <3>1. "=" \in Char
      BY NamedChars
    <3>2. <<"=">> \in Seq(Char) /\ <<>> \in Seq(Char)
      BY <3>1, EmptySeq
    <3> QED BY <3>2 DEF String
  <2>3. Grown(env[Min(found)]) \in String
    <3>1. Drop(s, n + 2) \in String
      BY <1>1, StringParts
    <3> QED BY <2>1, <2>2, <3>1, StringsJoined
  <2> HIDE DEF Grown
  <2> QED BY <1>2, <1>5, <2>1, <2>3, ExceptSeq
<1> QED BY <1>4, <1>5

LEMMA HandleEqualType ==
    ASSUME NEW env \in Seq(String), NEW s \in String, NEW wraps
    PROVE  HandleEqual(env, s, wraps) \in Seq(String)
<1> DEFINE n == NameLength(s, wraps)
           found == {k \in DOMAIN env :
                     IF Holds(s, "=")
                     THEN NameLength(env[k], wraps) = n /\ Take(env[k], n) = Take(s, n)
                     ELSE IF n > 0 THEN Take(env[k], n) = s ELSE env[k] = s}
<1>1. HandleEqual(env, s, wraps) =
          IF found = {} THEN Append(env, s)
          ELSE IF Holds(s, "=") THEN [env EXCEPT ![Min(found)] = s] ELSE env
  BY Zenon DEF HandleEqual
<1>2. found \in SUBSET DOMAIN env
  OBVIOUS
<1> HIDE DEF found
<1>3. CASE found = {}
  <2>1. HandleEqual(env, s, wraps) = Append(env, s)
    BY <1>1, <1>3
  <2>2. Append(env, s) \in Seq(String)
    BY AppendProperties
  <2> QED BY <2>1, <2>2
<1>4. CASE found # {}
  <2>1. Min(found) \in 1..Len(env)
    BY <1>2, <1>4, FirstFound
  <2>2. [env EXCEPT ![Min(found)] = s] \in Seq(String)
    BY <2>1, ExceptSeq
  <2>3. HandleEqual(env, s, wraps) \in {[env EXCEPT ![Min(found)] = s], env}
    BY <1>1, <1>4
  <2> QED BY <2>2, <2>3
<1> QED BY <1>3, <1>4

LEMMA UpdateVariableType ==
    ASSUME NEW ctx0 \in Context, NEW s \in String
    PROVE  UpdateVariable(ctx0, s) \in Context
<1>1. ctx0.env \in Seq(String)
  BY DEF Context
<1> DEFINE e == IF Holds(s, "+") THEN HandlePlus(ctx0.env, s)
                ELSE HandleEqual(ctx0.env, s, ctx0.wraps)
<1>2. e \in Seq(String)
  BY <1>1, HandlePlusType, HandleEqualType
<1>3. UpdateVariable(ctx0, s) = [ctx0 EXCEPT !.env = e]
  BY DEF UpdateVariable
<1> HIDE DEF e
<1> QED BY <1>2, <1>3 DEF Context

Results == [ctx : Context, status : {0, 1}]

LEMMA ExportOneType ==
    ASSUME NEW r \in Results, NEW s \in String
    PROVE  ExportOne(r, s) \in Results
<1> DEFINE shown == r.ctx.unset_path /\ Take(s, 5) # Str("PATH=")
           ctx0 == [r.ctx EXCEPT !.unset_path = shown]
<1>1. r.ctx \in Context /\ ctx0 \in Context
  BY DEF Results, Context
<1>2. ExportOne(r, s) \in {r, [ctx |-> ctx0, status |-> 1], [ctx |-> ctx0, status |-> 0],
                          [ctx |-> UpdateVariable(ctx0, s), status |-> 0]}
  BY DEF ExportOne
<1> HIDE DEF ctx0
<1>3. UpdateVariable(ctx0, s) \in Context
  BY <1>1, UpdateVariableType
<1> QED BY <1>1, <1>2, <1>3 DEF Results

(***************************************************************************)
(* The arguments of `export` are taken one after the other.                *)
(***************************************************************************)
LEMMA ExportSteps ==
    ASSUME NEW ctx0 \in Context, NEW list \in Seq(String)
    PROVE  \E r \in [0..Len(list) -> Results] :
              /\ r[0] = [ctx |-> ctx0, status |-> 0]
              /\ \A k \in 1..Len(list) : r[k] = ExportOne(r[k - 1], list[k])
              /\ Export(ctx0, list) = r[Len(list)]
<1> DEFINE n == Len(list)
           S == Results
           a == [ctx |-> ctx0, status |-> 0]
           step == [p \in S \X (1..n) |-> ExportOne(p[1], list[p[2]])]
           Is(g) == g = [t \in SUBSET (DOMAIN list) |->
                          IF t = {} THEN a
                          ELSE ExportOne(g[t \ {Max(t)}], list[Max(t)])]
           iter == CHOOSE g : Is(g)
           r == [k \in 0..n |-> iter[1..k]]
<1>1. n \in Nat /\ DOMAIN list = 1..n /\ \A k \in 1..n : list[k] \in String
  BY LenProperties, ElementOfSeq
<1>2. a \in S /\ step \in [S \X (1..n) -> S]
  BY <1>1, ExportOneType DEF Results
<1>3. Export(ctx0, list) = iter[DOMAIN list]
  BY DEF Export, FoldLeft, MapThenFoldSet
<1> HIDE DEF n, a, S
<1>4. Is(iter)
  <2>1. PICK g \in [SUBSET (1..n) -> S] : IsFold(g, n, a, step)
    <3> HIDE DEF step
    <3> QED BY <1>1, <1>2, FoldExists
  <2>2. ASSUME NEW t \in SUBSET (1..n), t # {}
        PROVE  step[<<g[t \ {Max(t)}], Max(t)>>] = ExportOne(g[t \ {Max(t)}], list[Max(t)])
    <3>1. Max(t) \in 1..n
      BY <1>1, <2>2, MaxIs
    <3>2. g[t \ {Max(t)}] \in S
      OBVIOUS
    <3> QED BY <3>1, <3>2
  <2> HIDE DEF step
  <2>3. Is(g)
    BY <1>1, <2>1, <2>2 DEF IsFold
  <2> HIDE DEF Is
  <2> QED BY <2>3
<1> HIDE DEF iter
<1>5. IsPath(r, n, S, a, step)
  <2>1. iter[{}] = a
    BY <1>4
  <2>2. ASSUME NEW t \in SUBSET (1..n), t # {}, iter[t \ {Max(t)}] \in S
        PROVE  iter[t] = step[<<iter[t \ {Max(t)}], Max(t)>>]
    <3>1. Max(t) \in 1..n
      BY <1>1, <2>2, MaxIs
    <3>2. iter[t] = ExportOne(iter[t \ {Max(t)}], list[Max(t)])
      BY <1>1, <1>4, <2>2
    <3> QED BY <2>2, <3>1, <3>2
  <2> HIDE DEF step, Is
  <2>3. \A t \in SUBSET (1..n) : t # {} /\ iter[t \ {Max(t)}] \in S
                => iter[t] = step[<<iter[t \ {Max(t)}], Max(t)>>]
    BY <2>2
  <2> QED BY <1>1, <1>2, <2>1, <2>3, FoldIsPath, Zenon
<1>6. r[n] = iter[DOMAIN list]
  BY <1>1
<1> HIDE DEF r
<1>7. r \in [0..n -> S] /\ r[0] = a /\ \A k \in 1..n : r[k] = step[<<r[k - 1], k>>]
  BY <1>5 DEF IsPath
<1>8. \A k \in 1..n : r[k] = ExportOne(r[k - 1], list[k])
  <2>1. \A k \in 1..n : r[k - 1] \in S
    BY <1>1, <1>7
  <2> QED BY <1>7, <2>1
<1> QED BY <1>3, <1>6, <1>7, <1>8 DEF n, S, a

LEMMA ExportType ==
    ASSUME NEW ctx0 \in Context, NEW list \in Seq(String)
    PROVE  Export(ctx0, list) \in Results
<1>1. Len(list) \in 0..Len(list)
  BY LenProperties
<1>2. PICK r \in [0..Len(list) -> Results] : Export(ctx0, list) = r[Len(list)]
  BY ExportSteps
<1> QED BY <1>1, <1>2

(***************************************************************************)
(* What `unset` does.                                                      *)
(***************************************************************************)
Kept1(env, s) ==
    {k \in DOMAIN env :
        /\ Holds(env[k], "=")
        /\ Take(s, PlaceOf(env[k], "=") - 1) # Take(env[k], PlaceOf(env[k], "=") - 1)}

LEMMA UnsetOneIs ==
    ASSUME NEW ctx0 \in Context, NEW s \in String
    PROVE  /\ UnsetOne(ctx0, s) \in Context
           /\ UnsetOne(ctx0, s).env = At(ctx0.env, Kept1(ctx0.env, s))
<1> DEFINE u == ctx0.unset_path /\ Take(s, 4) # Str("PATH")
           e == At(ctx0.env, Kept1(ctx0.env, s))
<1>1. ctx0.env \in Seq(String) /\ u \in BOOLEAN
  BY DEF Context
<1>2. e \in Seq(String)
  <2>1. Kept1(ctx0.env, s) \in SUBSET DOMAIN ctx0.env
    BY DEF Kept1
  <2> QED BY <1>1, <2>1, AtIs
<1>3. UnsetOne(ctx0, s) = [ctx0 EXCEPT !.unset_path = u, !.env = e]
  BY DEF UnsetOne, Kept1
<1> HIDE DEF u, e
<1>4. UnsetOne(ctx0, s) \in Context /\ UnsetOne(ctx0, s).env = e
  BY <1>1, <1>2, <1>3 DEF Context
<1> QED BY <1>4 DEF e

LEMMA UnsetSteps ==
    ASSUME NEW ctx0 \in Context, NEW list \in Seq(String)
    PROVE  \E r \in [0..Len(list) -> Context] :
              /\ r[0] = ctx0
              /\ \A k \in 1..Len(list) : r[k] = UnsetOne(r[k - 1], list[k])
              /\ Unset(ctx0, list) = [ctx |-> r[Len(list)], status |-> 0]
<1> DEFINE n == Len(list)
           S == Context
           step == [p \in S \X (1..n) |-> UnsetOne(p[1], list[p[2]])]
           Is(g) == g = [t \in SUBSET (DOMAIN list) |->
                          IF t = {} THEN ctx0
                          ELSE UnsetOne(g[t \ {Max(t)}], list[Max(t)])]
           iter == CHOOSE g : Is(g)
           r == [k \in 0..n |-> iter[1..k]]
<1>1. n \in Nat /\ DOMAIN list = 1..n /\ \A k \in 1..n : list[k] \in String
  BY LenProperties, ElementOfSeq
<1>2. ctx0 \in S /\ step \in [S \X (1..n) -> S]
  BY <1>1, UnsetOneIs
<1>3. Unset(ctx0, list) = [ctx |-> iter[DOMAIN list], status |-> 0]
  BY DEF Unset, FoldLeft, MapThenFoldSet
<1> HIDE DEF n, S
<1>4. Is(iter)
  <2>1. PICK g \in [SUBSET (1..n) -> S] : IsFold(g, n, ctx0, step)
    <3> HIDE DEF step
    <3> QED BY <1>1, <1>2, FoldExists
  <2>2. ASSUME NEW t \in SUBSET (1..n), t # {}
        PROVE  step[<<g[t \ {Max(t)}], Max(t)>>] = UnsetOne(g[t \ {Max(t)}], list[Max(t)])
    <3>1. Max(t) \in 1..n
      BY <1>1, <2>2, MaxIs
    <3>2. g[t \ {Max(t)}] \in S
      OBVIOUS
    <3> QED BY <3>1, <3>2
  <2> HIDE DEF step
  <2>3. Is(g)
    BY <1>1, <2>1, <2>2 DEF IsFold
  <2> HIDE DEF Is
  <2> QED BY <2>3
<1> HIDE DEF iter
<1>5. IsPath(r, n, S, ctx0, step)
  <2>1. iter[{}] = ctx0
    BY <1>4
  <2>2. ASSUME NEW t \in SUBSET (1..n), t # {}, iter[t \ {Max(t)}] \in S
        PROVE  iter[t] = step[<<iter[t \ {Max(t)}], Max(t)>>]
    <3>1. Max(t) \in 1..n
      BY <1>1, <2>2, MaxIs
    <3>2. iter[t] = UnsetOne(iter[t \ {Max(t)}], list[Max(t)])
      BY <1>1, <1>4, <2>2
    <3> QED BY <2>2, <3>1, <3>2
  <2> HIDE DEF step, Is
  <2>3. \A t \in SUBSET (1..n) : t # {} /\ iter[t \ {Max(t)}] \in S
                => iter[t] = step[<<iter[t \ {Max(t)}], Max(t)>>]
    BY <2>2
  <2> QED BY <1>1, <1>2, <2>1, <2>3, FoldIsPath, Zenon
<1>6. r[n] = iter[DOMAIN list]
  BY <1>1
<1> HIDE DEF r
<1>7. r \in [0..n -> S] /\ r[0] = ctx0 /\ \A k \in 1..n : r[k] = step[<<r[k - 1], k>>]
  BY <1>5 DEF IsPath
<1>8. \A k \in 1..n : r[k] = UnsetOne(r[k - 1], list[k])
  <2>1. \A k \in 1..n : r[k - 1] \in S
    BY <1>1, <1>7
  <2> QED BY <1>7, <2>1
<1> QED BY <1>3, <1>6, <1>7, <1>8 DEF n, S

LEMMA UnsetType ==
    ASSUME NEW ctx0 \in Context, NEW list \in Seq(String)
    PROVE  Unset(ctx0, list) \in Results
<1>1. Len(list) \in 0..Len(list)
  BY LenProperties
<1> QED BY <1>1, UnsetSteps DEF Results

(***************************************************************************)
(* What `cd` does.                                                         *)
(***************************************************************************)
LEMMA ChangeDirType ==
    ASSUME NEW ctx0 \in Context, NEW list \in Seq(String)
    PROVE  ChangeDir(ctx0, list) \in Results
<1>1. \A d \in Dirs : d \in String
  BY EnvironAssumption
<1>2. ASSUME NEW d \in Dirs PROVE ExcuteSuccess(ctx0, d) \in Context
  <2> DEFINE old == Export(ctx0, <<Str("OLDPWD=") \o ctx0.last_pwd>>).ctx
  <2>1. Str("OLDPWD=") \in String /\ ctx0.last_pwd \in String
    BY TextsAssumption DEF Context
  <2>2. <<Str("OLDPWD=") \o ctx0.last_pwd>> \in Seq(String)
    <3>1. Str("OLDPWD=") \o ctx0.last_pwd \in String
      BY <2>1, StringsJoined
    <3> QED BY <3>1
  <2>3. old \in Context
    BY <2>2, ExportType DEF Results
  <2>4. ExcuteSuccess(ctx0, d) = [old EXCEPT !.cwd = d, !.last_pwd = d]
    BY DEF ExcuteSuccess
  <2> HIDE DEF old
  <2> QED BY <1>1, <2>3, <2>4 DEF Context
<1>3. HomePath(ctx0) \in Results
  <2> DEFINE home == GetValue(Str("HOME"), ctx0.env)
  <2>1. HomePath(ctx0) =
          IF home \in Dirs
          THEN [ctx |-> [ctx0 EXCEPT !.cwd = home, !.last_pwd = home], status |-> 0]
          ELSE [ctx |-> ctx0, status |-> 1]
    BY DEF HomePath
  <2> HIDE DEF home
  <2>2. ASSUME home \in Dirs PROVE [ctx0 EXCEPT !.cwd = home, !.last_pwd = home] \in Context
    BY <1>1, <2>2 DEF Context
  <2> QED BY <2>1, <2>2 DEF Results
<1>4. ChangeDir(ctx0, list) \in {HomePath(ctx0), [ctx |-> ctx0, status |-> 1]}
        \cup {[ctx |-> ExcuteSuccess(ctx0, d), status |-> 0] : d \in Dirs}
  BY DEF ChangeDir
<1> QED BY <1>2, <1>3, <1>4 DEF Results

(***************************************************************************)
(* The environment a line starts with.                                     *)
(***************************************************************************)
LEMMA AtoiType ==
    ASSUME NEW s \in String
    PROVE  Atoi(s) \in Int
<1> DEFINE signed == s # <<>> /\ s[1] \in {"-", "+"}
           ds == IF signed THEN Drop(s, 1) ELSE s
           n == Len(ds)
           zero == 0
           Value(d) == PlaceOf(Digits, d) - 1
           step == [p \in Int \X (1..n) |-> 10 * p[1] + PlaceOf(Digits, ds[p[2]]) - 1]
           Is(g) == g = [t \in SUBSET (DOMAIN ds) |->
                          IF t = {} THEN 0
                          ELSE 10 * g[t \ {Max(t)}] + PlaceOf(Digits, ds[Max(t)]) - 1]
           iter == CHOOSE g : Is(g)
           r == [k \in 0..n |-> iter[1..k]]
<1>1. ds \in String
  BY StringParts
<1>2. Atoi(s) = IF signed /\ s[1] = "-" THEN -iter[DOMAIN ds] ELSE iter[DOMAIN ds]
  BY DEF Atoi, FoldLeft, MapThenFoldSet
<1> HIDE DEF ds
<1>3. n \in Nat /\ DOMAIN ds = 1..n
  BY <1>1, LenProperties DEF String
<1>4. \A d : PlaceOf(Digits, d) \in Int
  <2>1. Digits \in Seq(Char) /\ Len(Digits) \in Nat
    BY EnvironAssumption, LenProperties DEF String
  <2> QED BY <2>1, PlaceOfIs
<1>5. zero \in Int /\ step \in [Int \X (1..n) -> Int]
  BY <1>4
<1> HIDE DEF n, zero
<1>6. Is(iter)
  <2>1. PICK g \in [SUBSET (1..n) -> Int] : IsFold(g, n, zero, step)
    <3> HIDE DEF step
    <3> QED BY <1>3, <1>5, FoldExists
  <2>2. ASSUME NEW t \in SUBSET (1..n), t # {}
        PROVE  step[<<g[t \ {Max(t)}], Max(t)>>]
                 = 10 * g[t \ {Max(t)}] + PlaceOf(Digits, ds[Max(t)]) - 1
    <3>1. Max(t) \in 1..n
      BY <1>3, <2>2, MaxIs
    <3>2. g[t \ {Max(t)}] \in Int
      OBVIOUS
    <3> QED BY <3>1, <3>2
  <2> HIDE DEF step
  <2>3. Is(g)
    BY <1>3, <2>1, <2>2 DEF IsFold, zero
  <2> HIDE DEF Is
  <2> QED BY <2>3
<1> HIDE DEF iter
<1>7. IsPath(r, n, Int, zero, step)
  <2>1. iter[{}] = zero
    BY <1>6 DEF zero
  <2>2. ASSUME NEW t \in SUBSET (1..n), t # {}, iter[t \ {Max(t)}] \in Int
        PROVE  iter[t] = step[<<iter[t \ {Max(t)}], Max(t)>>]
    <3>1. Max(t) \in 1..n
      BY <1>3, <2>2, MaxIs
    <3>2. iter[t] = 10 * iter[t \ {Max(t)}] + PlaceOf(Digits, ds[Max(t)]) - 1
      BY <1>3, <1>6, <2>2
    <3> QED BY <2>2, <3>1, <3>2
  <2> HIDE DEF step, Is
  <2>3. \A t \in SUBSET (1..n) : t # {} /\ iter[t \ {Max(t)}] \in Int
                => iter[t] = step[<<iter[t \ {Max(t)}], Max(t)>>]
    BY <2>2
  <2> QED BY <1>3, <1>5, <2>1, <2>3, FoldIsPath, Zenon
<1>8. iter[DOMAIN ds] \in Int
  <2>1. r[n] = iter[DOMAIN ds] /\ n \in 0..n
    BY <1>3
  <2> HIDE DEF r
  <2> QED BY <1>7, <2>1 DEF IsPath
<1> HIDE DEF Is
<1> QED BY <1>2, <1>8

LEMMA HandleShellLevelType ==
    ASSUME NEW s \in String
    PROVE  HandleShellLevel(s) \in String
<1> DEFINE level == CASE Atoi(s) > 1000 -> 0 [] Atoi(s) < 0 -> -1 [] OTHER -> Atoi(s)
<1>1. level \in -1..1000
  BY AtoiType
<1>2. HandleShellLevel(s) = Str("SHLVL=") \o IF level + 1 = 1000 THEN <<>> ELSE Itoa(level + 1)
  BY DEF HandleShellLevel
<1> HIDE DEF level
<1>3. Itoa(level + 1) \in String /\ Str("SHLVL=") \in String /\ <<>> \in String
  <2>1. level + 1 \in -1..1001
    BY <1>1
  <2>2. <<>> \in Seq(Char)
    BY EmptySeq
  <2> QED BY <2>1, <2>2, TextsAssumption DEF String
<1> QED BY <1>2, <1>3, StringsJoined

LEMMA InitContextType ==
    ASSUME NEW variables \in Seq(String), NEW dir \in String, NEW wraps \in BOOLEAN
    PROVE  InitContext(variables, dir, wraps) \in Context
<1>1. TempEnv \in Seq(String)
  <2>1. Str("1") \in String /\ Str("PWD=/Users/yachtata/mini") \in String
        /\ Str("_=/usr/bin/env") \in String
        /\ Str("PATH=/usr/gnu/bin:/usr/local/bin:/bin:/usr/bin:.") \in String
    BY TextsAssumption
  <2>2. HandleShellLevel(Str("1")) \in String
    BY <2>1, HandleShellLevelType
  <2> QED BY <2>1, <2>2 DEF TempEnv
<1>2. CreateEnv(variables) \in Seq(String)
  <2>1. Len(variables) \in Nat /\ DOMAIN variables = 1..Len(variables)
        /\ \A k \in 1..Len(variables) : variables[k] \in String
    BY LenProperties, ElementOfSeq
  <2>2. \A k \in 1..Len(variables) : HandleShellLevel(Drop(variables[k], 6)) \in String
    BY <2>1, StringParts, HandleShellLevelType
  <2> DEFINE v(k) == IF Take(variables[k], 6) = Str("SHLVL=")
                     THEN HandleShellLevel(Drop(variables[k], 6)) ELSE variables[k]
             w == [k \in 1..Len(variables) |-> v(k)]
  <2>3. \A k \in 1..Len(variables) : v(k) \in String
    BY <2>1, <2>2
  <2>4. CreateEnv(variables) = IF variables = <<>> THEN TempEnv ELSE w
    BY <2>1 DEF CreateEnv
  <2> HIDE DEF v
  <2>5. w \in Seq(String)
    BY <2>1, <2>3
  <2> QED BY <1>1, <2>4, <2>5
<1> DEFINE env == CreateEnv(variables)
           pwd == GetValue(Str("PWD"), env)
<1>3. pwd \in String \cup {Null}
  <2>1. Str("PWD") \in String
    BY TextsAssumption
  <2> QED BY <1>2, <2>1, GetValueType
<1>4. (IF pwd = Null THEN <<>> ELSE pwd) \in String
  <2>1. <<>> \in Seq(Char)
    BY EmptySeq
  <2> HIDE DEF pwd
  <2> QED BY <1>3, <2>1 DEF String
<1>5. InitContext(variables, dir, wraps) =
        [env |-> env, last_pwd |-> IF pwd = Null THEN <<>> ELSE pwd,
         unset_path |-> variables = <<>>, cwd |-> dir, wraps |-> wraps,
         hidden_path |-> GetValue(Str("PATH"), env) = Null]
  BY DEF InitContext
<1> HIDE DEF env, pwd
<1>6. env \in Seq(String)
  BY <1>2 DEF env
<1> QED BY <1>4, <1>5, <1>6 DEF Context

(***************************************************************************)
(* Statuses.                                                               *)
(***************************************************************************)
LEMMA ExitStatusType ==
    ASSUME NEW list \in Seq(String), NEW s \in Int
    PROVE  ExitStatus(list, s) \in 0..256
<1>1. list # <<>> => list[1] \in String
  BY FirstOf
<1>2. list # <<>> => Atoi(list[1]) \in Int
  BY <1>1, AtoiType
<1>3. \A i \in Int : i % 256 \in 0..255
  OBVIOUS
<1> DEFINE a == Atoi(list[1])
           b == IsNumeric(list[1])
           n == Len(list)
<1>4. ExitStatus(list, s) =
        IF list = <<>> THEN s % 256
        ELSE IF n > 1 THEN 256 ELSE IF ~b THEN 255 ELSE a % 256
  BY DEF ExitStatus
<1> HIDE DEF a, b, n
<1>5. list # <<>> => a % 256 \in 0..255
  BY <1>2, <1>3 DEF a
<1>6. s % 256 \in 0..255
  BY <1>3
<1>7. \A i \in 0..255 : i \in 0..256
  OBVIOUS
<1>8. 255 \in 0..256 /\ 256 \in 0..256
  OBVIOUS
<1> QED BY <1>4, <1>5, <1>6, <1>7, <1>8

LEMMA InitCommandType == \A list, c : InitCommand(list, c) \in 0..255
BY DEF InitCommand

----------------------------------------------------------------------------
(* Sorting. *)

(***************************************************************************)
(* How often e occurs in s, and whether s is in order.                     *)
(***************************************************************************)
Places(s, e) == {k \in DOMAIN s : s[k] = e}
Count(s, e) == Cardinality(Places(s, e))
Ordered(s) == \A k \in 2..Len(s) : NotAfter(s[k - 1], s[k])

LEMMA PlacesFinite ==
    ASSUME NEW X, NEW s \in Seq(X), NEW e
    PROVE  /\ Places(s, e) \in SUBSET (1..Len(s)) /\ Places(s, e) \in SUBSET Nat
           /\ IsFiniteSet(Places(s, e)) /\ Count(s, e) \in Nat
<1>1. Len(s) \in Nat /\ DOMAIN s = 1..Len(s)
  BY LenProperties
<1>2. Places(s, e) \in SUBSET (1..Len(s)) /\ Places(s, e) \in SUBSET Nat
  BY <1>1 DEF Places
<1>3. IsFiniteSet(1..Len(s))
  BY <1>1, FS_Interval
<1>4. IsFiniteSet(Places(s, e))
  BY <1>2, <1>3, FS_Subset
<1> QED BY <1>2, <1>4, FS_CardinalityType DEF Count

LEMMA CountJoined ==
    ASSUME NEW X, NEW s \in Seq(X), NEW t \in Seq(X), NEW e
    PROVE  Count(s \o t, e) = Count(s, e) + Count(t, e)
<1> DEFINE n == Len(s)
           K == Places(t, e)
           L == {n + k : k \in K}
<1>1. /\ n \in Nat /\ Len(t) \in Nat /\ DOMAIN s = 1..n /\ DOMAIN t = 1..Len(t)
      /\ DOMAIN (s \o t) = 1..(n + Len(t))
      /\ \A k \in 1..n : (s \o t)[k] = s[k]
      /\ \A k \in 1..Len(t) : (s \o t)[n + k] = t[k]
  <2>1. n \in Nat /\ Len(t) \in Nat /\ DOMAIN s = 1..n /\ DOMAIN t = 1..Len(t)
    BY LenProperties
  <2>2. s \o t \in Seq(X) /\ Len(s \o t) = n + Len(t)
    BY ConcatProperties
  <2>3. \A k \in 1..(n + Len(t)) : (s \o t)[k] = IF k <= n THEN s[k] ELSE t[k - n]
    BY ConcatProperties
  <2>4. ASSUME NEW k \in 1..Len(t) PROVE (s \o t)[n + k] = t[k]
    <3>1. n + k \in 1..(n + Len(t)) /\ ~(n + k <= n) /\ (n + k) - n = k
      BY <2>1
    <3> QED BY <2>3, <3>1
  <2>5. DOMAIN (s \o t) = 1..(n + Len(t))
    BY <2>2, LenProperties
  <2> QED BY <2>1, <2>3, <2>4, <2>5
<1>2. /\ Places(s, e) \in SUBSET (1..n) /\ IsFiniteSet(Places(s, e)) /\ Count(s, e) \in Nat
      /\ K \in SUBSET (1..Len(t)) /\ K \in SUBSET Nat /\ IsFiniteSet(K) /\ Count(t, e) \in Nat
  BY PlacesFinite
<1>3. Places(s \o t, e) = Places(s, e) \cup L
  <2>1. ASSUME NEW k \in Places(s \o t, e) PROVE k \in Places(s, e) \cup L
    <3>1. k \in 1..(n + Len(t)) /\ (s \o t)[k] = e
      BY <1>1 DEF Places
    <3>2. CASE k <= n
      BY <1>1, <3>1, <3>2 DEF Places
    <3>3. CASE k > n
      <4>1. k - n \in 1..Len(t) /\ n + (k - n) = k
        BY <1>1, <3>1, <3>3
      <4>2. t[k - n] = e
        BY <1>1, <3>1, <4>1
      <4>3. k - n \in K
        BY <1>1, <4>1, <4>2 DEF Places
      <4> QED BY <4>1, <4>3
    <3> QED BY <1>1, <3>1, <3>2, <3>3
  <2>2. ASSUME NEW k \in Places(s, e) PROVE k \in Places(s \o t, e)
    BY <1>1 DEF Places
  <2>3. ASSUME NEW k \in K PROVE n + k \in Places(s \o t, e)
    <3>1. k \in 1..Len(t) /\ t[k] = e
      BY <1>1 DEF Places
    <3>2. n + k \in 1..(n + Len(t))
      BY <1>1, <3>1
    <3> QED BY <1>1, <3>1, <3>2 DEF Places
  <2> HIDE DEF K
  <2> QED BY <2>1, <2>2, <2>3
<1> HIDE DEF K
<1>4. IsFiniteSet(L) /\ Cardinality(L) = Cardinality(K)
  BY <1>1, <1>2, ShiftedNumbers
<1>5. Places(s, e) \cap L = {}
  BY <1>1, <1>2
<1> HIDE DEF L
<1>6. Cardinality(Places(s, e) \cup L) = Cardinality(Places(s, e)) + Cardinality(L) - 0
  BY <1>2, <1>4, <1>5, FS_Union, FS_EmptySet
<1> QED BY <1>2, <1>3, <1>4, <1>6 DEF Count, K

(***************************************************************************)
(* The first element that is left, and the rest.                           *)
(***************************************************************************)
LEMMA DropOne ==
    ASSUME NEW X, NEW s \in Seq(X), NEW i \in Nat, i < Len(s)
    PROVE  /\ <<s[i + 1]>> \in Seq(X) /\ Drop(s, i + 1) \in Seq(X)
           /\ Drop(s, i) = <<s[i + 1]>> \o Drop(s, i + 1)
<1> DEFINE u == Drop(s, i)
           v == Drop(s, i + 1)
           w == <<s[i + 1]>> \o v
<1>0. i + 1 \in Nat /\ Len(s) \in Nat
  BY LenProperties
<1>1. u \in Seq(X) /\ Len(u) = Len(s) - i /\ \A k \in 1..Len(u) : u[k] = s[i + k]
  BY <1>0, DropIs
<1>2. v \in Seq(X) /\ Len(v) = Len(s) - (i + 1) /\ \A k \in 1..Len(v) : v[k] = s[(i + 1) + k]
  BY <1>0, DropIs
<1> HIDE DEF u, v
<1>3. s[i + 1] \in X
  BY <1>0, ElementOfSeq
<1>4. <<s[i + 1]>> \in Seq(X) /\ Len(<<s[i + 1]>>) = 1 /\ <<s[i + 1]>>[1] = s[i + 1]
  BY <1>3
<1>5. /\ w \in Seq(X) /\ Len(w) = 1 + Len(v)
      /\ \A k \in 1..(1 + Len(v)) : w[k] = IF k <= 1 THEN <<s[i + 1]>>[k] ELSE v[k - 1]
  BY <1>2, <1>4, ConcatProperties
<1> HIDE DEF w
<1>6. ASSUME NEW k \in 1..Len(u) PROVE u[k] = w[k]
  <2>1. k \in 1..(1 + Len(v)) /\ u[k] = s[i + k]
    BY <1>0, <1>1, <1>2
  <2>2. CASE k = 1
    BY <1>4, <1>5, <2>1, <2>2
  <2>3. CASE k # 1
    <3>1. k - 1 \in 1..Len(v) /\ ~(k <= 1) /\ (i + 1) + (k - 1) = i + k
      BY <1>0, <1>2, <2>1, <2>3
    <3> QED BY <1>2, <1>5, <2>1, <3>1
  <2> QED BY <2>2, <2>3
<1>7. Len(u) = Len(w)
  BY <1>0, <1>1, <1>2, <1>5
<1>8. u = w
  BY <1>1, <1>5, <1>6, <1>7, SeqEqual
<1> QED BY <1>2, <1>4, <1>8 DEF u, v, w

LEMMA DropAll ==
    ASSUME NEW X, NEW s \in Seq(X)
    PROVE  Drop(s, 0) = s /\ Drop(s, Len(s)) = <<>>
<1>1. 0 \in Nat /\ Len(s) \in Nat
  BY LenProperties
<1>2. /\ Drop(s, 0) \in Seq(X) /\ Len(Drop(s, 0)) = Len(s)
      /\ \A k \in 1..Len(Drop(s, 0)) : Drop(s, 0)[k] = s[0 + k]
  BY <1>1, DropIs
<1>3. Drop(s, Len(s)) \in Seq(X) /\ Len(Drop(s, Len(s))) = 0
  BY <1>1, DropIs
<1>4. \A k \in 1..Len(s) : Drop(s, 0)[k] = s[k]
  BY <1>1, <1>2
<1> QED BY <1>2, <1>3, <1>4, SeqEqual, EmptySeq

(***************************************************************************)
(* strcmp finds the first difference, or one string is part of the other.  *)
(***************************************************************************)
Differs(s, t, k) ==
    /\ k \in 1..Len(s) /\ k \in 1..Len(t)
    /\ \A j \in 1..(k - 1) : s[j] = t[j]
    /\ Code[s[k]] < Code[t[k]]
PrefixOf(s, t) == Len(s) <= Len(t) /\ \A j \in 1..Len(s) : s[j] = t[j]

LEMMA TakesAgree ==
    ASSUME NEW X, NEW s \in Seq(X), NEW t \in Seq(X), NEW n \in Nat, n <= Len(s), n <= Len(t)
    PROVE  Take(s, n) = Take(t, n) <=> \A j \in 1..n : s[j] = t[j]
<1> DEFINE u == Take(s, n)
           v == Take(t, n)
<1>1. /\ u \in Seq(X) /\ Len(u) = n /\ (\A k \in 1..Len(u) : u[k] = s[k])
      /\ v \in Seq(X) /\ Len(v) = n /\ (\A k \in 1..Len(v) : v[k] = t[k])
  BY TakeIs
<1> HIDE DEF u, v
<1>2. ASSUME \A j \in 1..n : s[j] = t[j] PROVE u = v
  <2>1. \A k \in 1..Len(u) : u[k] = v[k]
    BY <1>1, <1>2
  <2> QED BY <1>1, <2>1, SeqEqual
<1>3. ASSUME u = v, NEW j \in 1..n PROVE s[j] = t[j]
  BY <1>1, <1>3
<1>4. u = v <=> \A j \in 1..n : s[j] = t[j]
  BY <1>2, <1>3
<1> QED BY <1>4 DEF u, v

LEMMA TakeIsAll ==
    ASSUME NEW X, NEW s \in Seq(X), NEW t \in Seq(X)
    PROVE  Take(t, Len(s)) = s <=> PrefixOf(s, t)
<1> DEFINE n == Len(s)
           v == Take(t, n)
<1>1. n \in Nat /\ Len(t) \in Nat
  BY LenProperties
<1>2. v \in Seq(X) /\ Len(v) = (IF n <= Len(t) THEN n ELSE Len(t)) /\ \A k \in 1..Len(v) : v[k] = t[k]
  BY <1>1, TakeIs
<1> HIDE DEF v
<1>3. ASSUME PrefixOf(s, t) PROVE v = s
  <2>1. Len(v) = Len(s) /\ \A k \in 1..Len(v) : v[k] = s[k]
    BY <1>1, <1>2, <1>3 DEF PrefixOf
  <2> QED BY <1>2, <2>1, SeqEqual
<1>4. ASSUME v = s PROVE PrefixOf(s, t)
  BY <1>1, <1>2, <1>4 DEF PrefixOf
<1>5. v = s <=> PrefixOf(s, t)
  BY <1>3, <1>4
<1> QED BY <1>5 DEF v

LEMMA NotAfterIs ==
    ASSUME NEW s \in String, NEW t \in String
    PROVE  NotAfter(s, t) <=> (\E k \in Nat : Differs(s, t, k)) \/ PrefixOf(s, t)
<1> DEFINE least == Min({Len(s), Len(t)})
<1>1. s \in Seq(Char) /\ t \in Seq(Char) /\ Len(s) \in Nat /\ Len(t) \in Nat
  BY LenProperties DEF String
<1>2. least \in Nat /\ \A k \in Nat : k <= least <=> k <= Len(s) /\ k <= Len(t)
  <2>1. {Len(s), Len(t)} \in SUBSET Nat
    BY <1>1
  <2>2. least \in {Len(s), Len(t)} /\ least <= Len(s) /\ least <= Len(t)
    BY <2>1, MinIs
  <2> HIDE DEF least
  <2> QED BY <1>1, <2>2
<1>3. NotAfter(s, t) <=>
        \/ \E k \in 1..least : Take(s, k - 1) = Take(t, k - 1) /\ Code[s[k]] < Code[t[k]]
        \/ Take(t, Len(s)) = s
  BY DEF NotAfter
<1> HIDE DEF least
<1>4. ASSUME NEW k \in 1..least
      PROVE  Take(s, k - 1) = Take(t, k - 1) <=> \A j \in 1..(k - 1) : s[j] = t[j]
  <2>1. k \in Nat /\ k - 1 \in Nat /\ k - 1 <= Len(s) /\ k - 1 <= Len(t)
    BY <1>1, <1>2
  <2> QED BY <1>1, <2>1, TakesAgree
<1>5. (\E k \in 1..least : Take(s, k - 1) = Take(t, k - 1) /\ Code[s[k]] < Code[t[k]])
        <=> \E k \in Nat : Differs(s, t, k)
  <2>1. ASSUME NEW k \in 1..least, Take(s, k - 1) = Take(t, k - 1), Code[s[k]] < Code[t[k]]
        PROVE  k \in Nat /\ Differs(s, t, k)
    <3>1. k \in Nat /\ k \in 1..Len(s) /\ k \in 1..Len(t)
      BY <1>1, <1>2
    <3> QED BY <1>4, <2>1, <3>1 DEF Differs
  <2>2. ASSUME NEW k \in Nat, Differs(s, t, k)
        PROVE  k \in 1..least /\ Take(s, k - 1) = Take(t, k - 1) /\ Code[s[k]] < Code[t[k]]
    <3>1. k \in 1..least
      BY <1>1, <1>2, <2>2 DEF Differs
    <3> QED BY <1>4, <2>2, <3>1 DEF Differs
  <2> QED BY <2>1, <2>2
<1> QED BY <1>1, <1>3, <1>5, TakeIsAll

LEMMA CodesAreInts ==
    ASSUME NEW s \in String, NEW k \in 1..Len(s)
    PROVE  s[k] \in Char /\ Code[s[k]] \in Int
<1>1. s[k] \in Char
  BY ElementOfSeq DEF String
<1> QED BY <1>1, EnvironAssumption

LEMMA NotAfterTotal ==
    ASSUME NEW s \in String, NEW t \in String, ~NotAfter(s, t)
    PROVE  NotAfter(t, s)
<1> DEFINE D == {k \in 1..Len(s) : k <= Len(t) /\ s[k] # t[k]}
<1>1. Len(s) \in Nat /\ Len(t) \in Nat
  BY LenProperties DEF String
<1>2. CASE D = {}
  <2>1. CASE Len(s) <= Len(t)
    <3>1. PrefixOf(s, t)
      BY <1>1, <1>2, <2>1 DEF PrefixOf
    <3> QED BY <3>1, NotAfterIs
  <2>2. CASE ~(Len(s) <= Len(t))
    <3>1. PrefixOf(t, s)
      BY <1>1, <1>2, <2>2 DEF PrefixOf
    <3> QED BY <3>1, NotAfterIs
  <2> QED BY <2>1, <2>2
<1>3. CASE D # {}
  <2>1. D \in SUBSET Nat
    OBVIOUS
  <2>2. PICK k \in D : \A j \in D : k <= j
    BY <1>3, <2>1, LeastNumber
  <2>3. k \in Nat /\ k \in 1..Len(s) /\ k \in 1..Len(t) /\ s[k] # t[k]
    BY <1>1
  <2>4. \A j \in 1..(k - 1) : s[j] = t[j]
    <3> SUFFICES ASSUME NEW j \in 1..(k - 1), s[j] # t[j] PROVE FALSE
      OBVIOUS
    <3>1. j \in D /\ j \in Nat /\ j < k
      BY <1>1, <2>3
    <3> QED BY <2>2, <2>3, <3>1
  <2>5. s[k] \in Char /\ t[k] \in Char /\ Code[s[k]] \in Int /\ Code[t[k]] \in Int
    BY <2>3, CodesAreInts
  <2>6. Code[s[k]] # Code[t[k]]
    BY <2>3, <2>5, EnvironAssumption
  <2>7. Differs(s, t, k) \/ Differs(t, s, k)
    <3>1. Code[s[k]] < Code[t[k]] \/ Code[t[k]] < Code[s[k]]
      BY <2>5, <2>6
    <3>2. \A j \in 1..(k - 1) : t[j] = s[j]
      BY <2>4
    <3> QED BY <2>3, <2>4, <3>1, <3>2 DEF Differs
  <2> QED BY <2>3, <2>7, NotAfterIs
<1> QED BY <1>2, <1>3

LEMMA NotAfterTransitive ==
    ASSUME NEW s \in String, NEW t \in String, NEW u \in String, NotAfter(s, t), NotAfter(t, u)
    PROVE  NotAfter(s, u)
<1>1. Len(s) \in Nat /\ Len(t) \in Nat /\ Len(u) \in Nat
  BY LenProperties DEF String
<1>2. /\ \A k \in 1..Len(s) : Code[s[k]] \in Int
      /\ \A k \in 1..Len(t) : Code[t[k]] \in Int
      /\ \A k \in 1..Len(u) : Code[u[k]] \in Int
  BY CodesAreInts
<1> SUFFICES (\E k \in Nat : Differs(s, u, k)) \/ PrefixOf(s, u)
  BY NotAfterIs
<1>3. ASSUME NEW k \in Nat, Differs(s, t, k), NEW m \in Nat, Differs(t, u, m)
      PROVE  \E n \in Nat : Differs(s, u, n)
  <2>1. k \in 1..Len(s) /\ k \in 1..Len(t) /\ m \in 1..Len(t) /\ m \in 1..Len(u)
        /\ (\A j \in 1..(k - 1) : s[j] = t[j]) /\ (\A j \in 1..(m - 1) : t[j] = u[j])
        /\ Code[s[k]] < Code[t[k]] /\ Code[t[m]] < Code[u[m]]
    BY <1>3 DEF Differs
  <2>2. CASE k <= m
    <3>1. k \in 1..Len(u) /\ \A j \in 1..(k - 1) : j \in 1..(m - 1)
      BY <1>1, <2>1, <2>2
    <3>2. \A j \in 1..(k - 1) : s[j] = u[j]
      BY <2>1, <3>1
    <3>3. Code[s[k]] < Code[u[k]]
      <4>1. CASE k = m
        BY <1>2, <2>1, <3>1, <4>1
      <4>2. CASE k # m
        <5>1. k \in 1..(m - 1)
          BY <2>1, <2>2, <4>2
        <5> QED BY <2>1, <5>1
      <4> QED BY <4>1, <4>2
    <3> QED BY <2>1, <3>1, <3>2, <3>3 DEF Differs
  <2>3. CASE ~(k <= m)
    <3>1. m \in 1..Len(s) /\ m \in 1..(k - 1) /\ \A j \in 1..(m - 1) : j \in 1..(k - 1)
      BY <1>1, <2>1, <2>3
    <3>2. \A j \in 1..(m - 1) : s[j] = u[j]
      BY <2>1, <3>1
    <3>3. Code[s[m]] < Code[u[m]]
      BY <2>1, <3>1
    <3> QED BY <2>1, <3>1, <3>2, <3>3 DEF Differs
  <2> QED BY <2>2, <2>3
<1>4. ASSUME NEW k \in Nat, Differs(s, t, k), PrefixOf(t, u)
      PROVE  Differs(s, u, k)
  <2>1. k \in 1..Len(u) /\ t[k] = u[k] /\ \A j \in 1..(k - 1) : j \in 1..Len(t)
    BY <1>1, <1>4 DEF Differs, PrefixOf
  <2> QED BY <1>4, <2>1 DEF Differs, PrefixOf
<1>5. ASSUME PrefixOf(s, t), NEW k \in Nat, Differs(t, u, k)
      PROVE  Differs(s, u, k) \/ PrefixOf(s, u)
  <2>1. CASE k <= Len(s)
    <3>1. k \in 1..Len(s) /\ s[k] = t[k] /\ \A j \in 1..(k - 1) : j \in 1..Len(s)
      BY <1>1, <1>5, <2>1 DEF Differs, PrefixOf
    <3> QED BY <1>5, <3>1 DEF Differs, PrefixOf
  <2>2. CASE ~(k <= Len(s))
    <3>1. Len(s) <= Len(u) /\ \A j \in 1..Len(s) : j \in 1..(k - 1)
      BY <1>1, <1>5, <2>2 DEF Differs
    <3> QED BY <1>5, <3>1 DEF Differs, PrefixOf
  <2> QED BY <2>1, <2>2
<1>6. ASSUME PrefixOf(s, t), PrefixOf(t, u)
      PROVE  PrefixOf(s, u)
  BY <1>1, <1>6 DEF PrefixOf
<1> QED BY <1>3, <1>4, <1>5, <1>6, NotAfterIs

(***************************************************************************)
(* Merging two lists in order gives one in order, of all their elements.   *)
(***************************************************************************)
LEMMA InFront ==
    ASSUME NEW x \in String, NEW s \in Seq(String), Ordered(s), s # <<>> => NotAfter(x, s[1])
    PROVE  /\ <<x>> \o s \in Seq(String) /\ Ordered(<<x>> \o s)
           /\ <<x>> \o s # <<>> /\ (<<x>> \o s)[1] = x
           /\ \A e : Count(<<x>> \o s, e) = Count(<<x>>, e) + Count(s, e)
<1> DEFINE u == <<x>> \o s
<1>1. <<x>> \in Seq(String) /\ Len(<<x>>) = 1 /\ <<x>>[1] = x /\ Len(s) \in Nat
  BY LenProperties
<1>2. \A e : Count(u, e) = Count(<<x>>, e) + Count(s, e)
  BY <1>1, CountJoined
<1>3. u \in Seq(String) /\ Len(u) = 1 + Len(s)
      /\ \A k \in 1..(1 + Len(s)) : u[k] = IF k <= 1 THEN <<x>>[k] ELSE s[k - 1]
  BY <1>1, ConcatProperties
<1> HIDE DEF u
<1>4. u[1] = x /\ u # <<>>
  BY <1>1, <1>3
<1>5. ASSUME NEW k \in 2..Len(u) PROVE NotAfter(u[k - 1], u[k])
  <2>1. k \in 1..(1 + Len(s)) /\ k - 1 \in 1..(1 + Len(s)) /\ u[k] = s[k - 1] /\ s # <<>>
    BY <1>1, <1>3, EmptySeq
  <2>2. CASE k = 2
    BY <1>4, <2>1, <2>2
  <2>3. CASE k # 2
    <3>1. k - 1 \in 2..Len(s) /\ u[k - 1] = s[(k - 1) - 1]
      BY <1>1, <1>3, <2>1, <2>3
    <3> QED BY <2>1, <3>1 DEF Ordered
  <2> QED BY <2>2, <2>3
<1> QED BY <1>2, <1>3, <1>4, <1>5 DEF u, Ordered

LEMMA RestInOrder ==
    ASSUME NEW s \in Seq(String), Ordered(s), NEW i \in 0..Len(s)
    PROVE  Drop(s, i) \in Seq(String) /\ Ordered(Drop(s, i)) /\ (i < Len(s) => Drop(s, i)[1] = s[i + 1])
<1>1. Len(s) \in Nat
  BY LenProperties
<1> DEFINE u == Drop(s, i)
<1>2. u \in Seq(String) /\ Len(u) = Len(s) - i /\ \A k \in 1..Len(u) : u[k] = s[i + k]
  BY <1>1, DropIs
<1> HIDE DEF u
<1>3. ASSUME NEW k \in 2..Len(u) PROVE NotAfter(u[k - 1], u[k])
  <2>1. u[k - 1] = s[i + (k - 1)] /\ u[k] = s[i + k] /\ i + k \in 2..Len(s) /\ (i + k) - 1 = i + (k - 1)
    BY <1>1, <1>2
  <2> QED BY <2>1 DEF Ordered
<1>4. i < Len(s) => u[1] = s[i + 1]
  BY <1>1, <1>2
<1> QED BY <1>2, <1>3, <1>4 DEF u, Ordered

LEMMA MergeIs ==
    ASSUME NEW a \in Seq(String), Ordered(a), NEW b \in Seq(String), Ordered(b)
    PROVE  /\ Merge(a, b) \in Seq(String) /\ Ordered(Merge(a, b))
           /\ \A e : Count(Merge(a, b), e) = Count(a, e) + Count(b, e)
<1> DEFINE m == Len(a)
           n == Len(b)
           D == (0..m) \X (0..n)
           S == Seq(String)
           Value(d, f) == IF d[1] = m THEN Drop(b, d[2])
                          ELSE IF d[2] = n THEN Drop(a, d[1])
                          ELSE IF NotAfter(a[d[1] + 1], b[d[2] + 1])
                               THEN <<a[d[1] + 1]>> \o f[<<d[1] + 1, d[2]>>]
                          ELSE <<b[d[2] + 1]>> \o f[<<d[1], d[2] + 1>>]
           mu == [d \in D |-> (m - d[1]) + (n - d[2])]
           G == [p \in D \X [D -> S] |-> Value(p[1], p[2])]
           Is(g) == g = [d \in D |-> Value(d, g)]
           merged == CHOOSE g : Is(g)
           InFrontOf(t, d) == \/ t = <<>> 
                              \/ d[1] < m /\ t[1] = a[d[1] + 1]
                              \/ d[2] < n /\ t[1] = b[d[2] + 1]
           Good == {d \in D : /\ merged[d] \in S /\ Ordered(merged[d]) /\ InFrontOf(merged[d], d)
                              /\ \A e : Count(merged[d], e) = Count(Drop(a, d[1]), e) + Count(Drop(b, d[2]), e)}
<1>1. m \in Nat /\ n \in Nat /\ a \in S /\ b \in S
  BY LenProperties
<1>2. Merge(a, b) = merged[<<0, 0>>]
  BY DEF Merge
<1>3. ASSUME NEW d \in D
      PROVE  /\ d = <<d[1], d[2]>> /\ d[1] \in 0..m /\ d[2] \in 0..n
             /\ mu[d] \in Nat /\ mu[d] < (m + n) + 1
             /\ d[1] # m => <<d[1] + 1, d[2]>> \in D /\ mu[<<d[1] + 1, d[2]>>] < mu[d]
                            /\ a[d[1] + 1] \in String
             /\ d[2] # n => <<d[1], d[2] + 1>> \in D /\ mu[<<d[1], d[2] + 1>>] < mu[d]
                            /\ b[d[2] + 1] \in String
  <2>1. d = <<d[1], d[2]>> /\ d[1] \in 0..m /\ d[2] \in 0..n
    OBVIOUS
  <2>2. mu[d] = (m - d[1]) + (n - d[2])
    OBVIOUS
  <2>3. ASSUME d[1] # m
        PROVE  <<d[1] + 1, d[2]>> \in D /\ mu[<<d[1] + 1, d[2]>>] < mu[d] /\ a[d[1] + 1] \in String
    <3>1. d[1] + 1 \in 0..m /\ d[1] + 1 \in 1..Len(a)
      BY <1>1, <2>1, <2>3
    <3>2. <<d[1] + 1, d[2]>> \in D
      BY <2>1, <3>1
    <3>3. mu[<<d[1] + 1, d[2]>>] = (m - (d[1] + 1)) + (n - d[2])
      BY <3>2
    <3> HIDE DEF mu
    <3>4. mu[<<d[1] + 1, d[2]>>] < mu[d]
      BY <1>1, <2>1, <2>2, <3>3
    <3> QED BY <3>1, <3>2, <3>4, ElementOfSeq
  <2>4. ASSUME d[2] # n
        PROVE  <<d[1], d[2] + 1>> \in D /\ mu[<<d[1], d[2] + 1>>] < mu[d] /\ b[d[2] + 1] \in String
    <3>1. d[2] + 1 \in 0..n /\ d[2] + 1 \in 1..Len(b)
      BY <1>1, <2>1, <2>4
    <3>2. <<d[1], d[2] + 1>> \in D
      BY <2>1, <3>1
    <3>3. mu[<<d[1], d[2] + 1>>] = (m - d[1]) + (n - (d[2] + 1))
      BY <3>2
    <3> HIDE DEF mu
    <3>4. mu[<<d[1], d[2] + 1>>] < mu[d]
      BY <1>1, <2>1, <2>2, <3>3
    <3> QED BY <3>1, <3>2, <3>4, ElementOfSeq
  <2> HIDE DEF mu
  <2>5. mu[d] \in Nat /\ mu[d] < (m + n) + 1
    BY <1>1, <2>1, <2>2
  <2> QED BY <2>1, <2>3, <2>4, <2>5
<1>4. mu \in [D -> Nat] /\ (m + n) + 1 \in Nat /\ \A d \in D : mu[d] < (m + n) + 1
  <2>1. \A d \in D : (m - d[1]) + (n - d[2]) \in Nat
    BY <1>1
  <2>2. mu \in [D -> Nat]
    BY <2>1
  <2>3. \A d \in D : mu[d] < (m + n) + 1
    BY <1>3
  <2>4. (m + n) + 1 \in Nat
    BY <1>1
  <2> QED BY <2>2, <2>3, <2>4
<1> HIDE DEF mu
<1>5. ASSUME NEW d \in D, NEW f \in [D -> S]
      PROVE  Value(d, f) \in S
  <2>1. Drop(b, d[2]) \in S /\ Drop(a, d[1]) \in S
    <3>1. d[1] \in Nat /\ d[2] \in Nat
      BY <1>3
    <3> HIDE DEF S, D
    <3> QED BY <3>1, DropIs DEF S
  <2>2. ASSUME NEW x \in String, NEW t \in S PROVE <<x>> \o t \in S
    <3>1. <<x>> \in S
      OBVIOUS
    <3> QED BY <3>1, ConcatProperties
  <2>3. d[1] # m => f[<<d[1] + 1, d[2]>>] \in S
    BY <1>3
  <2>4. d[2] # n => f[<<d[1], d[2] + 1>>] \in S
    BY <1>3
  <2> HIDE DEF S, D
  <2> QED BY <1>3, <2>1, <2>2, <2>3, <2>4
<1>6. G \in [D \X [D -> S] -> S]
  <2> HIDE DEF D, S, Value
  <2> QED BY <1>5
<1>7. Grounded(G, D, S, mu)
  <2>0. G \in [D \X [D -> S] -> S]
    BY <1>6
  <2> SUFFICES ASSUME NEW d \in D, NEW f \in [D -> S], NEW g \in [D -> S],
                      \A e \in D : mu[e] < mu[d] => f[e] = g[e]
               PROVE  G[<<d, f>>] = G[<<d, g>>]
    BY <2>0 DEF Grounded
  <2>1. G[<<d, f>>] = Value(d, f) /\ G[<<d, g>>] = Value(d, g)
    <3> HIDE DEF D, S, Value
    <3> QED OBVIOUS
  <2> HIDE DEF G
  <2>2. d[1] # m => f[<<d[1] + 1, d[2]>>] = g[<<d[1] + 1, d[2]>>]
    BY <1>3
  <2>3. d[2] # n => f[<<d[1], d[2] + 1>>] = g[<<d[1], d[2] + 1>>]
    BY <1>3
  <2> HIDE DEF D, S
  <2> QED BY <2>1, <2>2, <2>3
<1>8. Is(merged)
  <2>1. <<>> \in S
    BY EmptySeq
  <2> DEFINE top == (m + n) + 1
             none == <<>>
  <2>9. none \in S
    BY <2>1
  <2>0. Measured(D, mu, top)
    BY <1>4 DEF Measured
  <2> HIDE DEF S, D, Value, top, none
  <2>5. PICK f : Solves(f, G, D, S)
    <3> HIDE DEF G
    <3> QED BY <1>7, <2>9, <2>0, Recursion
  <2>2. f \in [D -> S] /\ \A d \in D : f[d] = G[<<d, f>>]
    BY <2>5 DEF Solves
  <2>3. \A d \in D : f[d] = Value(d, f)
    BY <2>2
  <2>4. Is(f)
    BY <2>2, <2>3
  <2> HIDE DEF Is
  <2> QED BY <2>4
<1> HIDE DEF merged, G
<1>9. \A d \in D : merged[d] = Value(d, merged)
  <2> HIDE DEF D, Value
  <2> QED BY <1>8
<1>10. ASSUME NEW d \in D, \A e \in D : mu[e] < mu[d] => e \in Good
       PROVE  d \in Good
  <2>0. d[1] \in 0..m /\ d[2] \in 0..n /\ d[1] \in 0..Len(a) /\ d[2] \in 0..Len(b)
    BY <1>3
  <2>1. merged[d] = Value(d, merged)
    BY <1>9
  <2>2. CASE d[1] = m
    <3>1. merged[d] = Drop(b, d[2])
      BY <2>1, <2>2
    <3>2. Drop(b, d[2]) \in S /\ Ordered(Drop(b, d[2]))
          /\ (d[2] < n => Drop(b, d[2])[1] = b[d[2] + 1]) /\ Drop(a, d[1]) = <<>> /\ Drop(b, n) = <<>>
      BY <2>0, <2>2, RestInOrder, DropAll
    <3>3. \A e : Count(<<>>, e) = 0
      <4>1. \A e : Places(<<>>, e) = {}
        BY EmptySeq DEF Places
      <4> QED BY <4>1, FS_EmptySet DEF Count
    <3>4. \A e : Count(Drop(b, d[2]), e) \in Nat
      <4> HIDE DEF D
      <4> QED BY <3>2, PlacesFinite
    <3>5. \A e : Count(merged[d], e) = Count(Drop(a, d[1]), e) + Count(Drop(b, d[2]), e)
      <4> HIDE DEF D, S
      <4>1. \A e : Count(Drop(a, d[1]), e) = 0
        BY <3>2, <3>3
      <4> QED BY <3>1, <3>4, <4>1
    <3>6. InFrontOf(merged[d], d)
      BY <1>1, <2>0, <3>1, <3>2
    <3> QED BY <3>1, <3>2, <3>5, <3>6
  <2>3. CASE d[1] # m /\ d[2] = n
    <3>1. merged[d] = Drop(a, d[1])
      BY <2>1, <2>3
    <3>2. Drop(a, d[1]) \in S /\ Ordered(Drop(a, d[1]))
          /\ (d[1] < m => Drop(a, d[1])[1] = a[d[1] + 1]) /\ Drop(b, d[2]) = <<>>
      BY <2>0, <2>3, RestInOrder, DropAll
    <3>3. \A e : Count(<<>>, e) = 0
      <4>1. \A e : Places(<<>>, e) = {}
        BY EmptySeq DEF Places
      <4> QED BY <4>1, FS_EmptySet DEF Count
    <3>4. \A e : Count(Drop(a, d[1]), e) \in Nat
      <4> HIDE DEF D
      <4> QED BY <3>2, PlacesFinite
    <3>5. \A e : Count(merged[d], e) = Count(Drop(a, d[1]), e) + Count(Drop(b, d[2]), e)
      <4> HIDE DEF D, S
      <4>1. \A e : Count(Drop(b, d[2]), e) = 0
        BY <3>2, <3>3
      <4> QED BY <3>1, <3>4, <4>1
    <3>6. InFrontOf(merged[d], d)
      BY <1>1, <2>0, <2>3, <3>1, <3>2
    <3> QED BY <3>1, <3>2, <3>5, <3>6
  <2>4. CASE d[1] # m /\ d[2] # n /\ NotAfter(a[d[1] + 1], b[d[2] + 1])
    <3> DEFINE x == a[d[1] + 1]
               d1 == <<d[1] + 1, d[2]>>
               t == merged[d1]
    <3>1. merged[d] = <<x>> \o t
      BY <2>1, <2>4
    <3>2. d1 \in D /\ d1 \in Good /\ x \in String
      BY <1>3, <1>10, <2>4
    <3>3. d1[1] = d[1] + 1 /\ d1[2] = d[2]
      OBVIOUS
    <3>4. t \in Seq(String) /\ Ordered(t) /\ InFrontOf(t, d1)
          /\ \A e : Count(t, e) = Count(Drop(a, d[1] + 1), e) + Count(Drop(b, d[2]), e)
      BY <3>2, <3>3
    <3>5. t # <<>> => NotAfter(x, t[1])
      <4>1. CASE d[1] + 1 < m /\ t[1] = a[(d[1] + 1) + 1]
        <5>1. (d[1] + 1) + 1 \in 2..Len(a) /\ ((d[1] + 1) + 1) - 1 = d[1] + 1
          BY <1>1, <2>0, <4>1
        <5>2. NotAfter(a[((d[1] + 1) + 1) - 1], a[(d[1] + 1) + 1])
          BY <5>1 DEF Ordered
        <5> QED BY <4>1, <5>1, <5>2
      <4>2. CASE t[1] = b[d[2] + 1]
        BY <2>4, <4>2
      <4> QED BY <3>3, <3>4, <4>1, <4>2
    <3>6. InFrontOf(merged[d], d)
      <4>1. (<<x>> \o t)[1] = x /\ d[1] < m
        <5>1. (<<x>> \o t)[1] = x
          <6> HIDE DEF x, t
          <6> QED BY <3>2, <3>4, <3>5, InFront
        <5> QED BY <1>1, <2>0, <2>4, <5>1
      <4> QED BY <3>1, <4>1
    <3> HIDE DEF t, x, InFrontOf, D, S
    <3>7. <<x>> \o t \in Seq(String) /\ Ordered(<<x>> \o t)
          /\ \A e : Count(<<x>> \o t, e) = Count(<<x>>, e) + Count(t, e)
      BY <3>2, <3>4, <3>5, InFront
    <3>8. ASSUME NEW e
          PROVE  Count(merged[d], e) = Count(Drop(a, d[1]), e) + Count(Drop(b, d[2]), e)
      <4> DEFINE tail == Drop(a, d[1] + 1)
                 front == <<x>>
                 cx == Count(front, e)
                 ca == Count(tail, e)
                 cb == Count(Drop(b, d[2]), e)
      <4>1. front \in Seq(String) /\ tail \in Seq(String) /\ Drop(a, d[1]) = front \o tail
        <5>1. d[1] \in Nat /\ d[1] < Len(a)
          BY <1>1, <2>0, <2>4
        <5> QED BY <5>1, DropOne DEF x
      <4> HIDE DEF tail, front
      <4>2. Count(Drop(a, d[1]), e) = cx + ca
        BY <4>1, CountJoined
      <4>3. cx \in Nat /\ ca \in Nat /\ cb \in Nat
        <5>1. Drop(b, d[2]) \in Seq(String)
          BY <2>0, RestInOrder
        <5> QED BY <4>1, <5>1, PlacesFinite
      <4>4. Count(t, e) = ca + cb
        BY <3>4 DEF tail
      <4>5. Count(merged[d], e) = cx + Count(t, e)
        BY <3>1, <3>7 DEF front
      <4> HIDE DEF cx, ca, cb
      <4>6. Count(merged[d], e) = (cx + ca) + cb
        BY <4>3, <4>4, <4>5
      <4> QED BY <4>2, <4>6 DEF cb
    <3>9. merged[d] \in S /\ Ordered(merged[d])
      BY <3>1, <3>7 DEF S
    <3> QED BY <3>6, <3>8, <3>9
  <2>5. CASE d[1] # m /\ d[2] # n /\ ~NotAfter(a[d[1] + 1], b[d[2] + 1])
    <3> DEFINE x == b[d[2] + 1]
               d1 == <<d[1], d[2] + 1>>
               t == merged[d1]
    <3>1. merged[d] = <<x>> \o t
      BY <2>1, <2>5
    <3>2. d1 \in D /\ d1 \in Good /\ x \in String /\ a[d[1] + 1] \in String
      BY <1>3, <1>10, <2>5
    <3>3. d1[1] = d[1] /\ d1[2] = d[2] + 1
      OBVIOUS
    <3>4. t \in Seq(String) /\ Ordered(t) /\ InFrontOf(t, d1)
          /\ \A e : Count(t, e) = Count(Drop(a, d[1]), e) + Count(Drop(b, d[2] + 1), e)
      BY <3>2, <3>3
    <3>5. t # <<>> => NotAfter(x, t[1])
      <4>1. CASE d[2] + 1 < n /\ t[1] = b[(d[2] + 1) + 1]
        <5>1. (d[2] + 1) + 1 \in 2..Len(b) /\ ((d[2] + 1) + 1) - 1 = d[2] + 1
          BY <1>1, <2>0, <4>1
        <5>2. NotAfter(b[((d[2] + 1) + 1) - 1], b[(d[2] + 1) + 1])
          BY <5>1 DEF Ordered
        <5> QED BY <4>1, <5>1, <5>2
      <4>2. CASE t[1] = a[d[1] + 1]
        BY <2>5, <3>2, <4>2, NotAfterTotal
      <4> QED BY <3>3, <3>4, <4>1, <4>2
    <3>6. InFrontOf(merged[d], d)
      <4>1. (<<x>> \o t)[1] = x /\ d[2] < n
        <5>1. (<<x>> \o t)[1] = x
          <6> HIDE DEF x, t
          <6> QED BY <3>2, <3>4, <3>5, InFront
        <5> QED BY <1>1, <2>0, <2>5, <5>1
      <4> QED BY <3>1, <4>1
    <3> HIDE DEF t, x, InFrontOf, D, S
    <3>7. <<x>> \o t \in Seq(String) /\ Ordered(<<x>> \o t)
          /\ \A e : Count(<<x>> \o t, e) = Count(<<x>>, e) + Count(t, e)
      BY <3>2, <3>4, <3>5, InFront
    <3>8. ASSUME NEW e
          PROVE  Count(merged[d], e) = Count(Drop(a, d[1]), e) + Count(Drop(b, d[2]), e)
      <4> DEFINE tail == Drop(b, d[2] + 1)
                 front == <<x>>
                 cx == Count(front, e)
                 ca == Count(Drop(a, d[1]), e)
                 cb == Count(tail, e)
      <4>1. front \in Seq(String) /\ tail \in Seq(String) /\ Drop(b, d[2]) = front \o tail
        <5>1. d[2] \in Nat /\ d[2] < Len(b)
          BY <1>1, <2>0, <2>5
        <5> QED BY <5>1, DropOne DEF x
      <4> HIDE DEF tail, front
      <4>2. Count(Drop(b, d[2]), e) = cx + cb
        BY <4>1, CountJoined
      <4>3. cx \in Nat /\ ca \in Nat /\ cb \in Nat
        <5>1. Drop(a, d[1]) \in Seq(String)
          BY <2>0, RestInOrder
        <5> QED BY <4>1, <5>1, PlacesFinite
      <4>4. Count(t, e) = ca + cb
        BY <3>4 DEF tail
      <4>5. Count(merged[d], e) = cx + Count(t, e)
        BY <3>1, <3>7 DEF front
      <4> HIDE DEF cx, ca, cb
      <4>6. Count(merged[d], e) = ca + (cx + cb)
        BY <4>3, <4>4, <4>5
      <4> QED BY <4>2, <4>6 DEF ca
    <3>9. merged[d] \in S /\ Ordered(merged[d])
      BY <3>1, <3>7 DEF S
    <3> QED BY <3>6, <3>8, <3>9
  <2> QED BY <2>2, <2>3, <2>4, <2>5
<1>11. \A d \in D : d \in Good
  <2> HIDE DEF Good, D
  <2> QED BY <1>4, <1>10, ByMeasure
<1>12. <<0, 0>> \in Good
  <2>1. <<0, 0>> \in D
    BY <1>1
  <2> HIDE DEF Good, D
  <2> QED BY <1>11, <2>1
<1>13. Drop(a, 0) = a /\ Drop(b, 0) = b
  BY DropAll
<1> QED BY <1>2, <1>12, <1>13

(***************************************************************************)
(* Sorting puts the elements in order, each as often as it was there.      *)
(***************************************************************************)
LEMMA HalfIsLess ==
    ASSUME NEW n \in Nat, n >= 2
    PROVE  LeftHalf(n) \in Nat /\ 0 < LeftHalf(n) /\ LeftHalf(n) < n
BY DEF LeftHalf

LEMMA MergeSortIs ==
    ASSUME NEW s \in Seq(String)
    PROVE  /\ MergeSort(s) \in Seq(String) /\ Ordered(MergeSort(s))
           /\ \A e : Count(MergeSort(s), e) = Count(s, e)
<1> DEFINE n == Len(s)
           D == (0..n) \X (0..n)
           S == {t \in Seq(String) : Ordered(t)}
           Half(d) == d[1] + LeftHalf(d[2] - d[1])
           Value(d, f) == IF d[2] - d[1] < 2 THEN SubSeq(s, d[1] + 1, d[2])
                          ELSE Merge(f[<<d[1], Half(d)>>], f[<<Half(d), d[2]>>])
           mu == [d \in D |-> IF d[1] <= d[2] THEN d[2] - d[1] ELSE 0]
           G == [p \in D \X [D -> S] |-> Value(p[1], p[2])]
           Is(g) == g = [d \in D |-> Value(d, g)]
           sorted == CHOOSE g : Is(g)
           Good == {d \in D : /\ sorted[d] \in S
                              /\ \A e : Count(sorted[d], e) = Count(SubSeq(s, d[1] + 1, d[2]), e)}
<1>1. n \in Nat
  BY LenProperties
<1>2. MergeSort(s) = sorted[<<0, n>>]
  BY DEF MergeSort
<1>3. ASSUME NEW d \in D
      PROVE  /\ d = <<d[1], d[2]>> /\ d[1] \in 0..n /\ d[2] \in 0..n
             /\ mu[d] \in Nat /\ mu[d] < n + 1
             /\ ~(d[2] - d[1] < 2) =>
                    /\ Half(d) \in 0..n /\ d[1] < Half(d) /\ Half(d) < d[2]
                    /\ <<d[1], Half(d)>> \in D /\ mu[<<d[1], Half(d)>>] < mu[d]
                    /\ <<Half(d), d[2]>> \in D /\ mu[<<Half(d), d[2]>>] < mu[d]
  <2>1. d = <<d[1], d[2]>> /\ d[1] \in 0..n /\ d[2] \in 0..n
    OBVIOUS
  <2>2. mu[d] = IF d[1] <= d[2] THEN d[2] - d[1] ELSE 0
    OBVIOUS
  <2>3. mu[d] \in Nat /\ mu[d] < n + 1
    BY <1>1, <2>1, <2>2
  <2>4. ASSUME ~(d[2] - d[1] < 2)
        PROVE  /\ Half(d) \in 0..n /\ d[1] < Half(d) /\ Half(d) < d[2]
               /\ <<d[1], Half(d)>> \in D /\ mu[<<d[1], Half(d)>>] < mu[d]
               /\ <<Half(d), d[2]>> \in D /\ mu[<<Half(d), d[2]>>] < mu[d]
    <3>1. d[2] - d[1] \in Nat /\ d[2] - d[1] >= 2
      BY <1>1, <2>1, <2>4
    <3> DEFINE h == LeftHalf(d[2] - d[1])
    <3>2. h \in Nat /\ 0 < h /\ h < d[2] - d[1]
      BY <3>1, HalfIsLess
    <3> HIDE DEF h
    <3>3. d[1] + h \in 0..n /\ d[1] < d[1] + h /\ d[1] + h < d[2]
      BY <1>1, <2>1, <3>2
    <3>4. <<d[1], d[1] + h>> \in D /\ <<d[1] + h, d[2]>> \in D
      BY <2>1, <3>3
    <3>5. /\ mu[<<d[1], d[1] + h>>] = IF d[1] <= d[1] + h THEN (d[1] + h) - d[1] ELSE 0
          /\ mu[<<d[1] + h, d[2]>>] = IF d[1] + h <= d[2] THEN d[2] - (d[1] + h) ELSE 0
      BY <3>4
    <3> HIDE DEF mu, D
    <3>6. mu[<<d[1], d[1] + h>>] < mu[d] /\ mu[<<d[1] + h, d[2]>>] < mu[d]
      BY <1>1, <2>1, <2>2, <3>2, <3>3, <3>5
    <3> QED BY <3>3, <3>4, <3>6 DEF h
  <2> HIDE DEF mu, Half
  <2> QED BY <2>1, <2>3, <2>4
<1>4. Measured(D, mu, n + 1)
  <2>1. \A d \in D : (IF d[1] <= d[2] THEN d[2] - d[1] ELSE 0) \in Nat
    BY <1>1
  <2>2. mu \in [D -> Nat]
    BY <2>1
  <2>3. \A d \in D : mu[d] < n + 1
    BY <1>3
  <2> QED BY <1>1, <2>2, <2>3 DEF Measured
<1> HIDE DEF mu
<1>5. ASSUME NEW d \in D
      PROVE  SubSeq(s, d[1] + 1, d[2]) \in Seq(String)
             /\ (d[2] - d[1] < 2 => Ordered(SubSeq(s, d[1] + 1, d[2])))
  <2>1. d[1] + 1 \in Nat \ {0} /\ d[2] \in Int /\ d[2] <= Len(s)
    BY <1>1, <1>3
  <2> DEFINE u == SubSeq(s, d[1] + 1, d[2])
  <2>2. u \in Seq(String) /\ Len(u) = IF d[1] + 1 <= d[2] THEN d[2] - (d[1] + 1) + 1 ELSE 0
    BY <2>1, PartIs
  <2> HIDE DEF u
  <2>3. d[2] - d[1] < 2 => Ordered(u)
    <3>1. d[2] - d[1] < 2 => Len(u) <= 1
      BY <1>1, <1>3, <2>2
    <3>2. Len(u) \in Nat
      BY <2>2, LenProperties
    <3> QED BY <3>1, <3>2 DEF Ordered
  <2> QED BY <2>2, <2>3 DEF u
<1>6. ASSUME NEW d \in D, NEW f \in [D -> S]
      PROVE  Value(d, f) \in S
  <2>1. ~(d[2] - d[1] < 2) => f[<<d[1], Half(d)>>] \in S /\ f[<<Half(d), d[2]>>] \in S
    BY <1>3
  <2> HIDE DEF D, Half
  <2> QED BY <1>5, <2>1, MergeIs
<1>7. Grounded(G, D, S, mu)
  <2>1. G \in [D \X [D -> S] -> S]
    <3> HIDE DEF D, S, Value
    <3> QED BY <1>6
  <2> SUFFICES ASSUME NEW d \in D, NEW f \in [D -> S], NEW g \in [D -> S],
                      \A e \in D : mu[e] < mu[d] => f[e] = g[e]
               PROVE  G[<<d, f>>] = G[<<d, g>>]
    BY <2>1 DEF Grounded
  <2>2. G[<<d, f>>] = Value(d, f) /\ G[<<d, g>>] = Value(d, g)
    <3> HIDE DEF D, S, Value
    <3> QED OBVIOUS
  <2> HIDE DEF G
  <2>3. ~(d[2] - d[1] < 2) => /\ f[<<d[1], Half(d)>>] = g[<<d[1], Half(d)>>]
                              /\ f[<<Half(d), d[2]>>] = g[<<Half(d), d[2]>>]
    BY <1>3
  <2> HIDE DEF D, S, Half
  <2> QED BY <2>2, <2>3
<1>8. Is(sorted)
  <2> DEFINE none == <<>>
             top == n + 1
  <2>1. none \in S
    <3>1. none \in Seq(String) /\ Len(none) = 0
      BY EmptySeq
    <3> QED BY <3>1 DEF Ordered
  <2>2. Measured(D, mu, top)
    BY <1>4
  <2> HIDE DEF S, D, Value, none, top
  <2>3. PICK f : Solves(f, G, D, S)
    <3> HIDE DEF G
    <3> QED BY <1>7, <2>1, <2>2, Recursion
  <2>4. f \in [D -> S] /\ \A d \in D : f[d] = G[<<d, f>>]
    BY <2>3 DEF Solves
  <2>5. \A d \in D : f[d] = Value(d, f)
    BY <2>4
  <2>6. Is(f)
    BY <2>4, <2>5
  <2> HIDE DEF Is
  <2> QED BY <2>6
<1> HIDE DEF sorted, G
<1>9. \A d \in D : sorted[d] = Value(d, sorted)
  <2> HIDE DEF D, Value
  <2> QED BY <1>8
<1>10. ASSUME NEW d \in D, \A e \in D : mu[e] < mu[d] => e \in Good
       PROVE  d \in Good
  <2>1. sorted[d] = Value(d, sorted)
    BY <1>9
  <2>2. CASE d[2] - d[1] < 2
    BY <1>5, <2>1, <2>2
  <2>3. CASE ~(d[2] - d[1] < 2)
    <3> DEFINE h == Half(d)
               t == sorted[<<d[1], h>>]
               u == sorted[<<h, d[2]>>]
               v == SubSeq(s, d[1] + 1, h)
               w == SubSeq(s, h + 1, d[2])
    <3>1. /\ h \in 0..n /\ d[1] < h /\ h < d[2] /\ <<d[1], h>> \in D /\ <<h, d[2]>> \in D
          /\ <<d[1], h>> \in Good /\ <<h, d[2]>> \in Good
      BY <1>3, <1>10, <2>3
    <3>2. t \in S /\ (\A e : Count(t, e) = Count(v, e)) /\ u \in S /\ (\A e : Count(u, e) = Count(w, e))
      BY <3>1
    <3>3. sorted[d] = Merge(t, u)
      BY <2>1, <2>3
    <3>4. v \in Seq(String) /\ w \in Seq(String)
      BY <1>5, <3>1
    <3>5. SubSeq(s, d[1] + 1, d[2]) = v \o w
      <4>1. d[1] + 1 \in 1..(Len(s) + 1) /\ h \in ((d[1] + 1) - 1)..Len(s) /\ d[2] \in h..Len(s)
        BY <1>1, <1>3, <3>1
      <4> HIDE DEF h
      <4> QED BY <4>1, ConcatAdjacentSubSeq
    <3> HIDE DEF h, v, w, t, u, D
    <3>6. \A e : Count(v \o w, e) = Count(v, e) + Count(w, e)
      BY <3>4, CountJoined
    <3>7. Merge(t, u) \in S /\ \A e : Count(Merge(t, u), e) = Count(t, e) + Count(u, e)
      BY <3>2, MergeIs
    <3>8. \A e : Count(sorted[d], e) = Count(SubSeq(s, d[1] + 1, d[2]), e)
      BY <3>2, <3>3, <3>5, <3>6, <3>7
    <3> QED BY <3>3, <3>7, <3>8
  <2> QED BY <2>2, <2>3
<1>11. \A d \in D : d \in Good
  <2> DEFINE top == n + 1
  <2>1. mu \in [D -> Nat]
    BY <1>4 DEF Measured
  <2> HIDE DEF Good, D
  <2> QED BY <2>1, <1>10, ByMeasure
<1>12. <<0, n>> \in Good
  <2>1. <<0, n>> \in D
    BY <1>1
  <2> HIDE DEF Good, D
  <2> QED BY <1>11, <2>1
<1>13. SubSeq(s, 0 + 1, n) = s
  BY SubSeqFull
<1> QED BY <1>2, <1>12, <1>13

(***************************************************************************)
(* What `export` lists: each entry as often as it is there, in order.      *)
(***************************************************************************)
LEMMA PairsInOrder ==
    ASSUME NEW s \in Seq(String), Ordered(s), NEW p \in 1..Len(s), NEW q \in 1..Len(s), p <= q
    PROVE  NotAfter(s[p], s[q])
<1> DEFINE Good == {k \in 1..Len(s) : NotAfter(s[p], s[k])}
<1>1. Len(s) \in Nat /\ p \in Nat /\ \A k \in 1..Len(s) : s[k] \in String
  BY LenProperties, ElementOfSeq
<1>2. p \in Good
  <2>1. PrefixOf(s[p], s[p])
    <3>1. Len(s[p]) \in Nat
      BY <1>1, LenProperties DEF String
    <3> QED BY <3>1 DEF PrefixOf
  <2> QED BY <1>1, <2>1, NotAfterIs
<1>3. ASSUME NEW k \in (p + 1)..Len(s), k - 1 \in Good PROVE k \in Good
  <2>1. k \in 2..Len(s) /\ k \in 1..Len(s) /\ k - 1 \in 1..Len(s)
    BY <1>1
  <2>2. NotAfter(s[p], s[k - 1]) /\ NotAfter(s[k - 1], s[k])
    BY <1>3, <2>1 DEF Ordered
  <2> QED BY <1>1, <2>1, <2>2, NotAfterTransitive
<1>4. \A k \in p..Len(s) : k \in Good
  <2> HIDE DEF Good
  <2> QED BY <1>1, <1>2, <1>3, Climbs
<1>5. q \in p..Len(s)
  BY <1>1
<1> QED BY <1>4, <1>5

LEMMA PartInOrder ==
    ASSUME NEW s \in Seq(String), NEW K \in SUBSET DOMAIN s
    PROVE  /\ At(s, K) \in Seq(String)
           /\ Ordered(s) => Ordered(At(s, K))
           /\ \A e : Count(At(s, K), e) = Cardinality({k \in K : s[k] = e})
<1> DEFINE n == Cardinality(K)
           order == InOrder(K, Less(K))
           u == At(s, K)
<1>0. Len(s) \in Nat /\ DOMAIN s = 1..Len(s)
  BY LenProperties
<1>1. IsFiniteSet(K) /\ K \in SUBSET Nat /\ StrictOrder(Less(K), K)
  <2>1. IsFiniteSet(1..Len(s))
    BY <1>0, FS_Interval
  <2>2. IsFiniteSet(K) /\ K \in SUBSET Nat
    BY <1>0, <2>1, FS_Subset
  <2> QED BY <2>2, LessIsStrictOrder
<1>2. u \in Seq(String) /\ Len(u) = n /\ \A k \in 1..n : order[k] \in K /\ u[k] = s[order[k]]
  BY AtIs
<1>3. /\ n \in Nat /\ order \in [1..n -> K]
      /\ \A i \in K : \E k \in 1..n : order[k] = i
      /\ \A j, k \in 1..n : order[j] = order[k] => j = k
      /\ \A j, k \in 1..n : j < k => order[j] < order[k]
  <2>1. /\ n \in Nat /\ order \in [1..n -> K]
        /\ \A i \in K : \E k \in 1..n : order[k] = i
        /\ \A j, k \in 1..n : order[j] = order[k] => j = k
        /\ \A j, k \in 1..n : j < k => <<order[j], order[k]>> \in Less(K)
    BY <1>1, InOrderLists
  <2>2. \A i, j : <<i, j>> \in Less(K) => i < j
    BY DEF Less
  <2> HIDE DEF order, n
  <2>3. \A j, k \in 1..n : j < k => order[j] < order[k]
    BY <2>1, <2>2
  <2> QED BY <2>1, <2>3
<1> HIDE DEF u, order, n
<1>4. ASSUME Ordered(s), NEW k \in 2..Len(u) PROVE NotAfter(u[k - 1], u[k])
  <2>1. k \in 1..n /\ k - 1 \in 1..n /\ k - 1 < k
    BY <1>2, <1>3
  <2>2. order[k - 1] \in 1..Len(s) /\ order[k] \in 1..Len(s) /\ order[k - 1] <= order[k]
        /\ u[k - 1] = s[order[k - 1]] /\ u[k] = s[order[k]]
    BY <1>0, <1>1, <1>2, <1>3, <2>1
  <2> QED BY <1>4, <2>2, PairsInOrder
<1>5. ASSUME NEW e PROVE Count(u, e) = Cardinality({k \in K : s[k] = e})
  <2> DEFINE P == Places(u, e)
             Q == {k \in K : s[k] = e}
             f == [k \in P |-> order[k]]
  <2>1. P \in SUBSET (1..n) /\ IsFiniteSet(P) /\ \A k \in 1..n : k \in P <=> u[k] = e
    <3>1. P \in SUBSET (1..n) /\ IsFiniteSet(P)
      BY <1>2, PlacesFinite
    <3>2. DOMAIN u = 1..n
      BY <1>2, LenProperties
    <3> QED BY <3>1, <3>2 DEF Places
  <2> HIDE DEF P
  <2>2. f \in [P -> Q]
    BY <1>2, <2>1
  <2>3. \A q \in Q : \E k \in P : f[k] = q
    BY <1>2, <1>3, <2>1
  <2>4. \A j, k \in P : f[j] = f[k] => j = k
    BY <1>3, <2>1
  <2> HIDE DEF f, Q
  <2>5. f \in Surjection(P, Q) /\ f \in Injection(P, Q)
    BY <2>2, <2>3, <2>4 DEF Surjection, Injection, IsInjective
  <2>6. Cardinality(Q) = Cardinality(P)
    BY <2>1, <2>5, FS_Surjection
  <2> QED BY <2>6 DEF P, Q, Count
<1>6. Ordered(s) => Ordered(u)
  BY <1>4 DEF Ordered
<1> QED BY <1>2, <1>5, <1>6 DEF u

LEMMA SortExportIs ==
    ASSUME NEW c \in Context
    PROVE  /\ Ordered(SortExport(c))
           /\ \A e : Count(SortExport(c), e) = IF Hidden(c, e) THEN 0 ELSE Count(c.env, e)
<1> DEFINE list == MergeSort(c.env)
           K == {k \in DOMAIN list : ~Hidden(c, list[k])}
<1>1. c.env \in Seq(String)
  BY DEF Context
<1>2. list \in Seq(String) /\ Ordered(list) /\ \A e : Count(list, e) = Count(c.env, e)
  BY <1>1, MergeSortIs
<1>3. SortExport(c) = At(list, K)
  BY DEF SortExport
<1> HIDE DEF list
<1>4. Ordered(At(list, K)) /\ \A e : Count(At(list, K), e) = Cardinality({k \in K : list[k] = e})
  BY <1>2, PartInOrder
<1>5. ASSUME NEW e
      PROVE  {k \in K : list[k] = e} = IF Hidden(c, e) THEN {} ELSE Places(list, e)
  BY DEF Places
<1> HIDE DEF K
<1> QED BY <1>2, <1>3, <1>4, <1>5, FS_EmptySet DEF Count

----------------------------------------------------------------------------
(* Words. *)

(***************************************************************************)
(* The names that match, in some order.                                    *)
(***************************************************************************)
LEMMA SetToSeqType ==
    ASSUME NEW S, IsFiniteSet(S)
    PROVE  SetToSeq(S) \in Seq(S)
<1> DEFINE n == Cardinality(S)
           Lists1 == {f \in [1..n -> S] : IsInjective(f)}
<1>1. n \in Nat /\ ExistsBijection(1..n, S)
  BY FS_CardinalityType
<1>2. Lists1 # {}
  BY <1>1 DEF ExistsBijection, Bijection, Injection
<1>3. SetToSeq(S) = CHOOSE f \in [1..n -> S] : IsInjective(f)
  BY DEF SetToSeq
<1>4. SetToSeq(S) \in [1..n -> S]
  BY <1>2, <1>3
<1> QED BY <1>1, <1>4, SeqDef

Directory == {names \in SUBSET String : IsFiniteSet(names)}

LEMMA ExpandWildcardType ==
    ASSUME NEW p \in String, NEW names \in Directory
    PROVE  ExpandWildcard(p, names) \in Seq(String)
<1> DEFINE found == {f \in names : Listed(p, f)}
<1>1. IsFiniteSet(found) /\ found \subseteq String
  BY FS_Subset DEF Directory
<1>2. ExpandWildcard(p, names) = IF found = {} THEN <<p>> ELSE MergeSort(SetToSeq(found))
  BY DEF ExpandWildcard
<1> HIDE DEF found
<1>3. SetToSeq(found) \in Seq(String)
  BY <1>1, SetToSeqType, SeqMonotonic
<1>4. MergeSort(SetToSeq(found)) \in Seq(String)
  BY <1>3, MergeSortIs
<1>5. <<p>> \in Seq(String)
  OBVIOUS
<1> QED BY <1>2, <1>4, <1>5

LEMMA ExpandAsteriskType ==
    ASSUME NEW word \in String, NEW names \in Directory
    PROVE  ExpandAsterisk(word, names) \in Seq(String)
<1> DEFINE parts == Split(word, " ")
           lost == {k \in DOMAIN parts : names = {} /\ Holds(parts[k], "*")}
           Reached(k) == \A j \in lost : k < j
           W(k) == IF ~Reached(k) THEN <<>>
                   ELSE IF Holds(parts[k], "*") THEN ExpandWildcard(parts[k], names)
                   ELSE <<parts[k]>>
           list == [k \in DOMAIN parts |-> W(k)]
<1>1. parts \in Seq(String) /\ <<>> \in Seq(String)
  BY SplitType, EmptySeq
<1>2. ExpandAsterisk(word, names) = FlattenSeq(list)
  BY DEF ExpandAsterisk
<1> HIDE DEF parts, Reached
<1>3. Len(parts) \in Nat /\ DOMAIN parts = 1..Len(parts) /\ \A k \in 1..Len(parts) : parts[k] \in String
  BY <1>1, LenProperties, ElementOfSeq
<1>4. \A k \in 1..Len(parts) : W(k) \in Seq(String)
  BY <1>1, <1>3, ExpandWildcardType
<1> HIDE DEF W
<1>5. list \in Seq(Seq(String))
  BY <1>3, <1>4
<1> HIDE DEF list
<1> QED BY <1>2, <1>5, FlattenType

(***************************************************************************)
(* While a word is expanded: once an asterisk was seen there is a word.    *)
(***************************************************************************)
Texts == String \cup {Null}
Quotes == {"", "'", "\""}
WordRecord == [list : Seq(String), join : Texts, quote : Quotes, star : BOOLEAN, skip : Nat]
WordState == {st \in WordRecord : st.star => st.join \in String}

LEMMA JoinType ==
    ASSUME NEW s \in Texts, NEW t \in Texts
    PROVE  /\ Join(s, t) \in Texts
           /\ t \in String => Join(s, t) \in String
           /\ s \in String => Join(s, t) \in String
<1>1. CASE t = Null
  BY <1>1, NullIsNoString DEF Join, Texts
<1>2. CASE t # Null /\ s = Null
  BY <1>2, NullIsNoString DEF Join, Texts
<1>3. CASE t # Null /\ s # Null
  <2>1. s \in String /\ t \in String
    BY <1>3 DEF Texts
  <2>2. Join(s, t) = s \o t
    BY <1>3 DEF Join
  <2> QED BY <2>1, <2>2, StringsJoined DEF Texts
<1> QED BY <1>1, <1>2, <1>3

LEMMA ExtractDollarType ==
    ASSUME NEW w \in String, NEW k \in 1..Len(w)
    PROVE  ExtractDollar(w, k) \in String /\ Len(ExtractDollar(w, k)) \in Nat
<1> DEFINE S == {j \in k..Len(w) : \A n \in (k + 1)..j : ValidChar(w[n])}
<1>1. Len(w) \in Nat /\ w \in Seq(Char)
  BY LenProperties DEF String
<1>2. S \in SUBSET (1..Len(w)) /\ k \in S
  BY <1>1
<1>3. ExtractDollar(w, k) = SubSeq(w, k + 1, Max(S))
  BY DEF ExtractDollar
<1> HIDE DEF S
<1>4. Max(S) \in 1..Len(w)
  BY <1>1, <1>2, MaxIs
<1>5. k + 1 \in Nat \ {0} /\ Max(S) \in Int /\ Max(S) <= Len(w)
  BY <1>1, <1>4
<1>6. SubSeq(w, k + 1, Max(S)) \in Seq(Char)
  BY <1>1, <1>5, PartIs
<1> QED BY <1>3, <1>6, LenProperties DEF String

LEMMA ValueOfType ==
    ASSUME NEW name \in String, NEW c \in Context, NEW s \in -1..256
    PROVE  ValueOf(name, c, s) \in Texts
<1>1. Itoa(s) \in String
  <2>1. s \in -1..1001
    OBVIOUS
  <2> QED BY <2>1, TextsAssumption
<1>2. GetValue(name, c.env) \in Texts
  BY GetValueType DEF Context, Texts
<1> QED BY <1>1, <1>2 DEF ValueOf, Texts

LEMMA SplitAndAddType ==
    ASSUME NEW st \in WordRecord, NEW value \in String
    PROVE  SplitAndAdd(st, value) \in WordState
<1> DEFINE join == Join(st.join, value)
           parts == Split(join, " ")
           trailing == value[Len(value)] \in {" ", "\t"}
<1>1. join \in String
  BY JoinType DEF Texts, WordRecord
<1>2. parts \in Seq(String)
  BY <1>1, SplitType
<1>3. SplitAndAdd(st, value) =
        IF trailing \/ parts = <<>>
        THEN [st EXCEPT !.join = join, !.list = st.list \o parts]
        ELSE [st EXCEPT !.join = Last(parts), !.list = st.list \o Front(parts)]
  BY DEF SplitAndAdd
<1> HIDE DEF join, parts, trailing
<1>4. st.list \in Seq(String) /\ st.list \o parts \in Seq(String)
  BY <1>2, ConcatProperties DEF WordRecord
<1>5. ASSUME parts # <<>>
      PROVE  Last(parts) \in String /\ st.list \o Front(parts) \in Seq(String)
  <2>1. PICK m \in Nat : m = Len(parts) /\ m # 0
    BY <1>2, <1>5, EmptySeq, LenProperties
  <2>2. Last(parts) \in String
    <3>1. m \in 1..m
      BY <2>1
    <3>2. parts[m] \in String
      BY <1>2, <2>1, <3>1, ElementOfSeq
    <3> QED BY <2>1, <3>2 DEF Last
  <2>3. Front(parts) \in Seq(String)
    <3>1. 1 \in Nat \ {0} /\ m - 1 \in Int /\ m - 1 <= m
      BY <2>1
    <3>2. SubSeq(parts, 1, m - 1) \in Seq(String)
      BY <1>2, <2>1, <3>1, PartIs
    <3> QED BY <2>1, <3>2 DEF Front
  <2> QED BY <1>4, <2>2, <2>3, ConcatProperties
<1> QED BY <1>1, <1>3, <1>4, <1>5 DEF WordState, WordRecord, Texts

LEMMA HandleDollarType ==
    ASSUME NEW st \in WordState, NEW w \in String, NEW k \in 1..Len(w), NEW c \in Context,
           NEW s \in -1..256
    PROVE  HandleDollar(st, w, k, c, s) \in WordState
<1> DEFINE name == ExtractDollar(w, k)
           found == ValueOf(name, c, s)
           value == IF found = Null /\ st.quote = "\"" THEN <<>> ELSE found
           star == value # Null /\ ~Holds(value, "\"") /\ Holds(value, "*")
           st1 == [st EXCEPT !.skip = Len(name), !.star = st.star \/ star]
<1>1. name \in String /\ Len(name) \in Nat
  BY ExtractDollarType
<1>2. found \in Texts
  BY <1>1, ValueOfType
<1>3. value \in Texts
  <2>1. <<>> \in Seq(Char)
    BY EmptySeq
  <2> QED BY <1>2, <2>1 DEF Texts, String
<1>4. HandleDollar(st, w, k, c, s) =
        IF value # Null /\ st.quote # "\"" /\ Blank(value) THEN SplitAndAdd(st1, value)
        ELSE [st1 EXCEPT !.join = Join(st1.join, value)]
  BY DEF HandleDollar
<1>5. star => value \in String
  BY <1>3 DEF Texts
<1> HIDE DEF name, found, value, star
<1>6. /\ st1 \in WordRecord
      /\ st1.star => (st.star \/ star) /\ st1.join = st.join
      /\ st1.join = st.join
  <2>1. (st.star \/ star) \in BOOLEAN
    OBVIOUS
  <2> QED BY <1>1, <2>1 DEF WordState, WordRecord
<1>7. Join(st1.join, value) \in Texts /\ (st1.star => Join(st1.join, value) \in String)
  <2>1. st1.join \in Texts
    BY <1>6 DEF WordRecord
  <2>2. st.star => st1.join \in String
    BY <1>6 DEF WordState, WordRecord
  <2> QED BY <1>3, <1>5, <1>6, <2>1, <2>2, JoinType
<1> HIDE DEF st1
<1>8. [st1 EXCEPT !.join = Join(st1.join, value)] \in WordState
  BY <1>6, <1>7 DEF WordState, WordRecord
<1>9. value # Null => SplitAndAdd(st1, value) \in WordState
  BY <1>3, <1>6, SplitAndAddType DEF Texts
<1> QED BY <1>4, <1>8, <1>9

LEMMA ExpandCharType ==
    ASSUME NEW st \in WordState, NEW w \in String, NEW k \in 1..Len(w), NEW c \in Context,
           NEW s \in -1..256
    PROVE  ExpandChar(st, w, k, c, s) \in WordState
<1> DEFINE isQuote == \/ w[k] = "\"" /\ st.quote # "'"
                      \/ w[k] = "'" /\ st.quote # "\""
           isName == k < Len(w) /\ StartsName(w[k + 1])
           plain == [st EXCEPT !.join = Join(st.join, <<w[k]>>),
                               !.star = st.star \/ (w[k] = "*" /\ st.quote = "")]
<1>1. ExpandChar(st, w, k, c, s) =
        IF st.skip > 0 THEN [st EXCEPT !.skip = st.skip - 1]
        ELSE IF isQuote THEN HandleQuote(st, w[k])
        ELSE IF w[k] = "$" /\ isName /\ st.quote # "'" THEN HandleDollar(st, w, k, c, s)
        ELSE plain
  BY DEF ExpandChar
<1>2. st.skip > 0 => [st EXCEPT !.skip = st.skip - 1] \in WordState
  <2> SUFFICES ASSUME st.skip > 0 PROVE [st EXCEPT !.skip = st.skip - 1] \in WordState
    OBVIOUS
  <2>1. st.skip \in Nat
    BY DEF WordState, WordRecord
  <2>2. st.skip - 1 \in Nat
    BY <2>1
  <2> DEFINE n == st.skip - 1
  <2> HIDE DEF n
  <2>3. n \in Nat
    BY <2>2 DEF n
  <2>4. [st EXCEPT !.skip = n] \in WordState
    BY <2>3 DEF WordState, WordRecord
  <2> QED BY <2>4 DEF n
<1>3. isQuote => HandleQuote(st, w[k]) \in WordState
  <2>1. Join(st.join, <<>>) \in String
    <3>1. <<>> \in String
      BY EmptySeq DEF String
    <3>2. <<>> \in Texts /\ st.join \in Texts
      BY <3>1 DEF Texts, WordState, WordRecord
    <3> QED BY <3>1, <3>2, JoinType
  <2>2. /\ isQuote => w[k] \in Quotes
        /\ "" \in Quotes
    BY DEF Quotes
  <2>3. HandleQuote(st, w[k]) =
          IF st.quote = w[k] THEN [st EXCEPT !.quote = ""]
          ELSE [st EXCEPT !.quote = w[k], !.join = Join(st.join, <<>>)]
    BY DEF HandleQuote
  <2> DEFINE j == Join(st.join, <<>>)
             q == w[k]
  <2> HIDE DEF isQuote, isName, plain
  <2> HIDE DEF j, q
  <2>4. j \in String /\ (isQuote => q \in Quotes)
    BY <2>1, <2>2 DEF j, q
  <2>5. [st EXCEPT !.quote = ""] \in WordState
    BY <2>2 DEF WordState, WordRecord
  <2>6. isQuote => [st EXCEPT !.quote = q, !.join = j] \in WordState
    BY <2>4 DEF WordState, WordRecord, Texts
  <2>7. HandleQuote(st, w[k]) =
          IF st.quote = w[k] THEN [st EXCEPT !.quote = ""]
          ELSE [st EXCEPT !.quote = q, !.join = j]
    BY <2>3 DEF j, q
  <2> QED BY <2>5, <2>6, <2>7
<1>4. plain \in WordState
  <2>1. w[k] \in Char
    BY ElementOfSeq DEF String
  <2>2. <<w[k]>> \in String
    <3>1. <<w[k]>> \in Seq(Char)
      BY <2>1
    <3> QED BY <3>1 DEF String
  <2> DEFINE j == Join(st.join, <<w[k]>>)
             b == st.star \/ (w[k] = "*" /\ st.quote = "")
  <2>3. j \in String
    BY <2>2, JoinType DEF Texts, WordState, WordRecord
  <2>4. b \in BOOLEAN
    OBVIOUS
  <2> HIDE DEF j, b
  <2>5. [st EXCEPT !.join = j, !.star = b] \in WordState
    BY <2>3, <2>4 DEF WordState, WordRecord, Texts
  <2> QED BY <2>5 DEF j, b
<1> HIDE DEF isQuote, isName, plain
<1> QED BY <1>1, <1>2, <1>3, <1>4, HandleDollarType

LEMMA ExpandArgListType ==
    ASSUME NEW w \in String, NEW c \in Context, NEW s \in -1..256, NEW names \in Directory
    PROVE  ExpandArgList(w, c, s, names) \in Seq(Texts)
<1> DEFINE n == Len(w)
           S == WordState
           a == [list |-> <<>>, join |-> Null, quote |-> "", star |-> FALSE, skip |-> 0]
           step == [p \in S \X (1..n) |-> ExpandChar(p[1], w, p[2], c, s)]
           places == [i \in DOMAIN w |-> i]
           Is(g) == g = [t \in SUBSET (DOMAIN places) |->
                          IF t = {} THEN a
                          ELSE ExpandChar(g[t \ {Max(t)}], w, places[Max(t)], c, s)]
           iter == CHOOSE g : Is(g)
           r == [k \in 0..n |-> iter[1..k]]
           st == iter[DOMAIN places]
<1>1. n \in Nat /\ DOMAIN w = 1..n /\ DOMAIN places = 1..n /\ \A k \in 1..n : places[k] = k
  BY LenProperties DEF String
<1>2. a \in S
  <2>1. <<>> \in Seq(String)
    BY EmptySeq
  <2>2. "" \in Quotes
    BY DEF Quotes
  <2> QED BY <2>1, <2>2 DEF WordState, WordRecord, Texts
<1>3. step \in [S \X (1..n) -> S]
  BY <1>1, ExpandCharType
<1>4. ExpandArgList(w, c, s, names) =
        IF st.star THEN st.list \o ExpandAsterisk(st.join, names) ELSE Append(st.list, st.join)
  BY DEF ExpandArgList, FoldLeftDomain, FoldLeft, MapThenFoldSet
<1> HIDE DEF n, a, S, places
<1>5. Is(iter)
  <2>1. PICK g \in [SUBSET (1..n) -> S] : IsFold(g, n, a, step)
    <3> HIDE DEF step
    <3> QED BY <1>1, <1>2, <1>3, FoldExists
  <2>2. ASSUME NEW t \in SUBSET (1..n), t # {}
        PROVE  step[<<g[t \ {Max(t)}], Max(t)>>] = ExpandChar(g[t \ {Max(t)}], w, places[Max(t)], c, s)
    <3>1. Max(t) \in 1..n
      BY <1>1, <2>2, MaxIs
    <3>2. g[t \ {Max(t)}] \in S
      OBVIOUS
    <3> QED BY <1>1, <3>1, <3>2
  <2> HIDE DEF step
  <2>3. Is(g)
    BY <1>1, <2>1, <2>2 DEF IsFold
  <2> HIDE DEF Is
  <2> QED BY <2>3
<1> HIDE DEF iter
<1>6. IsPath(r, n, S, a, step)
  <2>1. iter[{}] = a
    BY <1>5
  <2>2. ASSUME NEW t \in SUBSET (1..n), t # {}, iter[t \ {Max(t)}] \in S
        PROVE  iter[t] = step[<<iter[t \ {Max(t)}], Max(t)>>]
    <3>1. Max(t) \in 1..n
      BY <1>1, <2>2, MaxIs
    <3>2. iter[t] = ExpandChar(iter[t \ {Max(t)}], w, places[Max(t)], c, s)
      BY <1>1, <1>5, <2>2
    <3> QED BY <1>1, <2>2, <3>1, <3>2
  <2> HIDE DEF step, Is
  <2>3. \A t \in SUBSET (1..n) : t # {} /\ iter[t \ {Max(t)}] \in S
                => iter[t] = step[<<iter[t \ {Max(t)}], Max(t)>>]
    BY <2>2
  <2>4. n \in Nat
    BY <1>1
  <2> QED BY <1>2, <1>3, <2>1, <2>3, <2>4, FoldIsPath, Zenon
<1>7. r[n] = st
  BY <1>1
<1> HIDE DEF r, st
<1>8. st \in WordState
  <2>1. n \in 0..n
    BY <1>1
  <2> QED BY <1>6, <1>7, <2>1 DEF IsPath, S
<1>9. st.list \in Seq(String) /\ st.join \in Texts /\ (st.star => st.join \in String)
  BY <1>8 DEF WordState, WordRecord
<1>10. st.list \in Seq(Texts)
  <2>1. String \subseteq Texts
    BY DEF Texts
  <2> QED BY <1>9, <2>1, SeqMonotonic
<1>11. CASE st.star
  <2>1. ExpandAsterisk(st.join, names) \in Seq(Texts)
    <3>1. String \subseteq Texts
      BY DEF Texts
    <3> QED BY <1>9, <1>11, <3>1, ExpandAsteriskType, SeqMonotonic
  <2>2. st.list \o ExpandAsterisk(st.join, names) \in Seq(Texts)
    BY <1>10, <2>1, ConcatProperties
  <2> QED BY <1>4, <1>11, <2>2
<1>12. CASE ~st.star
  <2>1. Append(st.list, st.join) \in Seq(Texts)
    BY <1>9, <1>10, AppendProperties
  <2> QED BY <1>4, <1>12, <2>1
<1> QED BY <1>11, <1>12

(***************************************************************************)
(* The arguments of a command are strings.                                 *)
(***************************************************************************)
LEMMA PresentType ==
    ASSUME NEW words \in Seq(Texts)
    PROVE  Present(words) \in Seq(String)
<1> DEFINE I == {k \in DOMAIN words : words[k] # Null}
           n == Cardinality(I)
           o == InOrder(I, Less(I))
           s == At(words, I)
<1>1. Present(words) = s
  BY DEF Present
<1>2. I \in SUBSET DOMAIN words /\ \A k \in I : words[k] \in String
  <2>1. \A k \in DOMAIN words : words[k] \in Texts
    BY LenProperties, ElementOfSeq
  <2> QED BY <2>1 DEF Texts
<1> HIDE DEF I, o, s
<1>3. s \in Seq(Texts) /\ Len(s) = n
      /\ \A k \in 1..n : o[k] \in I /\ s[k] = words[o[k]]
  BY <1>2, AtIs DEF o, s
<1> HIDE DEF n
<1>4. \A k \in 1..Len(s) : s[k] \in String
  BY <1>2, <1>3
<1>5. Len(s) \in Nat /\ s = [k \in 1..Len(s) |-> s[k]]
  BY <1>3, LenProperties
<1>6. s \in Seq(String)
  BY <1>4, <1>5
<1> QED BY <1>1, <1>6

LEMMA ExpandListType ==
    ASSUME NEW words \in Seq(String), NEW c \in Context, NEW s \in -1..256,
           NEW names \in Directory
    PROVE  ExpandList(words, c, s, names) \in Seq(String)
<1> DEFINE W(k) == ExpandArgList(words[k], c, s, names)
           list == [k \in DOMAIN words |-> W(k)]
<1>1. Len(words) \in Nat /\ DOMAIN words = 1..Len(words) /\ \A k \in 1..Len(words) : words[k] \in String
  BY LenProperties, ElementOfSeq
<1>2. \A k \in 1..Len(words) : W(k) \in Seq(Texts)
  BY <1>1, ExpandArgListType
<1>3. ExpandList(words, c, s, names) = Present(FlattenSeq(list))
  BY DEF ExpandList, ExpandNodes
<1> HIDE DEF W
<1>4. list \in Seq(Seq(Texts))
  BY <1>1, <1>2
<1> HIDE DEF list
<1> QED BY <1>3, <1>4, FlattenType, PresentType

LEMMA RawType ==
    ASSUME NEW word \in Seq(Segment)
    PROVE  Raw(word) \in String
<1> DEFINE quote(k) == IF word[k].quote = "" THEN <<>> ELSE <<word[k].quote>>
           dollar(k) == IF word[k].var THEN <<"$">> ELSE <<>>
           W(k) == quote(k) \o dollar(k) \o word[k].text \o quote(k)
           list == [k \in DOMAIN word |-> W(k)]
<1>1. Len(word) \in Nat /\ DOMAIN word = 1..Len(word) /\ \A k \in 1..Len(word) : word[k] \in Segment
  BY LenProperties, ElementOfSeq
<1>2. \A g \in Segment : g.quote \in Quotes /\ g.text \in String
  BY Zenon DEF Segment, Quotes
<1>3. \A q \in Quotes : q # "" => q \in Char
  <2>1. "'" \in Char /\ "\"" \in Char
    BY EnvironAssumption
  <2> QED BY <2>1 DEF Quotes
<1>4. "$" \in Char
  BY EnvironAssumption
<1>5. <<>> \in String /\ \A x \in Char : <<x>> \in String
  <2>1. <<>> \in Seq(Char) /\ \A x \in Char : <<x>> \in Seq(Char)
    BY EmptySeq
  <2> QED BY <2>1 DEF String
<1>6. ASSUME NEW k \in 1..Len(word) PROVE W(k) \in String
  <2>1. quote(k) \in String /\ dollar(k) \in String /\ word[k].text \in String
    BY <1>1, <1>2, <1>3, <1>4, <1>5
  <2> HIDE DEF quote, dollar
  <2>2. quote(k) \o dollar(k) \in String
    BY <2>1, StringsJoined
  <2>3. quote(k) \o dollar(k) \o word[k].text \in String
    BY <2>1, <2>2, StringsJoined
  <2> QED BY <2>1, <2>3, StringsJoined
<1>7. Raw(word) = FlattenSeq(list)
  BY DEF Raw
<1> HIDE DEF W
<1>8. list \in Seq(Seq(Char))
  <2>1. \A k \in 1..Len(word) : W(k) \in Seq(Char)
    BY <1>6 DEF String
  <2> QED BY <1>1, <2>1
<1> HIDE DEF list
<1> QED BY <1>7, <1>8, FlattenType DEF String

----------------------------------------------------------------------------
(* What the variables of the shell hold.                                   *)

IsContexts(st) == \E S : st \in Seq(S) /\ \A s \in S : s.ctx \in Context

ShellTypes ==
    /\ environ \in Seq(String)
    /\ ctx \in Context /\ IsContexts(stack)
    /\ IsFiniteSet(files) /\ files \subseteq String \X String
    /\ last \in -1..256 /\ status \in -1..256
    /\ args \in Seq(String)
    /\ spc \in {"redir", "undo"} /\ Bare => args = <<>>

LEMMA EmptyContexts == IsContexts(<<>>)
<1> DEFINE none == {}
<1>1. <<>> \in Seq(none) /\ \A s \in none : s.ctx \in Context
  BY EmptySeq
<1> HIDE DEF none
<1> QED BY <1>1 DEF IsContexts

LEMMA TypesInit == ShellInit => ShellTypes
<1> SUFFICES ASSUME ShellInit PROVE ShellTypes
  OBVIOUS
<1>1. PICK start \in Starts :
        /\ environ = start.environ /\ ctx = InitContext(environ, start.cwd, start.wraps)
        /\ files = InitialFiles /\ stack = <<>> /\ args = <<>> /\ status = 0 /\ last = 0
        /\ spc = "end"
  BY DEF ShellInit
<1>2. environ \in Seq(String) /\ start.cwd \in String /\ start.wraps \in BOOLEAN
  BY <1>1, StartsAssumption
<1>3. ctx \in Context
  BY <1>1, <1>2, InitContextType
<1>4. args \in Seq(String) /\ IsContexts(stack)
  BY <1>1, EmptySeq, EmptyContexts
<1> QED BY <1>1, <1>2, <1>3, <1>4, StartsAssumption DEF ShellTypes

LEMMA ExpandedType ==
    ASSUME ShellTypes, NEW words \in Seq(String), NEW n
    PROVE  Expanded(words, n) \in Seq(String)
<1> DEFINE names == NamesIn(ctx.cwd)
           G == {g \in files : g[1] = ctx.cwd}
           F == {f[2] : f \in G}
<1>1. ctx \in Context /\ last \in -1..256
  BY DEF ShellTypes
<1>2. IsFiniteSet(F) /\ F \subseteq String
  <2>1. IsFiniteSet(G)
    BY FS_Subset DEF ShellTypes
  <2>2. IsFiniteSet(F)
    <3> DEFINE f == [g \in G |-> g[2]]
    <3>1. f \in Surjection(G, F)
      <4>1. f \in [G -> F] /\ \A y \in F : \E g \in G : f[g] = y
        OBVIOUS
      <4> QED BY <4>1 DEF Surjection
    <3> HIDE DEF G, F, f
    <3> QED BY <2>1, <3>1, FS_Surjection
  <2>3. \A g \in G : g[2] \in String
    BY DEF ShellTypes
  <2> QED BY <2>2, <2>3
<1>3. <<".">> \in String /\ <<".", ".">> \in String
  <2>1. "." \in Char
    BY EnvironAssumption
  <2> QED BY <2>1 DEF String
<1>4. names = F \cup {<<".">>, <<".", ".">>}
  BY DEF NamesIn
<1> HIDE DEF F, names
<1>5. names \in Directory
  <2> DEFINE two == {<<".">>, <<".", ".">>}
  <2>1. IsFiniteSet(two)
    <3>1. IsFiniteSet({<<".">>} \cup {<<".", ".">>})
      <4>1. IsFiniteSet({<<".">>})
        BY FS_Singleton
      <4> QED BY <4>1, FS_AddElement
    <3>2. two = {<<".">>} \cup {<<".", ".">>}
      OBVIOUS
    <3> QED BY <3>1, <3>2
  <2>2. two \subseteq String
    BY <1>3
  <2> HIDE DEF two
  <2>3. IsFiniteSet(F \cup two)
    BY <1>2, <2>1, FS_Union
  <2>4. names = F \cup two
    BY <1>4 DEF two
  <2> QED BY <1>2, <2>2, <2>3, <2>4 DEF Directory
<1>6. Listing(n) \in Directory
  <2>1. {} \in Directory
    BY FS_EmptySet DEF Directory
  <2> QED BY <1>5, <2>1 DEF Listing, names
<1>7. Expanded(words, n) = ExpandList(words, ctx, last, Listing(n))
  BY DEF Expanded
<1> QED BY <1>1, <1>6, <1>7, ExpandListType

LEMMA RawWords ==
    ASSUME NEW cmd \in Command
    PROVE  [k \in DOMAIN cmd.words |-> Raw(cmd.words[k])] \in Seq(String)
<1> DEFINE words == cmd.words
<1>1. words \in Seq(Seq(Segment))
  BY DEF Command
<1> HIDE DEF words
<1>2. Len(words) \in Nat /\ DOMAIN words = 1..Len(words)
      /\ \A k \in 1..Len(words) : words[k] \in Seq(Segment)
  BY <1>1, LenProperties, ElementOfSeq
<1>3. \A k \in 1..Len(words) : Raw(words[k]) \in String
  BY <1>2, RawType
<1>4. [k \in 1..Len(words) |-> Raw(words[k])] \in Seq(String)
  BY <1>2, <1>3
<1>5. [k \in DOMAIN words |-> Raw(words[k])] \in Seq(String)
  BY <1>2, <1>4
<1> QED BY <1>5 DEF words

LEMMA NothingExpands ==
    ASSUME NEW c, NEW s, NEW names
    PROVE  ExpandList(<<>>, c, s, names) = <<>>
<1> DEFINE none == <<>>
           list == [k \in DOMAIN none |-> ExpandArgList(none[k], c, s, names)]
           I == {k \in DOMAIN none : none[k] # Null}
<1>1. none \in Seq(Texts) /\ Len(none) = 0 /\ DOMAIN none = {}
  BY EmptySeq
<1>2. list = none
  BY <1>1
<1>3. FlattenSeq(none) = none
  BY <1>1 DEF FlattenSeq
<1>4. At(none, I) \in Seq(Texts) /\ Len(At(none, I)) = 0
  <2>1. I = {} /\ I \in SUBSET DOMAIN none
    BY <1>1
  <2> HIDE DEF none, I
  <2>2. Cardinality(I) = 0
    BY <2>1, FS_EmptySet
  <2> QED BY <1>1, <2>1, <2>2, AtIs
<1>5. At(none, I) = none
  <2> HIDE DEF none, I
  <2> QED BY <1>1, <1>4, SeqEqual
<1>6. ExpandList(none, c, s, names) = Present(FlattenSeq(list))
  BY DEF ExpandList, ExpandNodes
<1>7. Present(none) = At(none, I)
  BY DEF Present
<1> HIDE DEF none, list, I
<1>8. ExpandList(none, c, s, names) = none
  BY <1>2, <1>3, <1>5, <1>6, <1>7
<1> QED BY <1>8 DEF none

LEMMA ArgsType ==
    ASSUME ShellTypes, Lists, cmds # <<>>
    PROVE  /\ Expanded(RawOf, 0) \in Seq(String)
           /\ Bare => Expanded(RawOf, 0) = <<>>
<1> DEFINE raw == [k \in DOMAIN Cmd.words |-> Raw(Cmd.words[k])]
<1>1. Cmd \in Command
  BY TypesInHand
<1>2. raw \in Seq(String)
  BY <1>1, RawWords
<1>3. Bare => raw = <<>>
  <2> SUFFICES ASSUME Bare PROVE raw = <<>>
    OBVIOUS
  <2>1. DOMAIN Cmd.words = {} /\ DOMAIN raw = {}
    BY DEF Bare
  <2>2. Len(raw) = 0
    BY <1>2, <2>1, LenProperties
  <2> QED BY <1>2, <2>2, EmptySeq
<1> HIDE DEF raw
<1>4. Expanded(raw, 0) \in Seq(String)
  BY <1>2, ExpandedType
<1>5. Bare => Expanded(raw, 0) = <<>>
  BY <1>3, NothingExpands DEF Expanded
<1>6. RawOf = raw
  BY DEF RawOf, raw
<1> QED BY <1>4, <1>5, <1>6

(***************************************************************************)
(* The context of a process that waited, and statuses.                     *)
(***************************************************************************)
LEMMA TypesOfBackIn ==
    ASSUME ShellTypes
    PROVE  BackIn(ctx) \in Context
<1>1. PICK S : stack \in Seq(S) /\ \A s \in S : s.ctx \in Context
  BY DEF ShellTypes, IsContexts
<1>2. ASSUME stack # <<>> PROVE Last(stack) \in S
  <2>1. Len(stack) \in Nat /\ Len(stack) # 0
    BY <1>1, <1>2, LenProperties, EmptySeq
  <2>2. stack[Len(stack)] \in S
    BY <1>1, <2>1, ElementOfSeq
  <2> QED BY <2>2 DEF Last
<1> QED BY <1>1, <1>2 DEF BackIn, ShellTypes

LEMMA TypesOfPush ==
    ASSUME ShellTypes, Push
    PROVE  IsContexts(stack')
<1>1. PICK S : stack \in Seq(S) /\ \A s \in S : s.ctx \in Context
  BY DEF ShellTypes, IsContexts
<1> DEFINE r == [fds |-> fds, ctx |-> ctx, given |-> given]
           T == S \cup {r}
<1>2. stack \in Seq(T) /\ <<r>> \in Seq(T)
  BY <1>1, SeqMonotonic
<1>3. \A s \in T : s.ctx \in Context
  BY <1>1 DEF ShellTypes
<1>4. stack' = <<r>> \o stack
  BY DEF Push
<1> HIDE DEF T, r
<1>5. stack' \in Seq(T)
  BY <1>2, <1>4, ConcatProperties
<1> QED BY <1>3, <1>5 DEF IsContexts

LEMMA TypesOfEnd ==
    ASSUME ShellTypes, NEW s \in -1..256, EndCommand(s), ctx' \in {ctx, BackIn(ctx)},
           last' \in {last, 1}, UNCHANGED <<environ, files, args>>
    PROVE  ShellTypes'
<1>1. status' = IF Cmd.sub THEN s % 256 ELSE s
  BY DEF EndCommand
<1>2. s % 256 \in 0..255
  OBVIOUS
<1>3. s % 256 \in -1..256
  BY <1>2
<1>4. status' \in -1..256
  BY <1>1, <1>3
<1>5. IsContexts(stack') /\ spc' = "next"
  BY EmptyContexts DEF EndCommand
<1>6. ctx' \in Context /\ last' \in -1..256
  BY TypesOfBackIn DEF ShellTypes
<1> QED BY <1>4, <1>5, <1>6 DEF ShellTypes

LEMMA TypesOfExit ==
    ASSUME ShellTypes
    PROVE  ExitStatus(Tail(args), last) \in 0..256 \/ args = <<>>
<1> SUFFICES ASSUME args # <<>> PROVE ExitStatus(Tail(args), last) \in 0..256
  OBVIOUS
<1>1. Tail(args) \in Seq(String)
  BY FirstOf DEF ShellTypes
<1>2. last \in Int
  BY DEF ShellTypes
<1> QED BY <1>1, <1>2, ExitStatusType

LEMMA TypesOfEffect ==
    ASSUME ShellTypes, args # <<>>
    PROVE  Effect \in Results
<1>1. Tail(args) \in Seq(String) /\ ctx \in Context
  BY FirstOf DEF ShellTypes
<1>2. \/ Effect = ChangeDir(ctx, Tail(args)) \/ Effect = Export(ctx, Tail(args))
      \/ Effect = Unset(ctx, Tail(args))
      \/ Effect = [ctx |-> ctx, status |-> 1] \/ Effect = [ctx |-> ctx, status |-> 0]
  BY DEF Effect, ListExport
<1>3. \A i \in {0, 1} : [ctx |-> ctx, status |-> i] \in Results
  BY <1>1 DEF Results
<1> QED BY <1>1, <1>2, <1>3, ChangeDirType, ExportType, UnsetType

(***************************************************************************)
(* The types are kept.                                                     *)
(***************************************************************************)
LEMMA TypesStep == ShellInv /\ ShellTypes /\ [ShellNext]_vars => ShellTypes'
<1> SUFFICES ASSUME Lists, Control, ListTypes, redirs \in Seq(Redirection), ShellTypes, [ShellNext]_vars
             PROVE  ShellTypes'
  BY DEF ShellInv, ControlInv, RInv
<1>1. CASE BeginLine
  <2>1. /\ ctx' = InitContext(environ, ctx.cwd, ctx.wraps) /\ status' = 0 /\ spc' = "prompt"
        /\ UNCHANGED <<environ, files, stack, args, last>>
    BY <1>1 DEF BeginLine
  <2>2. ctx' \in Context
    <3>1. environ \in Seq(String) /\ ctx.cwd \in String /\ ctx.wraps \in BOOLEAN
      BY DEF ShellTypes, Context
    <3> QED BY <2>1, <3>1, InitContextType
  <2> QED BY <2>1, <2>2 DEF ShellTypes
<1>2. CASE \E n \in 0..Len(stdin) : ReadDoc(n)
  <2>1. /\ spc = "prompt" /\ last' \in {last, 1}
        /\ UNCHANGED <<environ, files, ctx, stack, args, status, spc>>
    BY <1>2, Zenon DEF ReadDoc
  <2> QED BY <2>1 DEF ShellTypes
<1>3. CASE PromptFails \/ LineDone
  <2>1. /\ spc' = "end" /\ last' \in {last, 1, status}
        /\ UNCHANGED <<environ, files, ctx, stack, args, status>>
    BY <1>3, Zenon DEF PromptFails, LineDone, EndLine
  <2> QED BY <2>1 DEF ShellTypes
<1>4. CASE PromptDone \/ Skip \/ StartSimple \/ SubGoesOn \/ LeaveShell
  <2>1. /\ spc' \in {"next", "expand", "end"}
        /\ UNCHANGED <<environ, files, ctx, stack, args, status, last>>
    BY <1>4, Zenon DEF PromptDone, Skip, StartSimple, SubGoesOn, LeaveShell, lineVars
  <2> QED BY <2>1 DEF ShellTypes
<1>5. CASE StartSub
  <2>1. /\ spc' = "outer" /\ Push
        /\ UNCHANGED <<environ, files, ctx, args, status, last>>
    BY <1>5 DEF StartSub, lineVars
  <2> QED BY <2>1, TypesOfPush DEF ShellTypes
<1>6. CASE SubForkFails
  <2>1. /\ 1 \in -1..256 /\ EndCommand(1) /\ UNCHANGED <<environ, files, ctx, args, last>>
    BY <1>6 DEF SubForkFails, lineVars
  <2> QED BY <2>1, TypesOfEnd
<1>7. CASE ExpandArgs
  <2> DEFINE words == Expanded(RawOf, 0)
  <2>1. /\ spc = "expand" /\ args' = words /\ spc' = "redir" /\ (UNCHANGED stack \/ Push)
        /\ UNCHANGED <<environ, cmds, files, ctx, status, last>>
    BY <1>7, Zenon DEF ExpandArgs, lineVars
  <2>2. words \in Seq(String) /\ (Bare => words = <<>>)
    BY <2>1, ArgsType DEF Control
  <2> HIDE DEF words
  <2>3. Bare' = Bare
    BY <2>1 DEF Bare, Cmd
  <2> QED BY <2>1, <2>2, <2>3, TypesOfPush DEF ShellTypes
<1>8. CASE ExpandFails \/ ToolForkFails
  <2>1. PICK s \in {0, 1} : EndCommand(s)
    BY <1>8, Zenon DEF ExpandFails, ToolForkFails, EndsWith
  <2>2. ctx' = BackIn(ctx) /\ UNCHANGED <<environ, files, args, last>>
    BY <1>8, Zenon DEF ExpandFails, ToolForkFails, lineVars
  <2>3. s \in -1..256
    OBVIOUS
  <2> QED BY <2>1, <2>2, <2>3, TypesOfEnd
<1>9. CASE OpenFile
  <2>1. /\ Opening /\ files' \in {files, files \cup {Place}}
        /\ UNCHANGED <<environ, cmds, ctx, stack, args, status, last, spc>>
    BY <1>9, Zenon DEF OpenFile, Performs, lineVars
  <2>2. Element \in Redirection
    <3>1. pos \in 1..Len(redirs)
      BY <2>1 DEF Opening, ListTypes, Done, Performing
    <3> QED BY <3>1, ElementOfSeq DEF Element
  <2>3. Place \in String \X String
    <3>1. Element.word \in String
      BY <2>2, Zenon DEF Redirection
    <3>2. ctx.cwd \in String
      BY DEF ShellTypes, Context
    <3> QED BY <3>1, <3>2 DEF Place
  <2>4. IsFiniteSet(files') /\ files' \subseteq String \X String
    <3>1. IsFiniteSet(files \cup {Place})
      BY FS_AddElement DEF ShellTypes
    <3> QED BY <2>1, <2>3, <3>1 DEF ShellTypes
  <2>5. Bare' = Bare
    BY <2>1 DEF Bare, Cmd
  <2> QED BY <2>1, <2>4, <2>5 DEF ShellTypes
<1>10. CASE CopyFails \/ OpenRefused \/ Undo \/ InterruptShell \/ ProgramEnds \/ UNCHANGED vars
  <2>1. /\ last' \in {last, 1}
        /\ UNCHANGED <<environ, cmds, files, ctx, stack, args, status, spc>>
    BY <1>10, Zenon DEF CopyFails, OpenRefused, Undo, InterruptShell, ProgramEnds, lineVars, vars, shellVars
  <2>2. Bare' = Bare
    BY <2>1 DEF Bare, Cmd
  <2> QED BY <2>1, <2>2 DEF ShellTypes
<1>11. CASE RedirectFailed
  <2>1. /\ 1 \in -1..256 /\ EndCommand(1) /\ ctx' = BackIn(ctx) /\ UNCHANGED <<environ, files, args, last>>
    BY <1>11 DEF RedirectFailed, EndsWith, lineVars
  <2> QED BY <2>1, TypesOfEnd
<1>12. CASE RunBuiltin
  <2>1. /\ spc = "redir" /\ (Bare \/ IsBuiltin(args))
        /\ ctx' = IF Bare THEN ctx ELSE Effect.ctx
        /\ status' = IF Bare THEN 0 ELSE Effect.status
        /\ UNCHANGED <<environ, cmds, files, stack, args, last>>
    BY <1>12 DEF RunBuiltin, lineVars
  <2>2. ~Bare => Effect.ctx \in Context /\ Effect.status \in {0, 1}
    BY <2>1, TypesOfEffect DEF Results, IsBuiltin
  <2>3. Bare' = Bare
    BY <2>1 DEF Bare, Cmd
  <2> QED BY <2>1, <2>2, <2>3 DEF ShellTypes
<1>13. CASE LeaveSubshell
  <2> DEFINE s == IF args[1] = Str("pwd") THEN 134 ELSE ExitStatus(Tail(args), last)
  <2>1. /\ EndCommand(s) /\ ctx' = BackIn(ctx) /\ UNCHANGED <<environ, files, args, last>>
        /\ args # <<>>
    BY <1>13 DEF LeaveSubshell, Leaves, IsBuiltin, EndsWith, lineVars
  <2>2. s \in -1..256
    BY <2>1, TypesOfExit
  <2> HIDE DEF s
  <2> QED BY <2>1, <2>2, TypesOfEnd
<1>14. CASE RunTool
  <2>1. /\ spc = "redir" /\ UNCHANGED <<environ, cmds, files, ctx, stack, args, status, last>>
    BY <1>14 DEF RunTool, lineVars
  <2>2. Bare' = Bare
    BY <2>1 DEF Bare, Cmd
  <2> QED BY <2>1, <2>2 DEF ShellTypes
<1>15. CASE BuiltinEnds
  <2>1. /\ EndCommand(status) /\ ctx' = BackIn(ctx) /\ UNCHANGED <<environ, files, args, last>>
    BY <1>15 DEF BuiltinEnds, EndsWith, lineVars
  <2>2. status \in -1..256
    BY DEF ShellTypes
  <2> QED BY <2>1, <2>2, TypesOfEnd
<1>16. CASE ToolEnds
  <2>1. PICK s \in ToolStatuses :
          /\ EndCommand(IF args = <<>> THEN 0
                        ELSE IF InitCommand(args, ctx) # 0 THEN InitCommand(args, ctx) ELSE s)
          /\ ctx' = BackIn(ctx) /\ UNCHANGED <<environ, files, args, last>>
    BY <1>16, Zenon DEF ToolEnds, EndsWith, lineVars
  <2> DEFINE e == IF args = <<>> THEN 0
                  ELSE IF InitCommand(args, ctx) # 0 THEN InitCommand(args, ctx) ELSE s
  <2>2. e \in -1..256
    BY InitCommandType, StartsAssumption
  <2>3. EndCommand(e)
    BY <2>1
  <2> HIDE DEF e
  <2> QED BY <2>1, <2>2, <2>3, TypesOfEnd
<1>17. CASE Interrupt
  <2>1. PICK s \in {130, -1} \cup Uninitialized : EndCommand(s)
    BY <1>17, Zenon DEF Interrupt, EndsWith
  <2>2. ctx' = BackIn(ctx) /\ last' = 1 /\ UNCHANGED <<environ, files, args>>
    BY <1>17 DEF Interrupt
  <2>3. s \in -1..256
    BY StartsAssumption
  <2> QED BY <2>1, <2>2, <2>3, TypesOfEnd
<1> QED
  BY <1>1, <1>2, <1>3, <1>4, <1>5, <1>6, <1>7, <1>8, <1>9, <1>10, <1>11, <1>12, <1>13, <1>14,
     <1>15, <1>16, <1>17, Zenon DEF ShellNext

LEMMA TypesInvariant == ShellSpec => []ShellTypes
BY TypesInit, TypesStep, ShellInvariant, PTL DEF ShellSpec

----------------------------------------------------------------------------
(* What builtins write.                                                    *)

(***************************************************************************)
(* The names of builtins tell them apart.                                  *)
(***************************************************************************)
LEMMA BuiltinsDiffer ==
    ASSUME NEW s \in BuiltinNames, NEW t \in BuiltinNames, s # t
    PROVE  Str(s) # Str(t)
BY TextsAssumption

LEMMA WrittenIs ==
    ASSUME args # <<>>
    PROVE  /\ Ran("echo") => Written = Echo(Tail(args))
           /\ args = <<Str("export")>> => Written = SortExport(ctx)
<1>1. Str("echo") # Str("env") /\ Str("echo") # Str("export") /\ Str("env") # Str("export")
  <2>1. /\ "echo" \in BuiltinNames /\ "env" \in BuiltinNames /\ "export" \in BuiltinNames
        /\ "echo" # "env" /\ "echo" # "export" /\ "env" # "export"
    BY DEF BuiltinNames
  <2> QED BY <2>1, BuiltinsDiffer, Zenon
<1>2. args = <<Str("export")>> => args[1] = Str("export")
  OBVIOUS
<1> DEFINE A == args[1] = Str("echo")
           B == args[1] = Str("env")
           C == args = <<Str("export")>>
<1>3. Written = CASE A -> Echo(Tail(args)) [] B -> ShowEnv(ctx) [] C -> SortExport(ctx)
                  [] OTHER -> <<>>
  BY DEF Written
<1>4. (A => ~B /\ ~C) /\ (C => ~A /\ ~B)
  BY <1>1, <1>2
<1>5. Ran("echo") <=> A
  BY DEF Ran
<1> HIDE DEF A, B
<1>6. A => Written = Echo(Tail(args))
  <2> HIDE DEF C
  <2> QED BY <1>3, <1>4
<1>7. C => Written = SortExport(ctx)
  <2> HIDE DEF C
  <2> QED BY <1>3, <1>4
<1> QED BY <1>5, <1>6, <1>7

LEMMA EffectIs ==
    ASSUME args # <<>>
    PROVE  /\ Ran("cd") => Effect = ChangeDir(ctx, Tail(args))
           /\ Ran("export") =>
                 Effect = IF Tail(args) = <<>> THEN ListExport(ctx) ELSE Export(ctx, Tail(args))
           /\ Ran("unset") => Effect = Unset(ctx, Tail(args))
           /\ ~Ran("cd") /\ ~Ran("export") /\ ~Ran("unset") => Effect.ctx = ctx
<1>1. Str("cd") # Str("export") /\ Str("cd") # Str("unset") /\ Str("export") # Str("unset")
      /\ Str("cd") # Str("exit") /\ Str("export") # Str("exit") /\ Str("unset") # Str("exit")
  <2>1. /\ "cd" \in BuiltinNames /\ "unset" \in BuiltinNames /\ "export" \in BuiltinNames
        /\ "exit" \in BuiltinNames
        /\ "cd" # "unset" /\ "cd" # "export" /\ "unset" # "export"
        /\ "cd" # "exit" /\ "unset" # "exit" /\ "export" # "exit"
    BY DEF BuiltinNames
  <2> QED BY <2>1, BuiltinsDiffer, Zenon
<1> DEFINE A == args[1] = Str("cd")
           B == args[1] = Str("export")
           C == args[1] = Str("unset")
           D == args[1] = Str("exit")
           E == IF Tail(args) = <<>> THEN ListExport(ctx) ELSE Export(ctx, Tail(args))
<1>2. Effect = CASE A -> ChangeDir(ctx, Tail(args)) [] B -> E
                 [] C -> Unset(ctx, Tail(args)) [] D -> [ctx |-> ctx, status |-> 1]
                 [] OTHER -> [ctx |-> ctx, status |-> 0]
  BY DEF Effect
<1>3. (A => ~B /\ ~C /\ ~D) /\ (B => ~A /\ ~C /\ ~D) /\ (C => ~A /\ ~B /\ ~D)
  BY <1>1
<1>4. (Ran("cd") <=> A) /\ (Ran("export") <=> B) /\ (Ran("unset") <=> C)
  BY DEF Ran
<1> HIDE DEF A, B, C, D, E
<1>5. A => Effect = ChangeDir(ctx, Tail(args))
  BY <1>2, <1>3
<1>6. B => Effect = E
  BY <1>2, <1>3
<1>7. C => Effect = Unset(ctx, Tail(args))
  BY <1>2, <1>3
<1>8. ~A /\ ~B /\ ~C => Effect.ctx = ctx
  BY <1>2
<1> QED BY <1>4, <1>5, <1>6, <1>7, <1>8 DEF E

\* To the context `export` does the same with no arguments as with some.
LEMMA ExportIs ==
    ASSUME ShellTypes, args # <<>>, Ran("export")
    PROVE  Effect.ctx = Export(ctx, Tail(args)).ctx
<1>1. Tail(args) \in Seq(String) /\ ctx \in Context
  BY FirstOf DEF ShellTypes
<1>2. Effect = IF Tail(args) = <<>> THEN ListExport(ctx) ELSE Export(ctx, Tail(args))
  BY EffectIs
<1>3. CASE Tail(args) = <<>>
  <2>1. Len(Tail(args)) = 0
    BY <1>3, EmptySeq
  <2>2. PICK r : r[0] = [ctx |-> ctx, status |-> 0] /\ Export(ctx, Tail(args)) = r[Len(Tail(args))]
    BY <1>1, ExportSteps
  <2>3. Export(ctx, Tail(args)) = [ctx |-> ctx, status |-> 0]
    BY <2>1, <2>2
  <2>4. Effect.ctx = ctx
    BY <1>2, <1>3 DEF ListExport
  <2>5. Export(ctx, Tail(args)).ctx = ctx
    BY <2>3
  <2> QED BY <2>4, <2>5
<1>4. CASE Tail(args) # <<>>
  BY <1>2, <1>4
<1> QED BY <1>3, <1>4

(***************************************************************************)
(* `echo` with arguments none of which looks like an option.               *)
(***************************************************************************)
LEMMA EchoIs ==
    ASSUME NEW list \in Seq(String), \A s \in Range(list) : Take(s, 1) # <<"-">>
    PROVE  Echo(list) = <<(IF Range(list) = {} THEN <<>> ELSE Joined(list)) \o <<"\n">> >>
<1> DEFINE n == Len(list)
           stops == {k \in DOMAIN list : Take(list[k], 1) # <<"-">> \/ \E j \in 2..Len(list[k]) : list[k][j] # "n"}
           start == EchoStart(list)
<1>1. n \in Nat /\ DOMAIN list = 1..n /\ (n = 0 <=> list = <<>>)
  BY LenProperties, EmptySeq
<1>2. CASE list = <<>>
  <2>1. Range(list) = {}
    BY <1>1, <1>2 DEF Range
  <2>2. Echo(list) = << <<"\n">> >>
    BY <1>2 DEF Echo
  <2>3. <<>> \o <<"\n">> = <<"\n">>
    OBVIOUS
  <2> QED BY <2>1, <2>2, <2>3
<1>3. CASE list # <<>>
  <2>1. Range(list) # {}
    <3>1. 1 \in DOMAIN list
      BY <1>1, <1>3
    <3>2. list[1] \in Range(list)
      BY <3>1 DEF Range
    <3> QED BY <3>2
  <2>2. stops = DOMAIN list
    BY DEF Range
  <2>3. stops = 1..n /\ 1 \in stops /\ stops \in SUBSET Nat
    BY <1>1, <1>3, <2>2
  <2>4. start = IF stops = {} THEN [index |-> 2, dash |-> list # <<>>]
                ELSE [index |-> Min(stops),
                      dash |-> Min(stops) > 1 /\ Take(list[Min(stops)], 1) # <<"-">>]
    BY DEF EchoStart
  <2> HIDE DEF stops
  <2>5. Min(stops) \in stops /\ Min(stops) <= 1
    BY <2>3, MinIs
  <2>6. Min(stops) = 1
    BY <1>1, <2>3, <2>5
  <2> DEFINE d == Min(stops) > 1 /\ Take(list[Min(stops)], 1) # <<"-">>
  <2>7. start.index = 1 /\ ~start.dash
    <3>1. stops # {}
      BY <2>3
    <3>2. ~d
      BY <2>6
    <3> HIDE DEF d
    <3>3. start = [index |-> Min(stops), dash |-> d]
      BY <2>4, <3>1 DEF d
    <3> HIDE DEF start
    <3> QED BY <2>6, <3>2, <3>3
  <2> HIDE DEF start, d
  <2>8. Drop(list, start.index - 1) = list
    <3>1. start.index - 1 = 0 /\ 0 + 1 = 1
      BY <2>7
    <3>2. Drop(list, 0) = SubSeq(list, 0 + 1, Len(list))
      BY DEF Drop
    <3> QED BY <3>1, <3>2, SubSeqFull
  <2>9. Echo(list) = <<Joined(list) \o IF start.dash THEN <<>> ELSE <<"\n">> >>
    BY <1>3, <2>8 DEF Echo, start
  <2> QED BY <2>1, <2>7, <2>9
<1> QED BY <1>2, <1>3

(***************************************************************************)
(* The standard output when all redirections have been performed.          *)
(***************************************************************************)
LEMMA OutputGoesTo ==
    ASSUME RInv, AllInstalled, orig[1] # Closed
    PROVE  LET of == {k \in DOMAIN redirs : redirs[k].fd = 1}
           IN  fds[1] = IF of = {} THEN orig[1] ELSE given[Max(of)]
<1> DEFINE of == {k \in DOMAIN redirs : redirs[k].fd = 1}
           n == Len(redirs)
<1>1. rpc = "open" /\ Done = n /\ n \in Nat /\ DOMAIN redirs = 1..n
  BY DEF RInv, ListTypes, Done, Performing, AllInstalled
<1>2. LastSets(redirs, given, orig, 1, fds[1], n)
  BY <1>1, StartsAssumption DEF RInv, OpenOnes
<1> HIDE DEF n
<1>3. CASE fds[1] = orig[1] /\ \A k \in 1..n : redirs[k].fd # 1
  BY <1>1, <1>3
<1>4. ASSUME NEW k \in 1..n, redirs[k].fd = 1, fds[1] = given[k],
             \A j \in 1..n : k < j => redirs[j].fd # 1
      PROVE  of # {} /\ fds[1] = given[Max(of)]
  <2>1. k \in of /\ \A j \in of : j \in 1..n /\ j <= k
    BY <1>1, <1>4
  <2>2. of \in SUBSET (1..n) /\ of # {}
    BY <1>1, <2>1
  <2> HIDE DEF of
  <2>3. Max(of) \in of /\ k <= Max(of)
    BY <1>1, <2>1, <2>2, MaxIs
  <2>4. Max(of) = k
    <3> DEFINE m == Max(of)
    <3>1. m \in 1..n /\ m <= k /\ k <= m
      BY <2>1, <2>3
    <3> HIDE DEF m
    <3>2. m = k
      BY <1>1, <3>1
    <3> QED BY <3>2 DEF m
  <2> QED BY <1>4, <2>2, <2>4
<1> QED BY <1>2, <1>3, <1>4 DEF LastSets

(***************************************************************************)
(* From the moment a builtin has run until its redirections are undone.    *)
(***************************************************************************)
OutputMeant ==
    LET of == {k \in DOMAIN redirs : redirs[k].fd = 1}
    IN  /\ orig[1] # Closed => out.to = IF of = {} THEN orig[1] ELSE given[Max(of)]
        /\ Ran("echo") /\ (\A s \in Rest : Take(s, 1) # <<"-">>) =>
              out.text = <<(IF Rest = {} THEN <<>> ELSE Joined(Tail(args))) \o <<"\n">> >>
        /\ args = <<Str("export")>> =>
              /\ \A k \in 2..Len(out.text) : NotAfter(out.text[k - 1], out.text[k])
              /\ \A e \in Range(ctx.env) :
                    Cardinality({k \in DOMAIN out.text : out.text[k] = e}) =
                    IF Hidden(ctx, e) THEN 0
                    ELSE Cardinality({k \in DOMAIN ctx.env : ctx.env[k] = e})

OutputInv == spc = "undo" /\ IsBuiltin(args) => OutputMeant

LEMMA OutputBegins ==
    ASSUME ShellInv, ShellTypes, RunBuiltin, IsBuiltin(args)
    PROVE  OutputMeant'
<1>1. /\ AllInstalled /\ ~Bare /\ args # <<>> /\ spc = "redir"
      /\ UNCHANGED <<args, redirs, orig, given>>
      /\ out' = [to |-> fds[1], text |-> Written] /\ ctx' = Effect.ctx
  <2>1. spc = "redir" /\ args # <<>>
    BY DEF RunBuiltin, IsBuiltin
  <2>2. ~Bare
    BY <2>1 DEF ShellTypes
  <2> QED BY <2>1, <2>2 DEF RunBuiltin, BeginUndo
<1>2. Tail(args) \in Seq(String) /\ Len(Tail(args)) = Len(args) - 1
  BY <1>1, FirstOf DEF ShellTypes
<1> DEFINE of == {k \in DOMAIN redirs : redirs[k].fd = 1}
<1>3. orig[1] # Closed => out'.to = IF of = {} THEN orig[1] ELSE given[Max(of)]
  BY <1>1, OutputGoesTo DEF ShellInv
<1>4. ASSUME Ran("echo"), \A s \in Rest : Take(s, 1) # <<"-">>
      PROVE  out'.text = <<(IF Rest = {} THEN <<>> ELSE Joined(Tail(args))) \o <<"\n">> >>
  <2>1. out'.text = Echo(Tail(args))
    BY <1>1, <1>4, WrittenIs
  <2> QED BY <1>2, <1>4, <2>1, EchoIs DEF Rest
<1>5. ASSUME args = <<Str("export")>>
      PROVE  ctx' = ctx /\ out'.text = SortExport(ctx)
  <2>1. out'.text = SortExport(ctx)
    BY <1>1, <1>5, WrittenIs
  <2>2. Ran("export") /\ Len(args) = 1
    BY <1>5 DEF Ran
  <2>3. Effect = IF Tail(args) = <<>> THEN ListExport(ctx) ELSE Export(ctx, Tail(args))
    BY <1>1, <2>2, EffectIs
  <2>4. Len(Tail(args)) = 0
    BY <1>2, <2>2
  <2>5. Tail(args) = <<>>
    BY <1>2, <2>4, EmptySeq
  <2>6. Effect.ctx = ctx
    BY <2>3, <2>5 DEF ListExport
  <2> QED BY <1>1, <2>1, <2>6
<1>6. ASSUME args = <<Str("export")>>
      PROVE  /\ \A k \in 2..Len(out'.text) : NotAfter(out'.text[k - 1], out'.text[k])
             /\ \A e \in Range(ctx'.env) :
                  Cardinality({k \in DOMAIN out'.text : out'.text[k] = e}) =
                  IF Hidden(ctx', e) THEN 0
                  ELSE Cardinality({k \in DOMAIN ctx'.env : ctx'.env[k] = e})
  <2>1. ctx \in Context
    BY DEF ShellTypes
  <2>2. Ordered(out'.text) /\ \A e : Count(out'.text, e) = IF Hidden(ctx', e) THEN 0 ELSE Count(ctx'.env, e)
    BY <1>5, <1>6, <2>1, SortExportIs
  <2> QED BY <2>2 DEF Ordered, Count, Places
<1>7. Ran("echo")' = Ran("echo") /\ Rest' = Rest /\ args' = args
  BY <1>1 DEF Ran, Rest
<1>8. orig' = orig /\ redirs' = redirs /\ given' = given
  BY <1>1
<1> QED BY <1>3, <1>4, <1>6, <1>7, <1>8 DEF OutputMeant

(***************************************************************************)
(* Redirections are undone after a builtin or after a tool.                *)
(***************************************************************************)
LEMMA UndoBegins ==
    ASSUME [ShellNext]_vars, (spc = "undo")'
    PROVE  RunBuiltin \/ RunTool \/ Undo \/ UNCHANGED vars \/ ProgramEnds
<1>1. CASE \/ BeginLine \/ (\E n \in 0..Len(stdin) : ReadDoc(n))
           \/ PromptFails \/ PromptDone
           \/ LineDone \/ Skip \/ StartSimple
           \/ StartSub \/ SubForkFails \/ SubGoesOn
           \/ ExpandFails \/ ExpandArgs \/ ToolForkFails
           \/ OpenFile \/ CopyFails \/ OpenRefused \/ RedirectFailed
           \/ LeaveSubshell \/ LeaveShell
           \/ BuiltinEnds \/ ToolEnds \/ Interrupt \/ InterruptShell
  <2>1. spc' # "undo"
    <3>1. CASE \/ BeginLine \/ (\E n \in 0..Len(stdin) : ReadDoc(n))
               \/ PromptFails \/ PromptDone
               \/ LineDone \/ Skip \/ StartSimple
               \/ StartSub \/ SubForkFails \/ SubGoesOn
      BY <3>1, Zenon DEF BeginLine, ReadDoc, PromptFails, PromptDone, LineDone, Skip, StartSimple,
         StartSub, SubForkFails, SubGoesOn, EndLine, EndCommand
    <3>2. CASE \/ ExpandFails \/ ExpandArgs \/ ToolForkFails \/ RedirectFailed
               \/ LeaveSubshell \/ LeaveShell
               \/ BuiltinEnds \/ ToolEnds \/ Interrupt \/ InterruptShell
      BY <3>2, Zenon DEF ExpandFails, ExpandArgs, ToolForkFails, RedirectFailed,
         LeaveSubshell, LeaveShell, BuiltinEnds, ToolEnds, Interrupt, InterruptShell,
         EndsWith, EndCommand
    <3>3. CASE OpenFile \/ CopyFails \/ OpenRefused
      BY <3>3, Zenon DEF OpenFile, CopyFails, OpenRefused, Performs, shellVars
    <3> QED BY <1>1, <3>1, <3>2, <3>3
  <2> QED BY <2>1
<1>2. CASE RunBuiltin \/ RunTool \/ Undo \/ UNCHANGED vars \/ ProgramEnds
  BY <1>2, Zenon
<1> QED BY <1>1, <1>2, Zenon DEF ShellNext

LEMMA OutputStep == ShellInv /\ ShellTypes /\ OutputInv /\ [ShellNext]_vars => OutputInv'
<1> SUFFICES ASSUME ShellInv, ShellTypes, OutputInv, [ShellNext]_vars, (spc = "undo")', IsBuiltin(args)'
             PROVE  OutputMeant'
  BY DEF OutputInv
<1>1. CASE RunBuiltin
  <2>1. IsBuiltin(args)
    BY <1>1 DEF RunBuiltin, IsBuiltin
  <2> QED BY <1>1, <2>1, OutputBegins
<1>2. CASE Undo \/ UNCHANGED vars \/ ProgramEnds
  <2>1. UNCHANGED <<spc, args, out, ctx, redirs, orig, given>>
    BY <1>2 DEF Undo, UndoOne, UndoDone, ProgramEnds, vars, shellVars, redirVars
  <2>2. OutputMeant
    BY <2>1 DEF OutputInv, IsBuiltin
  <2> QED BY <2>1, <2>2 DEF OutputMeant, Ran, Rest
<1>3. CASE RunTool
  BY <1>3 DEF RunTool, IsBuiltin
<1> QED BY <1>1, <1>2, <1>3, UndoBegins, Zenon

(***************************************************************************)
(* What a builtin writes goes to the file of the last redirection of the   *)
(* standard output; echo writes its arguments; export lists each variable  *)
(* once, in order: whatever the environment and whatever redirections.     *)
(***************************************************************************)
THEOREM OutputIsRightCorrect == ShellSpec => []OutputIsRight
<1>1. ShellInit => OutputInv
  BY DEF ShellInit, OutputInv
<1>2. OutputInv => OutputIsRight
  BY DEF OutputInv, OutputIsRight, OutputMeant
<1>3. ShellSpec => []OutputInv
  BY <1>1, OutputStep, ShellInvariant, TypesInvariant, PTL DEF ShellSpec
<1> QED BY <1>2, <1>3, PTL

----------------------------------------------------------------------------
(* Names and values.                                                       *)

LEMMA HoldsIs ==
    ASSUME NEW s \in String, NEW c
    PROVE  /\ Len(s) \in Nat /\ PlaceOf(s, c) \in 0..Len(s)
           /\ Holds(s, c) <=> \E k \in 1..Len(s) : s[k] = c
           /\ Holds(s, c) <=> PlaceOf(s, c) # 0
           /\ Holds(s, c) => s[PlaceOf(s, c)] = c
           /\ \A k \in 1..Len(s) : k < PlaceOf(s, c) => s[k] # c
           /\ \A k \in 1..Len(s) : s[k] = c => PlaceOf(s, c) <= k
<1> DEFINE p == PlaceOf(s, c)
<1>1. Len(s) \in Nat /\ s \in Seq(Char)
  BY LenProperties DEF String
<1>2. p \in 0..Len(s) /\ (p # 0 => s[p] = c)
      /\ \A k \in 1..Len(s) : s[k] = c => p # 0 /\ p <= k
  BY <1>1, PlaceOfIs
<1>3. Holds(s, c) <=> p > 0
  BY DEF Holds
<1> HIDE DEF p
<1>4. Holds(s, c) <=> p # 0
  BY <1>1, <1>2, <1>3
<1>5. p # 0 => p \in 1..Len(s)
  BY <1>1, <1>2
<1>6. \A k \in 1..Len(s) : k < p => s[k] # c
  BY <1>1, <1>2
<1> QED BY <1>1, <1>2, <1>4, <1>5, <1>6 DEF p

(***************************************************************************)
(* The name of an entry goes to its first '=', or is all of it.            *)
(***************************************************************************)
LEMMA NameIs ==
    ASSUME NEW e \in String
    PROVE  /\ NameOf(e) \in String /\ ~Holds(NameOf(e), "=") /\ Len(NameOf(e)) \in 0..Len(e)
           /\ \A j \in 1..Len(NameOf(e)) : NameOf(e)[j] = e[j]
           /\ ~Holds(e, "=") => NameOf(e) = e
           /\ Holds(e, "=") => /\ Len(NameOf(e)) = PlaceOf(e, "=") - 1
                               /\ NameOf(e) = Take(e, PlaceOf(e, "=") - 1)
<1> DEFINE p == PlaceOf(e, "=")
           m == NameOf(e)
<1>1. Len(e) \in Nat /\ e \in Seq(Char) /\ p \in 0..Len(e)
  BY HoldsIs DEF String
<1>2. CASE Holds(e, "=")
  <2>1. p \in 1..Len(e) /\ p - 1 \in Nat /\ p - 1 <= Len(e)
        /\ \A k \in 1..Len(e) : k < p => e[k] # "="
    BY <1>1, <1>2, HoldsIs
  <2>2. m = Take(e, p - 1)
    BY <1>2 DEF NameOf
  <2> HIDE DEF m, p
  <2>3. m \in Seq(Char) /\ Len(m) = p - 1 /\ \A j \in 1..Len(m) : m[j] = e[j]
    BY <1>1, <2>1, <2>2, TakeIs
  <2>4. m \in String
    BY <2>3 DEF String
  <2>5. \A j \in 1..Len(m) : m[j] # "="
    BY <1>1, <2>1, <2>3
  <2>6. ~Holds(m, "=")
    BY <2>4, <2>5, HoldsIs
  <2>7. Len(m) \in 0..Len(e)
    BY <1>1, <2>1, <2>3
  <2> QED BY <1>2, <2>2, <2>3, <2>4, <2>6, <2>7 DEF m, p
<1>3. CASE ~Holds(e, "=")
  <2>1. m = e
    BY <1>3 DEF NameOf
  <2>2. Len(e) \in 0..Len(e)
    BY <1>1
  <2> QED BY <1>3, <2>1, <2>2
<1> QED BY <1>2, <1>3

(***************************************************************************)
(* The prefix that get_value looks for is there exactly in the entries of  *)
(* that name that have a value.                                            *)
(***************************************************************************)
LEMMA NamedIs ==
    ASSUME NEW m \in String, ~Holds(m, "="), NEW e \in String
    PROVE  /\ Take(e, Len(m) + 1) = m \o <<"=">> <=> Holds(e, "=") /\ NameOf(e) = m
           /\ Holds(e, "=") /\ NameOf(e) = m => Len(m) + 1 = PlaceOf(e, "=")
<1> DEFINE eq == <<"=">>
           t == m \o eq
           n == Len(m)
           p == PlaceOf(e, "=")
           q == NameOf(e)
<1>1. /\ n \in Nat /\ Len(e) \in Nat /\ m \in Seq(Char) /\ e \in Seq(Char) /\ p \in 0..Len(e)
      /\ Holds(e, "=") <=> p # 0
  BY HoldsIs, LenProperties DEF String
<1>2. \A j \in 1..n : m[j] # "="
  BY HoldsIs
<1>3. t \in Seq(Char) /\ Len(t) = n + 1 /\ (\A j \in 1..n : t[j] = m[j]) /\ t[n + 1] = "="
  <2>1. "=" \in Char
    BY NamedChars
  <2>2. eq \in Seq(Char) /\ Len(eq) = 1 /\ eq[1] = "="
    BY <2>1
  <2> HIDE DEF eq
  <2>3. t \in Seq(Char) /\ Len(t) = n + Len(eq)
        /\ \A j \in 1..(n + Len(eq)) : t[j] = IF j <= n THEN m[j] ELSE eq[j - n]
    BY <1>1, <2>2, ConcatProperties
  <2> HIDE DEF t, n
  <2>4. Len(t) = n + 1 /\ \A j \in 1..(n + 1) : t[j] = IF j <= n THEN m[j] ELSE eq[j - n]
    BY <2>2, <2>3
  <2>5. \A j \in 1..n : t[j] = m[j]
    BY <1>1, <2>4
  <2>6. t[n + 1] = "="
    <3>1. n + 1 \in 1..(n + 1) /\ ~(n + 1 <= n) /\ (n + 1) - n = 1
      BY <1>1
    <3> QED BY <2>2, <2>4, <3>1
  <2> QED BY <2>3, <2>4, <2>5, <2>6
<1> HIDE DEF eq, t
<1>4. Take(e, Len(t)) = t <=> PrefixOf(t, e)
  BY <1>1, <1>3, TakeIsAll
<1>5. /\ q \in String /\ Len(q) \in 0..Len(e) /\ q \in Seq(Char)
      /\ \A j \in 1..Len(q) : q[j] = e[j]
      /\ Holds(e, "=") => Len(q) = p - 1
      /\ Holds(e, "=") => e[p] = "="
      /\ \A k \in 1..Len(e) : e[k] = "=" => p # 0 /\ p <= k
  BY <1>1, NameIs, HoldsIs DEF String
<1> HIDE DEF n, p, q
<1>6. ASSUME PrefixOf(t, e)
      PROVE  Holds(e, "=") /\ q = m
  <2>1. n + 1 \in 1..Len(e) /\ e[n + 1] = "=" /\ \A j \in 1..n : e[j] = m[j]
    <3>1. n + 1 <= Len(e) /\ \A j \in 1..(n + 1) : t[j] = e[j]
      BY <1>3, <1>6 DEF PrefixOf
    <3>2. \A j \in 1..n : j \in 1..(n + 1)
      BY <1>1
    <3> QED BY <1>1, <1>3, <3>1, <3>2
  <2>2. p # 0 /\ p <= n + 1
    BY <1>5, <2>1
  <2>3. Holds(e, "=") /\ e[p] = "=" /\ Len(q) = p - 1
    BY <1>1, <1>5, <2>2
  <2>4. p \notin 1..n
    BY <1>2, <2>1, <2>3
  <2>5. p = n + 1
    BY <1>1, <2>2, <2>4
  <2>6. Len(q) = n
    BY <1>1, <2>3, <2>5
  <2>7. \A j \in 1..Len(q) : q[j] = m[j]
    BY <1>5, <2>1, <2>6
  <2>8. Len(q) = Len(m)
    BY <2>6 DEF n
  <2> QED BY <1>1, <1>5, <2>3, <2>7, <2>8, SeqEqual
<1>7. ASSUME Holds(e, "="), q = m
      PROVE  PrefixOf(t, e) /\ n + 1 = p
  <2>1. Len(q) = n
    BY <1>7 DEF n
  <2>2. n + 1 = p
    BY <1>1, <1>5, <1>7, <2>1
  <2>3. ASSUME NEW j \in 1..Len(t) PROVE t[j] = e[j]
    <3>1. CASE j = n + 1
      BY <1>3, <1>5, <1>7, <2>2, <3>1
    <3>2. CASE j \in 1..n
      BY <1>3, <1>5, <1>7, <2>1, <3>2
    <3> QED BY <1>1, <1>3, <3>1, <3>2
  <2>4. Len(t) <= Len(e)
    BY <1>1, <1>3, <2>2
  <2> QED BY <2>2, <2>3, <2>4 DEF PrefixOf
<1>8. (Take(e, n + 1) = t <=> Holds(e, "=") /\ q = m) /\ (Holds(e, "=") /\ q = m => n + 1 = p)
  BY <1>3, <1>4, <1>6, <1>7
<1> QED BY <1>8 DEF n, t, eq, p, q

(***************************************************************************)
(* The entries of a name; the first of them has the value.                 *)
(***************************************************************************)
Named(env, m) == {k \in DOMAIN env : Holds(env[k], "=") /\ NameOf(env[k]) = m}

LEMMA ValueIs ==
    ASSUME NEW env \in Seq(String), NEW m \in String, ~Holds(m, "=")
    PROVE  /\ Named(env, m) = {} => GetValue(m, env) = Null
           /\ \A k \in Named(env, m) :
                 (\A j \in Named(env, m) : k <= j)
                    => GetValue(m, env) = Drop(env[k], PlaceOf(env[k], "="))
<1> DEFINE found == {k \in DOMAIN env : Take(env[k], Len(m) + 1) = m \o <<"=">>}
<1>1. Len(env) \in Nat /\ DOMAIN env = 1..Len(env) /\ \A k \in 1..Len(env) : env[k] \in String
  BY LenProperties, ElementOfSeq
<1>2. found = Named(env, m)
  BY <1>1, NamedIs DEF Named
<1>3. GetValue(m, env) = IF found = {} THEN Null ELSE Drop(env[Min(found)], Len(m) + 1)
  BY DEF GetValue
<1> HIDE DEF found
<1>4. ASSUME NEW k \in Named(env, m), \A j \in Named(env, m) : k <= j
      PROVE  GetValue(m, env) = Drop(env[k], PlaceOf(env[k], "="))
  <2>1. found \in SUBSET (1..Len(env)) /\ found \in SUBSET Nat /\ found # {} /\ k \in 1..Len(env)
    BY <1>1, <1>2, <1>4 DEF Named
  <2>2. Min(found) \in found /\ Min(found) <= k
    BY <1>2, <1>4, <2>1, MinIs
  <2>3. k <= Min(found)
    BY <1>2, <1>4, <2>2
  <2>4. Min(found) = k
    <3> DEFINE least == Min(found)
    <3>1. least \in 1..Len(env) /\ least <= k /\ k <= least
      BY <2>1, <2>2, <2>3
    <3> HIDE DEF least
    <3>2. least = k
      BY <1>1, <2>1, <3>1
    <3> QED BY <3>2 DEF least
  <2>5. Len(m) + 1 = PlaceOf(env[k], "=")
    BY <1>1, <1>4, <2>1, NamedIs DEF Named
  <2> QED BY <1>3, <2>1, <2>4, <2>5
<1>5. Named(env, m) = {} => GetValue(m, env) = Null
  BY <1>2, <1>3
<1> QED BY <1>4, <1>5

(***************************************************************************)
(* A variable keeps its value when its entries stay where they are.        *)
(***************************************************************************)
LEMMA SameEntries ==
    ASSUME NEW env \in Seq(String), NEW new \in Seq(String), NEW m \in String, ~Holds(m, "="),
           Named(new, m) = Named(env, m), \A k \in Named(env, m) : new[k] = env[k]
    PROVE  GetValue(m, new) = GetValue(m, env)
<1>1. CASE Named(env, m) = {}
  BY <1>1, ValueIs
<1>2. CASE Named(env, m) # {}
  <2>1. Named(env, m) \in SUBSET DOMAIN env
    BY DEF Named
  <2>2. PICK k \in Named(env, m) : \A j \in Named(env, m) : k <= j
    BY <1>2, <2>1, FirstFound
  <2> QED BY <2>2, ValueIs
<1> QED BY <1>1, <1>2

LEMMA AppendKeeps ==
    ASSUME NEW env \in Seq(String), NEW s \in String, NEW m \in String, ~Holds(m, "="),
           NameOf(s) # m \/ ~Holds(s, "=")
    PROVE  GetValue(m, Append(env, s)) = GetValue(m, env)
<1> DEFINE new == Append(env, s)
           n == Len(env)
<1>1. /\ n \in Nat /\ DOMAIN env = 1..n /\ new \in Seq(String) /\ Len(new) = n + 1
      /\ (\A k \in 1..n : new[k] = env[k]) /\ new[n + 1] = s
  BY AppendProperties, LenProperties
<1>2. DOMAIN new = 1..(n + 1)
  BY <1>1, LenProperties
<1> HIDE DEF new, n
<1>3. Named(new, m) = Named(env, m)
  <2>1. \A k \in Named(new, m) : k \in 1..n
    BY <1>1, <1>2 DEF Named
  <2>2. \A k \in 1..n : k \in 1..(n + 1)
    BY <1>1
  <2> QED BY <1>1, <1>2, <2>1, <2>2 DEF Named
<1>4. \A k \in Named(env, m) : new[k] = env[k]
  BY <1>1 DEF Named
<1>5. GetValue(m, new) = GetValue(m, env)
  BY <1>1, <1>3, <1>4, SameEntries
<1> QED BY <1>5 DEF new

LEMMA ReplaceKeeps ==
    ASSUME NEW env \in Seq(String), NEW i \in 1..Len(env), NEW s \in String, NEW m \in String,
           ~Holds(m, "="), NameOf(s) # m, NameOf(env[i]) # m
    PROVE  GetValue(m, [env EXCEPT ![i] = s]) = GetValue(m, env)
<1> DEFINE new == [env EXCEPT ![i] = s]
<1>1. new \in Seq(String) /\ DOMAIN new = DOMAIN env /\ DOMAIN env = 1..Len(env)
      /\ new[i] = s /\ \A k \in DOMAIN env : k # i => new[k] = env[k]
  BY ExceptSeq, LenProperties
<1> HIDE DEF new
<1>2. i \notin Named(new, m) /\ i \notin Named(env, m)
  BY <1>1 DEF Named
<1>3. Named(new, m) = Named(env, m) /\ \A k \in Named(env, m) : new[k] = env[k]
  BY <1>1, <1>2 DEF Named
<1>4. GetValue(m, new) = GetValue(m, env)
  BY <1>1, <1>3, SameEntries
<1> QED BY <1>4 DEF new

(***************************************************************************)
(* It keeps its value also when other entries are dropped.                 *)
(***************************************************************************)
LEMMA PartOfEntries ==
    ASSUME NEW env \in Seq(String), NEW I \in SUBSET DOMAIN env
    PROVE  \E o \in [1..Cardinality(I) -> I] :
              /\ Cardinality(I) \in Nat
              /\ At(env, I) \in Seq(String) /\ DOMAIN At(env, I) = 1..Cardinality(I)
              /\ \A j \in 1..Cardinality(I) : At(env, I)[j] = env[o[j]]
              /\ \A i \in I : \E j \in 1..Cardinality(I) : o[j] = i
              /\ \A j, k \in 1..Cardinality(I) : j < k => o[j] < o[k]
<1>1. IsFiniteSet(I) /\ I \in SUBSET Nat
  <2>1. Len(env) \in Nat /\ DOMAIN env = 1..Len(env)
    BY LenProperties
  <2>2. IsFiniteSet(1..Len(env))
    BY <2>1, FS_Interval
  <2> QED BY <2>1, <2>2, FS_Subset
<1> DEFINE o == InOrder(I, Less(I))
           n == Cardinality(I)
<1>2. /\ n \in Nat /\ o \in [1..n -> I]
      /\ \A i \in I : \E j \in 1..n : o[j] = i
      /\ \A j, k \in 1..n : j < k => <<o[j], o[k]>> \in Less(I)
  BY <1>1, LessIsStrictOrder, InOrderLists
<1>3. /\ At(env, I) \in Seq(String) /\ Len(At(env, I)) = n
      /\ \A k \in 1..n : At(env, I)[k] = env[o[k]]
  BY AtIs
<1> HIDE DEF o, n
<1>4. DOMAIN At(env, I) = 1..n
  BY <1>3, LenProperties
<1>5. \A j, k \in 1..n : j < k => o[j] < o[k]
  BY <1>2 DEF Less
<1> QED BY <1>2, <1>3, <1>4, <1>5 DEF n

LEMMA DroppingKeeps ==
    ASSUME NEW env \in Seq(String), NEW I \in SUBSET DOMAIN env, NEW m \in String,
           ~Holds(m, "="), Named(env, m) \subseteq I
    PROVE  GetValue(m, At(env, I)) = GetValue(m, env)
<1> DEFINE new == At(env, I)
           n == Cardinality(I)
<1>1. PICK o \in [1..n -> I] :
         /\ n \in Nat /\ new \in Seq(String) /\ DOMAIN new = 1..n
         /\ \A j \in 1..n : new[j] = env[o[j]]
         /\ \A i \in I : \E j \in 1..n : o[j] = i
         /\ \A j, k \in 1..n : j < k => o[j] < o[k]
  BY PartOfEntries
<1> HIDE DEF new, n
<1>2. \A j \in 1..n : j \in Named(new, m) <=> o[j] \in Named(env, m)
  BY <1>1 DEF Named
<1>3. CASE Named(env, m) = {}
  <2>1. Named(new, m) = {}
    BY <1>1, <1>2, <1>3 DEF Named
  <2> QED BY <1>1, <1>3, <2>1, ValueIs DEF new
<1>4. CASE Named(env, m) # {}
  <2>1. Named(env, m) \in SUBSET DOMAIN env
    BY DEF Named
  <2>2. PICK i \in Named(env, m) : \A j \in Named(env, m) : i <= j
    BY <1>4, <2>1, FirstFound
  <2>3. PICK j \in 1..n : o[j] = i
    BY <1>1, <2>2
  <2>4. j \in Named(new, m)
    BY <1>2, <2>2, <2>3
  <2>5. ASSUME NEW k \in Named(new, m) PROVE j <= k
    <3>1. k \in 1..n /\ i <= o[k]
      BY <1>1, <1>2, <2>2, <2>5 DEF Named
    <3>2. ~(k < j)
      <4> SUFFICES ASSUME k < j PROVE FALSE
        OBVIOUS
      <4>1. o[k] < o[j]
        BY <1>1, <3>1
      <4>2. o[k] \in DOMAIN env /\ o[j] \in DOMAIN env /\ DOMAIN env = 1..Len(env) /\ Len(env) \in Nat
        BY <1>1, <3>1, LenProperties
      <4> QED BY <2>3, <3>1, <4>1, <4>2
    <3> QED BY <1>1, <3>1, <3>2
  <2>6. new[j] = env[i]
    BY <1>1, <2>3
  <2>7. GetValue(m, new) = Drop(new[j], PlaceOf(new[j], "="))
    BY <1>1, <2>4, <2>5, ValueIs
  <2>8. GetValue(m, env) = Drop(env[i], PlaceOf(env[i], "="))
    BY <2>2, ValueIs
  <2> QED BY <2>6, <2>7, <2>8 DEF new
<1> QED BY <1>3, <1>4

LEMMA DroppedHasNone ==
    ASSUME NEW env \in Seq(String), NEW I \in SUBSET DOMAIN env, NEW m \in String,
           ~Holds(m, "="), Named(env, m) \cap I = {}
    PROVE  Named(At(env, I), m) = {} /\ GetValue(m, At(env, I)) = Null
<1> DEFINE new == At(env, I)
           n == Cardinality(I)
<1>1. PICK o \in [1..n -> I] :
         /\ n \in Nat /\ new \in Seq(String) /\ DOMAIN new = 1..n
         /\ \A j \in 1..n : new[j] = env[o[j]]
  BY PartOfEntries
<1> HIDE DEF new, n
<1>2. \A j \in 1..n : j \in Named(new, m) => o[j] \in Named(env, m) \cap I
  BY <1>1 DEF Named
<1>3. Named(new, m) = {}
  BY <1>1, <1>2 DEF Named
<1> QED BY <1>1, <1>3, ValueIs DEF new

(***************************************************************************)
(* The entries `export NAME=VALUE` takes for those of NAME.                *)
(***************************************************************************)
LEMMA EqualFinds ==
    ASSUME NEW s \in String, Holds(s, "="), NameOf(s) # <<>>, NEW e \in String, NEW wraps
    PROVE  LET n == NameLength(s, wraps)
               same == NameLength(e, wraps) = n /\ Take(e, n) = Take(s, n)
           IN  (same => NameOf(e) = NameOf(s))
               /\ (Holds(e, "=") /\ NameOf(e) = NameOf(s) => same)
<1> DEFINE n == NameLength(s, wraps)
           same == NameLength(e, wraps) = n /\ Take(e, n) = Take(s, n)
<1>1. n = PlaceOf(s, "=") - 1
  BY DEF NameLength
<1>2. Len(NameOf(s)) = n /\ NameOf(s) = Take(s, n)
  BY <1>1, NameIs
<1>3. n \in Nat /\ n # 0
  <2>1. NameOf(s) \in Seq(Char)
    BY NameIs DEF String
  <2> QED BY <1>2, <2>1, LenProperties, EmptySeq
<1> DEFINE length == NameLength(e, wraps)
<1>4. length = IF Holds(e, "=") THEN PlaceOf(e, "=") - 1 ELSE IF wraps THEN Len(e) ELSE 0
  BY DEF NameLength
<1> HIDE DEF n, length
<1>5. ASSUME length = n, Take(e, n) = Take(s, n)
      PROVE  NameOf(e) = NameOf(s)
  <2>1. CASE Holds(e, "=")
    <3>1. NameOf(e) = Take(e, PlaceOf(e, "=") - 1)
      BY <2>1, NameIs
    <3> QED BY <1>2, <1>4, <1>5, <2>1, <3>1
  <2>2. CASE ~Holds(e, "=")
    <3>1. Len(e) = n
      BY <1>3, <1>4, <1>5, <2>2
    <3>2. Take(e, n) = e
      <4>1. e \in Seq(Char) /\ Len(e) <= n
        BY <1>3, <3>1 DEF String
      <4> QED BY <1>3, <4>1, TakeIs
    <3>3. NameOf(e) = e
      BY <2>2, NameIs
    <3> QED BY <1>2, <1>5, <3>2, <3>3
  <2> QED BY <2>1, <2>2
<1>6. ASSUME Holds(e, "="), NameOf(e) = NameOf(s)
      PROVE  length = n /\ Take(e, n) = Take(s, n)
  <2>1. NameOf(e) = Take(e, PlaceOf(e, "=") - 1) /\ Len(NameOf(e)) = PlaceOf(e, "=") - 1
    BY <1>6, NameIs
  <2> QED BY <1>2, <1>4, <1>6, <2>1
<1> QED BY <1>5, <1>6 DEF n, length

LEMMA EqualSets ==
    ASSUME NEW env \in Seq(String), NEW s \in String, Holds(s, "="), NameOf(s) # <<>>, NEW wraps
    PROVE  /\ GetValue(NameOf(s), HandleEqual(env, s, wraps)) = Drop(s, PlaceOf(s, "="))
           /\ \A m \in String : ~Holds(m, "=") /\ m # NameOf(s) =>
                 GetValue(m, HandleEqual(env, s, wraps)) = GetValue(m, env)
<1> DEFINE n == NameLength(s, wraps)
           Same(e) == NameLength(e, wraps) = n /\ Take(e, n) = Take(s, n)
           found == {k \in DOMAIN env : Same(env[k])}
           new == HandleEqual(env, s, wraps)
           name == NameOf(s)
           i == IF found = {} THEN Len(env) + 1 ELSE Min(found)
<1>1. Len(env) \in Nat /\ DOMAIN env = 1..Len(env) /\ \A k \in 1..Len(env) : env[k] \in String
  BY LenProperties, ElementOfSeq
<1>2. \A k \in 1..Len(env) : /\ Same(env[k]) => NameOf(env[k]) = name
                             /\ Holds(env[k], "=") /\ NameOf(env[k]) = name => Same(env[k])
  BY <1>1, EqualFinds
<1>3. new = IF found = {} THEN Append(env, s) ELSE [env EXCEPT ![Min(found)] = s]
  BY DEF HandleEqual
<1>4. name \in String /\ ~Holds(name, "=")
  BY NameIs
<1> HIDE DEF n, Same, new, name
<1>5. found \in SUBSET DOMAIN env /\ (\A k \in found : k \in 1..Len(env) /\ NameOf(env[k]) = name)
      /\ Named(env, name) \subseteq found
  BY <1>1, <1>2 DEF Named
<1> HIDE DEF found
<1>6. found # {} => Min(found) \in found /\ Min(found) \in 1..Len(env) /\ \A k \in found : Min(found) <= k
  BY <1>5, FirstFound
<1>7. ASSUME NEW m \in String, ~Holds(m, "="), m # name
      PROVE  GetValue(m, new) = GetValue(m, env)
  <2>1. CASE found = {}
    BY <1>3, <1>7, <2>1, AppendKeeps DEF name
  <2>2. CASE found # {}
    BY <1>3, <1>5, <1>6, <1>7, <2>2, ReplaceKeeps DEF name
  <2> QED BY <2>1, <2>2
<1>8. /\ new \in Seq(String) /\ i \in DOMAIN new /\ new[i] = s
      /\ \A k \in Named(new, name) : i <= k
  <2>1. CASE found = {}
    <3>1. /\ new \in Seq(String) /\ Len(new) = Len(env) + 1 /\ i = Len(env) + 1
          /\ (\A k \in 1..Len(env) : new[k] = env[k]) /\ new[Len(env) + 1] = s
      BY <1>3, <2>1, AppendProperties
    <3>2. DOMAIN new = 1..(Len(env) + 1)
      BY <3>1, LenProperties
    <3>3. i \in DOMAIN new
      BY <1>1, <3>1, <3>2
    <3>4. \A k \in Named(new, name) : k \in 1..(Len(env) + 1) /\ k \notin 1..Len(env)
      <4>1. Named(env, name) = {}
        BY <1>5, <2>1
      <4> QED BY <1>1, <3>1, <3>2, <4>1 DEF Named
    <3>5. \A k \in 1..(Len(env) + 1) : k \notin 1..Len(env) => Len(env) + 1 <= k
      BY <1>1
    <3> QED BY <3>1, <3>3, <3>4, <3>5
  <2>2. CASE found # {}
    <3>1. i = Min(found) /\ i \in 1..Len(env) /\ new = [env EXCEPT ![i] = s]
      BY <1>3, <1>6, <2>2
    <3> HIDE DEF i
    <3>2. new \in Seq(String) /\ DOMAIN new = DOMAIN env /\ new[i] = s
          /\ \A k \in DOMAIN env : k # i => new[k] = env[k]
      BY <1>1, <3>1, ExceptSeq
    <3>3. ASSUME NEW k \in Named(new, name), k # i PROVE i <= k
      <4>1. k \in Named(env, name)
        BY <3>2, <3>3 DEF Named
      <4> QED BY <1>5, <1>6, <2>2, <3>1, <4>1
    <3>4. i <= i
      BY <1>1, <3>1
    <3> QED BY <1>1, <3>1, <3>2, <3>3, <3>4
  <2> QED BY <2>1, <2>2
<1>9. i \in Named(new, name)
  BY <1>8 DEF Named, name
<1>10. GetValue(name, new) = Drop(new[i], PlaceOf(new[i], "="))
  <2> HIDE DEF i
  <2> QED BY <1>4, <1>8, <1>9, ValueIs
<1>11. GetValue(name, new) = Drop(s, PlaceOf(s, "="))
  BY <1>8, <1>10
<1> QED BY <1>7, <1>11 DEF new, name

LEMMA EqualAsks ==
    ASSUME NEW env \in Seq(String), NEW s \in String, ~Holds(s, "="), NEW wraps,
           NEW m \in String, ~Holds(m, "=")
    PROVE  GetValue(m, HandleEqual(env, s, wraps)) = GetValue(m, env)
<1>1. HandleEqual(env, s, wraps) = Append(env, s) \/ HandleEqual(env, s, wraps) = env
  BY DEF HandleEqual
<1>2. GetValue(m, Append(env, s)) = GetValue(m, env)
  BY AppendKeeps
<1> QED BY <1>1, <1>2

(***************************************************************************)
(* `export NAME+=VALUE` changes the entry that begins like what is before  *)
(* the '+', and only that.                                                 *)
(***************************************************************************)
LEMMA GrownName ==
    ASSUME NEW e \in String, NEW t \in String
    PROVE  LET new == e \o (IF Holds(e, "=") THEN <<>> ELSE <<"=">>) \o t
           IN  new \in String /\ NameOf(new) = NameOf(e)
<1> DEFINE mid == IF Holds(e, "=") THEN <<>> ELSE <<"=">>
           base == e \o mid
           new == base \o t
           n == Len(NameOf(e))
<1>1. mid \in String /\ Len(mid) = (IF Holds(e, "=") THEN 0 ELSE 1)
      /\ (~Holds(e, "=") => mid[1] = "=")
  <2>1. "=" \in Char
    BY NamedChars
  <2>2. <<"=">> \in Seq(Char) /\ <<>> \in Seq(Char) /\ Len(<<"=">>) = 1 /\ <<"=">>[1] = "="
    BY <2>1, EmptySeq
  <2>3. Len(<<>>) = 0
    OBVIOUS
  <2> QED BY <2>2, <2>3 DEF String
<1> HIDE DEF mid
<1>2. e \in Seq(Char) /\ mid \in Seq(Char) /\ t \in Seq(Char) /\ Len(e) \in Nat /\ Len(t) \in Nat
      /\ Len(mid) \in {0, 1}
  BY <1>1, LenProperties DEF String
<1>3. base \in Seq(Char) /\ Len(base) = Len(e) + Len(mid)
      /\ \A j \in 1..(Len(e) + Len(mid)) : base[j] = IF j <= Len(e) THEN e[j] ELSE mid[j - Len(e)]
  BY <1>2, ConcatProperties
<1> HIDE DEF base
<1>4. new \in Seq(Char) /\ Len(new) = Len(base) + Len(t)
      /\ \A j \in 1..(Len(base) + Len(t)) : new[j] = IF j <= Len(base) THEN base[j] ELSE t[j - Len(base)]
  <2>1. base \in Seq(Char) /\ t \in Seq(Char)
    BY <1>2, <1>3
  <2> QED BY <2>1, ConcatProperties
<1> HIDE DEF new
<1>5. new \in String
  BY <1>4 DEF String
<1>6. /\ NameOf(e) \in String /\ n \in 0..Len(e) /\ ~Holds(NameOf(e), "=")
      /\ \A j \in 1..n : NameOf(e)[j] = e[j]
      /\ ~Holds(e, "=") => NameOf(e) = e
      /\ Holds(e, "=") => n = PlaceOf(e, "=") - 1 /\ PlaceOf(e, "=") \in 1..Len(e) /\ e[PlaceOf(e, "=")] = "="
  <2>1. Holds(e, "=") => PlaceOf(e, "=") \in 1..Len(e) /\ e[PlaceOf(e, "=")] = "="
    BY HoldsIs
  <2> QED BY <2>1, NameIs
<1> DEFINE q == n + 1
<1>7. q \in 1..Len(new) /\ new[q] = "="
  <2>1. CASE Holds(e, "=")
    <3>1. q = PlaceOf(e, "=") /\ q \in 1..Len(e) /\ e[q] = "="
      <4>1. q = PlaceOf(e, "=")
        BY <1>6, <2>1
      <4> HIDE DEF q
      <4> QED BY <1>6, <2>1, <4>1
    <3> HIDE DEF q
    <3>2. q \in 1..(Len(e) + Len(mid)) /\ q <= Len(e)
      BY <1>2, <3>1
    <3>3. base[q] = "="
      BY <1>3, <3>1, <3>2
    <3>4. q \in 1..(Len(base) + Len(t)) /\ q <= Len(base)
      BY <1>2, <1>3, <3>2
    <3> QED BY <1>4, <3>3, <3>4
  <2>2. CASE ~Holds(e, "=")
    <3>1. q = Len(e) + 1 /\ Len(mid) = 1 /\ mid[1] = "="
      BY <1>1, <1>6, <2>2
    <3> HIDE DEF q
    <3>2. q \in 1..(Len(e) + Len(mid)) /\ ~(q <= Len(e)) /\ q - Len(e) = 1
      BY <1>2, <3>1
    <3>3. base[q] = "="
      BY <1>3, <3>1, <3>2
    <3>4. q \in 1..(Len(base) + Len(t)) /\ q <= Len(base)
      BY <1>2, <1>3, <3>2
    <3> QED BY <1>4, <3>3, <3>4
  <2> QED BY <2>1, <2>2
<1>8. ASSUME NEW j \in 1..n PROVE new[j] = e[j] /\ new[j] = NameOf(e)[j] /\ new[j] # "="
  <2>1. j \in 1..(Len(e) + Len(mid)) /\ j <= Len(e) /\ j \in 1..(Len(base) + Len(t)) /\ j <= Len(base)
    BY <1>2, <1>3, <1>6
  <2>2. new[j] = e[j]
    BY <1>3, <1>4, <2>1
  <2>3. NameOf(e)[j] # "="
    BY <1>6, HoldsIs
  <2> QED BY <1>6, <2>2, <2>3
<1> HIDE DEF n
<1>9. PlaceOf(new, "=") = q /\ Holds(new, "=")
  <2> DEFINE p == PlaceOf(new, "=")
  <2>1. Holds(new, "=") /\ p \in 0..Len(new) /\ p # 0 /\ new[p] = "=" /\ p <= q /\ Len(new) \in Nat
    BY <1>5, <1>7, HoldsIs
  <2> HIDE DEF p
  <2>2. p \notin 1..n
    BY <1>8, <2>1
  <2>3. p = q
    BY <1>6, <2>1, <2>2
  <2> QED BY <2>1, <2>3 DEF p
<1>10. /\ NameOf(new) \in String /\ Len(NameOf(new)) = n
       /\ \A j \in 1..Len(NameOf(new)) : NameOf(new)[j] = new[j]
  <2>1. Len(NameOf(new)) = q - 1
    BY <1>5, <1>9, NameIs
  <2>2. q - 1 = n
    BY <1>6
  <2> QED BY <1>5, <2>1, <2>2, NameIs
<1>11. NameOf(new) = NameOf(e)
  <2>1. Len(NameOf(new)) = Len(NameOf(e)) /\ NameOf(new) \in Seq(Char) /\ NameOf(e) \in Seq(Char)
    BY <1>6, <1>10 DEF String, n
  <2>2. \A j \in 1..Len(NameOf(new)) : NameOf(new)[j] = NameOf(e)[j]
    BY <1>8, <1>10
  <2> QED BY <2>1, <2>2, SeqEqual
<1> QED BY <1>5, <1>11 DEF new, base, mid

LEMMA BeginsLike ==
    ASSUME NEW s \in String, NEW e \in String, NEW n \in Nat, n <= Len(s), Take(e, n) = Take(s, n)
    PROVE  NameOf(e) = NameOf(s) \/ Take(NameOf(e), n) = Take(s, n)
<1> DEFINE p == PlaceOf(e, "=")
           q == NameOf(e)
<1>1. e \in Seq(Char) /\ s \in Seq(Char) /\ Len(e) \in Nat /\ Len(s) \in Nat
  BY LenProperties DEF String
<1>2. n <= Len(e)
  <2>1. Len(Take(s, n)) = n
    BY <1>1, TakeIs
  <2>2. Len(Take(e, n)) = IF n <= Len(e) THEN n ELSE Len(e)
    BY <1>1, TakeIs
  <2> QED BY <1>1, <2>1, <2>2
<1>3. \A j \in 1..n : e[j] = s[j]
  BY <1>1, <1>2, TakesAgree
<1>4. /\ p \in 0..Len(e) /\ (Holds(e, "=") => p # 0 /\ e[p] = "=")
      /\ \A k \in 1..Len(e) : k < p => e[k] # "="
  BY HoldsIs
<1>5. /\ q \in String /\ q \in Seq(Char) /\ Len(q) \in Nat
      /\ (\A j \in 1..Len(q) : q[j] = e[j])
      /\ (Holds(e, "=") => Len(q) = p - 1) /\ (Holds(e, "=") => q = Take(e, p - 1))
      /\ (~Holds(e, "=") => q = e)
  BY NameIs DEF String
<1> HIDE DEF p, q
<1>6. CASE Holds(e, "=") /\ p <= n
  <2>1. p \in 1..Len(s) /\ p \in 1..n /\ p - 1 \in Nat /\ p - 1 <= Len(s) /\ p - 1 <= Len(e)
    BY <1>1, <1>2, <1>4, <1>6
  <2>2. s[p] = "="
    BY <1>3, <1>4, <1>6, <2>1
  <2>3. \A k \in 1..(p - 1) : s[k] # "=" /\ s[k] = e[k]
    <3>1. \A k \in 1..(p - 1) : k \in 1..n /\ k \in 1..Len(e) /\ k < p
      BY <1>2, <2>1
    <3> QED BY <1>3, <1>4, <3>1
  <2>4. Holds(s, "=") /\ PlaceOf(s, "=") = p
    <3> DEFINE r == PlaceOf(s, "=")
    <3>1. Holds(s, "=") /\ r \in 0..Len(s) /\ r # 0 /\ s[r] = "=" /\ r <= p
      BY <2>1, <2>2, HoldsIs
    <3> HIDE DEF r
    <3>2. r \notin 1..(p - 1)
      BY <2>3, <3>1
    <3>3. r = p
      BY <1>1, <2>1, <3>1, <3>2
    <3> QED BY <3>1, <3>3 DEF r
  <2>5. NameOf(s) = Take(s, p - 1)
    BY <2>4, NameIs
  <2>6. Take(e, p - 1) = Take(s, p - 1)
    BY <1>1, <2>1, <2>3, TakesAgree
  <2> QED BY <1>5, <1>6, <2>5, <2>6 DEF q
<1>7. CASE ~(Holds(e, "=") /\ p <= n)
  <2>1. n <= Len(q)
    BY <1>1, <1>2, <1>4, <1>5, <1>7
  <2>2. \A j \in 1..n : j \in 1..Len(q)
    BY <1>5, <2>1
  <2>3. \A j \in 1..n : q[j] = e[j]
    BY <1>5, <2>2
  <2>4. Take(q, n) = Take(e, n)
    BY <1>1, <1>2, <1>5, <2>1, <2>3, TakesAgree
  <2> QED BY <2>4 DEF q
<1> QED BY <1>6, <1>7

(***************************************************************************)
(* The variables an argument of `export` has nothing to do with.           *)
(***************************************************************************)
Foreign(m, s) ==
    /\ m \in String /\ ~Holds(m, "=") /\ m # NameOf(s)
    /\ Holds(s, "+") => Take(m, PlaceOf(s, "+") - 1) # Take(s, PlaceOf(s, "+") - 1)

LEMMA PlusKeeps ==
    ASSUME NEW env \in Seq(String), NEW s \in String, Holds(s, "+"), NEW m, Foreign(m, s)
    PROVE  GetValue(m, HandlePlus(env, s)) = GetValue(m, env)
<1> DEFINE n == PlaceOf(s, "+") - 1
           found == {k \in DOMAIN env : Take(env[k], n) = Take(s, n)}
           Grown(e) == e \o (IF Holds(e, "=") THEN <<>> ELSE <<"=">>) \o Drop(s, n + 2)
           i == Min(found)
<1>1. n \in Nat /\ n + 2 \in Nat /\ n <= Len(s)
  <2>1. PlaceOf(s, "+") \in 0..Len(s) /\ PlaceOf(s, "+") # 0 /\ Len(s) \in Nat
    BY HoldsIs
  <2> QED BY <2>1
<1>2. HandlePlus(env, s) = IF found = {} THEN Append(env, s) ELSE [env EXCEPT ![i] = Grown(env[i])]
  BY DEF HandlePlus
<1>3. m \in String /\ ~Holds(m, "=") /\ m # NameOf(s) /\ Take(m, n) # Take(s, n)
  BY DEF Foreign
<1> HIDE DEF n
<1>4. CASE found = {}
  <2>1. GetValue(m, Append(env, s)) = GetValue(m, env)
    BY <1>3, AppendKeeps
  <2> QED BY <1>2, <1>4, <2>1
<1>5. CASE found # {}
  <2>1. found \in SUBSET DOMAIN env
    OBVIOUS
  <2>2. \A k \in found : Take(env[k], n) = Take(s, n)
    OBVIOUS
  <2> HIDE DEF found
  <2>3. i \in 1..Len(env) /\ env[i] \in String /\ Take(env[i], n) = Take(s, n)
    BY <1>5, <2>1, <2>2, FirstFound
  <2> HIDE DEF i
  <2>4. NameOf(env[i]) # m
    BY <1>1, <1>3, <2>3, BeginsLike
  <2>5. Drop(s, n + 2) \in String
    BY <1>1, StringParts
  <2>6. Grown(env[i]) \in String /\ NameOf(Grown(env[i])) = NameOf(env[i])
    BY <2>3, <2>5, GrownName
  <2> HIDE DEF Grown
  <2>7. GetValue(m, [env EXCEPT ![i] = Grown(env[i])]) = GetValue(m, env)
    BY <1>3, <2>3, <2>4, <2>6, ReplaceKeeps
  <2> QED BY <1>2, <1>5, <2>7
<1> QED BY <1>4, <1>5

LEMMA ValidHasName ==
    ASSUME NEW s \in String, IsValidIdentifier(s)
    PROVE  NameOf(s) # <<>>
<1>1. s # <<>> /\ s[1] \in Letters
  BY DEF IsValidIdentifier
<1>2. s[1] # "="
  BY <1>1, EnvironAssumption
<1>3. s \in Seq(Char) /\ Len(s) \in Nat /\ Len(s) # 0
  BY <1>1, LenProperties, EmptySeq DEF String
<1>4. CASE Holds(s, "=")
  <2>1. PlaceOf(s, "=") \in 1..Len(s) /\ s[PlaceOf(s, "=")] = "=" /\ Len(NameOf(s)) = PlaceOf(s, "=") - 1
    BY <1>4, HoldsIs, NameIs
  <2>2. PlaceOf(s, "=") # 1
    BY <1>2, <2>1
  <2>3. Len(NameOf(s)) # 0
    BY <2>1, <2>2
  <2> QED BY <2>3
<1>5. CASE ~Holds(s, "=")
  BY <1>1, <1>5, NameIs
<1> QED BY <1>4, <1>5

(***************************************************************************)
(* One argument of `export`.                                               *)
(***************************************************************************)
LEMMA UpdateKeeps ==
    ASSUME NEW c \in Context, NEW s \in String, IsValidIdentifier(s), NEW m, Foreign(m, s)
    PROVE  GetValue(m, UpdateVariable(c, s).env) = GetValue(m, c.env)
<1>1. c.env \in Seq(String)
  BY DEF Context
<1>2. UpdateVariable(c, s).env = IF Holds(s, "+") THEN HandlePlus(c.env, s)
                                 ELSE HandleEqual(c.env, s, c.wraps)
  <2> DEFINE e == IF Holds(s, "+") THEN HandlePlus(c.env, s) ELSE HandleEqual(c.env, s, c.wraps)
  <2>1. UpdateVariable(c, s) = [c EXCEPT !.env = e]
    BY DEF UpdateVariable
  <2> HIDE DEF e
  <2>2. [c EXCEPT !.env = e].env = e
    BY DEF Context
  <2> QED BY <2>1, <2>2 DEF e
<1>3. m \in String /\ ~Holds(m, "=") /\ m # NameOf(s)
  BY DEF Foreign
<1>4. CASE Holds(s, "+")
  BY <1>1, <1>2, <1>4, PlusKeeps
<1>5. CASE ~Holds(s, "+") /\ Holds(s, "=")
  BY <1>1, <1>2, <1>3, <1>5, EqualSets, ValidHasName
<1>6. CASE ~Holds(s, "+") /\ ~Holds(s, "=")
  BY <1>1, <1>2, <1>3, <1>6, EqualAsks
<1> QED BY <1>4, <1>5, <1>6

LEMMA ExportOneIs ==
    ASSUME NEW r \in Results, NEW s \in String
    PROVE  \E c \in Context :
              /\ c.env = r.ctx.env
              /\ \/ ExportOne(r, s) = r /\ r.status = 1
                 \/ /\ ExportOne(r, s) = [ctx |-> c, status |-> 1]
                    /\ \E k \in 1..Len(s) : s[k] = " " /\ \A j \in 1..k : s[j] # "="
                 \/ ExportOne(r, s) = [ctx |-> c, status |-> 0] /\ ~IsValidIdentifier(s)
                 \/ ExportOne(r, s) = [ctx |-> UpdateVariable(c, s), status |-> 0]
                    /\ IsValidIdentifier(s)
<1> DEFINE shown == r.ctx.unset_path /\ Take(s, 5) # Str("PATH=")
           c == [r.ctx EXCEPT !.unset_path = shown]
           blank == \E k \in 1..Len(s) : s[k] = " " /\ \A j \in 1..k : s[j] # "="
<1>1. c \in Context /\ c.env = r.ctx.env
  BY DEF Results, Context
<1>2. ExportOne(r, s) =
        IF r.status = 1 THEN r
        ELSE IF blank THEN [ctx |-> c, status |-> 1]
        ELSE IF ~IsValidIdentifier(s) THEN [ctx |-> c, status |-> 0]
        ELSE [ctx |-> UpdateVariable(c, s), status |-> 0]
  BY DEF ExportOne
<1> HIDE DEF c
<1> QED BY <1>1, <1>2

LEMMA ExportOneKeeps ==
    ASSUME NEW r \in Results, NEW s \in String, NEW m, Foreign(m, s)
    PROVE  GetValue(m, ExportOne(r, s).ctx.env) = GetValue(m, r.ctx.env)
<1>1. PICK c \in Context :
         /\ c.env = r.ctx.env
         /\ \/ ExportOne(r, s) = r
            \/ ExportOne(r, s) = [ctx |-> c, status |-> 1]
            \/ ExportOne(r, s) = [ctx |-> c, status |-> 0]
            \/ ExportOne(r, s) = [ctx |-> UpdateVariable(c, s), status |-> 0] /\ IsValidIdentifier(s)
  BY ExportOneIs
<1>2. \/ ExportOne(r, s).ctx.env = r.ctx.env
      \/ ExportOne(r, s).ctx.env = UpdateVariable(c, s).env /\ IsValidIdentifier(s)
  BY <1>1
<1> QED BY <1>1, <1>2, UpdateKeeps

(***************************************************************************)
(* All the arguments of `export`.                                          *)
(***************************************************************************)
LEMMA ExportKeeps ==
    ASSUME NEW c \in Context, NEW list \in Seq(String), NEW m,
           \A s \in Range(list) : Foreign(m, s)
    PROVE  GetValue(m, Export(c, list).ctx.env) = GetValue(m, c.env)
<1> DEFINE n == Len(list)
           S == {r \in Results : GetValue(m, r.ctx.env) = GetValue(m, c.env)}
           a == [ctx |-> c, status |-> 0]
<1>1. n \in Nat /\ \A k \in 1..n : list[k] \in String /\ Foreign(m, list[k])
  <2>1. n \in Nat /\ DOMAIN list = 1..n /\ \A k \in 1..n : list[k] \in String
    BY LenProperties, ElementOfSeq
  <2>2. \A k \in 1..n : list[k] \in Range(list)
    BY <2>1 DEF Range
  <2> QED BY <2>1, <2>2
<1> HIDE DEF n
<1>2. PICK f \in [0..n -> Results] :
         f[0] = a /\ (\A k \in 1..n : f[k] = ExportOne(f[k - 1], list[k])) /\ Export(c, list) = f[n]
  BY ExportSteps DEF n
<1>3. f[0] \in S
  <2>1. f[0] \in Results /\ f[0].ctx = c
    BY <1>1, <1>2
  <2> QED BY <2>1
<1>4. ASSUME NEW k \in 1..n, f[k - 1] \in S
      PROVE  f[k] \in S
  <2>1. f[k - 1] \in Results /\ k \in 0..n /\ f[k] \in Results
    BY <1>1, <1>2, <1>4
  <2>2. f[k] = ExportOne(f[k - 1], list[k])
    BY <1>2
  <2>3. GetValue(m, ExportOne(f[k - 1], list[k]).ctx.env) = GetValue(m, f[k - 1].ctx.env)
    BY <1>1, <2>1, ExportOneKeeps
  <2> QED BY <1>4, <2>1, <2>2, <2>3
<1> HIDE DEF S
<1>5. \A k \in 0..n : f[k] \in S
  BY <1>1, <1>3, <1>4, Follows
<1>6. f[n] \in S
  BY <1>1, <1>5
<1> QED BY <1>2, <1>6 DEF S

LEMMA SimpleIs ==
    ASSUME NEW s \in String, Simple(s)
    PROVE  /\ IsValidIdentifier(s) /\ NameOf(s) # <<>> /\ ~Holds(s, "+")
           /\ \A k \in 1..Len(s) : s[k] = " " => \E j \in 1..k : s[j] = "="
<1> DEFINE q == NameOf(s)
           n == Len(q)
<1>1. /\ s \in Seq(Char) /\ Len(s) \in Nat /\ q \in Seq(Char) /\ n \in 0..Len(s)
      /\ \A j \in 1..n : q[j] = s[j]
      /\ ~Holds(s, "=") => q = s
      /\ Holds(s, "=") => n = PlaceOf(s, "=") - 1 /\ PlaceOf(s, "=") \in 1..Len(s)
                          /\ s[PlaceOf(s, "=")] = "="
  BY NameIs, HoldsIs DEF String
<1>2. q # <<>> /\ q[1] \in Letters /\ ~Holds(s, "+")
      /\ \A k \in DOMAIN q : q[k] \in Letters \/ Holds(Digits, q[k])
  BY DEF Simple, IsName
<1> HIDE DEF q
<1>3. n # 0 /\ DOMAIN q = 1..n /\ n \in Nat
  BY <1>1, <1>2, LenProperties, EmptySeq
<1>4. \A k \in 1..n : q[k] # " "
  <2>1. Digits \in String /\ " " \notin Letters /\ \A k \in DOMAIN Digits : Digits[k] # " "
    BY EnvironAssumption
  <2>2. DOMAIN Digits = 1..Len(Digits)
    BY <2>1, LenProperties DEF String
  <2>3. ~Holds(Digits, " ")
    BY <2>1, <2>2, HoldsIs
  <2> QED BY <1>2, <1>3, <2>1, <2>3
<1>5. s # <<>> /\ s[1] \in Letters
  <2>1. 1 \in 1..n /\ Len(s) # 0
    BY <1>1, <1>3
  <2> QED BY <1>1, <1>2, <2>1
<1>6. \A k \in 1..Len(s) : s[k] # "+"
  BY <1>2, HoldsIs
<1>7. IsValidIdentifier(s)
  <2>1. \A k \in 2..Len(s) : k \in 1..Len(s)
    BY <1>1
  <2> QED BY <1>5, <1>6, <2>1 DEF IsValidIdentifier
<1>8. ASSUME NEW k \in 1..Len(s), s[k] = " "
      PROVE  \E j \in 1..k : s[j] = "="
  <2>1. k \notin 1..n
    BY <1>1, <1>4, <1>8
  <2>2. n < k /\ k <= Len(s)
    BY <1>1, <1>3, <2>1
  <2>3. Holds(s, "=")
    BY <1>1, <2>2
  <2>4. PlaceOf(s, "=") \in 1..k
    BY <1>1, <2>2, <2>3
  <2> QED BY <1>1, <2>3, <2>4
<1> QED BY <1>2, <1>7, <1>8 DEF q

LEMMA ExportOneSets ==
    ASSUME NEW r \in Results, r.status = 0, NEW s \in String, Simple(s)
    PROVE  /\ ExportOne(r, s).status = 0
           /\ Holds(s, "=") =>
                 GetValue(NameOf(s), ExportOne(r, s).ctx.env) = Drop(s, PlaceOf(s, "="))
           /\ \A m \in String : ~Holds(m, "=") /\ m # NameOf(s) =>
                 GetValue(m, ExportOne(r, s).ctx.env) = GetValue(m, r.ctx.env)
<1>1. IsValidIdentifier(s) /\ NameOf(s) # <<>> /\ ~Holds(s, "+")
      /\ \A k \in 1..Len(s) : s[k] = " " => \E j \in 1..k : s[j] = "="
  BY SimpleIs
<1>2. PICK c \in Context :
         /\ c.env = r.ctx.env
         /\ \/ ExportOne(r, s) = r /\ r.status = 1
            \/ /\ ExportOne(r, s) = [ctx |-> c, status |-> 1]
               /\ \E k \in 1..Len(s) : s[k] = " " /\ \A j \in 1..k : s[j] # "="
            \/ ExportOne(r, s) = [ctx |-> c, status |-> 0] /\ ~IsValidIdentifier(s)
            \/ ExportOne(r, s) = [ctx |-> UpdateVariable(c, s), status |-> 0]
               /\ IsValidIdentifier(s)
  BY ExportOneIs
<1>3. ExportOne(r, s) = [ctx |-> UpdateVariable(c, s), status |-> 0]
  <2>1. ~(\E k \in 1..Len(s) : s[k] = " " /\ \A j \in 1..k : s[j] # "=")
    BY <1>1
  <2>2. r.status # 1
    OBVIOUS
  <2> QED BY <1>1, <1>2, <2>1, <2>2, Zenon
<1>4. UpdateVariable(c, s).env = HandleEqual(r.ctx.env, s, c.wraps)
  <2> DEFINE e == HandleEqual(c.env, s, c.wraps)
  <2>1. UpdateVariable(c, s) = [c EXCEPT !.env = e]
    BY <1>1 DEF UpdateVariable
  <2> HIDE DEF e
  <2>2. [c EXCEPT !.env = e].env = e
    BY DEF Context
  <2> QED BY <1>2, <2>1, <2>2 DEF e
<1>5. r.ctx.env \in Seq(String)
  BY DEF Results, Context
<1>6. Holds(s, "=") => GetValue(NameOf(s), HandleEqual(r.ctx.env, s, c.wraps)) = Drop(s, PlaceOf(s, "="))
  BY <1>1, <1>5, EqualSets
<1>7. ASSUME NEW m \in String, ~Holds(m, "="), m # NameOf(s)
      PROVE  GetValue(m, ExportOne(r, s).ctx.env) = GetValue(m, r.ctx.env)
  <2>1. Foreign(m, s)
    BY <1>1, <1>7 DEF Foreign
  <2> QED BY <2>1, ExportOneKeeps
<1> QED BY <1>3, <1>4, <1>6, <1>7

(***************************************************************************)
(* The last assignment to a name holds.                                    *)
(***************************************************************************)
LEMMA ExportSets ==
    ASSUME NEW c \in Context, NEW list \in Seq(String), \A s \in Range(list) : Simple(s),
           NEW i \in 1..Len(list), Holds(list[i], "="),
           \A j \in (i + 1)..Len(list) : NameOf(list[j]) # NameOf(list[i])
    PROVE  GetValue(NameOf(list[i]), Export(c, list).ctx.env) = Drop(list[i], PlaceOf(list[i], "="))
<1> DEFINE n == Len(list)
           m == NameOf(list[i])
           v == Drop(list[i], PlaceOf(list[i], "="))
           Zero == {r \in Results : r.status = 0}
           S == {r \in Zero : GetValue(m, r.ctx.env) = v}
           a == [ctx |-> c, status |-> 0]
<1>1. n \in Nat /\ i \in 1..n /\ \A k \in 1..n : list[k] \in String /\ Simple(list[k])
  <2>1. n \in Nat /\ DOMAIN list = 1..n /\ \A k \in 1..n : list[k] \in String
    BY LenProperties, ElementOfSeq
  <2>2. \A k \in 1..n : list[k] \in Range(list)
    BY <2>1 DEF Range
  <2> QED BY <2>1, <2>2
<1>2. m \in String /\ ~Holds(m, "=") /\ \A j \in (i + 1)..n : m # NameOf(list[j])
  BY <1>1, NameIs
<1>3. PICK f \in [0..n -> Results] :
         f[0] = a /\ (\A k \in 1..n : f[k] = ExportOne(f[k - 1], list[k])) /\ Export(c, list) = f[n]
  BY ExportSteps DEF n
<1> HIDE DEF n
<1>4. \A k \in 0..n : f[k] \in Zero
  <2>1. f[0] \in Zero
    BY <1>1, <1>3
  <2>2. ASSUME NEW k \in 1..n, f[k - 1] \in Zero
        PROVE  f[k] \in Zero
    <3>1. f[k - 1] \in Results /\ f[k - 1].status = 0 /\ f[k] \in Results
      BY <1>1, <1>3, <2>2
    <3>2. ExportOne(f[k - 1], list[k]).status = 0
      BY <1>1, <3>1, ExportOneSets
    <3> QED BY <1>3, <3>1, <3>2
  <2> HIDE DEF Zero
  <2> QED BY <1>1, <2>1, <2>2, Follows
<1>5. f[i] \in S
  <2>1. f[i - 1] \in Results /\ f[i - 1].status = 0 /\ f[i] \in Zero
    BY <1>1, <1>4
  <2>2. GetValue(m, ExportOne(f[i - 1], list[i]).ctx.env) = v
    BY <1>1, <2>1, ExportOneSets
  <2> QED BY <1>1, <1>3, <2>1, <2>2
<1>6. ASSUME NEW k \in (i + 1)..n, f[k - 1] \in S
      PROVE  f[k] \in S
  <2>1. k \in 1..n /\ k \in 0..n
    BY <1>1
  <2>2. f[k - 1] \in Results /\ f[k - 1].status = 0 /\ f[k] \in Zero
    BY <1>4, <1>6, <2>1
  <2>3. GetValue(m, ExportOne(f[k - 1], list[k]).ctx.env) = GetValue(m, f[k - 1].ctx.env)
    <3> HIDE DEF m
    <3> QED BY <1>1, <1>2, <2>1, <2>2, ExportOneSets
  <2> QED BY <1>3, <1>6, <2>1, <2>2, <2>3
<1>7. f[n] \in S
  <2> DEFINE g == [k \in 0..(n - i) |-> f[i + k]]
  <2>1. n - i \in Nat /\ g[0] \in S
    BY <1>1, <1>5
  <2>2. ASSUME NEW k \in 1..(n - i), g[k - 1] \in S
        PROVE  g[k] \in S
    <3>1. i + k \in (i + 1)..n /\ k - 1 \in 0..(n - i) /\ k \in 0..(n - i) /\ i + (k - 1) = (i + k) - 1
      BY <1>1
    <3>2. f[(i + k) - 1] \in S
      BY <2>2, <3>1
    <3> HIDE DEF S
    <3>3. f[i + k] \in S
      BY <1>6, <3>1, <3>2
    <3> QED BY <3>1, <3>3
  <2> HIDE DEF S, g
  <2>3. \A k \in 0..(n - i) : g[k] \in S
    BY <2>1, <2>2, Follows
  <2>4. n - i \in 0..(n - i) /\ i + (n - i) = n
    BY <1>1
  <2> QED BY <2>3, <2>4 DEF g
<1> QED BY <1>3, <1>7

(***************************************************************************)
(* `unset`.                                                                *)
(***************************************************************************)
LEMMA UnsetOneEffects ==
    ASSUME NEW c \in Context, NEW s \in String, NEW m \in String, ~Holds(m, "=")
    PROVE  /\ Take(s, Len(m)) # m => GetValue(m, UnsetOne(c, s).env) = GetValue(m, c.env)
           /\ s = m \/ Named(c.env, m) = {} => Named(UnsetOne(c, s).env, m) = {}
<1> DEFINE I == Kept1(c.env, s)
<1>1. c.env \in Seq(String) /\ UnsetOne(c, s).env = At(c.env, I)
  BY UnsetOneIs DEF Context
<1>2. I \in SUBSET DOMAIN c.env
  BY DEF Kept1
<1>3. ASSUME NEW k \in Named(c.env, m)
      PROVE  /\ k \in DOMAIN c.env /\ Holds(c.env[k], "=")
             /\ PlaceOf(c.env[k], "=") - 1 = Len(m) /\ Take(c.env[k], PlaceOf(c.env[k], "=") - 1) = m
  <2>1. k \in DOMAIN c.env /\ Holds(c.env[k], "=") /\ NameOf(c.env[k]) = m
    BY DEF Named
  <2>2. c.env[k] \in String
    BY <1>1, <2>1, ElementOfSeq, LenProperties
  <2> QED BY <2>1, <2>2, NameIs
<1>4. ASSUME Take(s, Len(m)) # m
      PROVE  GetValue(m, At(c.env, I)) = GetValue(m, c.env)
  <2>1. Named(c.env, m) \subseteq I
    BY <1>3, <1>4 DEF Kept1
  <2> HIDE DEF I
  <2> QED BY <1>1, <1>2, <2>1, DroppingKeeps
<1>5. ASSUME s = m \/ Named(c.env, m) = {}
      PROVE  Named(At(c.env, I), m) = {}
  <2>1. ASSUME NEW k \in Named(c.env, m) \cap I
        PROVE  FALSE
    <3>1. s = m /\ Take(s, Len(m)) # m
      BY <1>3, <1>5, <2>1 DEF Kept1
    <3>2. Take(m, Len(m)) = m
      <4>1. m \in Seq(Char) /\ Len(m) \in Nat /\ Len(m) <= Len(m)
        BY LenProperties DEF String
      <4> QED BY <4>1, TakeIs
    <3> QED BY <3>1, <3>2
  <2>2. Named(c.env, m) \cap I = {}
    BY <2>1
  <2> HIDE DEF I
  <2> QED BY <1>1, <1>2, <2>2, DroppedHasNone
<1> QED BY <1>1, <1>4, <1>5

LEMMA UnsetKeeps ==
    ASSUME NEW c \in Context, NEW list \in Seq(String), NEW m \in String, ~Holds(m, "="),
           \A s \in Range(list) : Take(s, Len(m)) # m
    PROVE  GetValue(m, Unset(c, list).ctx.env) = GetValue(m, c.env)
<1> DEFINE n == Len(list)
           S == {d \in Context : GetValue(m, d.env) = GetValue(m, c.env)}
<1>1. n \in Nat /\ \A k \in 1..n : list[k] \in String /\ Take(list[k], Len(m)) # m
  <2>1. n \in Nat /\ DOMAIN list = 1..n /\ \A k \in 1..n : list[k] \in String
    BY LenProperties, ElementOfSeq
  <2>2. \A k \in 1..n : list[k] \in Range(list)
    BY <2>1 DEF Range
  <2> QED BY <2>1, <2>2
<1> HIDE DEF n
<1>2. PICK f \in [0..n -> Context] :
         f[0] = c /\ (\A k \in 1..n : f[k] = UnsetOne(f[k - 1], list[k]))
         /\ Unset(c, list) = [ctx |-> f[n], status |-> 0]
  BY UnsetSteps DEF n
<1>3. f[0] \in S
  BY <1>2
<1>4. ASSUME NEW k \in 1..n, f[k - 1] \in S
      PROVE  f[k] \in S
  <2>1. f[k - 1] \in Context /\ f[k] \in Context
    BY <1>1, <1>2
  <2>2. GetValue(m, UnsetOne(f[k - 1], list[k]).env) = GetValue(m, f[k - 1].env)
    BY <1>1, <2>1, UnsetOneEffects
  <2> QED BY <1>2, <1>4, <2>1, <2>2
<1> HIDE DEF S
<1>5. \A k \in 0..n : f[k] \in S
  BY <1>1, <1>3, <1>4, Follows
<1>6. f[n] \in S
  BY <1>1, <1>5
<1> QED BY <1>2, <1>6 DEF S

LEMMA UnsetRemoves ==
    ASSUME NEW c \in Context, NEW list \in Seq(String), NEW m \in Range(list), ~Holds(m, "=")
    PROVE  GetValue(m, Unset(c, list).ctx.env) = Null
<1> DEFINE n == Len(list)
<1>1. PICK i \in 1..n : list[i] = m
  BY LenProperties DEF Range
<1>2. n \in Nat /\ (\A k \in 1..n : list[k] \in String) /\ m \in String
  BY <1>1, LenProperties, ElementOfSeq
<1> HIDE DEF n
<1>3. PICK f \in [0..n -> Context] :
         f[0] = c /\ (\A k \in 1..n : f[k] = UnsetOne(f[k - 1], list[k]))
         /\ Unset(c, list) = [ctx |-> f[n], status |-> 0]
  BY UnsetSteps DEF n
<1> DEFINE S == {d \in Context : Named(d.env, m) = {}}
           g == [k \in 0..(n - i) |-> f[i + k]]
<1>4. ASSUME NEW k \in 1..n, k = i \/ f[k - 1] \in S
      PROVE  f[k] \in S
  <2>1. f[k - 1] \in Context /\ f[k] \in Context
    BY <1>2, <1>3
  <2>2. list[k] = m \/ Named(f[k - 1].env, m) = {}
    BY <1>1, <1>4
  <2>3. Named(UnsetOne(f[k - 1], list[k]).env, m) = {}
    BY <1>2, <2>1, <2>2, UnsetOneEffects
  <2> QED BY <1>3, <2>1, <2>3
<1> HIDE DEF S
<1>5. n - i \in Nat /\ g[0] \in S
  <2>1. f[i] \in S
    BY <1>4
  <2> QED BY <1>2, <2>1
<1>6. ASSUME NEW k \in 1..(n - i), g[k - 1] \in S
      PROVE  g[k] \in S
  <2>1. i + k \in 1..n /\ k - 1 \in 0..(n - i) /\ k \in 0..(n - i) /\ i + (k - 1) = (i + k) - 1
    BY <1>2
  <2>2. f[(i + k) - 1] \in S
    BY <1>6, <2>1
  <2> QED BY <1>4, <2>1, <2>2
<1> HIDE DEF g
<1>7. \A k \in 0..(n - i) : g[k] \in S
  BY <1>5, <1>6, Follows
<1>8. f[n] \in S
  <2>1. n - i \in 0..(n - i) /\ i + (n - i) = n
    BY <1>2, <1>5
  <2> QED BY <1>7, <2>1 DEF g
<1>9. f[n].env \in Seq(String) /\ Named(f[n].env, m) = {}
  BY <1>8 DEF S, Context
<1> QED BY <1>2, <1>3, <1>9, ValueIs

(***************************************************************************)
(* The argument with which `cd` exports the directory it leaves.           *)
(***************************************************************************)
LEMMA OldDirectory ==
    ASSUME NEW d \in String
    PROVE  LET o == Str("OLDPWD")
               s == Str("OLDPWD=") \o d
           IN  /\ o \in String /\ ~Holds(o, "=") /\ s \in String
               /\ Holds(s, "=") /\ NameOf(s) = o /\ Drop(s, PlaceOf(s, "=")) = d
               /\ ~Holds(d, "+") => Simple(s)
               /\ \A m \in String : ~Holds(m, "=") /\ m # o => Foreign(m, s)
<1> DEFINE o == Str("OLDPWD")
           eq == <<"=">>
           t == o \o eq
           s == t \o d
           n == Len(o)
<1>1. /\ o \in String /\ o # <<>> /\ Str("OLDPWD=") = t
      /\ \A k \in DOMAIN o : o[k] \in Letters
  BY TextsAssumption
<1>2. "=" \in Char /\ "=" \notin Letters /\ "+" \notin Letters
  BY EnvironAssumption
<1> HIDE DEF o
<1>3. /\ o \in Seq(Char) /\ n \in Nat /\ n # 0 /\ DOMAIN o = 1..n
      /\ d \in Seq(Char) /\ Len(d) \in Nat
  BY <1>1, LenProperties, EmptySeq DEF String
<1>4. eq \in Seq(Char) /\ Len(eq) = 1 /\ eq[1] = "="
  BY <1>2
<1> HIDE DEF eq
<1>5. t \in Seq(Char) /\ Len(t) = n + 1 /\ t[n + 1] = "=" /\ \A k \in 1..n : t[k] = o[k]
  <2>1. t \in Seq(Char) /\ Len(t) = n + 1
        /\ \A k \in 1..(n + 1) : t[k] = IF k <= n THEN o[k] ELSE eq[k - n]
    <3>1. t \in Seq(Char) /\ Len(t) = Len(o) + Len(eq)
          /\ \A k \in 1..(Len(o) + Len(eq)) : t[k] = IF k <= Len(o) THEN o[k] ELSE eq[k - Len(o)]
      BY <1>3, <1>4, ConcatProperties
    <3> QED BY <1>4, <3>1
  <2>2. n + 1 \in 1..(n + 1) /\ ~(n + 1 <= n) /\ (n + 1) - n = 1
        /\ \A k \in 1..n : k \in 1..(n + 1) /\ k <= n
    BY <1>3
  <2> QED BY <1>4, <2>1, <2>2
<1> HIDE DEF t
<1>6. /\ s \in Seq(Char) /\ Len(s) = n + 1 + Len(d) /\ s[n + 1] = "="
      /\ \A k \in 1..n : s[k] = o[k]
      /\ \A k \in 1..Len(d) : s[n + 1 + k] = d[k]
  <2>1. s \in Seq(Char) /\ Len(s) = (n + 1) + Len(d)
        /\ \A k \in 1..((n + 1) + Len(d)) : s[k] = IF k <= n + 1 THEN t[k] ELSE d[k - (n + 1)]
    <3>1. s \in Seq(Char) /\ Len(s) = Len(t) + Len(d)
          /\ \A k \in 1..(Len(t) + Len(d)) : s[k] = IF k <= Len(t) THEN t[k] ELSE d[k - Len(t)]
      BY <1>3, <1>5, ConcatProperties
    <3> QED BY <1>5, <3>1
  <2>2. n + 1 \in 1..((n + 1) + Len(d)) /\ \A k \in 1..n : k \in 1..((n + 1) + Len(d)) /\ k <= n + 1
    BY <1>3
  <2>3. \A k \in 1..Len(d) : n + 1 + k \in 1..((n + 1) + Len(d)) /\ ~(n + 1 + k <= n + 1)
                             /\ (n + 1 + k) - (n + 1) = k
    BY <1>3
  <2> QED BY <1>5, <2>1, <2>2, <2>3
<1> HIDE DEF s
<1>7. s \in String /\ n + 1 \in 1..Len(s) /\ Len(s) \in Nat
  BY <1>3, <1>6 DEF String
<1>8. Holds(s, "=") /\ PlaceOf(s, "=") = n + 1
  <2> DEFINE p == PlaceOf(s, "=")
  <2>1. Holds(s, "=") /\ p \in 0..Len(s) /\ p # 0 /\ s[p] = "=" /\ p <= n + 1
    BY <1>6, <1>7, HoldsIs
  <2> HIDE DEF p
  <2>2. p \notin 1..n
    BY <1>1, <1>2, <1>3, <1>6, <2>1
  <2>3. p = n + 1
    BY <1>3, <1>7, <2>1, <2>2
  <2> QED BY <2>1, <2>3 DEF p
<1>9. NameOf(s) = o /\ ~Holds(o, "=")
  <2> DEFINE q == NameOf(s)
  <2>1. q \in String /\ ~Holds(q, "=") /\ Len(q) = (n + 1) - 1 /\ \A j \in 1..Len(q) : q[j] = s[j]
    BY <1>7, <1>8, NameIs
  <2> HIDE DEF q
  <2>2. q \in Seq(Char) /\ Len(q) = n /\ \A j \in 1..Len(q) : q[j] = o[j]
    BY <1>3, <1>6, <2>1 DEF String
  <2>3. q = o
    BY <1>3, <2>2, SeqEqual
  <2> QED BY <2>1, <2>3 DEF q
<1>10. Drop(s, PlaceOf(s, "=")) = d
  <2> DEFINE u == Drop(s, n + 1)
  <2>1. /\ n + 1 \in Nat /\ n + 1 <= Len(s)
        /\ u \in Seq(Char) /\ Len(u) = Len(s) - (n + 1)
        /\ \A k \in 1..Len(u) : u[k] = s[n + 1 + k]
    BY <1>3, <1>6, <1>7, DropIs
  <2> HIDE DEF u
  <2>2. Len(u) = Len(d)
    BY <1>3, <1>6, <2>1
  <2>3. \A k \in 1..Len(u) : u[k] = d[k]
    BY <1>6, <2>1, <2>2
  <2>4. u = d
    BY <1>3, <2>1, <2>2, <2>3, SeqEqual
  <2> QED BY <1>8, <2>4 DEF u
<1>11. \A k \in 1..(n + 1) : s[k] # "+"
  <2>1. \A k \in 1..n : s[k] # "+"
    BY <1>1, <1>2, <1>3, <1>6
  <2> QED BY <1>3, <1>6, <2>1
<1>12. ASSUME ~Holds(d, "+")
       PROVE  Simple(s)
  <2>1. IsName(o)
    <3>1. 1 \in DOMAIN o
      BY <1>3
    <3> QED BY <1>1, <3>1 DEF IsName
  <2>2. \A k \in 1..Len(d) : d[k] # "+"
    BY <1>12, HoldsIs
  <2>3. ASSUME NEW k \in 1..Len(s)
        PROVE  s[k] # "+"
    <3>1. CASE k \in 1..(n + 1)
      BY <1>11, <3>1
    <3>2. CASE k \notin 1..(n + 1)
      <4>1. k - (n + 1) \in 1..Len(d) /\ n + 1 + (k - (n + 1)) = k
        BY <1>3, <1>6, <3>2
      <4> QED BY <1>6, <2>2, <4>1
    <3> QED BY <3>1, <3>2
  <2>4. ~Holds(s, "+")
    BY <1>7, <2>3, HoldsIs
  <2> QED BY <1>9, <2>1, <2>4 DEF Simple
<1>13. ASSUME NEW m \in String, ~Holds(m, "="), m # o
       PROVE  Foreign(m, s)
  <2>1. ASSUME Holds(s, "+"), Take(m, PlaceOf(s, "+") - 1) = Take(s, PlaceOf(s, "+") - 1)
        PROVE  FALSE
    <3> DEFINE p == PlaceOf(s, "+")
    <3>1. p \in 1..Len(s) /\ s[p] = "+"
      BY <1>7, <2>1, HoldsIs
    <3>2. Take(m, p - 1) = Take(s, p - 1)
      BY <2>1
    <3> HIDE DEF p
    <3>3. p \notin 1..(n + 1)
      BY <1>11, <3>1
    <3>4. p - 1 \in Nat /\ p - 1 <= Len(s) /\ n + 1 \in 1..(p - 1)
      BY <1>3, <1>7, <3>1, <3>3
    <3>5. m \in Seq(Char) /\ Len(m) \in Nat
      BY LenProperties DEF String
    <3>6. p - 1 <= Len(m)
      <4>1. Len(Take(s, p - 1)) = p - 1
        BY <1>6, <3>4, TakeIs
      <4>2. Len(Take(m, p - 1)) = IF p - 1 <= Len(m) THEN p - 1 ELSE Len(m)
        BY <3>4, <3>5, TakeIs
      <4> QED BY <3>2, <3>4, <3>5, <4>1, <4>2
    <3>7. \A j \in 1..(p - 1) : m[j] = s[j]
      BY <1>6, <3>2, <3>4, <3>5, <3>6, TakesAgree
    <3>8. m[n + 1] = "=" /\ n + 1 \in 1..Len(m)
      BY <1>6, <3>4, <3>5, <3>6, <3>7
    <3> QED BY <1>13, <3>8, HoldsIs
  <2> QED BY <1>9, <1>13, <2>1 DEF Foreign
<1> QED BY <1>1, <1>7, <1>8, <1>9, <1>10, <1>12, <1>13 DEF s, o

(***************************************************************************)
(* `cd` to a directory.                                                    *)
(***************************************************************************)
LEMMA CdExports ==
    ASSUME NEW c \in Context, NEW dir \in String
    PROVE  LET new == ExcuteSuccess(c, dir)
               s == Str("OLDPWD=") \o c.last_pwd
           IN  /\ new.cwd = dir /\ new.last_pwd = dir
               /\ new.env = Export(c, <<s>>).ctx.env
               /\ <<s>> \in Seq(String) /\ Len(<<s>>) = 1 /\ <<s>>[1] = s
               /\ \A t \in Range(<<s>>) : t = s
<1> DEFINE s == Str("OLDPWD=") \o c.last_pwd
           list == <<s>>
           old == Export(c, list).ctx
<1>1. c.last_pwd \in String
  BY DEF Context
<1>2. s \in String
  BY <1>1, OldDirectory
<1> HIDE DEF s
<1>3. list \in Seq(String) /\ Len(list) = 1 /\ list[1] = s /\ \A t \in Range(list) : t = s
  BY <1>2 DEF Range
<1> HIDE DEF list
<1>4. old \in Context
  BY <1>3, ExportType DEF Results
<1> HIDE DEF old
<1>5. [old EXCEPT !.cwd = dir, !.last_pwd = dir].cwd = dir
      /\ [old EXCEPT !.cwd = dir, !.last_pwd = dir].last_pwd = dir
      /\ [old EXCEPT !.cwd = dir, !.last_pwd = dir].env = old.env
  BY <1>4 DEF Context
<1>6. ExcuteSuccess(c, dir) = [old EXCEPT !.cwd = dir, !.last_pwd = dir]
  BY DEF ExcuteSuccess, old, list, s
<1> QED BY <1>3, <1>5, <1>6 DEF old, list, s

LEMMA CdSets ==
    ASSUME NEW c \in Context, NEW dir \in String, ~Holds(c.last_pwd, "+")
    PROVE  GetValue(Str("OLDPWD"), ExcuteSuccess(c, dir).env) = c.last_pwd
<1> DEFINE s == Str("OLDPWD=") \o c.last_pwd
           list == <<s>>
           new == ExcuteSuccess(c, dir)
<1>1. c.last_pwd \in String
  BY DEF Context
<1>2. /\ Holds(s, "=") /\ NameOf(s) = Str("OLDPWD") /\ Drop(s, PlaceOf(s, "=")) = c.last_pwd
      /\ Simple(s)
  BY <1>1, OldDirectory
<1>3. /\ new.env = Export(c, list).ctx.env
      /\ list \in Seq(String) /\ Len(list) = 1 /\ list[1] = s /\ \A t \in Range(list) : t = s
  BY CdExports
<1> HIDE DEF s, list, new
<1>4. 1 \in 1..Len(list) /\ (\A j \in (1 + 1)..Len(list) : FALSE) /\ Holds(list[1], "=")
      /\ \A t \in Range(list) : Simple(t)
  BY <1>2, <1>3
<1>5. GetValue(NameOf(list[1]), Export(c, list).ctx.env) = Drop(list[1], PlaceOf(list[1], "="))
  BY <1>3, <1>4, ExportSets
<1> QED BY <1>2, <1>3, <1>5 DEF new

LEMMA CdKeeps ==
    ASSUME NEW c \in Context, NEW list \in Seq(String), NEW m \in String, ~Holds(m, "="),
           m # Str("OLDPWD")
    PROVE  GetValue(m, ChangeDir(c, list).ctx.env) = GetValue(m, c.env)
<1>1. CASE list = <<>>
  <2>1. \A h : [c EXCEPT !.cwd = h, !.last_pwd = h].env = c.env
    BY DEF Context
  <2>2. HomePath(c).ctx.env = c.env
    BY <2>1 DEF HomePath
  <2> QED BY <1>1, <2>2 DEF ChangeDir
<1>2. CASE list # <<>> /\ list[1] \in Dirs
  <2> DEFINE s == Str("OLDPWD=") \o c.last_pwd
             old == <<s>>
             new == ExcuteSuccess(c, list[1])
  <2>1. c.last_pwd \in String /\ list[1] \in String
    BY <1>2, FirstOf DEF Context
  <2>2. Foreign(m, s)
    BY <2>1, OldDirectory
  <2>3. new.env = Export(c, old).ctx.env /\ old \in Seq(String) /\ \A t \in Range(old) : t = s
    BY <2>1, CdExports
  <2> HIDE DEF s, old, new
  <2>4. GetValue(m, Export(c, old).ctx.env) = GetValue(m, c.env)
    BY <2>2, <2>3, ExportKeeps
  <2>5. ChangeDir(c, list) = [ctx |-> new, status |-> 0]
    BY <1>2 DEF ChangeDir, new
  <2> QED BY <2>3, <2>4, <2>5
<1>3. CASE list # <<>> /\ list[1] \notin Dirs
  BY <1>3 DEF ChangeDir
<1> QED BY <1>1, <1>2, <1>3

(***************************************************************************)
(* The step of a builtin.                                                  *)
(***************************************************************************)
LEMMA BuiltinStep ==
    ASSUME ShellTypes, [ShellNext]_vars, Running
    PROVE  /\ args # <<>> /\ Tail(args) \in Seq(String) /\ ctx \in Context
           /\ ctx' = Effect.ctx /\ status' = Effect.status
<1>1. spc = "redir" /\ (spc = "undo")' /\ IsBuiltin(args) /\ args # <<>>
  BY DEF Running, IsBuiltin
<1>2. RunBuiltin
  <2>1. CASE RunTool
    BY <1>1, <2>1 DEF RunTool
  <2>2. CASE Undo \/ ProgramEnds \/ UNCHANGED vars
    BY <1>1, <2>2 DEF Undo, UndoOne, UndoDone, ProgramEnds, vars, shellVars
  <2> QED BY <1>1, <2>1, <2>2, UndoBegins, Zenon
<1>3. ~Bare
  BY <1>1 DEF ShellTypes
<1>4. ctx' = Effect.ctx /\ status' = Effect.status
  BY <1>2, <1>3 DEF RunBuiltin
<1> QED BY <1>1, <1>4, FirstOf DEF ShellTypes

(***************************************************************************)
(* Whatever the environment holds, even entries that begin alike: after    *)
(* `export NAME=VALUE` the variable has the value, the last one given;     *)
(* after `unset NAME` there is no such variable; after `cd DIR` the old    *)
(* directory is in OLDPWD.                                                 *)
(***************************************************************************)
AssignmentTakesEffect ==
    /\ (Ran("export") /\ \A s \in Rest : Simple(s)) =>
          \A k \in 2..Len(args) :
              (Holds(args[k], "=") /\ \A j \in (k + 1)..Len(args) : NameOf(args[j]) # NameOf(args[k]))
                  => GetValue(NameOf(args[k]), ctx'.env) = Drop(args[k], PlaceOf(args[k], "="))
    /\ Ran("unset") => \A s \in Rest : IsName(s) => GetValue(s, ctx'.env) = Null
    /\ Ran("cd") /\ Len(args) > 1 /\ status' = 0 =>
          /\ ctx'.cwd = args[2] /\ ctx'.last_pwd = args[2]
          /\ ~Holds(ctx.last_pwd, "+") =>
                GetValue(Str("OLDPWD"), ctx'.env) = ctx.last_pwd

LEMMA AssignmentStep ==
    ASSUME ShellTypes, [ShellNext]_vars, Running
    PROVE  AssignmentTakesEffect
<1> DEFINE list == Tail(args)
<1>1. /\ args # <<>> /\ list \in Seq(String) /\ ctx \in Context
      /\ ctx' = Effect.ctx /\ status' = Effect.status
  BY BuiltinStep
<1>2. /\ args \in Seq(String) /\ Len(args) \in Nat /\ Len(list) = Len(args) - 1
      /\ \A i \in 1..Len(list) : list[i] = args[i + 1]
  BY <1>1, HeadTailProperties, LenProperties DEF ShellTypes
<1> HIDE DEF list
<1>3. Rest = Range(list)
  BY DEF Rest, list
<1>4. ASSUME Ran("export"), \A s \in Rest : Simple(s), NEW k \in 2..Len(args), Holds(args[k], "="),
             \A j \in (k + 1)..Len(args) : NameOf(args[j]) # NameOf(args[k])
      PROVE  GetValue(NameOf(args[k]), ctx'.env) = Drop(args[k], PlaceOf(args[k], "="))
  <2> DEFINE i == k - 1
  <2>1. i \in 1..Len(list) /\ list[i] = args[k]
    <3>1. i \in 1..Len(list) /\ i + 1 = k
      BY <1>2
    <3> HIDE DEF i
    <3> QED BY <1>2, <3>1
  <2>2. ASSUME NEW j \in (i + 1)..Len(list)
        PROVE  NameOf(list[j]) # NameOf(list[i])
    <3>1. j + 1 \in (k + 1)..Len(args) /\ j \in 1..Len(list)
      BY <1>2, <2>1
    <3>2. list[j] = args[j + 1]
      BY <1>2, <3>1
    <3> QED BY <1>4, <2>1, <3>1, <3>2
  <2> HIDE DEF i
  <2>3. \A s \in Range(list) : Simple(s)
    BY <1>3, <1>4
  <2>4. Holds(list[i], "=")
    BY <1>4, <2>1
  <2>5. GetValue(NameOf(list[i]), Export(ctx, list).ctx.env) = Drop(list[i], PlaceOf(list[i], "="))
    BY <1>1, <2>1, <2>2, <2>3, <2>4, ExportSets
  <2>6. Effect.ctx = Export(ctx, list).ctx
    BY <1>1, <1>4, ExportIs DEF list
  <2> QED BY <1>1, <2>1, <2>5, <2>6
<1>5. ASSUME Ran("unset"), NEW s \in Rest, IsName(s)
      PROVE  GetValue(s, ctx'.env) = Null
  <2>1. s \in String /\ s \in Range(list)
    <3>1. PICK i \in DOMAIN list : s = list[i]
      BY <1>3, <1>5 DEF Range
    <3>2. i \in 1..Len(list)
      BY <1>1, <3>1, LenProperties
    <3> QED BY <1>1, <1>3, <1>5, <3>1, <3>2, ElementOfSeq
  <2>2. \A k \in 1..Len(s) : s[k] # "="
    <3>1. Digits \in String /\ "=" \notin Letters /\ \A k \in DOMAIN Digits : Digits[k] # "="
      BY EnvironAssumption
    <3>2. DOMAIN Digits = 1..Len(Digits) /\ DOMAIN s = 1..Len(s)
      BY <2>1, <3>1, LenProperties DEF String
    <3>3. ~Holds(Digits, "=")
      BY <3>1, <3>2, HoldsIs
    <3> QED BY <1>5, <3>1, <3>2, <3>3 DEF IsName
  <2>3. ~Holds(s, "=")
    BY <2>1, <2>2, HoldsIs
  <2>4. GetValue(s, Unset(ctx, list).ctx.env) = Null
    BY <1>1, <2>1, <2>3, UnsetRemoves
  <2>5. Effect = Unset(ctx, list)
    BY <1>1, <1>5, EffectIs DEF list
  <2> QED BY <1>1, <2>4, <2>5
<1>6. ASSUME Ran("cd"), Len(args) > 1, status' = 0
      PROVE  /\ ctx'.cwd = args[2] /\ ctx'.last_pwd = args[2]
             /\ ~Holds(ctx.last_pwd, "+") => GetValue(Str("OLDPWD"), ctx'.env) = ctx.last_pwd
  <2>1. Len(list) # 0 /\ list # <<>> /\ 1 \in 1..Len(list) /\ list[1] = args[2] /\ args[2] \in String
    <3>0. Len(args) > 1
      BY <1>6
    <3>1. Len(list) # 0 /\ 1 \in 1..Len(list) /\ 2 \in 1..Len(args) /\ 1 + 1 = 2
      <4>1. Len(args) \in Nat
        BY <1>2
      <4>2. Len(list) = Len(args) - 1
        BY <1>2
      <4> QED BY <3>0, <4>1, <4>2
    <3>2. list # <<>>
      BY <3>1
    <3> QED BY <1>2, <3>1, <3>2, ElementOfSeq
  <2>2. Effect = ChangeDir(ctx, list)
    BY <1>1, <1>6, EffectIs DEF list
  <2>3. ChangeDir(ctx, list) = IF args[2] \in Dirs THEN [ctx |-> ExcuteSuccess(ctx, args[2]), status |-> 0]
                               ELSE [ctx |-> ctx, status |-> 1]
    BY <2>1 DEF ChangeDir
  <2>4. Effect.status = 0 /\ ctx' = Effect.ctx
    BY <1>1, <1>6, Zenon
  <2>5. args[2] \in Dirs
    BY <2>2, <2>3, <2>4
  <2>6. ctx' = ExcuteSuccess(ctx, args[2])
    BY <2>2, <2>3, <2>4, <2>5
  <2>7. ExcuteSuccess(ctx, args[2]).cwd = args[2] /\ ExcuteSuccess(ctx, args[2]).last_pwd = args[2]
    BY <1>1, <2>1, CdExports
  <2>8. ~Holds(ctx.last_pwd, "+")
           => GetValue(Str("OLDPWD"), ExcuteSuccess(ctx, args[2]).env) = ctx.last_pwd
    BY <1>1, <2>1, CdSets
  <2> QED BY <2>6, <2>7, <2>8, Zenon
<1> QED BY <1>4, <1>5, <1>6 DEF AssignmentTakesEffect

THEOREM AssignmentsTakeEffectCorrect == ShellSpec => AssignmentsTakeEffect
<1>1. ShellTypes /\ [ShellNext]_vars => [Running => AssignmentTakesEffect]_vars
  BY AssignmentStep
<1>2. ShellSpec => [][Running => AssignmentTakesEffect]_vars
  BY <1>1, TypesInvariant, PTL DEF ShellSpec
<1> QED BY <1>2 DEF AssignmentsTakeEffect, AssignmentTakesEffect

(***************************************************************************)
(* All variables a builtin is not about keep their value.                  *)
(***************************************************************************)
OtherUntouched ==
    \A name \in {NameOf(ctx.env[k]) : k \in DOMAIN ctx.env} :
        Concerns(name) \/ GetValue(name, ctx'.env) = GetValue(name, ctx.env)

LEMMA UntouchedStep ==
    ASSUME ShellTypes, [ShellNext]_vars, Running
    PROVE  OtherUntouched
<1> DEFINE list == Tail(args)
<1>1. /\ args # <<>> /\ list \in Seq(String) /\ ctx \in Context
      /\ ctx' = Effect.ctx
  BY BuiltinStep
<1> HIDE DEF list
<1>2. Rest = Range(list)
  BY DEF Rest, list
<1>3. ASSUME NEW k \in DOMAIN ctx.env, ~Concerns(NameOf(ctx.env[k]))
      PROVE  GetValue(NameOf(ctx.env[k]), ctx'.env) = GetValue(NameOf(ctx.env[k]), ctx.env)
  <2> DEFINE m == NameOf(ctx.env[k])
  <2>1. m \in String /\ ~Holds(m, "=")
    <3>1. ctx.env \in Seq(String)
      BY <1>1 DEF Context
    <3>2. ctx.env[k] \in String
      BY <3>1, LenProperties, ElementOfSeq
    <3> QED BY <3>2, NameIs
  <2>2. ~Concerns(m)
    BY <1>3
  <2> HIDE DEF m
  <2>3. CASE Ran("export")
    <3>1. \A s \in Range(list) : Foreign(m, s)
      BY <1>2, <2>1, <2>2, <2>3 DEF Concerns, Foreign
    <3>2. Effect.ctx = Export(ctx, list).ctx
      BY <1>1, <2>3, ExportIs DEF list
    <3> QED BY <1>1, <3>1, <3>2, ExportKeeps DEF m
  <2>4. CASE Ran("unset")
    <3>1. \A s \in Range(list) : Take(s, Len(m)) # m
      BY <1>2, <2>2, <2>4 DEF Concerns
    <3>2. Effect = Unset(ctx, list)
      BY <1>1, <2>4, EffectIs DEF list
    <3> QED BY <1>1, <2>1, <3>1, <3>2, UnsetKeeps DEF m
  <2>5. CASE Ran("cd")
    <3>1. m # Str("OLDPWD")
      BY <2>2, <2>5 DEF Concerns
    <3>2. Effect = ChangeDir(ctx, list)
      BY <1>1, <2>5, EffectIs DEF list
    <3> QED BY <1>1, <2>1, <3>1, <3>2, CdKeeps DEF m
  <2>6. CASE ~Ran("cd") /\ ~Ran("export") /\ ~Ran("unset")
    BY <1>1, <2>6, EffectIs
  <2> QED BY <2>3, <2>4, <2>5, <2>6
<1> QED BY <1>3 DEF OtherUntouched

(***************************************************************************)
(* `export`, `unset` and `cd` leave every other variable its value, also   *)
(* where the array is made anew and whatever the arguments.                *)
(***************************************************************************)
THEOREM OthersUntouchedCorrect == ShellSpec => OthersUntouched
<1>1. ShellTypes /\ [ShellNext]_vars =>
         [Running =>
            \A name \in {NameOf(ctx.env[k]) : k \in DOMAIN ctx.env} :
                Concerns(name) \/ GetValue(name, ctx'.env) = GetValue(name, ctx.env)]_vars
  BY UntouchedStep DEF OtherUntouched
<1> QED BY <1>1, TypesInvariant, PTL DEF ShellSpec, OthersUntouched

----------------------------------------------------------------------------
(* Wildcards.                                                              *)

(***************************************************************************)
(* What is left of the pattern behind i can be filled with what is left of *)
(* the name behind j.                                                      *)
(***************************************************************************)
Fits(p, f, i, j) ==
    \E cut \in [i..Len(p) -> j..Len(f)] :
        /\ cut[i] = j /\ cut[Len(p)] = Len(f)
        /\ \A k \in (i + 1)..Len(p) :
              IF p[k] = "*" THEN cut[k] >= cut[k - 1]
              ELSE cut[k] = cut[k - 1] + 1 /\ p[k] \in {"?", f[cut[k]]}

LEMMA FitsAtEnd ==
    ASSUME NEW p \in String, NEW f \in String, NEW j \in 0..Len(f)
    PROVE  Fits(p, f, Len(p), j) <=> j = Len(f)
<1> DEFINE m == Len(p)
           n == Len(f)
<1>1. m \in Nat /\ n \in Nat
  BY LenProperties DEF String
<1> HIDE DEF m, n
<1>2. ASSUME j = n
      PROVE  Fits(p, f, m, j)
  <2> DEFINE cut == [k \in m..m |-> j]
  <2>1. cut \in [m..m -> j..n] /\ cut[m] = j
    BY <1>1, <1>2 DEF n
  <2> HIDE DEF cut
  <2>2. (m + 1)..m = {}
    BY <1>1
  <2>3. /\ cut[m] = j /\ cut[m] = n
        /\ \A k \in (m + 1)..m :
              IF p[k] = "*" THEN cut[k] >= cut[k - 1]
              ELSE cut[k] = cut[k - 1] + 1 /\ p[k] \in {"?", f[cut[k]]}
    BY <1>2, <2>1, <2>2
  <2> QED BY <2>1, <2>3 DEF Fits, m, n
<1>3. ASSUME Fits(p, f, m, j)
      PROVE  j = n
  BY <1>3 DEF Fits, m, n
<1> QED BY <1>2, <1>3 DEF m, n

(***************************************************************************)
(* Of an asterisk, and of any other character, with the rest behind it.    *)
(***************************************************************************)
Step(p, f, i, j, c) ==
    IF p[i + 1] = "*" THEN c >= j ELSE c = j + 1 /\ p[i + 1] \in {"?", f[c]}

LEMMA FitsIsStep ==
    ASSUME NEW p \in String, NEW f \in String, NEW i \in 0..(Len(p) - 1), NEW j \in 0..Len(f)
    PROVE  Fits(p, f, i, j) <=> \E c \in 0..Len(f) : Step(p, f, i, j, c) /\ Fits(p, f, i + 1, c)
<1> DEFINE m == Len(p)
           n == Len(f)
           Good(cut, k) == IF p[k] = "*" THEN cut[k] >= cut[k - 1]
                           ELSE cut[k] = cut[k - 1] + 1 /\ p[k] \in {"?", f[cut[k]]}
<1>1. m \in Nat /\ n \in Nat /\ i \in 0..(m - 1) /\ j \in 0..n
  BY LenProperties DEF String
<1>2. \A a, b : Fits(p, f, a, b) <=>
         \E cut \in [a..m -> b..n] :
            cut[a] = b /\ cut[m] = n /\ \A k \in (a + 1)..m : Good(cut, k)
  BY DEF Fits
<1> HIDE DEF m, n
<1>3. ASSUME Fits(p, f, i, j)
      PROVE  \E c \in 0..n : Step(p, f, i, j, c) /\ Fits(p, f, i + 1, c)
  <2>1. PICK cut \in [i..m -> j..n] :
           cut[i] = j /\ cut[m] = n /\ \A k \in (i + 1)..m : Good(cut, k)
    BY <1>2, <1>3
  <2> DEFINE c == cut[i + 1]
             new == [k \in (i + 1)..m |-> cut[k]]
  <2>2. i + 1 \in i..m /\ i + 1 \in (i + 1)..m /\ (i + 1) - 1 = i /\ m \in (i + 1)..m
    BY <1>1
  <2>3. c \in j..n /\ c \in 0..n
    BY <1>1, <2>1, <2>2
  <2>4. Good(cut, i + 1)
    BY <2>1, <2>2
  <2>5. Step(p, f, i, j, c)
    BY <2>1, <2>2, <2>4 DEF Step
  <2> DEFINE Low == {k \in (i + 1)..m : cut[k] >= c}
  <2>6. \A k \in (i + 1)..m : k \in Low
    <3>1. i + 1 \in Low
      BY <2>2, <2>3, <1>1
    <3>2. ASSUME NEW k \in ((i + 1) + 1)..m, k - 1 \in Low
          PROVE  k \in Low
      <4>1. k \in (i + 1)..m /\ k \in i..m /\ k - 1 \in i..m /\ k - 1 \in (i + 1)..m
        BY <1>1
      <4>2. cut[k] >= cut[k - 1] /\ cut[k] \in Int /\ cut[k - 1] \in Int /\ cut[k - 1] >= c
        <5>1. Good(cut, k) /\ cut[k] \in j..n /\ cut[k - 1] \in j..n
          BY <2>1, <4>1
        <5> QED BY <1>1, <3>2, <5>1
      <4> HIDE DEF c
      <4> QED BY <1>1, <2>3, <4>1, <4>2
    <3> HIDE DEF Low
    <3>3. i + 1 \in Nat /\ m \in Nat
      BY <1>1
    <3> QED BY <3>1, <3>2, <3>3, Climbs
  <2>7. new \in [(i + 1)..m -> c..n]
    <3>1. ASSUME NEW k \in (i + 1)..m PROVE cut[k] \in c..n
      <4>1. k \in i..m /\ cut[k] >= c /\ cut[k] \in j..n
        BY <1>1, <2>1, <2>6
      <4> HIDE DEF c
      <4> QED BY <1>1, <2>3, <4>1
    <3> HIDE DEF c
    <3> QED BY <3>1
  <2>8. new[i + 1] = c /\ new[m] = n
    BY <2>1, <2>2
  <2>9. ASSUME NEW k \in ((i + 1) + 1)..m
        PROVE  Good(new, k)
    <3>1. k \in (i + 1)..m /\ k - 1 \in (i + 1)..m
      BY <1>1
    <3>2. new[k] = cut[k] /\ new[k - 1] = cut[k - 1] /\ Good(cut, k)
      BY <2>1, <3>1
    <3> HIDE DEF new
    <3> QED BY <3>2
  <2> HIDE DEF new, Good, c
  <2>10. Fits(p, f, i + 1, c)
    BY <1>2, <2>7, <2>8, <2>9
  <2> QED BY <2>3, <2>5, <2>10
<1>4. ASSUME NEW c \in 0..n, Step(p, f, i, j, c), Fits(p, f, i + 1, c)
      PROVE  Fits(p, f, i, j)
  <2>1. PICK cut \in [(i + 1)..m -> c..n] :
           cut[i + 1] = c /\ cut[m] = n /\ \A k \in ((i + 1) + 1)..m : Good(cut, k)
    BY <1>2, <1>4
  <2> DEFINE new == [k \in i..m |-> IF k = i THEN j ELSE cut[k]]
  <2>2. c >= j
    BY <1>1, <1>4 DEF Step
  <2>3. new \in [i..m -> j..n]
    <3>1. ASSUME NEW k \in i..m, k # i PROVE cut[k] \in j..n
      <4>1. k \in (i + 1)..m
        BY <1>1, <3>1
      <4>2. cut[k] \in c..n
        BY <2>1, <4>1
      <4> QED BY <1>1, <2>2, <4>2
    <3>2. j \in j..n
      BY <1>1
    <3> QED BY <3>1, <3>2
  <2>4. /\ i \in i..m /\ m \in i..m /\ m # i /\ i + 1 \in i..m /\ i + 1 # i /\ (i + 1) - 1 = i
    BY <1>1
  <2>5. new[i] = j /\ new[m] = n /\ new[i + 1] = c
    BY <2>1, <2>4
  <2>6. ASSUME NEW k \in (i + 1)..m
        PROVE  Good(new, k)
    <3>1. CASE k = i + 1
      <4>1. new[k] = c /\ new[k - 1] = j
        BY <2>4, <2>5, <3>1
      <4> HIDE DEF new
      <4> QED BY <1>4, <3>1, <4>1 DEF Step
    <3>2. CASE k # i + 1
      <4>1. k \in ((i + 1) + 1)..m /\ k \in i..m /\ k - 1 \in i..m /\ k # i /\ k - 1 # i
        BY <1>1, <3>2
      <4>2. new[k] = cut[k] /\ new[k - 1] = cut[k - 1] /\ Good(cut, k)
        BY <2>1, <4>1
      <4> HIDE DEF new
      <4> QED BY <4>2
    <3> QED BY <3>1, <3>2
  <2> HIDE DEF new, Good
  <2> QED BY <1>2, <2>3, <2>5, <2>6
<1> QED BY <1>3, <1>4 DEF n

(***************************************************************************)
(* Asterisks only fit whatever is left.                                    *)
(***************************************************************************)
LEMMA OnlyAsterisks ==
    ASSUME NEW p \in String, NEW f \in String, NEW i \in 0..Len(p)
    PROVE  Fits(p, f, i, Len(f)) <=> \A k \in (i + 1)..Len(p) : p[k] = "*"
<1> DEFINE m == Len(p)
           n == Len(f)
<1>1. m \in Nat /\ n \in Nat /\ i \in 0..m
  BY LenProperties DEF String
<1>2. Fits(p, f, i, n) <=>
         \E cut \in [i..m -> n..n] :
            /\ cut[i] = n /\ cut[m] = n
            /\ \A k \in (i + 1)..m :
                  IF p[k] = "*" THEN cut[k] >= cut[k - 1]
                  ELSE cut[k] = cut[k - 1] + 1 /\ p[k] \in {"?", f[cut[k]]}
  BY DEF Fits
<1> HIDE DEF m, n
<1>3. ASSUME NEW cut \in [i..m -> n..n], NEW k \in (i + 1)..m
      PROVE  cut[k] = n /\ cut[k - 1] = n
  <2>1. k \in i..m /\ k - 1 \in i..m
    BY <1>1
  <2>2. cut[k] \in n..n /\ cut[k - 1] \in n..n
    BY <2>1
  <2> QED BY <1>1, <2>2
<1>4. ASSUME Fits(p, f, i, n), NEW k \in (i + 1)..m
      PROVE  p[k] = "*"
  <2>1. PICK cut \in [i..m -> n..n] :
           IF p[k] = "*" THEN cut[k] >= cut[k - 1]
           ELSE cut[k] = cut[k - 1] + 1 /\ p[k] \in {"?", f[cut[k]]}
    BY <1>2, <1>4
  <2>2. cut[k] = n /\ cut[k - 1] = n
    BY <1>3
  <2> QED BY <1>1, <2>1, <2>2
<1>5. ASSUME \A k \in (i + 1)..m : p[k] = "*"
      PROVE  Fits(p, f, i, n)
  <2> DEFINE cut == [k \in i..m |-> n]
  <2>1. cut \in [i..m -> n..n] /\ cut[i] = n /\ cut[m] = n
    BY <1>1
  <2> HIDE DEF cut
  <2>2. \A k \in (i + 1)..m : cut[k] >= cut[k - 1]
    BY <1>1, <1>3, <2>1
  <2> QED BY <1>2, <1>5, <2>1, <2>2
<1> QED BY <1>4, <1>5 DEF m, n

(***************************************************************************)
(* The search for a match, which tries the rests of the name one by one,   *)
(* finds one exactly when the asterisks can be filled.                     *)
(***************************************************************************)
LEMMA SearchIsFits ==
    ASSUME NEW p \in String, NEW f \in String
    PROVE  MatchWildcard(p, f) <=> Fits(p, f, 0, 0)
<1> DEFINE m == Len(p)
           n == Len(f)
           D == (0..m) \X (0..n)
           S == BOOLEAN
           AllFrom(i) == \A k \in (i + 1)..m : p[k] = "*"
           Value(d, g) == IF d[1] = m THEN d[2] = n
                          ELSE IF p[d[1] + 1] = "*"
                          THEN AllFrom(d[1]) \/ \E k \in d[2]..(n - 1) : g[<<d[1] + 1, k>>]
                          ELSE /\ d[2] < n /\ p[d[1] + 1] \in {"?", f[d[2] + 1]}
                               /\ g[<<d[1] + 1, d[2] + 1>>]
           mu == [d \in D |-> m - d[1]]
           G == [q \in D \X [D -> S] |-> Value(q[1], q[2])]
           Is(g) == g = [d \in D |-> Value(d, g)]
           match == CHOOSE g : Is(g)
           Good == {d \in D : match[d] <=> Fits(p, f, d[1], d[2])}
<1>1. m \in Nat /\ n \in Nat
  BY LenProperties DEF String
<1>2. MatchWildcard(p, f) <=> match[<<0, 0>>]
  BY DEF MatchWildcard
<1>3. ASSUME NEW d \in D
      PROVE  /\ d = <<d[1], d[2]>> /\ d[1] \in 0..m /\ d[2] \in 0..n
             /\ mu[d] \in Nat /\ mu[d] < m + 1
  <2>1. d = <<d[1], d[2]>> /\ d[1] \in 0..m /\ d[2] \in 0..n
    OBVIOUS
  <2>2. mu[d] = m - d[1]
    OBVIOUS
  <2> HIDE DEF mu
  <2> QED BY <1>1, <2>1, <2>2
<1>4. ASSUME NEW d \in D, d[1] # m, NEW k \in 0..n
      PROVE  <<d[1] + 1, k>> \in D /\ mu[<<d[1] + 1, k>>] < mu[d]
  <2>1. d[1] \in 0..m /\ d[1] + 1 \in 0..m
    BY <1>1, <1>3, <1>4
  <2>2. <<d[1] + 1, k>> \in D
    BY <2>1
  <2>3. mu[<<d[1] + 1, k>>] = m - (d[1] + 1) /\ mu[d] = m - d[1]
    BY <2>2
  <2> HIDE DEF mu, D
  <2> QED BY <1>1, <2>1, <2>2, <2>3
<1>5. mu \in [D -> Nat] /\ m + 1 \in Nat /\ \A d \in D : mu[d] < m + 1
  <2>1. \A d \in D : m - d[1] \in Nat
    BY <1>1
  <2>2. mu \in [D -> Nat]
    BY <2>1
  <2> QED BY <1>1, <1>3, <2>2
<1> HIDE DEF mu
<1>6. \A d, g : Value(d, g) \in S
  OBVIOUS
<1>7. G \in [D \X [D -> S] -> S]
  <2> HIDE DEF D, S, Value
  <2> QED BY <1>6
<1>8. Grounded(G, D, S, mu)
  <2> SUFFICES ASSUME NEW d \in D, NEW g \in [D -> S], NEW h \in [D -> S],
                      \A e \in D : mu[e] < mu[d] => g[e] = h[e]
               PROVE  G[<<d, g>>] = G[<<d, h>>]
    BY <1>7 DEF Grounded
  <2>1. G[<<d, g>>] = Value(d, g) /\ G[<<d, h>>] = Value(d, h)
    <3> HIDE DEF D, S, Value
    <3> QED OBVIOUS
  <2> HIDE DEF G
  <2>2. d[1] # m => \A k \in 0..n : g[<<d[1] + 1, k>>] = h[<<d[1] + 1, k>>]
    BY <1>4
  <2>3. d[2] \in 0..n
    BY <1>3
  <2> HIDE DEF D, S, AllFrom
  <2>4. \A k \in d[2]..(n - 1) : k \in 0..n
    BY <1>1, <2>3
  <2>5. d[2] < n => d[2] + 1 \in 0..n
    BY <1>1, <2>3
  <2>6. CASE d[1] = m
    BY <2>1, <2>6
  <2>7. CASE d[1] # m /\ p[d[1] + 1] = "*"
    <3>1. (\E k \in d[2]..(n - 1) : g[<<d[1] + 1, k>>])
          <=> \E k \in d[2]..(n - 1) : h[<<d[1] + 1, k>>]
      BY <2>2, <2>4, <2>7
    <3> QED BY <2>1, <2>7, <3>1
  <2>8. CASE d[1] # m /\ p[d[1] + 1] # "*"
    <3>1. d[2] < n => g[<<d[1] + 1, d[2] + 1>>] = h[<<d[1] + 1, d[2] + 1>>]
      BY <2>2, <2>5, <2>8
    <3> QED BY <2>1, <2>8, <3>1
  <2> QED BY <2>6, <2>7, <2>8
<1>9. Is(match)
  <2> DEFINE top == m + 1
  <2>1. FALSE \in S
    OBVIOUS
  <2>2. Measured(D, mu, top)
    BY <1>5 DEF Measured
  <2> HIDE DEF S, D, Value, top
  <2>3. PICK g : Solves(g, G, D, S)
    <3> HIDE DEF G
    <3> QED BY <1>8, <2>1, <2>2, Recursion
  <2>4. g \in [D -> S] /\ \A d \in D : g[d] = G[<<d, g>>]
    BY <2>3 DEF Solves
  <2>5. \A d \in D : g[d] = Value(d, g)
    BY <2>4
  <2>6. Is(g)
    BY <2>4, <2>5
  <2> HIDE DEF Is
  <2> QED BY <2>6
<1> HIDE DEF match, G
<1>10. \A d \in D : match[d] = Value(d, match)
  <2> HIDE DEF D, Value
  <2> QED BY <1>9
<1>11. ASSUME NEW d \in D, \A e \in D : mu[e] < mu[d] => e \in Good
       PROVE  d \in Good
  <2> DEFINE i == d[1]
             j == d[2]
  <2>1. i \in 0..m /\ j \in 0..n
    BY <1>3
  <2>2. match[d] = Value(d, match)
    BY <1>10
  <2>3. ASSUME i # m, NEW k \in 0..n
        PROVE  match[<<i + 1, k>>] <=> Fits(p, f, i + 1, k)
    <3>1. <<i + 1, k>> \in Good
      <4> HIDE DEF D, Good
      <4> QED BY <1>4, <1>11, <2>3
    <3> QED BY <3>1
  <2>4. i # m => (Fits(p, f, i, j) <=> \E c \in 0..n : Step(p, f, i, j, c) /\ Fits(p, f, i + 1, c))
    <3>1. i # m => i \in 0..(Len(p) - 1) /\ j \in 0..Len(f)
      BY <1>1, <2>1
    <3> HIDE DEF i, j
    <3> QED BY <3>1, FitsIsStep
  <2> SUFFICES match[d] <=> Fits(p, f, i, j)
    OBVIOUS
  <2>5. CASE i = m
    <3>1. match[d] <=> j = n
      BY <2>2, <2>5
    <3>2. \A l \in 0..n : Fits(p, f, m, l) <=> l = n
      BY FitsAtEnd
    <3> HIDE DEF D, Value, Good, i, j, m, n
    <3> QED BY <2>1, <2>5, <3>1, <3>2
  <2>6. CASE i # m /\ p[i + 1] = "*"
    <3>1. match[d] <=> AllFrom(i) \/ \E k \in j..(n - 1) : match[<<i + 1, k>>]
      BY <2>2, <2>6
    <3>2. AllFrom(i) <=> Fits(p, f, i + 1, n)
      <4>1. /\ i + 1 \in 0..Len(p) /\ i + 1 \in (i + 1)..m
            /\ \A k \in (i + 1)..m : k = i + 1 \/ k \in ((i + 1) + 1)..Len(p)
            /\ \A k \in ((i + 1) + 1)..Len(p) : k \in (i + 1)..m
        BY <1>1, <2>1, <2>6
      <4>2. Fits(p, f, i + 1, n) <=> \A k \in ((i + 1) + 1)..Len(p) : p[k] = "*"
        BY <4>1, OnlyAsterisks
      <4> HIDE DEF i
      <4> QED BY <2>6, <4>1, <4>2
    <3> HIDE DEF AllFrom, D, Value, i, j
    <3>3. (\E k \in j..(n - 1) : match[<<i + 1, k>>]) <=> \E k \in j..(n - 1) : Fits(p, f, i + 1, k)
      <4>1. \A k \in j..(n - 1) : k \in 0..n
        BY <1>1, <2>1
      <4> QED BY <2>3, <2>6, <4>1
    <3>4. Fits(p, f, i, j) <=> \E c \in 0..n : c >= j /\ Fits(p, f, i + 1, c)
      BY <2>4, <2>6 DEF Step
    <3>5. (\E c \in 0..n : c >= j /\ Fits(p, f, i + 1, c))
          <=> Fits(p, f, i + 1, n) \/ \E k \in j..(n - 1) : Fits(p, f, i + 1, k)
      <4>1. /\ n \in 0..n /\ n >= j
            /\ \A k \in j..(n - 1) : k \in 0..n /\ k >= j
            /\ \A c \in 0..n : c >= j => c = n \/ c \in j..(n - 1)
        BY <1>1, <2>1
      <4> HIDE DEF n
      <4> QED BY <4>1
    <3> QED BY <3>1, <3>2, <3>3, <3>4, <3>5
  <2>7. CASE i # m /\ p[i + 1] # "*"
    <3>1. match[d] <=> j < n /\ p[i + 1] \in {"?", f[j + 1]} /\ match[<<i + 1, j + 1>>]
      BY <2>2, <2>7
    <3> HIDE DEF D, Value, i, j
    <3>2. j < n <=> j + 1 \in 0..n
      BY <1>1, <2>1
    <3>3. j < n => (match[<<i + 1, j + 1>>] <=> Fits(p, f, i + 1, j + 1))
      BY <2>3, <2>7, <3>2
    <3>4. Fits(p, f, i, j) <=>
             \E c \in 0..n : (c = j + 1 /\ p[i + 1] \in {"?", f[c]}) /\ Fits(p, f, i + 1, c)
      BY <2>4, <2>7 DEF Step
    <3> HIDE DEF n
    <3>5. Fits(p, f, i, j) <=>
             j < n /\ p[i + 1] \in {"?", f[j + 1]} /\ Fits(p, f, i + 1, j + 1)
      BY <3>2, <3>4
    <3> QED BY <3>1, <3>3, <3>5
  <2> QED BY <2>5, <2>6, <2>7
<1>12. \A d \in D : d \in Good
  <2> HIDE DEF Good, D
  <2> QED BY <1>5, <1>11, ByMeasure
<1>13. <<0, 0>> \in Good
  <2>1. <<0, 0>> \in D
    BY <1>1
  <2> HIDE DEF Good, D
  <2> QED BY <1>12, <2>1
<1> QED BY <1>2, <1>13

(***************************************************************************)
(* For every pattern and every name: match_wildcard, which backtracks at   *)
(* each asterisk and only tries rests that are not empty, accepts the      *)
(* names that fill the pattern and no others.                              *)
(***************************************************************************)
THEOREM WildcardsMatch ==
    ASSUME NEW p \in String, NEW f \in String
    PROVE  MatchWildcard(p, f) <=> Matches(p, f)
<1>1. Len(p) \in Nat /\ DOMAIN p = 1..Len(p) /\ 0 + 1 = 1
  BY LenProperties DEF String
<1>2. Matches(p, f) <=> Fits(p, f, 0, 0)
  BY <1>1 DEF Matches, Fits
<1> QED BY <1>2, SearchIsFits

(***************************************************************************)
(* A set in some order has each of its elements once.                      *)
(***************************************************************************)
LEMMA SetToSeqOnce ==
    ASSUME NEW S, IsFiniteSet(S), NEW e
    PROVE  Count(SetToSeq(S), e) = IF e \in S THEN 1 ELSE 0
<1> DEFINE n == Cardinality(S)
           D == 1..n
           s == SetToSeq(S)
           Lists1 == {f \in [D -> S] : IsInjective(f)}
<1>1. n \in Nat /\ ExistsBijection(D, S) /\ IsFiniteSet(D) /\ Cardinality(D) = n
  BY FS_CardinalityType, FS_Interval
<1>2. Lists1 # {}
  BY <1>1 DEF ExistsBijection, Bijection, Injection
<1>3. s = CHOOSE f \in [D -> S] : IsInjective(f)
  BY DEF SetToSeq
<1>4. s \in [D -> S] /\ IsInjective(s)
  <2> HIDE DEF s, D
  <2> QED BY <1>2, <1>3
<1>5. s \in Injection(D, S)
  <2> HIDE DEF s, D
  <2> QED BY <1>4 DEF Injection
<1>6. s \in Surjection(D, S)
  <2> HIDE DEF s, D
  <2> QED BY <1>1, <1>5, FS_Injection DEF n
<1>7. /\ DOMAIN s = D /\ \A k \in D : s[k] \in S
      /\ \A a, b \in D : s[a] = s[b] => a = b
      /\ \A t \in S : \E k \in D : s[k] = t
  <2> HIDE DEF s, D
  <2> QED BY <1>4, <1>6 DEF IsInjective, Surjection
<1> HIDE DEF s, D
<1>8. CASE e \in S
  <2>1. PICK k \in D : s[k] = e
    BY <1>7, <1>8
  <2>2. Places(s, e) = {k}
    BY <1>7, <2>1 DEF Places
  <2>3. Cardinality({k}) = 1
    BY FS_Singleton
  <2> QED BY <1>8, <2>2, <2>3 DEF Count, s
<1>9. CASE e \notin S
  <2>1. Places(s, e) = {}
    BY <1>7, <1>9 DEF Places
  <2>2. Cardinality({}) = 0
    BY FS_EmptySet
  <2> QED BY <1>9, <2>1, <2>2 DEF Count, s
<1> QED BY <1>8, <1>9

\* The names that fill the pattern, hidden ones only for a pattern with a dot.
FilledBy(p, names) ==
    {f \in names : Matches(p, f) /\ (p[1] = "." \/ f = <<>> \/ f[1] # ".")}

(***************************************************************************)
(* For every directory: a pattern becomes the names that fill it, each     *)
(* once and in the order of strcmp; a pattern that no name fills stays as  *)
(* it is (expand_wildcard with the merge sort of the list).                *)
(***************************************************************************)
THEOREM WildcardNames ==
    ASSUME NEW p \in String, NEW names \in SUBSET String, IsFiniteSet(names)
    PROVE  IF FilledBy(p, names) = {} THEN ExpandWildcard(p, names) = <<p>>
           ELSE /\ Ordered(ExpandWildcard(p, names))
                /\ \A e : Count(ExpandWildcard(p, names), e) = IF e \in FilledBy(p, names) THEN 1 ELSE 0
<1> DEFINE found == {f \in names : Listed(p, f)}
<1>1. ASSUME NEW f \in names
      PROVE  Listed(p, f) <=> Matches(p, f) /\ (p[1] = "." \/ f = <<>> \/ f[1] # ".")
  <2>1. f \in String /\ f \in Seq(Char) /\ Len(f) \in Nat
    BY LenProperties DEF String
  <2>2. /\ Len(Take(f, 1)) = IF 1 <= Len(f) THEN 1 ELSE Len(f)
        /\ \A k \in 1..Len(Take(f, 1)) : Take(f, 1)[k] = f[k]
        /\ Take(f, 1) \in Seq(Char)
    BY <2>1, TakeIs
  <2>3. Take(f, 1) = <<".">> <=> f # <<>> /\ f[1] = "."
    <3> DEFINE t == Take(f, 1)
    <3> HIDE DEF t
    <3>1. CASE f = <<>>
      <4>1. Len(t) = 0
        BY <2>1, <2>2, <3>1, EmptySeq DEF t
      <4> QED BY <3>1, <4>1 DEF t
    <3>2. CASE f # <<>>
      <4>1. 1 <= Len(f)
        BY <2>1, <3>2, EmptySeq
      <4>2. Len(t) = 1 /\ t[1] = f[1] /\ t \in Seq(Char)
        BY <2>2, <4>1 DEF t
      <4>3. t = <<t[1]>>
        BY <4>2
      <4> QED BY <3>2, <4>2, <4>3 DEF t
    <3> QED BY <3>1, <3>2
  <2>4. MatchWildcard(p, f) <=> Matches(p, f)
    BY <2>1, WildcardsMatch
  <2> QED BY <2>3, <2>4 DEF Listed
<1>2. found = FilledBy(p, names)
  BY <1>1 DEF FilledBy
<1>3. ExpandWildcard(p, names) = IF found = {} THEN <<p>> ELSE MergeSort(SetToSeq(found))
  BY DEF ExpandWildcard
<1>4. IsFiniteSet(found) /\ found \subseteq String
  BY FS_Subset
<1> HIDE DEF found
<1>5. SetToSeq(found) \in Seq(String)
  BY <1>4, SetToSeqType, SeqMonotonic
<1>6. /\ Ordered(MergeSort(SetToSeq(found)))
      /\ \A e : Count(MergeSort(SetToSeq(found)), e) = Count(SetToSeq(found), e)
  BY <1>5, MergeSortIs
<1>7. \A e : Count(SetToSeq(found), e) = IF e \in found THEN 1 ELSE 0
  BY <1>4, SetToSeqOnce
<1> QED BY <1>2, <1>3, <1>6, <1>7

=============================================================================
