-------------------------- MODULE DomainListProofs --------------------------
(***************************************************************************)
(* For every set of domains, every number of runs of the program and every *)
(* number of files: as long as runs do not get in each other's way in the  *)
(* manner each theorem names, the list has no duplicates, a removal        *)
(* installs what it has read, and the files implement the set of domains.  *)
(***************************************************************************)
EXTENDS DomainList, OrderingProofs

(***************************************************************************)
(* The inductive invariant.  The inode of domains_tmp.txt is never the one *)
(* of domains.txt nor one that a run has open as such, a new inode is      *)
(* empty, and a run that has come so far has its files open.               *)
(***************************************************************************)
Steps == Adding \cup Removing \cup Resetting \cup {"idle"}

Types ==
    /\ used \in 1..MaxInodes /\ domains \in 0..used /\ tmp \in 0..used
    /\ data \in [1..MaxInodes -> Seq(Domains)]
    /\ pc \in [Runs -> Steps] /\ arg \in [Runs -> Domains]
    /\ fd \in [Runs -> 0..used] /\ tfd \in [Runs -> 0..used]
    /\ buf \in [Runs -> Seq(Domains)]

NewOnesEmpty == \A f \in 1..MaxInodes : f > used => data[f] = << >>

TmpApart == tmp # 0 => tmp # domains /\ \A p \in Runs : fd[p] # tmp

Open ==
    \A p \in Runs :
        /\ pc[p] \in {"write", "opentmp", "read", "flush", "rename"} => fd[p] # 0
        /\ pc[p] \in {"read", "flush", "rename"} => tfd[p] # 0

FilesInv == Types /\ NewOnesEmpty /\ TmpApart /\ Open

(***************************************************************************)
(* While removals have not overlapped, the one under way has emptied       *)
(* domains_tmp.txt and nobody else touches it until the rename.            *)
(***************************************************************************)
OneRemoval ==
    single => \A p, q \in Runs : pc[p] \in Removing /\ pc[q] \in Removing => p = q

OwnTmp ==
    single => \A p \in Runs :
        /\ pc[p] \in {"read", "flush", "rename"} => tfd[p] = tmp
        /\ pc[p] \in {"read", "flush"} => data[tfd[p]] = << >>
        /\ pc[p] = "rename" => data[tfd[p]] = buf[p]

CalmIsSingle == calm \in BOOLEAN /\ (calm => single)

SnapshotInv == FilesInv /\ OneRemoval /\ CalmIsSingle /\ OwnTmp

(***************************************************************************)
(* While only additions have overlapped, the list under one's feet stays:  *)
(* what is appended to is the list, and what is renamed is the list but    *)
(* for the domain that is removed.                                         *)
(***************************************************************************)
OnlyAdditions ==
    calm => \A p, q \in Runs :
        p # q /\ pc[p] # "idle" /\ pc[q] # "idle" => pc[p] \in Adding /\ pc[q] \in Adding

Sound(p) ==
    /\ pc[p] = "append" => domains # 0
    /\ pc[p] \in {"write", "opentmp", "read", "flush", "rename"} => fd[p] = domains
    /\ pc[p] \in {"flush", "rename"} => ToSet(buf[p]) = Listed \ {arg[p]}
    /\ pc[p] = "touch" => domains = 0

Undisturbed == calm => \A p \in Runs : Sound(p)

SetInv == SnapshotInv /\ OnlyAdditions /\ Undisturbed

(***************************************************************************)
(* While no two runs have overlapped, lists without duplicates lead to     *)
(* lists without duplicates.                                               *)
(***************************************************************************)
Once(f) == \A m, n \in 1..Len(f) : f[m] = f[n] => m = n

OnlyOne ==
    alone => calm /\ \A p, q \in Runs : pc[p] # "idle" /\ pc[q] # "idle" => p = q

ListOnce == domains # 0 => Once(data[domains])

RunOnce(p) ==
    /\ pc[p] \in {"append", "write"} => arg[p] \notin Listed
    /\ pc[p] \in {"flush", "rename"} => Once(buf[p])

OnceInv == OnlyOne /\ (alone => ListOnce /\ \A p \in Runs : RunOnce(p))

----------------------------------------------------------------------------
(* The lines of files. *)

LEMMA WithoutLines ==
    ASSUME NEW f \in Seq(Domains), NEW d
    PROVE  /\ Without(f, d) \in Seq(Domains)
           /\ ToSet(Without(f, d)) = ToSet(f) \ {d}
           /\ Once(f) => Once(Without(f, d))
<1> DEFINE I == {i \in DOMAIN f : f[i] # d}
           w == Pick(f, InOrder(I, Less(I)))
<1>1. /\ I \in SUBSET DOMAIN f /\ DOMAIN f = 1..Len(f) /\ Len(f) \in Nat
      /\ I \in SUBSET Nat
  BY LenProperties
<1>2. Without(f, d) = w
  BY DEF Without, At
<1>3. /\ w \in Seq(Domains) /\ Elements(w, DOMAIN w) = Elements(f, I)
      /\ (\A i, j \in I : f[i] = f[j] => i = j) =>
            \A m, n \in 1..Len(w) : w[m] = w[n] => m = n
  <2> DEFINE R == Less(I)
             v == Pick(f, InOrder(I, R))
  <2> HIDE DEF I
  <2>1. StrictOrder(R, I) /\ I \in SUBSET DOMAIN f
    BY <1>1, LessIsStrictOrder
  <2>2. w = v
    OBVIOUS
  <2> HIDE DEF R, w
  <2>3. /\ v \in Seq(Domains)
        /\ Len(v) = Cardinality(I)
        /\ Elements(v, DOMAIN v) = Elements(f, I)
        /\ (\A i, j \in I : f[i] = f[j] => i = j) =>
              \A m, n \in 1..Len(v) : v[m] = v[n] => m = n
    BY <2>1, PickTakesAll
  <2> HIDE DEF v
  <2> QED BY <2>2, <2>3
<1> HIDE DEF w
<1>4. Elements(f, I) = ToSet(f) \ {d} /\ Elements(w, DOMAIN w) = ToSet(w)
  BY DEF ToSet, Elements
<1>5. Once(f) => Once(w)
  BY <1>1, <1>3 DEF Once
<1> QED BY <1>2, <1>3, <1>4, <1>5

LEMMA OverlayLines ==
    ASSUME NEW f \in Seq(Domains), NEW s \in Seq(Domains)
    PROVE  Overlay(f, s) \in Seq(Domains) /\ (f = << >> => Overlay(f, s) = s)
<1> DEFINE m == Len(s) + 1
           n == Len(f)
<1>1. m \in Int /\ n \in Int /\ m > 0
  BY LenProperties
<1>2. \A i \in m..n : f[i] \in Domains
  <2>1. \A i \in m..n : i \in 1..n
    <3> HIDE DEF m, n
    <3> QED BY <1>1
  <2> QED BY <2>1, ElementOfSeq
<1>3. SubSeq(f, m, n) \in Seq(Domains)
  <2> HIDE DEF m, n
  <2> QED BY <1>1, <1>2, SubSeqProperties
<1>4. Overlay(f, s) \in Seq(Domains)
  BY <1>3, ConcatProperties DEF Overlay
<1>5. ASSUME f = << >>
      PROVE  Overlay(f, s) = s
  <2>1. n = 0
    BY <1>5
  <2>2. SubSeq(f, m, n) = << >>
    <3> HIDE DEF m, n
    <3> QED BY <1>1, <2>1, SubSeqEmpty
  <2> QED BY <2>2, ConcatEmptySeq DEF Overlay
<1> QED BY <1>4, <1>5

LEMMA AppendLine ==
    ASSUME NEW f \in Seq(Domains), NEW d \in Domains
    PROVE  /\ Append(f, d) \in Seq(Domains)
           /\ ToSet(Append(f, d)) = ToSet(f) \cup {d}
           /\ Once(f) /\ d \notin ToSet(f) => Once(Append(f, d))
<1> DEFINE h == Append(f, d)
<1>1. /\ Len(f) \in Nat /\ DOMAIN f = 1..Len(f)
      /\ h \in Seq(Domains) /\ DOMAIN h = 1..(Len(f) + 1) /\ Len(h) = Len(f) + 1
      /\ \A i \in 1..Len(f) : h[i] = f[i]
      /\ h[Len(f) + 1] = d
  BY LenProperties, AppendProperties
<1> HIDE DEF h
<1>2. \A i \in DOMAIN h : i \in DOMAIN f \/ i = Len(f) + 1
  BY <1>1
<1>3. ToSet(h) \subseteq ToSet(f) \cup {d}
  BY <1>1, <1>2 DEF ToSet
<1>4. \A i \in DOMAIN f : i \in DOMAIN h /\ h[i] = f[i]
  BY <1>1
<1>5. Len(f) + 1 \in DOMAIN h /\ h[Len(f) + 1] = d
  BY <1>1
<1>6. ToSet(f) \cup {d} \subseteq ToSet(h)
  BY <1>4, <1>5 DEF ToSet
<1>7. ASSUME Once(f), d \notin ToSet(f), NEW i \in 1..Len(h), NEW j \in 1..Len(h), h[i] = h[j]
      PROVE  i = j
  <2>1. \A l \in DOMAIN f : f[l] # d
    BY <1>7 DEF ToSet
  <2> QED BY <1>1, <1>2, <1>7, <2>1 DEF Once
<1> QED BY <1>1, <1>3, <1>6, <1>7 DEF Once, h

LEMMA EmptyLines == << >> \in Seq(Domains) /\ ToSet(<< >>) = {} /\ Once(<< >>)
  BY DEF ToSet, Once

----------------------------------------------------------------------------
(* The files. *)

LEMMA StepCases ==
    ASSUME [Next]_vars
    PROVE  \/ UNCHANGED vars
           \/ \E p \in Runs, d \in Domains, first \in {"check", "open", "clear"} :
                 Start(p, d, first)
           \/ \E p \in Runs : \/ Check(p) \/ CheckFindsNoFile(p)
                              \/ AppendOpens(p) \/ AppendWrites(p)
                              \/ RemoveOpens(p) \/ RemoveFindsNoFile(p) \/ RemoveOpensTmp(p)
                              \/ RemoveReads(p) \/ RemoveFlushes(p) \/ RemoveRenames(p)
                              \/ ResetRemoves(p) \/ ResetStops(p) \/ ResetTouches(p)
                              \/ Killed(p)
BY DEF Next, StartAdd, StartRemove, StartReset, AddSteps, RemoveSteps, ResetSteps

\* Steps that open, read and write nothing.
Idle(p) ==
    \/ Check(p) \/ CheckFindsNoFile(p) \/ RemoveFindsNoFile(p)
    \/ ResetStops(p) \/ Killed(p)

LEMMA IdleSteps ==
    ASSUME NEW p \in Runs, Idle(p), FilesInv
    PROVE  /\ UNCHANGED <<files, locals, history, starts>>
           /\ \/ pc' = [pc EXCEPT ![p] = "idle"]
              \/ /\ Check(p) /\ pc[p] = "check" /\ arg[p] \notin Listed /\ domains # 0
                 /\ pc' = [pc EXCEPT ![p] = "append"]
<1>1. CASE Check(p)
  <2>1. CASE arg[p] \in ToSet(data[domains])
    BY <1>1, <2>1 DEF Check, Goto
  <2>2. CASE arg[p] \notin ToSet(data[domains])
    BY <1>1, <2>2 DEF Check, Goto, Listed
  <2> QED BY <2>1, <2>2
<1>2. CASE ~Check(p)
  BY <1>2 DEF Idle, CheckFindsNoFile, RemoveFindsNoFile, ResetStops, Killed, Goto
<1> QED BY <1>1, <1>2

LEMMA FilesStep == FilesInv /\ [Next]_vars => FilesInv'
<1> SUFFICES ASSUME FilesInv, [Next]_vars
             PROVE  FilesInv'
  OBVIOUS
<1> USE InodesAssumption
    DEF FilesInv, Steps, Adding, Removing, Resetting, Goto, files, locals, history
<1>1. CASE UNCHANGED vars
  BY <1>1 DEF vars, Types, NewOnesEmpty, TmpApart, Open
<1>2. ASSUME NEW p \in Runs, NEW d \in Domains, NEW first \in {"check", "open", "clear"},
             Start(p, d, first)
      PROVE  FilesInv'
  <2>1. << >> \in Seq(Domains)
    OBVIOUS
  <2>a. Types'
    <3>1. used' \in 1..MaxInodes /\ domains' \in 0..used' /\ tmp' \in 0..used'
      BY <1>2, <2>1 DEF Start, Types
    <3>2. data' \in [1..MaxInodes -> Seq(Domains)]
      BY <1>2, <2>1 DEF Start, Types
    <3>3. pc' \in [Runs -> Steps] /\ arg' \in [Runs -> Domains]
      BY <1>2, <2>1 DEF Start, Types
    <3>4. fd' \in [Runs -> 0..used'] /\ tfd' \in [Runs -> 0..used']
      <4>1. used' = used /\ fd \in [Runs -> 0..used] /\ tfd \in [Runs -> 0..used]
        BY <1>2 DEF Start, Types
      <4>2. fd' = [fd EXCEPT ![p] = 0] /\ tfd' = [tfd EXCEPT ![p] = 0] /\ used \in Nat
        BY <1>2 DEF Start, Types
      <4> QED BY <4>1, <4>2
    <3>5. buf' \in [Runs -> Seq(Domains)]
      BY <1>2, <2>1 DEF Start, Types
    <3> QED BY <3>1, <3>2, <3>3, <3>4, <3>5 DEF Types
  <2>b. NewOnesEmpty'
    BY <1>2, <2>1 DEF Start, Types, NewOnesEmpty
  <2>c. TmpApart'
    BY <1>2, <2>1 DEF Start, Types, TmpApart
  <2>d. Open'
    BY <1>2, <2>1 DEF Start, Types, Open
  <2> QED BY <2>a, <2>b, <2>c, <2>d
<1>3. ASSUME NEW p \in Runs, Idle(p)
      PROVE  FilesInv'
  <2>a. Types'
    BY <1>3, IdleSteps DEF files, Types
  <2>b. NewOnesEmpty'
    BY <1>3, IdleSteps DEF files, Types, NewOnesEmpty
  <2>c. TmpApart'
    BY <1>3, IdleSteps DEF files, Types, TmpApart
  <2>d. Open'
    BY <1>3, IdleSteps DEF files, Types, Open
  <2> QED BY <2>a, <2>b, <2>c, <2>d
<1>4. ASSUME NEW p \in Runs, AppendOpens(p)
      PROVE  FilesInv'
  <2>a. Types'
    BY <1>4, SMTT(20) DEF AppendOpens, Types
  <2>b. NewOnesEmpty'
    BY <1>4 DEF AppendOpens, Types, NewOnesEmpty
  <2>c. TmpApart'
    BY <1>4 DEF AppendOpens, Types, TmpApart
  <2>d. Open'
    BY <1>4 DEF AppendOpens, Types, Open
  <2> QED BY <2>a, <2>b, <2>c, <2>d
<1>5. ASSUME NEW p \in Runs, AppendWrites(p)
      PROVE  FilesInv'
  <2>1. Append(data[fd[p]], arg[p]) \in Seq(Domains) /\ fd[p] \in 1..used
    BY <1>5, AppendLine DEF AppendWrites, Types, Open
  <2>a. Types'
    BY <1>5, <2>1 DEF AppendWrites, Types
  <2>b. NewOnesEmpty'
    BY <1>5, <2>1 DEF AppendWrites, Types, NewOnesEmpty
  <2>c. TmpApart'
    BY <1>5, <2>1 DEF AppendWrites, Types, TmpApart
  <2>d. Open'
    BY <1>5, <2>1 DEF AppendWrites, Types, Open
  <2> QED BY <2>a, <2>b, <2>c, <2>d
<1>6. ASSUME NEW p \in Runs, RemoveOpens(p)
      PROVE  FilesInv'
  <2>a. Types'
    BY <1>6 DEF RemoveOpens, Types
  <2>b. NewOnesEmpty'
    BY <1>6 DEF RemoveOpens, Types, NewOnesEmpty
  <2>c. TmpApart'
    BY <1>6 DEF RemoveOpens, Types, TmpApart
  <2>d. Open'
    BY <1>6 DEF RemoveOpens, Types, Open
  <2> QED BY <2>a, <2>b, <2>c, <2>d
<1>7. ASSUME NEW p \in Runs, RemoveOpensTmp(p)
      PROVE  FilesInv'
  <2>1. << >> \in Seq(Domains)
    OBVIOUS
  <2>2. CASE tmp # 0
    <3>a. Types'
      BY <1>7, <2>1, <2>2 DEF RemoveOpensTmp, Types
    <3>b. NewOnesEmpty'
      BY <1>7, <2>1, <2>2 DEF RemoveOpensTmp, Types, NewOnesEmpty
    <3>c. TmpApart'
      BY <1>7, <2>1, <2>2 DEF RemoveOpensTmp, Types, TmpApart
    <3>d. Open'
      BY <1>7, <2>1, <2>2 DEF RemoveOpensTmp, Types, Open
    <3> QED BY <3>a, <3>b, <3>c, <3>d
  <2>3. CASE tmp = 0
    <3>a. Types'
      <4>1. used' \in 1..MaxInodes /\ domains' \in 0..used' /\ tmp' \in 0..used'
        BY <1>7, <2>3 DEF RemoveOpensTmp, Types
      <4>2. data' \in [1..MaxInodes -> Seq(Domains)]
        BY <1>7, <2>3 DEF RemoveOpensTmp, Types
      <4>3. pc' \in [Runs -> Steps] /\ arg' \in [Runs -> Domains]
        BY <1>7, <2>3 DEF RemoveOpensTmp, Types
      <4>4. fd' \in [Runs -> 0..used'] /\ tfd' \in [Runs -> 0..used']
        <5>1. fd' = fd /\ tfd' = [tfd EXCEPT ![p] = used'] /\ used' = used + 1
          BY <1>7, <2>3 DEF RemoveOpensTmp
        <5>2. used' \in 0..used' /\ \A n \in 0..used : n \in 0..used'
          BY <5>1 DEF Types
        <5>3. fd \in [Runs -> 0..used] /\ tfd \in [Runs -> 0..used]
          BY DEF Types
        <5> QED BY <5>1, <5>2, <5>3
      <4>5. buf' \in [Runs -> Seq(Domains)]
        BY <1>7, <2>3 DEF RemoveOpensTmp, Types
      <4> QED BY <4>1, <4>2, <4>3, <4>4, <4>5 DEF Types
    <3>b. NewOnesEmpty'
      BY <1>7, <2>3 DEF RemoveOpensTmp, Types, NewOnesEmpty
    <3>c. TmpApart'
      BY <1>7, <2>3 DEF RemoveOpensTmp, Types, TmpApart
    <3>d. Open'
      BY <1>7, <2>3 DEF RemoveOpensTmp, Types, Open
    <3> QED BY <3>a, <3>b, <3>c, <3>d
  <2> QED BY <2>2, <2>3
<1>8. ASSUME NEW p \in Runs, RemoveReads(p)
      PROVE  FilesInv'
  <2>1. data[fd[p]] \in Seq(Domains)
    BY <1>8 DEF RemoveReads, Types, Open
  <2>2. Without(data[fd[p]], arg[p]) \in Seq(Domains)
    BY <2>1, WithoutLines
  <2>a. Types'
    BY <1>8, <2>2 DEF RemoveReads, Types
  <2>b. NewOnesEmpty'
    BY <1>8, <2>2 DEF RemoveReads, Types, NewOnesEmpty
  <2>c. TmpApart'
    BY <1>8, <2>2 DEF RemoveReads, Types, TmpApart
  <2>d. Open'
    BY <1>8, <2>2 DEF RemoveReads, Types, Open
  <2> QED BY <2>a, <2>b, <2>c, <2>d
<1>9. ASSUME NEW p \in Runs, RemoveFlushes(p)
      PROVE  FilesInv'
  <2>1. data[tfd[p]] \in Seq(Domains) /\ buf[p] \in Seq(Domains) /\ tfd[p] \in 1..used
    BY <1>9 DEF RemoveFlushes, Types, Open
  <2>2. Overlay(data[tfd[p]], buf[p]) \in Seq(Domains)
    BY <2>1, OverlayLines
  <2>a. Types'
    BY <1>9, <2>1, <2>2 DEF RemoveFlushes, Types
  <2>b. NewOnesEmpty'
    BY <1>9, <2>1, <2>2 DEF RemoveFlushes, Types, NewOnesEmpty
  <2>c. TmpApart'
    BY <1>9, <2>1, <2>2 DEF RemoveFlushes, Types, TmpApart
  <2>d. Open'
    BY <1>9, <2>1, <2>2 DEF RemoveFlushes, Types, Open
  <2> QED BY <2>a, <2>b, <2>c, <2>d
<1>10. ASSUME NEW p \in Runs, RemoveRenames(p)
       PROVE  FilesInv'
  <2>a. Types'
    BY <1>10 DEF RemoveRenames, Types
  <2>b. NewOnesEmpty'
    BY <1>10 DEF RemoveRenames, Types, NewOnesEmpty
  <2>c. TmpApart'
    BY <1>10 DEF RemoveRenames, Types, TmpApart
  <2>d. Open'
    BY <1>10 DEF RemoveRenames, Types, Open
  <2> QED BY <2>a, <2>b, <2>c, <2>d
<1>11. ASSUME NEW p \in Runs, ResetRemoves(p) \/ ResetTouches(p)
       PROVE  FilesInv'
  <2>a. Types'
    <3>1. used' \in 1..MaxInodes /\ domains' \in 0..used' /\ tmp' \in 0..used'
      BY <1>11 DEF ResetRemoves, ResetTouches, Types
    <3>2. data' \in [1..MaxInodes -> Seq(Domains)]
      BY <1>11 DEF ResetRemoves, ResetTouches, Types
    <3>3. pc' \in [Runs -> Steps] /\ arg' \in [Runs -> Domains]
      BY <1>11 DEF ResetRemoves, ResetTouches, Types
    <3>4. fd' \in [Runs -> 0..used'] /\ tfd' \in [Runs -> 0..used']
      BY <1>11 DEF ResetRemoves, ResetTouches, Types
    <3>5. buf' \in [Runs -> Seq(Domains)]
      BY <1>11 DEF ResetRemoves, ResetTouches, Types
    <3> QED BY <3>1, <3>2, <3>3, <3>4, <3>5 DEF Types
  <2>b. NewOnesEmpty'
    BY <1>11 DEF ResetRemoves, ResetTouches, Types, NewOnesEmpty
  <2>c. TmpApart'
    BY <1>11 DEF ResetRemoves, ResetTouches, Types, TmpApart
  <2>d. Open'
    BY <1>11 DEF ResetRemoves, ResetTouches, Types, Open
  <2> QED BY <2>a, <2>b, <2>c, <2>d
<1> QED BY <1>1, <1>2, <1>3, <1>4, <1>5, <1>6, <1>7, <1>8, <1>9, <1>10, <1>11, StepCases
        DEF Idle

THEOREM FilesInvariant == Spec => []FilesInv
<1>1. Init => FilesInv
  <2> SUFFICES ASSUME Init
               PROVE  FilesInv
    OBVIOUS
  <2>1. << >> \in Seq(Domains) /\ \A d \in Domains : <<d>> \in Seq(Domains)
    OBVIOUS
  <2>2. data \in [1..MaxInodes -> Seq(Domains)]
    <3>1. data \in [1..MaxInodes -> {<< >>} \cup {<<d>> : d \in Domains}]
      BY DEF Init
    <3>2. \A f \in 1..MaxInodes : data[f] \in Seq(Domains)
      BY <2>1, <3>1
    <3> QED BY <3>1, <3>2
  <2>3. 1 \in 1..MaxInodes
    BY InodesAssumption
  <2>4. Types
    BY <2>1, <2>2, <2>3 DEF Init, Types, Steps
  <2>5. NewOnesEmpty /\ TmpApart /\ Open
    BY DEF Init, NewOnesEmpty, TmpApart, Open
  <2> QED BY <2>4, <2>5 DEF FilesInv
<1> QED BY <1>1, FilesStep, PTL DEF Spec

----------------------------------------------------------------------------
(* The removal under way. *)

LEMMA OneRemovalStep == FilesInv /\ OneRemoval /\ [Next]_vars => OneRemoval'
<1> SUFFICES ASSUME FilesInv, OneRemoval, [Next]_vars
             PROVE  OneRemoval'
  OBVIOUS
<1> USE DEF FilesInv, Types, OneRemoval, Goto, Removing, files, locals, history
<1>1. CASE UNCHANGED vars
  BY <1>1 DEF vars
<1>2. ASSUME NEW p \in Runs, NEW d \in Domains, NEW first \in {"check", "open", "clear"},
             Start(p, d, first)
      PROVE  OneRemoval'
  BY <1>2 DEF Start
<1>3. ASSUME NEW p \in Runs, Idle(p)
      PROVE  OneRemoval'
  <2>1. UNCHANGED <<files, locals, history, starts>>
    BY <1>3, IdleSteps
  <2>2. pc' = [pc EXCEPT ![p] = "idle"] \/ pc' = [pc EXCEPT ![p] = "append"]
    BY <1>3, IdleSteps
  <2>3. \A q \in Runs : pc'[q] \in Removing => pc[q] = pc'[q]
    BY <2>2
  <2> QED BY <2>1, <2>3
<1>4. ASSUME NEW p \in Runs, AppendOpens(p) \/ AppendWrites(p)
      PROVE  OneRemoval'
  <2>1. UNCHANGED history
    BY <1>4 DEF AppendOpens, AppendWrites
  <2>2. \A q \in Runs : pc'[q] \in Removing => pc[q] = pc'[q]
    BY <1>4 DEF AppendOpens, AppendWrites
  <2> QED BY <2>1, <2>2
<1>5. ASSUME NEW p \in Runs,
             \/ RemoveOpens(p) \/ RemoveOpensTmp(p)
             \/ RemoveReads(p) \/ RemoveFlushes(p) \/ RemoveRenames(p)
      PROVE  OneRemoval'
  <2>1. /\ pc[p] \in Removing /\ single' = single
        /\ \A q \in Runs : q # p => pc'[q] = pc[q]
    BY <1>5 DEF RemoveOpens, RemoveOpensTmp, RemoveReads, RemoveFlushes, RemoveRenames
  <2> QED BY <2>1
<1>6. ASSUME NEW p \in Runs, ResetRemoves(p) \/ ResetTouches(p)
      PROVE  OneRemoval'
  BY <1>6 DEF ResetRemoves, ResetTouches
<1> QED BY <1>1, <1>2, <1>3, <1>4, <1>5, <1>6, StepCases DEF Idle

LEMMA CalmIsSingleStep == CalmIsSingle /\ [Next]_vars => CalmIsSingle'
<1> SUFFICES ASSUME CalmIsSingle, [Next]_vars
             PROVE  CalmIsSingle'
  OBVIOUS
<1> USE DEF CalmIsSingle
<1>1. ASSUME NEW p \in Runs, NEW d \in Domains, NEW first \in {"check", "open", "clear"},
             Start(p, d, first)
      PROVE  CalmIsSingle'
  BY <1>1 DEF Start, Removing, Adding
<1>2. CASE UNCHANGED <<calm, single>>
  BY <1>2
<1>3. ASSUME NEW p \in Runs,
             \/ Idle(p) \/ AppendOpens(p) \/ AppendWrites(p)
             \/ RemoveOpens(p) \/ RemoveOpensTmp(p)
             \/ RemoveReads(p) \/ RemoveFlushes(p) \/ RemoveRenames(p)
             \/ ResetRemoves(p) \/ ResetTouches(p)
      PROVE  UNCHANGED history
  BY <1>3 DEF Idle, Check, CheckFindsNoFile, RemoveFindsNoFile, ResetStops, Killed,
              AppendOpens, AppendWrites, RemoveOpens, RemoveOpensTmp, RemoveReads,
              RemoveFlushes, RemoveRenames, ResetRemoves, ResetTouches, history
<1>4. CASE UNCHANGED vars
  BY <1>2, <1>4 DEF vars
<1> QED BY <1>1, <1>2, <1>3, <1>4, StepCases DEF Idle, history

LEMMA OwnTmpStep == SnapshotInv /\ [Next]_vars => OwnTmp'
<1> SUFFICES ASSUME SnapshotInv, [Next]_vars
             PROVE  OwnTmp'
  OBVIOUS
<1>t. Types /\ NewOnesEmpty /\ TmpApart /\ Open /\ OneRemoval /\ OwnTmp
  BY DEF SnapshotInv, FilesInv
<1>o. ASSUME NEW p \in Runs, pc[p] \in Removing, single, NEW q \in Runs, q # p
      PROVE  pc[q] \notin {"read", "flush", "rename"}
  BY <1>t, <1>o DEF OneRemoval, Removing
<1> USE DEF OwnTmp, Goto, files, locals, history
<1>1. CASE UNCHANGED vars
  BY <1>t, <1>1 DEF vars
<1>2. ASSUME NEW p \in Runs, NEW d \in Domains, NEW first \in {"check", "open", "clear"},
             Start(p, d, first)
      PROVE  OwnTmp'
  BY <1>t, <1>2 DEF Start, Types
<1>3. ASSUME NEW p \in Runs, Idle(p)
      PROVE  OwnTmp'
  BY <1>t, <1>3, IdleSteps DEF FilesInv, Types
<1>4. ASSUME NEW p \in Runs, AppendOpens(p)
      PROVE  OwnTmp'
  BY <1>t, <1>4 DEF AppendOpens, Types
<1>5. ASSUME NEW p \in Runs, AppendWrites(p)
      PROVE  OwnTmp'
  <2>1. ASSUME NEW q \in Runs, pc'[q] \in {"read", "flush", "rename"}, single
        PROVE  q # p /\ pc[q] = pc'[q] /\ tfd[q] = tmp /\ data'[tfd[q]] = data[tfd[q]]
    <3>1. q # p /\ pc[q] = pc'[q]
      BY <1>t, <1>5, <2>1 DEF AppendWrites, Types
    <3>2. tfd[q] = tmp /\ tfd[q] # 0 /\ fd[p] # tmp
      BY <1>t, <2>1, <3>1 DEF Open, TmpApart
    <3> QED BY <1>t, <1>5, <3>1, <3>2 DEF AppendWrites, Types
  <2>2. UNCHANGED <<tmp, tfd, buf, single>>
    BY <1>5 DEF AppendWrites
  <2> QED BY <1>t, <2>1, <2>2
<1>6. ASSUME NEW p \in Runs, RemoveOpens(p)
      PROVE  OwnTmp'
  BY <1>t, <1>6 DEF RemoveOpens, Types
<1>7. ASSUME NEW p \in Runs, RemoveOpensTmp(p)
      PROVE  OwnTmp'
  <2>1. tfd'[p] = tmp' /\ data'[tmp'] = << >> /\ pc'[p] = "read" /\ UNCHANGED single
    <3>1. CASE tmp # 0
      <4>1. /\ data' = [data EXCEPT ![tmp] = << >>] /\ tmp' = tmp
            /\ tfd' = [tfd EXCEPT ![p] = tmp] /\ pc' = [pc EXCEPT ![p] = "read"]
            /\ UNCHANGED single
        BY <1>7, <3>1 DEF RemoveOpensTmp
      <4>2. tmp \in DOMAIN data
        <5>1. used \in 1..MaxInodes /\ tmp \in 0..used /\ DOMAIN data = 1..MaxInodes
          BY <1>t DEF Types
        <5>2. tmp \in 1..MaxInodes
          BY <3>1, <5>1, InodesAssumption
        <5> QED BY <5>1, <5>2
      <4> QED BY <1>t, <4>1, <4>2 DEF Types
    <3>2. CASE tmp = 0
      <4>1. /\ data' = data /\ tmp' = used + 1 /\ used < MaxInodes
            /\ tfd' = [tfd EXCEPT ![p] = tmp'] /\ pc' = [pc EXCEPT ![p] = "read"]
            /\ UNCHANGED single
        BY <1>7, <3>2 DEF RemoveOpensTmp
      <4>2. used + 1 \in 1..MaxInodes /\ used + 1 > used
        BY <1>t, <4>1, InodesAssumption DEF Types
      <4> QED BY <1>t, <4>1, <4>2 DEF Types, NewOnesEmpty
    <3> QED BY <3>1, <3>2
  <2>2. ASSUME single, NEW q \in Runs, q # p
        PROVE  pc'[q] \notin {"read", "flush", "rename"}
    <3>1. pc[p] \in Removing /\ pc'[q] = pc[q]
      BY <1>t, <1>7, <2>2 DEF RemoveOpensTmp, Removing, Types
    <3> QED BY <1>o, <2>2, <3>1
  <2> QED BY <2>1, <2>2
<1>8. ASSUME NEW p \in Runs, RemoveReads(p)
      PROVE  OwnTmp'
  <2>1. UNCHANGED <<tmp, tfd, data, single>> /\ pc[p] = "read" /\ pc'[p] = "flush"
    BY <1>t, <1>8 DEF RemoveReads, Types
  <2>2. ASSUME single, NEW q \in Runs, q # p
        PROVE  pc'[q] \notin {"read", "flush", "rename"}
    <3>1. pc[p] \in Removing /\ pc'[q] = pc[q]
      BY <1>t, <1>8, <2>2 DEF RemoveReads, Removing, Types
    <3> QED BY <1>o, <2>2, <3>1
  <2> QED BY <1>t, <2>1, <2>2
<1>9. ASSUME NEW p \in Runs, RemoveFlushes(p)
      PROVE  OwnTmp'
  <2>1. UNCHANGED <<tmp, tfd, buf, single>> /\ pc[p] = "flush" /\ pc'[p] = "rename"
    BY <1>t, <1>9 DEF RemoveFlushes, Types
  <2>2. ASSUME single, NEW q \in Runs, q # p
        PROVE  pc'[q] \notin {"read", "flush", "rename"}
    <3>1. pc[p] \in Removing /\ pc'[q] = pc[q]
      BY <1>t, <1>9, <2>2 DEF RemoveFlushes, Removing, Types
    <3> QED BY <1>o, <2>2, <3>1
  <2>3. single => data'[tfd[p]] = buf[p]
    <3>1. /\ data[tfd[p]] \in Seq(Domains) /\ buf[p] \in Seq(Domains)
          /\ data'[tfd[p]] = Overlay(data[tfd[p]], buf[p])
      <4>1. tfd[p] \in 0..used /\ tfd[p] # 0 /\ used \in 1..MaxInodes
        BY <1>t, <2>1 DEF Types, Open
      <4>2. tfd[p] \in DOMAIN data /\ tfd[p] \in 1..MaxInodes
        BY <1>t, <4>1, InodesAssumption DEF Types
      <4>3. data[tfd[p]] \in Seq(Domains) /\ buf[p] \in Seq(Domains)
        BY <1>t, <4>2 DEF Types
      <4>4. data' = [data EXCEPT ![tfd[p]] = Overlay(@, buf[p])]
        BY <1>9 DEF RemoveFlushes
      <4> QED BY <1>t, <4>2, <4>3, <4>4 DEF Types
    <3> QED BY <1>t, <2>1, <3>1, OverlayLines
  <2> QED BY <1>t, <2>1, <2>2, <2>3
<1>10. ASSUME NEW p \in Runs, RemoveRenames(p)
       PROVE  OwnTmp'
  <2>1. UNCHANGED single /\ pc'[p] = "idle"
    BY <1>t, <1>10 DEF RemoveRenames, Types
  <2>2. ASSUME single, NEW q \in Runs, q # p
        PROVE  pc'[q] \notin {"read", "flush", "rename"}
    <3>1. pc[p] \in Removing /\ pc'[q] = pc[q]
      BY <1>t, <1>10, <2>2 DEF RemoveRenames, Removing, Types
    <3> QED BY <1>o, <2>2, <3>1
  <2> QED BY <2>1, <2>2
<1>11. ASSUME NEW p \in Runs, ResetRemoves(p) \/ ResetTouches(p)
       PROVE  OwnTmp'
  BY <1>t, <1>11 DEF ResetRemoves, ResetTouches, Types
<1> QED BY <1>1, <1>2, <1>3, <1>4, <1>5, <1>6, <1>7, <1>8, <1>9, <1>10, <1>11, StepCases
        DEF Idle

THEOREM SnapshotInvariant == Spec => []SnapshotInv
<1>1. Init => OneRemoval /\ CalmIsSingle /\ OwnTmp
  BY DEF Init, OneRemoval, CalmIsSingle, OwnTmp, Removing
<1>2. SnapshotInv /\ [Next]_vars => OneRemoval' /\ CalmIsSingle' /\ OwnTmp'
  BY OneRemovalStep, CalmIsSingleStep, OwnTmpStep DEF SnapshotInv
<1> QED BY <1>1, <1>2, FilesInvariant, PTL DEF Spec, SnapshotInv

(***************************************************************************)
(* A removal installs the list it has read but for its own domain          *)
(* (remove_domain_in_list), whatever additions and resets came in between, *)
(* unless a second removal has shared domains_tmp.txt with one.            *)
(***************************************************************************)
THEOREM RenameCorrect == Spec => RenameInstallsSnapshot
<1>1. SnapshotInv /\ [Next]_vars =>
         [\A p \in Runs : (single /\ RemoveRenames(p)) => Listed' = ToSet(buf[p])]_vars
  <2> SUFFICES ASSUME SnapshotInv, NEW p \in Runs, single, RemoveRenames(p)
               PROVE  Listed' = ToSet(buf[p])
    OBVIOUS
  <2>1. pc[p] = "rename" /\ tfd[p] = tmp /\ tmp # 0 /\ data[tmp] = buf[p]
    BY DEF SnapshotInv, FilesInv, Open, OwnTmp, RemoveRenames
  <2>2. domains' = tmp /\ data' = data
    BY <2>1 DEF RemoveRenames
  <2> QED BY <2>1, <2>2 DEF Listed
<1> QED BY <1>1, SnapshotInvariant, PTL DEF Spec, RenameInstallsSnapshot

----------------------------------------------------------------------------
(* The list while only additions overlap. *)

\* What the steps of a run that reads and writes files leave alone.
LEMMA FileSteps ==
    ASSUME FilesInv, NEW p \in Runs,
           \/ AppendOpens(p) \/ AppendWrites(p)
           \/ RemoveOpens(p) \/ RemoveOpensTmp(p)
           \/ RemoveReads(p) \/ RemoveFlushes(p) \/ RemoveRenames(p)
           \/ ResetRemoves(p) \/ ResetTouches(p)
    PROVE  /\ pc[p] # "idle" /\ UNCHANGED <<arg, calm, alone>>
           /\ \A q \in Runs : q # p => pc'[q] = pc[q] /\ fd'[q] = fd[q] /\ buf'[q] = buf[q]
           /\ ~AppendOpens(p) /\ ~AppendWrites(p) => pc[p] \notin Adding
           /\ pc[p] \in Adding => pc'[p] \in Adding \cup {"idle"}
<1> USE DEF FilesInv, Types, Goto, files, locals, history, Adding
<1>1. CASE AppendOpens(p) \/ AppendWrites(p)
  BY <1>1 DEF AppendOpens, AppendWrites
<1>2. CASE RemoveOpens(p) \/ RemoveOpensTmp(p) \/ RemoveReads(p)
  BY <1>2 DEF RemoveOpens, RemoveOpensTmp, RemoveReads
<1>3. CASE RemoveFlushes(p) \/ RemoveRenames(p)
  BY <1>3 DEF RemoveFlushes, RemoveRenames
<1>4. CASE ResetRemoves(p) \/ ResetTouches(p)
  BY <1>4 DEF ResetRemoves, ResetTouches
<1> QED BY <1>1, <1>2, <1>3, <1>4

LEMMA StartFacts ==
    ASSUME FilesInv, NEW p \in Runs, NEW d \in Domains,
           NEW first \in {"check", "open", "clear"}, Start(p, d, first)
    PROVE  /\ pc[p] = "idle" /\ pc' = [pc EXCEPT ![p] = first]
           /\ arg' = [arg EXCEPT ![p] = d] /\ UNCHANGED files
           /\ \A q \in Runs : q # p => fd'[q] = fd[q] /\ buf'[q] = buf[q]
           /\ calm' => calm /\ \A q \in Runs :
                          pc[q] = "idle" \/ (pc[q] \in Adding /\ first \in Adding)
           /\ alone' => alone /\ \A q \in Runs : pc[q] = "idle"
  BY DEF Start, FilesInv, Types, Goto

LEMMA OnlyAdditionsStep == FilesInv /\ OnlyAdditions /\ [Next]_vars => OnlyAdditions'
<1> SUFFICES ASSUME FilesInv, OnlyAdditions, [Next]_vars
             PROVE  OnlyAdditions'
  OBVIOUS
<1> USE DEF OnlyAdditions
<1>t. pc \in [Runs -> Steps]
  BY DEF FilesInv, Types
<1>1. CASE UNCHANGED vars
  BY <1>1 DEF vars
<1>2. ASSUME NEW p \in Runs, NEW d \in Domains, NEW first \in {"check", "open", "clear"},
             Start(p, d, first)
      PROVE  OnlyAdditions'
  BY <1>t, <1>2, StartFacts
<1>3. ASSUME NEW p \in Runs, Idle(p)
      PROVE  OnlyAdditions'
  <2>1. UNCHANGED calm /\ \A q \in Runs : q # p => pc'[q] = pc[q]
    BY <1>t, <1>3, IdleSteps DEF history
  <2>2. pc'[p] # "idle" => pc[p] # "idle" /\ pc'[p] \in Adding /\ pc[p] \in Adding
    BY <1>t, <1>3, IdleSteps DEF Adding
  <2> QED BY <2>1, <2>2
<1>4. ASSUME NEW p \in Runs,
             \/ AppendOpens(p) \/ AppendWrites(p)
             \/ RemoveOpens(p) \/ RemoveOpensTmp(p)
             \/ RemoveReads(p) \/ RemoveFlushes(p) \/ RemoveRenames(p)
             \/ ResetRemoves(p) \/ ResetTouches(p)
      PROVE  OnlyAdditions'
  BY <1>4, FileSteps
<1> QED BY <1>1, <1>2, <1>3, <1>4, StepCases DEF Idle

LEMMA Others ==
    ASSUME OnlyAdditions, calm, NEW p \in Runs, pc[p] # "idle", NEW q \in Runs, q # p
    PROVE  /\ pc[q] \in Adding \cup {"idle"}
           /\ pc[p] \notin Adding => pc[q] = "idle"
BY DEF OnlyAdditions

\* Of the files only the list itself and the temporary file matter.
LEMMA ListStays ==
    ASSUME domains' = domains, domains # 0 => data'[domains] = data[domains]
    PROVE  Listed' = Listed
BY DEF Listed

LEMMA SoundStays ==
    ASSUME NEW q \in Runs, Sound(q), domains' = domains, Listed' = Listed,
           pc'[q] = pc[q], fd'[q] = fd[q], buf'[q] = buf[q], arg'[q] = arg[q]
    PROVE  Sound(q)'
BY DEF Sound

LEMMA UndisturbedStep ==
    ASSUME SetInv, [Next]_vars, calm', NEW q \in Runs
    PROVE  Sound(q)'
<1>t. /\ Types /\ FilesInv /\ TmpApart /\ Open /\ NewOnesEmpty
      /\ OnlyAdditions /\ Undisturbed /\ CalmIsSingle /\ OwnTmp
  BY DEF SetInv, SnapshotInv, FilesInv
<1> USE DEF files, locals, history
<1>1. CASE UNCHANGED vars
  BY <1>t, <1>1 DEF vars, Sound, Undisturbed, Listed
<1>2. ASSUME NEW p \in Runs, NEW d \in Domains, NEW first \in {"check", "open", "clear"},
             Start(p, d, first)
      PROVE  Sound(q)'
  <2>1. CASE q = p
    <3>1. pc'[q] \in {"check", "open", "clear"}
      BY <1>t, <1>2, <2>1, StartFacts DEF Types
    <3> QED BY <3>1 DEF Sound
  <2>2. CASE q # p
    <3>1. pc'[q] = pc[q] /\ fd'[q] = fd[q] /\ buf'[q] = buf[q] /\ arg'[q] = arg[q]
      BY <1>t, <1>2, <2>2, StartFacts DEF Types
    <3>2. domains' = domains /\ data' = data /\ calm
      BY <1>t, <1>2, StartFacts
    <3> QED BY <1>t, <3>1, <3>2, ListStays, SoundStays DEF Undisturbed
  <2> QED BY <2>1, <2>2
<1>3. ASSUME NEW p \in Runs, Idle(p)
      PROVE  Sound(q)'
  <2>1. UNCHANGED <<files, locals, history>>
    BY <1>t, <1>3, IdleSteps
  <2>2. pc'[q] = pc[q] \/ pc'[q] = "idle" \/ (pc'[q] = "append" /\ domains # 0)
    BY <1>t, <1>3, IdleSteps DEF Types
  <2>3. Sound(q) /\ Listed' = Listed
    BY <1>t, <2>1, ListStays DEF Undisturbed
  <2> QED BY <2>1, <2>2, <2>3, SoundStays DEF Sound
<1>4. ASSUME NEW p \in Runs, q # p,
             \/ AppendOpens(p) \/ AppendWrites(p)
             \/ RemoveOpens(p) \/ RemoveOpensTmp(p)
             \/ RemoveReads(p) \/ RemoveFlushes(p) \/ RemoveRenames(p)
             \/ ResetRemoves(p) \/ ResetTouches(p)
      PROVE  Sound(q)'
  <2>1. /\ calm /\ pc[p] # "idle"
        /\ pc'[q] = pc[q] /\ fd'[q] = fd[q] /\ buf'[q] = buf[q] /\ arg'[q] = arg[q]
    BY <1>t, <1>4, FileSteps
  <2>2. Sound(q) /\ Sound(p)
    BY <1>t, <2>1 DEF Undisturbed
  <2>3. CASE pc[q] = "idle"
    BY <2>1, <2>3 DEF Sound
  <2>4. CASE pc[q] # "idle"
    <3>1. pc[p] \in Adding /\ pc[q] \in Adding
      BY <1>t, <2>1, <2>4, <1>4, Others
    <3>2. AppendOpens(p) \/ AppendWrites(p)
      BY <1>t, <1>4, <3>1, FileSteps
    <3>3. domains' = domains
      BY <2>2, <3>2 DEF AppendOpens, AppendWrites, Sound
    <3> QED BY <2>1, <2>2, <3>1, <3>3 DEF Sound, Adding
  <2> QED BY <2>3, <2>4
<1>5. CASE AppendOpens(q)
  <2>1. Sound(q) /\ pc[q] = "append" /\ pc'[q] = "write"
    BY <1>t, <1>5 DEF AppendOpens, Goto, Types, Undisturbed
  <2>2. domains # 0 /\ domains' = domains /\ fd'[q] = domains
    BY <1>t, <1>5, <2>1 DEF AppendOpens, Types, Sound
  <2> QED BY <2>1, <2>2 DEF Sound
<1>6. CASE AppendWrites(q) \/ RemoveRenames(q) \/ ResetTouches(q)
  <2>1. pc'[q] = "idle"
    BY <1>t, <1>6 DEF AppendWrites, RemoveRenames, ResetTouches, Goto, Types
  <2> QED BY <2>1 DEF Sound
<1>7. CASE RemoveOpens(q)
  <2>1. pc'[q] = "opentmp" /\ fd'[q] = domains /\ domains' = domains
    BY <1>t, <1>7 DEF RemoveOpens, Goto, Types
  <2> QED BY <2>1 DEF Sound
<1>8. CASE RemoveOpensTmp(q)
  <2>1. pc[q] = "opentmp" /\ pc'[q] = "read" /\ UNCHANGED <<fd, domains, calm>>
    BY <1>t, <1>8 DEF RemoveOpensTmp, Goto, Types
  <2> QED BY <1>t, <2>1 DEF Sound, Undisturbed
<1>9. CASE RemoveReads(q)
  <2>1. /\ pc[q] = "read" /\ pc'[q] = "flush" /\ UNCHANGED <<fd, domains, data, arg, calm>>
        /\ buf'[q] = Without(data[fd[q]], arg[q])
    BY <1>t, <1>9 DEF RemoveReads, Goto, Types
  <2>2. fd[q] = domains /\ domains # 0
    BY <1>t, <2>1 DEF Sound, Undisturbed, Open
  <2>3. data[domains] \in Seq(Domains)
    <3>1. used \in 1..MaxInodes /\ domains \in 0..used
      BY <1>t DEF Types
    <3>2. domains \in 1..MaxInodes
      BY <2>2, <3>1, InodesAssumption
    <3> QED BY <1>t, <3>2 DEF Types
  <2>4. ToSet(buf'[q]) = Listed \ {arg[q]}
    BY <2>1, <2>2, <2>3, WithoutLines DEF Listed
  <2>5. Listed' = Listed
    BY <2>1 DEF Listed
  <2> QED BY <2>1, <2>2, <2>4, <2>5 DEF Sound
<1>10. CASE RemoveFlushes(q)
  <2>1. /\ pc[q] = "flush" /\ pc'[q] = "rename" /\ UNCHANGED <<fd, domains, buf, arg, calm>>
        /\ data' = [data EXCEPT ![tfd[q]] = Overlay(@, buf[q])]
    BY <1>t, <1>10 DEF RemoveFlushes, Goto, Types
  <2>2. tfd[q] # domains
    BY <1>t, <2>1 DEF CalmIsSingle, OwnTmp, Open, TmpApart
  <2>3. domains # 0 => data'[domains] = data[domains]
    <3>1. data \in [1..MaxInodes -> Seq(Domains)]
      BY <1>t DEF Types
    <3> QED BY <2>1, <2>2, <3>1
  <2>4. Listed' = Listed /\ Sound(q)
    BY <1>t, <2>1, <2>3, ListStays DEF Undisturbed
  <2> QED BY <2>1, <2>4 DEF Sound
<1>11. CASE ResetRemoves(q)
  <2>1. pc'[q] = "touch" /\ domains' = 0
    BY <1>t, <1>11 DEF ResetRemoves, Goto, Types
  <2> QED BY <2>1 DEF Sound
<1> QED BY <1>1, <1>2, <1>3, <1>4, <1>5, <1>6, <1>7, <1>8, <1>9, <1>10, <1>11, StepCases
        DEF Idle

THEOREM SetInvariant == Spec => []SetInv
<1>1. Init => OnlyAdditions /\ Undisturbed
  BY DEF Init, OnlyAdditions, Undisturbed, Sound
<1>2. SetInv /\ [Next]_vars => OnlyAdditions' /\ Undisturbed'
  BY OnlyAdditionsStep, UndisturbedStep DEF SetInv, SnapshotInv, Undisturbed
<1> QED BY <1>1, <1>2, SnapshotInvariant, PTL DEF Spec, SetInv

----------------------------------------------------------------------------
(* The refinement. *)

LEMMA PendingStays ==
    ASSUME NEW q \in Runs, arg'[q] = arg[q],
           \/ pc'[q] = pc[q]
           \/ \E K \in {Adding, Removing, Resetting} : pc[q] \in K /\ pc'[q] \in K
    PROVE  Pending(q)' = Pending(q)
BY DEF Pending, Adding, Removing, Resetting

LEMMA PendingEnds ==
    ASSUME NEW q \in Runs, pc'[q] = "idle"
    PROVE  Pending(q)' = [op |-> "none"]
BY DEF Pending

\* A step of the run p that changes nothing that is seen of it ...
LEMMA Unseen ==
    ASSUME calm, calm', calm' = calm, Listed' = Listed,
           \A q \in Runs : Pending(q)' = Pending(q)
    PROVE  UNCHANGED Set!setVars
BY DEF Set!setVars

\* ... one that ends it without effect ...
LEMMA GivesUp ==
    ASSUME NEW p \in Runs, calm, calm', calm' = calm, Listed' = Listed,
           pc'[p] = "idle", \A q \in Runs \ {p} : Pending(q)' = Pending(q)
    PROVE  Set!GiveUp(p)
<1>1. \A q \in Runs : Pending(q)' = IF q = p THEN [op |-> "none"] ELSE Pending(q)
  BY PendingEnds
<1> QED BY <1>1 DEF Set!GiveUp, Set!None

\* ... and one in which its command takes effect.
LEMMA Performs ==
    ASSUME NEW p \in Runs, calm, calm', calm' = calm, pc[p] # "idle",
           Listed' = Set!Effect(Pending(p), Listed),
           pc'[p] = "idle" \/ Pending(p)' = Pending(p),
           \A q \in Runs \ {p} : Pending(q)' = Pending(q)
    PROVE  Set!Perform(p)
<1> DEFINE P == [q \in Runs |-> IF calm THEN Pending(q) ELSE [op |-> "none"]]
<1>1. P[p] = Pending(p) /\ Pending(p) # [op |-> "none"]
  <2>1. Pending(p).op # "none"
    BY DEF Pending
  <2> QED BY <2>1
<1>2. P' \in {P, [P EXCEPT ![p] = [op |-> "none"]]}
  <2>1. CASE pc'[p] = "idle"
    <3>1. \A q \in Runs : Pending(q)' = IF q = p THEN [op |-> "none"] ELSE Pending(q)
      BY <2>1, PendingEnds
    <3>2. P' = [P EXCEPT ![p] = [op |-> "none"]]
      BY <3>1
    <3> QED BY <3>2
  <2>2. CASE Pending(p)' = Pending(p)
    <3>1. \A q \in Runs : Pending(q)' = Pending(q)
      BY <2>2
    <3>2. P' = P
      BY <3>1
    <3> QED BY <3>2
  <2> QED BY <2>1, <2>2
<1>3. (IF calm THEN Listed ELSE {})' = Set!Effect(P[p], IF calm THEN Listed ELSE {})
  BY <1>1
<1> QED BY <1>1, <1>2, <1>3 DEF Set!Perform, Set!None

\* The steps of a run that is under way.
LEMMA RunSimulates ==
    ASSUME SetInv, calm, calm', calm' = calm, NEW p \in Runs,
           \/ Idle(p) \/ AppendOpens(p) \/ AppendWrites(p)
           \/ RemoveOpens(p) \/ RemoveOpensTmp(p)
           \/ RemoveReads(p) \/ RemoveFlushes(p) \/ RemoveRenames(p)
           \/ ResetRemoves(p) \/ ResetTouches(p)
    PROVE  [Set!DomainSetNext]_(Set!setVars)
<1>t. /\ Types /\ FilesInv /\ TmpApart /\ Open /\ NewOnesEmpty
      /\ CalmIsSingle /\ OwnTmp /\ Sound(p)
  BY DEF SetInv, SnapshotInv, FilesInv, Undisturbed
<1> USE DEF Set!DomainSetNext, files, locals, history
<1>1. \A q \in Runs \ {p} : Pending(q)' = Pending(q)
  <2>1. \A q \in Runs \ {p} : pc'[q] = pc[q] /\ arg'[q] = arg[q]
    <3>1. CASE Idle(p)
      BY <1>t, <3>1, IdleSteps DEF Types
    <3>2. CASE ~Idle(p)
      BY <1>t, <3>2, FileSteps
    <3> QED BY <3>1, <3>2
  <2> QED BY <2>1, PendingStays
<1>2. arg'[p] = arg[p]
  BY <1>t, IdleSteps, FileSteps
<1>3. CASE Idle(p)
  <2>1. Listed' = Listed
    BY <1>t, <1>3, IdleSteps, ListStays
  <2>2. CASE pc'[p] = "idle"
    BY <1>1, <2>1, <2>2, GivesUp
  <2>3. CASE pc[p] = "check" /\ pc'[p] = "append"
    <3>1. Pending(p)' = Pending(p)
      BY <1>2, <2>3, PendingStays DEF Adding
    <3> QED BY <1>1, <2>1, <3>1, Unseen
  <2>4. pc'[p] = "idle" \/ (pc[p] = "check" /\ pc'[p] = "append")
    BY <1>t, <1>3, IdleSteps DEF Types
  <2> QED BY <2>2, <2>3, <2>4
<1>4. CASE AppendOpens(p)
  <2>1. pc[p] = "append" /\ pc'[p] = "write" /\ data' = data /\ domains' = domains
    BY <1>t, <1>4 DEF AppendOpens, Goto, Types, Sound
  <2>2. Listed' = Listed /\ Pending(p)' = Pending(p)
    BY <1>2, <2>1, ListStays, PendingStays DEF Adding
  <2> QED BY <1>1, <2>2, Unseen
<1>5. CASE AppendWrites(p)
  <2>1. /\ pc[p] = "write" /\ pc'[p] = "idle" /\ domains' = domains
        /\ data' = [data EXCEPT ![fd[p]] = Append(@, arg[p])]
    BY <1>t, <1>5 DEF AppendWrites, Goto, Types
  <2>2. fd[p] = domains /\ domains # 0 /\ domains \in 1..MaxInodes
    <3>1. fd[p] = domains /\ fd[p] # 0 /\ used \in 1..MaxInodes /\ domains \in 0..used
      BY <1>t, <2>1 DEF Sound, Open, Types
    <3> QED BY <3>1, InodesAssumption
  <2>3. data'[domains] = Append(data[domains], arg[p]) /\ data[domains] \in Seq(Domains)
    BY <1>t, <2>1, <2>2 DEF Types
  <2>4. Listed' = Listed \cup {arg[p]}
    BY <1>t, <2>1, <2>2, <2>3, AppendLine DEF Listed, Types
  <2>5. Pending(p) = [op |-> "add", domain |-> arg[p]]
    BY <2>1 DEF Pending, Adding
  <2>6. Set!Effect(Pending(p), Listed) = Listed \cup {arg[p]}
    BY <2>5 DEF Set!Effect
  <2> QED BY <1>1, <2>1, <2>4, <2>6, Performs
<1>6. CASE RemoveOpens(p) \/ RemoveReads(p)
  <2>1. UNCHANGED <<domains, data>> /\ pc[p] \in Removing /\ pc'[p] \in Removing
    BY <1>t, <1>6 DEF RemoveOpens, RemoveReads, Goto, Types, Removing
  <2>2. Listed' = Listed /\ Pending(p)' = Pending(p)
    BY <1>2, <2>1, ListStays, PendingStays
  <2> QED BY <1>1, <2>2, Unseen
<1>7. CASE RemoveOpensTmp(p)
  <2>1. UNCHANGED domains /\ pc[p] \in Removing /\ pc'[p] \in Removing
    BY <1>t, <1>7 DEF RemoveOpensTmp, Goto, Types, Removing
  <2>2. domains # 0 => data'[domains] = data[domains]
    <3>1. tmp # 0 => domains # tmp /\ data' = [data EXCEPT ![tmp] = << >>]
      BY <1>t, <1>7 DEF RemoveOpensTmp, TmpApart
    <3>2. tmp = 0 => data' = data
      BY <1>7 DEF RemoveOpensTmp
    <3>3. data \in [1..MaxInodes -> Seq(Domains)]
      BY <1>t DEF Types
    <3>4. CASE tmp = 0
      BY <3>2, <3>4
    <3>5. CASE tmp # 0
      <4>1. domains # tmp /\ data' = [data EXCEPT ![tmp] = << >>]
        BY <3>1, <3>5
      <4>2. ASSUME domains # 0
            PROVE  domains \in 1..MaxInodes
        <5>1. used \in 1..MaxInodes /\ domains \in 0..used
          BY <1>t DEF Types
        <5> QED BY <4>2, <5>1, InodesAssumption
      <4> QED BY <2>1, <3>3, <4>1, <4>2
    <3> QED BY <3>4, <3>5
  <2>3. Listed' = Listed /\ Pending(p)' = Pending(p)
    BY <1>2, <2>1, <2>2, ListStays, PendingStays
  <2> QED BY <1>1, <2>3, Unseen
<1>8. CASE RemoveFlushes(p)
  <2>1. /\ UNCHANGED domains /\ pc[p] = "flush" /\ pc'[p] = "rename"
        /\ data' = [data EXCEPT ![tfd[p]] = Overlay(@, buf[p])]
    BY <1>t, <1>8 DEF RemoveFlushes, Goto, Types
  <2>2. domains # 0 => data'[domains] = data[domains]
    <3>1. tfd[p] # domains
      BY <1>t, <2>1 DEF CalmIsSingle, OwnTmp, Open, TmpApart
    <3>2. data \in [1..MaxInodes -> Seq(Domains)]
      BY <1>t DEF Types
    <3> QED BY <2>1, <3>1, <3>2
  <2>3. Listed' = Listed /\ Pending(p)' = Pending(p)
    BY <1>2, <2>1, <2>2, ListStays, PendingStays DEF Removing
  <2> QED BY <1>1, <2>3, Unseen
<1>9. CASE RemoveRenames(p)
  <2>1. pc[p] = "rename" /\ pc'[p] = "idle" /\ UNCHANGED data
    BY <1>t, <1>9 DEF RemoveRenames, Goto, Types
  <2>2. tfd[p] = tmp /\ tmp # 0 /\ data[tmp] = buf[p] /\ ToSet(buf[p]) = Listed \ {arg[p]}
    BY <1>t, <2>1 DEF CalmIsSingle, OwnTmp, Open, Sound
  <2>3. domains' = tmp
    BY <1>9, <2>2 DEF RemoveRenames
  <2>4. Listed' = Listed \ {arg[p]}
    BY <2>1, <2>2, <2>3 DEF Listed
  <2>5. Pending(p) = [op |-> "remove", domain |-> arg[p]]
    BY <2>1 DEF Pending, Adding, Removing
  <2>6. Set!Effect(Pending(p), Listed) = Listed \ {arg[p]}
    BY <2>5 DEF Set!Effect
  <2> QED BY <1>1, <2>1, <2>4, <2>6, Performs
<1>10. CASE ResetRemoves(p)
  <2>1. pc[p] = "clear" /\ pc'[p] = "touch" /\ domains' = 0
    BY <1>t, <1>10 DEF ResetRemoves, Goto, Types
  <2>2. Listed' = {} /\ Pending(p)' = Pending(p)
    BY <1>2, <2>1, PendingStays DEF Listed, Resetting
  <2>3. Pending(p) = [op |-> "reset", domain |-> arg[p]]
    BY <2>1 DEF Pending, Adding, Removing
  <2>4. Set!Effect(Pending(p), Listed) = {}
    BY <2>3 DEF Set!Effect
  <2> QED BY <1>1, <2>1, <2>2, <2>4, Performs
<1>11. CASE ResetTouches(p)
  <2>1. /\ pc[p] = "touch" /\ pc'[p] = "idle" /\ data' = data /\ domains = 0
        /\ used < MaxInodes /\ domains' = used + 1
    BY <1>t, <1>11 DEF ResetTouches, Goto, Types, Sound
  <2>2. data[used + 1] = << >> /\ used + 1 # 0
    BY <1>t, <2>1, InodesAssumption DEF Types, NewOnesEmpty
  <2>3. Listed' = {} /\ Listed = {}
    BY <2>1, <2>2, EmptyLines DEF Listed
  <2> QED BY <1>1, <2>1, <2>3, GivesUp
<1> QED BY <1>3, <1>4, <1>5, <1>6, <1>7, <1>8, <1>9, <1>10, <1>11

\* A run that starts asks for its command, unless it gets in another's way.
LEMMA StartSimulates ==
    ASSUME SetInv, calm, NEW p \in Runs, NEW d \in Domains,
           NEW first \in {"check", "open", "clear"}, Start(p, d, first)
    PROVE  Set!DomainSetNext
<1>t. FilesInv /\ Types
  BY DEF SetInv, SnapshotInv, FilesInv
<1> USE DEF Set!DomainSetNext
<1>1. CASE ~calm'
  <2>1. calm' = FALSE
    BY <1>1 DEF Start
  <2> QED BY <2>1 DEF Set!Overlap, Set!NoRun, Set!None
<1>2. CASE calm'
  <2>1. \A q \in Runs \ {p} : Pending(q)' = Pending(q)
    BY <1>t, <1>2, StartFacts, PendingStays DEF Types
  <2>2. Listed' = Listed
    BY <1>t, <1>2, StartFacts, ListStays DEF files
  <2>3. Pending(p) = [op |-> "none"]
    BY <1>t, StartFacts DEF Pending
  <2>4. pc'[p] = first /\ arg'[p] = d
    BY <1>t, StartFacts DEF Types
  <2>5. Pending(p)' \in Set!Command
    BY <2>4 DEF Pending, Adding, Removing, Set!Command
  <2>6. PICK c \in Set!Command : c = Pending(p)'
    BY <2>5
  <2>7. \A q \in Runs : Pending(q)' = IF q = p THEN c ELSE Pending(q)
    BY <2>1, <2>6
  <2>8. calm' = calm
    BY <1>2 DEF Start, SetInv, SnapshotInv, CalmIsSingle
  <2>9. Set!Ask(p, c)
    BY <1>2, <2>2, <2>3, <2>7, <2>8 DEF Set!Ask, Set!None
  <2> QED BY <2>9
<1> QED BY <1>1, <1>2

LEMMA SetSimulation ==
    ASSUME SetInv, SetInv', [Next]_vars
    PROVE  [Set!DomainSetNext]_(Set!setVars)
<1>t. FilesInv /\ calm \in BOOLEAN /\ calm' \in BOOLEAN
  BY DEF SetInv, SnapshotInv, CalmIsSingle
<1>1. CASE UNCHANGED vars
  BY <1>1 DEF vars, Listed, Pending, Set!setVars
<1>2. ASSUME NEW p \in Runs, NEW d \in Domains, NEW first \in {"check", "open", "clear"},
             Start(p, d, first), ~calm
      PROVE  UNCHANGED calm
  BY <1>t, <1>2, StartFacts
<1>3. ASSUME NEW p \in Runs,
             \/ Idle(p) \/ AppendOpens(p) \/ AppendWrites(p)
             \/ RemoveOpens(p) \/ RemoveOpensTmp(p)
             \/ RemoveReads(p) \/ RemoveFlushes(p) \/ RemoveRenames(p)
             \/ ResetRemoves(p) \/ ResetTouches(p)
      PROVE  UNCHANGED calm
  BY <1>t, <1>3, IdleSteps, FileSteps DEF history
<1>4. CASE ~calm
  <2>1. UNCHANGED calm
    BY <1>2, <1>3, <1>4, StepCases DEF Idle, vars
  <2> QED BY <1>4, <2>1 DEF Set!setVars
<1>5. CASE calm
  <2>1. ASSUME NEW p \in Runs, NEW d \in Domains, NEW first \in {"check", "open", "clear"},
               Start(p, d, first)
        PROVE  Set!DomainSetNext
    BY <1>5, <2>1, StartSimulates
  <2> QED BY <1>1, <1>3, <1>5, <2>1, RunSimulates, StepCases DEF Idle
<1> QED BY <1>t, <1>4, <1>5

LEMMA SetInit == Init => Set!DomainSetInit
<1> SUFFICES ASSUME Init
             PROVE  Set!DomainSetInit
  OBVIOUS
<1>1. calm = TRUE /\ \A p \in Runs : Pending(p) = [op |-> "none"]
  BY DEF Init, Pending
<1>2. Listed \in SUBSET Domains
  <2>1. CASE domains = 0
    BY <2>1 DEF Listed
  <2>2. CASE domains = 1
    <3>1. data[1] \in {<< >>} \cup {<<d>> : d \in Domains}
      BY InodesAssumption DEF Init
    <3>2. ToSet(data[1]) \subseteq Domains
      BY <3>1 DEF ToSet
    <3> QED BY <2>2, <3>2 DEF Listed
  <2> QED BY <2>1, <2>2 DEF Init
<1> QED BY <1>1, <1>2 DEF Set!DomainSetInit, Set!NoRun, Set!None

(***************************************************************************)
(* Refinement: while no removal or reset overlaps another run, the runs on *)
(* domains.txt and domains_tmp.txt, killed at any step, implement the set  *)
(* of monitored domains, which changes as commands under way ask for.      *)
(***************************************************************************)
THEOREM DomainSetImplemented == Spec => ImplementsDomainSet
<1>1. SetInv /\ SetInv' /\ [Next]_vars =>
         [Set!DomainSetNext]_(Set!setVars)
  BY SetSimulation
<1> QED BY <1>1, SetInvariant, SetInit, PTL
        DEF Spec, ImplementsDomainSet, Set!DomainSetSpec

----------------------------------------------------------------------------
(* No duplicates. *)

LEMMA OnlyOneStep == SetInv /\ OnlyOne /\ [Next]_vars => OnlyOne'
<1> SUFFICES ASSUME SetInv, OnlyOne, [Next]_vars
             PROVE  OnlyOne'
  OBVIOUS
<1> USE DEF OnlyOne
<1>t. FilesInv /\ pc \in [Runs -> Steps]
  BY DEF SetInv, SnapshotInv, FilesInv, Types
<1>1. CASE UNCHANGED vars
  BY <1>1 DEF vars
<1>2. ASSUME NEW p \in Runs, NEW d \in Domains, NEW first \in {"check", "open", "clear"},
             Start(p, d, first)
      PROVE  OnlyOne'
  <2>1. ASSUME alone'
        PROVE  calm'
    BY <1>t, <1>2, <2>1, StartFacts DEF Start
  <2> QED BY <1>t, <1>2, <2>1, StartFacts
<1>3. ASSUME NEW p \in Runs, Idle(p)
      PROVE  OnlyOne'
  <2>1. UNCHANGED <<calm, alone>> /\ \A q \in Runs : q # p => pc'[q] = pc[q]
    BY <1>t, <1>3, IdleSteps DEF history
  <2>2. pc'[p] # "idle" => pc[p] # "idle"
    BY <1>t, <1>3, IdleSteps
  <2> QED BY <2>1, <2>2
<1>4. ASSUME NEW p \in Runs,
             \/ AppendOpens(p) \/ AppendWrites(p)
             \/ RemoveOpens(p) \/ RemoveOpensTmp(p)
             \/ RemoveReads(p) \/ RemoveFlushes(p) \/ RemoveRenames(p)
             \/ ResetRemoves(p) \/ ResetTouches(p)
      PROVE  OnlyOne'
  <2>1. /\ pc[p] # "idle" /\ UNCHANGED <<calm, alone>>
        /\ \A q \in Runs : q # p => pc'[q] = pc[q]
    BY <1>t, <1>4, FileSteps
  <2> QED BY <2>1
<1> QED BY <1>1, <1>2, <1>3, <1>4, StepCases DEF Idle

\* A run that is alone finds the others idle.
LEMMA OthersOnce ==
    ASSUME NEW p \in Runs, NEW q \in Runs, q # p, alone, OnlyOne, pc[p] # "idle",
           pc'[q] = pc[q]
    PROVE  RunOnce(q)'
BY DEF OnlyOne, RunOnce

LEMMA OnceStep ==
    ASSUME SetInv, SetInv', OnceInv, [Next]_vars, alone'
    PROVE  ListOnce' /\ \A q \in Runs : RunOnce(q)'
<1>t. /\ Types /\ FilesInv /\ TmpApart /\ Open /\ NewOnesEmpty
      /\ CalmIsSingle /\ OwnTmp /\ Undisturbed /\ OnlyOne
  BY DEF SetInv, SnapshotInv, FilesInv, OnceInv
<1> USE DEF files, locals, history
<1>1. CASE UNCHANGED vars
  <2>1. alone /\ Listed' = Listed
    BY <1>1 DEF vars, Listed
  <2> QED BY <1>1, <2>1 DEF vars, OnceInv, ListOnce, RunOnce
<1>2. ASSUME NEW p \in Runs, NEW d \in Domains, NEW first \in {"check", "open", "clear"},
             Start(p, d, first)
      PROVE  ListOnce' /\ \A q \in Runs : RunOnce(q)'
  <2>1. alone /\ UNCHANGED <<domains, data>> /\ \A q \in Runs : pc[q] = "idle"
    BY <1>t, <1>2, StartFacts
  <2>2. \A q \in Runs : pc'[q] \in {"idle", "check", "open", "clear"}
    BY <1>t, <1>2, <2>1, StartFacts DEF Types
  <2> QED BY <2>1, <2>2 DEF OnceInv, ListOnce, RunOnce
<1>3. ASSUME NEW p \in Runs, Idle(p)
      PROVE  ListOnce' /\ \A q \in Runs : RunOnce(q)'
  <2>1. alone /\ UNCHANGED <<domains, data, arg, buf>> /\ Listed' = Listed
    BY <1>t, <1>3, IdleSteps, ListStays
  <2>2. ASSUME NEW q \in Runs
        PROVE  pc'[q] = pc[q] \/ pc'[q] = "idle" \/ (pc'[q] = "append" /\ arg[q] \notin Listed)
    BY <1>t, <1>3, IdleSteps DEF Types
  <2> QED BY <2>1, <2>2 DEF OnceInv, ListOnce, RunOnce
<1>4. ASSUME NEW p \in Runs,
             \/ AppendOpens(p) \/ AppendWrites(p)
             \/ RemoveOpens(p) \/ RemoveOpensTmp(p)
             \/ RemoveReads(p) \/ RemoveFlushes(p) \/ RemoveRenames(p)
             \/ ResetRemoves(p) \/ ResetTouches(p)
      PROVE  ListOnce' /\ \A q \in Runs : RunOnce(q)'
  <2>1. /\ alone /\ pc[p] # "idle" /\ UNCHANGED arg
        /\ \A q \in Runs : q # p => pc'[q] = pc[q]
    BY <1>t, <1>4, FileSteps
  <2>2. ListOnce /\ RunOnce(p) /\ Sound(p) /\ calm
    BY <1>t, <2>1 DEF OnceInv, Undisturbed, OnlyOne
  <2>3. \A q \in Runs \ {p} : RunOnce(q)'
    BY <1>t, <2>1, OthersOnce
  <2>4. used \in 1..MaxInodes /\ domains \in 0..used /\ (domains # 0 => domains \in 1..MaxInodes)
    <3>1. used \in 1..MaxInodes /\ domains \in 0..used
      BY <1>t DEF Types
    <3> QED BY <3>1, InodesAssumption
  <2>5. ListOnce' /\ RunOnce(p)'
    <3>1. CASE AppendOpens(p)
      <4>1. pc[p] = "append" /\ data' = data /\ domains' = domains
        BY <2>2, <3>1 DEF AppendOpens, Sound
      <4> QED BY <1>t, <2>1, <2>2, <3>1, <4>1 DEF AppendOpens, Goto, Types, ListOnce, RunOnce, Listed
    <3>2. CASE AppendWrites(p)
      <4>1. /\ pc[p] = "write" /\ pc'[p] = "idle" /\ domains' = domains
            /\ data' = [data EXCEPT ![fd[p]] = Append(@, arg[p])]
        BY <1>t, <3>2 DEF AppendWrites, Goto, Types
      <4>2. fd[p] = domains /\ domains # 0
        BY <1>t, <2>2, <4>1 DEF Sound, Open
      <4>3. data'[domains] = Append(data[domains], arg[p]) /\ data[domains] \in Seq(Domains)
        BY <1>t, <2>4, <4>1, <4>2 DEF Types
      <4>4. Once(data[domains]) /\ arg[p] \notin ToSet(data[domains]) /\ arg[p] \in Domains
        BY <1>t, <2>2, <4>1, <4>2 DEF ListOnce, RunOnce, Listed, Types
      <4>5. Once(data'[domains])
        BY <4>3, <4>4, AppendLine
      <4> QED BY <4>1, <4>5 DEF ListOnce, RunOnce
    <3>3. CASE RemoveOpens(p)
      <4>1. pc'[p] = "opentmp" /\ UNCHANGED <<domains, data>>
        BY <1>t, <3>3 DEF RemoveOpens, Goto, Types
      <4> QED BY <2>2, <4>1 DEF ListOnce, RunOnce
    <3>4. CASE RemoveOpensTmp(p)
      <4>1. pc'[p] = "read" /\ UNCHANGED domains
        BY <1>t, <3>4 DEF RemoveOpensTmp, Goto, Types
      <4>2. domains # 0 => data'[domains] = data[domains]
        <5>1. CASE tmp = 0
          BY <3>4, <5>1 DEF RemoveOpensTmp
        <5>2. CASE tmp # 0
          <6>1. domains # tmp /\ data' = [data EXCEPT ![tmp] = << >>]
            BY <1>t, <3>4, <5>2 DEF RemoveOpensTmp, TmpApart
          <6> QED BY <1>t, <2>4, <6>1 DEF Types
        <5> QED BY <5>1, <5>2
      <4> QED BY <2>2, <4>1, <4>2 DEF ListOnce, RunOnce
    <3>5. CASE RemoveReads(p)
      <4>1. /\ pc[p] = "read" /\ pc'[p] = "flush" /\ UNCHANGED <<domains, data>>
            /\ buf'[p] = Without(data[fd[p]], arg[p])
        BY <1>t, <3>5 DEF RemoveReads, Goto, Types
      <4>2. fd[p] = domains /\ domains # 0
        BY <1>t, <2>2, <4>1 DEF Sound, Open
      <4>3. data[domains] \in Seq(Domains) /\ Once(data[domains])
        BY <1>t, <2>2, <2>4, <4>2 DEF Types, ListOnce
      <4>4. Once(buf'[p])
        BY <4>1, <4>2, <4>3, WithoutLines
      <4> QED BY <2>2, <4>1, <4>4 DEF ListOnce, RunOnce
    <3>6. CASE RemoveFlushes(p)
      <4>1. /\ pc[p] = "flush" /\ pc'[p] = "rename" /\ UNCHANGED <<domains, buf>>
            /\ data' = [data EXCEPT ![tfd[p]] = Overlay(@, buf[p])]
        BY <1>t, <3>6 DEF RemoveFlushes, Goto, Types
      <4>2. tfd[p] # domains
        BY <1>t, <2>2, <4>1 DEF CalmIsSingle, OwnTmp, Open, TmpApart
      <4>3. domains # 0 => data'[domains] = data[domains]
        BY <1>t, <2>4, <4>1, <4>2 DEF Types
      <4> QED BY <2>2, <4>1, <4>3 DEF ListOnce, RunOnce
    <3>7. CASE RemoveRenames(p)
      <4>1. pc[p] = "rename" /\ pc'[p] = "idle" /\ UNCHANGED data
        BY <1>t, <3>7 DEF RemoveRenames, Goto, Types
      <4>2. tmp # 0 /\ data[tmp] = buf[p] /\ Once(buf[p])
        BY <1>t, <2>2, <4>1 DEF CalmIsSingle, OwnTmp, Open, RunOnce
      <4>3. domains' = tmp
        BY <3>7, <4>2 DEF RemoveRenames
      <4> QED BY <4>1, <4>2, <4>3 DEF ListOnce, RunOnce
    <3>8. CASE ResetRemoves(p)
      <4>1. pc'[p] = "touch" /\ domains' = 0
        BY <1>t, <3>8 DEF ResetRemoves, Goto, Types
      <4> QED BY <4>1 DEF ListOnce, RunOnce
    <3>9. CASE ResetTouches(p)
      <4>1. /\ pc[p] = "touch" /\ pc'[p] = "idle" /\ data' = data /\ domains = 0
            /\ used < MaxInodes /\ domains' = used + 1
        BY <1>t, <2>2, <3>9 DEF ResetTouches, Goto, Types, Sound
      <4>2. data[used + 1] = << >>
        BY <1>t, <4>1, InodesAssumption DEF Types, NewOnesEmpty
      <4> QED BY <4>1, <4>2, EmptyLines DEF ListOnce, RunOnce
    <3> QED BY <1>4, <3>1, <3>2, <3>3, <3>4, <3>5, <3>6, <3>7, <3>8, <3>9
  <2> QED BY <2>3, <2>5
<1> QED BY <1>1, <1>2, <1>3, <1>4, StepCases DEF Idle

(***************************************************************************)
(* As long as no two runs overlap a domain is listed once: check_domain    *)
(* and add_domain_to_list are separate steps, but nothing comes between.   *)
(***************************************************************************)
THEOREM NoDuplicatesCorrect == Spec => []NoDuplicates
<1>1. Init => OnceInv
  <2> SUFFICES ASSUME Init
               PROVE  OnceInv
    OBVIOUS
  <2>1. ListOnce
    <3>1. domains # 0 => data[domains] \in {<< >>} \cup {<<d>> : d \in Domains}
      BY InodesAssumption DEF Init
    <3>2. \A f \in {<< >>} \cup {<<d>> : d \in Domains} : Once(f)
      BY DEF Once
    <3> QED BY <3>1, <3>2 DEF ListOnce
  <2> QED BY <2>1 DEF Init, OnceInv, OnlyOne, RunOnce
<1>2. SetInv /\ SetInv' /\ OnceInv /\ [Next]_vars => OnceInv'
  BY OnlyOneStep, OnceStep DEF OnceInv
<1>3. OnceInv => NoDuplicates
  BY DEF OnceInv, ListOnce, Once, NoDuplicates
<1> QED BY <1>1, <1>2, <1>3, SetInvariant, PTL DEF Spec

=============================================================================
